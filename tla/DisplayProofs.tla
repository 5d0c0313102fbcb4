---------------------------- MODULE DisplayProofs ----------------------------
(***************************************************************************)
(* Proofs about what the user sees and sets on Windows (MCDisplay), for    *)
(* any sets of hosts, profiles, clips and sizes and any bounds.  The feed  *)
(* of a decoder rests on RendererInv: what waits is in order, and linked   *)
(* back to the unit the decoder had last.  The playback preview rests on   *)
(* PlaybackInv: what the decoder holds back, what was rendered last is on  *)
(* the view, and the latest request waits, is worked on or is shown.       *)
(***************************************************************************)
EXTENDS MCDisplay, SequenceTheorems, WellFoundedInduction, TLAPS

(***************************************************************************)
(* The Setup window.                                                       *)
(***************************************************************************)
HostOrNone == Hosts \cup {Setup!NoHost}
SetupInv == Setup!TypeOK /\ Setup!TokenIsSaved
SetupJobs == jobs' = jobs \/ \E j \in Setup!Job : jobs' = Append(jobs, j)

LEMMA ReadKeeps ==
  ASSUME NEW e \in Setup!Settings, Setup!TypeOK
  PROVE  /\ Setup!Captured \in Setup!Shown
         /\ Setup!Read(e) \in Setup!Settings /\ Setup!Read(e).token = e.token
<1>1. Setup!Captured \in Setup!Shown
  BY DEF Setup!Captured, Setup!Shown, Setup!TypeOK
<1>2. Setup!Read(e) \in Setup!Settings /\ Setup!Read(e).token = e.token
  BY <1>1 DEF Setup!Read, Setup!Settings, Setup!Shown
<1> QED BY <1>1, <1>2

LEMMA WrittenIsTyped ==
  ASSUME NEW p \in Setup!Shown, NEW f \in Setup!Shown, Setup!TypeOK, Setup!Written(p, f)
  PROVE  /\ fields' \in Setup!Shown /\ panel' \in Setup!Shown
         /\ pushed' \in [host : HostOrNone, token : HostOrNone]
BY DEF Setup!Written, Setup!TypeOK, HostOrNone

LEMMA PushIsTyped ==
  ASSUME NEW e \in Setup!Settings, NEW p \in Setup!Shown, NEW f \in Setup!Shown,
         NEW changed \in BOOLEAN, Setup!TypeOK, Setup!Pushes(e, p, f, changed)
  PROVE  /\ fields' \in Setup!Shown /\ panel' \in Setup!Shown
         /\ pushed' \in [host : HostOrNone, token : HostOrNone]
<1>1. CASE changed \/ pushed # [host |-> e.host, token |-> e.token]
  <2>1. pushed' = [host |-> e.host, token |-> e.token] /\ panel' = [p EXCEPT !.host = e.host]
    BY <1>1 DEF Setup!Pushes
  <2>2. fields' = IF window = "none" THEN f ELSE [host |-> e.host, profile |-> p.profile]
    BY <1>1 DEF Setup!Pushes
  <2> QED BY <2>1, <2>2 DEF HostOrNone, Setup!Shown, Setup!Settings
<1>2. CASE ~(changed \/ pushed # [host |-> e.host, token |-> e.token])
  <2>1. Setup!Written(p, f) BY <1>2 DEF Setup!Pushes
  <2> QED BY <2>1, WrittenIsTyped
<1> QED BY <1>1, <1>2

LEMMA PushedIsTyped ==
  ASSUME NEW e \in Setup!Settings, NEW changed \in BOOLEAN, Setup!TypeOK,
         Setup!StatusPushed(e, changed)
  PROVE  /\ fields' \in Setup!Shown /\ panel' \in Setup!Shown
         /\ pushed' \in [host : HostOrNone, token : HostOrNone]
<1>1. panel \in Setup!Shown /\ fields \in Setup!Shown BY DEF Setup!TypeOK
<1> QED BY <1>1, PushIsTyped DEF Setup!StatusPushed

LEMMA UpdateIsTyped ==
  ASSUME NEW e \in Setup!Settings, Setup!TypeOK
  PROVE  Setup!Updated(e) \in Setup!Shown /\ Setup!UpdatedFields(e) \in Setup!Shown
BY DEF Setup!Updated, Setup!UpdatedFields, Setup!TypeOK, Setup!Shown, Setup!Settings

LEMMA UpdatedIsTyped ==
  ASSUME NEW e \in Setup!Settings, Setup!TypeOK, Setup!UpdatePanel(e)
  PROVE  fields' \in Setup!Shown /\ panel' \in Setup!Shown
BY UpdateIsTyped DEF Setup!UpdatePanel

LEMMA ConfigureIsTyped ==
  ASSUME NEW p \in Setup!Shown, NEW f \in Setup!Shown, Setup!TypeOK,
         ext' \in Setup!Settings, Setup!Configure(p, f)
  PROVE  /\ SetupJobs
         /\ fields' \in Setup!Shown /\ panel' \in Setup!Shown
         /\ pushed' \in [host : HostOrNone, token : HostOrNone]
<1>1. CASE jobs' = jobs /\ \E changed \in BOOLEAN : Setup!Pushes(ext', p, f, changed)
  BY <1>1, PushIsTyped DEF SetupJobs
<1>2. CASE Setup!Launch("configure", ext'.host) /\ Setup!Written(p, f)
  <2>1. SetupJobs BY <1>2 DEF SetupJobs, Setup!Launch, Setup!Job, Setup!Settings
  <2> QED BY <1>2, <2>1, WrittenIsTyped
<1> QED BY <1>1, <1>2 DEF Setup!Configure

\* A step of the user or a helper's answer keeps the types when its parts do.
LEMMA SetupParts ==
  ASSUME Setup!TypeOK, window' \in {"none", "shown", "hidden"},
         fields' \in Setup!Shown, panel' \in Setup!Shown,
         ext' \in Setup!Settings, saved' \in Setup!Settings,
         pushed' \in [host : HostOrNone, token : HostOrNone],
         acts' \in 0..MaxActs, found' \in HostOrNone,
         SetupJobs \/ jobs' = <<>> \/ \E i \in DOMAIN jobs : jobs' = Setup!RemoveAt(jobs, i)
  PROVE  Setup!TypeOK'
<1>1. jobs \in Seq(Setup!Job) BY DEF Setup!TypeOK
<1>2. jobs' \in Seq(Setup!Job)
  <2>1. CASE SetupJobs BY <1>1, <2>1 DEF SetupJobs
  <2>2. CASE jobs' = <<>> BY <2>2
  <2>3. CASE \E i \in DOMAIN jobs : jobs' = Setup!RemoveAt(jobs, i)
    <3>1. PICK i \in DOMAIN jobs : jobs' = Setup!RemoveAt(jobs, i) BY <2>3
    <3>2. i \in 1..Len(jobs) /\ Len(jobs) \in Nat BY <1>1, <3>1
    <3>3. jobs' = SubSeq(jobs, 1, i - 1) \o SubSeq(jobs, i + 1, Len(jobs))
      BY <3>1 DEF Setup!RemoveAt
    <3>4. SubSeq(jobs, 1, i - 1) \in Seq(Setup!Job) BY <1>1, <3>2
    <3>5. SubSeq(jobs, i + 1, Len(jobs)) \in Seq(Setup!Job) BY <1>1, <3>2
    <3> QED BY <3>3, <3>4, <3>5
  <2> QED BY <2>1, <2>2, <2>3
<1> QED BY <1>2 DEF Setup!TypeOK, HostOrNone

\* One step at a time: the types, and the saved token beside the extension's.
LEMMA SetupSteps ==
  ASSUME SetupInv, Setup!Next
  PROVE  SetupInv'
<1> USE DEF HostOrNone
<1>0. /\ Setup!TypeOK /\ saved.token = ext.token
      /\ window \in {"none", "shown", "hidden"} /\ fields \in Setup!Shown
      /\ panel \in Setup!Shown /\ ext \in Setup!Settings /\ saved \in Setup!Settings
      /\ pushed \in [host : HostOrNone, token : HostOrNone] /\ acts \in 0..MaxActs
      /\ found \in HostOrNone /\ Setup!NoHost \in HostOrNone
      /\ ext.host \in HostOrNone /\ ext.token \in HostOrNone /\ ext.profile \in Profiles
  BY DEF SetupInv, Setup!TypeOK, Setup!TokenIsSaved, Setup!Settings
<1>m. MaxActs \in Nat BY DisplayAssumption
<1>a. Setup!Act => acts' \in 0..MaxActs BY <1>0, <1>m DEF Setup!Act
<1>c. /\ Setup!Captured \in Setup!Shown
      /\ Setup!Read(ext) \in Setup!Settings /\ Setup!Read(ext).token = ext.token
  BY <1>0, ReadKeeps
<1>k. ASSUME Setup!TypeOK', saved'.token = ext'.token PROVE SetupInv'
  BY <1>k DEF SetupInv, Setup!TokenIsSaved
<1>s. saved' = saved /\ ext' = ext => saved'.token = ext'.token BY <1>0
<1>1. CASE Setup!OpenSetup
  <2>1. /\ window' = "shown" /\ fields' = panel /\ acts' \in 0..MaxActs
        /\ UNCHANGED <<panel, ext, saved, pushed, jobs, found>>
    BY <1>1, <1>a DEF Setup!OpenSetup
  <2>2. SetupJobs BY <2>1 DEF SetupJobs
  <2> QED BY <1>0, <1>k, <2>1, <2>2, SetupParts
<1>2. CASE Setup!CloseSetup
  <2>1. /\ window' = "hidden" /\ panel' = Setup!Captured /\ acts' \in 0..MaxActs
        /\ UNCHANGED <<fields, ext, saved, pushed, jobs, found>>
    BY <1>2, <1>a DEF Setup!CloseSetup
  <2>2. SetupJobs BY <2>1 DEF SetupJobs
  <2> QED BY <1>0, <1>c, <1>k, <2>1, <2>2, SetupParts
<1>3. CASE Setup!Discover
  <2>1. /\ panel' = Setup!Captured /\ acts' \in 0..MaxActs
        /\ UNCHANGED <<window, fields, ext, saved, pushed, found>>
    BY <1>3, <1>a DEF Setup!Discover
  <2>2. SetupJobs BY <1>0, <1>3 DEF SetupJobs, Setup!Discover, Setup!Launch, Setup!Job
  <2> QED BY <1>0, <1>c, <1>k, <2>1, <2>2, SetupParts
<1>4. CASE Setup!Pair
  <2>1. /\ panel' = Setup!Captured /\ ext' = Setup!Read(ext) /\ fields' = fields
        /\ acts' \in 0..MaxActs /\ UNCHANGED <<window, saved, pushed, found>>
    BY <1>4, <1>a DEF Setup!Pair, Setup!ReadPanel
  <2>2. SetupJobs
    <3>1. CASE ext'.host = Setup!NoHost BY <1>4, <3>1 DEF SetupJobs, Setup!Pair
    <3>2. CASE ext'.host # Setup!NoHost
      BY <1>4, <1>c, <2>1, <3>2
        DEF SetupJobs, Setup!Pair, Setup!Launch, Setup!Job, Setup!Settings
    <3> QED BY <3>1, <3>2
  <2> QED BY <1>0, <1>c, <1>k, <2>1, <2>2, SetupParts
<1>5. CASE Setup!Reconnect
  <2>1. /\ ext' = Setup!Read(ext) /\ Setup!Configure(Setup!Captured, fields)
        /\ saved' = ext' /\ acts' \in 0..MaxActs /\ UNCHANGED <<window, found>>
    BY <1>5, <1>a DEF Setup!Reconnect, Setup!Persist
  <2>2. /\ SetupJobs /\ fields' \in Setup!Shown /\ panel' \in Setup!Shown
        /\ pushed' \in [host : HostOrNone, token : HostOrNone]
    BY <1>0, <1>c, <2>1, ConfigureIsTyped
  <2> QED BY <1>0, <1>c, <1>k, <2>1, <2>2, SetupParts
<1>6. CASE Setup!ChooseLook
  <2>1. /\ ext' = ext /\ saved' = ext' /\ acts' \in 0..MaxActs /\ UNCHANGED <<window, found>>
        /\ \/ jobs' = jobs /\ Setup!Written(Setup!Updated(ext), Setup!UpdatedFields(ext))
           \/ Setup!Configure(Setup!Updated(ext), Setup!UpdatedFields(ext))
    BY <1>6, <1>a DEF Setup!ChooseLook, Setup!Persist
  <2>2. Setup!Updated(ext) \in Setup!Shown /\ Setup!UpdatedFields(ext) \in Setup!Shown
    BY <1>0, UpdateIsTyped
  <2>3. /\ SetupJobs /\ fields' \in Setup!Shown /\ panel' \in Setup!Shown
        /\ pushed' \in [host : HostOrNone, token : HostOrNone]
    <3>1. CASE jobs' = jobs /\ Setup!Written(Setup!Updated(ext), Setup!UpdatedFields(ext))
      BY <1>0, <2>2, <3>1, WrittenIsTyped DEF SetupJobs
    <3>2. CASE Setup!Configure(Setup!Updated(ext), Setup!UpdatedFields(ext))
      BY <1>0, <2>1, <2>2, <3>2, ConfigureIsTyped
    <3> QED BY <2>1, <3>1, <3>2
  <2> QED BY <1>0, <1>k, <2>1, <2>3, SetupParts
<1>7. CASE Setup!StatusChanges
  <2>1. /\ Setup!StatusPushed(ext, TRUE) /\ acts' \in 0..MaxActs
        /\ UNCHANGED <<window, ext, saved, jobs, found>>
    BY <1>7, <1>a DEF Setup!StatusChanges
  <2>2. /\ fields' \in Setup!Shown /\ panel' \in Setup!Shown
        /\ pushed' \in [host : HostOrNone, token : HostOrNone]
    BY <1>0, <2>1, PushedIsTyped
  <2>3. SetupJobs BY <2>1 DEF SetupJobs
  <2> QED BY <1>0, <1>k, <2>1, <2>2, <2>3, SetupParts
<1>8. ASSUME NEW host \in Hosts \cup {Setup!NoHost}, Setup!TypeHost(host) PROVE SetupInv'
  <2>1. /\ fields' = [fields EXCEPT !.host = host] /\ acts' \in 0..MaxActs
        /\ found' = Setup!NoHost /\ UNCHANGED <<window, panel, ext, saved, pushed, jobs>>
    BY <1>8, <1>a DEF Setup!TypeHost
  <2>2. fields' \in Setup!Shown BY <1>0, <1>8, <2>1 DEF Setup!Shown
  <2>3. SetupJobs BY <2>1 DEF SetupJobs
  <2> QED BY <1>0, <1>k, <2>1, <2>2, <2>3, SetupParts
<1>9. ASSUME NEW profile \in Profiles, Setup!PickProfile(profile) PROVE SetupInv'
  <2> DEFINE p == [Setup!Captured EXCEPT !.profile = profile]
             f == [fields EXCEPT !.profile = profile]
  <2>1. /\ ext' = [Setup!Read(ext) EXCEPT !.profile = profile] /\ saved' = ext'
        /\ acts' \in 0..MaxActs /\ UNCHANGED <<window, found>>
        /\ (jobs' = jobs /\ Setup!Written(p, f)) \/ Setup!Configure(p, f)
    BY <1>9, <1>a DEF Setup!PickProfile, Setup!Persist
  <2>2. p \in Setup!Shown /\ f \in Setup!Shown
    BY <1>0, <1>9, <1>c DEF Setup!Shown
  <2>3. ext' \in Setup!Settings /\ ext'.token = ext.token
    BY <1>9, <1>c, <2>1 DEF Setup!Settings
  <2> HIDE DEF p, f
  <2>4. /\ SetupJobs /\ fields' \in Setup!Shown /\ panel' \in Setup!Shown
        /\ pushed' \in [host : HostOrNone, token : HostOrNone]
    <3>1. CASE jobs' = jobs /\ Setup!Written(p, f)
      BY <1>0, <2>2, <3>1, WrittenIsTyped DEF SetupJobs
    <3>2. CASE Setup!Configure(p, f) BY <1>0, <2>2, <2>3, <3>2, ConfigureIsTyped
    <3> QED BY <2>1, <3>1, <3>2
  <2> QED BY <1>0, <1>k, <2>1, <2>3, <2>4, SetupParts
<1>10. ASSUME NEW quits \in BOOLEAN, Setup!Restart(quits) PROVE SetupInv'
  <2>1. /\ saved' = (IF quits THEN Setup!Read(ext) ELSE saved) /\ ext' = saved'
        /\ panel' = [host |-> ext'.host, profile |-> ext'.profile] /\ window' = "none"
        /\ fields' = panel' /\ jobs' = <<>> /\ acts' \in 0..MaxActs
        /\ pushed' = [host |-> Setup!NoHost, token |-> Setup!NoHost]
        /\ found' = Setup!NoHost
    BY <1>10, <1>a DEF Setup!Restart
  <2>2. ext' \in Setup!Settings /\ saved' \in Setup!Settings BY <1>0, <1>c, <2>1
  <2>3. panel' \in Setup!Shown BY <2>1, <2>2 DEF Setup!Shown, Setup!Settings
  <2> QED BY <1>0, <1>k, <2>1, <2>2, <2>3, SetupParts
<1>11. ASSUME NEW i \in 1..MaxActs, Setup!JobFails(i) PROVE SetupInv'
  <2>1. /\ i \in DOMAIN jobs /\ jobs' = Setup!RemoveAt(jobs, i)
        /\ UNCHANGED <<window, ext, saved, acts, found>>
    BY <1>11 DEF Setup!JobFails, Setup!Answered
  <2>2. UNCHANGED <<fields, panel, pushed>> \/ Setup!StatusPushed(ext, TRUE)
    BY <1>11 DEF Setup!JobFails
  <2>3. /\ fields' \in Setup!Shown /\ panel' \in Setup!Shown
        /\ pushed' \in [host : HostOrNone, token : HostOrNone]
    BY <1>0, <2>2, PushedIsTyped
  <2> QED BY <1>0, <1>k, <2>1, <2>3, SetupParts
<1>12. ASSUME NEW i \in 1..MaxActs, Setup!PairEnds(i) PROVE SetupInv'
  <2>1. /\ i \in DOMAIN jobs /\ jobs' = Setup!RemoveAt(jobs, i)
        /\ ext' = [ext EXCEPT !.token = jobs[i].host] /\ saved' = ext'
        /\ Setup!UpdatePanel(ext') /\ pushed' = [host |-> ext.host, token |-> ext'.token]
        /\ UNCHANGED <<window, acts, found>>
    BY <1>12 DEF Setup!PairEnds, Setup!Answered, Setup!Persist
  <2>2. jobs[i].host \in HostOrNone 
    <3>1. jobs \in Seq(Setup!Job) BY <1>0 DEF Setup!TypeOK
    <3>2. jobs[i] \in Setup!Job BY <2>1, <3>1
    <3> QED BY <3>2 DEF Setup!Job
  <2>3. ext' \in Setup!Settings /\ ext'.token \in HostOrNone
    BY <1>0, <2>1, <2>2 DEF Setup!Settings
  <2>4. fields' \in Setup!Shown /\ panel' \in Setup!Shown BY <1>0, <2>1, <2>3, UpdatedIsTyped
  <2>5. pushed' \in [host : HostOrNone, token : HostOrNone] BY <1>0, <2>1, <2>3
  <2> QED BY <1>0, <1>k, <2>1, <2>3, <2>4, <2>5, SetupParts
<1>13. ASSUME NEW i \in 1..MaxActs, Setup!ConfigureEnds(i) PROVE SetupInv'
  <2>1. /\ i \in DOMAIN jobs /\ jobs' = Setup!RemoveAt(jobs, i)
        /\ Setup!UpdatePanel(ext) /\ UNCHANGED <<window, ext, saved, pushed, acts, found>>
    BY <1>13 DEF Setup!ConfigureEnds, Setup!Answered
  <2>2. fields' \in Setup!Shown /\ panel' \in Setup!Shown BY <1>0, <2>1, UpdatedIsTyped
  <2> QED BY <1>0, <1>k, <2>1, <2>2, SetupParts
<1>14. ASSUME NEW i \in 1..MaxActs, Setup!Unauthorized(i) PROVE SetupInv'
  <2>1. /\ i \in DOMAIN jobs /\ jobs' = Setup!RemoveAt(jobs, i)
        /\ ext' = Setup!Read([ext EXCEPT !.token = Setup!NoHost]) /\ saved' = ext'
        /\ Setup!UpdatePanel(ext') /\ pushed' = [host |-> ext'.host, token |-> Setup!NoHost]
        /\ UNCHANGED <<window, acts, found>>
    BY <1>14 DEF Setup!Unauthorized, Setup!Answered, Setup!Persist
  <2>2. [ext EXCEPT !.token = Setup!NoHost] \in Setup!Settings BY <1>0 DEF Setup!Settings
  <2>3. ext' \in Setup!Settings BY <1>0, <2>1, <2>2, ReadKeeps
  <2>4. fields' \in Setup!Shown /\ panel' \in Setup!Shown BY <1>0, <2>1, <2>3, UpdatedIsTyped
  <2>5. pushed' \in [host : HostOrNone, token : HostOrNone] BY <1>0, <2>1, <2>3 DEF Setup!Settings
  <2> QED BY <1>0, <1>k, <2>1, <2>3, <2>4, <2>5, SetupParts
<1>15. ASSUME NEW i \in 1..MaxActs, NEW host \in Hosts, Setup!DiscoverEnds(i, host)
       PROVE  SetupInv'
  <2>1. /\ i \in DOMAIN jobs /\ jobs' = Setup!RemoveAt(jobs, i)
        /\ ext' = Setup!Read([ext EXCEPT !.host = host]) /\ saved' = ext'
        /\ Setup!UpdatePanel(ext') /\ found' = host /\ UNCHANGED <<window, pushed, acts>>
    BY <1>15 DEF Setup!DiscoverEnds, Setup!Answered, Setup!Persist
  <2>2. [ext EXCEPT !.host = host] \in Setup!Settings BY <1>0 DEF Setup!Settings
  <2>3. ext' \in Setup!Settings BY <1>0, <2>1, <2>2, ReadKeeps
  <2>4. fields' \in Setup!Shown /\ panel' \in Setup!Shown BY <1>0, <2>1, <2>3, UpdatedIsTyped
  <2> QED BY <1>0, <1>k, <2>1, <2>3, <2>4, SetupParts
<1> QED
  BY <1>1, <1>2, <1>3, <1>4, <1>5, <1>6, <1>7, <1>8, <1>9, <1>10, <1>11, <1>12, <1>13,
     <1>14, <1>15 DEF Setup!Next

LEMMA SetupStutters ==
  ASSUME SetupInv, UNCHANGED svars PROVE SetupInv'
BY DEF SetupInv, svars, Setup!TypeOK, Setup!TokenIsSaved

\* A command that is launched while the window is shown with a host names it.
GoesToShown ==
  (Len(jobs') > Len(jobs) /\ Setup!Last(jobs').command # "discover"
   /\ window' = "shown" /\ fields'.host # Setup!NoHost)
  => Setup!Last(jobs').host = fields'.host

LEMMA LengthAdds ==
  ASSUME NEW S, NEW a \in Seq(S), NEW b \in Seq(S) PROVE Len(a \o b) = Len(a) + Len(b)
OBVIOUS

LEMMA LastLaunched ==
  ASSUME NEW j, jobs \in Seq(Setup!Job), j \in Setup!Job, jobs' = Append(jobs, j)
  PROVE  Setup!Last(jobs') = j
BY DEF Setup!Last

LEMMA ConfiguresShown ==
  ASSUME jobs \in Seq(Setup!Job), ext' \in Setup!Settings, NEW p, NEW f,
         Setup!Configure(p, f),
         window' = "shown" /\ f.host # Setup!NoHost => ext'.host = f.host
  PROVE  GoesToShown
<1>1. CASE jobs' = jobs BY <1>1 DEF GoesToShown
<1>2. CASE Setup!Launch("configure", ext'.host) /\ Setup!Written(p, f)
  <2>1. jobs' = Append(jobs, [command |-> "configure", host |-> ext'.host]) /\ fields' = f
    BY <1>2 DEF Setup!Launch, Setup!Written
  <2>2. Setup!Last(jobs') = [command |-> "configure", host |-> ext'.host]
    BY <2>1, LastLaunched DEF Setup!Job, Setup!Settings
  <2> QED BY <2>1, <2>2 DEF GoesToShown
<1> QED BY <1>1, <1>2 DEF Setup!Configure

LEMMA CommandsGo ==
  ASSUME SetupInv, Setup!Next
  PROVE  GoesToShown
<1>0. /\ Setup!TypeOK /\ jobs \in Seq(Setup!Job)
      /\ fields \in Setup!Shown /\ panel \in Setup!Shown /\ ext \in Setup!Settings
  BY DEF SetupInv, Setup!TypeOK
<1>n. UNCHANGED jobs => GoesToShown BY DEF GoesToShown
<1>r. ASSUME NEW i, i \in DOMAIN jobs, jobs' = Setup!RemoveAt(jobs, i) PROVE GoesToShown
  <2>1. i \in 1..Len(jobs) /\ Len(jobs) \in Nat BY <1>0, <1>r
  <2>2. jobs' = SubSeq(jobs, 1, i - 1) \o SubSeq(jobs, i + 1, Len(jobs))
    BY <1>r DEF Setup!RemoveAt
  <2>3. SubSeq(jobs, 1, i - 1) \in Seq(Setup!Job) /\ Len(SubSeq(jobs, 1, i - 1)) = i - 1
    BY <1>0, <2>1
  <2>4. /\ SubSeq(jobs, i + 1, Len(jobs)) \in Seq(Setup!Job)
        /\ Len(SubSeq(jobs, i + 1, Len(jobs))) = Len(jobs) - i
    <3>1. CASE i = Len(jobs) BY <1>0, <2>1, <3>1
    <3>2. CASE i < Len(jobs) BY <1>0, <2>1, <3>2
    <3> QED BY <2>1, <3>1, <3>2
  <2>5. PICK a \in Seq(Setup!Job), b \in Seq(Setup!Job) :
          jobs' = a \o b /\ Len(a) = i - 1 /\ Len(b) = Len(jobs) - i
    BY <2>2, <2>3, <2>4, Zenon
  <2>6. Len(jobs') < Len(jobs) BY <2>1, <2>5, LengthAdds
  <2> QED BY <2>1, <2>6 DEF GoesToShown
<1>c. /\ Setup!Captured \in Setup!Shown
      /\ window # "none" /\ fields.host # Setup!NoHost => Setup!Captured.host = fields.host
      /\ Setup!Read(ext) \in Setup!Settings
      /\ Setup!Captured.host # Setup!NoHost => Setup!Read(ext).host = Setup!Captured.host
  <2>1. Setup!Captured \in Setup!Shown /\ Setup!Read(ext) \in Setup!Settings
    BY <1>0, ReadKeeps
  <2>2. window # "none" /\ fields.host # Setup!NoHost => Setup!Captured.host = fields.host
    BY <1>0 DEF Setup!Captured, Setup!Shown
  <2>3. Setup!Captured.host # Setup!NoHost => Setup!Read(ext).host = Setup!Captured.host
    BY <1>0 DEF Setup!Read, Setup!Settings
  <2> QED BY <2>1, <2>2, <2>3
<1>1. CASE Setup!Discover
  <2>1. jobs' = Append(jobs, [command |-> "discover", host |-> Setup!NoHost])
    BY <1>1 DEF Setup!Discover, Setup!Launch
  <2>2. Setup!Last(jobs') = [command |-> "discover", host |-> Setup!NoHost]
    BY <1>0, <2>1, LastLaunched DEF Setup!Job
  <2> QED BY <2>2 DEF GoesToShown
<1>2. CASE Setup!Pair
  <2>1. ext' = Setup!Read(ext) /\ fields' = fields /\ window = "shown"
    BY <1>2 DEF Setup!Pair, Setup!ReadPanel
  <2>2. CASE ext'.host = Setup!NoHost BY <1>2, <1>n, <2>2 DEF Setup!Pair
  <2>3. CASE ext'.host # Setup!NoHost
    <3>1. jobs' = Append(jobs, [command |-> "pair", host |-> ext'.host])
      BY <1>2, <2>3 DEF Setup!Pair, Setup!Launch
    <3>2. Setup!Last(jobs') = [command |-> "pair", host |-> ext'.host]
      BY <1>0, <1>c, <2>1, <3>1, LastLaunched DEF Setup!Job, Setup!Settings
    <3> QED BY <1>c, <2>1, <3>2 DEF GoesToShown
  <2> QED BY <2>2, <2>3
<1>3. CASE Setup!Reconnect
  <2>1. ext' = Setup!Read(ext) /\ window = "shown" /\ Setup!Configure(Setup!Captured, fields)
    BY <1>3 DEF Setup!Reconnect
  <2> QED BY <1>0, <1>c, <2>1, ConfiguresShown
<1>4. CASE Setup!ChooseLook
  <2>1. /\ ext' = ext /\ window' = window
        /\ jobs' = jobs \/ Setup!Configure(Setup!Updated(ext), Setup!UpdatedFields(ext))
    BY <1>4 DEF Setup!ChooseLook
  <2>2. window' = "shown" => Setup!UpdatedFields(ext).host = ext'.host
    BY <2>1 DEF Setup!UpdatedFields, Setup!Updated
  <2> QED BY <1>0, <1>n, <2>1, <2>2, ConfiguresShown
<1>5. ASSUME NEW profile \in Profiles, Setup!PickProfile(profile) PROVE GoesToShown
  <2> DEFINE p == [Setup!Captured EXCEPT !.profile = profile]
             f == [fields EXCEPT !.profile = profile]
  <2>1. /\ window = "shown" /\ ext' = [Setup!Read(ext) EXCEPT !.profile = profile]
        /\ jobs' = jobs \/ Setup!Configure(p, f)
    BY <1>5 DEF Setup!PickProfile
  <2>2. f.host = fields.host BY <1>0 DEF Setup!Shown
  <2>3. ext' \in Setup!Settings /\ ext'.host = Setup!Read(ext).host
    BY <1>c, <2>1 DEF Setup!Settings
  <2>4. f.host # Setup!NoHost => ext'.host = f.host BY <1>c, <2>1, <2>2, <2>3
  <2> HIDE DEF p, f
  <2> QED BY <1>0, <1>n, <2>1, <2>3, <2>4, ConfiguresShown
<1>6. ASSUME NEW quits \in BOOLEAN, Setup!Restart(quits) PROVE GoesToShown
  BY <1>6 DEF Setup!Restart, GoesToShown
<1>7. CASE Setup!OpenSetup \/ Setup!CloseSetup \/ Setup!StatusChanges
           \/ \E host \in Hosts \cup {Setup!NoHost} : Setup!TypeHost(host)
  <2>1. UNCHANGED jobs
    BY <1>7 DEF Setup!OpenSetup, Setup!CloseSetup, Setup!StatusChanges, Setup!TypeHost
  <2> QED BY <1>n, <2>1
<1>8. ASSUME NEW i \in 1..MaxActs,
             \/ Setup!JobFails(i) \/ Setup!PairEnds(i) \/ Setup!ConfigureEnds(i)
             \/ Setup!Unauthorized(i) \/ \E host \in Hosts : Setup!DiscoverEnds(i, host)
      PROVE  GoesToShown
  <2>1. i \in DOMAIN jobs /\ jobs' = Setup!RemoveAt(jobs, i)
    BY <1>8 DEF Setup!JobFails, Setup!PairEnds, Setup!ConfigureEnds, Setup!Unauthorized,
                Setup!DiscoverEnds, Setup!Answered
  <2> QED BY <1>r, <2>1
<1> QED BY <1>1, <1>2, <1>3, <1>4, <1>5, <1>6, <1>7, <1>8 DEF Setup!Next

\* REAPER has loaded the saved settings, or the component rests.
LEMMA SetupBegins == Setup!Init => SetupInv
<1> SUFFICES ASSUME Setup!Init PROVE SetupInv OBVIOUS
<1>1. saved \in Setup!Settings /\ ext = saved /\ panel = [host |-> ext.host, profile |-> ext.profile]
  BY DEF Setup!Init
<1>2. panel \in Setup!Shown BY <1>1 DEF Setup!Settings, Setup!Shown
<1>3. MaxActs \in Nat BY DisplayAssumption
<1> QED BY <1>1, <1>2, <1>3 DEF Setup!Init, SetupInv, Setup!TypeOK, Setup!TokenIsSaved

(***************************************************************************)
(* The live preview's renderer: what waits is in order, and with FFmpeg    *)
(* every unit is a key frame or follows the one before it, back to the one *)
(* the decoder had last.                                                   *)
(***************************************************************************)
FFmpeg == kind = "ffmpeg"
Units == [n : Nat, key : BOOLEAN, size : Sizes \cup {0}]
Takes == [unit : Units, reset : BOOLEAN]

\* The unit before the queue: with the worker, or decoded or dropped by it.
Before == IF taken = <<>> THEN done ELSE taken[1].unit
Newest == IF queue = <<>> THEN Before ELSE queue[Len(queue)]
Joined(u, v) == v.key \/ v.n = u.n + 1

InOrder ==
  /\ fed.n <= done.n /\ done.n <= Before.n /\ Before.n <= received
  /\ taken # <<>> => done.n < taken[1].unit.n
  /\ \A i \in 1..Len(queue) : Before.n < queue[i].n /\ queue[i].n <= received
  /\ \A i, k \in 1..Len(queue) : i < k => queue[i].n < queue[k].n
Linked ==
  /\ \A i \in 1..(Len(queue) - 1) : Joined(queue[i], queue[i + 1])
  /\ queue # <<>> => Joined(Before, queue[1])
  /\ taken # <<>> => Joined(done, taken[1].unit)
  /\ ready /\ ~stopped /\ ~requireKey => Newest.n = received
\* A fresh decoder gets a key frame; one that runs has had what was taken last.
Fresh ==
  /\ ready
  /\ taken # <<>> => taken[1].unit.key
  /\ taken = <<>> /\ queue # <<>> => queue[1].key
  /\ taken = <<>> /\ queue = <<>> /\ ~stopped => requireKey
DecoderKnown ==
  /\ decoder = "fresh" => spoilt \/ Fresh
  /\ ready /\ decoder = "fed" => spoilt \/ fed = done
  /\ ~ready => decoder = "none"
RendererInv ==
  /\ Renderer!TypeOK /\ InOrder
  /\ FFmpeg => Linked /\ DecoderKnown
  /\ ~FFmpeg /\ ~waiting => spoilt \/ decoder = "fed"

FeedStep ==
  Renderer!Feed!FeedUnit \/ Renderer!Feed!LoseUnit \/ Renderer!Feed!Restart
  \/ UNCHANGED <<kind = "ffmpeg", [n |-> fed.n, key |-> fed.key], decoder = "fed", spoilt>>

LEMMA RendererTyped ==
  ASSUME Renderer!TypeOK
  PROVE  /\ kind \in {"ffmpeg", "mf"} /\ received \in Nat /\ queue \in Seq(Units)
         /\ received \in 0..MaxUnits /\ MaxUnits \in Nat /\ Cap \in Nat
         /\ Len(queue) <= (IF FFmpeg THEN Cap + 1 ELSE 1)
         /\ requireKey \in BOOLEAN /\ resetFirst \in BOOLEAN /\ ready \in BOOLEAN
         /\ resetting \in BOOLEAN /\ stopped \in BOOLEAN /\ waiting \in BOOLEAN
         /\ spoilt \in BOOLEAN
         /\ taken \in Seq(Takes) /\ Len(taken) <= 1
         /\ decoder \in {"none", "fresh", "fed"} /\ coded \in Sizes \cup {0}
         /\ fed \in Units /\ done \in Units
<1>1. MaxUnits \in Nat /\ Cap \in Nat BY DisplayAssumption
<1> QED BY <1>1 DEF Renderer!TypeOK, Renderer!FFmpeg, Renderer!Unit, FFmpeg, Units, Takes

LEMMA RendererTypes ==
  ASSUME kind \in {"ffmpeg", "mf"}, received \in 0..MaxUnits, queue \in Seq(Units),
         Len(queue) <= (IF FFmpeg THEN Cap + 1 ELSE 1),
         requireKey \in BOOLEAN, resetFirst \in BOOLEAN, ready \in BOOLEAN,
         resetting \in BOOLEAN, stopped \in BOOLEAN, waiting \in BOOLEAN, spoilt \in BOOLEAN,
         taken \in Seq(Takes), Len(taken) <= 1,
         decoder \in {"none", "fresh", "fed"}, coded \in Sizes \cup {0},
         fed \in Units, done \in Units
  PROVE  Renderer!TypeOK
BY DEF Renderer!TypeOK, Renderer!FFmpeg, Renderer!Unit, FFmpeg, Units, Takes

LEMMA QueueTyped ==
  ASSUME NEW s \in Seq(Units), NEW i \in 1..Len(s)
  PROVE  s[i] \in Units /\ s[i].n \in Nat /\ s[i].key \in BOOLEAN
<1>1. s[i] \in Units OBVIOUS
<1> QED BY <1>1 DEF Units

LEMMA OneAtMost == ASSUME NEW n \in Nat, n <= 1, n # 0 PROVE n = 1
OBVIOUS

LEMMA BeforeTyped ==
  ASSUME Renderer!TypeOK
  PROVE  /\ Before \in Units /\ Before.n \in Nat /\ Before.key \in BOOLEAN
         /\ taken # <<>> => taken[1] \in Takes /\ Len(taken) = 1
<1>1. taken # <<>> => taken[1] \in Takes /\ Len(taken) = 1
  <2>1. taken \in Seq(Takes) BY RendererTyped
  <2>2. Len(taken) \in Nat /\ Len(taken) <= 1 BY <2>1, RendererTyped
  <2>3. taken # <<>> => Len(taken) # 0 BY <2>1, EmptySeq, Zenon
  <2>4. Len(taken) # 0 => Len(taken) = 1 BY <2>2, OneAtMost
  <2>5. Len(taken) = 1 => taken[1] \in Takes BY <2>1
  <2> QED BY <2>3, <2>4, <2>5, Zenon
<1>2. Before \in Units BY <1>1, RendererTyped DEF Before, Takes
<1> QED BY <1>1, <1>2 DEF Units

LEMMA RendererBegins == Renderer!Init => RendererInv
<1> SUFFICES ASSUME Renderer!Init PROVE RendererInv OBVIOUS
<1>1. MaxUnits \in Nat /\ Cap \in Nat BY DisplayAssumption
<1>2. /\ kind \in {"ffmpeg", "mf"}
      /\ received = 0 /\ queue = <<>> /\ requireKey = TRUE /\ resetFirst = FALSE
      /\ ready = TRUE /\ resetting = FALSE /\ stopped = FALSE /\ taken = <<>>
      /\ decoder = (IF FFmpeg THEN "fresh" ELSE "none") /\ waiting = TRUE /\ coded = 0
      /\ fed = [n |-> 0, key |-> FALSE, size |-> 0] /\ done = fed /\ spoilt = FALSE
  BY DEF Renderer!Init, Renderer!FFmpeg, Renderer!NoUnit, FFmpeg
<1>3. fed \in Units BY <1>2 DEF Units
<1>4. Renderer!TypeOK
  <2>1. queue \in Seq(Units) /\ taken \in Seq(Takes) BY <1>2
  <2>2. Len(queue) = 0 /\ Len(taken) = 0 BY <1>2
  <2>3. Len(queue) <= (IF FFmpeg THEN Cap + 1 ELSE 1) BY <1>1, <2>2
  <2>4. received \in 0..MaxUnits /\ decoder \in {"none", "fresh", "fed"} BY <1>1, <1>2
  <2>5. /\ requireKey \in BOOLEAN /\ resetFirst \in BOOLEAN /\ ready \in BOOLEAN
        /\ resetting \in BOOLEAN /\ stopped \in BOOLEAN /\ waiting \in BOOLEAN
        /\ spoilt \in BOOLEAN
    BY <1>2, Zenon
  <2>6. Len(taken) <= 1 /\ coded \in Sizes \cup {0} /\ done \in Units BY <1>2, <1>3, <2>2
  <2> QED BY <1>2, <1>3, <2>1, <2>3, <2>4, <2>5, <2>6, RendererTypes
<1>5. InOrder BY <1>2 DEF InOrder, Before
<1>6. FFmpeg => Linked /\ DecoderKnown BY <1>2 DEF Linked, DecoderKnown, Fresh, Newest, Before
<1> QED BY <1>2, <1>4, <1>5, <1>6 DEF RendererInv

\* The stream's thread hands a unit in.
LEMMA UnitAccepted ==
  ASSUME RendererInv, NEW key \in BOOLEAN, NEW size \in Sizes \cup {0},
         Renderer!Render(key, size)
  PROVE  RendererInv'
<1>0. RendererInv /\ Renderer!TypeOK BY DEF RendererInv
<1> DEFINE u == [n |-> received + 1, key |-> key, size |-> size]
<1>1. /\ received \in Nat /\ queue \in Seq(Units) /\ received' = received + 1
      /\ received' \in 0..MaxUnits /\ Cap \in Nat
      /\ kind' = kind /\ ready' = ready /\ resetting' = resetting /\ stopped' = stopped
      /\ taken' = taken /\ decoder' = decoder /\ waiting' = waiting /\ coded' = coded
      /\ fed' = fed /\ done' = done /\ spoilt' = spoilt
  BY <1>0, RendererTyped DEF Renderer!Render
<1>2. u \in Units /\ u.n = received + 1 /\ u.key = key BY <1>1 DEF Units
<1>3. \/ UNCHANGED <<queue, requireKey, resetFirst>> /\ ~Renderer!Accepted(u)
      \/ Renderer!Accepted(u) /\ Renderer!Queued(u)
  BY DEF Renderer!Render
<1> HIDE DEF u
<1>b. Before' = Before /\ Before.n \in Nat /\ done.n \in Nat /\ fed.n \in Nat
      /\ (FFmpeg <=> FFmpeg')
  <2>1. done.n \in Nat /\ fed.n \in Nat BY <1>0, RendererTyped DEF Units
  <2> QED BY <1>0, <1>1, <2>1, BeforeTyped DEF Before, FFmpeg
<1>4. CASE UNCHANGED <<queue, requireKey, resetFirst>> /\ ~Renderer!Accepted(u)
  <2>1. UNCHANGED <<queue, requireKey, resetFirst>> BY <1>4
  <2>2. Renderer!TypeOK' BY <1>0, <1>1, <2>1 DEF Renderer!TypeOK, Renderer!FFmpeg
  <2>3. \A i \in 1..Len(queue) : queue[i].n \in Nat BY <1>1, QueueTyped
  <2>4. InOrder'
    BY <1>0, <1>1, <1>b, <2>1, <2>3 DEF RendererInv, InOrder
  <2>5. FFmpeg /\ ready /\ ~stopped => requireKey
    BY <1>4, <1>0, RendererTyped DEF Renderer!Accepted, Renderer!FFmpeg, FFmpeg
  <2>6. FFmpeg => Linked' /\ DecoderKnown'
    <3> SUFFICES ASSUME FFmpeg PROVE Linked' /\ DecoderKnown' OBVIOUS
    <3>1. Linked /\ DecoderKnown BY <1>0 DEF RendererInv
    <3>2. Linked' BY <3>1, <1>1, <1>b, <2>1, <2>5 DEF Linked, Joined
    <3>3. DecoderKnown' BY <3>1, <1>1, <2>1 DEF DecoderKnown, Fresh
    <3> QED BY <3>2, <3>3
  <2> QED BY <1>0, <1>1, <1>b, <2>2, <2>4, <2>6 DEF RendererInv
<1>5. CASE Renderer!Accepted(u) /\ Renderer!Queued(u)
  <2>1. ~stopped /\ (FFmpeg => ready) /\ (requireKey => key)
    BY <1>2, <1>5 DEF Renderer!Accepted, Renderer!FFmpeg, FFmpeg
  <2>2. /\ requireKey' \in BOOLEAN /\ resetFirst' \in BOOLEAN
        /\ FFmpeg /\ Len(queue) <= Cap => (requireKey' <=> (requireKey /\ ~key))
        /\ key => ~requireKey'
    <3>1. /\ requireKey' = ((requireKey \/ Renderer!Overflows) /\ ~u.key)
          /\ resetFirst' = IF ~Renderer!FFmpeg /\ (queue = <<>> \/ u.key) THEN requireKey
                           ELSE resetFirst
      BY <1>5 DEF Renderer!Queued
    <3>2. requireKey' \in BOOLEAN BY <3>1
    <3>3. resetFirst' \in BOOLEAN
      <4>1. requireKey \in BOOLEAN /\ resetFirst \in BOOLEAN BY <1>0, RendererTyped
      <4> QED BY <3>1, <4>1
    <3>4. Len(queue) \in Nat BY <1>1
    <3>5. Len(queue) <= Cap => ~Renderer!Overflows BY <1>1, <3>4 DEF Renderer!Overflows
    <3> QED BY <1>2, <3>1, <3>2, <3>3, <3>5
  <2>3. \/ queue' = <<u>> /\ (FFmpeg => key)
        \/ queue' = <<>> /\ FFmpeg /\ requireKey'
        \/ queue' = Append(queue, u) /\ FFmpeg /\ Len(queue) <= Cap
    <3>1. CASE ~FFmpeg
      BY <1>5, <3>1 DEF Renderer!Queued, Renderer!FFmpeg, FFmpeg
    <3>2. CASE FFmpeg /\ Renderer!Overflows
      BY <1>2, <1>5, <3>2 DEF Renderer!Queued, Renderer!FFmpeg, FFmpeg
    <3>3. CASE FFmpeg /\ ~Renderer!Overflows
      <4>1. Len(queue) \in Nat BY <1>1
      <4>2. Len(queue) <= Cap BY <1>1, <3>3, <4>1 DEF Renderer!Overflows, Renderer!FFmpeg, FFmpeg
      <4>3. queue' = Append(queue, u)
        BY <1>5, <3>3 DEF Renderer!Queued, Renderer!FFmpeg, FFmpeg
      <4> QED BY <3>3, <4>2, <4>3
    <3> QED BY <3>1, <3>2, <3>3
  <2>4. queue' \in Seq(Units) /\ Len(queue') <= (IF FFmpeg THEN Cap + 1 ELSE 1)
    <3>1. CASE queue' = <<u>> BY <1>1, <1>2, <3>1
    <3>2. CASE queue' = <<>> /\ FFmpeg BY <1>1, <3>2
    <3>3. CASE queue' = Append(queue, u) /\ FFmpeg /\ Len(queue) <= Cap
      BY <1>1, <1>2, <3>3
    <3> QED BY <2>3, <3>1, <3>2, <3>3
  <2>5. Renderer!TypeOK'
    BY <1>0, <1>1, <2>2, <2>4
      DEF Renderer!TypeOK, Renderer!FFmpeg, Renderer!Unit, Units, Takes, FFmpeg
  <2>6. InOrder /\ \A i \in 1..Len(queue) : queue[i].n \in Nat
    BY <1>0, <1>1, QueueTyped DEF RendererInv
  <2>7. InOrder'
    <3>1. CASE queue' = <<u>>
      <4>1. Len(queue') = 1 /\ queue'[1] = u BY <3>1
      <4> QED BY <1>1, <1>2, <1>b, <2>6, <4>1 DEF InOrder
    <3>2. CASE queue' = <<>>
      <4>1. Len(queue') = 0 BY <3>2
      <4> QED BY <1>1, <1>b, <2>6, <4>1 DEF InOrder
    <3>3. CASE queue' = Append(queue, u)
      <4>1. /\ Len(queue') = Len(queue) + 1 /\ queue'[Len(queue) + 1] = u /\ Len(queue) \in Nat
            /\ \A i \in 1..Len(queue) : queue'[i] = queue[i]
        BY <1>1, <1>2, <3>3
      <4>2. \A i \in 1..Len(queue') : i = Len(queue) + 1 \/ i \in 1..Len(queue) BY <4>1
      <4>3. \A i \in 1..Len(queue') : Before.n < queue'[i].n /\ queue'[i].n <= received'
        BY <1>1, <1>2, <1>b, <2>6, <4>1, <4>2 DEF InOrder
      <4>4. ASSUME NEW i \in 1..Len(queue'), NEW k \in 1..Len(queue'), i < k
            PROVE  queue'[i].n < queue'[k].n
        <5>1. i \in 1..Len(queue) BY <4>1, <4>4
        <5>2. CASE k \in 1..Len(queue) BY <2>6, <4>1, <4>4, <5>1, <5>2 DEF InOrder
        <5>3. CASE k = Len(queue) + 1 BY <1>1, <1>2, <2>6, <4>1, <5>1, <5>3 DEF InOrder
        <5> QED BY <4>2, <5>2, <5>3
      <4> QED BY <1>1, <1>b, <2>6, <4>3, <4>4 DEF InOrder
    <3> QED BY <2>3, <3>1, <3>2, <3>3
  <2>8. FFmpeg => Linked' /\ DecoderKnown'
    <3> SUFFICES ASSUME FFmpeg PROVE Linked' /\ DecoderKnown' OBVIOUS
    <3>0. Linked /\ DecoderKnown BY <1>0 DEF RendererInv
    <3>1. CASE queue' = <<u>> /\ key
      <4>1. Len(queue') = 1 /\ queue'[1] = u /\ queue' # <<>> BY <3>1
      <4>2. Linked'
        <5>1. Newest' = u BY <4>1 DEF Newest
        <5>2. \A v : Joined(v, u) BY <1>2, <3>1 DEF Joined
        <5>3. taken' # <<>> => Joined(done', taken'[1].unit) BY <1>1, <3>0 DEF Linked
        <5>4. Joined(Before', queue'[1]) BY <4>1, <5>2
        <5> QED BY <1>1, <1>2, <4>1, <5>1, <5>3, <5>4 DEF Linked, Joined
      <4>3. DecoderKnown' BY <1>1, <1>2, <3>0, <3>1, <4>1 DEF DecoderKnown, Fresh
      <4> QED BY <4>2, <4>3
    <3>2. CASE queue' = <<>> /\ requireKey'
      <4>1. Len(queue') = 0 BY <3>2
      <4>2. Linked' BY <1>1, <1>b, <3>0, <3>2, <4>1 DEF Linked, Joined
      <4>3. DecoderKnown' BY <1>1, <3>0, <3>2 DEF DecoderKnown, Fresh
      <4> QED BY <4>2, <4>3
    <3>3. CASE queue' = Append(queue, u) /\ Len(queue) <= Cap
      <4>1. /\ Len(queue') = Len(queue) + 1 /\ queue'[Len(queue) + 1] = u /\ Len(queue) \in Nat
            /\ \A i \in 1..Len(queue) : queue'[i] = queue[i]
            /\ queue' # <<>> /\ (queue = <<>> <=> Len(queue) = 0)
        BY <1>1, <1>2, <3>3
      <4>2. Joined(Newest, u) BY <1>1, <1>2, <2>1, <3>0 DEF Linked, Joined
      <4>3. \A i \in 1..(Len(queue') - 1) : Joined(queue'[i], queue'[i + 1])
        <5> SUFFICES ASSUME NEW i \in 1..(Len(queue') - 1) PROVE Joined(queue'[i], queue'[i + 1])
          OBVIOUS
        <5>1. CASE i = Len(queue)
          <6>1. queue # <<>> /\ queue'[i] = queue[Len(queue)] /\ queue'[i + 1] = u BY <4>1, <5>1
          <6> QED BY <4>2, <6>1 DEF Newest
        <5>2. CASE i # Len(queue)
          <6>1. i \in 1..(Len(queue) - 1) /\ i + 1 \in 1..Len(queue) BY <4>1, <5>2
          <6>2. queue'[i] = queue[i] /\ queue'[i + 1] = queue[i + 1] BY <4>1, <6>1
          <6> QED BY <3>0, <6>1, <6>2 DEF Linked
        <5> QED BY <5>1, <5>2
      <4>4. Joined(Before, queue'[1])
        <5>1. CASE queue = <<>> BY <4>1, <4>2, <5>1 DEF Newest
        <5>2. CASE queue # <<>>
          <6>1. queue'[1] = queue[1] BY <4>1, <5>2
          <6> QED BY <3>0, <5>2, <6>1 DEF Linked
        <5> QED BY <5>1, <5>2
      <4>5. Newest'.n = received' BY <1>1, <1>2, <4>1 DEF Newest
      <4>6. taken' # <<>> => Joined(done', taken'[1].unit)
        BY <1>1, <3>0 DEF Linked
      <4>7. Linked'
        <5>1. Joined(Before', queue'[1]) BY <1>b, <4>4
        <5> QED BY <4>3, <4>5, <4>6, <5>1 DEF Linked, Joined
      <4>8. decoder = "fresh" => spoilt \/ Fresh'
        <5> SUFFICES ASSUME decoder = "fresh", ~spoilt PROVE Fresh' OBVIOUS
        <5>1. Fresh BY <3>0 DEF DecoderKnown
        <5>2. CASE queue = <<>>
          <6>1. queue'[1] = u BY <4>1, <5>2
          <6>2. taken = <<>> => key BY <2>1, <5>1, <5>2 DEF Fresh
          <6> QED BY <1>1, <1>2, <4>1, <5>1, <6>1, <6>2 DEF Fresh
        <5>3. CASE queue # <<>>
          <6>1. queue'[1] = queue[1] BY <4>1, <5>3
          <6> QED BY <1>1, <4>1, <5>1, <5>3, <6>1 DEF Fresh
        <5> QED BY <5>2, <5>3
      <4>9. DecoderKnown' BY <1>1, <3>0, <4>8 DEF DecoderKnown
      <4> QED BY <4>7, <4>9
    <3> QED BY <2>3, <3>1, <3>2, <3>3
  <2> QED BY <1>0, <1>1, <1>b, <2>5, <2>7, <2>8 DEF RendererInv
<1> QED BY <1>3, <1>4, <1>5

\* reset() and the destructor, on the main thread.
LEMMA QueueDropped ==
  ASSUME RendererInv, Renderer!ResetQueue \/ Renderer!Destroy
  PROVE  RendererInv'
<1>0. RendererInv /\ Renderer!TypeOK BY DEF RendererInv
<1>1. /\ queue' = <<>> /\ received' = received
      /\ kind' = kind /\ ready' = ready
      /\ taken' = taken /\ decoder' = decoder /\ waiting' = waiting /\ coded' = coded
      /\ fed' = fed /\ done' = done /\ spoilt' = spoilt
  BY DEF Renderer!ResetQueue, Renderer!Destroy
<1>2. requireKey' = TRUE \/ stopped' = TRUE BY DEF Renderer!ResetQueue, Renderer!Destroy
<1>3. /\ requireKey' \in BOOLEAN /\ resetFirst' \in BOOLEAN /\ resetting' \in BOOLEAN
      /\ stopped' \in BOOLEAN
  <2>1. /\ requireKey \in BOOLEAN /\ resetFirst \in BOOLEAN /\ resetting \in BOOLEAN
        /\ stopped \in BOOLEAN
    BY <1>0, RendererTyped
  <2>2. requireKey' \in {requireKey, TRUE} /\ resetFirst' \in {resetFirst, FALSE}
        /\ resetting' \in {resetting, TRUE} /\ stopped' \in {stopped, TRUE}
    BY DEF Renderer!ResetQueue, Renderer!Destroy
  <2> QED BY <2>1, <2>2, Zenon
<1>4. Len(queue') = 0 /\ queue' \in Seq(Units) BY <1>1
<1>5. Before' = Before /\ (FFmpeg <=> FFmpeg') BY <1>1 DEF Before, FFmpeg
<1>6. Renderer!TypeOK'
  <2>1. Cap \in Nat BY <1>0, RendererTyped
  <2>2. Len(queue') <= (IF FFmpeg THEN Cap + 1 ELSE 1) BY <1>4, <2>1
  <2> QED BY <1>0, <1>1, <1>3, <1>4, <2>2
          DEF Renderer!TypeOK, Renderer!FFmpeg, Renderer!Unit, Units, Takes, FFmpeg
<1>7. InOrder' BY <1>0, <1>1, <1>4, <1>5 DEF RendererInv, InOrder
<1>8. FFmpeg => Linked' /\ DecoderKnown'
  <2> SUFFICES ASSUME FFmpeg PROVE Linked' /\ DecoderKnown' OBVIOUS
  <2>1. Linked /\ DecoderKnown BY <1>0 DEF RendererInv
  <2>2. Linked' BY <1>1, <1>2, <1>4, <1>5, <2>1 DEF Linked, Joined
  <2>3. DecoderKnown' BY <1>1, <1>2, <2>1 DEF DecoderKnown, Fresh
  <2> QED BY <2>2, <2>3
<1> QED BY <1>0, <1>1, <1>5, <1>6, <1>7, <1>8 DEF RendererInv

LEMMA DecoderReset ==
  ASSUME RendererInv, Renderer!ResetDecoder
  PROVE  RendererInv' /\ FeedStep
<1>0. RendererInv /\ Renderer!TypeOK BY DEF RendererInv
<1>1. /\ ready' = FALSE /\ decoder' = "none" /\ waiting' = TRUE /\ resetting' = FALSE
      /\ coded' \in {coded, 0} /\ spoilt' = FALSE
      /\ UNCHANGED <<kind, received, queue, requireKey, resetFirst, stopped, taken, fed, done>>
  BY DEF Renderer!ResetDecoder
<1>2. /\ ready' \in BOOLEAN /\ waiting' \in BOOLEAN /\ resetting' \in BOOLEAN
      /\ spoilt' \in BOOLEAN
  BY <1>1, Zenon
<1>3. Before' = Before /\ (FFmpeg <=> FFmpeg') BY <1>1 DEF Before, FFmpeg
<1>4. Renderer!TypeOK'
  BY <1>0, <1>1, <1>2 DEF Renderer!TypeOK, Renderer!FFmpeg
<1>5. InOrder' BY <1>0, <1>1, <1>3 DEF RendererInv, InOrder
<1>6. FFmpeg => Linked' /\ DecoderKnown'
  <2> SUFFICES ASSUME FFmpeg PROVE Linked' /\ DecoderKnown' OBVIOUS
  <2>1. Linked /\ DecoderKnown BY <1>0 DEF RendererInv
  <2>2. Linked' BY <1>1, <1>3, <2>1 DEF Linked, Joined
  <2>3. DecoderKnown' BY <1>1 DEF DecoderKnown
  <2> QED BY <2>2, <2>3
<1>7. RendererInv' BY <1>1, <1>3, <1>4, <1>5, <1>6 DEF RendererInv
<1>8. FeedStep
  BY <1>1 DEF FeedStep, Renderer!Feed!Restart, Renderer!FFmpeg
<1> QED BY <1>7, <1>8

\* The worker takes the head of the queue.
LEMMA UnitTaken ==
  ASSUME RendererInv, Renderer!TakeUnit
  PROVE  RendererInv'
<1>0. RendererInv /\ Renderer!TypeOK BY DEF RendererInv
<1>1. /\ taken = <<>> /\ queue # <<>> /\ ~stopped
      /\ taken' = <<[unit |-> Head(queue), reset |-> resetFirst]>>
      /\ queue' = Tail(queue) /\ resetFirst' = FALSE
      /\ UNCHANGED <<kind, received, requireKey, ready, resetting, stopped, decoder, waiting,
                     coded, fed, done, spoilt>>
  BY DEF Renderer!TakeUnit
<1>2. queue \in Seq(Units) /\ resetFirst \in BOOLEAN /\ Cap \in Nat
      /\ Len(queue) <= (IF FFmpeg THEN Cap + 1 ELSE 1)
  BY <1>0, RendererTyped
<1>3. /\ Len(queue) \in Nat \ {0} /\ Len(queue') = Len(queue) - 1 /\ queue' \in Seq(Units)
      /\ \A i \in 1..Len(queue') : queue'[i] = queue[i + 1]
      /\ Head(queue) = queue[1] /\ (queue' = <<>> <=> Len(queue) = 1)
  BY <1>1, <1>2
<1>4. queue[1] \in Units /\ 1 \in 1..Len(queue) BY <1>2, <1>3, QueueTyped
<1>5. taken' # <<>> /\ taken'[1].unit = queue[1] /\ Len(taken') = 1
      /\ taken' \in Seq(Takes)
  BY <1>1, <1>2, <1>3, <1>4 DEF Takes
<1>6. resetFirst' \in BOOLEAN BY <1>1, Zenon
<1>7. Before' = queue[1] /\ Before = done /\ (FFmpeg <=> FFmpeg')
  BY <1>1, <1>5 DEF Before, FFmpeg
<1>8. Renderer!TypeOK'
  BY <1>0, <1>1, <1>2, <1>3, <1>5, <1>6
    DEF Renderer!TypeOK, Renderer!FFmpeg, Renderer!Unit, Units, Takes, FFmpeg
<1>9. InOrder'
  <2>1. InOrder BY <1>0 DEF RendererInv
  <2>2. \A i \in 1..Len(queue) : queue[i].n \in Nat BY <1>2, QueueTyped
  <2>3. \A i \in 1..Len(queue') : i + 1 \in 1..Len(queue) /\ 1 < i + 1 BY <1>3
  <2>4. done.n \in Nat /\ fed.n \in Nat BY <1>0, RendererTyped DEF Units
  <2>5. \A i \in 1..Len(queue') : queue[1].n < queue'[i].n /\ queue'[i].n <= received
    BY <1>3, <1>4, <2>1, <2>3 DEF InOrder
  <2>6. \A i, k \in 1..Len(queue') : i < k => queue'[i].n < queue'[k].n
    <3> SUFFICES ASSUME NEW i \in 1..Len(queue'), NEW k \in 1..Len(queue'), i < k
                 PROVE  queue'[i].n < queue'[k].n
      OBVIOUS
    <3>1. i + 1 < k + 1 BY <1>3
    <3>2. i + 1 \in 1..Len(queue) /\ k + 1 \in 1..Len(queue) BY <2>3
    <3>3. queue[i + 1].n < queue[k + 1].n BY <2>1, <3>1, <3>2 DEF InOrder
    <3> QED BY <1>3, <3>3
  <2>7. done.n < queue[1].n /\ queue[1].n <= received BY <1>4, <1>7, <2>1 DEF InOrder
  <2>8. fed.n <= done.n BY <2>1 DEF InOrder
  <2>9. queue[1].n \in Nat BY <1>4, <2>2
  <2>10. fed'.n <= done'.n /\ done'.n < Before'.n /\ Before'.n <= received'
    BY <1>1, <1>7, <2>7, <2>8
  <2>11. done'.n <= Before'.n BY <1>1, <1>7, <2>4, <2>9, <2>10
  <2>12. taken' # <<>> => done'.n < taken'[1].unit.n BY <1>5, <1>7, <2>10
  <2>13. \A i \in 1..Len(queue') : Before'.n < queue'[i].n /\ queue'[i].n <= received'
    BY <1>1, <1>7, <2>5
  <2> QED BY <2>6, <2>10, <2>11, <2>12, <2>13 DEF InOrder
<1>10. FFmpeg => Linked' /\ DecoderKnown'
  <2> SUFFICES ASSUME FFmpeg PROVE Linked' /\ DecoderKnown' OBVIOUS
  <2>1. Linked /\ DecoderKnown BY <1>0 DEF RendererInv
  <2>2. \A i \in 1..(Len(queue') - 1) : Joined(queue'[i], queue'[i + 1])
    <3> SUFFICES ASSUME NEW i \in 1..(Len(queue') - 1) PROVE Joined(queue'[i], queue'[i + 1])
      OBVIOUS
    <3>1. i + 1 \in 1..(Len(queue) - 1) /\ i \in 1..Len(queue') /\ i + 1 \in 1..Len(queue')
      BY <1>3
    <3>2. Joined(queue[i + 1], queue[(i + 1) + 1]) BY <2>1, <3>1 DEF Linked
    <3> QED BY <1>3, <3>1, <3>2
  <2>3. queue' # <<>> => Joined(queue[1], queue'[1])
    <3> SUFFICES ASSUME queue' # <<>> PROVE Joined(queue[1], queue'[1]) OBVIOUS
    <3>1. 1 \in 1..(Len(queue) - 1) /\ 1 \in 1..Len(queue') BY <1>3
    <3>2. Joined(queue[1], queue[1 + 1]) BY <2>1, <3>1 DEF Linked
    <3> QED BY <1>3, <3>1, <3>2
  <2>4. Newest' = Newest
    <3>1. CASE Len(queue) = 1 BY <1>1, <1>3, <1>7, <3>1 DEF Newest
    <3>2. CASE Len(queue) # 1
      <4>1. Len(queue') \in 1..Len(queue') /\ Len(queue') + 1 = Len(queue) BY <1>3, <3>2
      <4>2. queue'[Len(queue')] = queue[Len(queue)] BY <1>3, <4>1
      <4> QED BY <1>1, <1>3, <3>2, <4>2 DEF Newest
    <3> QED BY <3>1, <3>2
  <2>5. Joined(done, queue[1]) BY <1>1, <1>7, <2>1 DEF Linked
  <2>6. Linked' BY <1>1, <1>5, <1>7, <2>1, <2>2, <2>3, <2>4, <2>5 DEF Linked, Joined
  <2>7. DecoderKnown' BY <1>1, <1>5, <2>1 DEF DecoderKnown, Fresh
  <2> QED BY <2>6, <2>7
<1> QED BY <1>0, <1>1, <1>7, <1>8, <1>9, <1>10 DEF RendererInv

\* What both decoders leave alone: the queue, and who is before it.
LEMMA DecodeKeeps ==
  ASSUME RendererInv, taken # <<>>, taken' = <<>>, done' = taken[1].unit,
         decoder' \in {"none", "fresh", "fed"}, coded' \in Sizes \cup {0},
         fed' \in {fed, taken[1].unit}, waiting' \in BOOLEAN, spoilt' \in BOOLEAN,
         UNCHANGED <<kind, received, queue, requireKey, resetFirst, ready, resetting, stopped>>
  PROVE  /\ Renderer!TypeOK' /\ InOrder' /\ (FFmpeg <=> FFmpeg')
         /\ FFmpeg => Linked'
         /\ taken[1].unit \in Units /\ taken[1].reset \in BOOLEAN
         /\ fed.n < taken[1].unit.n
<1>0. RendererInv /\ Renderer!TypeOK /\ InOrder BY DEF RendererInv
<1>1. taken[1] \in Takes /\ Len(taken) = 1 BY <1>0, BeforeTyped
<1>2. taken[1].unit \in Units /\ taken[1].reset \in BOOLEAN /\ taken[1].unit.n \in Nat
  BY <1>1 DEF Takes, Units
<1>3. Before' = Before /\ Before = taken[1].unit /\ (FFmpeg <=> FFmpeg') BY DEF Before, FFmpeg
<1>4. fed \in Units /\ done \in Units /\ fed.n \in Nat /\ done.n \in Nat
  BY <1>0, RendererTyped DEF Units
<1>5. fed.n < taken[1].unit.n BY <1>0, <1>2, <1>4 DEF InOrder
<1>6. Renderer!TypeOK'
  <2>1. taken' \in Seq(Takes) /\ Len(taken') <= 1
    <3>1. taken' \in Seq(Takes) /\ Len(taken') = 0 OBVIOUS
    <3> QED BY <3>1
  <2>2. fed' \in Units /\ done' \in Units BY <1>2, <1>4
  <2> QED BY <1>0, <2>1, <2>2
          DEF Renderer!TypeOK, Renderer!FFmpeg, Renderer!Unit, Units, Takes
<1>7. InOrder'
  <2>1. fed'.n <= done'.n BY <1>2, <1>5, <1>4
  <2>2. done'.n <= Before'.n /\ Before'.n <= received'
    BY <1>0, <1>2, <1>3 DEF InOrder
  <2>3. \A i \in 1..Len(queue') : Before'.n < queue'[i].n /\ queue'[i].n <= received'
    BY <1>0, <1>3 DEF InOrder
  <2> QED BY <1>0, <2>1, <2>2, <2>3 DEF InOrder
<1>8. FFmpeg => Linked'
  <2>1. Newest' = Newest BY <1>3 DEF Newest
  <2> QED BY <1>0, <1>3, <2>1 DEF RendererInv, Linked, Joined
<1> QED BY <1>2, <1>3, <1>5, <1>6, <1>7, <1>8

LEMMA GivenIsFed ==
  ASSUME RendererInv, taken[1].unit \in Units, fed.n < taken[1].unit.n,
         fed \in Units, FFmpeg <=> FFmpeg',
         decoder' = "fed", fed' = taken[1].unit,
         spoilt' = (spoilt /\ ~taken[1].unit.key),
         taken[1].unit.key \/ spoilt
         \/ (decoder = "fed" /\ (FFmpeg => taken[1].unit.n = fed.n + 1))
  PROVE  Renderer!Feed!FeedUnit
<1>1. [n |-> fed'.n, key |-> fed'.key] \in [n : Nat, key : BOOLEAN] BY DEF Units
<1>2. (Renderer!FFmpeg)' = Renderer!FFmpeg BY DEF Renderer!FFmpeg, FFmpeg
<1> QED BY <1>1, <1>2 DEF Renderer!Feed!FeedUnit, Renderer!FFmpeg, FFmpeg

\* A unit that is given goes in order; one that is lost, or dropped with its decoder,
\* leaves the feed spoilt or begun anew.
LEMMA LostIsFed ==
  ASSUME RendererInv, FFmpeg <=> FFmpeg', NEW d \in {"none", "fresh", "fed"},
         Renderer!Lose(d), d = "fed" => decoder = "fed"
  PROVE  FeedStep
<1>1. /\ decoder' = d /\ fed' = fed /\ spoilt' = TRUE BY DEF Renderer!Lose
<1>2. (decoder' = "fed") \in {decoder = "fed", FALSE} BY <1>1
<1>3. (Renderer!FFmpeg)' = Renderer!FFmpeg BY DEF Renderer!FFmpeg, FFmpeg
<1>4. Renderer!Feed!LoseUnit BY <1>1, <1>2, <1>3 DEF Renderer!Feed!LoseUnit
<1> QED BY <1>4 DEF FeedStep

LEMMA DroppedIsFed ==
  ASSUME RendererInv, FFmpeg <=> FFmpeg', NEW d, Renderer!Drop(d), d \in {"none", decoder}
  PROVE  FeedStep
<1>1. decoder' = d /\ fed' = fed /\ spoilt' = (spoilt /\ d = decoder) BY DEF Renderer!Drop
<1>2. (Renderer!FFmpeg)' = Renderer!FFmpeg BY DEF Renderer!FFmpeg, FFmpeg
<1>3. spoilt \in BOOLEAN BY RendererTyped DEF RendererInv
<1>4. CASE d = decoder
  <2>1. spoilt' = spoilt BY <1>1, <1>3, <1>4
  <2> QED BY <1>1, <1>2, <1>4, <2>1 DEF FeedStep, Renderer!FFmpeg
<1>5. CASE d # decoder
  <2>1. decoder' = "none" /\ spoilt' = FALSE BY <1>1, <1>5
  <2>2. Renderer!Feed!Restart BY <1>1, <1>2, <2>1 DEF Renderer!Feed!Restart
  <2> QED BY <2>2 DEF FeedStep
<1> QED BY <1>4, <1>5

LEMMA FFmpegDecodes ==
  ASSUME RendererInv, NEW opens \in BOOLEAN, NEW takes \in BOOLEAN,
         Renderer!DecodeFFmpeg(opens, takes)
  PROVE  RendererInv' /\ FeedStep
<1>0. RendererInv /\ Renderer!TypeOK BY DEF RendererInv
<1> DEFINE u == taken[1].unit
           sized == u.key /\ u.size # 0
           anew == sized /\ coded # 0 /\ u.size # coded
<1>1. /\ FFmpeg /\ taken # <<>> /\ taken' = <<>> /\ done' = u
      /\ UNCHANGED <<kind, received, queue, requireKey, resetFirst, ready, resetting, stopped,
                     waiting>>
  BY DEF Renderer!DecodeFFmpeg, Renderer!Finish, Renderer!FFmpeg, FFmpeg
<1>2. /\ decoder \in {"none", "fresh", "fed"} /\ coded \in Sizes \cup {0} /\ fed \in Units
      /\ waiting \in BOOLEAN /\ ready \in BOOLEAN /\ spoilt \in BOOLEAN
  BY <1>0, RendererTyped
<1>3. u \in Units
  BY <1>0, <1>1, BeforeTyped DEF Takes
<1>c. coded' \in {coded, u.size} BY DEF Renderer!DecodeFFmpeg
<1>4. \/ Renderer!Drop(decoder) /\ (ready => decoder = "none")
      \/ ready /\ Renderer!Lose("none")
      \/ ready /\ Renderer!Lose("fresh")
      \/ ready /\ Renderer!Lose(decoder)
      \/ ready /\ (anew \/ decoder # "none") /\ Renderer!Give(u)
  BY DEF Renderer!DecodeFFmpeg
<1>8. anew => u.key OBVIOUS
<1> HIDE DEF u, sized, anew
<1>5. /\ coded' \in Sizes \cup {0} /\ decoder' \in {"none", "fresh", "fed"}
      /\ fed' \in {fed, u} /\ waiting' \in BOOLEAN /\ spoilt' \in BOOLEAN
  <2>1. coded' \in Sizes \cup {0} BY <1>2, <1>3, <1>c DEF Units
  <2>2. CASE Renderer!Drop(decoder) BY <1>1, <1>2, <2>1, <2>2 DEF Renderer!Drop
  <2>3. ASSUME NEW d \in {"none", "fresh", "fed"}, Renderer!Lose(d)
        PROVE  decoder' = d /\ fed' = fed /\ spoilt' \in BOOLEAN
    BY <2>3 DEF Renderer!Lose
  <2>4. CASE Renderer!Give(u) BY <1>1, <1>2, <2>1, <2>4 DEF Renderer!Give
  <2> QED BY <1>1, <1>2, <1>4, <2>1, <2>2, <2>3, <2>4
<1>6. /\ Renderer!TypeOK' /\ InOrder' /\ (FFmpeg <=> FFmpeg') /\ Linked' /\ fed.n < u.n
  BY <1>0, <1>1, <1>5, DecodeKeeps DEF u
<1>7. Linked /\ DecoderKnown BY <1>0, <1>1 DEF RendererInv
<1>9. DecoderKnown'
  <2>1. CASE Renderer!Drop(decoder) /\ (ready => decoder = "none")
    <3>1. decoder' = "none" BY <1>7, <2>1 DEF Renderer!Drop, DecoderKnown
    <3> QED BY <3>1 DEF DecoderKnown
  <2>2. CASE ready /\ spoilt' BY <1>1, <2>2 DEF DecoderKnown
  <2>3. CASE ready /\ Renderer!Give(u)
    <3>1. decoder' = "fed" /\ fed' = done' /\ ready' BY <1>1, <2>3 DEF Renderer!Give
    <3> QED BY <3>1 DEF DecoderKnown
  <2> QED BY <1>4, <2>1, <2>2, <2>3 DEF Renderer!Lose
<1>10. FeedStep
  <2>1. CASE Renderer!Drop(decoder) BY <1>0, <1>6, <2>1, DroppedIsFed
  <2>2. CASE Renderer!Lose("none") BY <1>0, <1>6, <2>2, LostIsFed
  <2>3. CASE Renderer!Lose("fresh") BY <1>0, <1>6, <2>3, LostIsFed
  <2>4. CASE Renderer!Lose(decoder) BY <1>0, <1>2, <1>6, <2>4, LostIsFed
  <2>5. CASE ready /\ (anew \/ decoder # "none") /\ Renderer!Give(u)
    <3>1. u.key \/ spoilt \/ (decoder = "fed" /\ u.n = fed.n + 1)
      <4>1. CASE anew BY <1>8, <4>1
      <4>2. CASE decoder = "fresh" BY <1>1, <1>7, <4>2 DEF DecoderKnown, Fresh, u
      <4>3. CASE decoder = "fed"
        BY <1>1, <1>7, <2>5, <4>3 DEF DecoderKnown, Linked, Joined, u
      <4> QED BY <1>2, <2>5, <4>1, <4>2, <4>3
    <3>2. Renderer!Feed!FeedUnit
      <4>1. u.key \/ spoilt \/ (decoder = "fed" /\ (FFmpeg => u.n = fed.n + 1)) BY <3>1
      <4>2. decoder' = "fed" /\ fed' = u /\ spoilt' = (spoilt /\ ~u.key)
        BY <2>5 DEF Renderer!Give
      <4> QED BY <1>0, <1>2, <1>3, <1>6, <4>1, <4>2, GivenIsFed DEF u
    <3> QED BY <3>2 DEF FeedStep
  <2> QED BY <1>4, <2>1, <2>2, <2>3, <2>4, <2>5
<1> QED BY <1>1, <1>6, <1>9, <1>10 DEF RendererInv

LEMMA MediaFoundationDecodes ==
  ASSUME RendererInv, NEW opens \in BOOLEAN, NEW takes \in BOOLEAN,
         Renderer!DecodeMediaFoundation(opens, takes)
  PROVE  RendererInv' /\ FeedStep
<1>0. RendererInv /\ Renderer!TypeOK BY DEF RendererInv
<1> DEFINE u == taken[1].unit
           waits == waiting \/ taken[1].reset
           was == IF taken[1].reset THEN "none" ELSE decoder
<1>1. /\ ~FFmpeg /\ taken # <<>> /\ taken' = <<>> /\ done' = u
      /\ UNCHANGED <<kind, received, queue, requireKey, resetFirst, ready, resetting, stopped>>
      /\ waiting' = (waits /\ ~u.key)
      /\ coded' = IF waits /\ u.key /\ u.size # 0 THEN u.size ELSE coded
  <2>1. kind \in {"ffmpeg", "mf"} BY <1>0, RendererTyped
  <2> QED BY <2>1 DEF Renderer!DecodeMediaFoundation, Renderer!Finish, Renderer!FFmpeg, FFmpeg
<1>2. /\ decoder \in {"none", "fresh", "fed"} /\ coded \in Sizes \cup {0} /\ fed \in Units
      /\ waiting \in BOOLEAN /\ spoilt \in BOOLEAN
  BY <1>0, RendererTyped
<1>3. u \in Units /\ taken[1].reset \in BOOLEAN /\ u.size \in Sizes \cup {0}
  BY <1>0, <1>1, BeforeTyped DEF Takes, Units
<1>4. was \in {"none", decoder} /\ was \in {"none", "fresh", "fed"}
      /\ (was = "fed" => decoder = "fed")
  BY <1>2
<1>w. waits \in BOOLEAN BY <1>2, <1>3
<1>v. ~waits => spoilt \/ decoder = "fed" BY <1>0, <1>1 DEF RendererInv
<1>5. \/ waits /\ ~u.key /\ Renderer!Drop(was)
      \/ Renderer!Lose("none")
      \/ was = "none" /\ Renderer!Lose("fresh")
      \/ Renderer!Lose(was)
      \/ (~waits \/ u.key) /\ Renderer!Give(u)
  BY DEF Renderer!DecodeMediaFoundation
<1> HIDE DEF u, waits, was
<1>l. ASSUME NEW d \in {"none", "fresh", "fed"}, Renderer!Lose(d)
      PROVE  decoder' \in {"none", "fresh", "fed"} /\ fed' = fed /\ spoilt' = TRUE
  BY <1>l DEF Renderer!Lose
<1>6. decoder' \in {"none", "fresh", "fed"} /\ fed' \in {fed, u} /\ spoilt' \in BOOLEAN
  <2>1. CASE Renderer!Drop(was) BY <1>4, <2>1 DEF Renderer!Drop
  <2>2. CASE Renderer!Give(u) BY <2>2 DEF Renderer!Give
  <2> QED BY <1>4, <1>5, <1>l, <2>1, <2>2
<1>7. coded' \in Sizes \cup {0} BY <1>1, <1>2, <1>3
<1>8. waiting' \in BOOLEAN /\ (~waiting' => ~waits \/ u.key) BY <1>1, <1>w
<1>9. /\ Renderer!TypeOK' /\ InOrder' /\ (FFmpeg <=> FFmpeg') /\ fed.n < u.n
  BY <1>0, <1>1, <1>6, <1>7, <1>8, DecodeKeeps DEF u
<1>10. ~waiting' => spoilt' \/ decoder' = "fed"
  <2>1. Renderer!Give(u) => decoder' = "fed" BY DEF Renderer!Give
  <2> QED BY <1>4, <1>5, <1>8, <1>l, <2>1
<1>11. FeedStep
  <2>1. CASE Renderer!Drop(was) BY <1>0, <1>4, <1>9, <2>1, DroppedIsFed
  <2>2. CASE Renderer!Lose("none") BY <1>0, <1>9, <2>2, LostIsFed
  <2>3. CASE Renderer!Lose("fresh") BY <1>0, <1>9, <2>3, LostIsFed
  <2>4. CASE Renderer!Lose(was) BY <1>0, <1>4, <1>9, <2>4, LostIsFed
  <2>5. CASE (~waits \/ u.key) /\ Renderer!Give(u)
    <3>1. u.key \/ spoilt \/ decoder = "fed" BY <1>v, <2>5
    <3>2. decoder' = "fed" /\ fed' = u /\ spoilt' = (spoilt /\ ~u.key)
      BY <2>5 DEF Renderer!Give
    <3>3. Renderer!Feed!FeedUnit
      BY <1>0, <1>1, <1>2, <1>3, <1>9, <3>1, <3>2, GivenIsFed DEF u
    <3> QED BY <3>3 DEF FeedStep
  <2> QED BY <1>5, <2>1, <2>2, <2>3, <2>4, <2>5
<1> QED BY <1>1, <1>9, <1>10, <1>11 DEF RendererInv

LEMMA RendererSteps ==
  ASSUME RendererInv, Renderer!Next
  PROVE  RendererInv' /\ FeedStep
<1>1. ASSUME NEW key \in BOOLEAN, NEW size \in Sizes \cup {0}, Renderer!Render(key, size)
      PROVE  RendererInv' /\ FeedStep
  <2>1. UNCHANGED <<kind, fed, decoder, spoilt>>
    BY <1>1 DEF Renderer!Render
  <2> QED BY <1>1, <2>1, UnitAccepted DEF FeedStep
<1>2. CASE Renderer!ResetQueue \/ Renderer!Destroy
  <2>1. UNCHANGED <<kind, fed, decoder, spoilt>>
    BY <1>2 DEF Renderer!ResetQueue, Renderer!Destroy
  <2> QED BY <1>2, <2>1, QueueDropped DEF FeedStep
<1>3. CASE Renderer!ResetDecoder BY <1>3, DecoderReset
<1>4. CASE Renderer!TakeUnit
  <2>1. UNCHANGED <<kind, fed, decoder, spoilt>>
    BY <1>4 DEF Renderer!TakeUnit
  <2> QED BY <1>4, <2>1, UnitTaken DEF FeedStep
<1>5. ASSUME NEW opens \in BOOLEAN, NEW takes \in BOOLEAN,
             Renderer!DecodeFFmpeg(opens, takes) \/ Renderer!DecodeMediaFoundation(opens, takes)
      PROVE  RendererInv' /\ FeedStep
  BY <1>5, FFmpegDecodes, MediaFoundationDecodes
<1> QED BY <1>1, <1>2, <1>3, <1>4, <1>5 DEF Renderer!Next

LEMMA RendererStutters ==
  ASSUME RendererInv, UNCHANGED rvars
  PROVE  RendererInv' /\ FeedStep
BY DEF RendererInv, rvars, Renderer!TypeOK, Renderer!FFmpeg, FFmpeg, InOrder, Linked, Joined,
       Newest, Before, DecoderKnown, Fresh, FeedStep

(***************************************************************************)
(* The preview of a take.                                                  *)
(***************************************************************************)
LEMMA Larger ==
  ASSUME NEW a \in Int, NEW b \in Int
  PROVE  Playback!Max({a, b}) = IF a >= b THEN a ELSE b
<1> DEFINE m == IF a >= b THEN a ELSE b
<1>1. m \in {a, b} /\ \A y \in {a, b} : m >= y OBVIOUS
<1>2. \A x \in {a, b} : (\A y \in {a, b} : x >= y) => x = m OBVIOUS
<1> QED BY <1>1, <1>2 DEF Playback!Max

LEMMA Smallest ==
  ASSUME NEW a \in Int, NEW b \in Int, NEW c \in Int
  PROVE  /\ Playback!Min({a, b, c}) \in {a, b, c}
         /\ \A y \in {a, b, c} : Playback!Min({a, b, c}) <= y
<1>1. \E x \in {a, b, c} : \A y \in {a, b, c} : x <= y OBVIOUS
<1> QED BY <1>1 DEF Playback!Min

\* A time has a key frame before it, and the last of them.
LEMMA KeyIsBefore ==
  ASSUME NEW t \in 0..(Length - 1)
  PROVE  /\ Playback!KeyBefore(t) \in Keys /\ Playback!KeyBefore(t) \in 0..t
         /\ \A k \in Keys : k <= t => k <= Playback!KeyBefore(t)
<1> DEFINE S == {k \in Keys : k <= t}
           T == {n \in Nat : \E k \in S : n = t - k}
<1>1. Length \in Nat /\ 0 \in Keys /\ Keys \subseteq 0..(Length - 1) BY DisplayAssumption
<1>2. t \in Nat /\ \A k \in Keys : k \in Nat BY <1>1
<1>3. 0 \in S /\ S \subseteq 0..t
  <2>1. 0 \in S BY <1>2, <1>1
  <2>2. \A k \in S : k \in 0..t BY <1>2
  <2> QED BY <2>1, <2>2
<1>4. T \subseteq Nat /\ t \in T
  <2>1. t \in Nat /\ t = t - 0 BY <1>1
  <2> QED BY <1>3, <2>1
<1>5. PICK n \in T : \A m \in T : ~(<<m, n>> \in OpToRel(<, Nat))
  BY <1>4, NatLessThanWellFounded, WFMin
<1>6. PICK x \in S : n = t - x BY <1>5
<1>7. \A y \in S : x >= y
  <2> SUFFICES ASSUME NEW y \in S PROVE x >= y OBVIOUS
  <2>1. t - y \in Nat /\ t - y \in T BY <1>1, <1>3
  <2>2. ~(t - y < n) BY <1>4, <1>5, <2>1 DEF OpToRel
  <2> QED BY <1>1, <1>3, <1>6, <2>2
<1>8. Playback!KeyBefore(t) \in S /\ \A y \in S : Playback!KeyBefore(t) >= y
  BY <1>7 DEF Playback!KeyBefore, Playback!Max
<1> QED BY <1>1, <1>3, <1>8

\* How far a loop of reads gets: to the frame of the request, to the end of the file
\* or to its limit; what has come out of the decoder then.
LEMMA DecodeGoesTo ==
  ASSUME NEW t \in 0..(Length - 1), NEW p \in 0..Length, NEW n \in 0..Length,
         NEW last \in Playback!Time, n <= p, p - n <= Delay, last < p,
         Playback!Decode(t, p, n, last)
  PROVE  \E want, end, out \in Int :
           /\ want = IF n >= t - 1 THEN n ELSE t - 1
           /\ end \in {want + Delay + 1, p + MaxPackets, Length} /\ p <= end
           /\ end <= want + Delay + 1 /\ end <= p + MaxPackets /\ end <= Length
           /\ out = IF n >= end - Delay THEN n ELSE end - Delay
           /\ out \in 0..end
           /\ position' = end /\ next' = out
           /\ lastDecoded' = IF out > n THEN out - 1 ELSE last
           /\ IF end = want + Delay + 1 THEN frame' = want /\ worker' = "decoded"
              ELSE frame' = Playback!NoTime /\ worker' = "idle"
<1> DEFINE want == Playback!Max({n, t - 1})
           end == Playback!Min({want + Delay + 1, p + MaxPackets, Length})
           out == Playback!Max({n, end - Delay})
<1>1. Length \in Nat /\ Delay \in Nat /\ MaxPackets \in Nat BY DisplayAssumption
<1>2. n \in Int /\ p \in Int /\ t \in Int /\ t - 1 \in Int BY <1>1
<1>3. want = (IF n >= t - 1 THEN n ELSE t - 1) BY <1>2, Larger
<1>4. want \in Int /\ want >= n BY <1>2, <1>3
<1>5. /\ end \in {want + Delay + 1, p + MaxPackets, Length}
      /\ end <= want + Delay + 1 /\ end <= p + MaxPackets /\ end <= Length
  <2> HIDE DEF want
  <2>1. want + Delay + 1 \in Int /\ p + MaxPackets \in Int /\ Length \in Int BY <1>1, <1>2, <1>4
  <2> QED BY <2>1, Smallest
<1>6. /\ position' = end /\ next' = out
      /\ lastDecoded' = IF out > n THEN out - 1 ELSE last
      /\ IF end = want + Delay + 1 THEN frame' = want /\ worker' = "decoded"
         ELSE frame' = Playback!NoTime /\ worker' = "idle"
  BY DEF Playback!Decode
<1> HIDE DEF want, end
<1>7. end \in Int /\ p <= end BY <1>1, <1>2, <1>4, <1>5
<1>8. out = (IF n >= end - Delay THEN n ELSE end - Delay)
  BY <1>1, <1>2, <1>7, Larger
<1> HIDE DEF out
<1>9. out \in Int /\ out \in 0..end BY <1>1, <1>2, <1>7, <1>8
<1> QED BY <1>3, <1>4, <1>5, <1>6, <1>7, <1>8, <1>9

\* Requests that are worked on are of a clip; so is what has been decoded.
WorkTyped ==
  /\ worker # "idle" => request \in [clip : Clips, time : 0..(Length - 1)]
  /\ worker \in {"decoded", "emitting"} => open \in Clips /\ frame \in 0..(Length - 1)
  /\ worker \in {"decoded", "emitting"} => open = request.clip

\* The frame for a request, up to the tolerance for a step backward.
Near(f, t) == f \in (t - 1)..(t + Back + 1)
ShowsIt == shown.clip = latest.clip /\ Near(shown.time, latest.time)
NearTheEnd == latest.time + Delay + Back + 1 >= Length

\* The decoder holds Delay frames; what was rendered last is on the view; the request
\* made last waits, is worked on or is shown.
ReadsOn ==
  /\ lastDecoded = Playback!NoTime => ~sought
  /\ lastDecoded # Playback!NoTime => next = lastDecoded + 1 /\ position = next + Delay
Rendered ==
  /\ lastRendered # Playback!NoTime => shown.clip = open /\ Near(shown.time, lastRendered)
  /\ worker \in {"decoded", "emitting"} => Near(frame, request.time)
LatestInv ==
  /\ hidden => pending = Playback!None
  /\ ~hidden /\ latest # Playback!None =>
       \/ pending = latest
       \/ /\ pending = Playback!None /\ request = latest
          /\ worker = "idle" => ShowsIt \/ NearTheEnd
PlaybackTypes == Playback!TypeOK /\ WorkTyped
PlaybackInv == PlaybackTypes /\ (~failed => ReadsOn /\ Rendered /\ LatestInv)

\* The key frames of a clip are close together, and the last one is not in the frames
\* that stay in the decoder at the end.
KeysFit ==
  /\ Ahead <= MaxPackets
  /\ \A t \in 0..(Length - 1) : \E k \in Keys : k <= t /\ t + Delay < k + MaxPackets
  /\ \A k \in Keys : k + Delay < Length

LEMMA PlaybackTyped ==
  ASSUME Playback!TypeOK
  PROVE  /\ pending \in Playback!Request /\ request \in Playback!Request
         /\ latest \in Playback!Request /\ shown \in Playback!Request
         /\ hidden \in BOOLEAN /\ sought \in BOOLEAN /\ failed \in BOOLEAN
         /\ worker \in {"idle", "rendering", "decoded", "emitting"}
         /\ open \in Clips \cup {"none"} /\ position \in 0..Length /\ next \in 0..Length
         /\ lastDecoded \in Playback!Time /\ lastRendered \in Playback!Time
         /\ frame \in Playback!Time /\ requests \in 0..MaxRequests
         /\ next <= position /\ position - next <= Delay /\ lastDecoded < position
         /\ Length \in Nat \ {0} /\ Delay \in Nat /\ Back \in Nat /\ Ahead \in Nat
         /\ MaxPackets \in Nat /\ MaxRequests \in Nat
<1>1. /\ Length \in Nat /\ Delay \in Nat /\ Back \in Nat /\ Ahead \in Nat
      /\ MaxPackets \in Nat /\ MaxRequests \in Nat
      /\ 0 \in 0..(Length - 1)
  BY DisplayAssumption
<1>2. Length # 0 BY <1>1
<1> QED BY <1>1, <1>2 DEF Playback!TypeOK

LEMMA PlaybackBegins == Playback!Init => PlaybackInv
<1> SUFFICES ASSUME Playback!Init PROVE PlaybackInv OBVIOUS
<1>1. /\ Length \in Nat /\ Delay \in Nat /\ MaxRequests \in Nat BY DisplayAssumption
<1>2. /\ pending = Playback!None /\ hidden = FALSE /\ worker = "idle"
      /\ request = Playback!None /\ open = "none" /\ position = 0 /\ next = 0
      /\ lastDecoded = -1 /\ lastRendered = -1 /\ sought = FALSE /\ frame = -1 /\ requests = 0
      /\ latest = Playback!None /\ shown = Playback!None /\ failed = FALSE
  BY DEF Playback!Init, Playback!NoTime
<1>3. hidden \in BOOLEAN /\ sought \in BOOLEAN /\ failed \in BOOLEAN BY <1>2, Zenon
<1>4. Playback!TypeOK
  BY <1>1, <1>2, <1>3 DEF Playback!TypeOK, Playback!Request, Playback!Time, Playback!NoTime
<1>5. WorkTyped BY <1>2 DEF WorkTyped
<1>6. ReadsOn /\ Rendered /\ LatestInv
  BY <1>2 DEF ReadsOn, Rendered, LatestInv, Playback!NoTime
<1> QED BY <1>4, <1>5, <1>6 DEF PlaybackInv, PlaybackTypes

PlaybackStep == PlaybackTypes' /\ (KeysFit /\ PlaybackInv => PlaybackInv')

LEMMA Requested ==
  ASSUME PlaybackTypes,
         \/ \E clip \in Clips, time \in 0..(Length - 1) : Playback!ShowMedia(clip, time)
         \/ Playback!Hide \/ Playback!WorkerTakes
  PROVE  PlaybackStep
<1>0. Playback!TypeOK /\ WorkTyped BY DEF PlaybackTypes
<1>1. UNCHANGED <<open, position, next, lastDecoded, lastRendered, sought, frame, shown, failed>>
  BY DEF Playback!ShowMedia, Playback!Hide, Playback!WorkerTakes, Playback!decoder
<1>r. /\ requests \in 0..MaxRequests /\ MaxRequests \in Nat /\ hidden \in BOOLEAN
      /\ pending \in Playback!Request
  BY <1>0, PlaybackTyped
<1>k. ASSUME Playback!TypeOK', WorkTyped', PlaybackInv /\ ~failed => LatestInv',
             PlaybackInv /\ ~failed => Rendered'
      PROVE  PlaybackStep
  <2>1. PlaybackInv /\ ~failed => ReadsOn' BY <1>1 DEF PlaybackInv, ReadsOn
  <2> QED BY <1>1, <1>k, <2>1 DEF PlaybackStep, PlaybackInv, PlaybackTypes
<1>2. ASSUME NEW clip \in Clips, NEW time \in 0..(Length - 1), Playback!ShowMedia(clip, time)
      PROVE  PlaybackStep
  <2>1. /\ requests' = requests + 1 /\ requests < MaxRequests
        /\ pending' = [clip |-> clip, time |-> time] /\ latest' = pending'
        /\ hidden' = FALSE /\ UNCHANGED <<worker, request>>
    BY <1>2 DEF Playback!ShowMedia
  <2>2. hidden' \in BOOLEAN BY <2>1, Zenon
  <2>3. pending' \in Playback!Request BY <2>1 DEF Playback!Request
  <2>4. requests' \in 0..MaxRequests BY <1>r, <2>1
  <2>5. Playback!TypeOK' BY <1>0, <1>1, <2>1, <2>2, <2>3, <2>4 DEF Playback!TypeOK
  <2>6. WorkTyped' BY <1>0, <1>1, <2>1 DEF WorkTyped
  <2>7. LatestInv' BY <2>1 DEF LatestInv
  <2>8. PlaybackInv /\ ~failed => Rendered' BY <1>1, <2>1 DEF PlaybackInv, Rendered, Near
  <2> QED BY <1>k, <2>5, <2>6, <2>7, <2>8
<1>3. CASE Playback!Hide
  <2>1. /\ hidden' = TRUE /\ pending' = Playback!None
        /\ UNCHANGED <<worker, request, requests, latest>>
    BY <1>3 DEF Playback!Hide
  <2>2. hidden' \in BOOLEAN BY <2>1, Zenon
  <2>3. pending' \in Playback!Request BY <2>1 DEF Playback!Request
  <2>5. Playback!TypeOK' BY <1>0, <1>1, <2>1, <2>2, <2>3 DEF Playback!TypeOK
  <2>6. WorkTyped' BY <1>0, <1>1, <2>1 DEF WorkTyped
  <2>7. LatestInv' BY <2>1 DEF LatestInv
  <2>8. PlaybackInv /\ ~failed => Rendered' BY <1>1, <2>1 DEF PlaybackInv, Rendered, Near
  <2> QED BY <1>k, <2>5, <2>6, <2>7, <2>8
<1>4. CASE Playback!WorkerTakes
  <2>1. /\ worker = "idle" /\ pending # Playback!None /\ worker' = "rendering"
        /\ request' = pending /\ pending' = Playback!None
        /\ UNCHANGED <<hidden, requests, latest>>
    BY <1>4 DEF Playback!WorkerTakes
  <2>3. pending' \in Playback!Request BY <2>1 DEF Playback!Request
  <2>4. request' \in [clip : Clips, time : 0..(Length - 1)] /\ request' \in Playback!Request
    BY <1>r, <2>1 DEF Playback!Request
  <2>5. Playback!TypeOK' BY <1>0, <1>1, <2>1, <2>3, <2>4 DEF Playback!TypeOK
  <2>6. WorkTyped' BY <2>1, <2>4 DEF WorkTyped
  <2>7. PlaybackInv /\ ~failed => LatestInv' BY <2>1 DEF PlaybackInv, LatestInv
  <2>8. PlaybackInv /\ ~failed => Rendered' BY <1>1, <2>1 DEF PlaybackInv, Rendered, Near
  <2> QED BY <1>k, <2>5, <2>6, <2>7, <2>8
<1> QED BY <1>2, <1>3, <1>4

\* The worker gives up, has shown it before, asks whether it is hidden, or shows it.
LEMMA Finished ==
  ASSUME PlaybackTypes,
         Playback!OpenFails \/ Playback!Skip \/ Playback!CheckHidden \/ Playback!Emit
  PROVE  PlaybackStep
<1>0. Playback!TypeOK /\ WorkTyped BY DEF PlaybackTypes
<1>1. UNCHANGED <<pending, hidden, request, requests, latest>>
  BY DEF Playback!OpenFails, Playback!Skip, Playback!CheckHidden, Playback!Emit
<1>2. CASE Playback!OpenFails
  <2>1. /\ open' = "none" /\ position' = 0 /\ next' = 0 /\ lastDecoded' = -1
        /\ lastRendered' = -1 /\ sought' = FALSE /\ worker' = "idle" /\ failed' = TRUE
        /\ UNCHANGED <<frame, shown>>
    BY <1>2 DEF Playback!OpenFails, Playback!NoTime
  <2>2. sought' \in BOOLEAN /\ failed' \in BOOLEAN BY <2>1, Zenon
  <2>3. position' \in 0..Length /\ next' \in 0..Length /\ position' - next' <= Delay
        /\ lastDecoded' \in Playback!Time /\ lastRendered' \in Playback!Time
        /\ lastDecoded' < position' /\ next' <= position'
    BY <1>0, <2>1, PlaybackTyped DEF Playback!Time, Playback!NoTime
  <2>4. Playback!TypeOK' BY <1>0, <1>1, <2>1, <2>2, <2>3 DEF Playback!TypeOK
  <2>5. WorkTyped' BY <2>1 DEF WorkTyped
  <2> QED BY <2>1, <2>4, <2>5 DEF PlaybackStep, PlaybackInv, PlaybackTypes
<1>3. CASE Playback!Skip
  <2>1. /\ worker = "rendering" /\ request.clip = open /\ lastRendered = request.time
        /\ worker' = "idle"
        /\ UNCHANGED <<open, position, next, lastDecoded, lastRendered, sought, frame, shown,
                       failed>>
    BY <1>3 DEF Playback!Skip, Playback!decoder
  <2>2. Playback!TypeOK' BY <1>0, <1>1, <2>1 DEF Playback!TypeOK
  <2>3. WorkTyped' BY <2>1 DEF WorkTyped
  <2>4. request.time \in 0..(Length - 1) BY <1>0, <2>1 DEF WorkTyped
  <2>5. lastRendered # Playback!NoTime 
    <3>1. Length \in Nat BY <1>0, PlaybackTyped
    <3>2. \A n \in 0..(Length - 1) : n # -1 BY <3>1
    <3> QED BY <2>1, <2>4, <3>2 DEF Playback!NoTime
  <2>6. ASSUME PlaybackInv, ~failed PROVE ReadsOn' /\ Rendered' /\ LatestInv'
    <3>1. ReadsOn' BY <2>1, <2>6 DEF PlaybackInv, ReadsOn
    <3>2. Rendered' BY <2>1, <2>6 DEF PlaybackInv, Rendered, Near
    <3>3. shown.clip = request.clip /\ Near(shown.time, request.time)
      BY <2>1, <2>5, <2>6 DEF PlaybackInv, Rendered
    <3>4. LatestInv'
      BY <1>1, <2>1, <2>6, <3>3 DEF PlaybackInv, LatestInv, ShowsIt, NearTheEnd, Near
    <3> QED BY <3>1, <3>2, <3>4
  <2> QED BY <2>1, <2>2, <2>3, <2>6 DEF PlaybackStep, PlaybackInv, PlaybackTypes
<1>4. CASE Playback!CheckHidden
  <2>1. /\ worker = "decoded" /\ worker' = IF hidden THEN "idle" ELSE "emitting"
        /\ UNCHANGED <<open, position, next, lastDecoded, lastRendered, sought, frame, shown,
                       failed>>
    BY <1>4 DEF Playback!CheckHidden, Playback!decoder
  <2>2. Playback!TypeOK' BY <1>0, <1>1, <2>1 DEF Playback!TypeOK
  <2>3. WorkTyped' BY <1>0, <1>1, <2>1 DEF WorkTyped
  <2>4. ASSUME PlaybackInv, ~failed PROVE ReadsOn' /\ Rendered' /\ LatestInv'
    <3>1. ReadsOn' BY <2>1, <2>4 DEF PlaybackInv, ReadsOn
    <3>2. Rendered' BY <1>1, <2>1, <2>4 DEF PlaybackInv, Rendered, Near
    <3>3. LatestInv' BY <1>1, <2>1, <2>4 DEF PlaybackInv, LatestInv
    <3> QED BY <3>1, <3>2, <3>3
  <2> QED BY <2>1, <2>2, <2>3, <2>4 DEF PlaybackStep, PlaybackInv, PlaybackTypes
<1>5. CASE Playback!Emit
  <2>1. /\ worker = "emitting" /\ worker' = "idle"
        /\ shown' = [clip |-> open, time |-> frame] /\ lastRendered' = request.time
        /\ UNCHANGED <<open, position, next, lastDecoded, sought, frame, failed>>
    BY <1>5 DEF Playback!Emit
  <2>2. open \in Clips /\ frame \in 0..(Length - 1) /\ open = request.clip
        /\ request.time \in 0..(Length - 1)
    BY <1>0, <2>1 DEF WorkTyped
  <2>3. Playback!TypeOK'
    <3>1. shown' \in Playback!Request BY <2>1, <2>2 DEF Playback!Request
    <3>2. lastRendered' \in Playback!Time BY <2>1, <2>2 DEF Playback!Time
    <3> QED BY <1>0, <1>1, <2>1, <3>1, <3>2 DEF Playback!TypeOK
  <2>4. WorkTyped' BY <2>1 DEF WorkTyped
  <2>5. ASSUME PlaybackInv, ~failed PROVE ReadsOn' /\ Rendered' /\ LatestInv'
    <3>1. ReadsOn' BY <2>1, <2>5 DEF PlaybackInv, ReadsOn
    <3>2. Near(frame, request.time) BY <2>1, <2>5 DEF PlaybackInv, Rendered
    <3>3. shown'.clip = open /\ shown'.time = frame BY <2>1
    <3>4. Rendered' BY <2>1, <3>2, <3>3 DEF Rendered, Near
    <3>5. LatestInv'
      BY <1>1, <2>1, <2>2, <2>5, <3>2, <3>3 DEF PlaybackInv, LatestInv, ShowsIt, Near
    <3> QED BY <3>1, <3>4, <3>5
  <2> QED BY <2>1, <2>3, <2>4, <2>5 DEF PlaybackStep, PlaybackInv, PlaybackTypes
<1> QED BY <1>2, <1>3, <1>4, <1>5

\* The worker renders: it opens another clip, seeks or reads on, and decodes.
LEMMA RequestRendered ==
  ASSUME PlaybackTypes, NEW seeks \in BOOLEAN, Playback!Render(seeks)
  PROVE  PlaybackStep
<1> DEFINE t == request.time
           fresh == request.clip # open
           last == IF fresh THEN Playback!NoTime ELSE lastDecoded
           need == Playback!NeedsSeek(t, last, ~fresh /\ sought)
           key == Playback!KeyBefore(t)
<1>0. Playback!TypeOK /\ WorkTyped BY DEF PlaybackTypes
<1>1. /\ worker = "rendering" /\ open' = request.clip
      /\ lastRendered' = IF fresh THEN Playback!NoTime ELSE lastRendered
      /\ IF need /\ ~seeks
         THEN /\ worker' = "idle" /\ failed' = TRUE /\ lastDecoded' = last
              /\ position' = IF fresh THEN 0 ELSE position
              /\ next' = IF fresh THEN 0 ELSE next
              /\ sought' = (~fresh /\ sought) /\ UNCHANGED frame
         ELSE /\ Playback!Decode(t, IF need THEN key ELSE position, IF need THEN key ELSE next,
                                 IF need THEN Playback!NoTime ELSE last)
              /\ sought' = (need \/ sought) /\ UNCHANGED failed
      /\ UNCHANGED <<pending, hidden, request, requests, latest, shown>>
  BY DEF Playback!Render
<1>2. request \in [clip : Clips, time : 0..(Length - 1)] /\ t \in 0..(Length - 1)
      /\ request.clip \in Clips
  BY <1>0, <1>1 DEF WorkTyped
<1>3. /\ Length \in Nat \ {0} /\ Delay \in Nat /\ Back \in Nat /\ Ahead \in Nat
      /\ MaxPackets \in Nat
      /\ open \in Clips \cup {"none"} /\ position \in 0..Length /\ next \in 0..Length
      /\ lastDecoded \in Playback!Time /\ lastRendered \in Playback!Time
      /\ next <= position /\ position - next <= Delay /\ lastDecoded < position
      /\ sought \in BOOLEAN /\ failed \in BOOLEAN
  BY <1>0, PlaybackTyped
<1>4. key \in Keys /\ key \in 0..t /\ \A k \in Keys : k <= t => k <= key BY <1>2, KeyIsBefore
<1>5. fresh => need BY DEF Playback!NeedsSeek
<1>6. fresh \in BOOLEAN /\ need \in BOOLEAN
  <2>1. (~fresh /\ sought) \in BOOLEAN OBVIOUS
  <2>2. CASE last = Playback!NoTime
    <3>1. need = ~(~fresh /\ sought) BY <2>2 DEF Playback!NeedsSeek
    <3> QED BY <3>1
  <2>3. CASE last # Playback!NoTime
    <3>1. need = (t < last - Back \/ t > last + Ahead) BY <2>3 DEF Playback!NeedsSeek
    <3> QED BY <3>1
  <2> QED BY <2>2, <2>3
<1>7. ~need => /\ last = lastDecoded /\ ~fresh
               /\ last = Playback!NoTime => sought
               /\ last # Playback!NoTime => t >= last - Back /\ t <= last + Ahead
  <2>1. CASE last = Playback!NoTime BY <1>5, <2>1 DEF Playback!NeedsSeek
  <2>2. CASE last # Playback!NoTime
    <3>1. t \in Int /\ last \in Int /\ Back \in Int /\ Ahead \in Int
      BY <1>2, <1>3 DEF Playback!Time, Playback!NoTime
    <3>2. need = (t < last - Back \/ t > last + Ahead) BY <2>2 DEF Playback!NeedsSeek
    <3>3. ~need => ~(t < last - Back) /\ ~(t > last + Ahead) BY <3>2
    <3> HIDE DEF last, need, t
    <3>4. ~need => t >= last - Back /\ t <= last + Ahead BY <3>1, <3>3
    <3>5. ~need => ~fresh BY <1>5
    <3> QED BY <2>2, <3>4, <3>5 DEF last
  <2> QED BY <2>1, <2>2
<1>8. last \in Playback!Time BY <1>3 DEF Playback!Time
<1>9. lastRendered' \in Playback!Time BY <1>1, <1>3 DEF Playback!Time
<1>k. ASSUME position' \in 0..Length, next' \in 0..Length, lastDecoded' \in Playback!Time,
             next' <= position', position' - next' <= Delay, lastDecoded' < position',
             worker' \in {"idle", "decoded"}, frame' \in Playback!Time,
             sought' \in BOOLEAN, failed' \in BOOLEAN,
             worker' = "decoded" => frame' \in 0..(Length - 1),
             KeysFit /\ PlaybackInv /\ ~failed' => ReadsOn' /\ Rendered' /\ LatestInv'
      PROVE  PlaybackStep
  <2>1. open' \in Clips \cup {"none"} BY <1>1, <1>2
  <2>2. Playback!TypeOK' BY <1>0, <1>1, <1>9, <1>k, <2>1 DEF Playback!TypeOK
  <2>3. WorkTyped' BY <1>1, <1>2, <1>k DEF WorkTyped
  <2> QED BY <1>k, <2>2, <2>3 DEF PlaybackStep, PlaybackInv, PlaybackTypes
<1> HIDE DEF t, fresh, last, need, key
<1>10. CASE need /\ ~seeks
  <2>1. /\ worker' = "idle" /\ failed' = TRUE /\ lastDecoded' = last
        /\ position' = (IF fresh THEN 0 ELSE position)
        /\ next' = (IF fresh THEN 0 ELSE next)
        /\ sought' = (~fresh /\ sought) /\ UNCHANGED frame
    BY <1>1, <1>10
  <2>2. failed' \in BOOLEAN /\ sought' \in BOOLEAN BY <2>1, Zenon
  <2>3. frame' \in Playback!Time BY <1>0, <2>1, PlaybackTyped
  <2>4. fresh => last = -1 BY DEF last, Playback!NoTime
  <2>5. ~fresh => last = lastDecoded BY DEF last
  <2>6. /\ position' \in 0..Length /\ next' \in 0..Length /\ next' <= position'
        /\ position' - next' <= Delay /\ lastDecoded' < position'
    <3>1. CASE fresh BY <1>3, <2>1, <2>4, <3>1
    <3>2. CASE ~fresh BY <1>3, <2>1, <2>5, <3>2
    <3> QED BY <3>1, <3>2
  <2> QED BY <1>8, <1>k, <2>1, <2>2, <2>3, <2>6
<1>11. CASE ~(need /\ ~seeks)
  <2> DEFINE p == IF need THEN key ELSE position
             n == IF need THEN key ELSE next
             was == IF need THEN Playback!NoTime ELSE last
  <2>1. Playback!Decode(t, p, n, was) /\ sought' = (need \/ sought) /\ failed' = failed
    BY <1>1, <1>11
  <2>2. /\ p \in 0..Length /\ n \in 0..Length /\ was \in Playback!Time
        /\ n <= p /\ p - n <= Delay /\ was < p
    <3>1. CASE need
      <4>1. key \in 0..Length /\ -1 < key BY <1>2, <1>3, <1>4
      <4> QED BY <1>3, <3>1, <4>1 DEF Playback!Time, Playback!NoTime
    <3>2. CASE ~need BY <1>3, <1>7, <1>8, <3>2
    <3> QED BY <3>1, <3>2
  <2> HIDE DEF p, n, was
  <2>3. PICK want \in Int, end \in Int, out \in Int :
           /\ want = IF n >= t - 1 THEN n ELSE t - 1
           /\ end \in {want + Delay + 1, p + MaxPackets, Length} /\ p <= end
           /\ end <= want + Delay + 1 /\ end <= p + MaxPackets /\ end <= Length
           /\ out = IF n >= end - Delay THEN n ELSE end - Delay
           /\ out \in 0..end
           /\ position' = end /\ next' = out
           /\ lastDecoded' = IF out > n THEN out - 1 ELSE was
           /\ IF end = want + Delay + 1 THEN frame' = want /\ worker' = "decoded"
              ELSE frame' = Playback!NoTime /\ worker' = "idle"
    BY <1>2, <2>1, <2>2, DecodeGoesTo
  <2>4. /\ t \in Int /\ p \in Int /\ n \in Int /\ was \in Int /\ 0 <= n /\ 0 <= p
        /\ Length \in Int /\ Delay \in Int /\ 0 <= t /\ t <= Length - 1 /\ 0 <= Delay
    BY <1>2, <1>3, <2>2 DEF Playback!Time, Playback!NoTime
  <2>5. position' \in 0..Length /\ next' \in 0..Length /\ next' <= position'
        /\ position' - next' <= Delay
    BY <2>3, <2>4
  <2>6. lastDecoded' \in Playback!Time /\ lastDecoded' < position'
    <3>1. CASE out > n BY <2>3, <2>4, <3>1 DEF Playback!Time
    <3>2. CASE ~(out > n) BY <2>2, <2>3, <2>4, <3>2
    <3> QED BY <3>1, <3>2
  <2>7. /\ worker' \in {"idle", "decoded"} /\ frame' \in Playback!Time
        /\ worker' = "decoded" => frame' \in 0..(Length - 1)
    <3>1. CASE end = want + Delay + 1
      <4>1. want \in 0..(Length - 1) BY <2>3, <2>4, <3>1
      <4> QED BY <2>3, <3>1, <4>1 DEF Playback!Time
    <3>2. CASE end # want + Delay + 1 BY <2>3, <3>2 DEF Playback!Time
    <3> QED BY <3>1, <3>2
  <2>8. sought' \in BOOLEAN /\ failed' \in BOOLEAN BY <1>3, <1>6, <2>1
  <2>9. ASSUME KeysFit, PlaybackInv, ~failed'
        PROVE  ReadsOn' /\ Rendered' /\ LatestInv'
    <3>1. ReadsOn /\ Rendered /\ LatestInv BY <2>1, <2>9 DEF PlaybackInv
    <3>m. MaxPackets \in Int /\ Ahead \in Int /\ Back \in Int /\ 0 <= Back /\ Ahead <= MaxPackets
      BY <1>3, <2>9 DEF KeysFit
    <3>n. t + Delay < key + MaxPackets /\ key \in Int /\ key <= t
      <4>1. PICK k \in Keys : k <= t /\ t + Delay < k + MaxPackets BY <1>2, <2>9 DEF KeysFit
      <4>2. k <= key BY <1>4, <4>1
      <4>3. Keys \subseteq 0..(Length - 1) BY DisplayAssumption
      <4>4. k \in Int /\ key \in Int BY <1>4, <2>4, <4>1, <4>3
      <4>5. key <= t BY <1>4, <2>4
      <4> QED BY <2>4, <3>m, <4>1, <4>2, <4>4, <4>5
    <3>a. /\ lastDecoded' # Playback!NoTime /\ next' = lastDecoded' + 1
          /\ position' = next' + Delay
          /\ Near(want, t)
          /\ end # want + Delay + 1 => t + Delay + Back + 1 >= Length
      \* From the key frame, near enough to t and before the frames held back.
      <4>1. CASE need
        <5>1. p = key /\ n = key /\ was = -1 BY <4>1 DEF p, n, was, Playback!NoTime
        <5>2. key + Delay < Length BY <1>4, <2>9 DEF KeysFit
        <5>3. want <= t /\ want >= t - 1 /\ want >= n BY <2>3, <2>4, <3>n, <5>1
        <5>4. end # want + Delay + 1 => end = Length BY <2>3, <2>4, <3>m, <3>n, <5>1, <5>3
        <5>5. out > n /\ out = end - Delay
          BY <2>3, <2>4, <3>n, <5>1, <5>2, <5>3, <5>4
        <5>6. lastDecoded' = out - 1 /\ lastDecoded' >= 0 BY <2>3, <2>4, <5>5
        <5>7. Near(want, t) BY <2>4, <3>m, <5>3 DEF Near
        <5>8. end # want + Delay + 1 => t + Delay + Back + 1 >= Length
          BY <2>3, <2>4, <3>m, <5>3, <5>4
        <5> QED BY <2>3, <2>4, <5>5, <5>6, <5>7, <5>8 DEF Playback!NoTime
      \* From where the decoder is, at most Ahead before t.
      <4>2. CASE ~need
        <5>1. p = position /\ n = next /\ was = lastDecoded BY <1>7, <4>2 DEF p, n, was
        <5>2. lastDecoded # Playback!NoTime BY <1>7, <3>1, <4>2 DEF ReadsOn
        <5>3. n = was + 1 /\ p = n + Delay BY <3>1, <5>1, <5>2 DEF ReadsOn
        <5>4. t >= was - Back /\ t <= was + Ahead BY <1>7, <4>2, <5>1, <5>2
        <5>5. want >= n /\ want >= t - 1 /\ want <= t + Back + 1
          BY <2>3, <2>4, <3>m, <5>3, <5>4
        <5>6. want + Delay + 1 <= p + MaxPackets BY <2>3, <2>4, <3>m, <3>n, <5>3, <5>4
        <5>7. end # want + Delay + 1 => end = Length BY <2>3, <2>4, <3>m, <5>6
        <5>8. out = end - Delay BY <2>3, <2>4, <5>3
        <5>9. lastDecoded' = out - 1 BY <2>3, <2>4, <5>3, <5>8
        <5>10. lastDecoded' >= 0
          <6>1. was >= 0 BY <2>2, <2>4, <5>1, <5>2 DEF Playback!Time, Playback!NoTime
          <6> QED BY <2>3, <2>4, <5>3, <5>8, <5>9, <6>1
        <5>11. Near(want, t) BY <2>3, <2>4, <3>m, <5>5 DEF Near
        <5>12. end # want + Delay + 1 => t + Delay + Back + 1 >= Length
          BY <2>3, <2>4, <3>m, <5>5, <5>7
        <5> QED BY <2>3, <2>4, <5>8, <5>9, <5>10, <5>11, <5>12 DEF Playback!NoTime
      <4> QED BY <4>1, <4>2
    <3>b. ReadsOn' BY <3>a DEF ReadsOn
    <3>c. Rendered'
      <4>1. fresh => lastRendered' = Playback!NoTime BY <1>1
      <4>2. ~fresh => lastRendered' = lastRendered /\ open' = open BY <1>1 DEF fresh
      <4>3. shown' = shown BY <1>1
      <4>4. lastRendered' # Playback!NoTime => shown'.clip = open' /\ Near(shown'.time, lastRendered')
        BY <3>1, <4>1, <4>2, <4>3 DEF Rendered
      <4>5. worker' \in {"decoded", "emitting"} => frame' = want BY <2>3
      <4>6. request'.time = t BY <1>1 DEF t
      <4> QED BY <3>a, <4>4, <4>5, <4>6 DEF Rendered, Near
    <3>d. LatestInv'
      <4>1. worker' = "idle" => t + Delay + Back + 1 >= Length
        <5>1. worker' = "idle" => end # want + Delay + 1 BY <2>3
        <5> QED BY <3>a, <5>1
      <4>2. request.time = t BY DEF t
      <4> QED BY <1>1, <3>1, <4>1, <4>2 DEF LatestInv, NearTheEnd
    <3> QED BY <3>b, <3>c, <3>d
  <2> QED BY <1>k, <2>5, <2>6, <2>7, <2>8, <2>9
<1> QED BY <1>10, <1>11

LEMMA PlaybackSteps ==
  ASSUME PlaybackTypes, Playback!Next PROVE PlaybackStep
BY Requested, Finished, RequestRendered DEF Playback!Next

LEMMA PlaybackStutters ==
  ASSUME PlaybackTypes, UNCHANGED bvars PROVE PlaybackStep
<1>1. /\ UNCHANGED <<pending, hidden, worker, request, open, position, next, lastDecoded>>
      /\ UNCHANGED <<lastRendered, sought, frame, requests, latest, shown, failed>>
  BY DEF bvars
<1>2. PlaybackTypes' BY <1>1 DEF PlaybackTypes, WorkTyped, Playback!TypeOK
<1>3. ReadsOn /\ Rendered /\ LatestInv => ReadsOn' /\ Rendered' /\ LatestInv'
  BY <1>1 DEF ReadsOn, Rendered, LatestInv, ShowsIt, NearTheEnd, Near
<1> QED BY <1>1, <1>2, <1>3 DEF PlaybackStep, PlaybackInv

(***************************************************************************)
(* The three together, one of which moves.                                 *)
(***************************************************************************)
DisplayInv == RendererInv /\ PlaybackTypes /\ SetupInv

LEMMA DisplayBegins == Init => DisplayInv /\ PlaybackInv
BY RendererBegins, PlaybackBegins, SetupBegins DEF Init, DisplayInv, PlaybackInv

LEMMA DisplaySteps ==
  ASSUME DisplayInv, [Next]_vars
  PROVE  DisplayInv' /\ FeedStep /\ PlaybackStep
<1>1. Renderer!Next \/ UNCHANGED rvars BY DEF Next, vars
<1>2. Playback!Next \/ UNCHANGED bvars BY DEF Next, vars
<1>3. Setup!Next \/ UNCHANGED svars BY DEF Next, vars
<1>4. RendererInv' /\ FeedStep BY <1>1, RendererSteps, RendererStutters DEF DisplayInv
<1>5. PlaybackStep BY <1>2, PlaybackSteps, PlaybackStutters DEF DisplayInv
<1>6. SetupInv' BY <1>3, SetupSteps, SetupStutters DEF DisplayInv
<1> QED BY <1>4, <1>5, <1>6 DEF DisplayInv, PlaybackStep

LEMMA DisplayHolds == Spec => []DisplayInv
<1>1. DisplayInv /\ [Next]_vars => DisplayInv' BY DisplaySteps
<1> QED BY DisplayBegins, <1>1, PTL DEF Spec

\* Whatever the stream, the timer and the user do, the renderer's queue keeps its
\* bound, the decoder of the playback preview its distance, and every copy of a
\* setting its type.
THEOREM DisplayTypes == Spec => []TypeOK
<1>1. DisplayInv => TypeOK
  BY DEF DisplayInv, TypeOK, RendererInv, PlaybackTypes, SetupInv
<1> QED BY <1>1, DisplayHolds, PTL

\* Both renderers implement the feed a decoder needs: units in order, a key frame
\* first, with FFmpeg none without the one before it, for any capacity of the queue,
\* any stream, any overflow, reset and change of size, and a decoder that fails to open
\* or refuses a unit at any time: deltas that follow such a loss are excused up to the
\* next key frame.
THEOREM FeedCanBeDecoded == Spec => FeedIsDecodable
<1>1. Init => Renderer!Feed!FeedInit
  BY DEF Init, Renderer!Init, Renderer!Feed!FeedInit, Renderer!FFmpeg, Renderer!NoUnit
<1>2. DisplayInv /\ [Next]_vars => FeedStep BY DisplaySteps
<1>3. FeedStep => [Renderer!Feed!FeedUnit \/ Renderer!Feed!LoseUnit \/ Renderer!Feed!Restart]_<<
                   Renderer!FFmpeg, [n |-> fed.n, key |-> fed.key], decoder = "fed", spoilt>>
  BY DEF FeedStep, Renderer!FFmpeg
<1> QED BY <1>1, <1>2, <1>3, DisplayHolds, PTL
        DEF Spec, FeedIsDecodable, Renderer!FeedIsDecodable, Renderer!Feed!FeedSpec

\* With key frames that fit, a worker that has nothing left to do shows the frame asked
\* for last (showMedia, hide, renderRequest), whatever was replaced or hidden before.
THEOREM LatestIsShown == KeysFit => (Spec => []ShowsLatestRequest)
<1> SUFFICES ASSUME KeysFit PROVE Spec => []ShowsLatestRequest OBVIOUS
<1>1. DisplayInv /\ PlaybackInv /\ [Next]_vars => PlaybackInv'
  BY DisplaySteps DEF PlaybackStep
<1>2. PlaybackInv => ShowsLatestRequest
  <2> SUFFICES ASSUME PlaybackInv, worker = "idle", pending = Playback!None, ~hidden,
                      latest # Playback!None, ~failed,
                      latest.time + Delay + Back + 1 < Length
               PROVE  /\ shown.clip = latest.clip
                      /\ shown.time \in (latest.time - 1)..(latest.time + Back + 1)
    BY DEF ShowsLatestRequest, Playback!ShowsLatestRequest
  <2>1. LatestInv BY DEF PlaybackInv
  <2>2. ShowsIt \/ NearTheEnd BY <2>1 DEF LatestInv
  <2>3. ~NearTheEnd
    <3>1. /\ latest \in Playback!Request /\ Length \in Nat /\ Delay \in Nat /\ Back \in Nat
      BY PlaybackTyped DEF PlaybackInv, PlaybackTypes
    <3>2. latest.time \in Int BY <3>1 DEF Playback!Request, Playback!None
    <3> QED BY <3>1, <3>2 DEF NearTheEnd
  <2> QED BY <2>2, <2>3 DEF ShowsIt, Near
<1> QED BY <1>1, <1>2, DisplayBegins, DisplayHolds, PTL DEF Spec

\* A pairing or the loss of one is in REAPER's saved settings at once (persistSettings),
\* whatever was typed, read back or pushed between.
THEOREM TokenStaysSaved == Spec => []TokenIsSaved
<1>1. DisplayInv => TokenIsSaved BY DEF DisplayInv, SetupInv, TokenIsSaved
<1> QED BY <1>1, DisplayHolds, PTL

\* A command of the Setup window goes to the host it shows (captureSetupFields before
\* readPanelSettings), for any sequence of typing, answers, status and restarts.
THEOREM CommandsGoToShownHost == Spec => CommandGoesToShownHost
<1>1. DisplayInv /\ [Next]_vars => [GoesToShown]_svars
  <2> SUFFICES ASSUME DisplayInv, [Next]_vars, ~UNCHANGED svars PROVE GoesToShown
    OBVIOUS
  <2>1. Setup!Next BY DEF Next, vars
  <2> QED BY <2>1, CommandsGo DEF DisplayInv
<1>2. [][GoesToShown]_svars => CommandGoesToShownHost
  BY PTL DEF CommandGoesToShownHost, Setup!CommandGoesToShownHost, GoesToShown, svars,
             Setup!pvars
<1> QED BY <1>1, <1>2, DisplayHolds, PTL DEF Spec
=============================================================================

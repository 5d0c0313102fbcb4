----------------------------- MODULE SetupPanel -----------------------------
(***************************************************************************)
(* Where the phone's host and profile live on Windows: in the fields of    *)
(* the Setup window, in the panel (swell_panel_probe.cpp), in the          *)
(* extension (reaper_reashoot_win32.cpp) and in REAPER's saved settings.   *)
(* Commands read the fields; every change of the status writes them.  All  *)
(* of it runs on REAPER's main thread; the helper's answers come later.    *)
(***************************************************************************)
EXTENDS Integers, SequencesExt

CONSTANTS
  Hosts, Profiles,
  MaxActs   \* bound: what the user and the status do

NoHost == ""

VARIABLES
  window,   \* g_setupWindow: "none", "shown" or "hidden"
  fields,   \* the window's host field and profile combos
  panel,    \* g_host, g_resolution ... of the panel
  ext,      \* g_iPhoneHost, g_iPhoneToken (of which host), g_iPhoneResolution ...
  saved,    \* REAPER's ext state
  pushed,   \* lastHost and lastToken of setPanelStatus
  jobs,     \* helper commands on their way
  acts,
  found     \* history: the host discovered, until another is typed

pvars == <<window, fields, panel, ext, saved, pushed, jobs, acts, found>>

Shown == [host : Hosts \cup {NoHost}, profile : Profiles]
Settings == [host : Hosts \cup {NoHost}, profile : Profiles, token : Hosts \cup {NoHost}]
Job == [command : {"discover", "pair", "configure"}, host : Hosts \cup {NoHost}]

TypeOK ==
  /\ window \in {"none", "shown", "hidden"}
  /\ {fields, panel} \subseteq Shown /\ {ext, saved} \subseteq Settings
  /\ pushed \in [host : Hosts \cup {NoHost}, token : Hosts \cup {NoHost}]
  /\ jobs \in Seq(Job) /\ acts \in 0..MaxActs /\ found \in Hosts \cup {NoHost}

\* REAPER has loaded the extension and created the panel: the settings saved
\* before, and updatePanel.
Init ==
  /\ saved \in Settings /\ ext = saved
  /\ panel = [host |-> ext.host, profile |-> ext.profile]
  /\ window = "none" /\ fields = panel
  /\ pushed = [host |-> NoHost, token |-> NoHost] /\ jobs = <<>> /\ acts = 0
  /\ found = NoHost

(***************************************************************************)
(* The copies.                                                             *)
(***************************************************************************)
\* captureSetupFields: an empty host field is not read.
Captured == IF window = "none" THEN panel
            ELSE [fields EXCEPT !.host = IF @ = NoHost THEN panel.host ELSE @]

Read_NoHost(e) == [e EXCEPT !.profile = Captured.profile]
\* readPanelSettings
Read(e) == [e EXCEPT !.profile = Captured.profile,
                     !.host = IF Captured.host = NoHost THEN @ ELSE Captured.host]

\* readPanelSettings: the fields, the panel, the extension.
ReadPanel == panel' = Captured /\ ext' = Read(ext) /\ UNCHANGED fields
Persist == saved' = ext'

\* updatePanel: the extension's values replace the fields', typed or not.
Updated(e) == [host |-> e.host, profile |-> e.profile]
UpdatedFields(e) == IF window = "none" THEN fields ELSE Updated(e)
UpdatePanel(e) == panel' = Updated(e) /\ fields' = UpdatedFields(e)

\* setPanelStatus, with p in the panel and f in the fields: only a new status, host or
\* token is written, without the profile.
Written(p, f) == panel' = p /\ fields' = f /\ UNCHANGED pushed
Pushes(e, p, f, changed) ==
  IF changed \/ pushed # [host |-> e.host, token |-> e.token]
  THEN /\ pushed' = [host |-> e.host, token |-> e.token]
       /\ panel' = [p EXCEPT !.host = e.host]
       /\ fields' = IF window = "none" THEN f ELSE [host |-> e.host, profile |-> p.profile]
  ELSE Written(p, f)
StatusPushed(e, changed) == Pushes(e, panel, fields, changed)

Launch(command, host) == jobs' = Append(jobs, [command |-> command, host |-> host])
Act == acts < MaxActs /\ acts' = acts + 1

(***************************************************************************)
(* The user.                                                               *)
(***************************************************************************)
OpenSetup ==
  /\ Act /\ window # "shown" /\ window' = "shown" /\ fields' = panel
  /\ UNCHANGED <<panel, ext, saved, pushed, jobs, found>>

TypeHost(host) ==
  /\ Act /\ window = "shown" /\ fields' = [fields EXCEPT !.host = host]
  /\ found' = NoHost /\ UNCHANGED <<window, panel, ext, saved, pushed, jobs>>

CloseSetup ==
  /\ Act /\ window = "shown" /\ window' = "hidden" /\ panel' = Captured
  /\ UNCHANGED <<fields, ext, saved, pushed, jobs, found>>

\* configureOnWorker, with p in the panel and f in the fields: without a host or a token
\* it says so, in a status that may be the one already shown.
Configure(p, f) ==
  \/ /\ NoHost \in {ext'.host, ext'.token} /\ UNCHANGED jobs
     /\ \E changed \in BOOLEAN : Pushes(ext', p, f, changed)
  \/ /\ NoHost \notin {ext'.host, ext'.token} /\ Launch("configure", ext'.host)
     /\ Written(p, f)

\* Choosing in a combo reads and saves everything, then configures.
PickProfile(profile) ==
  /\ Act /\ window = "shown"
  /\ ext' = [Read(ext) EXCEPT !.profile = profile] /\ Persist
  /\ LET p == [Captured EXCEPT !.profile = profile]
         f == [fields EXCEPT !.profile = profile]
     IN IF ext.token = NoHost THEN UNCHANGED jobs /\ Written(p, f) ELSE Configure(p, f)
  /\ UNCHANGED <<window, found>>

Discover ==
  /\ Act /\ window = "shown" /\ panel' = Captured /\ Launch("discover", NoHost)
  /\ UNCHANGED <<window, fields, ext, saved, pushed, found>>

\* pairPhone reads but does not save.
Pair ==
  /\ Act /\ window = "shown" /\ ReadPanel
  /\ IF ext'.host = NoHost THEN UNCHANGED jobs ELSE Launch("pair", ext'.host)
  /\ UNCHANGED <<window, saved, pushed, found>>

Reconnect ==
  /\ Act /\ window = "shown" /\ ext' = Read(ext) /\ Persist /\ Configure(Captured, fields)
  /\ UNCHANGED <<window, found>>

\* A look: the panel is written before it is read.
ChooseLook ==
  /\ Act /\ UNCHANGED ext /\ Persist
  /\ LET p == Updated(ext)
         f == UpdatedFields(ext)
     IN IF ext.token = NoHost THEN UNCHANGED jobs /\ Written(p, f) ELSE Configure(p, f)
  /\ UNCHANGED <<window, found>>

\* The preview, a download or the playback changes the status or the format.
StatusChanges ==
  /\ Act /\ StatusPushed(ext, TRUE) /\ UNCHANGED <<window, ext, saved, jobs, found>>

(***************************************************************************)
(* The helper's answers.                                                   *)
(***************************************************************************)
Answered(i, command) ==
  /\ i \in DOMAIN jobs /\ jobs[i].command = command /\ jobs' = RemoveAt(jobs, i)

JobFails(i) ==
  /\ \/ Answered(i, "discover") /\ UNCHANGED <<fields, panel, pushed>>
     \/ Answered(i, "pair") /\ UNCHANGED <<fields, panel, pushed>>
     \/ Answered(i, "configure") /\ StatusPushed(ext, TRUE)
  /\ UNCHANGED <<window, ext, saved, acts, found>>

\* The host found is set, and then persistSettings reads the old one back from the
\* panel, if there is one.
DiscoverEnds(i, host) ==
  /\ Answered(i, "discover")
  /\ ext' = Read([ext EXCEPT !.host = host]) /\ Persist /\ UpdatePanel(ext')
  /\ found' = host /\ UNCHANGED <<window, pushed, acts>>

PairEnds_NotSaved(i) ==
  /\ Answered(i, "pair")
  /\ ext' = [ext EXCEPT !.token = jobs[i].host] /\ UNCHANGED saved
  /\ UpdatePanel(ext') /\ pushed' = [host |-> ext.host, token |-> ext'.token]
  /\ UNCHANGED <<window, acts, found>>
PairEnds(i) ==
  /\ Answered(i, "pair")
  /\ ext' = [ext EXCEPT !.token = jobs[i].host] /\ Persist
  /\ UpdatePanel(ext') /\ pushed' = [host |-> ext.host, token |-> ext'.token]
  /\ UNCHANGED <<window, acts, found>>

ConfigureEnds(i) ==
  /\ Answered(i, "configure") /\ UpdatePanel(ext)
  /\ UNCHANGED <<window, ext, saved, pushed, acts, found>>

\* The phone rejects the token: it is forgotten.
Unauthorized(i) ==
  /\ Answered(i, "configure")
  /\ ext' = Read([ext EXCEPT !.token = NoHost]) /\ Persist
  /\ UpdatePanel(ext') /\ pushed' = [host |-> ext'.host, token |-> NoHost]
  /\ UNCHANGED <<window, acts, found>>

\* REAPER quits, which persists, or is killed, and starts again.
Restart(quits) ==
  /\ Act /\ saved' = IF quits THEN Read(ext) ELSE saved
  /\ ext' = saved' /\ panel' = [host |-> ext'.host, profile |-> ext'.profile]
  /\ window' = "none" /\ fields' = panel' /\ jobs' = <<>>
  /\ pushed' = [host |-> NoHost, token |-> NoHost] /\ found' = NoHost

Next ==
  \/ OpenSetup \/ CloseSetup \/ Discover \/ Pair \/ Reconnect \/ ChooseLook \/ StatusChanges
  \/ \E host \in Hosts \cup {NoHost} : TypeHost(host)
  \/ \E profile \in Profiles : PickProfile(profile)
  \/ \E quits \in BOOLEAN : Restart(quits)
  \/ \E i \in 1..MaxActs : \/ JobFails(i) \/ PairEnds(i) \/ ConfigureEnds(i) \/ Unauthorized(i)
                           \/ \E host \in Hosts : DiscoverEnds(i, host)

Spec == Init /\ [][Next]_pvars

(***************************************************************************)
(* Properties.                                                             *)
(***************************************************************************)
\* A pairing survives REAPER's end however it ends, and a token the phone rejected
\* does not come back.
TokenIsSaved == saved.token = ext.token

\* Pair, Reconnect and a chosen profile or look go to the host the Setup window shows,
\* whatever has been typed, written by a status, discovered or paired before; an empty
\* field aside. (The commands of the preview and of takes go to the host read last.)
CommandGoesToShownHost ==
  [][ (Len(jobs') > Len(jobs) /\ Last(jobs').command # "discover"
       /\ window' = "shown" /\ fields'.host # NoHost)
      => Last(jobs').host = fields'.host ]_pvars

\* Discover, then Pair: the phone paired is the one found, unless another host was
\* typed in between.
DiscoveredPhoneIsPaired ==
  [][ (Len(jobs') > Len(jobs) /\ Last(jobs').command = "pair" /\ found # NoHost)
      => Last(jobs').host = found ]_pvars
=============================================================================

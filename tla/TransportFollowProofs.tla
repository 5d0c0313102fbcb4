------------------------- MODULE TransportFollowProofs -------------------------
(***************************************************************************)
(* Proofs about TransportFollow: its types, and that for a patient user a  *)
(* downloaded take is put where it was recorded, for any number of clips,  *)
(* projects and helpers.                                                   *)
(***************************************************************************)
EXTENDS TransportFollow, TLAPS

\* A helper that works on a pending clip has been given one.
ClipsGiven ==
  \A h \in Helper : task[h].kind \in {"download", "restore", "delete"} => task[h].clip \in Clip

TypeInv == TypeOK /\ ClipsGiven

LEMMA TypeInit == Init => TypeInv
<1> SUFFICES ASSUME Init PROVE TypeInv
  OBVIOUS
<1>1. "stopped" \in PlayState /\ NoTask \in Task
  BY DEF PlayState, Task, NoTask
<1>2. /\ play \in [Project -> PlayState] /\ task \in [Helper -> Task]
      /\ shot \in [Clip -> Project \cup {None}]
  BY <1>1 DEF Init
<1>3. ClipsGiven
  BY DEF Init, ClipsGiven, NoTask
<1>4. tries \in 0..(RetryLimit - 1)
  BY RetryAssumption DEF Init
<1>5. wasRecording = FALSE /\ videoEnabled = FALSE /\ active = FALSE /\ remoteRecording = FALSE
      /\ followEnabled \in BOOLEAN
  BY DEF Init
<1> QED
  BY <1>2, <1>3, <1>4, <1>5 DEF Init, TypeInv, TypeOK

\* The three ways a helper's task changes.
LEMMA LaunchType ==
  ASSUME TypeInv, NEW h \in Helper, NEW kind \in Kind, NEW clip \in Clip \cup {None},
         kind # "stop" => clip \in Clip, Launch(h, kind, clip)
  PROVE  task' \in [Helper -> Task] /\ ClipsGiven'
BY DEF Launch, TypeInv, TypeOK, ClipsGiven, Task, Kind

LEMMA AdvanceType ==
  ASSUME TypeInv, NEW h \in Helper,
         NEW phase \in {"sent", "waiting", "fetched", "succeeded", "failed"}, Advance(h, phase)
  PROVE  task' \in [Helper -> Task] /\ ClipsGiven'
BY DEF Advance, TypeInv, TypeOK, ClipsGiven, Task

LEMMA EndsType ==
  ASSUME TypeInv, NEW h \in Helper, Ends(h)
  PROVE  task' \in [Helper -> Task] /\ ClipsGiven'
BY DEF Ends, TypeInv, TypeOK, ClipsGiven, Task, NoTask

\* What the timer's parts may write.
LEMMA TrackType ==
  ASSUME TypeInv,
         \/ ProcessPendingAlignment
         \/ \E clip \in Clip, project \in Project, at \in Clip \cup Project :
              InsertRecordedMedia(clip, project, at)
         \/ ClearPendingAlignment
         \/ UNCHANGED track
  PROVE  alignment' \in Item \cup {None} /\ tries' \in 0..(RetryLimit - 1)
BY RetryAssumption
   DEF ProcessPendingAlignment, InsertRecordedMedia, QueuePendingAlignment, ClearPendingAlignment,
       track, TypeInv, TypeOK, Item

RecordingType ==
  /\ active \in BOOLEAN
  /\ recordProject \in Project \cup {None}
  /\ recordAt \in Clip \cup {None}
  /\ remoteRecording \in BOOLEAN
  /\ stopCompletion \in Clip \cup {None}

PhoneType ==
  /\ film \in Clip \cup {None}
  /\ waiter \in Helper \cup {None}
  /\ pending \subseteq Clip
  /\ shot \in [Clip -> Project \cup {None}]
  /\ told \subseteq Clip

LEMMA StopType ==
  ASSUME TypeInv, StopTransportRecording
  PROVE  RecordingType' /\ task' \in [Helper -> Task] /\ ClipsGiven'
<1>1. RecordingType'
  BY DEF StopTransportRecording, StopRecordingWithCompletion, recording, RecordingType,
         TypeInv, TypeOK
<1>2. task' = task \/ \E h \in Helper : Launch(h, "stop", None)
  BY DEF StopTransportRecording, StopRecordingWithCompletion
<1>3. task' = task => task' \in [Helper -> Task] /\ ClipsGiven'
  BY DEF TypeInv, TypeOK, ClipsGiven
<1> QED
  BY <1>1, <1>2, <1>3, LaunchType DEF Kind

LEMMA StartType ==
  ASSUME TypeInv, NEW project \in Project, StartTransportRecording(project)
  PROVE  RecordingType' /\ PhoneType'
BY DEF StartTransportRecording, StartIPhoneRecording, recording, phone, RecordingType, PhoneType,
       TypeInv, TypeOK

LEMMA FollowType ==
  ASSUME TypeInv, FollowTransport
  PROVE  /\ RecordingType' /\ PhoneType' /\ task' \in [Helper -> Task] /\ ClipsGiven'
         /\ wasRecording' \in BOOLEAN
<1>1. wasRecording' \in BOOLEAN
  BY DEF FollowTransport
<1>2. open \in Project
  BY DEF TypeInv, TypeOK
<1>3. /\ UNCHANGED phone => PhoneType'
      /\ UNCHANGED recording => RecordingType'
      /\ UNCHANGED task => task' \in [Helper -> Task] /\ ClipsGiven'
  BY DEF phone, recording, PhoneType, RecordingType, TypeInv, TypeOK, ClipsGiven
<1>4. CASE StartTransportRecording(open) /\ UNCHANGED task
  BY <1>1, <1>2, <1>3, <1>4, StartType
<1>5. CASE StopTransportRecording /\ UNCHANGED phone
  BY <1>1, <1>3, <1>5, StopType
<1>6. CASE UNCHANGED <<recording, phone, task>>
  BY <1>1, <1>3, <1>6
<1> QED
  BY <1>4, <1>5, <1>6 DEF FollowTransport

\* Every step keeps the types.
LEMMA TypeStep == TypeInv /\ [Next]_vars => TypeInv'
<1> SUFFICES ASSUME TypeInv, [Next]_vars PROVE TypeInv'
  OBVIOUS
<1> USE DEF TypeInv
<1>0. TypeOK <=>
        /\ open \in Project /\ play \in [Project -> PlayState]
        /\ wasRecording \in BOOLEAN
        /\ videoEnabled \in BOOLEAN /\ followEnabled \in BOOLEAN
        /\ RecordingType
        /\ pendingInsert \in Insert \cup {None}
        /\ alignment \in Item \cup {None} /\ tries \in 0..(RetryLimit - 1)
        /\ prompt \in Clip \cup {None}
        /\ task \in [Helper -> Task]
        /\ PhoneType
        /\ owed \subseteq Clip
  BY DEF TypeOK, RecordingType, PhoneType
<1> USE DEF reaper, enabled, recording, phone, track
<1>1. CASE TimerPoll
  <2>1. /\ alignment' \in Item \cup {None} /\ tries' \in 0..(RetryLimit - 1)
        /\ owed' \subseteq Clip
    <3>1. CASE pendingInsert # None /\ ProcessPendingInsert
      <4>1. pendingInsert.clip \in Clip /\ pendingInsert.at \in Clip /\ RecordingProject \in Project
        BY <3>1 DEF TypeOK, Insert, RecordingProject
      <4> QED
        BY <3>1, <4>1, TrackType DEF ProcessPendingInsert, TypeOK
    <3>2. CASE ProcessPendingAlignment /\ UNCHANGED owed
      BY <3>2, TrackType DEF TypeOK
    <3> QED
      BY <1>1, <3>1, <3>2 DEF TimerPoll
  <2>2. /\ RecordingType' /\ PhoneType' /\ task' \in [Helper -> Task] /\ ClipsGiven'
        /\ wasRecording' \in BOOLEAN
    <3>1. CASE FollowTransport
      BY <3>1, FollowType
    <3>2. CASE wasRecording' = FALSE /\ UNCHANGED <<recording, phone, task>>
      BY <3>2 DEF TypeOK, RecordingType, PhoneType, ClipsGiven
    <3> QED
      BY <1>1, <3>1, <3>2 DEF TimerPoll
  <2> QED
    BY <1>1, <2>1, <2>2 DEF TimerPoll, TypeOK, RecordingType, PhoneType
<1>2. CASE \/ \E p \in Project, state \in PlayState : TransportMoves(p, state)
           \/ \E p \in Project : SwitchProject(p)
           \/ \E c \in Clip : PendingDeleted(c)
           \/ UNCHANGED vars
  BY <1>2 DEF TransportMoves, SwitchProject, PendingDeleted, vars, TypeOK, ClipsGiven
<1>3. CASE ToggleVideo \/ ToggleFollow
  <2>1. RecordingType' /\ task' \in [Helper -> Task] /\ ClipsGiven'
    <3>1. CASE StopTransportRecording
      BY <3>1, StopType
    <3>2. CASE UNCHANGED <<recording, task>>
      BY <3>2 DEF TypeOK, RecordingType, ClipsGiven
    <3> QED
      BY <1>3, <3>1, <3>2 DEF ToggleVideo, ToggleFollow, StopIfRecording
  <2>2. videoEnabled' \in BOOLEAN /\ followEnabled' \in BOOLEAN
    BY <1>3 DEF ToggleVideo, ToggleFollow, TypeOK
  <2> QED
    BY <1>3, <2>1, <2>2 DEF ToggleVideo, ToggleFollow, TypeOK, RecordingType
<1>4. CASE \E c \in Clip : Restore(c)
  <2>1. task' \in [Helper -> Task] /\ ClipsGiven'
    BY <1>4, LaunchType DEF Restore, Kind
  <2> QED
    BY <1>4, <2>1 DEF Restore, TypeOK
<1>5. CASE AlignSelected
  BY <1>5, TrackType DEF AlignSelected, TypeOK, ClipsGiven
<1>6. CASE PhoneFinishes \/ PhoneFails
  <2>1. task' \in [Helper -> Task] /\ ClipsGiven'
    BY <1>6 DEF PhoneFinishes, PhoneFails, TypeOK, ClipsGiven, Task
  <2> QED
    BY <1>6, <2>1 DEF PhoneFinishes, PhoneFails, TypeOK
<1>7. CASE PromptIsAnswered
  <2>1. task' \in [Helper -> Task] /\ ClipsGiven'
    BY <1>7, LaunchType DEF PromptIsAnswered, Kind, TypeOK
  <2> QED
    BY <1>7, <2>1 DEF PromptIsAnswered, TypeOK
<1>8. ASSUME NEW h \in Helper, PhoneWorks(h) PROVE TypeInv'
  <2>1. \E phase \in {"sent", "waiting", "fetched", "succeeded", "failed"} : Advance(h, phase)
    BY <1>8 DEF PhoneWorks, PhoneStops, StopTimesOut, DownloadFetches, DownloadAcknowledges,
                PhoneDeletes
  <2>2. task' \in [Helper -> Task] /\ ClipsGiven'
    BY <2>1, AdvanceType
  <2>3. waiter' \in Helper \cup {None} /\ pending' \subseteq Clip
    BY <1>8 DEF PhoneWorks, PhoneStops, StopTimesOut, DownloadFetches, DownloadAcknowledges,
                PhoneDeletes, TypeOK
  <2> QED
    BY <1>8, <2>2, <2>3 DEF PhoneWorks, PhoneStops, StopTimesOut, DownloadFetches,
                            DownloadAcknowledges, PhoneDeletes, TypeOK
<1>9. ASSUME NEW h \in Helper, Complete(h) PROVE TypeInv'
  <2>1. task' \in [Helper -> Task] /\ ClipsGiven' /\ task[h].clip \in Clip \cup {None}
    BY <1>9, EndsType DEF Complete, StopCompletes, DownloadCompletes, DeleteCompletes,
                          RestoreCompletes, TypeOK, Task
  <2>2. ASSUME NEW result, FinishStop(result)
        PROVE  /\ active' \in BOOLEAN /\ stopCompletion' \in Clip \cup {None}
               /\ pendingInsert' \in Insert \cup {None}
    <3>1. /\ active \in BOOLEAN /\ stopCompletion \in Clip \cup {None}
          /\ pendingInsert \in Insert \cup {None}
      BY DEF TypeOK
    <3>2. CASE stopCompletion = None
      BY <2>2, <3>1, <3>2 DEF FinishStop
    <3>3. CASE stopCompletion # None /\ result \in Clip
      <4>1. [clip |-> result, at |-> stopCompletion] \in Insert
        BY <3>1, <3>3 DEF Insert
      <4>2. /\ active' = FALSE /\ stopCompletion' = None
            /\ pendingInsert' = [clip |-> result, at |-> stopCompletion]
        BY <2>2, <3>3 DEF FinishStop
      <4> QED
        BY <4>1, <4>2
    <3>4. CASE stopCompletion # None /\ result \notin Clip
      BY <2>2, <3>1, <3>4 DEF FinishStop
    <3> QED
      BY <3>2, <3>3, <3>4
  <2>3. CASE StopCompletes(h)
    BY <2>1, <2>2, <2>3 DEF StopCompletes, TypeOK
  <2>4. CASE DownloadCompletes(h)
    BY <2>1, <2>2, <2>4 DEF DownloadCompletes, TypeOK, ClipsGiven
  <2>5. CASE DeleteCompletes(h)
    BY <2>1, <2>2, <2>5 DEF DeleteCompletes, TypeOK
  <2>6. CASE RestoreCompletes(h)
    <3>1. task[h].clip \in Clip /\ RecordingProject \in Project /\ open \in Project
      BY <2>6 DEF RestoreCompletes, ClipsGiven, RecordingProject, TypeOK
    <3>2. alignment' \in Item \cup {None} /\ tries' \in 0..(RetryLimit - 1)
      BY <2>6, <3>1, TrackType DEF RestoreCompletes
    <3> QED
      BY <2>1, <2>6, <3>2 DEF RestoreCompletes, TypeOK
  <2> QED
    BY <1>9, <2>3, <2>4, <2>5, <2>6 DEF Complete
<1> QED
  BY <1>1, <1>2, <1>3, <1>4, <1>5, <1>6, <1>7, <1>8, <1>9 DEF Next

\* The extension's and the phone's variables keep their types: among others the
\* alignment is given up before its RetryLimit-th retry.
THEOREM FollowTypes == Spec => []TypeOK
<1>1. TypeInv /\ [Next]_vars => TypeInv'
  BY TypeStep
<1>2. TypeInv => TypeOK
  BY DEF TypeInv
<1> QED
  BY <1>1, <1>2, TypeInit, PTL DEF Spec
-----------------------------------------------------------------------------
(* A patient user's takes.                                                 *)

\* A flow deals with one take: stop it, ask, download or delete it.
Flowing(h) == task[h].kind \in {"stop", "download", "delete"}
Flow == prompt # None \/ \E h \in Helper : Flowing(h)

\* The take in hand was filmed at recordAt for recordProject.
InHand(c) == c \in Clip /\ c = recordAt /\ recordProject \in Project /\ shot[c] = recordProject

\* What the phone films while the extension believes that it films is the take
\* in hand.
RemoteInv == remoteRecording => active /\ InHand(recordAt) /\ film \in {None, recordAt}

\* A completion block is for the take in hand, and until it is called no other
\* take is begun and nothing waits to be inserted.
CompletionInv ==
  /\ stopCompletion # None => active /\ InHand(stopCompletion)
  /\ active => pendingInsert = None

\* During a flow no poll of the timer will find that the transport has moved.
Settled == Flow /\ followEnabled => ~wasRecording /\ play[open] # "recording"

\* Nothing is launched twice: a flow ends before the next one starts.
OneFlow ==
  /\ \A g, h \in Helper : Flowing(g) /\ Flowing(h) => g = h
  /\ prompt # None => \A h \in Helper : ~Flowing(h)
  /\ Settled

\* A flow is about the take whose completion block waits for its end.
FlowInv ==
  /\ \A h \in Helper : task[h].kind = "stop" =>
       /\ remoteRecording /\ stopCompletion # None
       /\ task[h].phase = "succeeded" => task[h].clip = stopCompletion
  /\ \A h \in Helper : task[h].kind \in {"download", "delete"} =>
       ~remoteRecording /\ stopCompletion = task[h].clip
  /\ prompt # None => ~remoteRecording /\ stopCompletion = prompt

\* What was downloaded waits to be inserted into the project that is still
\* g_recordProject.
InsertInv ==
  /\ pendingInsert # None =>
       /\ pendingInsert.at = pendingInsert.clip
       /\ recordProject \in Project
       /\ shot[pendingInsert.clip] = recordProject
  /\ InsertedWhereRecorded
  /\ DownloadedIsInserted

TakesInv ==
  TypeInv /\ RemoteInv /\ CompletionInv /\ OneFlow /\ FlowInv /\ InsertInv

HandInv == RemoteInv /\ CompletionInv /\ OneFlow /\ FlowInv

LEMMA TakesInit == Init => TakesInv
<1> SUFFICES ASSUME Init PROVE TakesInv
  OBVIOUS
<1>1. TypeInv
  BY TypeInit
<1>2. \A h \in Helper : ~Flowing(h) /\ task[h].kind = "none"
  BY DEF Init, Flowing, NoTask
<1>3. HandInv
  BY <1>2 DEF Init, HandInv, RemoteInv, CompletionInv, OneFlow, FlowInv, Settled, Flow, Flowing
<1>4. InsertInv
  BY DEF Init, InsertInv, InsertedWhereRecorded, DownloadedIsInserted
<1> QED
  BY <1>1, <1>3, <1>4 DEF TakesInv, HandInv

LEMMA QuietIsNoFlow == Quiet => ~Flow
BY DEF Quiet, Flow, Flowing, Free

\* Steps that begin and end no flow and leave the take in hand alone.
LEMMA KeepHand ==
  ASSUME TakesInv,
         UNCHANGED <<recording, prompt, shot>>,
         pendingInsert' \in {pendingInsert, None}, film' \in {film, None},
         \A h \in Helper : Flowing(h) \/ Flowing(h)' =>
           /\ task'[h].kind = task[h].kind
           /\ task[h].kind # "stop" => task'[h].clip = task[h].clip
           /\ task[h].kind = "stop" /\ task'[h].phase = "succeeded" =>
                task'[h].clip = stopCompletion,
         Settled'
  PROVE  HandInv'
<1> USE DEF TakesInv, recording
<1>1. \A c : InHand(c)' <=> InHand(c)
  BY DEF InHand
<1>2. RemoteInv' /\ CompletionInv'
  BY <1>1 DEF RemoteInv, CompletionInv
<1>3. \A h \in Helper : Flowing(h)' => Flowing(h)
  BY DEF Flowing
<1>4. OneFlow'
  BY <1>3 DEF OneFlow
<1>5. FlowInv'
  <2>1. prompt' # None => ~remoteRecording' /\ stopCompletion' = prompt'
    BY DEF FlowInv
  <2>2. ASSUME NEW h \in Helper, task'[h].kind = "stop"
        PROVE  /\ remoteRecording' /\ stopCompletion' # None
               /\ task'[h].phase = "succeeded" => task'[h].clip = stopCompletion'
    BY <2>2 DEF FlowInv, Flowing
  <2>3. ASSUME NEW h \in Helper, task'[h].kind \in {"download", "delete"}
        PROVE  ~remoteRecording' /\ stopCompletion' = task'[h].clip
    BY <2>3 DEF FlowInv, Flowing
  <2> QED
    BY <2>1, <2>2, <2>3 DEF FlowInv
<1> QED
  BY <1>2, <1>4, <1>5 DEF HandInv

\* An item that stays on the track, and one that is restored, are where they
\* belong.
LEMMA KeepInsert ==
  ASSUME TakesInv, UNCHANGED <<pendingInsert, recordProject, shot, owed>>,
         alignment' \in {alignment, None} \/ alignment'.at \notin Clip
  PROVE  InsertInv'
BY DEF TakesInv, InsertInv, InsertedWhereRecorded, DownloadedIsInserted

\* A stop that is not part of a flow begins one, or clears the active flag.
LEMMA StopHand ==
  ASSUME TakesInv, ~Flow, StopTransportRecording,
         UNCHANGED <<prompt, phone>>, pendingInsert' \in {pendingInsert, None},
         followEnabled' => ~wasRecording' /\ play'[open'] # "recording"
  PROVE  HandInv'
<1> USE DEF TakesInv, phone
<1>1. recordProject' = recordProject /\ recordAt' = recordAt /\ Settled'
  BY DEF StopTransportRecording, recording, Settled
<1>2. \A c : InHand(c)' <=> InHand(c)
  BY <1>1 DEF InHand
<1>3. prompt = None /\ \A h \in Helper : ~Flowing(h)
  BY DEF Flow
<1>4. CASE UNCHANGED <<recording, task>>
  BY <1>1, <1>3, <1>4, KeepHand DEF Flowing
<1>5. CASE /\ ~remoteRecording /\ stopCompletion' = None /\ active' = FALSE
           /\ UNCHANGED <<remoteRecording, task>>
  BY <1>1, <1>3, <1>5 DEF HandInv, RemoteInv, CompletionInv, OneFlow, FlowInv, Flowing
<1>6. CASE /\ remoteRecording /\ stopCompletion' = recordAt
           /\ \E h \in Helper : Launch(h, "stop", None)
           /\ UNCHANGED <<active, remoteRecording>>
  <2>1. PICK h \in Helper : Launch(h, "stop", None)
    BY <1>6
  <2>2. /\ task'[h].kind = "stop" /\ task'[h].phase = "sent"
        /\ \A g \in Helper : g # h => task'[g] = task[g]
    BY <2>1 DEF Launch, TypeInv, TypeOK
  <2>3. InHand(recordAt) /\ active /\ recordAt # None
    BY <1>6, NoneAssumption DEF RemoteInv, InHand
  <2>4. RemoteInv' /\ CompletionInv'
    BY <1>1, <1>2, <1>6, <2>3 DEF RemoteInv, CompletionInv
  <2>5. \A g \in Helper : Flowing(g)' => g = h
    BY <1>3, <2>2 DEF Flowing
  <2>6. OneFlow'
    BY <1>1, <1>3, <2>5 DEF OneFlow
  <2>7. FlowInv'
    BY <1>3, <1>6, <2>2, <2>3 DEF FlowInv, Flowing
  <2> QED
    BY <2>4, <2>6, <2>7 DEF HandInv
<1> QED
  BY <1>4, <1>5, <1>6 DEF StopTransportRecording, StopRecordingWithCompletion, recording

\* The user's commands, and what changes nothing of the take in hand.
LEMMA UserKeepsTakes ==
  ASSUME Patient, TakesInv, TypeInv',
         \/ \E p \in Project, state \in PlayState : TransportMoves(p, state)
         \/ \E p \in Project : SwitchProject(p)
         \/ ToggleVideo \/ ToggleFollow \/ AlignSelected
         \/ \E c \in Clip : Restore(c)
         \/ \E c \in Clip : PendingDeleted(c)
         \/ UNCHANGED vars
  PROVE  TakesInv'
<1> USE DEF recording, phone, enabled, reaper, track
<1>1. UserMayAct => ~Flow
  BY QuietIsNoFlow DEF UserMayAct
<1>2. CASE \E p \in Project, state \in PlayState : TransportMoves(p, state)
  <2>1. PICK p \in Project, state \in PlayState : TransportMoves(p, state)
    BY <1>2
  <2>2. Flow' <=> Flow
    BY <2>1 DEF TransportMoves, Flow, Flowing
  <2>3. Flow /\ play'[open] = "recording" => play[open] = "recording"
    BY <1>1, <2>1 DEF TransportMoves, TakesInv, TypeInv, TypeOK
  <2>4. Settled'
    BY <2>1, <2>2, <2>3 DEF TransportMoves, Settled, TakesInv, OneFlow
  <2>5. HandInv'
    BY <2>1, <2>4, KeepHand DEF TransportMoves, Flowing, TakesInv, FlowInv
  <2>6. InsertInv'
    BY <2>1, KeepInsert DEF TransportMoves
  <2> QED
    BY <2>5, <2>6 DEF TakesInv, HandInv
<1>3. CASE \E p \in Project : SwitchProject(p)
  <2>1. ~Flow /\ (Flow' <=> Flow)
    BY <1>1, <1>3 DEF SwitchProject, Flow, Flowing
  <2>2. HandInv'
    BY <1>3, <2>1, KeepHand DEF SwitchProject, Flowing, TakesInv, FlowInv, Settled
  <2>3. InsertInv'
    BY <1>3, KeepInsert DEF SwitchProject
  <2> QED
    BY <2>2, <2>3 DEF TakesInv, HandInv
<1>4. CASE ToggleVideo \/ ToggleFollow
  <2>1. ~Flow
    BY <1>1, <1>4 DEF ToggleVideo, ToggleFollow
  <2>2. /\ UNCHANGED <<reaper, wasRecording, pendingInsert, track, prompt, phone, owed>>
        /\ \/ followEnabled' = FALSE /\ StopTransportRecording
           \/ UNCHANGED <<recording, task>>
    BY <1>4 DEF ToggleVideo, ToggleFollow, StopIfRecording, TakesInv, TypeInv, TypeOK
  <2>3. CASE followEnabled' = FALSE /\ StopTransportRecording
    <3>1. HandInv'
      BY <2>1, <2>2, <2>3, StopHand
    <3>2. recordProject' = recordProject
      BY <2>3 DEF StopTransportRecording
    <3>3. InsertInv'
      BY <2>2, <3>2, KeepInsert
    <3> QED
      BY <3>1, <3>3 DEF TakesInv, HandInv
  <2>4. CASE UNCHANGED <<recording, task>>
    <3>1. ~Flow'
      BY <2>1, <2>2, <2>4 DEF Flow, Flowing
    <3>2. HandInv'
      BY <2>2, <2>4, <3>1, KeepHand DEF Flowing, TakesInv, FlowInv, Settled
    <3>3. InsertInv'
      BY <2>2, <2>4, KeepInsert
    <3> QED
      BY <3>2, <3>3 DEF TakesInv, HandInv
  <2> QED
    BY <2>2, <2>3, <2>4
<1>5. CASE \/ AlignSelected
           \/ \E c \in Clip : PendingDeleted(c)
           \/ UNCHANGED vars
  <2>1. /\ UNCHANGED <<reaper, wasRecording, enabled, recording, pendingInsert, prompt, task,
                       film, shot, owed>>
        /\ alignment' \in {alignment, None}
    BY <1>5 DEF AlignSelected, ClearPendingAlignment, PendingDeleted, vars
  <2>2. Settled'
    BY <2>1 DEF Settled, Flow, Flowing, TakesInv, OneFlow
  <2>3. HandInv'
    BY <2>1, <2>2, KeepHand DEF Flowing, TakesInv, FlowInv
  <2> QED
    BY <2>1, <2>3, KeepInsert DEF TakesInv, HandInv
<1>6. CASE \E c \in Clip : Restore(c)
  <2>1. PICK h \in Helper, c \in Clip : Launch(h, "restore", c)
    BY <1>6 DEF Restore
  <2>2. /\ \A g \in Helper : g # h => task'[g] = task[g]
        /\ task[h].kind = "none" /\ task'[h].kind = "restore"
    BY <2>1 DEF Launch, Free, TakesInv, TypeInv, TypeOK
  <2>3. \A g \in Helper : Flowing(g)' <=> Flowing(g)
    BY <2>2 DEF Flowing
  <2>4. Settled'
    BY <1>6, <2>3 DEF Restore, Settled, Flow, TakesInv, OneFlow
  <2>5. HandInv'
    BY <1>6, <2>2, <2>3, <2>4, KeepHand DEF Restore, Flowing, TakesInv, FlowInv
  <2>6. InsertInv'
    BY <1>6, KeepInsert DEF Restore
  <2> QED
    BY <2>5, <2>6 DEF TakesInv, HandInv
<1> QED
  BY <1>2, <1>3, <1>4, <1>5, <1>6

\* The phone and the helpers at work.
LEMMA PhoneKeepsTakes ==
  ASSUME TakesInv, TypeInv',
         PhoneFinishes \/ PhoneFails \/ \E h \in Helper : PhoneWorks(h)
  PROVE  TakesInv'
<1> USE DEF recording, phone, enabled, reaper, track
<1>1. /\ UNCHANGED <<reaper, wasRecording, enabled, recording, pendingInsert, track, prompt,
                     shot, owed>>
      /\ film' \in {film, None}
  BY DEF PhoneFinishes, PhoneFails, PhoneWorks, PhoneStops, StopTimesOut, DownloadFetches,
         DownloadAcknowledges, PhoneDeletes
<1>2. \A h \in Helper : /\ task'[h].kind = task[h].kind
                        /\ task[h].kind # "stop" => task'[h].clip = task[h].clip
                        /\ task[h].kind = "stop" /\ task'[h].phase = "succeeded" =>
                             task'[h].clip = stopCompletion
  <2> USE DEF TakesInv, TypeInv, TypeOK, Task
  <2>1. CASE PhoneFinishes
    <3>1. ASSUME NEW h \in Helper, task[h].kind = "stop" PROVE film = stopCompletion
      BY <2>1, <3>1 DEF PhoneFinishes, FlowInv, RemoteInv, CompletionInv, InHand
    <3> QED
      BY <2>1, <3>1 DEF PhoneFinishes, FlowInv
  <2>2. CASE PhoneFails
    BY <2>2 DEF PhoneFails, FlowInv
  <2>3. ASSUME NEW h \in Helper, PhoneWorks(h)
        PROVE  \/ \E phase \in {"waiting", "fetched", "failed"} : Advance(h, phase)
               \/ task[h].kind # "stop" /\ Advance(h, "succeeded")
    <3>1. DownloadAcknowledges(h) => task[h].kind # "stop"
      BY DEF DownloadAcknowledges
    <3> QED
      BY <2>3, <3>1 DEF PhoneWorks, PhoneStops, StopTimesOut, DownloadFetches,
                   DownloadAcknowledges, PhoneDeletes
  <2>4. ASSUME NEW h \in Helper, PhoneWorks(h), NEW g \in Helper
        PROVE  /\ task'[g].kind = task[g].kind /\ task'[g].clip = task[g].clip
               /\ task[g].kind = "stop" /\ task'[g].phase = "succeeded" =>
                    task[g].phase = "succeeded"
    BY <2>3, <2>4 DEF Advance
  <2> QED
    BY <2>1, <2>2, <2>4 DEF FlowInv
<1>3. \A h \in Helper : Flowing(h)' <=> Flowing(h)
  BY <1>2 DEF Flowing
<1>4. Settled'
  BY <1>1, <1>3 DEF Settled, Flow, TakesInv, OneFlow
<1>5. HandInv'
  BY <1>1, <1>2, <1>4, KeepHand
<1> QED
  BY <1>1, <1>5, KeepInsert DEF TakesInv, HandInv

\* A tick of the timer inserts into the project that is still g_recordProject,
\* and only then looks at the transport.
LEMMA TimerKeepsTakes ==
  ASSUME TakesInv, TypeInv', TimerPoll
  PROVE  TakesInv'
<1> USE DEF recording, phone, enabled, reaper
<1>1. /\ UNCHANGED <<reaper, enabled, prompt>> /\ pendingInsert' = None
      /\ \/ FollowTransport
         \/ wasRecording' = FALSE /\ UNCHANGED <<recording, phone, task>>
  BY DEF TimerPoll
<1>2. owed' = {}
  BY DEF TimerPoll, ProcessPendingInsert, TakesInv, InsertInv, DownloadedIsInserted
<1>3. alignment' # None /\ alignment'.at \in Clip =>
        /\ alignment'.clip \in Clip /\ alignment'.at = alignment'.clip
        /\ alignment'.project = shot[alignment'.clip] /\ shot[alignment'.clip] # None
  <2>1. alignment # None /\ alignment.at \in Clip =>
          /\ alignment.clip \in Clip /\ alignment.at = alignment.clip
          /\ alignment.project = shot[alignment.clip] /\ shot[alignment.clip] # None
    BY NoneAssumption
       DEF TakesInv, InsertInv, InsertedWhereRecorded, TypeInv, TypeOK, Item
  <2>2. CASE pendingInsert # None /\ ProcessPendingInsert
    <3>1. /\ pendingInsert.clip \in Clip /\ pendingInsert.at = pendingInsert.clip
          /\ RecordingProject = shot[pendingInsert.clip] /\ shot[pendingInsert.clip] # None
      BY <2>2, NoneAssumption
         DEF TakesInv, InsertInv, TypeInv, TypeOK, Insert, RecordingProject
    <3> QED
      BY <2>1, <2>2, <3>1 DEF ProcessPendingInsert, InsertRecordedMedia, QueuePendingAlignment, track
  <2>3. CASE ProcessPendingAlignment
    BY <2>1, <2>3 DEF ProcessPendingAlignment, ClearPendingAlignment, track
  <2> QED
    BY <2>2, <2>3 DEF TimerPoll
<1>4. ASSUME \A c \in Clip : shot[c] # None => shot'[c] = shot[c], HandInv' PROVE TakesInv'
  <2>1. InsertInv'
    BY <1>1, <1>2, <1>3, <1>4 DEF InsertInv, InsertedWhereRecorded, DownloadedIsInserted
  <2> QED
    BY <1>4, <2>1 DEF TakesInv, HandInv
<1>5. CASE UNCHANGED <<recording, phone, task>> /\ Settled'
  <2>1. HandInv'
    BY <1>1, <1>5, KeepHand DEF Flowing, TakesInv, FlowInv
  <2> QED
    BY <1>4, <1>5, <2>1
<1>6. Flow /\ UNCHANGED task => Flow'
  BY <1>1 DEF Flow, Flowing
<1>7. UNCHANGED task => (Flow' <=> Flow)
  BY <1>1 DEF Flow, Flowing
<1>8. CASE wasRecording' = FALSE /\ UNCHANGED <<recording, phone, task>>
  BY <1>1, <1>5, <1>7, <1>8 DEF Settled, TakesInv, OneFlow
<1>9. CASE FollowTransport
  <2>1. wasRecording' = (play[open] = "recording")
    BY <1>9 DEF FollowTransport
  <2>2. CASE /\ followEnabled /\ play[open] = "recording" /\ ~wasRecording
             /\ StartTransportRecording(open) /\ UNCHANGED task
    <3>1. ~Flow /\ ~Flow' /\ Settled'
      BY <1>7, <2>2 DEF Settled, TakesInv, OneFlow
    <3>2. CASE UNCHANGED <<recording, phone>>
      BY <1>5, <2>2, <3>1, <3>2
    <3>3. CASE ~active /\ ~remoteRecording /\ recordProject' = open
               /\ StartIPhoneRecording(open) /\ UNCHANGED stopCompletion
      <4>1. stopCompletion' = None
        BY <3>3 DEF TakesInv, CompletionInv
      <4>2. prompt' = None /\ \A h \in Helper : ~Flowing(h)' /\ task' = task
        BY <2>2, <3>1 DEF Flow
      <4>3. OneFlow' /\ FlowInv'
        BY <3>1, <4>2 DEF OneFlow, FlowInv, Flowing
      <4>4. CASE recordAt' = None /\ UNCHANGED <<active, remoteRecording, phone>>
        <5>1. RemoteInv' /\ CompletionInv'
          BY <3>3, <4>1, <4>4 DEF RemoteInv, CompletionInv
        <5> QED
          BY <1>4, <4>3, <4>4, <5>1 DEF HandInv
      <4>5. ASSUME NEW c \in Clip, shot[c] = None, film' = c, shot' = [shot EXCEPT ![c] = open],
                   \/ active' = TRUE /\ remoteRecording' = TRUE /\ recordAt' = c
                   \/ UNCHANGED <<active, remoteRecording>>
            PROVE  TakesInv'
        <5>1. open \in Project /\ shot'[c] = open /\ \A d \in Clip : d # c => shot'[d] = shot[d]
          BY <4>5 DEF TakesInv, TypeInv, TypeOK
        <5>2. remoteRecording' => active' /\ InHand(recordAt)' /\ film' = recordAt'
          BY <3>3, <4>5, <5>1 DEF InHand
        <5>3. RemoteInv' /\ CompletionInv'
          BY <1>1, <4>1, <5>2 DEF RemoteInv, CompletionInv
        <5> QED
          BY <1>4, <4>3, <4>5, <5>1, <5>3 DEF HandInv
      <4> QED
        BY <3>3, <4>4, <4>5 DEF StartIPhoneRecording
    <3> QED
      BY <2>2, <3>2, <3>3 DEF StartTransportRecording
  <2>3. CASE /\ followEnabled /\ play[open] # "recording" /\ wasRecording
             /\ StopTransportRecording /\ UNCHANGED phone
    <3>1. ~Flow
      BY <2>3 DEF Settled, TakesInv, OneFlow
    <3>2. HandInv'
      BY <1>1, <2>1, <2>3, <3>1, StopHand
    <3> QED
      BY <1>4, <2>3, <3>2
  <2>4. CASE UNCHANGED <<recording, phone, task>>
    <3>1. Settled'
      BY <1>1, <1>7, <2>1, <2>4 DEF Settled, TakesInv, OneFlow
    <3> QED
      BY <1>5, <2>4, <3>1
  <2> QED
    BY <1>9, <2>2, <2>3, <2>4 DEF FollowTransport
<1> QED
  BY <1>1, <1>8, <1>9

\* The end of a helper ends its flow, or turns it into the question.
LEMMA CompletionKeepsTakes ==
  ASSUME TakesInv, TypeInv', NEW h \in Helper, Complete(h)
  PROVE  TakesInv'
<1> USE DEF recording, phone, enabled, reaper, track
<1>1. /\ task'[h] = NoTask /\ \A g \in Helper : g # h => task'[g] = task[g]
      /\ ~Flowing(h)' /\ \A g \in Helper : Flowing(g)' => Flowing(g) /\ g # h
  BY DEF Complete, StopCompletes, DownloadCompletes, DeleteCompletes, RestoreCompletes, Ends,
         TakesInv, TypeInv, TypeOK, Flowing, NoTask
<1>2. /\ prompt = None
      /\ UNCHANGED <<reaper, wasRecording, enabled, recordProject, recordAt, film, shot>>
  BY DEF Complete, StopCompletes, DownloadCompletes, DeleteCompletes, RestoreCompletes
<1>3. \A c : InHand(c)' <=> InHand(c)
  BY <1>2 DEF InHand
<1>4. ASSUME Flowing(h)
      PROVE  /\ \A g \in Helper : ~Flowing(g)'
             /\ active /\ pendingInsert = None /\ owed = {}
             /\ stopCompletion # None /\ InHand(stopCompletion)
             /\ followEnabled => ~wasRecording /\ play[open] # "recording"
  <2>1. stopCompletion # None
    BY <1>4, NoneAssumption DEF Flowing, TakesInv, FlowInv, TypeInv, ClipsGiven
  <2>2. \A g \in Helper : ~Flowing(g)'
    BY <1>1, <1>4 DEF TakesInv, OneFlow
  <2>3. followEnabled => ~wasRecording /\ play[open] # "recording"
    BY <1>4 DEF TakesInv, OneFlow, Settled, Flow
  <2> QED
    BY <2>1, <2>2, <2>3 DEF TakesInv, CompletionInv, InsertInv, DownloadedIsInserted
<1>5. CASE RestoreCompletes(h)
  <2>1. ~Flowing(h) /\ \A g \in Helper : Flowing(g)' <=> Flowing(g)
    BY <1>1, <1>5 DEF RestoreCompletes, Flowing
  <2>2. Settled'
    BY <1>2, <1>5, <2>1 DEF RestoreCompletes, Settled, Flow, TakesInv, OneFlow
  <2>3. HandInv'
    BY <1>1, <1>2, <1>5, <2>1, <2>2, KeepHand DEF RestoreCompletes, Flowing, TakesInv, FlowInv
  <2>4. alignment' = alignment \/ alignment'.at \notin Clip
    BY <1>5, ClipAssumption
       DEF RestoreCompletes, InsertRecordedMedia, QueuePendingAlignment, TakesInv, TypeInv, TypeOK
  <2>5. InsertInv'
    BY <1>2, <1>5, <2>4, KeepInsert DEF RestoreCompletes
  <2> QED
    BY <2>3, <2>5 DEF TakesInv, HandInv
<1>6. ASSUME Flowing(h), prompt' = None, ~remoteRecording', active' = FALSE, stopCompletion' = None
      PROVE  HandInv'
  BY <1>2, <1>4, <1>6 DEF HandInv, RemoteInv, CompletionInv, OneFlow, FlowInv, Settled, Flow, Flowing
<1>7. CASE StopCompletes(h) /\ task[h].phase = "succeeded"
  <2>1. /\ Flowing(h) /\ prompt' = stopCompletion /\ remoteRecording' = FALSE
        /\ UNCHANGED <<active, stopCompletion, pendingInsert, alignment, owed>>
    BY <1>7 DEF StopCompletes, Flowing, TakesInv, FlowInv
  <2>2. HandInv'
    BY <1>2, <1>3, <1>4, <2>1
       DEF HandInv, RemoteInv, CompletionInv, OneFlow, FlowInv, Settled, Flow, Flowing
  <2> QED
    BY <1>2, <2>1, <2>2, KeepInsert DEF TakesInv, HandInv
<1>8. CASE StopCompletes(h) /\ task[h].phase = "failed"
  <2>1. /\ Flowing(h) /\ prompt' = None /\ remoteRecording' = FALSE /\ FinishStop("error")
        /\ UNCHANGED <<alignment, owed>>
    BY <1>2, <1>8 DEF StopCompletes, Flowing
  <2>2. active' = FALSE /\ stopCompletion' = None /\ pendingInsert' = pendingInsert
    BY <1>4, <2>1, ClipAssumption DEF FinishStop
  <2> QED
    BY <1>2, <1>6, <2>1, <2>2, KeepInsert DEF TakesInv, HandInv
<1>9. CASE DownloadCompletes(h) \/ DeleteCompletes(h)
  <2>1. /\ Flowing(h) /\ prompt' = None /\ remoteRecording' = FALSE
        /\ UNCHANGED <<alignment>> /\ task[h].clip = stopCompletion /\ stopCompletion \in Clip
    BY <1>2, <1>9 DEF DownloadCompletes, DeleteCompletes, Flowing, TakesInv, FlowInv, TypeInv,
                      ClipsGiven, TypeOK
  <2>2. /\ active' = FALSE /\ stopCompletion' = None
        /\ \/ pendingInsert' = None /\ owed' = {}
           \/ /\ pendingInsert' = [clip |-> stopCompletion, at |-> stopCompletion]
              /\ owed' = {stopCompletion}
    <3>1. CASE DownloadCompletes(h) /\ task[h].phase = "succeeded"
      BY <1>4, <2>1, <3>1 DEF DownloadCompletes, FinishStop
    <3>2. CASE DownloadCompletes(h) /\ task[h].phase = "failed"
      BY <1>4, <2>1, <3>2, ClipAssumption DEF DownloadCompletes, FinishStop
    <3>3. CASE DeleteCompletes(h)
      BY <1>4, <2>1, <3>3, ClipAssumption DEF DeleteCompletes, FinishStop
    <3> QED
      BY <1>9, <3>1, <3>2, <3>3 DEF DownloadCompletes
  <2>3. HandInv'
    BY <1>6, <2>1, <2>2
  <2>4. InsertInv'
    <3>1. InsertedWhereRecorded'
      BY <1>2, <2>1 DEF InsertInv, InsertedWhereRecorded, TakesInv
    <3>2. stopCompletion \in Clip /\ recordProject \in Project /\ shot[stopCompletion] = recordProject
      BY <1>4, <2>1 DEF InHand
    <3>3. CASE pendingInsert' = None /\ owed' = {}
      BY <3>1, <3>3 DEF InsertInv, DownloadedIsInserted
    <3>4. CASE /\ pendingInsert' = [clip |-> stopCompletion, at |-> stopCompletion]
               /\ owed' = {stopCompletion}
      <4>1. pendingInsert' \in Insert /\ pendingInsert' # None
        BY <3>2, <3>4, NoneAssumption DEF Insert
      <4> QED
        BY <1>2, <3>1, <3>2, <3>4, <4>1 DEF InsertInv, DownloadedIsInserted
    <3> QED
      BY <2>2, <3>3, <3>4
  <2> QED
    BY <2>3, <2>4 DEF TakesInv, HandInv
<1> QED
  BY <1>5, <1>7, <1>8, <1>9 DEF Complete, StopCompletes

LEMMA PromptKeepsTakes ==
  ASSUME TakesInv, TypeInv', PromptIsAnswered
  PROVE  TakesInv'
<1> USE DEF recording, phone, enabled, reaper, track
<1>1. PICK h \in Helper, kind \in {"download", "delete"} : Launch(h, kind, prompt)
  BY DEF PromptIsAnswered
<1>2. /\ task'[h].kind = kind /\ task'[h].clip = prompt
      /\ \A g \in Helper : g # h => task'[g] = task[g]
  BY <1>1 DEF Launch, TakesInv, TypeInv, TypeOK
<1>3. /\ prompt # None /\ prompt' = None
      /\ UNCHANGED <<reaper, wasRecording, enabled, recording, pendingInsert, track, phone, owed>>
  BY DEF PromptIsAnswered
<1>4. /\ \A g \in Helper : Flowing(g)' <=> g = h
      /\ ~remoteRecording /\ stopCompletion = prompt
  BY <1>2, <1>3 DEF Flowing, TakesInv, OneFlow, FlowInv
<1>5. RemoteInv' /\ CompletionInv'
  <2>1. \A c : InHand(c)' <=> InHand(c)
    BY <1>3 DEF InHand
  <2> QED
    BY <1>3, <2>1 DEF RemoteInv, CompletionInv, TakesInv
<1>6. OneFlow'
  BY <1>3, <1>4 DEF OneFlow, Settled, Flow, TakesInv
<1>7. FlowInv'
  BY <1>2, <1>3, <1>4 DEF FlowInv, Flowing
<1> QED
  BY <1>3, <1>5, <1>6, <1>7, KeepInsert DEF TakesInv

LEMMA TakesStep == Patient => (TakesInv /\ [Next]_vars => TakesInv')
<1> SUFFICES ASSUME Patient, TakesInv, [Next]_vars PROVE TakesInv'
  OBVIOUS
<1>1. TypeInv'
  BY TypeStep DEF TakesInv
<1> QED
  BY <1>1, UserKeepsTakes, PhoneKeepsTakes, TimerKeepsTakes, CompletionKeepsTakes, PromptKeepsTakes
     DEF Next

\* While the user waits for the work in hand, every take that was downloaded
\* after a stop is put at its own record-start position in the project it was
\* recorded for, whatever the phone and the helpers do.
THEOREM TakesGoWhereRecorded == Patient => (Spec => []InsertedWhereRecorded)
<1> SUFFICES ASSUME Patient PROVE Spec => []InsertedWhereRecorded
  OBVIOUS
<1>1. TakesInv /\ [Next]_vars => TakesInv'
  BY TakesStep
<1>2. TakesInv => InsertedWhereRecorded
  BY DEF TakesInv, InsertInv
<1> QED
  BY <1>1, <1>2, TakesInit, PTL DEF Spec

\* Under the same condition no downloaded take is dropped or displaced before
\* its insertion was attempted.
THEOREM TakesAreInserted == Patient => (Spec => []DownloadedIsInserted)
<1> SUFFICES ASSUME Patient PROVE Spec => []DownloadedIsInserted
  OBVIOUS
<1>1. TakesInv /\ [Next]_vars => TakesInv'
  BY TakesStep
<1>2. TakesInv => DownloadedIsInserted
  BY DEF TakesInv, InsertInv
<1> QED
  BY <1>1, <1>2, TakesInit, PTL DEF Spec
-----------------------------------------------------------------------------
(* What the phone films.                                                   *)

\* A stop was answered after its film.
StopInv ==
  \A h \in Helper : task[h].kind = "stop" /\ task[h].phase = "succeeded" => film = None

FilmInv == FilmIsKnown /\ StopInv

\* Steps that leave the camera alone, and of the stops at most send one.
LEMMA KeepFilm ==
  ASSUME FilmInv, UNCHANGED <<film, told, remoteRecording>>,
         \A h \in Helper : task'[h].kind = "stop" =>
           task'[h] = task[h] \/ task'[h].phase = "sent"
  PROVE  FilmInv'
BY DEF FilmInv, FilmIsKnown, StopInv

LEMMA LaunchOfStop ==
  ASSUME TypeInv, NEW h \in Helper, NEW kind, NEW clip, Launch(h, kind, clip)
  PROVE  \A g \in Helper : task'[g] = task[g] \/ task'[g].phase = "sent"
BY DEF Launch, TypeInv, TypeOK

LEMMA StopKeepsFilm ==
  ASSUME TakesInv, FilmInv, StopTransportRecording \/ UNCHANGED <<recording, task>>,
         UNCHANGED phone
  PROVE  FilmInv'
<1>1. task' = task \/ \E h \in Helper : Launch(h, "stop", None)
  BY DEF StopTransportRecording, StopRecordingWithCompletion
<1>2. remoteRecording' = remoteRecording
  BY DEF StopTransportRecording, StopRecordingWithCompletion, recording
<1> QED
  BY <1>1, <1>2, KeepFilm, LaunchOfStop DEF phone, TakesInv

\* A start is answered or its error shown; a stop is never in flight beside it.
LEMMA TimerKeepsFilm ==
  ASSUME TakesInv, FilmInv, TimerPoll
  PROVE  FilmInv'
<1>1. CASE StopTransportRecording /\ UNCHANGED phone
  BY <1>1, StopKeepsFilm
<1>2. CASE UNCHANGED <<recording, phone, task>>
  BY <1>2, StopKeepsFilm
<1>3. CASE ~remoteRecording /\ StartIPhoneRecording(open) /\ UNCHANGED task
  <2>1. \A h \in Helper : task'[h].kind # "stop"
    BY <1>3 DEF TakesInv, FlowInv
  <2>2. FilmIsKnown'
    BY <1>3 DEF StartIPhoneRecording, FilmInv, FilmIsKnown, phone
  <2> QED
    BY <2>1, <2>2 DEF FilmInv, StopInv
<1> QED
  BY <1>1, <1>2, <1>3 DEF TimerPoll, FollowTransport, StartTransportRecording

\* The camera's end answers the stop that waits for it; a stop that times out fails.
LEMMA CameraKeepsFilm ==
  ASSUME TakesInv, FilmInv,
         \/ PhoneFinishes \/ PhoneFails
         \/ \E h \in Helper : PhoneStops(h) \/ StopTimesOut(h)
  PROVE  FilmInv'
<1> USE DEF TakesInv, TypeInv, TypeOK, Task, FilmInv, StopInv
<1>1. CASE PhoneFinishes
  BY <1>1 DEF PhoneFinishes, FilmIsKnown
<1>2. CASE PhoneFails
  BY <1>2 DEF PhoneFails, FilmIsKnown
<1>3. ASSUME NEW h \in Helper, PhoneStops(h) \/ StopTimesOut(h) PROVE FilmInv'
  <2>1. film' = film /\ FilmIsKnown'
    BY <1>3 DEF PhoneStops, StopTimesOut, FilmIsKnown, recording, phone
  <2>2. \E phase \in {"waiting", "failed"} : Advance(h, phase)
    BY <1>3 DEF PhoneStops, StopTimesOut
  <2>3. \A g \in Helper : task'[g] = task[g] \/ task'[g].phase \in {"waiting", "failed"}
    BY <2>2 DEF Advance
  <2> QED
    BY <2>1, <2>3
<1> QED
  BY <1>1, <1>2, <1>3

LEMMA FilmStep ==
  ASSUME Patient, TakesInv, FilmInv, [Next]_vars
  PROVE  FilmInv'
<1> USE DEF recording, phone
<1>1. CASE \/ \E p \in Project, state \in PlayState : TransportMoves(p, state)
           \/ \E p \in Project : SwitchProject(p)
           \/ AlignSelected \/ UNCHANGED vars
           \/ \E c \in Clip : PendingDeleted(c)
  <2>1. UNCHANGED <<film, told, remoteRecording, task>>
    BY <1>1 DEF TransportMoves, SwitchProject, AlignSelected, PendingDeleted, vars
  <2> QED
    BY <2>1, KeepFilm
<1>2. CASE ToggleVideo \/ ToggleFollow
  BY <1>2, StopKeepsFilm DEF ToggleVideo, ToggleFollow, StopIfRecording
<1>3. CASE PromptIsAnswered \/ \E c \in Clip : Restore(c)
  <2>1. /\ UNCHANGED <<film, told, remoteRecording>>
        /\ \E h \in Helper, kind \in Kind, clip \in Clip \cup {None} : Launch(h, kind, clip)
    BY <1>3 DEF PromptIsAnswered, Restore, Kind, TakesInv, TypeInv, TypeOK
  <2> QED
    BY <2>1, KeepFilm, LaunchOfStop DEF TakesInv
<1>4. ASSUME NEW h \in Helper,
             DownloadFetches(h) \/ DownloadAcknowledges(h) \/ PhoneDeletes(h)
      PROVE  FilmInv'
  <2>1. UNCHANGED <<film, told, remoteRecording>> /\ task[h].kind # "stop"
        /\ \E phase \in {"fetched", "succeeded", "failed"} : Advance(h, phase)
    BY <1>4 DEF DownloadFetches, DownloadAcknowledges, PhoneDeletes
  <2>2. \A g \in Helper : task'[g].kind = "stop" => task'[g] = task[g]
    BY <2>1 DEF Advance, TakesInv, TypeInv, TypeOK, Task
  <2> QED
    BY <2>1, <2>2, KeepFilm
<1>5. ASSUME NEW h \in Helper, Complete(h) PROVE FilmInv'
  <2>1. \A g \in Helper : task'[g].kind = "stop" => task'[g] = task[g] /\ g # h
    BY <1>5 DEF Complete, StopCompletes, DownloadCompletes, DeleteCompletes, RestoreCompletes,
                Ends, NoTask, TakesInv, TypeInv, TypeOK
  <2>2. CASE StopCompletes(h)
    <3>1. film' = film /\ (film # None => film \in told')
      BY <2>2 DEF StopCompletes, Finished, FilmInv, StopInv, TakesInv, FlowInv
    <3>2. \A g \in Helper : task'[g].kind # "stop"
      BY <2>1, <2>2 DEF StopCompletes, TakesInv, OneFlow, Flowing
    <3> QED
      BY <3>1, <3>2 DEF FilmInv, FilmIsKnown, StopInv
  <2>3. CASE DownloadCompletes(h) \/ DeleteCompletes(h) \/ RestoreCompletes(h)
    <3>1. UNCHANGED <<film, told, remoteRecording>>
      BY <2>3 DEF DownloadCompletes, DeleteCompletes, RestoreCompletes
    <3> QED
      BY <2>1, <3>1, KeepFilm
  <2> QED
    BY <1>5, <2>2, <2>3 DEF Complete
<1> QED
  BY <1>1, <1>2, <1>3, <1>4, <1>5, TimerKeepsFilm, CameraKeepsFilm DEF Next, PhoneWorks

\* With a patient user the phone never films a take that the extension has silently
\* forgotten, whatever answers are lost or late: leaving record mode will still
\* stop it, or the user was shown that starting or stopping it failed.
THEOREM FilmKnown == Patient => (Spec => []FilmIsKnown)
<1> SUFFICES ASSUME Patient PROVE Spec => []FilmIsKnown
  OBVIOUS
<1>1. TakesInv /\ [Next]_vars => TakesInv'
  BY TakesStep
<1>2. TakesInv /\ FilmInv /\ [Next]_vars => FilmInv'
  BY FilmStep
<1>3. Init => FilmInv
  BY DEF Init, FilmInv, FilmIsKnown, StopInv, NoTask
<1>4. FilmInv => FilmIsKnown
  BY DEF FilmInv
<1> QED
  BY <1>1, <1>2, <1>3, <1>4, TakesInit, PTL DEF Spec
=============================================================================

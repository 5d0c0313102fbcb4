---------------------------- MODULE HelperChannel ----------------------------
(***************************************************************************)
(* How a command reaches the phone on Windows: a thread of the extension   *)
(* creates a pipe and the helper process and reads its output              *)
(* (win32_helper_process.cpp); the helper opens a WebSocket, sends one     *)
(* command, waits for one event (control_client.cpp, reashoot_mac.cpp) and *)
(* exits with 0 only for the event it expects.  While the phone prepares a *)
(* take a second connection asks for its progress.                         *)
(***************************************************************************)
EXTENDS Naturals

CONSTANTS
  Commands,  \* commands the extension runs, each once
  Preparing  \* those that wait for the phone to encode

ASSUME HelperChannelAssumption == Preparing \subseteq Commands /\ "reaper" \notin Commands

VARIABLES
  launch,   \* where runProcess is
  writers,  \* who holds the write end of the command's pipe
  pointer,  \* asyncState->process is set, asyncState->running is true
  handle,   \* the process handle is open
  process,  \* the helper
  code,     \* its exit code
  pinging,  \* the progress connection waits for its answer
  phone,    \* what has become of the command on the phone
  answer,   \* the event on its way back
  result    \* what the completion is called with

cvars == <<launch, writers, pointer, handle, process, code, pinging, phone, answer, result>>

TypeOK ==
  /\ launch \in [Commands -> {"idle", "piped", "created", "closed", "reading", "ended",
                              "waited", "cleared", "done"}]
  /\ writers \in [Commands -> SUBSET (Commands \cup {"reaper"})]
  /\ pointer \in [Commands -> BOOLEAN] /\ handle \in [Commands -> BOOLEAN]
  /\ process \in [Commands -> {"none", "connecting", "sent", "answered", "exited"}]
  /\ code \in [Commands -> 0..1] /\ pinging \in [Commands -> BOOLEAN]
  /\ phone \in [Commands -> {"unknown", "arrived", "executed", "refused"}]
  /\ answer \in [Commands -> {"none", "expected", "error"}]
  /\ result \in [Commands -> {"none", "ok", "failed"}]

Init ==
  /\ launch = [c \in Commands |-> "idle"] /\ writers = [c \in Commands |-> {}]
  /\ pointer = [c \in Commands |-> FALSE] /\ handle = [c \in Commands |-> FALSE]
  /\ process = [c \in Commands |-> "none"] /\ code = [c \in Commands |-> 0]
  /\ pinging = [c \in Commands |-> FALSE] /\ phone = [c \in Commands |-> "unknown"]
  /\ answer = [c \in Commands |-> "none"] /\ result = [c \in Commands |-> "none"]

(***************************************************************************)
(* runProcess, on the command's thread.                                    *)
(***************************************************************************)
Step(c, from, to) == launch[c] = from /\ launch' = [launch EXCEPT ![c] = to]

\* No helper beside the extension, no pipe or no process: the command has failed.
Fails(c) ==
  /\ \/ Step(c, "idle", "done") /\ UNCHANGED writers
     \/ Step(c, "piped", "done") /\ writers' = [writers EXCEPT ![c] = {}]
  /\ result' = [result EXCEPT ![c] = "failed"]
  /\ UNCHANGED <<pointer, handle, process, code, pinging, phone, answer>>

CreatePipe(c) ==
  /\ Step(c, "idle", "piped") /\ writers' = [writers EXCEPT ![c] = {"reaper"}]
  /\ UNCHANGED <<pointer, handle, process, code, pinging, phone, answer, result>>

\* Every write end REAPER holds at this moment is inherited, other commands' too.
CreateProcess(c) ==
  /\ Step(c, "piped", "created")
  /\ writers' = [d \in Commands |-> IF "reaper" \in writers[d] THEN writers[d] \cup {c}
                                    ELSE writers[d]]
  /\ handle' = [handle EXCEPT ![c] = TRUE] /\ process' = [process EXCEPT ![c] = "connecting"]
  /\ UNCHANGED <<pointer, code, pinging, phone, answer, result>>

ClosePipe_Kept(c) ==
  /\ Step(c, "created", "closed") /\ UNCHANGED writers
  /\ UNCHANGED <<pointer, handle, process, code, pinging, phone, answer, result>>
ClosePipe(c) ==
  /\ Step(c, "created", "closed")
  /\ writers' = [writers EXCEPT ![c] = @ \ {"reaper"}]
  /\ UNCHANGED <<pointer, handle, process, code, pinging, phone, answer, result>>

Register(c) ==
  /\ Step(c, "closed", "reading") /\ pointer' = [pointer EXCEPT ![c] = TRUE]
  /\ UNCHANGED <<writers, handle, process, code, pinging, phone, answer, result>>

\* ReadFile ends when nobody can write any more.
OutputEnds(c) ==
  /\ Step(c, "reading", "ended") /\ writers[c] = {}
  /\ UNCHANGED <<writers, pointer, handle, process, code, pinging, phone, answer, result>>

WaitForProcess(c) ==
  /\ Step(c, "ended", "waited") /\ process[c] = "exited"
  /\ UNCHANGED <<writers, pointer, handle, process, code, pinging, phone, answer, result>>

Unregister_Closes(c) ==
  /\ Step(c, "waited", "cleared") /\ handle' = [handle EXCEPT ![c] = FALSE]
  /\ UNCHANGED <<writers, pointer, process, code, pinging, phone, answer, result>>
Unregister(c) ==
  /\ Step(c, "waited", "cleared") /\ pointer' = [pointer EXCEPT ![c] = FALSE]
  /\ UNCHANGED <<writers, handle, process, code, pinging, phone, answer, result>>

Complete(c) ==
  /\ Step(c, "cleared", "done") /\ handle' = [handle EXCEPT ![c] = FALSE]
  /\ result' = [result EXCEPT ![c] = IF code[c] = 0 THEN "ok" ELSE "failed"]
  /\ UNCHANGED <<writers, pointer, process, code, pinging, phone, answer>>

(***************************************************************************)
(* The helper.                                                             *)
(***************************************************************************)
Exit(c, status) ==
  /\ process' = [process EXCEPT ![c] = "exited"] /\ code' = [code EXCEPT ![c] = status]
  /\ pinging' = [pinging EXCEPT ![c] = FALSE]
  /\ writers' = [d \in Commands |-> writers[d] \ {c}]

\* AsyncCommandHandle::terminate; before Register it does nothing.
Terminate(c) ==
  /\ pointer[c] /\ process[c] # "exited" /\ Exit(c, 1)
  /\ UNCHANGED <<launch, pointer, handle, phone, answer, result>>

\* Connected, handshake done, the command's frame written.
Send(c) ==
  /\ process[c] = "connecting" /\ process' = [process EXCEPT ![c] = "sent"]
  /\ phone' = [phone EXCEPT ![c] = "arrived"]
  /\ UNCHANGED <<launch, writers, pointer, handle, code, pinging, answer, result>>

\* No connection, or no answer within the socket's timeout.
TimesOut(c) ==
  /\ process[c] \in {"connecting", "sent"} /\ ~pinging[c] /\ Exit(c, 1)
  /\ UNCHANGED <<launch, pointer, handle, phone, answer, result>>

PingBegins(c) ==
  /\ c \in Preparing /\ process[c] = "sent" /\ ~pinging[c]
  /\ pinging' = [pinging EXCEPT ![c] = TRUE]
  /\ UNCHANGED <<launch, writers, pointer, handle, process, code, phone, answer, result>>

\* Answered, failed or timed out: what it says is printed or ignored.
PingEnds(c) ==
  /\ pinging[c] /\ pinging' = [pinging EXCEPT ![c] = FALSE]
  /\ UNCHANGED <<launch, writers, pointer, handle, process, code, phone, answer, result>>

\* An error event ends the process at once, also from the preparation's thread.
Receive_AnyEvent(c) ==
  /\ process[c] = "sent" /\ answer[c] # "none"
  /\ process' = [process EXCEPT ![c] = "answered"] /\ UNCHANGED <<writers, code, pinging>>
  /\ UNCHANGED <<launch, pointer, handle, phone, answer, result>>
Receive(c) ==
  /\ process[c] = "sent" /\ answer[c] # "none"
  /\ IF answer[c] = "error" THEN Exit(c, 1)
     ELSE process' = [process EXCEPT ![c] = "answered"] /\ UNCHANGED <<writers, code, pinging>>
  /\ UNCHANGED <<launch, pointer, handle, phone, answer, result>>

PrintResult(c) ==
  /\ process[c] = "answered" /\ ~pinging[c] /\ Exit(c, 0)
  /\ UNCHANGED <<launch, pointer, handle, phone, answer, result>>

\* The phone does as it is told, or not; its answer may be lost.
PhoneHandles(c, does, answers) ==
  /\ phone[c] = "arrived"
  /\ phone' = [phone EXCEPT ![c] = IF does THEN "executed" ELSE "refused"]
  /\ answer' = [answer EXCEPT ![c] = IF ~answers THEN "none"
                                     ELSE IF does THEN "expected" ELSE "error"]
  /\ UNCHANGED <<launch, writers, pointer, handle, process, code, pinging, result>>

Thread(c) ==
  \/ CreatePipe(c) \/ CreateProcess(c) \/ ClosePipe(c) \/ Register(c) \/ OutputEnds(c)
  \/ WaitForProcess(c) \/ Unregister(c) \/ Complete(c)

Next == \E c \in Commands :
  \/ Thread(c) \/ Fails(c) \/ Terminate(c) \/ Send(c) \/ TimesOut(c) \/ PingBegins(c)
  \/ PingEnds(c) \/ Receive(c) \/ PrintResult(c)
  \/ \E does, answers \in BOOLEAN : PhoneHandles(c, does, answers)

Spec == Init /\ [][Next]_cvars

\* Threads run, and every socket call of the helper has a timeout: the helper may
\* ping again and again, but its loop ends once the preparation has.
Fairness == \A c \in Commands :
  /\ WF_cvars(Thread(c)) /\ SF_cvars(TimesOut(c) \/ Receive(c)) /\ WF_cvars(PingEnds(c))
  /\ WF_cvars(PrintResult(c))

FairSpec == Spec /\ Fairness

(***************************************************************************)
(* Properties.                                                             *)
(***************************************************************************)
\* What the extension is told has been done has been done, whatever is lost,
\* refused, timed out or terminated.
SuccessIsReal == \A c \in Commands : result[c] = "ok" => phone[c] = "executed"

\* terminate never uses a process handle that has been closed.
HandleIsLive == \A c \in Commands : pointer[c] => handle[c]

\* Every command that has been started completes, although its pipe may be held
\* open by another's helper.
CommandCompletes == \A c \in Commands : launch[c] # "idle" ~> launch[c] = "done"

\* A command whose helper has exited waits for no other helper.
CompletesAlone ==
  \A c \in Commands : process[c] = "exited" /\ launch[c] = "reading" => writers[c] = {}
=============================================================================

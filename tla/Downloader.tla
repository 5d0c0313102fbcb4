------------------------------ MODULE Downloader ------------------------------
(***************************************************************************)
(* Copying one recording from the iPhone to the download directory: the    *)
(* helper's chunked, resumable download, the phone's HTTP server and the   *)
(* acknowledgement that lets the phone delete its file.                    *)
(*                                                                         *)
(* A movie is a sequence of blocks, and a block knows the movie and the    *)
(* place it comes from, so a copy is intact when it equals Movie(v).  The  *)
(* files of the computer are inodes, as on macOS: an open file can be      *)
(* renamed or removed under the helper that writes to it.                  *)
(***************************************************************************)
EXTENDS Integers, Sequences

CONSTANTS
  Helper,       \* helper processes downloading this recording
  Version,      \* the movies the record may serve: "raw", and "look" if rendered
  Size,         \* blocks of each version
  Chunk,        \* blocks asked for in one request (kChunkBytes)
  MaxAttempts,  \* failed attempts in a row that end the download (8)
  Sized,        \* the versions whose descriptor has a byte count
  Summed,       \* the versions whose descriptor has a checksum
  Inode,        \* files of the computer
  None

ASSUME VersionAssumption == "raw" \in Version /\ Version \subseteq {"raw", "look"}
ASSUME SizeAssumption == Size \in [Version -> Nat \ {0}]
ASSUME ChunkAssumption == Chunk \in Nat \ {0} /\ MaxAttempts \in Nat \ {0}
ASSUME DescriptorAssumption == Sized \subseteq Version /\ Summed \subseteq Version
ASSUME NoneAssumption == None \notin Version \cup Inode

VARIABLES
  served,  \* the version the phone's record leads to, None once it is deleted
  data,    \* contents of the computer's files
  temp,    \* the inode of ".<filename>.download", per version
  dest,    \* the inode of "<filename>", per version
  job,     \* what each helper is doing
  given    \* history: "kept", "acknowledged" or "deleted" by the phone

vars == <<served, data, temp, dest, job, given>>
-----------------------------------------------------------------------------
Block == Version \X (Nat \ {0})
Movie(v) == [i \in 1..Size[v] |-> <<v, i>>]
Content(i) == IF i = None THEN <<>> ELSE data[i]
Intact(v) == dest[v] # None /\ data[dest[v]] = Movie(v)

Stage == {"idle", "check", "trim", "loop", "receiving", "finish", "rename", "verify",
          "verified", "done", "failed"}
Working == Stage \ {"idle", "done", "failed"}
Job == [pc : Stage, file : Version,        \* the descriptor's file name
        offset : Nat, attempts : 0..(MaxAttempts - 1),
        out : Inode \cup {None},           \* the open output stream
        from : Version, at : Nat, end : Nat]   \* what the response still holds

NoJob == [pc |-> "idle", file |-> "raw", offset |-> 0, attempts |-> 0,
          out |-> None, from |-> "raw", at |-> 0, end |-> 0]

TypeOK ==
  /\ served \in Version \cup {None}
  /\ data \in [Inode -> Seq(Block)]
  /\ temp \in [Version -> Inode \cup {None}]
  /\ dest \in [Version -> Inode \cup {None}]
  /\ job \in [Helper -> Job]
  /\ given \in {"kept", "acknowledged", "deleted"}

Init ==
  /\ served = "raw"
  /\ data = [i \in Inode |-> <<>>]
  /\ temp = [v \in Version |-> None]
  /\ dest = [v \in Version |-> None]
  /\ job = [h \in Helper |-> NoJob]
  /\ given = "kept"

Lesser(a, b) == IF a < b THEN a ELSE b
Known(h) == job[h].file \in Sized
ByteCount(h) == Size[job[h].file]
Goto(h, pc) == job' = [job EXCEPT ![h].pc = pc, ![h].out = None]
Used(i) == \/ \E v \in Version : i = temp[v] \/ i = dest[v]
           \/ \E h \in Helper : job[h].out = i
-----------------------------------------------------------------------------
\* prepareRecording answered: the helper has the descriptor.
Prepare(h) ==
  /\ job[h].pc \notin Working
  /\ served # None
  /\ job' = [job EXCEPT ![h] = [NoJob EXCEPT !.pc = "check", !.file = served]]
  /\ UNCHANGED <<served, data, temp, dest, given>>

\* Mutant: a finished download is never recognised.
CheckDestination_Ignores(h) ==
  /\ job[h].pc = "check"
  /\ Goto(h, "trim")
  /\ UNCHANGED <<served, data, temp, dest, given>>

\* A finished download of the same name is taken as it is, if its size and,
\* when there is one, its checksum are right.
CheckDestination(h) ==
  /\ job[h].pc = "check"
  /\ LET f == job[h].file
         complete == /\ Known(h)
                     /\ Len(Content(dest[f])) = Size[f]
                     /\ f \in Summed => Intact(f)
     IN  \/ /\ complete
            /\ temp' = [temp EXCEPT ![f] = None]
            /\ Goto(h, "verified")
         \/ /\ ~complete
            /\ Goto(h, "trim")
            /\ UNCHANGED temp
  /\ UNCHANGED <<served, data, dest, given>>

\* A temporary file that is too long is dropped, another one is resumed.
ResumeTemporary(h) ==
  /\ job[h].pc = "trim"
  /\ LET f == job[h].file
         had == Len(Content(temp[f]))
         tooLong == Known(h) /\ had > Size[f]
     IN  /\ temp' = [temp EXCEPT ![f] = IF tooLong THEN None ELSE @]
         /\ job' = [job EXCEPT ![h].pc = "loop", ![h].offset = IF tooLong THEN 0 ELSE had]
  /\ UNCHANGED <<served, data, dest, given>>

\* Mutant: the loop is left one block early.
LeaveLoop_Early(h) ==
  /\ job[h].pc = "loop"
  /\ Known(h) /\ job[h].offset + 1 >= ByteCount(h)
  /\ Goto(h, "finish")
  /\ UNCHANGED <<served, data, temp, dest, given>>

\* The loop's condition no longer holds.
LeaveLoop(h) ==
  /\ job[h].pc = "loop"
  /\ Known(h) /\ job[h].offset >= ByteCount(h)
  /\ Goto(h, "finish")
  /\ UNCHANGED <<served, data, temp, dest, given>>

\* The request is answered 206 (or 200) with the record's file as it is now,
\* cut to the range, and the temporary file is opened for appending.
Connect(h) ==
  /\ job[h].pc = "loop"
  /\ Known(h) => job[h].offset < ByteCount(h)
  /\ served # None
  /\ LET f == job[h].file
         first == job[h].offset
         last == IF Known(h) THEN Lesser(ByteCount(h), first + Chunk) ELSE Size[served]
         receive(i) == job' = [job EXCEPT ![h] = [@ EXCEPT
            !.pc = "receiving", !.out = i, !.from = served,
            !.at = Lesser(first, Size[served]), !.end = Lesser(last, Size[served])]]
     IN  \/ /\ temp[f] # None
            /\ receive(temp[f])
            /\ UNCHANGED <<data, temp>>
         \/ /\ temp[f] = None
            /\ \E i \in Inode : /\ ~Used(i)
                                /\ receive(i)
                                /\ temp' = [temp EXCEPT ![f] = i]
                                /\ data' = [data EXCEPT ![i] = <<>>]
  /\ UNCHANGED <<served, dest, given>>

\* Bytes arrive and are written at the end of the open file.
Receive(h) ==
  /\ job[h].pc = "receiving"
  /\ job[h].at < job[h].end
  /\ data' = [data EXCEPT ![job[h].out] = Append(@, <<job[h].from, job[h].at + 1>>)]
  /\ job' = [job EXCEPT ![h].at = @ + 1, ![h].offset = @ + 1]
  /\ UNCHANGED <<served, temp, dest, given>>

\* The phone closes the connection: after the last byte, or before it when it
\* cannot read on or is closed.  Either way the attempt counts as a success.
ConnectionCloses(h) ==
  /\ job[h].pc = "receiving"
  /\ job' = [job EXCEPT ![h].pc = IF Known(h) THEN "loop" ELSE "finish",
                        ![h].attempts = 0, ![h].out = None]
  /\ UNCHANGED <<served, data, temp, dest, given>>

\* Mutant: one attempt too many.
AttemptFails_OneMore(h) ==
  /\ \/ job[h].pc = "receiving"
     \/ job[h].pc = "loop" /\ (Known(h) => job[h].offset < ByteCount(h))
  /\ IF job[h].attempts + 1 > MaxAttempts
     THEN Goto(h, "failed")
     ELSE job' = [job EXCEPT ![h].pc = "loop", ![h].out = None, ![h].attempts = @ + 1,
                             ![h].offset = Len(Content(temp[job[h].file]))]
  /\ UNCHANGED <<served, data, temp, dest, given>>

\* Mutant: a retry asks for the file from its beginning.
AttemptFails_FromZero(h) ==
  /\ \/ job[h].pc = "receiving"
     \/ job[h].pc = "loop" /\ (Known(h) => job[h].offset < ByteCount(h))
  /\ IF job[h].attempts + 1 >= MaxAttempts
     THEN Goto(h, "failed")
     ELSE job' = [job EXCEPT ![h].pc = "loop", ![h].out = None, ![h].attempts = @ + 1,
                             ![h].offset = 0]
  /\ UNCHANGED <<served, data, temp, dest, given>>

\* Mutant: failed attempts are not counted.
AttemptFails_Uncounted(h) ==
  /\ \/ job[h].pc = "receiving"
     \/ job[h].pc = "loop" /\ (Known(h) => job[h].offset < ByteCount(h))
  /\ job' = [job EXCEPT ![h].pc = "loop", ![h].out = None,
                        ![h].offset = Len(Content(temp[job[h].file]))]
  /\ UNCHANGED <<served, data, temp, dest, given>>

\* An attempt throws: no connection, a time-out, 401 or 404, a broken stream.
AttemptFails(h) ==
  /\ \/ job[h].pc = "receiving"
     \/ job[h].pc = "loop" /\ (Known(h) => job[h].offset < ByteCount(h))
  /\ IF job[h].attempts + 1 >= MaxAttempts
     THEN Goto(h, "failed")
     ELSE job' = [job EXCEPT ![h].pc = "loop", ![h].out = None, ![h].attempts = @ + 1,
                             ![h].offset = Len(Content(temp[job[h].file]))]
  /\ UNCHANGED <<served, data, temp, dest, given>>

\* Whatever has the destination's name goes.
RemoveDestination(h) ==
  /\ job[h].pc = "finish"
  /\ dest' = [dest EXCEPT ![job[h].file] = None]
  /\ Goto(h, "rename")
  /\ UNCHANGED <<served, data, temp, given>>

\* Mutant: the checksum is not compared.
RenameTemporary_Trusts(h) ==
  /\ job[h].pc = "rename"
  /\ LET f == job[h].file
     IN  /\ temp[f] # None
         /\ dest' = [dest EXCEPT ![f] = temp[f]]
         /\ temp' = [temp EXCEPT ![f] = None]
  /\ Goto(h, "verified")
  /\ UNCHANGED <<served, data, given>>

\* The temporary file becomes the destination; without one, rename throws.
RenameTemporary(h) ==
  /\ job[h].pc = "rename"
  /\ LET f == job[h].file
     IN  \/ /\ temp[f] # None
            /\ dest' = [dest EXCEPT ![f] = temp[f]]
            /\ temp' = [temp EXCEPT ![f] = None]
            /\ Goto(h, IF f \in Summed THEN "verify" ELSE "verified")
         \/ /\ temp[f] = None
            /\ Goto(h, "failed")
            /\ UNCHANGED <<temp, dest>>
  /\ UNCHANGED <<served, data, given>>

\* The checksum is compared after the rename; a bad file stays where it is.
VerifyChecksum(h) ==
  /\ job[h].pc = "verify"
  /\ Goto(h, IF Intact(job[h].file) THEN "verified" ELSE "failed")
  /\ UNCHANGED <<served, data, temp, dest, given>>

\* transferComplete: the phone deletes the record and the file it leads to.
\* A failure to deliver it is only a warning, but an error event ends the helper
\* with an error although the file is there.
Acknowledge(h) ==
  /\ job[h].pc = "verified"
  /\ \/ /\ served' = None
        /\ given' = IF served = None THEN given ELSE "acknowledged"
        /\ Goto(h, "done")
     \/ /\ \E pc \in {"done", "failed"} : Goto(h, pc)
        /\ UNCHANGED <<served, given>>
  /\ UNCHANGED <<data, temp, dest>>

\* The helper is terminated: by the stall watchdog, a cancel, or REAPER quitting.
Killed(h) ==
  /\ job[h].pc \in Working
  /\ Goto(h, "failed")
  /\ UNCHANGED <<served, data, temp, dest, given>>

\* A prepare left running by an earlier helper replaces the original.
PhoneRerenders ==
  /\ served = "raw"
  /\ "look" \in Version
  /\ served' = "look"
  /\ UNCHANGED <<data, temp, dest, job, given>>

\* The recording is deleted on the phone or by another REAPER command.
UserDeletes ==
  /\ served # None
  /\ served' = None
  /\ given' = "deleted"
  /\ UNCHANGED <<data, temp, dest, job>>

Step(h) ==
  \/ CheckDestination(h)
  \/ ResumeTemporary(h)
  \/ LeaveLoop(h)
  \/ Connect(h)
  \/ Receive(h)
  \/ ConnectionCloses(h)
  \/ AttemptFails(h)
  \/ RemoveDestination(h)
  \/ RenameTemporary(h)
  \/ VerifyChecksum(h)
  \/ Acknowledge(h)

Next ==
  \/ \E h \in Helper : Prepare(h) \/ Step(h) \/ Killed(h)
  \/ PhoneRerenders
  \/ UserDeletes

Spec == Init /\ [][Next]_vars

\* A running helper takes its next step: its sockets time out after 20 seconds.
\* Nothing makes the network or the phone deliver a byte.
Fairness == \A h \in Helper : WF_vars(Step(h))

FairSpec == Spec /\ Fairness
-----------------------------------------------------------------------------
\* The phone has given up its file for an acknowledgement only while an intact
\* copy is in the download directory (runDownloadRecording acknowledges what
\* downloadRecording returned).
AcknowledgedIsOnDisk ==
  given = "acknowledged" => \E v \in Version : Intact(v)

\* What a helper resumes from is always a beginning of the movie: no kill,
\* early close or failed attempt leaves a gap or a repetition in it.
TemporaryIsPrefix ==
  \A v \in Version : LET d == Content(temp[v])
                     IN  Len(d) <= Size[v] /\ \A i \in 1..Len(d) : d[i] = <<v, i>>

\* The download implements the promise of TakeTransfer.
Promise == INSTANCE TakeTransfer WITH
  phone <- given, computer <- \E v \in Version : Intact(v)
PromiseKept == Promise!Spec

\* The phone closes a connection in order before it has sent what was asked for,
\* perhaps nothing at all.  The helper takes that for a success.
ClosesEarly(h) == ConnectionCloses(h) /\ job[h].at < job[h].end

\* A download ends, with the file or with an error, unless the phone closes its
\* connections early again and again: that is the only way to keep the helper
\* busy for ever, whatever else fails and however often (the attempts of
\* downloadRecording are reset by every close in order).
DownloadEnds == \A h \in Helper :
  \/ []<>(job[h].pc \notin Working)
  \/ []<><<ClosesEarly(h)>>_vars
=============================================================================

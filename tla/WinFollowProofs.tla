--------------------------- MODULE WinFollowProofs ---------------------------
(***************************************************************************)
(* Proofs about WinFollow, for any number of passes, requests and nested   *)
(* message boxes.                                                          *)
(*                                                                         *)
(* For any user: the types, with the life of a film (OneLife); nothing    *)
(* leaves the phone that was not downloaded or agreed to be deleted        *)
(* (AgreeInv: every delete command under way names agreed films); no item  *)
(* lies at the place of a pass before its own (PlaceInv); a pass whose     *)
(* begin the poll could see is active (SteadyInv).                         *)
(*                                                                         *)
(* For a user who asks for one download at a time (OneDownload): it        *)
(* arrives (ArriveInv).  For a user who lets work in hand end (Patient): a *)
(* film is owned, by HandInv: a take is in one place of its way at a time, *)
(* and in none while the next one is recorded.                             *)
(***************************************************************************)
EXTENDS WinFollow, FiniteSetTheorems, TLAPS

Films == 0..MaxPasses

\* A film, and the place 0, are among them.
LEMMA FilmsOfPasses == Passes \subseteq Films /\ 0 \in Films /\ 0 \notin Passes /\ Cursor \in Films
  BY WinFollowAssumption DEF Passes, Films, Cursor

\* Helpers and their messages, where delete commands name agreed films only.
Jobs ==
  {j \in [cmd : {"start", "stop", "download", "delete", "restore", "deleteAll"},
          for : [film : Films, place : Films, restored : BOOLEAN], ids : Seq(Passes)] :
     j.cmd \in {"start", "download", "delete"} => j.for.film \in Passes}
Consented(ok) ==
  {j \in Jobs : j.cmd = "delete" => j.for.film \in ok /\ ToSet(j.ids) \subseteq ok}
Answers(ok) ==
  {m \in [job : Consented(ok), ok : BOOLEAN] : m.job.cmd = "stop" /\ m.ok => m.job.ids # <<>>}

\* A question about recordings is about one at least.
Questions == {"download", "restore", "confirm", "deleteAll"}
Batches(ok) ==
  {t \in [ask : Questions \cup {"none", "error"}, ids : Seq(Passes),
          rest : Seq(Answers(ok)), done : BOOLEAN] :
     t.ask \in Questions => t.ids # <<>>}

AgreeInv ==
  /\ pass \in Films /\ recordPlace \in Films /\ filming \in Films /\ kept \subseteq Passes
  /\ rolling = "recording" => pass \in Passes
  /\ helpers \subseteq Consented(agreed)
  /\ queue \in Seq(Answers(agreed))
  /\ ticks \in Seq(Batches(agreed))

(***************************************************************************)
(* Facts about data.                                                       *)
(***************************************************************************)
\* A film once agreed to stays agreed to.
LEMMA AgreeingGrows ==
  ASSUME NEW ok, NEW more, ok \subseteq more
  PROVE  /\ Consented(ok) \subseteq Consented(more)
         /\ Answers(ok) \subseteq Answers(more)
         /\ Seq(Answers(ok)) \subseteq Seq(Answers(more))
         /\ Batches(ok) \subseteq Batches(more)
         /\ Seq(Batches(ok)) \subseteq Seq(Batches(more))
<1>1. Consented(ok) \subseteq Consented(more)
  BY DEF Consented
<1>2. Answers(ok) \subseteq Answers(more)
  BY <1>1 DEF Answers
<1>3. Seq(Answers(ok)) \subseteq Seq(Answers(more))
  BY <1>2
<1>4. Batches(ok) \subseteq Batches(more)
  BY <1>3 DEF Batches
<1>5. Seq(Batches(ok)) \subseteq Seq(Batches(more))
  BY <1>4
<1> QED BY <1>1, <1>2, <1>3, <1>4, <1>5

\* The list of a set of films.
LEMMA ListOfFilms ==
  ASSUME NEW S \in SUBSET Passes
  PROVE  SetToSeq(S) \in Seq(Passes)
<1>1. IsFiniteSet(S)
  <2>1. 1 \in Int /\ MaxPasses \in Int
    BY WinFollowAssumption
  <2>2. IsFiniteSet(Passes)
    BY <2>1, FS_Interval, Zenon DEF Passes
  <2> QED BY <2>2, FS_Subset, Zenon
<1>2. Cardinality(S) \in Nat /\ ExistsBijection(1..Cardinality(S), S)
  BY <1>1, FS_CardinalityType
<1>3. \E f \in [1..Cardinality(S) -> S] : IsInjective(f)
  BY <1>2 DEF ExistsBijection, Bijection, Injection, IsInjective
<1>4. SetToSeq(S) \in [1..Cardinality(S) -> S]
  BY <1>3 DEF SetToSeq
<1> QED BY <1>2, <1>4

\* A sequence of agreed films gives delete commands for agreed films.
LEMMA SequentialDeletes ==
  ASSUME NEW ok, NEW ids \in Seq(Passes), ToSet(ids) \subseteq ok
  PROVE  DeleteSequentially(ids) \subseteq Consented(ok)
<1>1. CASE ids = <<>>
  BY <1>1 DEF DeleteSequentially
<1>2. CASE ids # <<>>
  <2>1. Head(ids) \in Passes /\ Head(ids) \in ToSet(ids) /\ Tail(ids) \in Seq(Passes)
    BY <1>2 DEF ToSet
  <2>2. ToSet(Tail(ids)) \subseteq ToSet(ids)
    BY <1>2 DEF ToSet
  <2>3. Cursor \in Films /\ Head(ids) \in Films
    BY <2>1, FilmsOfPasses
  <2> DEFINE first == Job("delete", Film(Head(ids), Cursor, FALSE), Tail(ids))
  <2>4. first \in Jobs
    BY <2>1, <2>3 DEF Job, Film, Jobs
  <2>5. first.for.film = Head(ids) /\ first.ids = Tail(ids)
    BY DEF Job, Film
  <2>6. first \in Consented(ok)
    BY <2>1, <2>2, <2>4, <2>5 DEF Consented
  <2> QED BY <1>2, <2>6 DEF DeleteSequentially
<1> QED BY <1>1, <1>2

\* A command other than delete needs nobody's consent.
LEMMA FilmJobs ==
  ASSUME NEW ok, NEW cmd \in {"start", "download"},
         NEW f \in Passes, NEW p \in Films, NEW r \in BOOLEAN
  PROVE  Job(cmd, Film(f, p, r), <<>>) \in Consented(ok)
<1>1. f \in Films
  BY FilmsOfPasses
<1> QED BY <1>1 DEF Job, Film, Consented, Jobs

LEMMA OtherJobs ==
  ASSUME NEW ok, NEW cmd \in {"stop", "restore", "deleteAll"}
  PROVE  Job(cmd, NoFilm, <<>>) \in Consented(ok)
<1>1. 0 \in Films /\ Cursor \in Films
  BY FilmsOfPasses
<1> QED BY <1>1 DEF Job, NoFilm, Consented, Jobs

(***************************************************************************)
(* The invariant, step by step.                                            *)
(***************************************************************************)
LEMMA AgreeInit == Init => AgreeInv
<1> SUFFICES ASSUME Init PROVE AgreeInv
  OBVIOUS
<1> QED BY FilmsOfPasses DEF Init, transport, phone, AgreeInv

\* The user: a helper for another command than delete, or none.
UserStep ==
  \/ PressRecord \/ \E to \in {"stopped", "playing"} : MoveTransport(to)
  \/ \E on \in BOOLEAN : SetVideoEnabled(on)
  \/ ToggleFollow \/ Pairing
  \/ \E purpose \in {"restore", "deleteAll"} : ListRecordings(purpose)

LEMMA UserAgrees == AgreeInv /\ UserStep => AgreeInv'
<1> SUFFICES ASSUME AgreeInv, UserStep PROVE AgreeInv'
  OBVIOUS
<1>0. UNCHANGED <<recordPlace, filming, kept, queue, ticks, agreed>>
  BY DEF UserStep, PressRecord, MoveTransport, SetVideoEnabled, ToggleFollow, Pairing,
         ListRecordings, phone, history
<1>1. pass' \in Films /\ (rolling' = "recording" => pass' \in Passes)
  <2>1. CASE PressRecord
    BY <2>1, WinFollowAssumption DEF PressRecord, AgreeInv, Films, Passes
  <2>2. CASE ~PressRecord
    BY <2>2 DEF UserStep, MoveTransport, SetVideoEnabled, ToggleFollow, Pairing, ListRecordings,
                transport, AgreeInv
  <2> QED BY <2>1, <2>2
<1>2. helpers' \subseteq Consented(agreed)
  <2>1. CASE helpers' = helpers
    BY <2>1 DEF AgreeInv
  <2>2. ASSUME NEW on \in BOOLEAN, SetVideoEnabled(on), helpers' # helpers
        PROVE  helpers' = helpers \cup {Job("stop", NoFilm, <<>>)}
    BY <2>2 DEF SetVideoEnabled, FinishRecording
  <2>3. ASSUME NEW purpose \in {"restore", "deleteAll"}, ListRecordings(purpose)
        PROVE  helpers' = helpers \cup {Job(purpose, NoFilm, <<>>)}
    BY <2>3 DEF ListRecordings
  <2>4. CASE helpers' # helpers
    <3>1. \E cmd \in {"stop", "restore", "deleteAll"} :
             helpers' = helpers \cup {Job(cmd, NoFilm, <<>>)}
      BY <2>2, <2>3, <2>4 DEF UserStep, PressRecord, MoveTransport, ToggleFollow, Pairing
    <3> QED BY <3>1, OtherJobs DEF AgreeInv
  <2> QED BY <2>1, <2>4
<1> QED BY <1>0, <1>1, <1>2 DEF AgreeInv

\* A helper ends.  Its message carries the same command; a list is of films.
LEMMA PostAgrees ==
  ASSUME AgreeInv, NEW j \in helpers, NEW ids \in Seq(Passes), NEW ok \in BOOLEAN,
         Post(j, ids, ok),
         j.cmd = "delete" => ids = j.ids,
         j.cmd = "stop" /\ ok => ids # <<>>
  PROVE  /\ helpers' \subseteq Consented(agreed)
         /\ queue' \in Seq(Answers(agreed))
<1>1. j \in Consented(agreed) /\ j \in Jobs
  BY DEF AgreeInv, Consented
<1> DEFINE k == [j EXCEPT !.ids = ids]
<1>2. k \in Jobs /\ k.cmd = j.cmd /\ k.for = j.for /\ k.ids = ids
  BY <1>1 DEF Jobs
<1>3. k \in Consented(agreed)
  BY <1>1, <1>2 DEF Consented
<1> HIDE DEF k
<1>4. [job |-> k, ok |-> ok] \in Answers(agreed)
  BY <1>2, <1>3 DEF Answers
<1>5. queue' = Append(queue, [job |-> k, ok |-> ok]) /\ helpers' \subseteq helpers
  BY DEF Post, k
<1> QED BY <1>4, <1>5 DEF AgreeInv

LEMMA HelperAgrees == AgreeInv /\ HelperEnds => AgreeInv'
<1> SUFFICES ASSUME AgreeInv, HelperEnds PROVE AgreeInv'
  OBVIOUS
<1>0. UNCHANGED <<rolling, pass, recordPlace, ticks, agreed>>
  BY DEF HelperEnds, transport
<1>1. PICK j \in helpers, a \in BOOLEAN, b \in BOOLEAN, c \in BOOLEAN :
         \/ j.cmd = "start" /\ ~c /\ StartEnds(j, a, b)
         \/ j.cmd = "stop" /\ ~c /\ StopEnds(j, a, b)
         \/ j.cmd = "download" /\ DownloadEnds(j, a, b, c)
         \/ j.cmd = "delete" /\ ~c /\ DeleteEnds(j, a, b)
         \/ j.cmd \in {"restore", "deleteAll"} /\ ~a /\ ~c /\ ListEnds(j, b)
  BY DEF HelperEnds
<1>2. j \in Jobs
  BY DEF AgreeInv, Consented
<1>3. filming \in Films /\ kept \subseteq Passes
  BY DEF AgreeInv
<1> DEFINE Goal == /\ filming' \in Films /\ kept' \subseteq Passes
                   /\ helpers' \subseteq Consented(agreed)
                   /\ queue' \in Seq(Answers(agreed))
<1>4. ASSUME j.cmd = "start" /\ StartEnds(j, a, b) PROVE Goal
  <2>1. filming' \in Films /\ kept' \subseteq Passes
    BY <1>2, <1>3, <1>4 DEF StartEnds, Jobs
  <2>2. Post(j, <<>>, b)
    BY <1>4 DEF StartEnds
  <2>3. <<>> \in Seq(Passes)
    OBVIOUS
  <2> QED BY <1>4, <2>1, <2>2, <2>3, PostAgrees
<1>5. ASSUME j.cmd = "stop" /\ StopEnds(j, a, b) PROVE Goal
  <2> DEFINE ids == IF b THEN <<filming>> ELSE <<>>
  <2>1. filming' \in Films /\ kept' \subseteq Passes
    BY <1>3, <1>5, WinFollowAssumption DEF StopEnds, Films, Passes
  <2>2. Post(j, ids, b)
    BY <1>5 DEF StopEnds
  <2>3. ids \in Seq(Passes) /\ (b => ids # <<>>)
    <3>1. b => filming \in Passes
      BY <1>3, <1>5, WinFollowAssumption DEF StopEnds, Films, Passes
    <3> QED BY <3>1
  <2> HIDE DEF ids
  <2> QED BY <1>5, <2>1, <2>2, <2>3, PostAgrees
<1>6. ASSUME j.cmd = "download" /\ DownloadEnds(j, a, b, c) PROVE Goal
  <2>1. filming' \in Films /\ kept' \subseteq Passes
    BY <1>3, <1>6 DEF DownloadEnds
  <2>2. Post(j, j.ids, b)
    BY <1>6 DEF DownloadEnds
  <2>3. j.ids \in Seq(Passes)
    BY <1>2 DEF Jobs
  <2> QED BY <1>6, <2>1, <2>2, <2>3, PostAgrees
<1>7. ASSUME j.cmd = "delete" /\ DeleteEnds(j, a, b) PROVE Goal
  <2>1. filming' \in Films /\ kept' \subseteq Passes
    BY <1>3, <1>7 DEF DeleteEnds
  <2>2. Post(j, j.ids, b)
    BY <1>7 DEF DeleteEnds
  <2>3. j.ids \in Seq(Passes)
    BY <1>2 DEF Jobs
  <2> QED BY <1>7, <2>1, <2>2, <2>3, PostAgrees
<1>8. ASSUME j.cmd \in {"restore", "deleteAll"} /\ ListEnds(j, b) PROVE Goal
  <2> DEFINE ids == IF b THEN SetToSeq(kept) ELSE <<>>
  <2>1. filming' \in Films /\ kept' \subseteq Passes
    BY <1>3, <1>8 DEF ListEnds
  <2>2. Post(j, ids, b)
    BY <1>8 DEF ListEnds
  <2>3. ids \in Seq(Passes)
    BY <1>3, ListOfFilms
  <2> HIDE DEF ids
  <2> QED BY <1>8, <2>1, <2>2, <2>3, PostAgrees
<1>9. Goal
  BY <1>1, <1>4, <1>5, <1>6, <1>7, <1>8
<1> QED BY <1>0, <1>9 DEF AgreeInv

(***************************************************************************)
(* The main thread.                                                        *)
(***************************************************************************)
\* The innermost batch, of which an answer or a callback takes the first message.
LEMMA TopBatch ==
  ASSUME AgreeInv, ticks # <<>>
  PROVE  /\ Top \in Batches(agreed) /\ Len(ticks) \in 1..Len(ticks)
         /\ Top.ids \in Seq(Passes) /\ Top.rest \in Seq(Answers(agreed))
         /\ Top.ask \in Questions => Top.ids # <<>>
<1>1. Len(ticks) \in 1..Len(ticks) /\ Top \in Batches(agreed)
  BY DEF AgreeInv, Top, Last
<1> QED BY <1>1 DEF Batches

\* What is asked next replaces the innermost batch.
LEMMA SetTopAgrees ==
  ASSUME AgreeInv, ticks # <<>>, NEW box, NEW rest \in Seq(Answers(agreed)),
         NEW more, agreed \subseteq more,
         box.ask \in Questions \cup {"none", "error"}, box.ids \in Seq(Passes),
         box.ask \in Questions => box.ids # <<>>,
         SetTop(box, rest)
  PROVE  ticks' \in Seq(Batches(more))
<1> DEFINE t == [Top EXCEPT !.ask = box.ask, !.ids = box.ids, !.rest = rest]
<1>1. Top \in Batches(agreed) /\ Len(ticks) \in 1..Len(ticks)
  BY TopBatch
<1>2. t \in Batches(agreed)
  BY <1>1 DEF Batches
<1>3. ticks' = [ticks EXCEPT ![Len(ticks)] = t]
  BY DEF SetTop, Top, Last
<1> HIDE DEF t
<1>4. ticks' \in Seq(Batches(agreed))
  BY <1>1, <1>2, <1>3 DEF AgreeInv
<1> QED BY <1>4, AgreeingGrows

LEMMA TimerAgrees == AgreeInv /\ TimerPoll => AgreeInv'
<1> SUFFICES ASSUME AgreeInv, TimerPoll PROVE AgreeInv'
  OBVIOUS
<1> DEFINE t == [ask |-> "none", ids |-> <<>>, rest |-> queue, done |-> FALSE]
<1>1. t \in Batches(agreed)
  BY DEF AgreeInv, Batches, Questions
<1>2. ticks' = Append(ticks, t) /\ queue' = <<>>
  BY DEF TimerPoll
<1> HIDE DEF t
<1>3. ticks' \in Seq(Batches(agreed)) /\ queue' \in Seq(Answers(agreed))
  BY <1>1, <1>2 DEF AgreeInv
<1> QED BY <1>3 DEF AgreeInv, TimerPoll, transport, phone, history

LEMMA CallbackAgrees == AgreeInv /\ RunCallback => AgreeInv'
<1> SUFFICES ASSUME AgreeInv, RunCallback PROVE AgreeInv'
  OBVIOUS
<1> DEFINE m == Head(Top.rest)
           good == m.ok \/ Recovered(m.job)
           box == CASE ~good -> Ask("error", <<>>)
                    [] good /\ m.job.cmd = "stop" -> Ask("download", m.job.ids)
                    [] good /\ m.job.cmd \in {"restore", "deleteAll"} ->
                         IF m.job.ids = <<>> THEN Ask("error", <<>>)
                         ELSE Ask(m.job.cmd, m.job.ids)
                    [] OTHER -> Proceed
           more == IF good /\ m.job.cmd = "delete" THEN DeleteSequentially(m.job.ids) ELSE {}
<1>1. ticks # <<>> /\ Top.rest # <<>>
  BY DEF RunCallback
<1>2. Top.rest \in Seq(Answers(agreed))
  BY <1>1, TopBatch
<1>3. m \in Answers(agreed) /\ Tail(Top.rest) \in Seq(Answers(agreed))
  BY <1>1, <1>2
<1>4. SetTop(box, Tail(Top.rest)) /\ Launch(more)
  BY DEF RunCallback
<1>5. /\ m.job \in Consented(agreed) /\ m.job.ids \in Seq(Passes)
      /\ m.job.cmd = "stop" /\ good => m.job.ids # <<>>
  BY <1>3 DEF Answers, Consented, Jobs, Recovered
<1>6. /\ box.ask \in Questions \cup {"none", "error"} /\ box.ids \in Seq(Passes)
      /\ box.ask \in Questions => box.ids # <<>>
  <2>1. CASE ~good
    BY <2>1 DEF Ask, Questions
  <2>2. CASE good /\ m.job.cmd = "stop"
    BY <2>2, <1>5 DEF Ask, Questions
  <2>3. CASE good /\ m.job.cmd \in {"restore", "deleteAll"}
    BY <2>3, <1>5 DEF Ask, Questions
  <2>4. CASE good /\ m.job.cmd \notin {"stop", "restore", "deleteAll"}
    BY <2>4 DEF Ask, Proceed, Questions
  <2> QED BY <2>1, <2>2, <2>3, <2>4
<1>7. more \subseteq Consented(agreed)
  <2>1. m.job.cmd = "delete" => ToSet(m.job.ids) \subseteq agreed
    BY <1>5 DEF Consented
  <2> QED BY <1>5, <2>1, SequentialDeletes
<1> HIDE DEF box, more, m, good
<1>8. ticks' \in Seq(Batches(agreed))
  BY <1>1, <1>3, <1>4, <1>6, SetTopAgrees
<1>9. helpers' \subseteq Consented(agreed)
  BY <1>4, <1>7 DEF Launch, AgreeInv
<1> QED BY <1>8, <1>9 DEF AgreeInv, RunCallback, transport, phone

\* A download is asked for, deletes are agreed to first.
LEMMA DownloadAgrees ==
  ASSUME AgreeInv, NEW f \in Passes, NEW r \in BOOLEAN, Download(f, r)
  PROVE  helpers' \subseteq Consented(agreed)
<1> DEFINE p == IF r THEN Cursor ELSE recordPlace
<1>1. p \in Films
  BY FilmsOfPasses DEF AgreeInv
<1>2. Job("download", Film(f, p, r), <<>>) \in Consented(agreed)
  BY <1>1, FilmJobs
<1> QED BY <1>2 DEF Download, Launch, AgreeInv

LEMMA DeletesAgree ==
  ASSUME AgreeInv, NEW ids \in Seq(Passes), Launch(DeleteSequentially(ids)),
         agreed' = agreed \cup ToSet(ids)
  PROVE  helpers' \subseteq Consented(agreed')
<1>1. helpers \subseteq Consented(agreed')
  BY AgreeingGrows DEF AgreeInv
<1>2. DeleteSequentially(ids) \subseteq Consented(agreed')
  BY SequentialDeletes
<1> QED BY <1>1, <1>2 DEF Launch

\* The next recording that is asked about.
LEMMA AskNextAsks ==
  ASSUME NEW ids \in Seq(Passes), ids # <<>>
  PROVE  /\ AskNext(ids).ask \in Questions \cup {"none", "error"}
         /\ AskNext(ids).ids \in Seq(Passes)
         /\ AskNext(ids).ask \in Questions => AskNext(ids).ids # <<>>
  BY DEF AskNext, Ask, Proceed, Questions

LEMMA AnswerAgrees == AgreeInv /\ Answer => AgreeInv'
<1> SUFFICES ASSUME AgreeInv, Answer PROVE AgreeInv'
  OBVIOUS
<1>1. ticks # <<>>
  BY DEF Answer
<1>2. Top.ids \in Seq(Passes) /\ Top.rest \in Seq(Answers(agreed))
  BY <1>1, TopBatch
<1>3. Top.ask \in Questions => Top.ids # <<>> /\ Head(Top.ids) \in Passes
  <2>1. Top.ask \in Questions => Top.ids # <<>>
    BY <1>1, TopBatch
  <2> QED BY <1>2, <2>1
<1> DEFINE Goal == /\ agreed \subseteq agreed'
                   /\ helpers' \subseteq Consented(agreed')
                   /\ ticks' \in Seq(Batches(agreed'))
<1>4. helpers \subseteq Consented(agreed)
  BY DEF AgreeInv
<1>5. ASSUME SetTop(Proceed, Top.rest), agreed \subseteq agreed'
      PROVE  ticks' \in Seq(Batches(agreed'))
  <2>1. /\ Proceed.ask \in Questions \cup {"none", "error"} /\ Proceed.ids \in Seq(Passes)
        /\ Proceed.ask \in Questions => Proceed.ids # <<>>
    BY DEF Proceed, Ask, Questions
  <2>2. ticks' \in Seq(Batches(agreed))
    BY <1>1, <1>2, <1>5, <2>1, SetTopAgrees
  <2> QED BY <1>5, <2>2, AgreeingGrows
<1>6. ASSUME AnswerError PROVE Goal
  <2>1. SetTop(Proceed, Top.rest) /\ helpers' = helpers /\ agreed' = agreed
    BY <1>6 DEF AnswerError
  <2> QED BY <1>4, <1>5, <2>1
<1>7. ASSUME AnswerDownload PROVE Goal
  <2>1. SetTop(Proceed, Top.rest) /\ agreed' = agreed
    BY <1>7 DEF AnswerDownload
  <2>2. Head(Top.ids) \in Passes
    BY <1>3, <1>7 DEF AnswerDownload, Questions
  <2>3. helpers' \subseteq Consented(agreed)
    BY <1>4, <1>7, <2>2, DownloadAgrees DEF AnswerDownload
  <2> QED BY <1>5, <2>1, <2>3
<1>8. ASSUME AnswerRestore PROVE Goal
  <2>1. agreed' = agreed
    BY <1>8 DEF AnswerRestore
  <2>2. Top.ids # <<>> /\ Head(Top.ids) \in Passes
    BY <1>3, <1>8 DEF AnswerRestore, Questions
  <2>3. CASE SetTop(Proceed, Top.rest) /\ Download(Head(Top.ids), TRUE)
    <3>1. helpers' \subseteq Consented(agreed)
      BY <2>2, <2>3, DownloadAgrees
    <3> QED BY <1>5, <2>1, <2>3, <3>1
  <2>4. CASE SetTop(Ask("confirm", Top.ids), Top.rest) /\ UNCHANGED helpers
    <3>1. Ask("confirm", Top.ids).ask \in Questions /\ Ask("confirm", Top.ids).ids = Top.ids
      BY DEF Ask, Questions
    <3>2. ticks' \in Seq(Batches(agreed))
      BY <1>1, <1>2, <2>2, <2>4, <3>1, SetTopAgrees
    <3> QED BY <1>4, <2>1, <2>4, <3>2
  <2>5. CASE SetTop(AskNext(Top.ids), Top.rest) /\ UNCHANGED helpers
    <3>1. ticks' \in Seq(Batches(agreed))
      BY <1>1, <1>2, <2>2, <2>5, AskNextAsks, SetTopAgrees
    <3> QED BY <1>4, <2>1, <2>5, <3>1
  <2> QED BY <1>8, <2>3, <2>4, <2>5 DEF AnswerRestore
<1>9. ASSUME AnswerConfirm PROVE Goal
  <2>1. Top.ids # <<>> /\ Head(Top.ids) \in Passes
    BY <1>3, <1>9 DEF AnswerConfirm, Questions
  <2>2. CASE /\ SetTop(Proceed, Top.rest)
             /\ Launch(DeleteSequentially(<<Head(Top.ids)>>))
             /\ agreed' = agreed \cup {Head(Top.ids)}
    <3>1. <<Head(Top.ids)>> \in Seq(Passes) /\ ToSet(<<Head(Top.ids)>>) = {Head(Top.ids)}
      BY <2>1 DEF ToSet
    <3>2. helpers' \subseteq Consented(agreed')
      BY <2>2, <3>1, DeletesAgree
    <3> QED BY <1>5, <2>2, <3>2
  <2>3. CASE SetTop(AskNext(Top.ids), Top.rest) /\ UNCHANGED <<helpers, agreed>>
    <3>1. ticks' \in Seq(Batches(agreed))
      BY <1>1, <1>2, <2>1, <2>3, AskNextAsks, SetTopAgrees
    <3> QED BY <1>4, <2>3, <3>1
  <2> QED BY <1>9, <2>2, <2>3 DEF AnswerConfirm
<1>10. ASSUME AnswerDeleteAll PROVE Goal
  <2>1. SetTop(Proceed, Top.rest)
    BY <1>10 DEF AnswerDeleteAll
  <2>2. CASE Launch(DeleteSequentially(Top.ids)) /\ agreed' = agreed \cup ToSet(Top.ids)
    <3>1. helpers' \subseteq Consented(agreed')
      BY <1>2, <2>2, DeletesAgree
    <3> QED BY <1>5, <2>1, <2>2, <3>1
  <2>3. CASE UNCHANGED <<helpers, agreed>>
    BY <1>4, <1>5, <2>1, <2>3
  <2> QED BY <1>10, <2>2, <2>3 DEF AnswerDeleteAll
<1>11. Goal
  BY <1>6, <1>7, <1>8, <1>9, <1>10 DEF Answer
<1>12. queue' \in Seq(Answers(agreed'))
  BY <1>11, AgreeingGrows DEF AgreeInv, Answer
<1> QED BY <1>11, <1>12 DEF AgreeInv, Answer, transport, phone

LEMMA InsertAgrees ==
  ASSUME AgreeInv, NEW opens \in BOOLEAN, ProcessPendingInsert(opens)
  PROVE  AgreeInv'
<1> DEFINE t == [Top EXCEPT !.done = TRUE, !.ask = IF opens THEN "none" ELSE "error"]
<1>1. ticks # <<>>
  BY DEF ProcessPendingInsert, Drained
<1>2. Top \in Batches(agreed) /\ Len(ticks) \in 1..Len(ticks)
  BY <1>1, TopBatch
<1>3. t \in Batches(agreed)
  BY <1>2 DEF Batches, Questions
<1>4. ticks' = [ticks EXCEPT ![Len(ticks)] = t]
  BY DEF ProcessPendingInsert, Top, Last
<1> HIDE DEF t
<1>5. ticks' \in Seq(Batches(agreed))
  BY <1>2, <1>3, <1>4 DEF AgreeInv
<1> QED BY <1>5 DEF AgreeInv, ProcessPendingInsert, transport, phone

LEMMA PollAgrees ==
  ASSUME AgreeInv, NEW found \in BOOLEAN, NEW grace \in BOOLEAN, PollTransport(found, grace)
  PROVE  AgreeInv'
<1>1. ticks # <<>> /\ ticks' = Front(ticks)
  BY DEF PollTransport, Drained
<1>2. ticks' \in Seq(Batches(agreed))
  BY <1>1 DEF Front, AgreeInv
<1>3. /\ pass \in Films /\ pass' = pass /\ recordPlace \in Films
      /\ rolling' = rolling /\ (rolling = "recording" => pass \in Passes)
  BY DEF AgreeInv, PollTransport, transport
<1>4. recordPlace' \in Films /\ helpers' \subseteq Consented(agreed)
  <2>1. CASE rolling = "recording" /\ BeginRecording
    <3>1. Job("start", Film(pass, Cursor, FALSE), <<>>) \in Consented(agreed)
      BY <1>3, <2>1, FilmsOfPasses, FilmJobs
    <3> QED BY <1>3, <2>1, <3>1 DEF BeginRecording, Launch, AgreeInv
  <2>2. CASE FinishRecording /\ UNCHANGED recordPlace
    <3>1. Job("stop", NoFilm, <<>>) \in Consented(agreed)
      BY OtherJobs
    <3> QED BY <1>3, <2>2, <3>1 DEF FinishRecording, AgreeInv
  <2>3. CASE UNCHANGED <<recordPlace, helpers>>
    BY <1>3, <2>3 DEF AgreeInv
  <2>4. (rolling = "recording" /\ BeginRecording) \/ (FinishRecording /\ UNCHANGED recordPlace)
        \/ UNCHANGED <<recordPlace, helpers>>
    BY DEF PollTransport
  <2> QED BY <2>1, <2>2, <2>3, <2>4
<1> QED BY <1>2, <1>3, <1>4 DEF AgreeInv, PollTransport, phone, history

LEMMA AgreeNext == AgreeInv /\ [Next]_vars => AgreeInv'
<1> SUFFICES ASSUME AgreeInv, [Next]_vars PROVE AgreeInv'
  OBVIOUS
<1>1. CASE UserStep     BY <1>1, UserAgrees
<1>2. CASE HelperEnds   BY <1>2, HelperAgrees
<1>3. CASE TimerPoll    BY <1>3, TimerAgrees
<1>4. CASE RunCallback  BY <1>4, CallbackAgrees
<1>5. CASE Answer       BY <1>5, AnswerAgrees
<1>6. CASE \E opens \in BOOLEAN : ProcessPendingInsert(opens)
  BY <1>6, InsertAgrees
<1>7. CASE \E found, grace \in BOOLEAN : PollTransport(found, grace)
  BY <1>7, PollAgrees
<1>8. CASE UNCHANGED vars
  BY <1>8 DEF vars, transport, phone, history, AgreeInv
<1> QED BY <1>1, <1>2, <1>3, <1>4, <1>5, <1>6, <1>7, <1>8 DEF Next, UserStep

(***************************************************************************)
(* The phone's recordings.                                                 *)
(***************************************************************************)
LEMMA OnlyAgreedLeave ==
  ASSUME AgreeInv, [Next]_vars
  PROVE  \A f \in kept \ kept' : f \in fetched' \/ f \in agreed
<1>1. CASE HelperEnds
  <2>1. PICK j \in helpers, a \in BOOLEAN, b \in BOOLEAN, c \in BOOLEAN :
           \/ StartEnds(j, a, b) \/ StopEnds(j, a, b) \/ DownloadEnds(j, a, b, c)
           \/ j.cmd = "delete" /\ DeleteEnds(j, a, b)
           \/ ListEnds(j, b)
    BY <1>1 DEF HelperEnds
  <2>2. j.cmd = "delete" => j.for.film \in agreed
    BY DEF AgreeInv, Consented
  <2>3. CASE DownloadEnds(j, a, b, c)
    BY <2>3 DEF DownloadEnds
  <2>4. CASE j.cmd = "delete" /\ DeleteEnds(j, a, b)
    BY <2>2, <2>4 DEF DeleteEnds
  <2>5. CASE StartEnds(j, a, b) \/ StopEnds(j, a, b) \/ ListEnds(j, b)
    BY <2>5 DEF StartEnds, StopEnds, ListEnds
  <2> QED BY <2>1, <2>3, <2>4, <2>5
<1>2. CASE ~HelperEnds
  <2>1. kept' = kept
    BY <1>2 DEF Next, PressRecord, MoveTransport, SetVideoEnabled, ToggleFollow, Pairing, ListRecordings,
                TimerPoll, RunCallback, Answer, ProcessPendingInsert, PollTransport, phone, vars
  <2> QED BY <2>1
<1> QED BY <1>1, <1>2

\* Nothing leaves the phone unless it was downloaded or the user agreed to delete
\* it, however message boxes nest and helpers and answers overtake each other.
THEOREM NothingUnasked == Spec => OnlyAgreedDeletes
<1>1. AgreeInv /\ [Next]_vars => [\A f \in kept \ kept' : f \in fetched' \/ f \in agreed]_vars
  BY OnlyAgreedLeave
<1> QED BY <1>1, AgreeInit, AgreeNext, PTL DEF Spec, OnlyAgreedDeletes
(***************************************************************************)
(* One take is in hand at a time.  With a patient user a take or a listing *)
(* goes from one place to the next, a helper, its message, a question, the *)
(* insertion slot, and is in one of them at most; while a take is recorded *)
(* it is in none.  The start of a take is not counted: it waits for        *)
(* nothing, and its message may be overtaken.                              *)
(***************************************************************************)
Single(S) == \A a, b \in S : a = b
Chained(s) == {k \in 1..Len(s) : s[k].job.cmd # "start"}
Working == {j \in helpers : j.cmd # "start"}
Holding == {i \in 1..Len(ticks) : Chained(ticks[i].rest) # {}}
Asking  == {i \in 1..Len(ticks) : ticks[i].ask \in Questions}

\* REAPER records and the poll has not seen it.
Unbegun == rolling = "recording" /\ prev # "recording"
Free ==
  /\ Working = {} /\ Chained(queue) = {} /\ Holding = {} /\ Asking = {} /\ slot = NoFilm
OneInHand ==
  /\ Single(Working) /\ Single(Chained(queue)) /\ Single(Holding) /\ Single(Asking)
  /\ \A i \in Holding : Single(Chained(ticks[i].rest))
  /\ Working # {} => Chained(queue) = {} /\ Holding = {} /\ Asking = {} /\ slot = NoFilm
  /\ Chained(queue) # {} => Holding = {} /\ Asking = {} /\ slot = NoFilm
  /\ Holding # {} => Asking = {} /\ slot = NoFilm
  /\ Asking # {} => slot = NoFilm

\* A take whose start is under way is the active one, and REAPER still records it.
StartsActive ==
  /\ active => prev = "recording"
  /\ \A j \in helpers :
       j.cmd = "start" => active /\ rolling = "recording" /\ j.for.film = recordPlace

HandInv ==
  /\ OneInHand
  /\ active \/ Unbegun => Free
  /\ StartsActive

\* Positions of messages in a sequence that grows or loses its head.
LEMMA ChainedGrows ==
  ASSUME NEW S, NEW s \in Seq(S), NEW m \in S
  PROVE  /\ m.job.cmd = "start" => Chained(Append(s, m)) = Chained(s)
         /\ m.job.cmd # "start" => Chained(Append(s, m)) = Chained(s) \cup {Len(s) + 1}
<1>1. /\ Len(Append(s, m)) = Len(s) + 1 /\ Len(s) \in Nat
      /\ Append(s, m)[Len(s) + 1] = m
      /\ \A k \in 1..Len(s) : Append(s, m)[k] = s[k]
  OBVIOUS
<1>2. 1..(Len(s) + 1) = (1..Len(s)) \cup {Len(s) + 1} /\ Len(s) + 1 \notin 1..Len(s)
  BY <1>1
<1>3. CASE m.job.cmd = "start"
  BY <1>1, <1>2, <1>3 DEF Chained
<1>4. CASE m.job.cmd # "start"
  BY <1>1, <1>2, <1>4 DEF Chained
<1> QED BY <1>3, <1>4

LEMMA ChainedHead ==
  ASSUME NEW S, NEW s \in Seq(S), s # <<>>
  PROVE  /\ Chained(Tail(s)) # {} => Chained(s) # {}
         /\ Single(Chained(s)) => Single(Chained(Tail(s)))
         /\ Head(s).job.cmd # "start" => Chained(s) # {}
         /\ Head(s).job.cmd # "start" /\ Single(Chained(s)) => Chained(Tail(s)) = {}
<1>1. /\ Len(Tail(s)) = Len(s) - 1 /\ Len(s) \in Nat \ {0} /\ Head(s) = s[1]
      /\ \A k \in 1..Len(Tail(s)) : Tail(s)[k] = s[k + 1]
  OBVIOUS
<1>2. \A k \in Chained(Tail(s)) : k \in Nat /\ k + 1 \in Chained(s) /\ k + 1 # 1
  BY <1>1 DEF Chained
<1>3. Head(s).job.cmd # "start" => 1 \in Chained(s)
  BY <1>1 DEF Chained
<1>4. Chained(Tail(s)) # {} => Chained(s) # {}
  BY <1>2
<1>5. ASSUME Single(Chained(s)) PROVE Single(Chained(Tail(s)))
  <2> SUFFICES ASSUME NEW k \in Chained(Tail(s)), NEW l \in Chained(Tail(s)) PROVE k = l
    BY DEF Single
  <2>1. k \in Nat /\ l \in Nat /\ k + 1 = l + 1
    BY <1>2, <1>5 DEF Single
  <2> QED BY <2>1
<1>6. ASSUME Head(s).job.cmd # "start", Single(Chained(s)) PROVE Chained(Tail(s)) = {}
  BY <1>2, <1>3, <1>6 DEF Single
<1> QED BY <1>3, <1>4, <1>5, <1>6

\* What becomes of the batches when one begins, the innermost goes on, or it ends.
LEMMA BatchBegins ==
  ASSUME AgreeInv, NEW t, ticks' = Append(ticks, t), t.ask = "none"
  PROVE  /\ Asking' = Asking
         /\ Chained(t.rest) = {} => Holding' = Holding
         /\ Chained(t.rest) # {} => Holding' = Holding \cup {Len(ticks) + 1}
         /\ \A i \in Holding : ticks'[i].rest = ticks[i].rest
         /\ ticks'[Len(ticks) + 1].rest = t.rest
<1>1. /\ Len(ticks') = Len(ticks) + 1 /\ Len(ticks) \in Nat
      /\ ticks'[Len(ticks) + 1] = t
      /\ \A i \in 1..Len(ticks) : ticks'[i] = ticks[i]
  BY DEF AgreeInv
<1>2. 1..(Len(ticks) + 1) = (1..Len(ticks)) \cup {Len(ticks) + 1}
      /\ Len(ticks) + 1 \notin 1..Len(ticks)
  BY <1>1
<1>3. Asking' = Asking
  BY <1>1, <1>2 DEF Asking, Questions
<1>4. Chained(t.rest) = {} => Holding' = Holding
  BY <1>1, <1>2 DEF Holding, Chained
<1>5. Chained(t.rest) # {} => Holding' = Holding \cup {Len(ticks) + 1}
  BY <1>1, <1>2 DEF Holding, Chained
<1> QED BY <1>1, <1>3, <1>4, <1>5 DEF Holding

LEMMA BatchGoesOn ==
  ASSUME AgreeInv, ticks # <<>>, NEW t, ticks' = [ticks EXCEPT ![Len(ticks)] = t]
  PROVE  /\ Asking' \ {Len(ticks)} = Asking \ {Len(ticks)}
         /\ Len(ticks) \in Asking' <=> t.ask \in Questions
         /\ Len(ticks) \in Asking <=> Top.ask \in Questions
         /\ Holding' \ {Len(ticks)} = Holding \ {Len(ticks)}
         /\ Len(ticks) \in Holding' <=> Chained(t.rest) # {}
         /\ Len(ticks) \in Holding <=> Chained(Top.rest) # {}
         /\ \A i \in Holding \ {Len(ticks)} : ticks'[i].rest = ticks[i].rest
         /\ ticks'[Len(ticks)].rest = t.rest /\ ticks[Len(ticks)].rest = Top.rest
<1>1. /\ Len(ticks') = Len(ticks) /\ Len(ticks) \in 1..Len(ticks)
      /\ ticks'[Len(ticks)] = t /\ ticks[Len(ticks)] = Top
      /\ \A i \in (1..Len(ticks)) \ {Len(ticks)} : ticks'[i] = ticks[i]
  BY DEF AgreeInv, Top, Last
<1>2. /\ Asking' \ {Len(ticks)} = Asking \ {Len(ticks)}
      /\ Len(ticks) \in Asking' <=> t.ask \in Questions
      /\ Len(ticks) \in Asking <=> Top.ask \in Questions
  BY <1>1 DEF Asking
<1>3. /\ Holding' \ {Len(ticks)} = Holding \ {Len(ticks)}
      /\ Len(ticks) \in Holding' <=> Chained(t.rest) # {}
      /\ Len(ticks) \in Holding <=> Chained(Top.rest) # {}
  BY <1>1 DEF Holding
<1> QED BY <1>1, <1>2, <1>3 DEF Holding

LEMMA BatchEnds ==
  ASSUME AgreeInv, ticks # <<>>, Top.ask = "none", Top.rest = <<>>, ticks' = Front(ticks)
  PROVE  /\ Asking' = Asking /\ Holding' = Holding
         /\ \A i \in Holding : ticks'[i].rest = ticks[i].rest
<1>1. /\ Len(ticks') = Len(ticks) - 1 /\ Len(ticks) \in Nat \ {0}
      /\ ticks[Len(ticks)] = Top
      /\ \A i \in 1..(Len(ticks) - 1) : ticks'[i] = ticks[i]
  <2>1. ticks \in Seq(Batches(agreed)) /\ Len(ticks) \in Nat \ {0}
    BY DEF AgreeInv
  <2>2. ticks' = [i \in 1..(Len(ticks) - 1) |-> ticks[i]]
    BY <2>1 DEF Front
  <2> QED BY <2>1, <2>2 DEF Top, Last
<1>2. 1..Len(ticks) = (1..(Len(ticks) - 1)) \cup {Len(ticks)}
  BY <1>1
<1>3. Chained(Top.rest) = {}
  BY DEF Chained
<1>4. Asking' = Asking
  BY <1>1, <1>2 DEF Asking, Questions
<1>5. Holding' = Holding
  BY <1>1, <1>2, <1>3 DEF Holding, Chained
<1>6. Holding \subseteq 1..(Len(ticks) - 1)
  BY <1>1, <1>2, <1>3 DEF Holding
<1> QED BY <1>1, <1>4, <1>5, <1>6
LEMMA HandInit == Init => HandInv
<1> SUFFICES ASSUME Init PROVE HandInv
  OBVIOUS
<1>1. Len(ticks) = 0 /\ Len(queue) = 0
  BY DEF Init
<1>2. Working = {} /\ Chained(queue) = {} /\ Holding = {} /\ Asking = {} /\ slot = NoFilm
  <2>1. 1..Len(ticks) = {} /\ 1..Len(queue) = {}
    BY <1>1
  <2> QED BY <2>1 DEF Working, Chained, Holding, Asking, Init
<1>3. ~active /\ rolling # "recording" /\ helpers = {}
  BY DEF Init
<1> QED BY <1>2, <1>3 DEF HandInv, OneInHand, Free, Unbegun, StartsActive, Single

LEMMA QuietIsFree == Quiet => Free /\ helpers = {}
<1> SUFFICES ASSUME Quiet PROVE Free /\ helpers = {}
  OBVIOUS
<1>1. helpers = {} /\ queue = <<>> /\ ticks = <<>> /\ slot = NoFilm
  BY DEF Quiet
<1>2. 1..Len(ticks) = {} /\ 1..Len(queue) = {}
  BY <1>1
<1> QED BY <1>1, <1>2 DEF Free, Working, Chained, Holding, Asking

\* What is in hand depends on these variables only.
LEMMA HandFrame ==
  ASSUME HandInv, UNCHANGED <<helpers, queue, ticks, slot>>
  PROVE  OneInHand' /\ (Free => Free')
<1>1. Working' = Working /\ Chained(queue') = Chained(queue)
  BY DEF Working
<1>2. Holding' = Holding /\ Asking' = Asking
  BY DEF Holding, Asking
<1>3. OneInHand
  BY DEF HandInv
<1> QED BY <1>1, <1>2, <1>3 DEF OneInHand, Free

LEMMA UserHands == Patient /\ AgreeInv /\ HandInv /\ UserStep => HandInv'
<1> SUFFICES ASSUME Patient, AgreeInv, HandInv, UserStep PROVE HandInv'
  OBVIOUS
<1>0. UNCHANGED <<queue, ticks, slot, recordPlace, prev>>
  BY DEF UserStep, PressRecord, MoveTransport, SetVideoEnabled, ToggleFollow, Pairing, ListRecordings
<1>1. CASE PressRecord
  <2>1. Free /\ helpers = {} /\ helpers' = helpers /\ active' = active
    BY <1>1, QuietIsFree DEF PressRecord, MayBegin
  <2>2. OneInHand' /\ Free'
    BY <1>0, <2>1, HandFrame
  <2> QED BY <1>0, <2>1, <2>2 DEF HandInv, StartsActive
<1>2. CASE \E to \in {"stopped", "playing"} : MoveTransport(to)
  <2>1. helpers' = helpers /\ active' = active /\ rolling' # "recording"
    BY <1>2 DEF MoveTransport
  <2>2. \A j \in helpers : j.cmd # "start"
    BY <1>2 DEF MoveTransport, StartAnswered, HandInv, StartsActive
  <2>3. OneInHand' /\ (Free => Free')
    BY <1>0, <2>1, HandFrame
  <2> QED BY <1>0, <2>1, <2>2, <2>3 DEF HandInv, StartsActive, Unbegun
<1>3. CASE \E on \in BOOLEAN : SetVideoEnabled(on)
  <2>1. Free /\ helpers = {} /\ rolling' = rolling
    BY <1>3, QuietIsFree DEF SetVideoEnabled, MayBegin
  <2>2. CASE UNCHANGED <<active, helpers>>
    <3>1. OneInHand' /\ Free'
      BY <1>0, <2>1, <2>2, HandFrame
    <3> QED BY <1>0, <2>1, <2>2, <3>1 DEF HandInv, StartsActive, Unbegun
  <2>3. CASE FinishRecording /\ ~active
    <3>1. helpers' = helpers /\ ~active'
      BY <2>3 DEF FinishRecording
    <3>2. OneInHand' /\ Free'
      BY <1>0, <2>1, <3>1, HandFrame
    <3> QED BY <1>0, <2>1, <3>1, <3>2 DEF HandInv, StartsActive
  <2>4. CASE FinishRecording /\ active
    <3>1. helpers' = {Job("stop", NoFilm, <<>>)} /\ ~active' /\ prev = "recording"
      BY <2>1, <2>4 DEF FinishRecording, HandInv, StartsActive
    <3>2. Working' = {Job("stop", NoFilm, <<>>)} /\ Job("stop", NoFilm, <<>>).cmd # "start"
      BY <3>1 DEF Working, Job
    <3>3. /\ Chained(queue') = {} /\ Holding' = {} /\ Asking' = {} /\ slot' = NoFilm
      BY <1>0, <2>1 DEF Free, Holding, Asking
    <3>4. OneInHand'
      BY <3>2, <3>3 DEF OneInHand, Single
    <3> QED BY <1>0, <3>1, <3>2, <3>4 DEF HandInv, StartsActive, Unbegun
  <2> QED BY <1>3, <2>2, <2>3, <2>4 DEF SetVideoEnabled
<1>4. CASE ToggleFollow \/ Pairing
  <2>1. UNCHANGED <<helpers, active, rolling>>
    BY <1>4 DEF ToggleFollow, Pairing
  <2>2. OneInHand' /\ (Free => Free')
    BY <1>0, <2>1, HandFrame
  <2> QED BY <1>0, <2>1, <2>2 DEF HandInv, StartsActive, Unbegun
<1>5. ASSUME NEW purpose \in {"restore", "deleteAll"}, ListRecordings(purpose) PROVE HandInv'
  <2>1. /\ Free /\ helpers' = {Job(purpose, NoFilm, <<>>)}
        /\ ~active /\ ~active' /\ rolling' # "recording"
    BY <1>5, QuietIsFree DEF ListRecordings, MayBegin, transport
  <2>2. Working' = {Job(purpose, NoFilm, <<>>)} /\ Job(purpose, NoFilm, <<>>).cmd # "start"
    BY <2>1 DEF Working, Job
  <2>3. /\ Chained(queue') = {} /\ Holding' = {} /\ Asking' = {} /\ slot' = NoFilm
    BY <1>0, <2>1 DEF Free, Holding, Asking
  <2>4. OneInHand'
    BY <2>2, <2>3 DEF OneInHand, Single
  <2> QED BY <2>1, <2>2, <2>4 DEF HandInv, StartsActive, Unbegun
<1> QED BY <1>1, <1>2, <1>3, <1>4, <1>5 DEF UserStep

\* The message of a helper that ends.
Letter(j, ids, ok) == [job |-> [j EXCEPT !.ids = ids], ok |-> ok]
Letters == [job : Jobs, ok : BOOLEAN]

LEMMA LetterOfJob ==
  ASSUME NEW j \in Jobs, NEW ids \in Seq(Passes), NEW ok \in BOOLEAN
  PROVE  /\ Letter(j, ids, ok) \in Letters /\ Letter(j, ids, ok).ok = ok
         /\ Letter(j, ids, ok).job.cmd = j.cmd /\ Letter(j, ids, ok).job.for = j.for
         /\ Letter(j, ids, ok).job.ids = ids
<1>1. [j EXCEPT !.ids = ids] \in Jobs
  BY DEF Jobs
<1>2. /\ [j EXCEPT !.ids = ids].cmd = j.cmd /\ [j EXCEPT !.ids = ids].for = j.for
      /\ [j EXCEPT !.ids = ids].ids = ids
  BY DEF Jobs
<1> QED BY <1>1, <1>2 DEF Letter, Letters

LEMMA LettersHeld ==
  ASSUME AgreeInv
  PROVE  /\ helpers \subseteq Jobs /\ queue \in Seq(Letters)
         /\ \A i \in 1..Len(ticks) : ticks[i].rest \in Seq(Letters)
<1>1. Answers(agreed) \subseteq Letters /\ Consented(agreed) \subseteq Jobs
  BY DEF Answers, Consented, Letters
<1>2. \A i \in 1..Len(ticks) : ticks[i].rest \in Seq(Answers(agreed))
  BY DEF AgreeInv, Batches
<1>3. Seq(Answers(agreed)) \subseteq Seq(Letters)
  BY <1>1
<1> QED BY <1>1, <1>2, <1>3 DEF AgreeInv

\* Whichever helper ends, it leaves and its message joins the queue.
LEMMA HelperPosts ==
  ASSUME AgreeInv, HelperEnds
  PROVE  \E j \in helpers, ids \in Seq(Passes), ok \in BOOLEAN :
            helpers' = helpers \ {j} /\ queue' = Append(queue, Letter(j, ids, ok))
<1>1. PICK j \in helpers, a \in BOOLEAN, b \in BOOLEAN, c \in BOOLEAN :
         \/ StartEnds(j, a, b) \/ StopEnds(j, a, b) \/ DownloadEnds(j, a, b, c)
         \/ DeleteEnds(j, a, b) \/ ListEnds(j, b)
  BY DEF HelperEnds
<1>2. j.ids \in Seq(Passes)
  BY LettersHeld DEF Jobs
<1>3. SetToSeq(kept) \in Seq(Passes)
  BY ListOfFilms DEF AgreeInv
<1>4. StopEnds(j, a, b) => (b => filming \in Passes)
  BY WinFollowAssumption DEF StopEnds, AgreeInv, Films, Passes
<1>5. \E ids \in Seq(Passes) : Post(j, ids, b)
  <2>1. CASE StartEnds(j, a, b)
    <3>1. <<>> \in Seq(Passes) /\ Post(j, <<>>, b)
      BY <2>1 DEF StartEnds
    <3> QED BY <3>1
  <2>2. CASE StopEnds(j, a, b)
    <3> DEFINE ids == IF b THEN <<filming>> ELSE <<>>
    <3>1. ids \in Seq(Passes) /\ Post(j, ids, b)
      BY <1>4, <2>2 DEF StopEnds
    <3> QED BY <3>1
  <2>3. CASE DownloadEnds(j, a, b, c) \/ DeleteEnds(j, a, b)
    BY <1>2, <2>3 DEF DownloadEnds, DeleteEnds
  <2>4. CASE ListEnds(j, b)
    <3> DEFINE ids == IF b THEN SetToSeq(kept) ELSE <<>>
    <3>1. ids \in Seq(Passes) /\ Post(j, ids, b)
      BY <1>3, <2>4 DEF ListEnds
    <3> QED BY <3>1
  <2> QED BY <1>1, <2>1, <2>2, <2>3, <2>4
<1> QED BY <1>5 DEF Post, Letter

LEMMA HelperHands == AgreeInv /\ HandInv /\ HelperEnds => HandInv'
<1> SUFFICES ASSUME AgreeInv, HandInv, HelperEnds PROVE HandInv'
  OBVIOUS
<1>0. UNCHANGED <<ticks, slot, recordPlace, prev, rolling, active>>
  BY DEF HelperEnds, transport
<1>1. PICK j \in helpers, ids \in Seq(Passes), ok \in BOOLEAN :
         helpers' = helpers \ {j} /\ queue' = Append(queue, Letter(j, ids, ok))
  BY HelperPosts
<1> DEFINE m == Letter(j, ids, ok)
<1>2. m \in Letters /\ m.job.cmd = j.cmd /\ queue \in Seq(Letters)
  BY LetterOfJob, LettersHeld
<1>3. Holding' = Holding /\ Asking' = Asking
  BY <1>0 DEF Holding, Asking
<1>4. /\ j.cmd = "start" => Chained(queue') = Chained(queue)
      /\ j.cmd # "start" => Chained(queue') = Chained(queue) \cup {Len(queue) + 1}
  BY <1>1, <1>2, ChainedGrows
<1>5. Working' = Working \ {j}
  BY <1>1 DEF Working
<1>6. StartsActive' /\ (Unbegun' <=> Unbegun)
  BY <1>0, <1>1 DEF StartsActive, HandInv, Unbegun
<1> HIDE DEF m
<1>7. CASE j.cmd = "start"
  <2>1. Working' = Working /\ Chained(queue') = Chained(queue)
    BY <1>4, <1>5, <1>7 DEF Working
  <2>2. OneInHand' /\ (Free => Free')
    BY <1>0, <1>3, <2>1 DEF HandInv, OneInHand, Free
  <2> QED BY <1>0, <1>6, <2>2 DEF HandInv
<1>8. CASE j.cmd # "start"
  <2>1. j \in Working
    BY <1>8 DEF Working
  <2>2. Working = {j} /\ Chained(queue) = {} /\ Holding = {} /\ Asking = {} /\ slot = NoFilm
    BY <2>1 DEF HandInv, OneInHand, Single
  <2>3. Working' = {} /\ Chained(queue') = {Len(queue) + 1}
    BY <1>4, <1>5, <1>8, <2>2
  <2>4. OneInHand'
    BY <1>0, <1>3, <2>2, <2>3 DEF OneInHand, Single
  <2>5. ~Free
    BY <2>1 DEF Free
  <2> QED BY <1>0, <1>6, <2>4, <2>5 DEF HandInv
<1> QED BY <1>7, <1>8

LEMMA TimerHands == AgreeInv /\ HandInv /\ TimerPoll => HandInv'
<1> SUFFICES ASSUME AgreeInv, HandInv, TimerPoll PROVE HandInv'
  OBVIOUS
<1> DEFINE t == [ask |-> "none", ids |-> <<>>, rest |-> queue, done |-> FALSE]
<1>0. UNCHANGED <<helpers, slot, recordPlace, prev, rolling, active>>
  BY DEF TimerPoll, transport
<1>1. ticks' = Append(ticks, t) /\ queue' = <<>> /\ t.ask = "none" /\ t.rest = queue
  BY DEF TimerPoll
<1> HIDE DEF t
<1>2. /\ Asking' = Asking
      /\ Chained(queue) = {} => Holding' = Holding
      /\ Chained(queue) # {} => Holding' = Holding \cup {Len(ticks) + 1}
      /\ \A i \in Holding : ticks'[i].rest = ticks[i].rest
      /\ ticks'[Len(ticks) + 1].rest = queue
  BY <1>1, BatchBegins
<1>3. Chained(queue') = {} /\ Working' = Working
  BY <1>0, <1>1 DEF Chained, Working
<1>4. StartsActive' /\ (Unbegun' <=> Unbegun)
  BY <1>0 DEF StartsActive, HandInv, Unbegun
<1>5. CASE Chained(queue) = {}
  <2>1. OneInHand' /\ (Free => Free')
    BY <1>0, <1>2, <1>3, <1>5 DEF HandInv, OneInHand, Free, Single
  <2> QED BY <1>0, <1>4, <2>1 DEF HandInv
<1>6. CASE Chained(queue) # {}
  <2>1. Working = {} /\ Holding = {} /\ Asking = {} /\ slot = NoFilm /\ ~Free
    BY <1>6 DEF HandInv, OneInHand, Free
  <2>2. Holding' = {Len(ticks) + 1} /\ Single(Chained(queue))
    BY <1>2, <1>6, <2>1 DEF HandInv, OneInHand
  <2>3. OneInHand'
    BY <1>0, <1>2, <1>3, <2>1, <2>2 DEF OneInHand, Single
  <2> QED BY <1>0, <1>4, <2>1, <2>3 DEF HandInv
<1> QED BY <1>5, <1>6
\* The innermost batch after its question or its next message has been dealt with.
Then(box, rest) == [Top EXCEPT !.ask = box.ask, !.ids = box.ids, !.rest = rest]

LEMMA SetTopThen ==
  ASSUME AgreeInv, ticks # <<>>, NEW box, NEW rest, SetTop(box, rest)
  PROVE  /\ ticks' = [ticks EXCEPT ![Len(ticks)] = Then(box, rest)]
         /\ Then(box, rest).ask = box.ask /\ Then(box, rest).ids = box.ids
         /\ Then(box, rest).rest = rest
<1>1. Top \in Batches(agreed)
  BY TopBatch
<1> QED BY <1>1 DEF SetTop, Then, Top, Last, Batches

\* What the innermost batch still holds of the work in hand.
LEMMA TopInHand ==
  ASSUME AgreeInv, HandInv, ticks # <<>>
  PROVE  /\ Top.ask \in Questions =>
              /\ Working = {} /\ Chained(queue) = {} /\ Holding = {} /\ slot = NoFilm
              /\ Asking = {Len(ticks)} /\ ~active /\ ~Unbegun /\ ~Free
         /\ Chained(Top.rest) # {} =>
              /\ Working = {} /\ Chained(queue) = {} /\ Holding = {Len(ticks)}
              /\ Asking = {} /\ slot = NoFilm /\ ~active /\ ~Unbegun /\ ~Free
              /\ Single(Chained(Top.rest))
<1>1. Len(ticks) \in 1..Len(ticks) /\ ticks[Len(ticks)] = Top
  BY TopBatch DEF Top, Last
<1>2. ASSUME Top.ask \in Questions
      PROVE  /\ Working = {} /\ Chained(queue) = {} /\ Holding = {} /\ slot = NoFilm
             /\ Asking = {Len(ticks)} /\ ~active /\ ~Unbegun /\ ~Free
  <2>1. Len(ticks) \in Asking
    BY <1>1, <1>2 DEF Asking
  <2> QED BY <2>1 DEF HandInv, OneInHand, Single, Free
<1>3. ASSUME Chained(Top.rest) # {}
      PROVE  /\ Working = {} /\ Chained(queue) = {} /\ Holding = {Len(ticks)}
             /\ Asking = {} /\ slot = NoFilm /\ ~active /\ ~Unbegun /\ ~Free
             /\ Single(Chained(Top.rest))
  <2>1. Len(ticks) \in Holding
    BY <1>1, <1>3 DEF Holding
  <2> QED BY <1>1, <2>1 DEF HandInv, OneInHand, Single, Free
<1> QED BY <1>2, <1>3

\* Deleting one after the other is one delete command at a time.
LEMMA OneDelete ==
  ASSUME NEW ids
  PROVE  Single(DeleteSequentially(ids)) /\ \A j \in DeleteSequentially(ids) : j.cmd = "delete"
<1> DEFINE first == Job("delete", Film(Head(ids), Cursor, FALSE), Tail(ids))
<1>1. first.cmd = "delete"
  BY DEF Job
<1> HIDE DEF first
<1>2. DeleteSequentially(ids) \subseteq {first}
  BY DEF DeleteSequentially, first
<1> QED BY <1>1, <1>2 DEF Single

LEMMA CallbackHands == AgreeInv /\ HandInv /\ RunCallback => HandInv'
<1> SUFFICES ASSUME AgreeInv, HandInv, RunCallback PROVE HandInv'
  OBVIOUS
<1> DEFINE m == Head(Top.rest)
           good == m.ok \/ Recovered(m.job)
           box == CASE ~good -> Ask("error", <<>>)
                    [] good /\ m.job.cmd = "stop" -> Ask("download", m.job.ids)
                    [] good /\ m.job.cmd \in {"restore", "deleteAll"} ->
                         IF m.job.ids = <<>> THEN Ask("error", <<>>)
                         ELSE Ask(m.job.cmd, m.job.ids)
                    [] OTHER -> Proceed
           more == IF good /\ m.job.cmd = "delete" THEN DeleteSequentially(m.job.ids) ELSE {}
<1>0. UNCHANGED <<queue, recordPlace, prev, rolling, active>>
  BY DEF RunCallback, transport
<1>1. /\ ticks # <<>> /\ Top.ask = "none" /\ Top.rest # <<>>
      /\ SetTop(box, Tail(Top.rest)) /\ helpers' = helpers \cup more
      /\ slot' = SlotAfter(m.job, good)
  BY DEF RunCallback, Launch
<1>2. Top.rest \in Seq(Letters) /\ m \in Letters /\ Tail(Top.rest) \in Seq(Letters)
  <2>1. Len(ticks) \in 1..Len(ticks) /\ ticks[Len(ticks)] = Top
    BY <1>1, TopBatch DEF Top, Last
  <2>2. Top.rest \in Seq(Letters)
    BY <2>1, LettersHeld
  <2>3. Top.rest # <<>>
    BY <1>1
  <2> QED BY <2>2, <2>3
<1>3. m.job \in Jobs
  BY <1>2 DEF Letters
<1>4. /\ box.ask \in Questions => /\ m.job.cmd \in {"stop", "restore", "deleteAll"}
      /\ more # {} => m.job.cmd = "delete"
      /\ Single(more) /\ (\A j \in more : j.cmd = "delete")
      /\ slot' # slot => m.job.cmd = "download"
  <2>1. box.ask \in Questions => m.job.cmd \in {"stop", "restore", "deleteAll"}
    <3>1. CASE ~good
      BY <3>1 DEF Ask, Questions
    <3>2. CASE good /\ m.job.cmd \notin {"stop", "restore", "deleteAll"}
      BY <3>2 DEF Ask, Proceed, Questions
    <3> QED BY <3>1, <3>2
  <2>2. Single(more) /\ (\A j \in more : j.cmd = "delete")
    BY OneDelete DEF Single
  <2>3. slot' # slot => m.job.cmd = "download"
    BY <1>1 DEF SlotAfter
  <2> QED BY <2>1, <2>2, <2>3
<1>5. StartsActive' /\ (Unbegun' <=> Unbegun)
  BY <1>0, <1>1, <1>4 DEF StartsActive, HandInv, Unbegun
<1> DEFINE t == Then(box, Tail(Top.rest))
<1> HIDE DEF box, more, m, good
<1>6. /\ ticks' = [ticks EXCEPT ![Len(ticks)] = t]
      /\ t.ask = box.ask /\ t.rest = Tail(Top.rest)
  BY <1>1, SetTopThen
<1> HIDE DEF t
<1>7. /\ Asking' \ {Len(ticks)} = Asking \ {Len(ticks)}
      /\ Len(ticks) \in Asking' <=> box.ask \in Questions
      /\ Len(ticks) \notin Asking
      /\ Holding' \ {Len(ticks)} = Holding \ {Len(ticks)}
      /\ Len(ticks) \in Holding' <=> Chained(Tail(Top.rest)) # {}
      /\ Len(ticks) \in Holding <=> Chained(Top.rest) # {}
      /\ \A i \in Holding \ {Len(ticks)} : ticks'[i].rest = ticks[i].rest
      /\ ticks'[Len(ticks)].rest = Tail(Top.rest) /\ ticks[Len(ticks)].rest = Top.rest
  BY <1>1, <1>6, BatchGoesOn DEF Questions
<1>8. /\ Chained(Tail(Top.rest)) # {} => Chained(Top.rest) # {}
      /\ Single(Chained(Top.rest)) => Single(Chained(Tail(Top.rest)))
      /\ m.job.cmd # "start" => Chained(Top.rest) # {}
      /\ m.job.cmd # "start" /\ Single(Chained(Top.rest)) => Chained(Tail(Top.rest)) = {}
  BY <1>1, <1>2, ChainedHead DEF m
<1>9. CASE m.job.cmd = "start"
  <2>1. box.ask \notin Questions /\ more = {} /\ slot' = slot
    BY <1>4, <1>9
  <2>2. Working' = Working /\ Asking' = Asking
    BY <1>1, <1>7, <2>1 DEF Working
  <2>3. Holding' \subseteq Holding
    BY <1>7, <1>8
  <2>4. \A i \in Holding' : Single(Chained(ticks'[i].rest))
    BY <1>7, <1>8, <2>3 DEF HandInv, OneInHand
  <2>5. OneInHand' /\ (Free => Free')
    BY <1>0, <2>1, <2>2, <2>3, <2>4 DEF HandInv, OneInHand, Free, Single
  <2> QED BY <1>0, <1>5, <2>5 DEF HandInv
<1>10. CASE m.job.cmd # "start"
  <2>1. /\ Working = {} /\ Chained(queue) = {} /\ Holding = {Len(ticks)}
        /\ Asking = {} /\ slot = NoFilm /\ ~active /\ ~Unbegun
        /\ Single(Chained(Top.rest))
    BY <1>1, <1>8, <1>10, TopInHand
  <2>2. Holding' = {}
    BY <1>7, <1>8, <1>10, <2>1
  <2>3. Asking' = IF box.ask \in Questions THEN {Len(ticks)} ELSE {}
    BY <1>7, <2>1
  <2>4. Working' = more
    BY <1>1, <1>4, <2>1 DEF Working
  <2>5. /\ Chained(queue') = {} /\ Single(Working') /\ Single(Asking')
        /\ Working' # {} => Asking' = {} /\ slot' = NoFilm
        /\ Asking' # {} => slot' = NoFilm
    <3>1. Chained(queue') = {}
      BY <1>0, <2>1
    <3>2. Single(Working') /\ Single(Asking')
      BY <1>4, <2>3, <2>4 DEF Single
    <3>3. Working' # {} => Asking' = {} /\ slot' = NoFilm
      BY <1>4, <2>1, <2>3, <2>4
    <3>4. Asking' # {} => slot' = NoFilm
      BY <1>4, <2>1, <2>3
    <3> QED BY <3>1, <3>2, <3>3, <3>4
  <2>6. OneInHand'
    BY <2>2, <2>5 DEF OneInHand, Single
  <2> QED BY <1>0, <1>5, <2>1, <2>6 DEF HandInv
<1> QED BY <1>9, <1>10
LEMMA SameBut ==
  ASSUME NEW S, NEW T, NEW n, S \ {n} = T \ {n}, n \in S <=> n \in T
  PROVE  S = T
  OBVIOUS

LEMMA AnswerHands == AgreeInv /\ HandInv /\ Answer => HandInv'
<1> SUFFICES ASSUME AgreeInv, HandInv, Answer PROVE HandInv'
  OBVIOUS
<1>0. UNCHANGED <<queue, slot, recordPlace, prev, rolling, active>>
  BY DEF Answer, transport
<1>1. ticks # <<>>
  BY DEF Answer
<1>2. ASSUME NEW box, SetTop(box, Top.rest)
      PROVE  /\ Asking' \ {Len(ticks)} = Asking \ {Len(ticks)}
             /\ Len(ticks) \in Asking' <=> box.ask \in Questions
             /\ Len(ticks) \in Asking <=> Top.ask \in Questions
             /\ Holding' = Holding
             /\ \A i \in Holding : ticks'[i].rest = ticks[i].rest
  <2> DEFINE t == Then(box, Top.rest)
  <2>1. ticks' = [ticks EXCEPT ![Len(ticks)] = t] /\ t.ask = box.ask /\ t.rest = Top.rest
    BY <1>1, <1>2, SetTopThen
  <2> HIDE DEF t
  <2>2. /\ Holding' \ {Len(ticks)} = Holding \ {Len(ticks)}
        /\ Len(ticks) \in Holding' <=> Len(ticks) \in Holding
        /\ \A i \in Holding \ {Len(ticks)} : ticks'[i].rest = ticks[i].rest
        /\ ticks'[Len(ticks)].rest = ticks[Len(ticks)].rest
    BY <1>1, <2>1, BatchGoesOn
  <2>3. Holding' = Holding
    BY <2>2, SameBut
  <2>4. \A i \in Holding : ticks'[i].rest = ticks[i].rest
    BY <2>2
  <2> QED BY <1>1, <2>1, <2>3, <2>4, BatchGoesOn
<1>3. Proceed.ask \notin Questions
  BY DEF Proceed, Ask, Questions
<1>4. ASSUME AnswerError PROVE HandInv'
  <2>1. SetTop(Proceed, Top.rest) /\ helpers' = helpers /\ Top.ask \notin Questions
    BY <1>4 DEF AnswerError, Questions
  <2>2. /\ Asking' = Asking /\ Holding' = Holding /\ Working' = Working
        /\ \A i \in Holding : ticks'[i].rest = ticks[i].rest
    BY <1>2, <1>3, <2>1 DEF Working
  <2>3. OneInHand' /\ (Free => Free')
    BY <1>0, <2>2 DEF HandInv, OneInHand, Free
  <2> QED BY <1>0, <2>1, <2>3 DEF HandInv, StartsActive, Unbegun
\* An answered question leads to at most one helper, or to the next question.
<1>5. ASSUME Top.ask \in Questions, NEW box, SetTop(box, Top.rest), NEW more,
             helpers' = helpers \cup more, Single(more), \A j \in more : j.cmd # "start",
             box.ask \in Questions => more = {}
      PROVE  HandInv'
  <2>1. /\ Working = {} /\ Chained(queue) = {} /\ Holding = {} /\ slot = NoFilm
        /\ Asking = {Len(ticks)} /\ ~active /\ ~Unbegun
    BY <1>1, <1>5, TopInHand
  <2>2. /\ Asking' = IF box.ask \in Questions THEN {Len(ticks)} ELSE {}
        /\ Holding' = {}
    BY <1>2, <1>5, <2>1
  <2>3. Working' = more
    BY <1>5, <2>1 DEF Working
  <2>4. OneInHand'
    BY <1>0, <1>5, <2>1, <2>2, <2>3 DEF OneInHand, Single
  <2>5. StartsActive'
    BY <1>0, <1>5, <2>1 DEF StartsActive, HandInv
  <2> QED BY <1>0, <2>1, <2>4, <2>5 DEF HandInv, Unbegun
<1>6. ASSUME Top.ask \in Questions, SetTop(Proceed, Top.rest), NEW f, NEW r, Download(f, r)
      PROVE  HandInv'
  <2> DEFINE j == Job("download", Film(f, IF r THEN Cursor ELSE recordPlace, r), <<>>)
  <2>1. helpers' = helpers \cup {j} /\ j.cmd # "start"
    BY <1>6 DEF Download, Launch, Job
  <2> HIDE DEF j
  <2> QED BY <1>3, <1>5, <1>6, <2>1 DEF Single
<1>7. ASSUME Top.ask \in Questions, SetTop(Proceed, Top.rest), NEW ids,
             Launch(DeleteSequentially(ids))
      PROVE  HandInv'
  BY <1>3, <1>5, <1>7, OneDelete DEF Launch
<1>8. ASSUME Top.ask \in Questions, NEW box, SetTop(box, Top.rest), UNCHANGED helpers
      PROVE  HandInv'
  <2>1. helpers' = helpers \cup {} /\ Single({})
    BY <1>8 DEF Single
  <2> QED BY <1>5, <1>8, <2>1
<1>9. ~AnswerError => Top.ask \in Questions
  BY DEF Answer, AnswerDownload, AnswerRestore, AnswerConfirm, AnswerDeleteAll, Questions
<1>10. CASE AnswerDownload
  BY <1>6, <1>8, <1>10 DEF AnswerDownload, Questions
<1>11. CASE AnswerRestore
  BY <1>6, <1>8, <1>11 DEF AnswerRestore, Questions
<1>12. CASE AnswerConfirm
  BY <1>7, <1>8, <1>12 DEF AnswerConfirm, Questions
<1>13. CASE AnswerDeleteAll
  BY <1>7, <1>8, <1>13 DEF AnswerDeleteAll, Questions
<1> QED BY <1>4, <1>10, <1>11, <1>12, <1>13 DEF Answer

LEMMA InsertHands ==
  ASSUME AgreeInv, HandInv, NEW opens \in BOOLEAN, ProcessPendingInsert(opens)
  PROVE  HandInv'
<1> DEFINE t == [Top EXCEPT !.done = TRUE, !.ask = IF opens THEN "none" ELSE "error"]
<1>0. UNCHANGED <<helpers, queue, recordPlace, prev, rolling, active>> /\ slot' = NoFilm
  BY DEF ProcessPendingInsert, transport
<1>1. ticks # <<>> /\ Top.ask = "none" /\ Top.rest = <<>> /\ slot # NoFilm
  BY DEF ProcessPendingInsert, Drained
<1>2. t.rest = Top.rest /\ t.ask \notin Questions
  <2>1. Top \in Batches(agreed)
    BY <1>1, TopBatch
  <2> QED BY <2>1 DEF Batches, Questions
<1>3. ticks' = [ticks EXCEPT ![Len(ticks)] = t]
  BY DEF ProcessPendingInsert, Top, Last
<1> HIDE DEF t
<1>4. /\ Asking' = Asking /\ Holding' = Holding
      /\ \A i \in Holding : ticks'[i].rest = ticks[i].rest
  <2>1. /\ Holding' \ {Len(ticks)} = Holding \ {Len(ticks)}
        /\ Len(ticks) \in Holding' <=> Len(ticks) \in Holding
        /\ \A i \in Holding \ {Len(ticks)} : ticks'[i].rest = ticks[i].rest
        /\ ticks'[Len(ticks)].rest = ticks[Len(ticks)].rest
    BY <1>1, <1>2, <1>3, BatchGoesOn
  <2>2. /\ Asking' \ {Len(ticks)} = Asking \ {Len(ticks)}
        /\ Len(ticks) \notin Asking' /\ Len(ticks) \notin Asking
    BY <1>1, <1>2, <1>3, BatchGoesOn DEF Questions
  <2>3. Holding' = Holding /\ Asking' = Asking
    BY <2>1, <2>2, SameBut
  <2>4. \A i \in Holding : ticks'[i].rest = ticks[i].rest
    BY <2>1
  <2> QED BY <2>3, <2>4
<1>5. Working' = Working /\ ~Free
  BY <1>0, <1>1 DEF Working, Free
<1>6. OneInHand'
  BY <1>0, <1>4, <1>5 DEF HandInv, OneInHand
<1> QED BY <1>0, <1>5, <1>6 DEF HandInv, StartsActive, Unbegun

LEMMA PollHands ==
  ASSUME AgreeInv, HandInv, NEW found \in BOOLEAN, NEW grace \in BOOLEAN,
         PollTransport(found, grace)
  PROVE  HandInv'
<1>0. UNCHANGED <<queue, slot, rolling, pass>>
  BY DEF PollTransport, transport
<1>1. ticks # <<>> /\ Top.ask = "none" /\ Top.rest = <<>> /\ ticks' = Front(ticks)
  BY DEF PollTransport, Drained
<1>2. /\ Asking' = Asking /\ Holding' = Holding
      /\ \A i \in Holding : ticks'[i].rest = ticks[i].rest
  BY <1>1, BatchEnds
<1>3. prev' = prev \/ prev' = rolling
  BY DEF PollTransport, PrevAfter
<1>4. CASE video /\ follow /\ paired /\ Unbegun /\ BeginRecording
  <2> DEFINE j == Job("start", Film(pass, Cursor, FALSE), <<>>)
  <2>1. Free /\ ~active
    BY <1>4 DEF HandInv, Unbegun, StartsActive
  <2>2. active' /\ recordPlace' = pass /\ helpers' = helpers \cup {j}
    BY <1>4, <2>1 DEF BeginRecording, Launch
  <2>3. j.cmd = "start" /\ j.for.film = pass
    BY DEF Job, Film
  <2> HIDE DEF j
  <2>4. \A k \in helpers : k.cmd # "start"
    BY <2>1 DEF HandInv, StartsActive
  <2>5. Working' = Working
    BY <2>2, <2>3 DEF Working
  <2>6. OneInHand' /\ Free'
    BY <1>0, <1>2, <2>1, <2>5 DEF HandInv, OneInHand, Free
  <2>7. prev' = "recording"
    BY <1>4 DEF PollTransport, BeginRecording, PrevAfter, Unbegun
  <2> QED BY <1>0, <1>4, <2>2, <2>3, <2>4, <2>6, <2>7 DEF HandInv, StartsActive, Unbegun
<1>5. CASE prev = "recording" /\ rolling # "recording" /\ FinishRecording /\ active
  <2> DEFINE j == Job("stop", NoFilm, <<>>)
  <2>1. Free /\ ~active' /\ helpers' = helpers \cup {j} /\ \A k \in helpers : k.cmd # "start"
    BY <1>5 DEF HandInv, StartsActive, FinishRecording
  <2>2. j.cmd # "start"
    BY DEF Job
  <2> HIDE DEF j
  <2>3. Working' = {j}
    BY <2>1, <2>2 DEF Working, Free
  <2>4. OneInHand'
    BY <1>0, <1>2, <2>1, <2>3 DEF OneInHand, Free, Single
  <2> QED BY <1>0, <1>5, <2>1, <2>2, <2>4 DEF HandInv, StartsActive, Unbegun
<1>6. CASE /\ UNCHANGED <<helpers, recordPlace>> /\ (active' <=> active)
           /\ active => prev' = "recording"
           /\ Unbegun' => Unbegun
  <2>1. Working' = Working
    BY <1>6 DEF Working
  <2>2. OneInHand' /\ (Free => Free')
    BY <1>0, <1>2, <2>1 DEF HandInv, OneInHand, Free
  <2> QED BY <1>0, <1>6, <2>2 DEF HandInv, StartsActive
<1>7. CASE prev = "recording" /\ rolling # "recording" /\ FinishRecording /\ ~active
           /\ UNCHANGED recordPlace
  BY <1>0, <1>6, <1>7 DEF FinishRecording, Unbegun
<1>8. CASE /\ UNCHANGED <<active, recordPlace, helpers>>
           /\ ~(video /\ follow /\ (prev = "recording" <=> rolling # "recording"))
  <2>1. prev' = prev \/ (rolling = "recording" /\ prev = "recording" /\ prev' = prev)
        \/ (rolling # "recording" /\ prev # "recording" /\ ~active)
    BY <1>3, <1>8 DEF PollTransport, PrevAfter, HandInv, StartsActive
  <2> QED BY <1>0, <1>6, <1>8, <2>1 DEF Unbegun, HandInv, StartsActive
<1>9. CASE video /\ follow /\ ~paired /\ Unbegun /\ BeginRecording
  <2>1. UNCHANGED <<active, recordPlace, helpers>>
    BY <1>9 DEF BeginRecording
  <2>2. prev' = "recording"
    BY <1>9 DEF PollTransport, PrevAfter, Unbegun
  <2> QED BY <1>6, <2>1, <2>2 DEF Unbegun
<1> QED BY <1>4, <1>5, <1>7, <1>8, <1>9 DEF PollTransport, Unbegun

LEMMA HandNext == Patient => (AgreeInv /\ HandInv /\ [Next]_vars => HandInv')
<1> SUFFICES ASSUME Patient, AgreeInv, HandInv, [Next]_vars PROVE HandInv'
  OBVIOUS
<1>1. CASE UserStep     BY <1>1, UserHands
<1>2. CASE HelperEnds   BY <1>2, HelperHands
<1>3. CASE TimerPoll    BY <1>3, TimerHands
<1>4. CASE RunCallback  BY <1>4, CallbackHands
<1>5. CASE Answer       BY <1>5, AnswerHands
<1>6. CASE \E opens \in BOOLEAN : ProcessPendingInsert(opens)
  BY <1>6, InsertHands
<1>7. CASE \E found, grace \in BOOLEAN : PollTransport(found, grace)
  BY <1>7, PollHands
<1>8. CASE UNCHANGED vars
  <2>1. OneInHand' /\ (Free => Free')
    BY <1>8, HandFrame DEF vars
  <2> QED BY <1>8, <2>1 DEF vars, transport, HandInv, StartsActive, Unbegun
<1> QED BY <1>1, <1>2, <1>3, <1>4, <1>5, <1>6, <1>7, <1>8 DEF Next, UserStep
(***************************************************************************)
(* The messages that wait, in the queue or in a batch.                     *)
(***************************************************************************)
\* Messages as sets of what sequences hold.
LEMMA SetOfAppend ==
  ASSUME NEW S, NEW s \in Seq(S), NEW m \in S
  PROVE  ToSet(Append(s, m)) = ToSet(s) \cup {m}
<1>1. /\ DOMAIN s = 1..Len(s) /\ Len(s) \in Nat
      /\ DOMAIN Append(s, m) = 1..(Len(s) + 1)
      /\ Append(s, m)[Len(s) + 1] = m
      /\ \A k \in 1..Len(s) : Append(s, m)[k] = s[k]
  OBVIOUS
<1>2. 1..(Len(s) + 1) = (1..Len(s)) \cup {Len(s) + 1}
  BY <1>1
<1> QED BY <1>1, <1>2 DEF ToSet

LEMMA SetOfTail ==
  ASSUME NEW S, NEW s \in Seq(S), s # <<>>
  PROVE  /\ ToSet(s) = ToSet(Tail(s)) \cup {Head(s)} /\ Head(s) \in ToSet(s)
<1>1. /\ DOMAIN s = 1..Len(s) /\ Len(s) \in Nat \ {0} /\ Head(s) = s[1]
      /\ DOMAIN Tail(s) = 1..(Len(s) - 1)
      /\ \A k \in 1..(Len(s) - 1) : Tail(s)[k] = s[k + 1]
  OBVIOUS
<1>2. \A k \in 1..Len(s) : k = 1 \/ (k - 1 \in 1..(Len(s) - 1) /\ k = (k - 1) + 1)
  BY <1>1
<1>3. \A k \in 1..(Len(s) - 1) : k + 1 \in 1..Len(s)
  BY <1>1
<1>4. 1 \in 1..Len(s)
  BY <1>1
<1>5. ToSet(s) \subseteq ToSet(Tail(s)) \cup {Head(s)}
  <2> SUFFICES ASSUME NEW k \in 1..Len(s) PROVE s[k] \in ToSet(Tail(s)) \cup {Head(s)}
    BY <1>1 DEF ToSet
  <2>1. CASE k = 1
    BY <1>1, <2>1
  <2>2. CASE k # 1
    <3>1. k - 1 \in 1..(Len(s) - 1) /\ s[k] = Tail(s)[k - 1]
      BY <1>1, <1>2, <2>2
    <3> QED BY <1>1, <3>1 DEF ToSet
  <2> QED BY <2>1, <2>2
<1>6. ToSet(Tail(s)) \cup {Head(s)} \subseteq ToSet(s)
  BY <1>1, <1>3, <1>4 DEF ToSet
<1> QED BY <1>5, <1>6

Held == UNION {ToSet(ticks[i].rest) : i \in 1..Len(ticks)}

LEMMA HeldBatches ==
  ASSUME NEW m
  PROVE  m \in Held <=> \E i \in 1..Len(ticks) : m \in ToSet(ticks[i].rest)
  BY DEF Held

\* A batch begins with the queue; the innermost batch goes on; or it ends.
LEMMA TimerMessages == AgreeInv /\ TimerPoll => Messages' = Messages
<1> SUFFICES ASSUME AgreeInv, TimerPoll PROVE Messages' = Messages
  OBVIOUS
<1> DEFINE t == [ask |-> "none", ids |-> <<>>, rest |-> queue, done |-> FALSE]
<1>1. ticks' = Append(ticks, t) /\ queue' = <<>> /\ t.rest = queue
  BY DEF TimerPoll
<1> HIDE DEF t
<1>2. /\ Len(ticks') = Len(ticks) + 1 /\ Len(ticks) \in Nat
      /\ ticks'[Len(ticks) + 1] = t
      /\ \A i \in 1..Len(ticks) : ticks'[i] = ticks[i]
  BY <1>1 DEF AgreeInv
<1>3. 1..(Len(ticks) + 1) = (1..Len(ticks)) \cup {Len(ticks) + 1}
  BY <1>2
<1>4. ToSet(queue') = {}
  BY <1>1 DEF ToSet
<1>5. \A m : m \in Held' <=> m \in Held \cup ToSet(queue)
  BY <1>1, <1>2, <1>3 DEF Held
<1> QED BY <1>4, <1>5 DEF Messages, Held

LEMMA BatchMessages ==
  ASSUME AgreeInv, ticks # <<>>, NEW t, ticks' = [ticks EXCEPT ![Len(ticks)] = t],
         queue' = queue
  PROVE  /\ t.rest = Top.rest => Messages' = Messages
         /\ Top.rest # <<>> /\ t.rest = Tail(Top.rest) =>
              /\ Head(Top.rest) \in Messages
              /\ Messages' \subseteq Messages /\ Messages \subseteq Messages' \cup {Head(Top.rest)}
<1>1. /\ Len(ticks') = Len(ticks) /\ Len(ticks) \in 1..Len(ticks)
      /\ ticks'[Len(ticks)] = t /\ ticks[Len(ticks)] = Top
      /\ \A i \in (1..Len(ticks)) \ {Len(ticks)} : ticks'[i] = ticks[i]
  BY DEF AgreeInv, Top, Last
<1>2. Top.rest \in Seq(Letters)
  BY <1>1, LettersHeld
<1>3. ASSUME t.rest = Top.rest PROVE Messages' = Messages
  <2>1. \A m : m \in Held' <=> m \in Held
    BY <1>1, <1>3, HeldBatches DEF Held
  <2> QED BY <2>1 DEF Messages, Held
<1>4. ASSUME Top.rest # <<>>, t.rest = Tail(Top.rest)
      PROVE  /\ Head(Top.rest) \in Messages
             /\ Messages' \subseteq Messages
             /\ Messages \subseteq Messages' \cup {Head(Top.rest)}
  <2>1. /\ ToSet(Top.rest) = ToSet(t.rest) \cup {Head(Top.rest)}
        /\ Head(Top.rest) \in ToSet(Top.rest)
    BY <1>2, <1>4, SetOfTail
  <2>2. \A m : m \in Held' => m \in Held
    BY <1>1, <2>1 DEF Held
  <2>3. \A m : m \in Held => m \in Held' \cup {Head(Top.rest)}
    BY <1>1, <2>1 DEF Held
  <2>4. Head(Top.rest) \in Held
    BY <1>1, <2>1 DEF Held
  <2> QED BY <2>2, <2>3, <2>4 DEF Messages, Held
<1> QED BY <1>3, <1>4

LEMMA CallbackMessages ==
  ASSUME AgreeInv, RunCallback
  PROVE  /\ Head(Top.rest) \in Messages /\ Head(Top.rest) \in Letters
         /\ Messages' \subseteq Messages
         /\ Messages \subseteq Messages' \cup {Head(Top.rest)}
<1>1. ticks # <<>> /\ Top.rest # <<>> /\ queue' = queue
  BY DEF RunCallback
<1>2. \E box : SetTop(box, Tail(Top.rest))
  BY DEF RunCallback
<1>3. PICK box : SetTop(box, Tail(Top.rest))
  BY <1>2
<1> DEFINE t == Then(box, Tail(Top.rest))
<1>4. ticks' = [ticks EXCEPT ![Len(ticks)] = t] /\ t.rest = Tail(Top.rest)
  BY <1>1, <1>3, SetTopThen
<1> HIDE DEF t
<1>5. Len(ticks) \in 1..Len(ticks) /\ ticks[Len(ticks)] = Top
  BY <1>1, TopBatch DEF Top, Last
<1>6. Top.rest \in Seq(Letters)
  BY <1>5, LettersHeld
<1>7. Head(Top.rest) \in Letters
  BY <1>1, <1>6
<1> QED BY <1>1, <1>4, <1>7, BatchMessages

LEMMA AnswerMessages == AgreeInv /\ Answer => Messages' = Messages
<1> SUFFICES ASSUME AgreeInv, Answer PROVE Messages' = Messages
  OBVIOUS
<1>1. ticks # <<>> /\ queue' = queue
  BY DEF Answer
<1>2. \E box : SetTop(box, Top.rest)
  BY DEF Answer, AnswerError, AnswerDownload, AnswerRestore, AnswerConfirm, AnswerDeleteAll
<1>3. PICK box : SetTop(box, Top.rest)
  BY <1>2
<1>4. ticks' = [ticks EXCEPT ![Len(ticks)] = Then(box, Top.rest)] /\ Then(box, Top.rest).rest = Top.rest
  BY <1>1, <1>3, SetTopThen
<1> QED BY <1>1, <1>4, BatchMessages

LEMMA InsertMessages ==
  ASSUME AgreeInv, NEW opens \in BOOLEAN, ProcessPendingInsert(opens)
  PROVE  Messages' = Messages
<1> DEFINE t == [Top EXCEPT !.done = TRUE, !.ask = IF opens THEN "none" ELSE "error"]
<1>1. ticks # <<>> /\ queue' = queue
  BY DEF ProcessPendingInsert, Drained
<1>2. Top \in Batches(agreed)
  BY <1>1, TopBatch
<1>3. ticks' = [ticks EXCEPT ![Len(ticks)] = t] /\ t.rest = Top.rest
  BY <1>2 DEF ProcessPendingInsert, Top, Last, Batches
<1> QED BY <1>1, <1>3, BatchMessages

LEMMA PollMessages ==
  ASSUME AgreeInv, NEW found \in BOOLEAN, NEW grace \in BOOLEAN, PollTransport(found, grace)
  PROVE  Messages' = Messages
<1>1. ticks # <<>> /\ Top.rest = <<>> /\ ticks' = Front(ticks) /\ queue' = queue
  BY DEF PollTransport, Drained
<1>2. /\ Len(ticks') = Len(ticks) - 1 /\ Len(ticks) \in Nat \ {0}
      /\ ticks[Len(ticks)] = Top
      /\ \A i \in 1..(Len(ticks) - 1) : ticks'[i] = ticks[i]
  <2>1. ticks \in Seq(Batches(agreed)) /\ Len(ticks) \in Nat \ {0}
    BY <1>1 DEF AgreeInv
  <2>2. ticks' = [i \in 1..(Len(ticks) - 1) |-> ticks[i]]
    BY <1>1, <2>1 DEF Front
  <2> QED BY <2>1, <2>2 DEF Top, Last
<1>3. 1..Len(ticks) = (1..(Len(ticks) - 1)) \cup {Len(ticks)}
  BY <1>2
<1>4. ToSet(Top.rest) = {}
  BY <1>1 DEF ToSet
<1>5. \A m : m \in Held' <=> m \in Held
  BY <1>2, <1>3, <1>4 DEF Held
<1> QED BY <1>1, <1>5 DEF Messages, Held

LEMMA UserMessages == UserStep => Messages' = Messages
  BY DEF UserStep, PressRecord, MoveTransport, SetVideoEnabled, ToggleFollow, Pairing, ListRecordings,
         Messages

LEMMA PostMessages ==
  ASSUME AgreeInv, NEW j \in helpers, NEW ids \in Seq(Passes), NEW ok \in BOOLEAN,
         Post(j, ids, ok), ticks' = ticks
  PROVE  /\ Messages' = Messages \cup {Letter(j, ids, ok)} /\ helpers' = helpers \ {j}
         /\ j \in Jobs /\ Letter(j, ids, ok) \in Letters
         /\ Letter(j, ids, ok).ok = ok /\ Letter(j, ids, ok).job.cmd = j.cmd
         /\ Letter(j, ids, ok).job.for = j.for /\ Letter(j, ids, ok).job.ids = ids
<1>1. j \in Jobs /\ queue \in Seq(Letters)
  BY LettersHeld
<1>2. /\ Letter(j, ids, ok) \in Letters
      /\ Letter(j, ids, ok).ok = ok /\ Letter(j, ids, ok).job.cmd = j.cmd
      /\ Letter(j, ids, ok).job.for = j.for /\ Letter(j, ids, ok).job.ids = ids
  BY <1>1, LetterOfJob
<1>3. queue' = Append(queue, Letter(j, ids, ok)) /\ helpers' = helpers \ {j}
  BY DEF Post, Letter
<1>4. ToSet(queue') = ToSet(queue) \cup {Letter(j, ids, ok)}
  BY <1>1, <1>2, <1>3, SetOfAppend
<1> QED BY <1>1, <1>2, <1>3, <1>4 DEF Messages
(***************************************************************************)
(* Nothing is filmed that the extension does not know of.                  *)
(***************************************************************************)
LEMMA OwnedInit == Init => FilmIsOwned
  BY DEF Init, FilmIsOwned

\* A film stays owned while those who own it stay.
LEMMA OwnedStays ==
  ASSUME FilmIsOwned, filming' # 0 => filming' = filming,
         active => active', told \ {0} \subseteq told',
         \A j \in helpers : j.cmd \in {"start", "stop"} => j \in helpers',
         \A m \in Messages : m.job.cmd = "stop" /\ ~m.ok => m \in Messages'
  PROVE  FilmIsOwned'
  BY DEF FilmIsOwned

LEMMA HelperOwns == AgreeInv /\ HandInv /\ FilmIsOwned /\ HelperEnds => FilmIsOwned'
<1> SUFFICES ASSUME AgreeInv, HandInv, FilmIsOwned, HelperEnds PROVE FilmIsOwned'
  OBVIOUS
<1>0. UNCHANGED <<ticks, active, told>>
  BY DEF HelperEnds
<1>1. PICK j \in helpers, a \in BOOLEAN, b \in BOOLEAN, c \in BOOLEAN :
         \/ j.cmd = "start" /\ StartEnds(j, a, b)
         \/ j.cmd = "stop" /\ StopEnds(j, a, b)
         \/ j.cmd = "download" /\ DownloadEnds(j, a, b, c)
         \/ j.cmd = "delete" /\ DeleteEnds(j, a, b)
         \/ j.cmd \in {"restore", "deleteAll"} /\ ListEnds(j, b)
  BY DEF HelperEnds
<1>2. CASE j.cmd = "start" /\ StartEnds(j, a, b)
  <2>1. active
    BY <1>2 DEF HandInv, StartsActive
  <2> QED BY <1>0, <2>1 DEF FilmIsOwned
<1>3. CASE j.cmd = "stop" /\ StopEnds(j, a, b)
  <2>1. CASE a
    BY <1>3, <2>1 DEF StopEnds, FilmIsOwned
  <2>2. CASE ~a
    <3>1. PICK ids \in Seq(Passes) : Post(j, ids, b)
      <4>1. <<>> \in Seq(Passes) /\ Post(j, <<>>, b)
        BY <1>3, <2>2 DEF StopEnds
      <4> QED BY <4>1
    <3>2. ~b
      BY <1>3, <2>2 DEF StopEnds
    <3> DEFINE m == Letter(j, ids, b)
    <3>3. Messages' = Messages \cup {m} /\ m.job.cmd = j.cmd /\ m.ok = b
      BY <1>0, <3>1, PostMessages
    <3>4. m \in Messages' /\ m.job.cmd = "stop" /\ ~m.ok
      BY <1>3, <3>2, <3>3
    <3> QED BY <3>4 DEF FilmIsOwned
  <2> QED BY <2>1, <2>2
<1>4. CASE j.cmd \notin {"start", "stop"}
  <2>1. PICK k \in helpers, ids \in Seq(Passes), ok \in BOOLEAN :
           helpers' = helpers \ {k} /\ queue' = Append(queue, Letter(k, ids, ok))
    BY HelperPosts
  <2>2. filming' = filming
    BY <1>1, <1>4 DEF DownloadEnds, DeleteEnds, ListEnds
  <2>3. helpers' = helpers \ {j}
    BY <1>1, <1>4 DEF DownloadEnds, DeleteEnds, ListEnds, Post
  <2>4. Messages \subseteq Messages'
    <3>1. Letter(k, ids, ok) \in Letters /\ queue \in Seq(Letters)
      BY LettersHeld, LetterOfJob
    <3>2. ToSet(queue') = ToSet(queue) \cup {Letter(k, ids, ok)}
      BY <2>1, <3>1, SetOfAppend
    <3> QED BY <1>0, <3>2 DEF Messages
  <2> QED BY <1>0, <1>4, <2>2, <2>3, <2>4, OwnedStays
<1> QED BY <1>1, <1>2, <1>3, <1>4

LEMMA OwnedNext == AgreeInv /\ HandInv /\ FilmIsOwned /\ [Next]_vars => FilmIsOwned'
<1> SUFFICES ASSUME AgreeInv, HandInv, FilmIsOwned, [Next]_vars PROVE FilmIsOwned'
  OBVIOUS
<1>1. CASE UserStep
  <2>1. UNCHANGED <<filming, told>>
    BY <1>1 DEF UserStep, PressRecord, MoveTransport, SetVideoEnabled, ToggleFollow, Pairing,
                ListRecordings, phone, history
  <2>2. Messages' = Messages
    BY <1>1, UserMessages
  <2>3. CASE \E on \in BOOLEAN : SetVideoEnabled(on) /\ FinishRecording /\ active
    <3>1. Job("stop", NoFilm, <<>>) \in helpers'
      BY <2>3 DEF FinishRecording
    <3>2. Job("stop", NoFilm, <<>>).cmd = "stop"
      BY DEF Job
    <3> QED BY <3>1, <3>2 DEF FilmIsOwned
  <2>4. CASE ~(\E on \in BOOLEAN : SetVideoEnabled(on) /\ FinishRecording /\ active)
    <3>1. (active => active') /\ helpers \subseteq helpers'
      BY <1>1, <2>4 DEF UserStep, PressRecord, MoveTransport, SetVideoEnabled, ToggleFollow, Pairing,
                        ListRecordings, FinishRecording
    <3> QED BY <2>1, <2>2, <3>1, OwnedStays
  <2> QED BY <2>3, <2>4
<1>2. CASE HelperEnds
  BY <1>2, HelperOwns
<1>3. CASE TimerPoll
  <2>1. UNCHANGED <<filming, told, active, helpers>>
    BY <1>3 DEF TimerPoll, phone, history
  <2> QED BY <1>3, <2>1, TimerMessages, OwnedStays
<1>4. CASE RunCallback
  <2> DEFINE m == Head(Top.rest)
  <2>1. /\ filming' = filming /\ active' = active /\ helpers \subseteq helpers'
        /\ told \ {0} \subseteq told'
    BY <1>4 DEF RunCallback, phone, Launch
  <2>2. m.job.cmd = "stop" /\ ~m.ok /\ filming # 0 => filming \in told'
    BY <1>4 DEF RunCallback, Recovered
  <2>3. Messages \subseteq Messages' \cup {m}
    BY <1>4, CallbackMessages
  <2> HIDE DEF m
  <2> QED BY <2>1, <2>2, <2>3 DEF FilmIsOwned
<1>5. CASE Answer
  <2>1. UNCHANGED <<filming, told, active>> /\ helpers \subseteq helpers'
    BY <1>5 DEF Answer, AnswerError, AnswerDownload, AnswerRestore, AnswerConfirm,
                AnswerDeleteAll, Download, Launch, phone
  <2> QED BY <1>5, <2>1, AnswerMessages, OwnedStays
<1>6. ASSUME NEW opens \in BOOLEAN, ProcessPendingInsert(opens) PROVE FilmIsOwned'
  <2>1. UNCHANGED <<filming, active, helpers>> /\ told \subseteq told'
    BY <1>6 DEF ProcessPendingInsert, phone
  <2> QED BY <1>6, <2>1, InsertMessages, OwnedStays
<1>7. ASSUME NEW found \in BOOLEAN, NEW grace \in BOOLEAN, PollTransport(found, grace)
      PROVE  FilmIsOwned'
  <2>1. UNCHANGED <<filming, told>> /\ Messages' = Messages
    BY <1>7, PollMessages DEF PollTransport, phone, history
  <2>2. CASE FinishRecording /\ active
    <3>1. Job("stop", NoFilm, <<>>) \in helpers' /\ Job("stop", NoFilm, <<>>).cmd = "stop"
      BY <2>2 DEF FinishRecording, Job
    <3> QED BY <3>1 DEF FilmIsOwned
  <2>3. CASE ~(FinishRecording /\ active)
    <3>1. (active => active') /\ helpers \subseteq helpers'
      BY <1>7, <2>3 DEF PollTransport, BeginRecording, FinishRecording, Launch
    <3> QED BY <2>1, <3>1, OwnedStays
  <2> QED BY <2>2, <2>3
<1>8. CASE UNCHANGED vars
  <2>1. UNCHANGED <<filming, told, active, helpers>> /\ Messages' = Messages
    BY <1>8 DEF vars, phone, history, Messages
  <2> QED BY <2>1, OwnedStays
<1> QED BY <1>1, <1>2, <1>3, <1>4, <1>5, <1>6, <1>7, <1>8 DEF Next, UserStep

\* With a user who lets work in hand end, whatever answers are lost and however
\* message boxes nest, the phone never films unknown to the extension: the take is
\* active, its start or stop is under way, or the user was told.
THEOREM FilmOwned == Patient => (Spec => []FilmIsOwned)
<1> SUFFICES ASSUME Patient PROVE Spec => []FilmIsOwned
  OBVIOUS
<1>1. AgreeInv /\ HandInv /\ [Next]_vars => HandInv'
  BY HandNext
<1> QED BY <1>1, AgreeInit, AgreeNext, HandInit, OwnedInit, OwnedNext, PTL DEF Spec
(***************************************************************************)
(* Types.  A film is at one place of its life: its start is under way, it  *)
(* is being shot, kept by the phone, or downloaded; the films of passes    *)
(* not begun are nowhere.                                                  *)
(***************************************************************************)
Begun == IF Unbegun THEN pass - 1 ELSE pass
Starts == {j \in helpers : j.cmd = "start"}
Starting == {j.for.film : j \in Starts}

FlagsTyped ==
  /\ {video, follow, paired, showing, active, ticked} \subseteq BOOLEAN
  /\ steady \in {"no", "followed", "seen"}
  /\ rolling \in {"stopped", "playing", "recording"}
  /\ prev \in {"stopped", "playing", "recording"}
  /\ requests \in 0..MaxRequests
BoxesNest ==
  /\ Len(ticks) <= MaxBoxes + 1
  /\ \A i \in 1..Len(ticks) : i < Len(ticks) => ticks[i].ask # "none"
FilmsTyped ==
  /\ disk \cup fetched \cup told \cup agreed \subseteq Passes
  /\ slot = NoFilm \/ slot.film \in Passes
OneLife ==
  /\ \A j, k \in Starts : j.for.film = k.for.film => j = k
  /\ Starting \cup kept \cup fetched \cup ({filming} \ {0}) \subseteq 1..Begun
  /\ Starting \cap kept = {} /\ Starting \cap fetched = {} /\ filming \notin Starting
  /\ filming \notin kept /\ filming \notin fetched /\ kept \cap fetched = {}
TypeInv == FlagsTyped /\ BoxesNest /\ FilmsTyped /\ OneLife

LEMMA TypeInit == Init => TypeInv
<1> SUFFICES ASSUME Init PROVE TypeInv
  OBVIOUS
<1>1. FlagsTyped
  <2>1. requests \in 0..MaxRequests
    BY WinFollowAssumption DEF Init
  <2>2. /\ video \in BOOLEAN /\ follow \in BOOLEAN /\ paired \in BOOLEAN
        /\ showing \in BOOLEAN /\ active \in BOOLEAN /\ ticked \in BOOLEAN
    BY DEF Init
  <2> QED BY <2>1, <2>2 DEF Init, FlagsTyped
<1>2. BoxesNest
  BY WinFollowAssumption DEF Init, BoxesNest
<1>3. FilmsTyped
  BY DEF Init, FilmsTyped
<1>4. OneLife
  BY DEF Init, OneLife, Starts, Starting
<1> QED BY <1>1, <1>2, <1>3, <1>4 DEF TypeInv

LEMMA FlagsNext == AgreeInv /\ FlagsTyped /\ [Next]_vars => FlagsTyped'
<1> SUFFICES ASSUME AgreeInv, FlagsTyped, [Next]_vars PROVE FlagsTyped'
  OBVIOUS
<1> USE WinFollowAssumption DEF FlagsTyped
<1>1. CASE PressRecord
  BY <1>1 DEF PressRecord
<1>2. CASE \E to \in {"stopped", "playing"} : MoveTransport(to)
  BY <1>2 DEF MoveTransport
<1>0. Request => requests' \in 0..MaxRequests
  BY DEF Request
<1>3. ASSUME NEW on \in BOOLEAN, SetVideoEnabled(on) PROVE FlagsTyped'
  <2>1. requests' \in 0..MaxRequests
    BY <1>0, <1>3 DEF SetVideoEnabled
  <2>2. video' \in BOOLEAN /\ follow' \in BOOLEAN /\ showing' \in BOOLEAN /\ active' \in BOOLEAN
    BY <1>3 DEF SetVideoEnabled, FinishRecording, StopPlaybackAndShowLive
  <2> QED BY <1>3, <2>1, <2>2 DEF SetVideoEnabled
<1>4. CASE ToggleFollow \/ Pairing
  <2>1. requests' \in 0..MaxRequests
    BY <1>0, <1>4 DEF ToggleFollow, Pairing
  <2>2. follow' \in BOOLEAN /\ paired' \in BOOLEAN /\ ticked' \in BOOLEAN
    BY <1>4 DEF ToggleFollow, Pairing
  <2> QED BY <1>4, <2>1, <2>2 DEF ToggleFollow, Pairing, transport
<1>5. CASE \E purpose \in {"restore", "deleteAll"} : ListRecordings(purpose)
  BY <1>5 DEF ListRecordings, Request, transport
<1>6. CASE HelperEnds
  BY <1>6 DEF HelperEnds, transport
<1>7. CASE TimerPoll \/ RunCallback
  BY <1>7 DEF TimerPoll, RunCallback, transport
<1>8. CASE Answer
  BY <1>8 DEF Answer, transport
<1>9. CASE \E opens \in BOOLEAN : ProcessPendingInsert(opens)
  BY <1>9 DEF ProcessPendingInsert, transport
<1>10. ASSUME NEW found \in BOOLEAN, NEW grace \in BOOLEAN, PollTransport(found, grace)
       PROVE  FlagsTyped'
  <2>1. active' \in BOOLEAN
    BY <1>10 DEF PollTransport, BeginRecording, FinishRecording
  <2>2. showing' \in BOOLEAN
    BY <1>10 DEF PollTransport
  <2>3. prev' \in {"stopped", "playing", "recording"}
    BY <1>10 DEF PollTransport, PrevAfter
  <2> QED BY <1>10, <2>1, <2>2, <2>3 DEF PollTransport, transport
<1>11. CASE UNCHANGED vars
  BY <1>11 DEF vars, transport
<1> QED BY <1>1, <1>2, <1>3, <1>4, <1>5, <1>6, <1>7, <1>8, <1>9, <1>10, <1>11 DEF Next

LEMMA BoxesNext == AgreeInv /\ BoxesNest /\ [Next]_vars => BoxesNest'
<1> SUFFICES ASSUME AgreeInv, BoxesNest, [Next]_vars PROVE BoxesNest'
  OBVIOUS
<1>1. CASE UNCHANGED ticks
  BY <1>1 DEF BoxesNest
<1>2. ASSUME ticks # <<>>, NEW t, ticks' = [ticks EXCEPT ![Len(ticks)] = t]
      PROVE  BoxesNest'
  BY <1>2 DEF BoxesNest, AgreeInv
<1>3. CASE TimerPoll
  <2> DEFINE t == [ask |-> "none", ids |-> <<>>, rest |-> queue, done |-> FALSE]
  <2>1. ticks' = Append(ticks, t)
    BY <1>3 DEF TimerPoll
  <2> HIDE DEF t
  <2>2. /\ Len(ticks') = Len(ticks) + 1 /\ Len(ticks) \in Nat
        /\ \A i \in 1..Len(ticks) : ticks'[i] = ticks[i]
    BY <2>1 DEF AgreeInv
  <2>3. Len(ticks) < MaxBoxes /\ (ticks # <<>> => ticks[Len(ticks)].ask # "none")
    BY <1>3 DEF TimerPoll, AtRest, Top, Last
  <2>4. ASSUME NEW i \in 1..Len(ticks') , i < Len(ticks') PROVE ticks'[i].ask # "none"
    <3>1. i \in 1..Len(ticks) /\ ticks'[i] = ticks[i] /\ ticks # <<>>
      BY <2>2, <2>4
    <3> QED BY <2>2, <2>3, <3>1 DEF BoxesNest
  <2> QED BY <2>2, <2>3, <2>4, WinFollowAssumption DEF BoxesNest
<1>4. CASE RunCallback
  <2>1. PICK box : SetTop(box, Tail(Top.rest))
    BY <1>4 DEF RunCallback
  <2> QED BY <1>2, <1>4, <2>1 DEF SetTop, RunCallback
<1>5. CASE Answer
  <2>1. PICK box : SetTop(box, Top.rest)
    BY <1>5 DEF Answer, AnswerError, AnswerDownload, AnswerRestore, AnswerConfirm,
                AnswerDeleteAll
  <2> QED BY <1>2, <1>5, <2>1 DEF SetTop, Answer
<1>6. CASE \E opens \in BOOLEAN : ProcessPendingInsert(opens)
  BY <1>2, <1>6 DEF ProcessPendingInsert, Drained
<1>7. CASE \E found, grace \in BOOLEAN : PollTransport(found, grace)
  <2>1. ticks # <<>> /\ ticks' = Front(ticks) /\ ticks \in Seq(Batches(agreed))
    BY <1>7 DEF PollTransport, Drained, AgreeInv
  <2>2. /\ Len(ticks') = Len(ticks) - 1 /\ Len(ticks) \in Nat \ {0}
        /\ \A i \in 1..(Len(ticks) - 1) : ticks'[i] = ticks[i]
    <3>1. Len(ticks) \in Nat \ {0} /\ ticks' = [i \in 1..(Len(ticks) - 1) |-> ticks[i]]
      BY <2>1 DEF Front
    <3> QED BY <3>1
  <2> QED BY <2>2, WinFollowAssumption DEF BoxesNest
<1> QED BY <1>1, <1>3, <1>4, <1>5, <1>6, <1>7
        DEF Next, PressRecord, MoveTransport, SetVideoEnabled, ToggleFollow, Pairing, ListRecordings,
            HelperEnds, vars

LEMMA FilmsNext == AgreeInv /\ FilmsTyped /\ [Next]_vars => FilmsTyped'
<1> SUFFICES ASSUME AgreeInv, FilmsTyped, [Next]_vars PROVE FilmsTyped'
  OBVIOUS
<1>1. CASE UNCHANGED <<disk, fetched, told, agreed, slot>>
  BY <1>1 DEF FilmsTyped
<1>2. CASE HelperEnds
  <2>1. PICK j \in helpers, a \in BOOLEAN, b \in BOOLEAN, c \in BOOLEAN :
           \/ StartEnds(j, a, b) \/ StopEnds(j, a, b)
           \/ j.cmd = "download" /\ DownloadEnds(j, a, b, c)
           \/ DeleteEnds(j, a, b) \/ ListEnds(j, b)
    BY <1>2 DEF HelperEnds
  <2>2. j.cmd = "download" => j.for.film \in Passes
    BY LettersHeld DEF Jobs
  <2>3. disk' \cup fetched' \subseteq Passes
    BY <2>1, <2>2 DEF StartEnds, StopEnds, DownloadEnds, DeleteEnds, ListEnds, FilmsTyped
  <2> QED BY <1>2, <2>3 DEF HelperEnds, FilmsTyped
<1>3. CASE RunCallback
  <2> DEFINE m == Head(Top.rest)
  <2>1. m.job \in Jobs
    BY <1>3, CallbackMessages DEF Letters
  <2>2. slot' = slot \/ (m.job.cmd = "download" /\ slot' = m.job.for)
    BY <1>3 DEF RunCallback, SlotAfter
  <2>3. m.job.cmd = "download" => m.job.for.film \in Passes
    BY <2>1 DEF Jobs
  <2>4. told' = told \/ told' = (told \cup {filming}) \ {0}
    BY <1>3 DEF RunCallback
  <2>5. filming \in Passes \cup {0}
    BY WinFollowAssumption DEF AgreeInv, Films, Passes
  <2> HIDE DEF m
  <2> QED BY <1>3, <2>2, <2>3, <2>4, <2>5 DEF RunCallback, phone, FilmsTyped
<1>4. CASE Answer
  <2>1. agreed' \subseteq Passes
    <3>1. ticks # <<>> /\ Top.ids \in Seq(Passes)
      BY <1>4, TopBatch DEF Answer
    <3>2. ToSet(Top.ids) \subseteq Passes
      BY <3>1 DEF ToSet
    <3>3. Top.ask \in Questions => Head(Top.ids) \in Passes
      BY <3>1, TopBatch
    <3> QED BY <1>4, <3>2, <3>3 DEF Answer, AnswerError, AnswerDownload, AnswerRestore,
            AnswerConfirm, AnswerDeleteAll, FilmsTyped, Questions
  <2> QED BY <1>4, <2>1 DEF Answer, phone, FilmsTyped
<1>5. ASSUME NEW opens \in BOOLEAN, ProcessPendingInsert(opens) PROVE FilmsTyped'
  BY <1>5 DEF ProcessPendingInsert, phone, FilmsTyped
<1> QED BY <1>1, <1>2, <1>3, <1>4, <1>5
        DEF Next, PressRecord, MoveTransport, SetVideoEnabled, ToggleFollow, Pairing, ListRecordings,
            TimerPoll, PollTransport, vars, phone, history
\* Passes are begun one after the other.
LEMMA BegunGrows ==
  AgreeInv /\ [Next]_vars => Begun \in Int /\ Begun' \in Int /\ pass \in Nat /\ Begun <= Begun'
<1> SUFFICES ASSUME AgreeInv, [Next]_vars
             PROVE  Begun \in Int /\ Begun' \in Int /\ pass \in Nat /\ Begun <= Begun'
  OBVIOUS
<1>1. pass \in Nat /\ pass' \in Nat
  BY AgreeNext, WinFollowAssumption DEF AgreeInv, Films
<1>2. CASE PressRecord
  BY <1>1, <1>2 DEF PressRecord, Begun, Unbegun
<1>3. CASE pass' = pass /\ (Unbegun' => Unbegun)
  BY <1>1, <1>3 DEF Begun
<1>4. ASSUME NEW found \in BOOLEAN, NEW grace \in BOOLEAN, PollTransport(found, grace)
      PROVE  pass' = pass /\ (Unbegun' => Unbegun)
  BY <1>4 DEF PollTransport, PrevAfter, Unbegun, transport
<1>5. CASE UNCHANGED <<pass, rolling, prev>>
  BY <1>3, <1>5 DEF Unbegun
<1>6. CASE \E to \in {"stopped", "playing"} : MoveTransport(to)
  BY <1>3, <1>6 DEF MoveTransport, Unbegun
<1>7. PressRecord \/ (\E to \in {"stopped", "playing"} : MoveTransport(to))
      \/ (\E found, grace \in BOOLEAN : PollTransport(found, grace))
      \/ UNCHANGED <<pass, rolling, prev>>
  BY DEF Next, SetVideoEnabled, ToggleFollow, Pairing, ListRecordings, HelperEnds, TimerPoll,
         RunCallback, Answer, ProcessPendingInsert, vars, transport
<1> QED BY <1>2, <1>3, <1>4, <1>5, <1>6, <1>7

\* The films a helper that ends no longer starts.
LEMMA StartsEnd ==
  ASSUME OneLife, NEW j \in helpers, helpers' = helpers \ {j}
  PROVE  /\ Starts' \subseteq Starts /\ Starting' \subseteq Starting
         /\ j.cmd = "start" => j.for.film \notin Starting' /\ j.for.film \in Starting
<1>1. Starts' \subseteq Starts /\ j \notin Starts'
  BY DEF Starts
<1>2. Starting' \subseteq Starting
  BY <1>1 DEF Starting
<1>3. ASSUME j.cmd = "start" PROVE j.for.film \notin Starting' /\ j.for.film \in Starting
  <2>1. j \in Starts
    BY <1>3 DEF Starts
  <2> QED BY <1>1, <2>1 DEF OneLife, Starting
<1> QED BY <1>1, <1>2, <1>3

LEMMA LifeNext == AgreeInv /\ OneLife /\ [Next]_vars => OneLife'
<1> SUFFICES ASSUME AgreeInv, OneLife, [Next]_vars PROVE OneLife'
  OBVIOUS
<1>0. Begun \in Int /\ Begun' \in Int /\ pass \in Nat /\ Begun <= Begun'
  BY BegunGrows
<1>1. 1..Begun \subseteq 1..Begun'
  BY <1>0
<1>2. ASSUME Starts' = Starts, UNCHANGED <<kept, fetched, filming>> PROVE OneLife'
  <2>1. Starting' = Starting
    BY <1>2 DEF Starting
  <2> QED BY <1>1, <1>2, <2>1 DEF OneLife
<1>3. ASSUME NEW more, helpers' = helpers \cup more, \A j \in more : j.cmd # "start"
      PROVE  Starts' = Starts
  BY <1>3 DEF Starts
<1>4. CASE UserStep
  <2>1. UNCHANGED <<kept, fetched, filming>>
    BY <1>4 DEF UserStep, PressRecord, MoveTransport, SetVideoEnabled, ToggleFollow, Pairing,
                ListRecordings, phone, history
  <2>2. CASE \E on \in BOOLEAN : SetVideoEnabled(on)
    <3>1. \A j \in {Job("stop", NoFilm, <<>>)} : j.cmd # "start"
      BY DEF Job
    <3>2. helpers' = helpers \/ helpers' = helpers \cup {Job("stop", NoFilm, <<>>)}
      BY <2>2 DEF SetVideoEnabled, FinishRecording
    <3>3. Starts' = Starts
      BY <1>3, <3>1, <3>2 DEF Starts
    <3> QED BY <1>2, <2>1, <3>3
  <2>3. ASSUME NEW purpose \in {"restore", "deleteAll"}, ListRecordings(purpose)
        PROVE  OneLife'
    <3> DEFINE j == Job(purpose, NoFilm, <<>>)
    <3>1. j.cmd # "start" /\ helpers' = helpers \cup {j}
      BY <2>3 DEF ListRecordings, Job
    <3> HIDE DEF j
    <3>2. Starts' = Starts
      BY <3>1 DEF Starts
    <3> QED BY <1>2, <2>1, <3>2
  <2>4. CASE UNCHANGED helpers
    BY <1>2, <2>1, <2>4 DEF Starts
  <2> QED BY <1>4, <2>2, <2>3, <2>4 DEF UserStep, PressRecord, MoveTransport, ToggleFollow, Pairing
<1>5. CASE HelperEnds
  <2>1. PICK j \in helpers, a \in BOOLEAN, b \in BOOLEAN, c \in BOOLEAN :
           \/ j.cmd = "start" /\ StartEnds(j, a, b)
           \/ StopEnds(j, a, b) \/ DownloadEnds(j, a, b, c)
           \/ DeleteEnds(j, a, b) \/ ListEnds(j, b)
    BY <1>5 DEF HelperEnds
  <2>2. helpers' = helpers \ {j}
    BY <2>1 DEF StartEnds, StopEnds, DownloadEnds, DeleteEnds, ListEnds, Post
  <2>3. /\ Starts' \subseteq Starts /\ Starting' \subseteq Starting
        /\ j.cmd = "start" => j.for.film \notin Starting' /\ j.for.film \in Starting
    BY <2>2, StartsEnd
  <2>4. \A k, l \in Starts' : k.for.film = l.for.film => k = l
    BY <2>3 DEF OneLife
  <2>5. CASE j.cmd = "start" /\ StartEnds(j, a, b)
    BY <1>1, <2>3, <2>4, <2>5 DEF StartEnds, OneLife
  <2>6. CASE StopEnds(j, a, b)
    <3>1. UNCHANGED fetched /\ kept' \subseteq kept \cup ({filming} \ {0})
          /\ (filming' = 0 \/ (filming' = filming /\ kept' = kept))
      BY <2>6 DEF StopEnds
    <3>2. 0 \notin 1..Begun /\ 0 \notin 1..Begun'
      BY <1>0
    <3> QED BY <1>1, <2>3, <2>4, <3>1, <3>2 DEF OneLife
  <2>7. CASE DownloadEnds(j, a, b, c)
    <3>1. UNCHANGED filming
          /\ \/ kept' = kept /\ fetched' = fetched
             \/ /\ j.for.film \in kept /\ kept' = kept \ {j.for.film}
                /\ fetched' = fetched \cup {j.for.film}
      BY <2>7 DEF DownloadEnds
    <3> QED BY <1>1, <2>3, <2>4, <3>1 DEF OneLife
  <2>8. CASE DeleteEnds(j, a, b) \/ ListEnds(j, b)
    <3>1. UNCHANGED <<filming, fetched>> /\ kept' \subseteq kept
      BY <2>8 DEF DeleteEnds, ListEnds
    <3> QED BY <1>1, <2>3, <2>4, <3>1 DEF OneLife
  <2> QED BY <2>1, <2>5, <2>6, <2>7, <2>8
<1>6. CASE TimerPoll \/ (\E opens \in BOOLEAN : ProcessPendingInsert(opens))
  BY <1>2, <1>6 DEF TimerPoll, ProcessPendingInsert, phone, history, Starts
<1>7. CASE RunCallback
  <2>1. UNCHANGED <<kept, fetched, filming>>
        /\ \E ids : helpers' = helpers \cup DeleteSequentially(ids) \/ helpers' = helpers
    BY <1>7 DEF RunCallback, Launch, phone
  <2>2. Starts' = Starts
    <3>1. PICK ids : helpers' = helpers \cup DeleteSequentially(ids) \/ helpers' = helpers
      BY <2>1
    <3>2. \A j \in DeleteSequentially(ids) : j.cmd # "start"
      BY OneDelete
    <3> QED BY <1>3, <3>1, <3>2 DEF Starts
  <2> QED BY <1>2, <2>1, <2>2
<1>8. CASE Answer
  <2>1. UNCHANGED <<kept, fetched, filming>>
    BY <1>8 DEF Answer, phone
  <2>2. \/ helpers' = helpers
        \/ \E ids : Launch(DeleteSequentially(ids))
        \/ \E f, r : Download(f, r)
    BY <1>8 DEF Answer, AnswerError, AnswerDownload, AnswerRestore, AnswerConfirm, AnswerDeleteAll
  <2>3. ASSUME NEW ids, Launch(DeleteSequentially(ids)) PROVE Starts' = Starts
    <3>1. \A j \in DeleteSequentially(ids) : j.cmd # "start"
      BY OneDelete
    <3> QED BY <1>3, <2>3, <3>1 DEF Launch
  <2>4. ASSUME NEW f, NEW r, Download(f, r) PROVE Starts' = Starts
    <3> DEFINE j == Job("download", Film(f, IF r THEN Cursor ELSE recordPlace, r), <<>>)
    <3>1. helpers' = helpers \cup {j} /\ j.cmd = "download"
      BY <2>4 DEF Download, Launch, Job
    <3> HIDE DEF j
    <3> QED BY <3>1 DEF Starts
  <2>5. Starts' = Starts
    BY <2>2, <2>3, <2>4 DEF Starts
  <2> QED BY <1>2, <2>1, <2>5
<1>9. ASSUME NEW found \in BOOLEAN, NEW grace \in BOOLEAN, PollTransport(found, grace)
      PROVE  OneLife'
  <2>1. UNCHANGED <<kept, fetched, filming, pass, rolling>>
    BY <1>9 DEF PollTransport, phone, history, transport
  <2>2. CASE video /\ follow /\ paired /\ Unbegun /\ BeginRecording /\ ~active
    <3> DEFINE j == Job("start", Film(pass, Cursor, FALSE), <<>>)
    <3>1. helpers' = helpers \cup {j} /\ j.cmd = "start" /\ j.for.film = pass
      BY <2>2 DEF BeginRecording, Launch, Job, Film
    <3> HIDE DEF j
    <3>2. Starts' = Starts \cup {j}
      BY <3>1 DEF Starts
    <3>3. Starting' = Starting \cup {pass}
      BY <3>1, <3>2 DEF Starting
    <3>4. prev' = "recording"
      BY <1>9, <2>2 DEF PollTransport, PrevAfter, Unbegun
    <3>5. Begun = pass - 1 /\ Begun' = pass
      BY <2>1, <2>2, <3>4 DEF Begun, Unbegun
    <3>6. pass \in Passes
      BY <2>2 DEF AgreeInv, Unbegun
    <3>7. pass \notin 1..Begun /\ pass \in 1..Begun' /\ pass # 0
      BY <1>0, <3>5, <3>6 DEF Passes
    <3>8. pass \notin Starting /\ pass \notin kept /\ pass \notin fetched /\ pass # filming
      BY <3>7 DEF OneLife
    <3>9. \A k \in Starts : k.for.film # pass
      BY <3>8 DEF Starting
    <3>10. \A k, l \in Starts' : k.for.film = l.for.film => k = l
      BY <3>1, <3>2, <3>9 DEF OneLife
    <3> QED BY <1>1, <2>1, <3>3, <3>7, <3>8, <3>10 DEF OneLife
  <2>3. CASE FinishRecording
    <3>1. \A j \in {Job("stop", NoFilm, <<>>)} : j.cmd # "start"
      BY DEF Job
    <3>2. helpers' = helpers \/ helpers' = helpers \cup {Job("stop", NoFilm, <<>>)}
      BY <2>3 DEF FinishRecording
    <3>3. Starts' = Starts
      BY <1>3, <3>1, <3>2 DEF Starts
    <3> QED BY <1>2, <2>1, <3>3
  <2>4. CASE UNCHANGED helpers
    BY <1>2, <2>1, <2>4 DEF Starts
  <2> QED BY <1>9, <2>2, <2>3, <2>4 DEF PollTransport, BeginRecording, Unbegun
<1>10. CASE UNCHANGED vars
  BY <1>2, <1>10 DEF vars, phone, history, Starts
<1> QED BY <1>4, <1>5, <1>6, <1>7, <1>8, <1>9, <1>10 DEF Next, UserStep

LEMMA TypeNext == AgreeInv /\ TypeInv /\ [Next]_vars => TypeInv'
  BY FlagsNext, BoxesNext, FilmsNext, LifeNext DEF TypeInv

LEMMA Typed == AgreeInv /\ TypeInv => TypeOK
<1> SUFFICES ASSUME AgreeInv, TypeInv PROVE TypeOK
  OBVIOUS
<1>1. {pass, recordPlace, filming} \subseteq 0..MaxPasses /\ kept \subseteq Passes
  BY DEF AgreeInv, Films
<1>2. \A j \in helpers :
         j.cmd \in {"start", "stop", "download", "delete", "restore", "deleteAll"}
  BY LettersHeld DEF Jobs
<1> QED BY <1>1, <1>2 DEF TypeOK, TypeInv, FlagsTyped, BoxesNest, FilmsTyped, OneLife

\* Any user, any interleaving: a film is the phone's or downloaded, not both, none is
\* shot and kept at once, batches behind the innermost wait in a message box, and the
\* helpers run known commands.
THEOREM WinFollowTypes == Spec => []TypeOK
<1> QED BY AgreeInit, AgreeNext, TypeInit, TypeNext, Typed, PTL DEF Spec
(***************************************************************************)
(* The place of an item.  The record globals are read for a take when the  *)
(* question about it is answered; by then a later pass may have set them,  *)
(* but none that has not begun, and never an earlier one.                  *)
(***************************************************************************)
Current(f) == f \in 0..recordPlace
Placed(f) == IF f.restored THEN f.place = Cursor ELSE f.place \in f.film..pass

RecordPlaced == recordPlace <= pass
LettersPlaced ==
  \A m \in Messages :
    /\ m.job.cmd = "stop" /\ m.ok => Current(Head(m.job.ids))
    /\ m.job.cmd = "download" => Placed(m.job.for)
AsksPlaced == \A i \in 1..Len(ticks) : ticks[i].ask = "download" => Current(Head(ticks[i].ids))
JobsPlaced ==
  \A j \in helpers :
    (j.cmd = "start" => Current(j.for.film)) /\ (j.cmd = "download" => Placed(j.for))
SlotPlaced == slot # NoFilm => Placed(slot)
PlaceInv ==
  /\ RecordPlaced /\ Current(filming)
  /\ LettersPlaced /\ AsksPlaced /\ JobsPlaced /\ SlotPlaced /\ InsertedWhereRecorded

\* Passes and the record globals only move on.
Onward ==
  /\ pass \in Int /\ pass' \in Int /\ recordPlace \in Int /\ recordPlace' \in Int
  /\ pass <= pass' /\ recordPlace <= recordPlace'

LEMMA PlaceInit == Init => PlaceInv
<1> SUFFICES ASSUME Init PROVE PlaceInv
  OBVIOUS
<1>1. Len(ticks) = 0 /\ 1..Len(ticks) = {} /\ ToSet(queue) = {} /\ filming = 0
      /\ helpers = {} /\ slot = NoFilm /\ inserted = {} /\ pass = 0 /\ recordPlace = 0
  BY DEF Init, ToSet
<1>2. Messages = {}
  BY <1>1 DEF Messages
<1> QED BY <1>1, <1>2 DEF PlaceInv, RecordPlaced, Current, LettersPlaced, AsksPlaced,
           JobsPlaced, SlotPlaced, InsertedWhereRecorded

LEMMA PlacesGrow == AgreeInv /\ RecordPlaced /\ [Next]_vars => Onward /\ RecordPlaced'
<1> SUFFICES ASSUME AgreeInv, RecordPlaced, [Next]_vars PROVE Onward /\ RecordPlaced'
  OBVIOUS
<1>1. pass \in Int /\ pass' \in Int /\ recordPlace \in Int /\ recordPlace' \in Int
  BY AgreeNext, WinFollowAssumption DEF AgreeInv, Films
<1>2. CASE PressRecord
  BY <1>1, <1>2 DEF PressRecord, Onward, RecordPlaced
<1>3. CASE \E found, grace \in BOOLEAN : PollTransport(found, grace)
  <2>1. pass' = pass /\ recordPlace' \in {recordPlace, pass}
    BY <1>3 DEF PollTransport, BeginRecording, FinishRecording, transport
  <2> QED BY <1>1, <2>1 DEF Onward, RecordPlaced
<1>4. CASE UNCHANGED <<pass, recordPlace>>
  BY <1>1, <1>4 DEF Onward, RecordPlaced
<1>5. PressRecord \/ (\E found, grace \in BOOLEAN : PollTransport(found, grace))
      \/ UNCHANGED <<pass, recordPlace>>
  BY DEF Next, MoveTransport, SetVideoEnabled, ToggleFollow, Pairing, ListRecordings,
         HelperEnds, TimerPoll, RunCallback, Answer, ProcessPendingInsert, vars, transport
<1> QED BY <1>2, <1>3, <1>4, <1>5

\* What was placed stays so.
LEMMA PlaceStays ==
  ASSUME Onward
  PROVE  /\ \A f : Current(f) => Current(f)'
         /\ \A f : Placed(f) => Placed(f)'
<1>1. \A f : Current(f) => Current(f)'
  BY DEF Onward, Current
<1>2. ASSUME NEW f, Placed(f) PROVE Placed(f)'
  BY <1>2 DEF Onward, Placed
<1> QED BY <1>1, <1>2

LEMMA InsertedPlaced == InsertedWhereRecorded <=> \A item \in inserted : Placed(item)
  BY DEF InsertedWhereRecorded, Placed

\* What moves nothing but what is named.
LEMMA PlaceFrame ==
  ASSUME PlaceInv, Onward
  PROVE  /\ filming' = filming => Current(filming)'
         /\ inserted' = inserted => InsertedWhereRecorded'
         /\ Messages' \subseteq Messages => LettersPlaced'
         /\ (\A j \in helpers' \ helpers : j.cmd \notin {"start", "download"}) => JobsPlaced'
         /\ slot' = slot => SlotPlaced'
         /\ ticks' = ticks => AsksPlaced'
<1>1. (\A f : Current(f) => Current(f)') /\ (\A f : Placed(f) => Placed(f)')
  BY PlaceStays
<1>2. filming' = filming => Current(filming)'
  BY <1>1 DEF PlaceInv, Current
<1>3. inserted' = inserted => InsertedWhereRecorded'
  BY <1>1 DEF PlaceInv, InsertedWhereRecorded, Placed
<1>4. Messages' \subseteq Messages => LettersPlaced'
  BY <1>1 DEF PlaceInv, LettersPlaced
<1>5. (\A j \in helpers' \ helpers : j.cmd \notin {"start", "download"}) => JobsPlaced'
  BY <1>1 DEF PlaceInv, JobsPlaced
<1>6. slot' = slot => SlotPlaced'
  BY <1>1 DEF PlaceInv, SlotPlaced
<1>7. ticks' = ticks => AsksPlaced'
  BY <1>1 DEF PlaceInv, AsksPlaced
<1> QED BY <1>2, <1>3, <1>4, <1>5, <1>6, <1>7

\* The rest of the invariant, which each kind of step keeps.
Places == PlaceInv /\ Onward /\ RecordPlaced'

LEMMA UserPlaces == Places /\ UserStep => PlaceInv'
<1> SUFFICES ASSUME Places, UserStep PROVE PlaceInv'
  OBVIOUS
<1>1. UNCHANGED <<filming, inserted, slot, ticks>>
  BY DEF UserStep, PressRecord, MoveTransport, SetVideoEnabled, ToggleFollow, Pairing,
         ListRecordings, phone
<1>2. \A j \in helpers' \ helpers : j.cmd \notin {"start", "download"}
  BY DEF UserStep, PressRecord, MoveTransport, SetVideoEnabled, ToggleFollow, Pairing,
         ListRecordings, FinishRecording, Job
<1> QED BY <1>1, <1>2, UserMessages, PlaceFrame DEF PlaceInv, Places

LEMMA HelperPlaces == AgreeInv /\ Places /\ HelperEnds => PlaceInv'
<1> SUFFICES ASSUME AgreeInv, Places, HelperEnds PROVE PlaceInv'
  OBVIOUS
<1>0. UNCHANGED <<ticks, inserted, slot>>
  BY DEF HelperEnds
<1>1. PICK j \in helpers, a \in BOOLEAN, b \in BOOLEAN, c \in BOOLEAN :
         \/ j.cmd = "start" /\ StartEnds(j, a, b)
         \/ j.cmd = "stop" /\ StopEnds(j, a, b)
         \/ j.cmd = "download" /\ DownloadEnds(j, a, b, c)
         \/ j.cmd = "delete" /\ DeleteEnds(j, a, b)
         \/ j.cmd \in {"restore", "deleteAll"} /\ ListEnds(j, b)
  BY DEF HelperEnds
<1>2. helpers' = helpers \ {j}
  BY <1>1 DEF StartEnds, StopEnds, DownloadEnds, DeleteEnds, ListEnds, Post
<1>3. JobsPlaced' /\ SlotPlaced' /\ AsksPlaced' /\ InsertedWhereRecorded'
  BY <1>0, <1>2, PlaceFrame DEF Places
<1>4. Current(filming)'
  <2>1. CASE j.cmd = "start" /\ StartEnds(j, a, b)
    <3>1. filming' \in {filming, j.for.film} /\ Current(j.for.film) /\ Current(filming)
      BY <2>1 DEF StartEnds, Places, PlaceInv, JobsPlaced
    <3> QED BY <3>1 DEF Places, Onward, Current
  <2>2. CASE filming' \in {filming, 0}
    BY <2>2 DEF Places, PlaceInv, Onward, Current
  <2> QED BY <1>1, <2>1, <2>2 DEF StopEnds, DownloadEnds, DeleteEnds, ListEnds
<1>5. \E ids \in Seq(Passes), ok \in BOOLEAN :
         /\ Post(j, ids, ok)
         /\ j.cmd = "stop" /\ ok => Head(ids) = filming
  <2>1. CASE j.cmd = "start" /\ StartEnds(j, a, b)
    <3>1. <<>> \in Seq(Passes) /\ Post(j, <<>>, b)
      BY <2>1 DEF StartEnds
    <3> QED BY <2>1, <3>1
  <2>2. CASE j.cmd = "stop" /\ StopEnds(j, a, b)
    <3>1. CASE b
      <4>1. filming # 0 /\ Post(j, <<filming>>, b)
        BY <2>2, <3>1 DEF StopEnds
      <4>2. filming \in Passes
        BY <4>1, WinFollowAssumption DEF AgreeInv, Films, Passes
      <4>3. <<filming>> \in Seq(Passes) /\ Head(<<filming>>) = filming
        BY <4>2
      <4> QED BY <4>1, <4>3
    <3>2. CASE ~b
      <4>1. <<>> \in Seq(Passes) /\ Post(j, <<>>, b)
        BY <2>2, <3>2 DEF StopEnds
      <4> QED BY <3>2, <4>1
    <3> QED BY <3>1, <3>2
  <2>3. CASE j.cmd \notin {"start", "stop"}
    <3>2. j.ids \in Seq(Passes) /\ SetToSeq(kept) \in Seq(Passes) /\ <<>> \in Seq(Passes)
      BY LettersHeld, ListOfFilms DEF Jobs, AgreeInv
    <3> QED BY <1>1, <2>3, <3>2 DEF DownloadEnds, DeleteEnds, ListEnds
  <2> QED BY <1>1, <2>1, <2>2, <2>3
<1>6. LettersPlaced'
  <2>1. PICK ids \in Seq(Passes), ok \in BOOLEAN :
           /\ Post(j, ids, ok)
           /\ j.cmd = "stop" /\ ok => Head(ids) = filming
    BY <1>5
  <2> DEFINE m == Letter(j, ids, ok)
  <2>2. /\ Messages' = Messages \cup {m} /\ m.ok = ok /\ m.job.cmd = j.cmd
        /\ m.job.for = j.for /\ m.job.ids = ids
    BY <1>0, <2>1, PostMessages
  <2> HIDE DEF m
  <2>3. m.job.cmd = "stop" /\ m.ok => Current(Head(m.job.ids))
    BY <2>1, <2>2 DEF Places, PlaceInv
  <2>4. m.job.cmd = "download" => Placed(m.job.for)
    BY <2>2 DEF Places, PlaceInv, JobsPlaced
  <2>5. (\A f : Current(f) => Current(f)') /\ (\A f : Placed(f) => Placed(f)')
    BY PlaceStays DEF Places
  <2> QED BY <2>2, <2>3, <2>4, <2>5 DEF Places, PlaceInv, LettersPlaced
<1> QED BY <1>3, <1>4, <1>6 DEF PlaceInv, Places

\* A batch begins without a question, goes on with one, or ends.
LEMMA BatchPlaces ==
  ASSUME AgreeInv, AsksPlaced, Onward,
         ticks # <<>>, NEW t, ticks' = [ticks EXCEPT ![Len(ticks)] = t],
         t.ask = "download" => Current(Head(t.ids))
  PROVE  AsksPlaced'
<1>1. \A f : Current(f) => Current(f)'
  BY PlaceStays
<1>2. /\ Len(ticks') = Len(ticks) /\ Len(ticks) \in 1..Len(ticks)
      /\ ticks'[Len(ticks)] = t
      /\ \A i \in (1..Len(ticks)) \ {Len(ticks)} : ticks'[i] = ticks[i]
  BY DEF AgreeInv
<1> QED BY <1>1, <1>2 DEF AsksPlaced

LEMMA TimerPlaces == AgreeInv /\ Places /\ TimerPoll => PlaceInv'
<1> SUFFICES ASSUME AgreeInv, Places, TimerPoll PROVE PlaceInv'
  OBVIOUS
<1> DEFINE t == [ask |-> "none", ids |-> <<>>, rest |-> queue, done |-> FALSE]
<1>1. UNCHANGED <<filming, inserted, slot, helpers>>
  BY DEF TimerPoll, phone
<1>2. ticks' = Append(ticks, t) /\ t.ask = "none"
  BY DEF TimerPoll
<1> HIDE DEF t
<1>3. AsksPlaced'
  <2>1. /\ Len(ticks') = Len(ticks) + 1 /\ Len(ticks) \in Nat
        /\ ticks'[Len(ticks) + 1] = t
        /\ \A i \in 1..Len(ticks) : ticks'[i] = ticks[i]
    BY <1>2 DEF AgreeInv
  <2>2. 1..(Len(ticks) + 1) = (1..Len(ticks)) \cup {Len(ticks) + 1}
    BY <2>1
  <2>3. \A f : Current(f) => Current(f)'
    BY PlaceStays DEF Places
  <2> QED BY <1>2, <2>1, <2>2, <2>3 DEF Places, PlaceInv, AsksPlaced
<1> QED BY <1>1, <1>3, TimerMessages, PlaceFrame DEF PlaceInv, Places

LEMMA CallbackPlaces == AgreeInv /\ Places /\ RunCallback => PlaceInv'
<1> SUFFICES ASSUME AgreeInv, Places, RunCallback PROVE PlaceInv'
  OBVIOUS
<1> DEFINE m == Head(Top.rest)
           good == m.ok \/ Recovered(m.job)
           box == CASE ~good -> Ask("error", <<>>)
                    [] good /\ m.job.cmd = "stop" -> Ask("download", m.job.ids)
                    [] good /\ m.job.cmd \in {"restore", "deleteAll"} ->
                         IF m.job.ids = <<>> THEN Ask("error", <<>>)
                         ELSE Ask(m.job.cmd, m.job.ids)
                    [] OTHER -> Proceed
           more == IF good /\ m.job.cmd = "delete" THEN DeleteSequentially(m.job.ids) ELSE {}
<1>1. /\ ticks # <<>> /\ SetTop(box, Tail(Top.rest)) /\ helpers' = helpers \cup more
      /\ slot' = SlotAfter(m.job, good)
      /\ UNCHANGED <<filming, inserted>>
  BY DEF RunCallback, Launch, phone
<1>3. m \in Messages /\ Messages' \subseteq Messages
  BY CallbackMessages
<1>4. box.ask = "download" => Current(Head(box.ids))
  <2>1. CASE ~good
    BY <2>1 DEF Ask
  <2>2. CASE good /\ m.job.cmd = "stop"
    <3>1. m.ok /\ box = Ask("download", m.job.ids)
      BY <2>2 DEF Recovered
    <3>2. Current(Head(m.job.ids))
      BY <1>3, <2>2, <3>1 DEF Places, PlaceInv, LettersPlaced
    <3> QED BY <3>1, <3>2 DEF Ask
  <2>3. CASE good /\ m.job.cmd # "stop"
    BY <2>3 DEF Ask, Proceed
  <2> QED BY <2>1, <2>2, <2>3
<1>5. SlotPlaced'
  <2>1. slot' = slot \/ (m.job.cmd = "download" /\ slot' = m.job.for)
    BY <1>1 DEF SlotAfter
  <2>2. m.job.cmd = "download" => Placed(m.job.for)
    BY <1>3 DEF Places, PlaceInv, LettersPlaced
  <2>3. \A f : Placed(f) => Placed(f)'
    BY PlaceStays DEF Places
  <2> QED BY <2>1, <2>2, <2>3 DEF Places, PlaceInv, SlotPlaced
<1>6. \A j \in helpers' \ helpers : j.cmd \notin {"start", "download"}
  BY <1>1, OneDelete
<1> HIDE DEF box, more, m, good
<1>7. AsksPlaced'
  <2> DEFINE t == Then(box, Tail(Top.rest))
  <2>1. ticks' = [ticks EXCEPT ![Len(ticks)] = t] /\ t.ask = box.ask /\ t.ids = box.ids
    BY <1>1, SetTopThen
  <2> HIDE DEF t
  <2> QED BY <1>1, <1>4, <2>1, BatchPlaces DEF PlaceInv, Places
<1> QED BY <1>1, <1>3, <1>5, <1>6, <1>7, PlaceFrame DEF PlaceInv, Places

LEMMA AnswerPlaces == AgreeInv /\ Places /\ Answer => PlaceInv'
<1> SUFFICES ASSUME AgreeInv, Places, Answer PROVE PlaceInv'
  OBVIOUS
<1>0. ticks # <<>> /\ UNCHANGED <<pass, recordPlace, filming, inserted, slot>>
  BY DEF Answer, phone, transport
<1>1. Top.ask = "download" => Current(Head(Top.ids))
  <2>1. Len(ticks) \in 1..Len(ticks) /\ ticks[Len(ticks)] = Top
    BY <1>0, TopBatch DEF Top, Last
  <2> QED BY <2>1 DEF Places, PlaceInv, AsksPlaced
<1>2. ASSUME NEW f, NEW r \in BOOLEAN, Download(f, r), ~r => Current(f)
      PROVE  JobsPlaced'
  <2> DEFINE p == IF r THEN Cursor ELSE recordPlace
             j == Job("download", Film(f, p, r), <<>>)
  <2>1. /\ helpers' = helpers \cup {j} /\ j.cmd = "download"
        /\ j.for.film = f /\ j.for.place = p /\ j.for.restored = r
    BY <1>2 DEF Download, Launch, Job, Film
  <2> HIDE DEF j
  <2>2. Placed(j.for)
    <3>1. recordPlace \in Int /\ pass \in Int /\ recordPlace <= pass
      BY DEF Places, PlaceInv, RecordPlaced, Onward
    <3> QED BY <1>2, <2>1, <3>1 DEF Placed, Current
  <2> QED BY <1>0, <2>1, <2>2 DEF Places, PlaceInv, JobsPlaced, Placed, Current
<1>3. ASSUME NEW ids, Launch(DeleteSequentially(ids)) PROVE JobsPlaced'
  <2>1. \A j \in helpers' \ helpers : j.cmd \notin {"start", "download"}
    BY <1>3, OneDelete DEF Launch
  <2> QED BY <2>1, PlaceFrame DEF Places
<1>4. ASSUME helpers' = helpers PROVE JobsPlaced'
  BY <1>4, PlaceFrame DEF Places
<1>5. JobsPlaced'
  <2>1. CASE AnswerError \/ AnswerDeleteAll
    BY <1>3, <1>4, <2>1 DEF AnswerError, AnswerDeleteAll
  <2>2. CASE AnswerDownload
    BY <1>1, <1>2, <1>4, <2>2 DEF AnswerDownload
  <2>3. CASE AnswerRestore
    BY <1>2, <1>4, <2>3 DEF AnswerRestore
  <2>4. CASE AnswerConfirm
    BY <1>3, <1>4, <2>4 DEF AnswerConfirm
  <2> QED BY <2>1, <2>2, <2>3, <2>4 DEF Answer
<1>6. \E box : SetTop(box, Top.rest) /\ box.ask # "download"
  <2>1. Proceed.ask # "download" /\ Ask("confirm", Top.ids).ask # "download"
        /\ AskNext(Top.ids).ask # "download"
    BY DEF Proceed, Ask, AskNext
  <2> QED BY <2>1 DEF Answer, AnswerError, AnswerDownload, AnswerRestore, AnswerConfirm,
                      AnswerDeleteAll
<1>7. AsksPlaced'
  <2>1. PICK box : SetTop(box, Top.rest) /\ box.ask # "download"
    BY <1>6
  <2> DEFINE t == Then(box, Top.rest)
  <2>2. ticks' = [ticks EXCEPT ![Len(ticks)] = t] /\ t.ask = box.ask
    BY <1>0, <2>1, SetTopThen
  <2> HIDE DEF t
  <2> QED BY <1>0, <2>1, <2>2, BatchPlaces DEF PlaceInv, Places
<1> QED BY <1>0, <1>5, <1>7, AnswerMessages, PlaceFrame DEF PlaceInv, Places

LEMMA InsertPlaces ==
  ASSUME AgreeInv, Places, NEW opens \in BOOLEAN, ProcessPendingInsert(opens)
  PROVE  PlaceInv'
<1> DEFINE t == [Top EXCEPT !.done = TRUE, !.ask = IF opens THEN "none" ELSE "error"]
<1>1. /\ ticks # <<>> /\ slot # NoFilm /\ slot' = NoFilm
      /\ inserted' \subseteq inserted \cup {slot}
      /\ UNCHANGED <<filming, helpers>>
  BY DEF ProcessPendingInsert, Drained, phone
<1>2. \A f : Placed(f) => Placed(f)'
  BY PlaceStays DEF Places
<1>3. SlotPlaced'
  BY <1>1 DEF SlotPlaced
<1>4. InsertedWhereRecorded'
  <2>1. \A item \in inserted' : Placed(item)
    BY <1>1 DEF Places, PlaceInv, SlotPlaced, InsertedWhereRecorded, Placed
  <2> QED BY <1>2, <2>1 DEF InsertedWhereRecorded, Placed
<1>5. AsksPlaced'
  <2>1. Top \in Batches(agreed)
    BY <1>1, TopBatch
  <2>2. t.ask # "download"
    BY <2>1 DEF Batches
  <2>3. ticks' = [ticks EXCEPT ![Len(ticks)] = t]
    BY DEF ProcessPendingInsert, Top, Last
  <2> HIDE DEF t
  <2> QED BY <1>1, <2>2, <2>3, BatchPlaces DEF PlaceInv, Places
<1> QED BY <1>1, <1>3, <1>4, <1>5, InsertMessages, PlaceFrame DEF PlaceInv, Places

LEMMA PollPlaces ==
  ASSUME AgreeInv, Places, NEW found \in BOOLEAN, NEW grace \in BOOLEAN,
         PollTransport(found, grace)
  PROVE  PlaceInv'
<1>1. UNCHANGED <<filming, inserted, slot>> /\ Messages' = Messages
  BY PollMessages DEF PollTransport, phone
<1>2. ticks # <<>> /\ Top.ask = "none" /\ Top.rest = <<>> /\ ticks' = Front(ticks)
  BY DEF PollTransport, Drained
<1>3. JobsPlaced'
  <2>1. CASE helpers' \subseteq helpers \cup {Job("stop", NoFilm, <<>>)}
    <3>1. \A j \in helpers' \ helpers : j.cmd \notin {"start", "download"}
      BY <2>1 DEF Job
    <3> QED BY <3>1, PlaceFrame DEF Places
  <2>2. CASE /\ helpers' = helpers \cup {Job("start", Film(pass, Cursor, FALSE), <<>>)}
             /\ recordPlace' = pass
    <3> DEFINE j == Job("start", Film(pass, Cursor, FALSE), <<>>)
    <3>1. j.cmd = "start" /\ j.for.film = pass /\ helpers' = helpers \cup {j}
      BY <2>2 DEF Job, Film
    <3> HIDE DEF j
    <3>2. pass \in 0..recordPlace'
      BY <2>2, WinFollowAssumption DEF AgreeInv, Films
    <3>3. (\A f : Current(f) => Current(f)') /\ (\A f : Placed(f) => Placed(f)')
      BY PlaceStays DEF Places
    <3> QED BY <3>1, <3>2, <3>3 DEF Places, PlaceInv, JobsPlaced, Current
  <2> QED BY <2>1, <2>2 DEF PollTransport, BeginRecording, FinishRecording, Launch
<1>4. AsksPlaced'
  <2>1. ticks \in Seq(Batches(agreed)) /\ Len(ticks) \in Nat \ {0}
    BY <1>2 DEF AgreeInv
  <2>2. ticks' = [i \in 1..(Len(ticks) - 1) |-> ticks[i]]
    BY <1>2, <2>1 DEF Front
  <2>3. Len(ticks') = Len(ticks) - 1
        /\ \A i \in 1..Len(ticks') : i \in 1..Len(ticks) /\ ticks'[i] = ticks[i]
    BY <2>1, <2>2
  <2>4. \A f : Current(f) => Current(f)'
    BY PlaceStays DEF Places
  <2> QED BY <2>3, <2>4 DEF Places, PlaceInv, AsksPlaced
<1> QED BY <1>1, <1>3, <1>4, PlaceFrame DEF PlaceInv, Places

LEMMA PlaceNext == AgreeInv /\ PlaceInv /\ [Next]_vars => PlaceInv'
<1> SUFFICES ASSUME AgreeInv, PlaceInv, [Next]_vars PROVE PlaceInv'
  OBVIOUS
<1>0. Places
  BY PlacesGrow DEF Places, PlaceInv
<1>1. CASE UserStep     BY <1>0, <1>1, UserPlaces
<1>2. CASE HelperEnds   BY <1>0, <1>2, HelperPlaces
<1>3. CASE TimerPoll    BY <1>0, <1>3, TimerPlaces
<1>4. CASE RunCallback  BY <1>0, <1>4, CallbackPlaces
<1>5. CASE Answer       BY <1>0, <1>5, AnswerPlaces
<1>6. CASE \E opens \in BOOLEAN : ProcessPendingInsert(opens)
  BY <1>0, <1>6, InsertPlaces
<1>7. CASE \E found, grace \in BOOLEAN : PollTransport(found, grace)
  BY <1>0, <1>7, PollPlaces
<1>8. CASE UNCHANGED vars
  <2>1. UNCHANGED <<filming, inserted, slot, ticks, helpers>> /\ Messages' = Messages
    BY <1>8 DEF vars, phone, Messages
  <2> QED BY <1>0, <2>1, PlaceFrame DEF PlaceInv, Places
<1> QED BY <1>1, <1>2, <1>3, <1>4, <1>5, <1>6, <1>7, <1>8 DEF Next, UserStep

\* Any user, also one who begins the next pass before the last take is stopped: no item
\* lies at the place of a pass before its own or of one not begun, and a restored one
\* lies at the cursor.
THEOREM WhereRecorded == Spec => []InsertedWhereRecorded
<1>1. PlaceInv => InsertedWhereRecorded
  BY DEF PlaceInv
<1> QED BY <1>1, AgreeInit, AgreeNext, PlaceInit, PlaceNext, PTL DEF Spec
(***************************************************************************)
(* No downloaded movie is lost on its way into the project.  There is one  *)
(* slot for the pending insertion; a user who asks for one download at a   *)
(* time has all that is under way carry the same film.                     *)
(***************************************************************************)
Carries(f) ==
  /\ \A j \in helpers : j.cmd = "download" => j.for = f
  /\ \A m \in Messages : m.job.cmd = "download" => m.job.for = f
  /\ slot \in {NoFilm, f}
ArriveInv == fetched \subseteq disk /\ DownloadedIsInserted /\ \E f : Carries(f)

LEMMA ArriveInit == Init => ArriveInv
<1> SUFFICES ASSUME Init PROVE ArriveInv
  OBVIOUS
<1>1. Messages = {}
  <2>1. Len(ticks) = 0 /\ 1..Len(ticks) = {} /\ ToSet(queue) = {}
    BY DEF Init, ToSet
  <2> QED BY <2>1 DEF Messages
<1>2. Carries(NoFilm)
  BY <1>1 DEF Init, Carries
<1> QED BY <1>2 DEF Init, ArriveInv, DownloadedIsInserted

LEMMA ArriveStays ==
  ASSUME ArriveInv, fetched' = fetched, disk \subseteq disk', told \subseteq told',
         slot' = slot, inserted \subseteq inserted', Messages' = Messages,
         \A j \in helpers' \ helpers : j.cmd # "download"
  PROVE  ArriveInv'
<1>1. PICK f : Carries(f)
  BY DEF ArriveInv
<1>2. Carries(f)'
  BY <1>1 DEF Carries
<1>3. fetched' \subseteq disk' /\ DownloadedIsInserted'
  BY DEF ArriveInv, DownloadedIsInserted
<1> QED BY <1>2, <1>3 DEF ArriveInv

LEMMA HelperArrives == AgreeInv /\ ArriveInv /\ HelperEnds => ArriveInv'
<1> SUFFICES ASSUME AgreeInv, ArriveInv, HelperEnds PROVE ArriveInv'
  OBVIOUS
<1>0. UNCHANGED <<ticks, told, inserted, slot>>
  BY DEF HelperEnds
<1>1. PICK j \in helpers, a \in BOOLEAN, b \in BOOLEAN, c \in BOOLEAN :
         \/ j.cmd = "start" /\ StartEnds(j, a, b)
         \/ j.cmd = "stop" /\ StopEnds(j, a, b)
         \/ j.cmd = "download" /\ DownloadEnds(j, a, b, c)
         \/ j.cmd = "delete" /\ DeleteEnds(j, a, b)
         \/ j.cmd \in {"restore", "deleteAll"} /\ ListEnds(j, b)
  BY DEF HelperEnds
<1>2. \E ids \in Seq(Passes), ok \in BOOLEAN : Post(j, ids, ok)
  <2>1. j.ids \in Seq(Passes) /\ SetToSeq(kept) \in Seq(Passes) /\ <<>> \in Seq(Passes)
    BY LettersHeld, ListOfFilms DEF Jobs, AgreeInv
  <2>2. CASE j.cmd = "stop" /\ StopEnds(j, a, b)
    <3>1. b => filming \in Passes
      BY <2>2, WinFollowAssumption DEF StopEnds, AgreeInv, Films, Passes
    <3>2. (IF b THEN <<filming>> ELSE <<>>) \in Seq(Passes)
      BY <2>1, <3>1
    <3> QED BY <2>2, <3>2 DEF StopEnds
  <2> QED BY <1>1, <2>1, <2>2 DEF StartEnds, DownloadEnds, DeleteEnds, ListEnds
<1>3. PICK ids \in Seq(Passes), ok \in BOOLEAN : Post(j, ids, ok)
  BY <1>2
<1> DEFINE m == Letter(j, ids, ok)
<1>4. Messages' = Messages \cup {m} /\ m.job.cmd = j.cmd /\ m.job.for = j.for
  BY <1>0, <1>3, PostMessages
<1> HIDE DEF m
<1>5. \E f : Carries(f)'
  <2>1. PICK f : Carries(f)
    BY DEF ArriveInv
  <2>2. helpers' \subseteq helpers
    BY <1>3 DEF Post
  <2>3. Carries(f)'
    BY <1>0, <1>4, <2>1, <2>2 DEF Carries
  <2> QED BY <2>3
<1>6. /\ disk \subseteq disk'
      /\ \/ fetched' = fetched
         \/ /\ j.cmd = "download" /\ fetched' = fetched \cup {j.for.film}
            /\ j.for.film \in disk'
  BY <1>1 DEF StartEnds, StopEnds, DownloadEnds, DeleteEnds, ListEnds
<1>7. fetched' \subseteq disk'
  BY <1>6 DEF ArriveInv
<1>8. DownloadedIsInserted'
  BY <1>0, <1>4, <1>6 DEF ArriveInv, DownloadedIsInserted
<1> QED BY <1>5, <1>7, <1>8 DEF ArriveInv

LEMMA CallbackArrives == AgreeInv /\ FilmsTyped /\ ArriveInv /\ RunCallback => ArriveInv'
<1> SUFFICES ASSUME AgreeInv, FilmsTyped, ArriveInv, RunCallback PROVE ArriveInv'
  OBVIOUS
<1> DEFINE m == Head(Top.rest)
           good == m.ok \/ Recovered(m.job)
<1>1. ticks # <<>> /\ Top.rest # <<>> /\ slot' = SlotAfter(m.job, good)
      /\ UNCHANGED <<fetched, disk, inserted>>
  BY DEF RunCallback, phone
<1>2. told \subseteq told'
  BY FilmsOfPasses DEF RunCallback, FilmsTyped
<1>3. m \in Messages /\ Messages' \subseteq Messages /\ Messages \subseteq Messages' \cup {m}
  BY CallbackMessages
<1>4. \A j \in helpers' \ helpers : j.cmd # "download"
  <2>1. helpers' = helpers
        \/ helpers' = helpers \cup DeleteSequentially(m.job.ids)
    BY DEF RunCallback, Launch
  <2> QED BY <2>1, OneDelete
<1>5. slot' = slot \/ (m.job.cmd = "download" /\ slot' = m.job.for)
  BY <1>1 DEF SlotAfter
<1>6. m.job.cmd = "download" /\ m.job.for.film \in fetched => slot' = m.job.for
  BY <1>1 DEF SlotAfter, ArriveInv, Recovered
<1> HIDE DEF m, good
<1>7. PICK f : Carries(f)
  BY DEF ArriveInv
<1>8. Carries(f)'
  BY <1>3, <1>4, <1>5, <1>7 DEF Carries
<1>9. slot' = slot \/ slot = NoFilm
  BY <1>3, <1>5, <1>7 DEF Carries
<1>10. \A g \in fetched : NoFilm.film # g
  BY FilmsOfPasses DEF NoFilm, FilmsTyped
<1>11. DownloadedIsInserted'
  BY <1>1, <1>2, <1>3, <1>6, <1>9, <1>10 DEF ArriveInv, DownloadedIsInserted
<1> QED BY <1>1, <1>8, <1>11 DEF ArriveInv

\* A download begins when nothing carries a film.
LEMMA AnswerArrives == OneDownload => (AgreeInv /\ ArriveInv /\ Answer => ArriveInv')
<1> SUFFICES ASSUME OneDownload, AgreeInv, ArriveInv, Answer PROVE ArriveInv'
  OBVIOUS
<1>1. UNCHANGED <<fetched, disk, told, slot, inserted>> /\ Messages' = Messages
  BY AnswerMessages DEF Answer, phone
<1>2. \/ helpers' = helpers
      \/ \E ids : Launch(DeleteSequentially(ids))
      \/ \E f, r : Download(f, r)
  BY DEF Answer, AnswerError, AnswerDownload, AnswerRestore, AnswerConfirm, AnswerDeleteAll
<1>3. CASE \A j \in helpers' \ helpers : j.cmd # "download"
  BY <1>1, <1>3, ArriveStays
<1>4. ASSUME NEW ids, Launch(DeleteSequentially(ids))
      PROVE  \A j \in helpers' \ helpers : j.cmd # "download"
  BY <1>4, OneDelete DEF Launch
<1>5. ASSUME NEW f, NEW r, Download(f, r) PROVE ArriveInv'
  <2> DEFINE j == Job("download", Film(f, IF r THEN Cursor ELSE recordPlace, r), <<>>)
  <2>1. helpers' = helpers \cup {j} /\ NoDownload
    BY <1>5 DEF Download, Launch
  <2> HIDE DEF j
  <2>2. /\ slot = NoFilm /\ \A k \in helpers : k.cmd # "download"
        /\ \A m \in Messages : m.job.cmd # "download"
    BY <2>1 DEF NoDownload
  <2>3. \E g : Carries(g)'
    <3>1. PICK g : g = j.for
      OBVIOUS
    <3>2. Carries(g)'
      BY <1>1, <2>1, <2>2, <3>1 DEF Carries
    <3> QED BY <3>2
  <2>4. fetched' \subseteq disk' /\ DownloadedIsInserted'
    BY <1>1 DEF ArriveInv, DownloadedIsInserted
  <2> QED BY <2>3, <2>4 DEF ArriveInv
<1> QED BY <1>2, <1>3, <1>4, <1>5

LEMMA InsertArrives ==
  ASSUME AgreeInv, ArriveInv, NEW opens \in BOOLEAN, ProcessPendingInsert(opens)
  PROVE  ArriveInv'
<1>1. /\ UNCHANGED <<fetched, disk, helpers>> /\ told \subseteq told'
      /\ inserted \subseteq inserted' /\ slot' = NoFilm
      /\ slot.film \in told' \/ slot \in inserted'
  BY DEF ProcessPendingInsert, phone
<1>2. PICK f : Carries(f)
  BY DEF ArriveInv
<1>3. Carries(f)'
  BY <1>1, <1>2, InsertMessages DEF Carries
<1>4. DownloadedIsInserted'
  BY <1>1, InsertMessages DEF ArriveInv, DownloadedIsInserted
<1> QED BY <1>1, <1>3, <1>4 DEF ArriveInv

LEMMA ArriveNext ==
  OneDownload => (AgreeInv /\ FilmsTyped /\ ArriveInv /\ [Next]_vars => ArriveInv')
<1> SUFFICES ASSUME OneDownload, AgreeInv, FilmsTyped, ArriveInv, [Next]_vars
             PROVE  ArriveInv'
  OBVIOUS
<1>1. CASE UserStep
  <2>1. UNCHANGED <<fetched, disk, told, slot, inserted>>
    BY <1>1 DEF UserStep, PressRecord, MoveTransport, SetVideoEnabled, ToggleFollow, Pairing,
                ListRecordings, phone, history
  <2>2. \A j \in helpers' \ helpers : j.cmd # "download"
    BY <1>1 DEF UserStep, PressRecord, MoveTransport, SetVideoEnabled, ToggleFollow, Pairing,
                ListRecordings, FinishRecording, Job
  <2> QED BY <1>1, <2>1, <2>2, UserMessages, ArriveStays
<1>2. CASE HelperEnds   BY <1>2, HelperArrives
<1>3. CASE TimerPoll
  <2>1. UNCHANGED <<fetched, disk, told, slot, inserted, helpers>>
    BY <1>3 DEF TimerPoll, phone, history
  <2> QED BY <1>3, <2>1, TimerMessages, ArriveStays
<1>4. CASE RunCallback  BY <1>4, CallbackArrives
<1>5. CASE Answer       BY <1>5, AnswerArrives
<1>6. CASE \E opens \in BOOLEAN : ProcessPendingInsert(opens)
  BY <1>6, InsertArrives
<1>7. ASSUME NEW found \in BOOLEAN, NEW grace \in BOOLEAN, PollTransport(found, grace)
      PROVE  ArriveInv'
  <2>1. UNCHANGED <<fetched, disk, told, slot, inserted>>
    BY <1>7 DEF PollTransport, phone, history
  <2>2. \A j \in helpers' \ helpers : j.cmd # "download"
    <3>1. \/ helpers' = helpers \/ helpers' = helpers \cup {Job("stop", NoFilm, <<>>)}
          \/ helpers' = helpers \cup {Job("start", Film(pass, Cursor, FALSE), <<>>)}
      BY <1>7 DEF PollTransport, BeginRecording, FinishRecording, Launch
    <3>2. /\ Job("start", Film(pass, Cursor, FALSE), <<>>).cmd = "start"
          /\ Job("stop", NoFilm, <<>>).cmd = "stop"
      BY DEF Job
    <3> QED BY <3>1, <3>2
  <2> QED BY <1>7, <2>1, <2>2, PollMessages, ArriveStays
<1>8. CASE UNCHANGED vars
  <2>1. UNCHANGED <<fetched, disk, told, slot, inserted, helpers>> /\ Messages' = Messages
    BY <1>8 DEF vars, phone, history, Messages
  <2> QED BY <2>1, ArriveStays
<1> QED BY <1>1, <1>2, <1>3, <1>4, <1>5, <1>6, <1>7, <1>8 DEF Next, UserStep

\* For a user who asks for one download at a time, whatever else is under way: a movie
\* the phone has removed after its download is an item, is on its way there, or the user
\* was told otherwise, also when the helper's answer is lost after the phone was
\* acknowledged and when nested boxes take the callbacks out of order.
THEOREM DownloadsArrive == OneDownload => (Spec => []DownloadedIsInserted)
<1> SUFFICES ASSUME OneDownload PROVE Spec => []DownloadedIsInserted
  OBVIOUS
<1>1. AgreeInv /\ FilmsTyped /\ ArriveInv /\ [Next]_vars => ArriveInv'
  BY ArriveNext
<1>2. TypeInv => FilmsTyped
  BY DEF TypeInv
<1>3. ArriveInv => DownloadedIsInserted
  BY DEF ArriveInv
<1> QED BY <1>1, <1>2, <1>3, AgreeInit, AgreeNext, TypeInit, TypeNext, ArriveInit, PTL
        DEF Spec

(***************************************************************************)
(* A take recorded under a followed transport is active.                   *)
(***************************************************************************)
SteadyInv ==
  /\ steady # "no" => video /\ follow /\ paired
  /\ ticked /\ video /\ follow /\ rolling = "stopped" => prev = "stopped"
  /\ ticked /\ video /\ follow /\ rolling = "playing" /\ showing => prev = "playing"
  /\ steady = "seen" /\ rolling = "recording" /\ prev = "recording" => active

LEMMA SteadyInit == Init => SteadyInv
  BY DEF Init, SteadyInv

\* The poll that sees such a pass leaves the take active.
LEMMA PollFilms ==
  ASSUME SteadyInv, NEW found \in BOOLEAN, NEW grace \in BOOLEAN,
         PollTransport(found, grace), rolling = "recording", steady = "seen"
  PROVE  active'
<1>1. video /\ follow /\ paired
  BY DEF SteadyInv
<1>2. CASE prev = "recording"
  <2>1. active
    BY <1>2 DEF SteadyInv
  <2>2. active' = active
    BY <1>1, <1>2 DEF PollTransport
  <2> QED BY <2>1, <2>2
<1>3. CASE prev # "recording"
  <2>1. BeginRecording
    BY <1>1, <1>3 DEF PollTransport
  <2> QED BY <1>1, <2>1 DEF BeginRecording
<1> QED BY <1>2, <1>3

LEMMA SteadyNext == FlagsTyped /\ SteadyInv /\ [Next]_vars => SteadyInv'
<1> SUFFICES ASSUME FlagsTyped, SteadyInv, [Next]_vars PROVE SteadyInv'
  OBVIOUS
<1>1. CASE PressRecord
  <2>1. /\ rolling # "recording" /\ rolling \in {"stopped", "playing", "recording"}
        /\ UNCHANGED <<prev, video, follow, paired>> /\ rolling' = "recording"
        /\ steady' # "no" => video /\ follow /\ paired
        /\ steady' = "seen" => ticked /\ (rolling = "stopped" \/ showing)
    BY <1>1 DEF PressRecord, FlagsTyped
  <2>2. steady' = "seen" => prev' # "recording"
    BY <2>1 DEF SteadyInv
  <2> QED BY <2>1, <2>2 DEF SteadyInv
<1>2. ASSUME NEW to \in {"stopped", "playing"}, MoveTransport(to) PROVE SteadyInv'
  BY <1>2 DEF MoveTransport, SteadyInv
<1>3. ASSUME NEW on \in BOOLEAN, SetVideoEnabled(on) PROVE SteadyInv'
  BY <1>3 DEF SetVideoEnabled, SteadyInv
<1>4. CASE ToggleFollow
  BY <1>4 DEF ToggleFollow, SteadyInv
<1>5. ASSUME NEW found \in BOOLEAN, NEW grace \in BOOLEAN, PollTransport(found, grace)
      PROVE  SteadyInv'
  <2>1. UNCHANGED <<video, follow, paired, rolling, pass, steady>>
    BY <1>5 DEF PollTransport, transport
  <2>2. /\ video /\ follow /\ rolling = "stopped" => prev' = "stopped"
        /\ video /\ follow /\ rolling = "playing" /\ showing' => prev' = "playing"
    BY <1>5 DEF PollTransport, PrevAfter
  <2>3. rolling = "recording" /\ steady = "seen" => active'
    BY <1>5, PollFilms
  <2> QED BY <2>1, <2>2, <2>3 DEF SteadyInv
<1>6. CASE Pairing
  BY <1>6 DEF Pairing, SteadyInv
<1>7. CASE UNCHANGED <<video, follow, paired, rolling, steady, prev, showing, active, ticked>>
  BY <1>7 DEF SteadyInv
<1> QED BY <1>1, <1>2, <1>3, <1>4, <1>5, <1>6, <1>7
        DEF Next, ListRecordings, HelperEnds, TimerPoll, RunCallback, Answer,
            ProcessPendingInsert, vars, transport

\* Any user: a poll that sees REAPER record leaves the take active, if ReaShoot followed
\* and was paired when the pass began and the last poll had seen REAPER stopped, or
\* playing a take whose video is shown, and nothing of that has changed since.
THEOREM FollowedIsFilmed == Spec => RecordingIsFilmed
<1>1. FlagsTyped /\ SteadyInv /\ [Next]_vars => SteadyInv'
  BY SteadyNext
<1>2. FlagsTyped /\ SteadyInv /\ [Next]_vars =>
         [\A found, grace \in BOOLEAN :
            PollTransport(found, grace) /\ rolling = "recording" /\ steady = "seen" => active']_vars
  BY PollFilms
<1>3. TypeInv => FlagsTyped
  BY DEF TypeInv
<1> QED BY <1>1, <1>2, <1>3, AgreeInit, AgreeNext, TypeInit, TypeNext, SteadyInit, PTL
        DEF Spec, RecordingIsFilmed
=============================================================================

--------------------------- MODULE Services_proofs ---------------------------
(***************************************************************************)
(* Proofs about the services of a session: the settings file that the      *)
(* settings daemons share, for any daemons, fields and values; and the     *)
(* notification daemon and the tray, for any limits, applications, keys,   *)
(* reads and generations.                                                  *)
(*                                                                         *)
(* The settings file.  The lock file gives mutual exclusion, also over a   *)
(* daemon that is killed (Exclusive).  So what a daemon has loaded and     *)
(* reserved stands until it publishes, but for edits and power failures    *)
(* (WriterSeesLatest, Fresh), and the high-water mark, which is synced     *)
(* before anything is published, keeps revisions rising over both.         *)
(*                                                                         *)
(* The notification daemon.  The identifiers of the entries differ         *)
(* (EntriesOK), and the signals queued, in the batch and sent are one      *)
(* stream in which every identifier without a live entry has its closing   *)
(* once, at its end (StreamOK).  What expires under the lock is one fold   *)
(* over the entries: AfterDue, by induction on how many it has dealt with. *)
(*                                                                         *)
(* The tray.  A branch of the loop leaves a queue without repetitions      *)
(* (QueueOK) to the top, which takes a prefix of it; a change is covered   *)
(* by a mark, the queue, a signal or a read that will see it (Covered,     *)
(* Following).  Keys are not used again, as generations only grow.         *)
(***************************************************************************)
EXTENDS SettingsStore, MCDesktopServices, FiniteSetTheorems, SequenceTheorems, WellFoundedInduction, TLAPS

-----------------------------------------------------------------------------
(***************************************************************************)
(* The settings file.                                                      *)
(***************************************************************************)
Inside == {"locked", "loaded", "reserved", "synced", "renamed"}

Exclusive == \A d \in Daemons : pc[d] \in Inside <=> holder = d

\* What is about to be published is a valid setting.
ValidRequest ==
  \A d \in Daemons : pc[d] \in {"loaded", "reserved", "synced"} => request[d].value \notin Invalid

\* A request is unanswered until its daemon is idle again, and published once renamed.
Answers ==
  \A d \in Daemons :
    /\ pc[d] # "idle" => reply[d] = "none"
    /\ pc[d] \in {"pending", "locked", "loaded", "reserved", "synced"} => ~published[d]
    /\ pc[d] = "renamed" => published[d]

\* Nothing is published beyond what is synced of the mark, and a reserved
\* revision is above everything published.
Fresh ==
  /\ highest =< syncedMark /\ syncedMark =< mark
  /\ \A d \in Daemons :
       /\ pc[d] = "reserved" => next[d] = mark /\ next[d] > highest
       /\ pc[d] = "synced" => next[d] = syncedMark /\ next[d] > highest

Inv == StoreTypeOK /\ Exclusive /\ ValidRequest /\ Answers /\ WriterSeesLatest /\ Fresh

-----------------------------------------------------------------------------
(* The operators on settings. *)

LEMMA LoadedType ==
  ASSUME NEW f \in Files, f # Broken
  PROVE  Loaded(f) \in Snapshots
BY ValueAssumption, StoreBoundAssumption
DEF Loaded, Files, Snapshots, Settings, ValueAssumption, StoreBoundAssumption

LEMMA MutatedType ==
  ASSUME NEW s \in Snapshots, NEW r \in Requests, r.value \notin Invalid
  PROVE  Mutated(s, r) \in Settings /\ Mutated(s, r)[r.field] = r.value
BY DEF Mutated, Snapshots, Settings, Requests

LEMMA InitInv == StoreInit => Inv
<1> SUFFICES ASSUME StoreInit PROVE Inv
  OBVIOUS
<1>1. Absent \in Files /\ [revision |-> 0, settings |-> [x \in Fields |-> Default]] \in Files
  BY ValueAssumption, StoreBoundAssumption
  DEF Files, Snapshots, Settings, ValueAssumption, StoreBoundAssumption
<1>2. (CHOOSE r \in Requests : TRUE) \in Requests
  <2>1. PICK f \in Fields : TRUE
    BY ValueAssumption DEF ValueAssumption
  <2>2. [field |-> f, value |-> Default] \in Requests
    BY ValueAssumption DEF ValueAssumption, Requests
  <2> QED BY <2>2
<1>3. Loaded(Absent) \in Snapshots
  BY ValueAssumption, StoreBoundAssumption
  DEF Loaded, Snapshots, Settings, ValueAssumption, StoreBoundAssumption
<1>4. StoreTypeOK
  BY <1>1, <1>2, <1>3, StoreBoundAssumption DEF StoreInit, StoreTypeOK, StoreBoundAssumption
<1>5. Exclusive /\ ValidRequest /\ Answers /\ WriterSeesLatest
  BY UnlockedAssumption
  DEF StoreInit, Exclusive, Inside, ValidRequest, Answers, WriterSeesLatest, UnlockedAssumption
<1>6. Fresh
  BY DEF StoreInit, Fresh
<1> QED BY <1>4, <1>5, <1>6 DEF Inv

\* The end of a request: its daemon is idle, and does not hold the lock any more.
LEMMA AnswerEffect ==
  ASSUME StoreTypeOK, Exclusive, NEW d \in Daemons, NEW word \in {"ok", "err"}, Answer(d, word)
  PROVE  /\ pc' \in [Daemons -> {"idle", "pending", "locked", "loaded", "reserved", "synced",
                                 "renamed"}]
         /\ pc'[d] = "idle" /\ \A e \in Daemons \ {d} : pc'[e] = pc[e]
         /\ reply' \in [Daemons -> {"none", "ok", "err"}]
         /\ reply'[d] = word /\ \A e \in Daemons \ {d} : reply'[e] = reply[e]
         /\ holder' \in Daemons \cup {Unlocked}
         /\ Exclusive'
BY UnlockedAssumption DEF Answer, Goto, StoreTypeOK, Exclusive, Inside, UnlockedAssumption

\* No other daemon is inside while one is.
LEMMA Alone ==
  ASSUME Exclusive, NEW d \in Daemons, pc[d] \in Inside, NEW e \in Daemons, pc[e] \in Inside
  PROVE  e = d
BY DEF Exclusive

\* An update that ends without having published: a failure, or nothing to write.
LEMMA EndsUpdate ==
  ASSUME Inv, NEW d \in Daemons, NEW word \in {"ok", "err"}, Answer(d, word),
         UNCHANGED <<fileVars, request, base, next, published, touched, highest, requests,
                     faults>>
  PROVE  Inv'
<1>1. StoreTypeOK' /\ Exclusive'
  BY AnswerEffect DEF Inv, StoreTypeOK, fileVars
<1>2. pc'[d] = "idle" /\ \A e \in Daemons \ {d} : pc'[e] = pc[e] /\ reply'[e] = reply[e]
  BY AnswerEffect DEF Inv
<1>3. ValidRequest' /\ WriterSeesLatest'
  BY <1>2 DEF Inv, ValidRequest, WriterSeesLatest, Loaded, fileVars
<1>4. Answers'
  BY <1>2 DEF Inv, Answers
<1>5. Fresh'
  BY <1>2 DEF Inv, Fresh, fileVars
<1> QED BY <1>1, <1>3, <1>4, <1>5 DEF Inv

LEMMA RequestStep ==
  ASSUME Inv, NEW d \in Daemons, NEW r \in Requests, Request(d, r)
  PROVE  Inv'
<1> USE DEF Request, Goto, At
<1>1. StoreTypeOK'
  BY StoreBoundAssumption DEF Inv, StoreTypeOK, fileVars, StoreBoundAssumption
<1>2. pc'[d] = "pending" /\ \A e \in Daemons \ {d} : pc'[e] = pc[e]
  BY DEF Inv, StoreTypeOK
<1>3. Exclusive' /\ ValidRequest' /\ WriterSeesLatest'
  BY <1>2 DEF Inv, StoreTypeOK, Exclusive, Inside, ValidRequest, WriterSeesLatest, Loaded,
     fileVars
<1>4. Answers'
  BY <1>2 DEF Inv, StoreTypeOK, Answers
<1>5. Fresh'
  BY <1>2 DEF Inv, Fresh, fileVars
<1> QED BY <1>1, <1>3, <1>4, <1>5 DEF Inv

LEMMA TryLockStep ==
  ASSUME Inv, NEW d \in Daemons, TryLock(d)
  PROVE  Inv'
<1> USE DEF TryLock, Goto, At
<1>1. StoreTypeOK'
  BY DEF Inv, StoreTypeOK, fileVars, answerVars
<1>2. pc'[d] = "locked" /\ \A e \in Daemons \ {d} : pc'[e] = pc[e]
  BY DEF Inv, StoreTypeOK
<1>3. Exclusive'
  BY <1>2, UnlockedAssumption DEF Inv, Exclusive, Inside, UnlockedAssumption
<1>4. ValidRequest' /\ WriterSeesLatest' /\ Answers'
  BY <1>2 DEF Inv, ValidRequest, WriterSeesLatest, Loaded, Answers, fileVars, answerVars
<1>5. Fresh'
  BY <1>2 DEF Inv, Fresh, fileVars
<1> QED BY <1>1, <1>3, <1>4, <1>5 DEF Inv

\* What Load finds: nothing to do, or the newest snapshot and a valid request.
LEMMA LoadCases ==
  ASSUME Inv, NEW d \in Daemons, Load(d)
  PROVE  \/ /\ \E word \in {"ok", "err"} : Answer(d, word)
            /\ reply'[d] = "ok" => Loaded(file).settings[request[d].field] = request[d].value
            /\ UNCHANGED <<base, touched>>
         \/ /\ file # Broken /\ request[d].value \notin Invalid
            /\ base' = [base EXCEPT ![d] = Loaded(file)]
            /\ touched' = [touched EXCEPT ![d] = FALSE]
            /\ Goto(d, "loaded") /\ UNCHANGED <<reply, holder>>
<1> DEFINE found == Loaded(file)
           settings == Mutated(found, request[d])
           rejected == file = Broken \/ request[d].value \in Invalid
           unchanged == settings = found.settings /\ found.revision # 0
           tooLarge == \E x \in Fields : settings[x] \in TooLarge
<1>1. CASE rejected
  <2>1. Answer(d, "err") /\ UNCHANGED <<base, touched>>
    BY <1>1 DEF Load
  <2>2. reply'[d] = "err"
    BY <2>1, AnswerEffect DEF Inv
  <2> QED BY <2>1, <2>2
<1>2. CASE ~rejected /\ unchanged
  <2>1. Answer(d, "ok") /\ UNCHANGED <<base, touched>>
    BY <1>2 DEF Load
  <2>2. settings[request[d].field] = request[d].value
    <3>1. found \in Snapshots
      BY <1>2, LoadedType DEF Inv, StoreTypeOK
    <3>2. request[d] \in Requests
      BY DEF Inv, StoreTypeOK
    <3> QED BY <1>2, <3>1, <3>2, MutatedType
  <2> QED BY <1>2, <2>1, <2>2
<1>3. CASE ~rejected /\ ~unchanged /\ tooLarge
  <2>1. Answer(d, "err") /\ UNCHANGED <<base, touched>>
    BY <1>3 DEF Load
  <2>2. reply'[d] = "err"
    BY <2>1, AnswerEffect DEF Inv
  <2> QED BY <2>1, <2>2
<1>4. CASE ~rejected /\ ~unchanged /\ ~tooLarge
  BY <1>4 DEF Load
<1> QED BY <1>1, <1>2, <1>3, <1>4

LEMMA LoadStep ==
  ASSUME Inv, NEW d \in Daemons, Load(d)
  PROVE  Inv'
<1>1. UNCHANGED <<fileVars, request, next, published, highest, requests, faults>>
      /\ pc[d] = "locked"
  BY DEF Load, At
<1>2. ASSUME NEW word \in {"ok", "err"}, Answer(d, word), UNCHANGED <<base, touched>>
      PROVE  Inv'
  BY <1>1, <1>2, EndsUpdate
<1>3. CASE /\ file # Broken /\ request[d].value \notin Invalid
           /\ base' = [base EXCEPT ![d] = Loaded(file)]
           /\ touched' = [touched EXCEPT ![d] = FALSE]
           /\ Goto(d, "loaded") /\ UNCHANGED <<reply, holder>>
  <2>1. Loaded(file) \in Snapshots
    BY <1>3, LoadedType DEF Inv, StoreTypeOK
  <2>2. StoreTypeOK'
    BY <1>1, <1>3, <2>1 DEF Inv, StoreTypeOK, Goto, fileVars
  <2>3. pc'[d] = "loaded" /\ \A e \in Daemons \ {d} : pc'[e] = pc[e]
    BY <1>3 DEF Inv, StoreTypeOK, Goto
  <2>4. Exclusive' /\ ValidRequest' /\ Answers'
    BY <1>1, <1>3, <2>3 DEF Inv, Exclusive, Inside, ValidRequest, Answers
  <2>5. WriterSeesLatest'
    BY <1>1, <1>3, <2>3 DEF Inv, StoreTypeOK, WriterSeesLatest, Loaded, fileVars
  <2>6. Fresh'
    BY <1>1, <2>3 DEF Inv, Fresh, fileVars
  <2> QED BY <2>2, <2>4, <2>5, <2>6 DEF Inv
<1> QED BY <1>2, <1>3, LoadCases

LEMMA ReserveStep ==
  ASSUME Inv, NEW d \in Daemons, Reserve(d)
  PROVE  Inv'
<1>0. UNCHANGED <<file, survivors, syncedMark, request, base, published, touched, highest,
                  requests, faults>> /\ pc[d] = "loaded"
  BY DEF Reserve, At
<1>1. CASE NextRevision(d) > MaxRevision
  <2>1. Answer(d, "err") /\ UNCHANGED <<fileVars, next>>
    BY <1>0, <1>1 DEF Reserve, fileVars
  <2> QED BY <1>0, <2>1, EndsUpdate
<1>2. CASE ~(NextRevision(d) > MaxRevision)
  <2>1. /\ mark' = NextRevision(d) /\ next' = [next EXCEPT ![d] = mark']
        /\ Goto(d, "reserved") /\ UNCHANGED <<reply, holder>>
    BY <1>2 DEF Reserve
  <2>2. base[d].revision \in 0..MaxRevision /\ mark \in 0..MaxRevision
    BY DEF Inv, StoreTypeOK, Snapshots
  <2>3. mark' \in 0..MaxRevision /\ mark' > mark
    BY <1>2, <2>1, <2>2, StoreBoundAssumption DEF NextRevision, StoreBoundAssumption
  <2>4. StoreTypeOK'
    BY <1>0, <2>1, <2>3 DEF Inv, StoreTypeOK, Goto
  <2>5. pc'[d] = "reserved" /\ \A e \in Daemons \ {d} : pc'[e] = pc[e]
    BY <2>1 DEF Inv, StoreTypeOK, Goto
  <2>6. Exclusive' /\ ValidRequest' /\ Answers' /\ WriterSeesLatest'
    BY <1>0, <2>1, <2>5 DEF Inv, Exclusive, Inside, ValidRequest, Answers, WriterSeesLatest,
       Loaded
  <2>7. \A e \in Daemons \ {d} : pc[e] \notin Inside
    BY <1>0, Alone DEF Inv, Inside
  <2>8. next'[d] = mark'
    BY <2>1 DEF Inv, StoreTypeOK
  <2>9. Fresh'
    BY <1>0, <2>2, <2>3, <2>5, <2>7, <2>8, StoreBoundAssumption
    DEF Inv, StoreTypeOK, Fresh, Inside, StoreBoundAssumption
  <2> QED BY <2>4, <2>6, <2>9 DEF Inv
<1> QED BY <1>1, <1>2

LEMMA SyncMarkStep ==
  ASSUME Inv, NEW d \in Daemons, SyncMark(d)
  PROVE  Inv'
<1> USE DEF SyncMark, Goto, At
<1>1. StoreTypeOK'
  BY DEF Inv, StoreTypeOK, answerVars
<1>2. pc'[d] = "synced" /\ \A e \in Daemons \ {d} : pc'[e] = pc[e]
  BY DEF Inv, StoreTypeOK
<1>3. Exclusive' /\ ValidRequest' /\ Answers' /\ WriterSeesLatest'
  BY <1>2 DEF Inv, Exclusive, Inside, ValidRequest, Answers, WriterSeesLatest, Loaded,
     answerVars
<1>4. \A e \in Daemons \ {d} : pc[e] \notin Inside
  BY Alone DEF Inv, Inside
<1>5. Fresh'
  BY <1>2, <1>4, StoreBoundAssumption DEF Inv, StoreTypeOK, Fresh, Inside, StoreBoundAssumption
<1> QED BY <1>1, <1>3, <1>5 DEF Inv

LEMMA RenameStep ==
  ASSUME Inv, NEW d \in Daemons, Rename(d)
  PROVE  Inv'
<1> USE DEF Rename, Goto, At
<1>1. file' \in Files
  <2>1. base[d] \in Snapshots /\ request[d] \in Requests /\ next[d] \in 0..MaxRevision
    BY DEF Inv, StoreTypeOK
  <2>2. request[d].value \notin Invalid
    BY DEF Inv, ValidRequest
  <2> QED BY <2>1, <2>2, MutatedType DEF Files, Snapshots
<1>2. StoreTypeOK'
  BY <1>1 DEF Inv, StoreTypeOK
<1>3. pc'[d] = "renamed" /\ \A e \in Daemons \ {d} : pc'[e] = pc[e]
  BY DEF Inv, StoreTypeOK
<1>4. \A e \in Daemons \ {d} : pc[e] \notin Inside
  BY Alone DEF Inv, Inside
<1>5. Exclusive' /\ ValidRequest'
  BY <1>3 DEF Inv, Exclusive, Inside, ValidRequest
<1>6. Answers'
  BY <1>3 DEF Inv, StoreTypeOK, Answers
<1>7. WriterSeesLatest'
  BY <1>3, <1>4 DEF WriterSeesLatest, Inside
<1>8. Fresh'
  BY <1>3, <1>4, StoreBoundAssumption DEF Inv, StoreTypeOK, Fresh, Inside, StoreBoundAssumption
<1> QED BY <1>2, <1>5, <1>6, <1>7, <1>8 DEF Inv

LEMMA SyncDirectoryStep ==
  ASSUME Inv, NEW d \in Daemons, SyncDirectory(d)
  PROVE  Inv'
<1>0. /\ Answer(d, "ok") /\ survivors' \in {{file}, survivors}
      /\ UNCHANGED <<file, mark, syncedMark, request, base, next, published, touched, highest,
                     requests, faults>>
  BY DEF SyncDirectory
<1>1. StoreTypeOK' /\ Exclusive'
  BY <1>0, AnswerEffect DEF Inv, StoreTypeOK
<1>2. pc'[d] = "idle" /\ \A e \in Daemons \ {d} : pc'[e] = pc[e] /\ reply'[e] = reply[e]
  BY <1>0, AnswerEffect DEF Inv
<1>3. ValidRequest' /\ WriterSeesLatest' /\ Answers'
  BY <1>0, <1>2 DEF Inv, ValidRequest, WriterSeesLatest, Loaded, Answers
<1>4. Fresh'
  BY <1>0, <1>2 DEF Inv, Fresh
<1> QED BY <1>1, <1>3, <1>4 DEF Inv

LEMMA KillStep ==
  ASSUME Inv, NEW d \in Daemons, Kill(d)
  PROVE  Inv'
<1> USE DEF Kill, Goto, At, Fault
<1>1. StoreTypeOK'
  BY StoreBoundAssumption DEF Inv, StoreTypeOK, fileVars, answerVars, StoreBoundAssumption
<1>2. pc'[d] = "idle" /\ \A e \in Daemons \ {d} : pc'[e] = pc[e]
  BY DEF Inv, StoreTypeOK
<1>3. Exclusive'
  BY <1>2, UnlockedAssumption DEF Inv, Exclusive, Inside, UnlockedAssumption
<1>4. ValidRequest' /\ WriterSeesLatest' /\ Answers'
  BY <1>2 DEF Inv, ValidRequest, WriterSeesLatest, Loaded, Answers, fileVars, answerVars
<1>5. Fresh'
  BY <1>2 DEF Inv, Fresh, fileVars
<1> QED BY <1>1, <1>3, <1>4, <1>5 DEF Inv

LEMMA PowerFailureStep ==
  ASSUME Inv, PowerFailure
  PROVE  Inv'
<1> USE DEF PowerFailure, Fault
<1>1. StoreTypeOK'
  BY StoreBoundAssumption DEF Inv, StoreTypeOK, answerVars, StoreBoundAssumption
<1>2. \A d \in Daemons : pc'[d] = "idle"
  OBVIOUS
<1>3. Exclusive'
  BY <1>2, UnlockedAssumption DEF Exclusive, Inside, UnlockedAssumption
<1>4. ValidRequest' /\ WriterSeesLatest' /\ Answers'
  BY <1>2 DEF ValidRequest, WriterSeesLatest, Answers
<1>5. Fresh'
  BY <1>2, StoreBoundAssumption DEF Inv, StoreTypeOK, Fresh, StoreBoundAssumption
<1> QED BY <1>1, <1>3, <1>4, <1>5 DEF Inv

LEMMA EditStep ==
  ASSUME Inv, Edit
  PROVE  Inv'
<1> USE DEF Edit, Fault
<1>1. StoreTypeOK'
  BY StoreBoundAssumption DEF Inv, StoreTypeOK, answerVars, StoreBoundAssumption
<1>2. Exclusive' /\ ValidRequest' /\ Answers' /\ Fresh'
  BY DEF Inv, Exclusive, ValidRequest, Answers, Fresh, answerVars
<1>3. WriterSeesLatest'
  BY DEF WriterSeesLatest
<1> QED BY <1>1, <1>2, <1>3 DEF Inv

LEMMA InvStep ==
  ASSUME Inv, [StoreNext]_storeVars
  PROVE  Inv'
<1>1. ASSUME NEW d \in Daemons, NEW r \in Requests, Request(d, r) PROVE Inv'
  BY <1>1, RequestStep
<1>2. ASSUME NEW d \in Daemons, UpdateStep(d) PROVE Inv'
  <2>1. CASE TryLock(d)
    BY <2>1, TryLockStep
  <2>2. CASE Expire(d)
    BY <2>2, EndsUpdate DEF Expire
  <2>3. CASE Load(d)
    BY <2>3, LoadStep
  <2>4. CASE Reserve(d)
    BY <2>4, ReserveStep
  <2>5. CASE SyncMark(d)
    BY <2>5, SyncMarkStep
  <2>6. CASE Rename(d)
    BY <2>6, RenameStep
  <2>7. CASE SyncDirectory(d)
    BY <2>7, SyncDirectoryStep
  <2> QED BY <1>2, <2>1, <2>2, <2>3, <2>4, <2>5, <2>6, <2>7 DEF UpdateStep
<1>3. ASSUME NEW d \in Daemons, Fail(d) PROVE Inv'
  BY <1>3, EndsUpdate DEF Fail
<1>4. ASSUME NEW d \in Daemons, Kill(d) PROVE Inv'
  BY <1>4, KillStep
<1>5. CASE PowerFailure
  BY <1>5, PowerFailureStep
<1>6. CASE Edit
  BY <1>6, EditStep
<1>7. CASE UNCHANGED storeVars
  BY <1>7 DEF storeVars, fileVars, answerVars, Inv, StoreTypeOK, Exclusive, ValidRequest, Answers,
     WriterSeesLatest, Loaded, Fresh
<1> QED BY <1>1, <1>2, <1>3, <1>4, <1>5, <1>6, <1>7 DEF StoreNext

LEMMA Invariance == StoreSpec => []Inv
BY InitInv, InvStep, PTL DEF StoreSpec

-----------------------------------------------------------------------------

\* The types hold, and no update of another daemon is lost: one that is about to
\* publish has loaded what the file holds, unless a person has edited it since.
THEOREM UpdatesKept == StoreSpec => []NoUpdateLost
<1>1. Inv => NoUpdateLost
  BY DEF Inv, NoUpdateLost
<1> QED BY <1>1, Invariance, PTL

\* A failure is reported only of what was never published, a success only of
\* what was, or of what the file already held.
THEOREM RepliesTrue == StoreSpec => TruthfulReplies
<1> DEFINE Truthful ==
      \A d \in Daemons : reply[d] = "none" =>
        /\ reply'[d] = "err" => ~published[d]
        /\ reply'[d] = "ok" =>
             published[d] \/ Loaded(file).settings[request[d].field] = request[d].value
<1>1. ASSUME Inv, NEW d \in Daemons, UpdateStep(d) \/ Fail(d), NEW e \in Daemons,
             reply[e] = "none", reply'[e] # "none"
      PROVE  /\ reply'[e] = "err" => ~published[e]
             /\ reply'[e] = "ok" =>
                  published[e] \/ Loaded(file).settings[request[e].field] = request[e].value
  <2>1. CASE Expire(d) \/ Fail(d)
    <3>1. Answer(d, "err") /\ ~published[d]
      BY <1>1, <2>1 DEF Expire, Fail, At, Inv, Answers
    <3> QED BY <1>1, <3>1, AnswerEffect DEF Inv
  <2>2. CASE Load(d)
    <3>1. ~published[d]
      BY <1>1, <2>2 DEF Load, At, Inv, Answers
    <3>2. CASE UNCHANGED reply
      BY <1>1, <3>2
    <3>3. ASSUME NEW word \in {"ok", "err"}, Answer(d, word) PROVE e = d
      BY <1>1, <3>3, AnswerEffect DEF Inv
    <3> QED BY <1>1, <2>2, <3>1, <3>2, <3>3, LoadCases
  <2>3. CASE Reserve(d)
    <3>1. ~published[d]
      BY <1>1, <2>3 DEF Reserve, At, Inv, Answers
    <3>2. CASE UNCHANGED reply
      BY <1>1, <3>2
    <3>3. CASE Answer(d, "err")
      BY <1>1, <3>1, <3>3, AnswerEffect DEF Inv
    <3> QED BY <2>3, <3>2, <3>3 DEF Reserve
  <2>4. CASE SyncDirectory(d)
    <3>1. Answer(d, "ok") /\ published[d]
      BY <1>1, <2>4 DEF SyncDirectory, At, Inv, Answers
    <3> QED BY <1>1, <3>1, AnswerEffect DEF Inv
  <2>5. CASE TryLock(d) \/ SyncMark(d) \/ Rename(d)
    BY <1>1, <2>5 DEF TryLock, SyncMark, Rename, answerVars
  <2> QED BY <1>1, <2>1, <2>2, <2>3, <2>4, <2>5 DEF UpdateStep
<1>2. ASSUME Inv, NEW d \in Daemons, NEW e \in Daemons, reply[e] = "none",
             Kill(d) \/ \E r \in Requests : Request(d, r)
      PROVE  reply'[e] = "none"
  BY <1>2 DEF Kill, Request, answerVars, Inv, StoreTypeOK
<1>3. ASSUME Inv, PowerFailure \/ Edit PROVE UNCHANGED reply
  BY <1>3 DEF PowerFailure, Edit, answerVars
<1>4. Inv /\ [StoreNext]_storeVars => [Truthful]_storeVars
  BY <1>1, <1>2, <1>3 DEF StoreNext
<1> QED BY <1>4, Invariance, PTL DEF StoreSpec, TruthfulReplies

\* The settings file implements the register: commits are whole and carry ever
\* higher revisions; all else that changes the file comes from outside.
THEOREM ImplementsRegister == StoreSpec => RegisterSpec
<1>1. ASSUME StoreInit PROVE Register!Init
  BY <1>1, InitInv DEF Register!Init, Register!Files, Register!Snapshots, Inv, StoreTypeOK, Files,
     Snapshots, StoreInit
<1>2. ASSUME Inv, NEW d \in Daemons, Rename(d) PROVE Register!Commit
  <2>1. base[d] \in Snapshots /\ request[d] \in Requests /\ next[d] \in 0..MaxRevision
    BY <1>2 DEF Inv, StoreTypeOK
  <2>2. next[d] > highest /\ highest \in 0..MaxRevision /\ request[d].value \notin Invalid
    BY <1>2 DEF Rename, At, Inv, StoreTypeOK, Fresh, ValidRequest
  <2>3. Mutated(base[d], request[d]) \in Settings /\ next[d] \in 1..MaxRevision
    BY <2>1, <2>2, MutatedType, StoreBoundAssumption DEF StoreBoundAssumption
  <2> QED BY <1>2, <2>2, <2>3 DEF Rename, Register!Commit
<1>3. ASSUME Inv, PowerFailure \/ Edit PROVE [Register!Outside]_Register!vars
  BY <1>3 DEF PowerFailure, Edit, Inv, StoreTypeOK, Register!Outside, Register!vars,
     Register!Files, Register!Snapshots, Files, Snapshots
<1>4. ASSUME NEW d \in Daemons,
             \/ \E r \in Requests : Request(d, r)
             \/ UpdateStep(d) /\ ~Rename(d)
             \/ Fail(d) \/ Kill(d)
      PROVE  UNCHANGED Register!vars
  BY <1>4 DEF Request, UpdateStep, TryLock, Expire, Load, Reserve, SyncMark, SyncDirectory,
     Fail, Kill, fileVars, Register!vars
<1>5. Inv /\ [StoreNext]_storeVars => [Register!Next]_Register!vars
  <2>1. ASSUME UNCHANGED storeVars PROVE UNCHANGED Register!vars
    BY <2>1 DEF storeVars, fileVars, Register!vars
  <2> QED BY <1>2, <1>3, <1>4, <2>1 DEF StoreNext, UpdateStep, Register!Next
<1> QED BY <1>1, <1>5, Invariance, PTL DEF StoreSpec, RegisterSpec, Register!Spec

-----------------------------------------------------------------------------
(***************************************************************************)
\* Induction over the natural numbers, of a set: the least number that is missing.
LEMMA Induction ==
  ASSUME NEW S, 0 \in S, \A n \in Nat : n \in S => n + 1 \in S
  PROVE  Nat \subseteq S
<1> DEFINE R == {p \in Nat \X Nat : p[1] < p[2]}
           T == Nat \ S
<1> SUFFICES ASSUME T # {} PROVE FALSE
  OBVIOUS
<1>1. IsWellFoundedOn(R, Nat)
  BY NatLessThanWellFounded DEF OpToRel
<1>2. T \subseteq Nat
  OBVIOUS
<1>3. \E x \in T : \A y \in T : ~(<<y, x>> \in R)
  <2> HIDE DEF R, T
  <2> QED BY <1>1, <1>2, WFMin
<1>4. PICK x \in T : \A y \in T : ~(<<y, x>> \in R)
  BY <1>3
<1>5. x \in Nat /\ x # 0
  OBVIOUS
<1>6. x - 1 \in Nat /\ x - 1 < x /\ x - 1 + 1 = x
  BY <1>5
<1>7. x - 1 \in T
  BY <1>5, <1>6
<1>8. <<x - 1, x>> \in R
  BY <1>5, <1>6
<1> QED BY <1>4, <1>7, <1>8

\* What is computed step by step: n steps of F from start.
Iterates(g, F, start, n) == g[0] = start /\ \A i \in 1..n : g[i] = F[<<i, g[i-1]>>]

LEMMA Iteration ==
  ASSUME NEW S, NEW start \in S, NEW n \in Nat, NEW F \in [(1..n) \X S -> S]
  PROVE  \E g \in [0..n -> S] : Iterates(g, F, start, n)
<1> USE DEF Iterates
<1> DEFINE Steps(k) == \E g \in [0..k -> S] : g[0] = start /\ \A i \in 1..k : g[i] = F[<<i, g[i-1]>>]
           T == {k \in Nat : k <= n => Steps(k)}
<1>1. 0 \in T
  <2>1. [i \in 0..0 |-> start] \in [0..0 -> S]
    OBVIOUS
  <2>2. [i \in 0..0 |-> start][0] = start
    OBVIOUS
  <2>3. 1..0 = {}
    OBVIOUS
  <2> QED BY <2>1, <2>2, <2>3
<1>2. ASSUME NEW k \in Nat, k \in T
      PROVE  k + 1 \in T
  <2> SUFFICES ASSUME k + 1 <= n PROVE Steps(k + 1)
    OBVIOUS
  <2>1. PICK g \in [0..k -> S] : g[0] = start /\ \A i \in 1..k : g[i] = F[<<i, g[i-1]>>]
    BY <1>2
  <2> DEFINE h == [i \in 0..(k+1) |-> IF i <= k THEN g[i] ELSE F[<<k+1, g[k]>>]]
  <2>2. g[k] \in S /\ k + 1 \in 1..n
    BY <2>1
  <2>3. F[<<k+1, g[k]>>] \in S
    BY <2>2
  <2>4. h \in [0..(k+1) -> S]
    BY <2>1, <2>3
  <2>5. h[0] = start
    BY <2>1
  <2>6. ASSUME NEW i \in 1..(k+1)
        PROVE  h[i] = F[<<i, h[i-1]>>]
    <3>1. i - 1 \in 0..k /\ h[i-1] = g[i-1]
      OBVIOUS
    <3>2. CASE i <= k
      BY <3>1, <3>2, <2>1
    <3>3. CASE i = k + 1
      <4>1. i \in 0..(k+1) /\ ~(i <= k) /\ i - 1 = k
        BY <3>3
      <4>2. h[i] = F[<<k+1, g[k]>>] /\ h[i-1] = g[k]
        BY <4>1
      <4> QED BY <4>2, <3>3
    <3> QED BY <3>2, <3>3
  <2> QED BY <2>4, <2>5, <2>6
<1>3. Nat \subseteq T
  <2> HIDE DEF T
  <2> QED BY <1>1, <1>2, Induction
<1> QED BY <1>3

-----------------------------------------------------------------------------
(***************************************************************************)
(* The notification daemon.                                                *)
(***************************************************************************)
\* The entries are few, each of its own notification and author.
EntriesOK(es, n, au) ==
  /\ es \in Seq(Entries) /\ Len(es) <= MaxRetained /\ NumberActive(es) <= MaxActive
  /\ \A i, j \in DOMAIN es : es[i].id = es[j].id => i = j
  /\ \A i \in DOMAIN es : es[i].id <= n /\ es[i].sender = au[es[i].id]

\* What is or will be sent is for the author and ends with the report of the end, which is
\* due exactly when no entry is active.
StreamOK(es, st, n, au) ==
  /\ st \in Seq(Events)
  /\ \A i \in DOMAIN st : st[i].id <= n /\ st[i].to = au[st[i].id]
  /\ \A i, j \in DOMAIN st : st[i].kind = "closed" /\ st[j].id = st[i].id => j <= i
  /\ \A id \in 1..n :
       Active(es, id) # {} <=> \A i \in DOMAIN st : st[i] # Closed(id, au[id])

DaemonInv ==
  /\ nextId \in 0..MaxId /\ author \in [Ids -> Apps \cup {"nobody"}]
  /\ step \in {"poll", "take", "send"} /\ (step # "send" => batch = <<>>)
  /\ clicks \in 0..MaxClicks /\ failures \in 0..MaxFailures
  /\ events \in Seq(Events) /\ Len(events) <= MaxEvents
  /\ batch \in Seq(Events) /\ sent \in Seq(Events)
  /\ EntriesOK(entries, nextId, author) /\ StreamOK(entries, Stream, nextId, author)

\* The entries that are active, by place.
Actives(es) == {i \in DOMAIN es : es[i].active}

LEMMA ActivesFinite ==
  ASSUME NEW es \in Seq(Entries)
  PROVE  /\ IsFiniteSet(Actives(es)) /\ NumberActive(es) = Cardinality(Actives(es))
         /\ NumberActive(es) \in Nat /\ NumberActive(es) <= Len(es)
<1>1. DOMAIN es = 1..Len(es) /\ Len(es) \in Nat
  OBVIOUS
<1>2. IsFiniteSet(1..Len(es)) /\ Cardinality(1..Len(es)) = Len(es)
  BY <1>1, FS_Interval
<1>3. Actives(es) \subseteq 1..Len(es)
  BY <1>1 DEF Actives
<1>4. IsFiniteSet(Actives(es)) /\ Cardinality(Actives(es)) <= Len(es)
  BY <1>2, <1>3, FS_Subset
<1>5. NumberActive(es) = Cardinality(Actives(es))
  BY DEF NumberActive, Actives
<1> QED BY <1>4, <1>5, FS_CardinalityType

LEMMA WithoutIs ==
  ASSUME NEW S, NEW es \in Seq(S), NEW i \in DOMAIN es
  PROVE  /\ Without(es, i) \in Seq(S) /\ Len(Without(es, i)) = Len(es) - 1
         /\ \A j \in 1..(Len(es) - 1) : Without(es, i)[j] = IF j < i THEN es[j] ELSE es[j + 1]
<1>1. Len(es) \in Nat /\ i \in 1..Len(es) /\ \A j \in 1..Len(es) : es[j] \in S
  OBVIOUS
<1> DEFINE l == SubSeq(es, 1, i - 1)
           r == SubSeq(es, i + 1, Len(es))
<1>2. l \in Seq(S) /\ Len(l) = i - 1 /\ \A j \in 1..(i - 1) : l[j] = es[j]
  BY <1>1
<1>3. r \in Seq(S) /\ Len(r) = Len(es) - i /\ \A j \in 1..(Len(es) - i) : r[j] = es[i + j]
  BY <1>1
<1> HIDE DEF l, r
<1>4. l \o r \in Seq(S) /\ Len(l \o r) = Len(es) - 1
  BY <1>1, <1>2, <1>3
<1>5. ASSUME NEW j \in 1..(Len(es) - 1)
      PROVE  (l \o r)[j] = IF j < i THEN es[j] ELSE es[j + 1]
  <2>1. CASE j < i
    <3>1. j \in 1..Len(l)
      BY <2>1, <1>1, <1>2
    <3>2. (l \o r)[j] = l[j]
      BY <3>1, <1>2, <1>3, ConcatProperties
    <3> QED BY <2>1, <3>1, <3>2, <1>2
  <2>2. CASE ~(j < i)
    <3>1. /\ j \in 1..(Len(l) + Len(r)) /\ ~(j <= Len(l))
          /\ j - Len(l) \in 1..(Len(es) - i) /\ i + (j - Len(l)) = j + 1
      BY <2>2, <1>1, <1>2, <1>3
    <3>2. \A k \in 1..(Len(l) + Len(r)) :
            (l \o r)[k] = IF k <= Len(l) THEN l[k] ELSE r[k - Len(l)]
      BY <1>2, <1>3, ConcatProperties
    <3>3. (l \o r)[j] = r[j - Len(l)]
      BY <3>1, <3>2
    <3> QED BY <2>2, <3>1, <3>3, <1>3
  <2> QED BY <2>1, <2>2
<1>6. Without(es, i) = l \o r
  BY DEF Without, l, r
<1> QED BY <1>4, <1>5, <1>6

\* The places of what stays move up.
LEMMA WithoutActives ==
  ASSUME NEW es \in Seq(Entries), NEW i \in DOMAIN es
  PROVE  /\ NumberActive(Without(es, i)) <= NumberActive(es)
         /\ es[i].active => NumberActive(Without(es, i)) <= NumberActive(es) - 1
<1> DEFINE w == Without(es, i)
           A == Actives(es) \ {i}
           f == [j \in Actives(w) |-> IF j < i THEN j ELSE j + 1]
<1>1. /\ w \in Seq(Entries) /\ Len(w) = Len(es) - 1 /\ Len(es) \in Nat /\ i \in 1..Len(es)
      /\ \A j \in 1..(Len(es) - 1) : w[j] = IF j < i THEN es[j] ELSE es[j + 1]
  <2>1. Len(es) \in Nat /\ i \in 1..Len(es)
    OBVIOUS
  <2> QED BY <2>1, WithoutIs
<1> HIDE DEF w
<1>2. f \in [Actives(w) -> A]
  <2> SUFFICES ASSUME NEW j \in Actives(w) PROVE (IF j < i THEN j ELSE j + 1) \in A
    OBVIOUS
  <2>1. j \in 1..(Len(es) - 1) /\ w[j].active
    BY <1>1 DEF Actives
  <2>2. CASE j < i
    <3>1. j \in 1..Len(es) /\ es[j] = w[j] /\ j # i
      BY <2>1, <2>2, <1>1
    <3> QED BY <2>1, <2>2, <3>1 DEF Actives
  <2>3. CASE ~(j < i)
    <3>1. j + 1 \in 1..Len(es) /\ es[j + 1] = w[j] /\ j + 1 # i
      BY <2>1, <2>3, <1>1
    <3> QED BY <2>1, <2>3, <3>1 DEF Actives
  <2> QED BY <2>2, <2>3
<1>3. ASSUME NEW j \in Actives(w), NEW k \in Actives(w), f[j] = f[k]
      PROVE  j = k
  <2>1. j \in Int /\ k \in Int
    BY <1>1 DEF Actives
  <2> QED BY <2>1, <1>1, <1>3
<1>4. f \in Injection(Actives(w), A)
  BY <1>2, <1>3 DEF Injection, IsInjective
<1>5. IsFiniteSet(Actives(es)) /\ NumberActive(es) = Cardinality(Actives(es)) /\ NumberActive(es) \in Nat
  BY ActivesFinite
<1>6. IsFiniteSet(A) /\ Cardinality(A) <= NumberActive(es)
      /\ (i \in Actives(es) => Cardinality(A) = NumberActive(es) - 1)
  <2>1. A \subseteq Actives(es)
    OBVIOUS
  <2> QED BY <1>5, <2>1, FS_RemoveElement, FS_Subset
<1>7. Cardinality(Actives(w)) <= Cardinality(A)
  BY <1>4, <1>6, FS_Injection
<1>8. NumberActive(w) = Cardinality(Actives(w)) /\ NumberActive(w) \in Nat
  BY <1>1, ActivesFinite
<1>9. es[i].active => i \in Actives(es)
  BY DEF Actives
<1>10. Cardinality(A) \in Nat
  BY <1>6, FS_CardinalityType
<1> QED BY <1>5, <1>6, <1>7, <1>8, <1>9, <1>10 DEF w

\* What stays of the entries keeps what is said of them.
LEMMA WithoutOK ==
  ASSUME NEW n \in 0..MaxId, NEW au, NEW es, EntriesOK(es, n, au), NEW i \in DOMAIN es
  PROVE  /\ EntriesOK(Without(es, i), n, au) /\ Len(Without(es, i)) = Len(es) - 1
         /\ es[i].active => NumberActive(Without(es, i)) <= NumberActive(es) - 1
         /\ \A id : id # es[i].id => (Active(Without(es, i), id) # {} <=> Active(es, id) # {})
         /\ \A j \in DOMAIN Without(es, i) : Without(es, i)[j].id # es[i].id
<1> DEFINE w == Without(es, i)
           Place(j) == IF j < i THEN j ELSE j + 1
<1>1. es \in Seq(Entries) /\ Len(es) \in Nat /\ i \in 1..Len(es) /\ DOMAIN es = 1..Len(es)
  BY DEF EntriesOK
<1>2. /\ w \in Seq(Entries) /\ Len(w) = Len(es) - 1 /\ DOMAIN w = 1..(Len(es) - 1)
      /\ \A j \in 1..(Len(es) - 1) : w[j] = IF j < i THEN es[j] ELSE es[j + 1]
  <2>1. /\ w \in Seq(Entries) /\ Len(w) = Len(es) - 1
        /\ \A j \in 1..(Len(es) - 1) : w[j] = IF j < i THEN es[j] ELSE es[j + 1]
    BY <1>1, WithoutIs
  <2> HIDE DEF w
  <2>2. DOMAIN w = 1..Len(w)
    BY <2>1
  <2> QED BY <2>1, <2>2
<1>3. NumberActive(w) <= NumberActive(es) /\ (es[i].active => NumberActive(w) <= NumberActive(es) - 1)
  BY <1>1, WithoutActives
<1>4. NumberActive(w) \in Nat /\ NumberActive(es) \in Nat
  BY <1>1, <1>2, ActivesFinite
<1> HIDE DEF w
<1>5. \A j \in DOMAIN w : Place(j) \in 1..Len(es) /\ Place(j) # i /\ w[j] = es[Place(j)]
  BY <1>1, <1>2
<1>6. \A j, k \in DOMAIN w : Place(j) = Place(k) => j = k
  BY <1>1, <1>2
<1>7. \A k \in 1..Len(es) : k # i => \E j \in DOMAIN w : Place(j) = k
  <2> SUFFICES ASSUME NEW k \in 1..Len(es), k # i PROVE \E j \in DOMAIN w : Place(j) = k
    OBVIOUS
  <2>1. CASE k < i
    BY <2>1, <1>1, <1>2
  <2>2. CASE k > i
    <3>1. k - 1 \in DOMAIN w /\ Place(k - 1) = k
      BY <2>2, <1>1, <1>2
    <3> QED BY <3>1
  <2> QED BY <2>1, <2>2, <1>1
<1> HIDE DEF Place
<1>8. /\ \A j, k \in 1..Len(es) : es[j].id = es[k].id => j = k
      /\ \A j \in 1..Len(es) : es[j].id <= n /\ es[j].sender = au[es[j].id]
      /\ Len(es) <= MaxRetained /\ NumberActive(es) <= MaxActive
  BY <1>1 DEF EntriesOK
<1>9. \A j, k \in DOMAIN w : w[j].id = w[k].id => j = k
  BY <1>5, <1>6, <1>8
<1>10. \A j \in DOMAIN w : w[j].id <= n /\ w[j].sender = au[w[j].id]
  BY <1>5, <1>8
<1>11. EntriesOK(w, n, au)
  <2>1. Len(w) <= MaxRetained /\ NumberActive(w) <= MaxActive
    BY <1>1, <1>2, <1>3, <1>4, <1>8, LimitAssumption DEF LimitAssumption
  <2> QED BY <1>2, <1>9, <1>10, <2>1 DEF EntriesOK
<1>12. ASSUME NEW id, id # es[i].id
       PROVE  Active(w, id) # {} <=> Active(es, id) # {}
  <2>1. ASSUME NEW j \in Active(w, id) PROVE Place(j) \in Active(es, id)
    BY <2>1, <1>1, <1>5 DEF Active
  <2>2. ASSUME NEW k \in Active(es, id) PROVE \E j \in DOMAIN w : j \in Active(w, id)
    <3>1. k \in 1..Len(es) /\ k # i /\ es[k].id = id /\ es[k].active
      BY <2>2, <1>1, <1>12 DEF Active
    <3>2. PICK j \in DOMAIN w : Place(j) = k
      BY <3>1, <1>7
    <3> QED BY <3>1, <3>2, <1>5 DEF Active
  <2> QED BY <2>1, <2>2
<1>13. \A j \in DOMAIN w : w[j].id # es[i].id
  BY <1>1, <1>5, <1>8
<1> QED BY <1>2, <1>3, <1>11, <1>12, <1>13 DEF w

\* An entry of a notification that has none is put before the others.
LEMMA AddedOK ==
  ASSUME NEW n \in 0..MaxId, NEW au, NEW es, EntriesOK(es, n, au), NEW e \in Entries,
         e.active, e.id <= n, e.sender = au[e.id], \A j \in DOMAIN es : es[j].id # e.id,
         Len(es) < MaxRetained, NumberActive(es) < MaxActive
  PROVE  /\ EntriesOK(<<e>> \o es, n, au)
         /\ Active(<<e>> \o es, e.id) # {}
         /\ \A id : id # e.id => (Active(<<e>> \o es, id) # {} <=> Active(es, id) # {})
<1> DEFINE w == <<e>> \o es
           f == [j \in Actives(w) |-> j - 1]
<1>1. es \in Seq(Entries) /\ Len(es) \in Nat /\ DOMAIN es = 1..Len(es)
      /\ (\A j, k \in 1..Len(es) : es[j].id = es[k].id => j = k)
      /\ (\A j \in 1..Len(es) : es[j].id <= n /\ es[j].sender = au[es[j].id])
  BY DEF EntriesOK
<1>2. /\ w \in Seq(Entries) /\ Len(w) = Len(es) + 1 /\ DOMAIN w = 1..(Len(es) + 1)
      /\ w[1] = e /\ \A j \in 2..(Len(es) + 1) : w[j] = es[j - 1]
  <2>1. <<e>> \in Seq(Entries) /\ Len(<<e>>) = 1 /\ <<e>>[1] = e
    OBVIOUS
  <2>2. /\ w \in Seq(Entries) /\ Len(w) = Len(<<e>>) + Len(es)
        /\ \A j \in 1..(Len(<<e>>) + Len(es)) :
             w[j] = IF j <= Len(<<e>>) THEN <<e>>[j] ELSE es[j - Len(<<e>>)]
    BY <2>1, <1>1, ConcatProperties
  <2> HIDE DEF w
  <2>3. Len(w) = Len(es) + 1 /\ DOMAIN w = 1..(Len(es) + 1)
    BY <1>1, <2>1, <2>2
  <2>4. w[1] = e
    BY <1>1, <2>1, <2>2
  <2>5. ASSUME NEW j \in 2..(Len(es) + 1) PROVE w[j] = es[j - 1]
    BY <1>1, <2>1, <2>2
  <2> QED BY <2>2, <2>3, <2>4, <2>5
<1> HIDE DEF w
<1>3. \A j \in DOMAIN w : j = 1 \/ (j - 1 \in 1..Len(es) /\ w[j] = es[j - 1] /\ j \in Int)
  BY <1>1, <1>2
<1>4. \A j, k \in DOMAIN w : w[j].id = w[k].id => j = k
  <2> SUFFICES ASSUME NEW j \in DOMAIN w, NEW k \in DOMAIN w, w[j].id = w[k].id PROVE j = k
    OBVIOUS
  <2>1. CASE j = 1 \/ k = 1
    BY <2>1, <1>1, <1>2, <1>3
  <2>2. CASE j # 1 /\ k # 1
    <3>1. j - 1 = k - 1 /\ j \in Int /\ k \in Int
      BY <2>2, <1>1, <1>3
    <3> QED BY <3>1
  <2> QED BY <2>1, <2>2
<1>5. \A j \in DOMAIN w : w[j].id <= n /\ w[j].sender = au[w[j].id]
  BY <1>1, <1>2, <1>3
<1>6. f \in [Actives(w) -> Actives(es) \cup {0}]
  <2> SUFFICES ASSUME NEW j \in Actives(w) PROVE j - 1 \in Actives(es) \cup {0}
    OBVIOUS
  <2>1. j \in DOMAIN w /\ w[j].active
    BY DEF Actives
  <2>2. CASE j = 1
    BY <2>2
  <2>3. CASE j # 1
    BY <2>1, <2>3, <1>1, <1>3 DEF Actives
  <2> QED BY <2>2, <2>3
<1>7. ASSUME NEW j \in Actives(w), NEW k \in Actives(w), f[j] = f[k] PROVE j = k
  <2>1. j \in Int /\ k \in Int
    BY <1>1, <1>2 DEF Actives
  <2> QED BY <2>1, <1>7
<1>8. f \in Injection(Actives(w), Actives(es) \cup {0})
  BY <1>6, <1>7 DEF Injection, IsInjective
<1>9. IsFiniteSet(Actives(es)) /\ NumberActive(es) = Cardinality(Actives(es)) /\ NumberActive(es) \in Nat
  BY <1>1, ActivesFinite
<1>10. 0 \notin Actives(es)
  BY <1>1 DEF Actives
<1>11. IsFiniteSet(Actives(es) \cup {0}) /\ Cardinality(Actives(es) \cup {0}) = NumberActive(es) + 1
  BY <1>9, <1>10, FS_AddElement
<1>12. Cardinality(Actives(w)) <= NumberActive(es) + 1
  <2> DEFINE B == Actives(es) \cup {0}
  <2>1. f \in Injection(Actives(w), B) /\ IsFiniteSet(B) /\ Cardinality(B) = NumberActive(es) + 1
    BY <1>8, <1>11
  <2> HIDE DEF f, B
  <2> QED BY <2>1, FS_Injection
<1>13. NumberActive(w) = Cardinality(Actives(w)) /\ NumberActive(w) \in Nat
  BY <1>2, ActivesFinite
<1>14. EntriesOK(w, n, au)
  <2>1. Len(w) <= MaxRetained /\ NumberActive(w) <= MaxActive
    BY <1>1, <1>2, <1>9, <1>12, <1>13, LimitAssumption DEF LimitAssumption
  <2> QED BY <1>2, <1>4, <1>5, <2>1 DEF EntriesOK
<1>15. 1 \in DOMAIN w /\ 1 \in Active(w, e.id)
  BY <1>1, <1>2 DEF Active
<1>16. ASSUME NEW id, id # e.id
       PROVE  Active(w, id) # {} <=> Active(es, id) # {}
  <2>1. ASSUME NEW j \in Active(w, id) PROVE j - 1 \in Active(es, id)
    BY <2>1, <1>1, <1>2, <1>3, <1>16 DEF Active
  <2>2. ASSUME NEW k \in Active(es, id) PROVE k + 1 \in Active(w, id)
    <3>1. k \in 1..Len(es) /\ k + 1 \in 2..(Len(es) + 1) /\ k + 1 - 1 = k /\ k + 1 \in DOMAIN w
      BY <2>2, <1>1, <1>2 DEF Active
    <3>2. w[k + 1] = es[k]
      BY <3>1, <1>2
    <3> QED BY <2>2, <3>1, <3>2 DEF Active
  <2> QED BY <2>1, <2>2
<1> QED BY <1>14, <1>15, <1>16 DEF w

\* One signal more: nothing about an end that was reported, and if it reports one, that of
\* an entry that is active no more.
LEMMA StreamAppend ==
  ASSUME NEW n \in 0..MaxId, NEW au, NEW es, NEW fs, NEW st, StreamOK(es, st, n, au),
         NEW e \in Events, e.id <= n, e.to = au[e.id], Active(es, e.id) # {},
         e.kind = "closed" <=> Active(fs, e.id) = {},
         \A id : id # e.id => (Active(fs, id) # {} <=> Active(es, id) # {})
  PROVE  StreamOK(fs, Append(st, e), n, au)
<1> DEFINE t == Append(st, e)
<1>1. /\ st \in Seq(Events) /\ Len(st) \in Nat /\ DOMAIN st = 1..Len(st)
      /\ (\A i \in 1..Len(st) : st[i].id <= n /\ st[i].to = au[st[i].id])
      /\ (\A i, j \in 1..Len(st) : st[i].kind = "closed" /\ st[j].id = st[i].id => j <= i)
      /\ (\A id \in 1..n : Active(es, id) # {} <=> \A i \in 1..Len(st) : st[i] # Closed(id, au[id]))
  BY DEF StreamOK
<1>2. /\ t \in Seq(Events) /\ Len(t) = Len(st) + 1 /\ DOMAIN t = 1..(Len(st) + 1)
      /\ t[Len(st) + 1] = e /\ \A i \in 1..Len(st) : t[i] = st[i]
  BY <1>1
<1> HIDE DEF t
<1>3. \A i \in DOMAIN t : i = Len(st) + 1 \/ (i \in 1..Len(st) /\ t[i] = st[i])
  BY <1>1, <1>2
<1>4. \A i \in DOMAIN t : t[i].id <= n /\ t[i].to = au[t[i].id]
  BY <1>1, <1>2, <1>3
<1>5. e.id \in 1..n /\ e.kind \in {"closed", "action"}
  BY DEF Events, Ids
<1>6. ASSUME NEW i \in 1..Len(st), st[i].kind = "closed" PROVE st[i].id # e.id
  <2>1. st[i] \in Events
    BY <1>1
  <2>2. st[i] = Closed(st[i].id, au[st[i].id])
    BY <2>1, <1>1, <1>6 DEF Events, Closed
  <2> QED BY <1>1, <1>5, <2>2
<1>7. \A i, j \in DOMAIN t : t[i].kind = "closed" /\ t[j].id = t[i].id => j <= i
  <2> SUFFICES ASSUME NEW i \in DOMAIN t, NEW j \in DOMAIN t,
                      t[i].kind = "closed", t[j].id = t[i].id
               PROVE  j <= i
    OBVIOUS
  <2>1. CASE i = Len(st) + 1
    BY <2>1, <1>1, <1>2
  <2>2. CASE i # Len(st) + 1 /\ j # Len(st) + 1
    BY <2>2, <1>1, <1>3
  <2>3. CASE i # Len(st) + 1 /\ j = Len(st) + 1
    BY <2>3, <1>2, <1>3, <1>6
  <2> QED BY <2>1, <2>2, <2>3
<1>8. ASSUME NEW id \in 1..n
      PROVE  Active(fs, id) # {} <=> \A i \in DOMAIN t : t[i] # Closed(id, au[id])
  <2>1. CASE id # e.id
    <3>1. e # Closed(id, au[id])
      BY <2>1 DEF Closed
    <3> DEFINE end == Closed(id, au[id])
    <3> HIDE DEF end
    <3>2. ASSUME NEW i \in 1..Len(st) PROVE i \in DOMAIN t /\ t[i] = st[i]
      BY <1>1, <1>2
    <3>3. ASSUME NEW i \in DOMAIN t PROVE t[i] = e \/ (i \in 1..Len(st) /\ t[i] = st[i])
      BY <1>2, <1>3
    <3>4. (\A i \in DOMAIN t : t[i] # end) <=> \A i \in 1..Len(st) : st[i] # end
      BY <3>1, <3>2, <3>3, Zenon DEF end
    <3> QED BY <2>1, <3>4, <1>1 DEF end
  <2>2. CASE id = e.id /\ e.kind = "closed"
    <3>1. e = Closed(id, au[id])
      BY <2>2 DEF Closed, Events
    <3>2. Len(st) + 1 \in DOMAIN t /\ t[Len(st) + 1] = e
      BY <1>1, <1>2
    <3> QED BY <2>2, <3>1, <3>2
  <2>3. CASE id = e.id /\ e.kind # "closed"
    <3>1. e # Closed(id, au[id])
      BY <2>3 DEF Closed
    <3>2. \A i \in 1..Len(st) : st[i] # Closed(id, au[id])
      BY <2>3, <1>1
    <3> QED BY <2>3, <3>1, <3>2, <1>2, <1>3
  <2> QED BY <2>1, <2>2, <2>3
<1> QED BY <1>2, <1>4, <1>7, <1>8 DEF StreamOK, t

\* State::close, where there is an entry that is active.
LEMMA Closing ==
  ASSUME NEW n \in 0..MaxId, NEW au, NEW es, EntriesOK(es, n, au), NEW id \in Ids,
         Active(es, id) # {}
  PROVE  /\ EntriesOK(EntriesAfterClose(es, id), n, au)
         /\ Active(EntriesAfterClose(es, id), id) = {}
         /\ \A o : o # id => (Active(EntriesAfterClose(es, id), o) # {} <=> Active(es, o) # {})
         /\ \A evs : EventsAfterClose(es, evs, id) = Append(evs, Closed(id, au[id]))
         /\ id <= n /\ Closed(id, au[id]) \in Events
<1>1. /\ es \in Seq(Entries) /\ Len(es) \in Nat /\ DOMAIN es = 1..Len(es)
      /\ (\A j, k \in 1..Len(es) : es[j].id = es[k].id => j = k)
      /\ (\A j \in 1..Len(es) : es[j].id <= n /\ es[j].sender = au[es[j].id])
      /\ Len(es) <= MaxRetained /\ NumberActive(es) <= MaxActive
  BY DEF EntriesOK
<1>2. PICK i \in 1..Len(es) : es[i].id = id /\ es[i].active
  BY <1>1 DEF Active
<1>3. (CHOOSE j \in DOMAIN es : es[j].id = id) = i
  BY <1>1, <1>2
<1>4. es[i] \in Entries /\ es[i].sender = au[id] /\ id <= n
  BY <1>1, <1>2
<1>5. Closed(id, au[id]) \in Events
  BY <1>4 DEF Entries, Closed, Events
<1>6. \A evs : EventsAfterClose(es, evs, id) = Append(evs, Closed(id, au[id]))
  BY <1>3, <1>4 DEF EventsAfterClose
<1>7. CASE es[i].transient
  <2>1. EntriesAfterClose(es, id) = Without(es, i)
    BY <1>3, <1>7 DEF EntriesAfterClose
  <2>2. i \in DOMAIN es
    BY <1>1
  <2>3. /\ EntriesOK(Without(es, i), n, au)
        /\ \A o : o # id => (Active(Without(es, i), o) # {} <=> Active(es, o) # {})
        /\ \A j \in DOMAIN Without(es, i) : Without(es, i)[j].id # id
    BY <2>2, <1>2, WithoutOK
  <2>4. Active(Without(es, i), id) = {}
    BY <2>3 DEF Active
  <2> QED BY <2>1, <2>3, <2>4, <1>4, <1>5, <1>6
<1>8. CASE ~es[i].transient
  <2> DEFINE fs == [es EXCEPT ![i].active = FALSE, ![i].keys = {}]
  <2>1. EntriesAfterClose(es, id) = fs
    BY <1>3, <1>8 DEF EntriesAfterClose
  <2>2. /\ DOMAIN fs = 1..Len(es) /\ \A j \in 1..Len(es) : j # i => fs[j] = es[j]
    BY <1>1
  <2>3. fs[i] = [es[i] EXCEPT !.active = FALSE, !.keys = {}]
    BY <1>1
  <2>4. fs[i] \in Entries /\ fs[i].id = es[i].id /\ fs[i].sender = es[i].sender /\ fs[i].active = FALSE
    <3>1. ASSUME NEW x \in Entries, NEW y, y = [x EXCEPT !.active = FALSE, !.keys = {}]
          PROVE  y \in Entries /\ y.id = x.id /\ y.sender = x.sender /\ y.active = FALSE
      <4>1. DOMAIN x = {"id", "sender", "keys", "resident", "transient", "active", "due"}
        BY DEF Entries
      <4>2. y = [id |-> x.id, sender |-> x.sender, keys |-> {}, resident |-> x.resident,
                 transient |-> x.transient, active |-> FALSE, due |-> x.due]
        BY <3>1, <4>1 DEF Entries
      <4> QED BY <4>2 DEF Entries
    <3> HIDE DEF fs
    <3> QED BY <2>3, <1>4, <3>1
  <2>5. fs \in Seq(Entries) /\ Len(fs) = Len(es)
    <3>1. fs = [j \in 1..Len(es) |-> fs[j]]
      BY <1>1
    <3> HIDE DEF fs
    <3>2. \A j \in 1..Len(es) : fs[j] \in Entries
      BY <1>1, <2>2, <2>4
    <3>3. [j \in 1..Len(es) |-> fs[j]] \in Seq(Entries) /\ Len([j \in 1..Len(es) |-> fs[j]]) = Len(es)
      BY <1>1, <3>2
    <3> QED BY <3>1, <3>3
  <2> HIDE DEF fs
  <2>6. \A j \in 1..Len(es) : /\ fs[j].id = es[j].id /\ fs[j].sender = es[j].sender
                              /\ fs[j].active => es[j].active
                              /\ j # i => fs[j] = es[j]
    BY <2>2, <2>4
  <2>7. NumberActive(fs) <= MaxActive
    <3>1. Actives(fs) \subseteq Actives(es)
      BY <1>1, <2>2, <2>6 DEF Actives
    <3>2. IsFiniteSet(Actives(es)) /\ NumberActive(es) = Cardinality(Actives(es)) /\ NumberActive(es) \in Nat
          /\ NumberActive(fs) = Cardinality(Actives(fs)) /\ NumberActive(fs) \in Nat
      BY <1>1, <2>5, ActivesFinite
    <3>3. Cardinality(Actives(fs)) <= Cardinality(Actives(es))
      BY <3>1, <3>2, FS_Subset
    <3> QED BY <3>2, <3>3, <1>1, LimitAssumption DEF LimitAssumption
  <2>8. /\ \A j, k \in DOMAIN fs : fs[j].id = fs[k].id => j = k
        /\ \A j \in DOMAIN fs : fs[j].id <= n /\ fs[j].sender = au[fs[j].id]
    BY <2>2, <2>6, <1>1
  <2>9. EntriesOK(fs, n, au)
    BY <2>5, <2>7, <2>8, <1>1 DEF EntriesOK
  <2>10. Active(fs, id) = {}
    <3>1. ASSUME NEW j \in DOMAIN fs, fs[j].id = id PROVE ~fs[j].active
      BY <3>1, <2>2, <2>4, <2>6, <1>1, <1>2
    <3> QED BY <3>1 DEF Active
  <2>11. ASSUME NEW o, o # id PROVE Active(fs, o) # {} <=> Active(es, o) # {}
    <3>1. \A j \in 1..Len(es) : es[j].id = o => fs[j] = es[j]
      BY <2>6, <2>11, <1>2
    <3>2. \A j \in 1..Len(es) : fs[j].id = es[j].id
      BY <2>6
    <3>3. Active(fs, o) = Active(es, o)
      BY <3>1, <3>2, <2>2, <1>1 DEF Active
    <3> QED BY <3>3
  <2> QED BY <2>1, <2>9, <2>10, <2>11, <1>4, <1>5, <1>6
<1> QED BY <1>7, <1>8

LEMMA ConcatAppend ==
  ASSUME NEW S, NEW s \in Seq(S), NEW t \in Seq(S), NEW e \in S
  PROVE  s \o Append(t, e) = Append(s \o t, e)
OBVIOUS

-----------------------------------------------------------------------------
\* What the loop that closes what is due goes through, and one turn of it.
Dues ==
  {s \in [entries : Seq(Entries), events : Seq(Events)] :
     /\ EntriesOK(s.entries, nextId, author)
     /\ StreamOK(s.entries, sent \o s.events, nextId, author)}
Turn(i, s) ==
  IF entries[i].active /\ entries[i].due = "now" THEN CloseIfRoom(s, entries[i].id) ELSE s

LEMMA TurnKeeps ==
  ASSUME nextId \in 0..MaxId, sent \in Seq(Events), entries \in Seq(Entries),
         NEW i \in 1..Len(entries), NEW s \in Dues
  PROVE  Turn(i, s) \in Dues
<1> DEFINE id == entries[i].id
<1>1. /\ s \in [entries : Seq(Entries), events : Seq(Events)]
      /\ EntriesOK(s.entries, nextId, author)
      /\ StreamOK(s.entries, sent \o s.events, nextId, author)
  BY DEF Dues
<1>2. id \in Ids
  <2>1. entries[i] \in Entries
    OBVIOUS
  <2> QED BY <2>1 DEF Entries
<1>a. id = entries[i].id
  OBVIOUS
<1> HIDE DEF id
<1>3. CASE entries[i].active /\ entries[i].due = "now" /\ CanClose(s.entries, s.events, id)
  <2> DEFINE fs == EntriesAfterClose(s.entries, id)
             e == Closed(id, author[id])
  <2>1. Active(s.entries, id) # {}
    BY <1>3 DEF CanClose
  <2>2. /\ EntriesOK(fs, nextId, author) /\ Active(fs, id) = {}
        /\ \A o : o # id => (Active(fs, o) # {} <=> Active(s.entries, o) # {})
        /\ \A evs : EventsAfterClose(s.entries, evs, id) = Append(evs, e)
        /\ id <= nextId /\ e \in Events
    <3> DEFINE es == s.entries
    <3>1. EntriesOK(es, nextId, author) /\ Active(es, id) # {}
      BY <1>1, <2>1
    <3> HIDE DEF es
    <3>2. /\ EntriesOK(EntriesAfterClose(es, id), nextId, author)
          /\ Active(EntriesAfterClose(es, id), id) = {}
          /\ \A o : o # id => (Active(EntriesAfterClose(es, id), o) # {} <=> Active(es, o) # {})
          /\ \A evs : EventsAfterClose(es, evs, id) = Append(evs, Closed(id, author[id]))
          /\ id <= nextId /\ Closed(id, author[id]) \in Events
      BY <1>2, <3>1, Closing
    <3> QED BY <3>2 DEF es
  <2>3. Turn(i, s) = [entries |-> fs, events |-> Append(s.events, e)]
    BY <1>3, <1>a, <2>2 DEF Turn, CloseIfRoom
  <2>4. e.id = id /\ e.to = author[id] /\ e.kind = "closed"
    BY DEF Closed
  <2> HIDE DEF fs, e
  <2>5. StreamOK(fs, Append(sent \o s.events, e), nextId, author)
    BY <1>1, <2>1, <2>2, <2>4, StreamAppend
  <2>6. s.events \in Seq(Events) /\ sent \o Append(s.events, e) = Append(sent \o s.events, e)
    <3>1. s.events \in Seq(Events)
      BY <1>1
    <3>2. e \in Events
      BY <2>2
    <3>3. sent \o Append(s.events, e) = Append(sent \o s.events, e)
      BY <3>1, <3>2, ConcatAppend
    <3> QED BY <3>1, <3>3
  <2>7. fs \in Seq(Entries) /\ Append(s.events, e) \in Seq(Events)
    BY <2>2, <2>6 DEF EntriesOK
  <2> DEFINE evs == Append(s.events, e)
  <2>8. StreamOK(fs, sent \o evs, nextId, author)
    BY <2>5, <2>6
  <2> HIDE DEF evs
  <2>9. [entries |-> fs, events |-> evs] \in Dues
    BY <2>2, <2>7, <2>8 DEF Dues, evs
  <2> QED BY <2>3, <2>9 DEF evs
<1>4. CASE ~(entries[i].active /\ entries[i].due = "now" /\ CanClose(s.entries, s.events, id))
  <2>1. Turn(i, s) = s
    BY <1>4, <1>a DEF Turn, CloseIfRoom
  <2> QED BY <2>1
<1> QED BY <1>3, <1>4

\* The recursion that defines AfterDue has a solution, so that Expired goes through sound
\* states only.
LEMMA ExpiredSound ==
  ASSUME nextId \in 0..MaxId, sent \in Seq(Events), entries \in Seq(Entries),
         [entries |-> entries, events |-> events] \in Dues
  PROVE  Expired \in Dues
<1> DEFINE N == Len(entries)
           start == [entries |-> entries, events |-> events]
           F == [p \in (1..N) \X Dues |-> Turn(p[1], p[2])]
           Solves(f) == f = [i \in 0..N |-> IF i = 0 THEN start ELSE Turn(i, f[i-1])]
<1>1. N \in Nat /\ start \in Dues
  OBVIOUS
<1>2. F \in [(1..N) \X Dues -> Dues]
  BY TurnKeeps
<1>3. \E g \in [0..N -> Dues] : Iterates(g, F, start, N)
  <2> HIDE DEF F, N, start
  <2> QED BY <1>1, <1>2, Iteration
<1>4. PICK g \in [0..N -> Dues] : g[0] = start /\ \A i \in 1..N : g[i] = F[<<i, g[i-1]>>]
  BY <1>3 DEF Iterates
<1>5. \A i \in 1..N : g[i] = Turn(i, g[i-1])
  <2> SUFFICES ASSUME NEW i \in 1..N PROVE g[i] = Turn(i, g[i-1])
    OBVIOUS
  <2>1. g[i-1] \in Dues
    BY <1>1, <1>4
  <2>2. F[<<i, g[i-1]>>] = Turn(i, g[i-1])
    BY <2>1
  <2> QED BY <2>2, <1>4
<1>6. Solves(g)
  <2> HIDE DEF start
  <2>1. \A i \in 0..N : g[i] = IF i = 0 THEN start ELSE Turn(i, g[i-1])
    <3> SUFFICES ASSUME NEW i \in 0..N PROVE g[i] = IF i = 0 THEN start ELSE Turn(i, g[i-1])
      OBVIOUS
    <3>1. CASE i = 0
      BY <1>4, <3>1
    <3>2. CASE i # 0
      <4>1. i \in 1..N
        BY <3>2, <1>1
      <4> QED BY <4>1, <3>2, <1>5
    <3> QED BY <3>1, <3>2
  <2> HIDE DEF N
  <2> QED BY <2>1, <1>4
<1>7. AfterDue = CHOOSE f : Solves(f)
  BY DEF AfterDue, Turn
<1>8. Solves(AfterDue)
  <2> HIDE DEF Solves
  <2> QED BY <1>6, <1>7
<1>9. AfterDue[0] = start /\ \A i \in 1..N : AfterDue[i] = Turn(i, AfterDue[i-1])
  <2> HIDE DEF start
  <2>1. 0 \in 0..N /\ AfterDue[0] = start
    BY <1>8, <1>1
  <2>2. ASSUME NEW i \in 1..N PROVE AfterDue[i] = Turn(i, AfterDue[i-1])
    <3>1. i \in 0..N /\ i # 0
      BY <1>1
    <3> HIDE DEF N
    <3> QED BY <3>1, <1>8
  <2> QED BY <2>1, <2>2
<1> HIDE DEF Solves, F
<1> DEFINE T == {k \in Nat : k <= N => AfterDue[k] \in Dues}
<1>10. 0 \in T
  BY <1>1, <1>9
<1>11. ASSUME NEW k \in Nat, k \in T PROVE k + 1 \in T
  <2> SUFFICES ASSUME k + 1 <= N PROVE AfterDue[k + 1] \in Dues
    OBVIOUS
  <2>1. k + 1 \in 1..N /\ k + 1 - 1 = k /\ AfterDue[k] \in Dues
    BY <1>1, <1>11
  <2>2. AfterDue[k + 1] = Turn(k + 1, AfterDue[k])
    BY <2>1, <1>9
  <2> QED BY <2>1, <2>2, TurnKeeps
<1>12. Nat \subseteq T
  <2> HIDE DEF T
  <2> QED BY <1>10, <1>11, Induction
<1> QED BY <1>1, <1>12 DEF Expired

-----------------------------------------------------------------------------
(* What is put in, and what makes room for it. *)

LEMMA Greatest ==
  ASSUME NEW N \in Nat, NEW T, T \subseteq 1..N, T # {}
  PROVE  \E i \in T : \A j \in T : j <= i
<1> DEFINE S == {k \in Nat : \A U \in SUBSET (1..k) : U # {} => \E i \in U : \A j \in U : j <= i}
<1>1. 0 \in S
  <2>1. 1..0 = {}
    OBVIOUS
  <2> QED BY <2>1
<1>2. ASSUME NEW k \in Nat, k \in S PROVE k + 1 \in S
  <2> SUFFICES ASSUME NEW U \in SUBSET (1..(k + 1)), U # {} PROVE \E i \in U : \A j \in U : j <= i
    OBVIOUS
  <2>1. CASE k + 1 \in U
    BY <2>1
  <2>2. CASE k + 1 \notin U
    <3>1. U \in SUBSET (1..k)
      BY <2>2
    <3> QED BY <3>1, <1>2
  <2> QED BY <2>1, <2>2
<1>3. Nat \subseteq S
  <2> HIDE DEF S
  <2> QED BY <1>1, <1>2, Induction
<1> QED BY <1>3

LEMMA EvictOK ==
  ASSUME NEW n \in 0..MaxId, NEW au, NEW es, EntriesOK(es, n, au), NumberActive(es) < MaxActive
  PROVE  /\ EntriesOK(Evict(es), n, au) /\ Len(Evict(es)) < MaxRetained
         /\ NumberActive(Evict(es)) < MaxActive
         /\ \A id : Active(Evict(es), id) # {} <=> Active(es, id) # {}
         /\ \A j \in DOMAIN Evict(es) : \E k \in DOMAIN es : Evict(es)[j].id = es[k].id
<1>1. /\ es \in Seq(Entries) /\ Len(es) \in Nat /\ DOMAIN es = 1..Len(es)
      /\ (\A j, k \in 1..Len(es) : es[j].id = es[k].id => j = k)
      /\ Len(es) <= MaxRetained
  BY DEF EntriesOK
<1>2. MaxRetained \in Nat /\ MaxActive \in Nat /\ MaxActive <= MaxRetained
  BY LimitAssumption DEF LimitAssumption
<1>3. CASE Len(es) >= MaxRetained
  <2> DEFINE closed == {i \in DOMAIN es : ~es[i].active}
             i == CHOOSE i \in closed : \A j \in closed : j <= i
             w == Without(es, i)
  <2>1. closed # {}
    <3> SUFFICES ASSUME closed = {} PROVE FALSE
      OBVIOUS
    <3>1. Actives(es) = 1..Len(es)
      BY <1>1 DEF Actives
    <3>2. NumberActive(es) = Len(es)
      BY <3>1, <1>1, ActivesFinite, FS_Interval
    <3> QED BY <3>2, <1>1, <1>2, <1>3
  <2>2. closed \subseteq 1..Len(es)
    BY <1>1
  <2>3. i \in closed
    <3> HIDE DEF closed
    <3>1. \E k \in closed : \A j \in closed : j <= k
      BY <2>1, <2>2, <1>1, Greatest
    <3> QED BY <3>1
  <2>4. Evict(es) = w
    BY <1>3 DEF Evict
  <2>5. i \in DOMAIN es /\ ~es[i].active
    BY <2>3
  <2> HIDE DEF i, w
  <2>6. /\ EntriesOK(w, n, au) /\ Len(w) = Len(es) - 1
        /\ \A id : id # es[i].id => (Active(w, id) # {} <=> Active(es, id) # {})
        /\ \A j \in DOMAIN w : w[j].id # es[i].id
    BY <2>5, WithoutOK DEF w
  <2>7. NumberActive(w) <= NumberActive(es) /\ NumberActive(es) \in Nat /\ NumberActive(w) \in Nat
    <3>1. w \in Seq(Entries)
      BY <2>6 DEF EntriesOK
    <3> QED BY <3>1, <2>5, <1>1, WithoutActives, ActivesFinite DEF w
  <2>8. Active(w, es[i].id) = {}
    BY <2>6 DEF Active
  <2>9. Active(es, es[i].id) = {}
    <3>1. ASSUME NEW j \in DOMAIN es, es[j].id = es[i].id PROVE ~es[j].active
      BY <3>1, <1>1, <2>5
    <3> QED BY <3>1 DEF Active
  <2>10. \A id : Active(w, id) # {} <=> Active(es, id) # {}
    BY <2>6, <2>8, <2>9
  <2>11. ASSUME NEW j \in DOMAIN w PROVE \E k \in DOMAIN es : w[j].id = es[k].id
    <3>1. Len(es) - 1 \in Nat /\ DOMAIN w = 1..(Len(es) - 1)
      BY <2>5, <2>6, <1>1 DEF EntriesOK
    <3>2. w[j] = IF j < i THEN es[j] ELSE es[j + 1]
      BY <3>1, <2>5, <1>1, WithoutIs DEF w
    <3>3. j \in 1..Len(es) /\ j + 1 \in 1..Len(es)
      BY <3>1, <1>1
    <3> QED BY <3>2, <3>3, <1>1
  <2>12. Len(w) < MaxRetained /\ NumberActive(w) < MaxActive
    BY <2>6, <2>7, <1>1, <1>2
  <2> QED BY <2>4, <2>6, <2>10, <2>11, <2>12
<1>4. CASE ~(Len(es) >= MaxRetained)
  <2>1. Evict(es) = es
    BY <1>4 DEF Evict
  <2> QED BY <2>1, <1>1, <1>2, <1>4
<1> QED BY <1>3, <1>4

\* The same entries are active.
LEMMA StreamFrame ==
  ASSUME NEW n, NEW au, NEW es, NEW fs, NEW st, StreamOK(es, st, n, au),
         \A id \in 1..n : Active(fs, id) # {} <=> Active(es, id) # {}
  PROVE  StreamOK(fs, st, n, au)
BY DEF StreamOK

LEMMA KindTyped ==
  ASSUME NEW kind \in Kinds, NEW id \in Ids, NEW caller \in Apps
  PROVE  [id |-> id, sender |-> caller, keys |-> kind.keys, resident |-> kind.resident,
          transient |-> kind.transient, active |-> TRUE, due |-> kind.due] \in Entries
<1>1. kind \in [keys : SUBSET Keys, resident : BOOLEAN, transient : BOOLEAN, due : {"never", "later"}]
  BY KindsAssumption DEF KindsAssumption
<1>2. kind.keys \in SUBSET Keys /\ kind.resident \in BOOLEAN /\ kind.transient \in BOOLEAN
  BY <1>1
<1>3. kind.due \in {"never", "later"}
  BY <1>1
<1> QED BY <1>2, <1>3 DEF Entries

LEMMA InitDaemon == Init => DaemonInv
<1> SUFFICES ASSUME Init PROVE DaemonInv
  OBVIOUS
<1> USE DEF Init
<1>1. /\ nextId \in 0..MaxId /\ author \in [Ids -> Apps \cup {"nobody"}]
      /\ clicks \in 0..MaxClicks /\ failures \in 0..MaxFailures
      /\ events \in Seq(Events) /\ Len(events) <= MaxEvents
      /\ batch \in Seq(Events) /\ sent \in Seq(Events)
  BY BoundAssumption, LimitAssumption DEF BoundAssumption, LimitAssumption
<1>2. EntriesOK(entries, nextId, author)
  <2>1. entries \in Seq(Entries) /\ Len(entries) = 0 /\ DOMAIN entries = {}
    OBVIOUS
  <2>2. NumberActive(entries) = 0
    <3>1. NumberActive(entries) \in Nat /\ NumberActive(entries) <= Len(entries)
      BY <2>1, ActivesFinite
    <3> QED BY <3>1, <2>1
  <2> QED BY <2>1, <2>2, LimitAssumption DEF EntriesOK, LimitAssumption
<1>3. StreamOK(entries, Stream, nextId, author)
  <2>1. Stream = <<>>
    BY DEF Stream
  <2>2. 1..nextId = {}
    OBVIOUS
  <2> QED BY <2>1, <2>2 DEF StreamOK
<1> QED BY <1>1, <1>2, <1>3 DEF DaemonInv

LEMMA NotifyStep ==
  ASSUME DaemonInv, NEW caller \in Apps, NEW kind \in Kinds, Notify(caller, kind)
  PROVE  DaemonInv'
<1> DEFINE n == nextId
           m == nextId + 1
           e == [id |-> m, sender |-> caller, keys |-> kind.keys, resident |-> kind.resident,
                 transient |-> kind.transient, active |-> TRUE, due |-> kind.due]
           au == [author EXCEPT ![m] = caller]
           w == Evict(entries)
<1>1. /\ NumberActive(entries) < MaxActive /\ n < MaxId /\ nextId' = m
      /\ entries' = <<e>> \o w /\ author' = au
      /\ UNCHANGED <<events, step, batch, sent, clicks, failures>>
  BY DEF Notify, Added, counters
<1>2. /\ n \in 0..MaxId /\ author \in [Ids -> Apps \cup {"nobody"}]
      /\ EntriesOK(entries, n, author) /\ StreamOK(entries, Stream, n, author)
  BY DEF DaemonInv
<1>3. m \in Ids /\ m \in 0..MaxId /\ ~(m <= n) /\ n \in Nat /\ MaxId \in Nat
  BY <1>1, <1>2, BoundAssumption DEF BoundAssumption, Ids
<1>4. e \in Entries
  BY <1>3, KindTyped
<1>5. e.id = m /\ e.sender = caller /\ e.active
  OBVIOUS
<1>6. au \in [Ids -> Apps \cup {"nobody"}] /\ au[m] = caller /\ \A id \in Ids : id <= n => au[id] = author[id]
  BY <1>2, <1>3
<1> HIDE DEF e, au
<1>7. /\ EntriesOK(w, n, author) /\ Len(w) < MaxRetained /\ NumberActive(w) < MaxActive
      /\ \A id : Active(w, id) # {} <=> Active(entries, id) # {}
  BY <1>1, <1>2, EvictOK
<1> HIDE DEF w
<1>8. EntriesOK(w, m, au) /\ \A j \in DOMAIN w : w[j].id # m
  <2>1. /\ w \in Seq(Entries) /\ Len(w) <= MaxRetained /\ NumberActive(w) <= MaxActive
        /\ \A i, j \in DOMAIN w : w[i].id = w[j].id => i = j
        /\ \A i \in DOMAIN w : w[i].id <= n /\ w[i].sender = author[w[i].id]
    BY <1>7 DEF EntriesOK
  <2>2. \A i \in DOMAIN w : w[i].id \in Ids
    <3>1. \A i \in DOMAIN w : w[i] \in Entries
      BY <2>1
    <3> QED BY <3>1 DEF Entries
  <2>3. \A i \in DOMAIN w : w[i].id <= m /\ w[i].sender = au[w[i].id] /\ w[i].id # m
    BY <2>1, <2>2, <1>3, <1>6 DEF Ids
  <2> QED BY <2>1, <2>3 DEF EntriesOK
<1>9. /\ EntriesOK(<<e>> \o w, m, au) /\ Active(<<e>> \o w, m) # {}
      /\ \A id : id # m => (Active(<<e>> \o w, id) # {} <=> Active(w, id) # {})
  BY <1>3, <1>4, <1>5, <1>6, <1>7, <1>8, AddedOK
<1> DEFINE fs == <<e>> \o w
<1> HIDE DEF fs
<1>10. StreamOK(fs, Stream, m, au)
  <2> DEFINE st == Stream
  <2>1. /\ st \in Seq(Events)
        /\ \A i \in DOMAIN st : st[i].id <= n /\ st[i].to = author[st[i].id]
        /\ \A i, j \in DOMAIN st : st[i].kind = "closed" /\ st[j].id = st[i].id => j <= i
        /\ \A id \in 1..n :
             Active(entries, id) # {} <=> \A i \in DOMAIN st : st[i] # Closed(id, author[id])
    BY <1>2 DEF StreamOK
  <2> HIDE DEF st
  <2>2. \A i \in DOMAIN st : st[i].id \in Ids
    <3>1. \A i \in DOMAIN st : st[i] \in Events
      BY <2>1
    <3> QED BY <3>1 DEF Events
  <2>3. \A i \in DOMAIN st : st[i].id <= m /\ st[i].to = au[st[i].id] /\ st[i].id # m
    BY <2>1, <2>2, <1>3, <1>6 DEF Ids
  <2>4. ASSUME NEW id \in 1..m
        PROVE  Active(fs, id) # {} <=> \A i \in DOMAIN st : st[i] # Closed(id, au[id])
    <3>1. CASE id = m
      <4>1. \A i \in DOMAIN st : st[i] # Closed(id, au[id])
        BY <2>3, <3>1 DEF Closed
      <4> QED BY <4>1, <3>1, <1>9 DEF fs
    <3>2. CASE id # m
      <4>1. id \in 1..n /\ id \in Ids /\ id <= n
        BY <3>2, <1>3 DEF Ids
      <4>2. au[id] = author[id]
        BY <4>1, <1>6
      <4>3. Active(fs, id) # {} <=> Active(entries, id) # {}
        BY <3>2, <1>7, <1>9 DEF fs
      <4> QED BY <4>1, <4>2, <4>3, <2>1
    <3> QED BY <3>1, <3>2
  <2> QED BY <2>1, <2>3, <2>4 DEF StreamOK, st
<1>11. EntriesOK(entries', nextId', author') /\ StreamOK(entries', Stream', nextId', author')
  <2>1. Stream' = Stream
    BY <1>1 DEF Stream
  <2> QED BY <2>1, <1>1, <1>9, <1>10 DEF fs
<1>12. author' \in [Ids -> Apps \cup {"nobody"}] /\ nextId' \in 0..MaxId
  BY <1>1, <1>3, <1>6
<1> QED BY <1>1, <1>11, <1>12 DEF DaemonInv

LEMMA ReplaceStep ==
  ASSUME DaemonInv, NEW caller \in Apps, NEW id \in Ids, NEW kind \in Kinds, Replace(caller, id, kind)
  PROVE  DaemonInv'
<1>1. PICK i \in Active(entries, id) :
        /\ entries[i].sender = caller
        /\ Added(Without(entries, i), id, caller, kind)
        /\ UNCHANGED <<events, nextId, step, batch, sent, author, clicks, failures>>
  BY DEF Replace, counters, history
<1> DEFINE n == nextId
           e == [id |-> id, sender |-> caller, keys |-> kind.keys, resident |-> kind.resident,
                 transient |-> kind.transient, active |-> TRUE, due |-> kind.due]
           w == Without(entries, i)
<1>2. /\ n \in 0..MaxId
      /\ EntriesOK(entries, n, author) /\ StreamOK(entries, Stream, n, author)
  BY DEF DaemonInv
<1>3. i \in DOMAIN entries /\ entries[i].id = id /\ entries[i].active
  BY DEF Active
<1>4. /\ EntriesOK(w, n, author) /\ Len(w) = Len(entries) - 1
      /\ NumberActive(w) <= NumberActive(entries) - 1
      /\ \A o : o # id => (Active(w, o) # {} <=> Active(entries, o) # {})
      /\ \A j \in DOMAIN w : w[j].id # id
  BY <1>2, <1>3, WithoutOK
<1>5. /\ Len(entries) \in Nat /\ Len(entries) <= MaxRetained /\ NumberActive(entries) <= MaxActive
      /\ NumberActive(entries) \in Nat /\ entries[i].id <= n /\ entries[i].sender = author[id]
  BY <1>2, <1>3, ActivesFinite DEF EntriesOK
<1>6. MaxRetained \in Nat /\ MaxActive \in Nat
  BY LimitAssumption DEF LimitAssumption
<1>7. NumberActive(w) \in Nat
  BY <1>4, ActivesFinite DEF EntriesOK
<1> HIDE DEF w
<1>8. Len(w) < MaxRetained /\ NumberActive(w) < MaxActive
  BY <1>4, <1>5, <1>6, <1>7
<1>9. Evict(w) = w
  BY <1>4, <1>5, <1>6, <1>8 DEF Evict
<1>10. entries' = <<e>> \o w
  BY <1>1, <1>9 DEF Added, w
<1>11. e \in Entries /\ e.id = id /\ e.active /\ e.sender = caller
  BY KindTyped
<1> HIDE DEF e
<1>12. /\ EntriesOK(<<e>> \o w, n, author) /\ Active(<<e>> \o w, id) # {}
       /\ \A o : o # id => (Active(<<e>> \o w, o) # {} <=> Active(w, o) # {})
  <2>1. e.id <= n /\ e.sender = author[e.id] /\ \A j \in DOMAIN w : w[j].id # e.id
    BY <1>1, <1>3, <1>4, <1>5, <1>11
  <2> QED BY <1>2, <1>4, <1>8, <1>11, <2>1, AddedOK
<1>13. \A o : Active(entries', o) # {} <=> Active(entries, o) # {}
  BY <1>1, <1>4, <1>10, <1>12
<1>14. StreamOK(entries', Stream, n, author)
  BY <1>2, <1>13, StreamFrame
<1>15. Stream' = Stream
  BY <1>1 DEF Stream
<1> QED BY <1>1, <1>10, <1>12, <1>14, <1>15 DEF DaemonInv

\* A signal is put after the others.
LEMMA StreamGrows ==
  ASSUME events \in Seq(Events), batch \in Seq(Events), sent \in Seq(Events),
         NEW e \in Events, events' = Append(events, e), UNCHANGED <<batch, sent>>
  PROVE  Stream' = Append(Stream, e) /\ events' \in Seq(Events) /\ Len(events') = Len(events) + 1
<1> DEFINE early == sent \o batch
<1>1. early \in Seq(Events)
  OBVIOUS
<1>2. Stream = early \o events /\ Stream' = early \o Append(events, e)
  BY DEF Stream
<1> HIDE DEF early
<1>3. early \o Append(events, e) = Append(early \o events, e)
  BY <1>1, ConcatAppend
<1> QED BY <1>2, <1>3

\* What State::close does to what is kept and what is due to be sent.
LEMMA CloseKeeps ==
  ASSUME DaemonInv, NEW id \in Ids, CanClose(entries, events, id),
         entries' = EntriesAfterClose(entries, id), events' = EventsAfterClose(entries, events, id),
         UNCHANGED <<nextId, step, batch, history, counters>>
  PROVE  DaemonInv' /\ events' = Append(events, Closed(id, author[id]))
<1> DEFINE n == nextId
           e == Closed(id, author[id])
           fs == EntriesAfterClose(entries, id)
<1>1. /\ n \in 0..MaxId /\ events \in Seq(Events) /\ batch \in Seq(Events) /\ sent \in Seq(Events)
      /\ EntriesOK(entries, n, author) /\ StreamOK(entries, Stream, n, author)
  BY DEF DaemonInv
<1>2. Active(entries, id) # {} /\ Len(events) + 1 <= MaxEvents
  BY DEF CanClose, HasRoom
<1>3. /\ EntriesOK(fs, n, author) /\ Active(fs, id) = {}
      /\ \A o : o # id => (Active(fs, o) # {} <=> Active(entries, o) # {})
      /\ EventsAfterClose(entries, events, id) = Append(events, e)
      /\ id <= n /\ e \in Events
  <2>1. /\ EntriesOK(EntriesAfterClose(entries, id), nextId, author)
        /\ Active(EntriesAfterClose(entries, id), id) = {}
        /\ \A o : o # id => (Active(EntriesAfterClose(entries, id), o) # {} <=> Active(entries, o) # {})
        /\ \A evs : EventsAfterClose(entries, evs, id) = Append(evs, Closed(id, author[id]))
        /\ id <= nextId /\ Closed(id, author[id]) \in Events
    BY <1>1, <1>2, Closing
  <2> QED BY <2>1
<1>4. e.id = id /\ e.to = author[id] /\ e.kind = "closed"
  BY DEF Closed
<1> HIDE DEF e, fs
<1>5. StreamOK(fs, Append(Stream, e), n, author)
  BY <1>1, <1>2, <1>3, <1>4, StreamAppend
<1>6. Stream' = Append(Stream, e) /\ events' \in Seq(Events) /\ Len(events') = Len(events) + 1
  BY <1>1, <1>3, StreamGrows DEF history
<1>7. /\ EntriesOK(entries', nextId', author') /\ StreamOK(entries', Stream', nextId', author')
      /\ Len(events') <= MaxEvents
  BY <1>2, <1>3, <1>5, <1>6 DEF fs, history
<1> QED BY <1>1, <1>3, <1>6, <1>7 DEF DaemonInv, history, counters, e

LEMMA CloseStepKeeps ==
  ASSUME DaemonInv, NEW id \in Ids, CloseStep(id)
  PROVE  DaemonInv' /\ events' = Append(events, Closed(id, author[id]))
BY CloseKeeps DEF CloseStep

\* An action is told of, and then, unless the notification is resident, its end.
LEMMA InvokeStep ==
  ASSUME DaemonInv, NEW id \in Ids, NEW key \in Keys, Invoke(id, key)
  PROVE  /\ DaemonInv'
         /\ \E i \in DOMAIN entries :
              entries[i].id = id /\ (entries[i].resident \/ Active(entries', id) = {})
<1>1. /\ clicks < MaxClicks /\ clicks' = clicks + 1 /\ Len(events) + 2 <= MaxEvents
      /\ UNCHANGED <<nextId, step, batch, sent, author, failures>>
  BY DEF Invoke, HasRoom, history
<1>2. PICK i \in Active(entries, id) :
        LET acted == Append(events, Action(id, entries[i].sender))
        IN IF entries[i].resident THEN events' = acted /\ UNCHANGED entries
           ELSE /\ entries' = EntriesAfterClose(entries, id)
                /\ events' = EventsAfterClose(entries, acted, id)
  BY DEF Invoke
<1> DEFINE n == nextId
           a == Action(id, author[id])
           c == Closed(id, author[id])
           fs == EntriesAfterClose(entries, id)
           acted == Append(events, a)
<1>3. /\ n \in 0..MaxId /\ events \in Seq(Events) /\ batch \in Seq(Events) /\ sent \in Seq(Events)
      /\ EntriesOK(entries, n, author) /\ StreamOK(entries, Stream, n, author)
      /\ clicks \in 0..MaxClicks
  BY DEF DaemonInv
<1>4. i \in DOMAIN entries /\ entries[i].id = id /\ entries[i].active /\ Active(entries, id) # {}
  BY DEF Active
<1>5. /\ EntriesOK(fs, n, author) /\ Active(fs, id) = {}
      /\ \A o : o # id => (Active(fs, o) # {} <=> Active(entries, o) # {})
      /\ \A evs : EventsAfterClose(entries, evs, id) = Append(evs, c)
      /\ id <= n /\ c \in Events
  <2>1. /\ EntriesOK(EntriesAfterClose(entries, id), nextId, author)
        /\ Active(EntriesAfterClose(entries, id), id) = {}
        /\ \A o : o # id => (Active(EntriesAfterClose(entries, id), o) # {} <=> Active(entries, o) # {})
        /\ \A evs : EventsAfterClose(entries, evs, id) = Append(evs, Closed(id, author[id]))
        /\ id <= nextId /\ Closed(id, author[id]) \in Events
    <3>1. EntriesOK(entries, nextId, author) /\ Active(entries, id) # {} /\ nextId \in 0..MaxId
      BY <1>3, <1>4
    <3> QED BY <3>1, Closing
  <2> QED BY <2>1
<1>6. entries[i].sender = author[id] /\ entries[i] \in Entries
  BY <1>3, <1>4 DEF EntriesOK
<1>7. a \in Events
  BY <1>6 DEF Entries, Action, Events
<1>8. /\ a.id = id /\ a.to = author[id] /\ a.kind # "closed"
      /\ c.id = id /\ c.to = author[id] /\ c.kind = "closed"
  BY DEF Action, Closed
<1>9. CASE entries[i].resident
  <2>1. events' = acted /\ entries' = entries
    BY <1>2, <1>6, <1>9
  <2> HIDE DEF a, c, fs
  <2>2. StreamOK(entries, Append(Stream, a), n, author)
    BY <1>3, <1>4, <1>5, <1>7, <1>8, StreamAppend
  <2>3. Stream' = Append(Stream, a) /\ events' \in Seq(Events) /\ Len(events') = Len(events) + 1
    BY <1>1, <1>3, <1>7, <2>1, StreamGrows
  <2>4. clicks' \in 0..MaxClicks /\ Len(events') <= MaxEvents
    BY <1>1, <1>3, <2>3, LimitAssumption, BoundAssumption DEF LimitAssumption, BoundAssumption
  <2>5. EntriesOK(entries', nextId', author') /\ StreamOK(entries', Stream', nextId', author')
    BY <1>1, <1>3, <2>1, <2>2, <2>3
  <2>6. DaemonInv'
    BY <1>1, <2>3, <2>4, <2>5 DEF DaemonInv
  <2> QED BY <2>6, <1>4, <1>9
<1>10. CASE ~entries[i].resident
  <2>1. events' = Append(acted, c) /\ entries' = fs
    BY <1>2, <1>5, <1>6, <1>10
  <2> DEFINE early == sent \o batch
             st == Stream
  <2>2. early \in Seq(Events) /\ st \in Seq(Events)
    BY <1>3 DEF StreamOK
  <2>3. st = early \o events /\ Stream' = early \o events'
    BY <1>1 DEF Stream
  <2> HIDE DEF a, c, fs, early, st
  <2>4. StreamOK(entries, Append(st, a), n, author)
    BY <1>3, <1>4, <1>5, <1>7, <1>8, StreamAppend DEF st
  <2>5. StreamOK(fs, Append(Append(st, a), c), n, author)
    BY <2>4, <1>3, <1>4, <1>5, <1>8, StreamAppend
  <2>6. acted \in Seq(Events) /\ Len(acted) = Len(events) + 1
    BY <1>3, <1>7
  <2>7. early \o acted = Append(st, a)
    BY <2>2, <2>3, <1>3, <1>7, ConcatAppend
  <2> HIDE DEF acted
  <2>8. early \o Append(acted, c) = Append(early \o acted, c)
    <3>1. c \in Events
      BY <1>5
    <3> QED BY <2>2, <2>6, <3>1, ConcatAppend
  <2>9. Stream' = Append(Append(st, a), c)
    BY <2>1, <2>3, <2>7, <2>8
  <2>10. events' \in Seq(Events) /\ Len(events') = Len(events) + 2
    BY <2>1, <2>6, <1>3, <1>5
  <2>11. clicks' \in 0..MaxClicks /\ Len(events') <= MaxEvents
    BY <1>1, <1>3, <2>10, LimitAssumption, BoundAssumption DEF LimitAssumption, BoundAssumption
  <2>12. EntriesOK(entries', nextId', author') /\ StreamOK(entries', Stream', nextId', author')
    BY <1>1, <1>5, <2>1, <2>5, <2>9
  <2>13. DaemonInv'
    BY <1>1, <2>10, <2>11, <2>12 DEF DaemonInv
  <2>14. Active(entries', id) = {}
    BY <1>5, <2>1
  <2> QED BY <2>13, <2>14, <1>4
<1> QED BY <1>9, <1>10

\* What is due ends, and all that is to be sent is taken.
LEMMA TakeStep ==
  ASSUME DaemonInv, Take PROVE DaemonInv'
<1>1. /\ step' = "send" /\ batch = <<>> /\ entries' = Expired.entries /\ batch' = Expired.events
      /\ events' = <<>> /\ UNCHANGED <<nextId, sent, author, clicks, failures>>
  BY DEF Take, DaemonInv, history, counters
<1>2. /\ nextId \in 0..MaxId /\ events \in Seq(Events) /\ sent \in Seq(Events)
      /\ EntriesOK(entries, nextId, author) /\ StreamOK(entries, Stream, nextId, author)
  BY DEF DaemonInv
<1>3. Stream = sent \o events /\ entries \in Seq(Entries)
  BY <1>1, <1>2 DEF Stream, EntriesOK
<1>4. [entries |-> entries, events |-> events] \in Dues
  BY <1>2, <1>3 DEF Dues
<1>5. Expired \in Dues
  BY <1>2, <1>3, <1>4, ExpiredSound
<1>6. /\ EntriesOK(Expired.entries, nextId, author) /\ Expired.events \in Seq(Events)
      /\ StreamOK(Expired.entries, sent \o Expired.events, nextId, author)
  BY <1>5 DEF Dues
<1>7. Stream' = sent \o Expired.events
  BY <1>1, <1>2, <1>6 DEF Stream
<1>8. EntriesOK(entries', nextId', author') /\ StreamOK(entries', Stream', nextId', author')
  BY <1>1, <1>6, <1>7
<1>9. events' \in Seq(Events) /\ Len(events') <= MaxEvents
  BY <1>1, LimitAssumption DEF LimitAssumption
<1> QED BY <1>1, <1>2, <1>6, <1>8, <1>9 DEF DaemonInv

LEMMA SendStep ==
  ASSUME DaemonInv, Send PROVE DaemonInv'
<1>1. step = "send" /\ UNCHANGED <<entries, events, nextId, author, clicks, failures>>
  BY DEF Send, state, counters
<1>2. batch \in Seq(Events) /\ sent \in Seq(Events) /\ events \in Seq(Events)
  BY DEF DaemonInv
<1>3. CASE batch = <<>>
  <2>1. step' = "poll" /\ UNCHANGED <<batch, sent>>
    BY <1>3 DEF Send
  <2>2. Stream' = Stream
    BY <1>1, <2>1 DEF Stream
  <2> QED BY <1>1, <1>3, <2>1, <2>2 DEF DaemonInv
<1>4. CASE batch # <<>>
  <2>1. batch' = Tail(batch) /\ sent' = Append(sent, Head(batch)) /\ step' = step
    BY <1>4 DEF Send
  <2>2. batch' \in Seq(Events) /\ sent' \in Seq(Events) /\ Head(batch) \in Events
    BY <1>2, <1>4, <2>1
  <2>3. sent' \o batch' = sent \o batch
    <3> DEFINE h == Head(batch)
               r == Tail(batch)
    <3>1. batch = <<h>> \o r /\ r \in Seq(Events) /\ h \in Events
      BY <1>2, <1>4
    <3> HIDE DEF h, r
    <3>2. Append(sent, h) = sent \o <<h>> /\ <<h>> \in Seq(Events)
      BY <1>2, <3>1
    <3>3. (sent \o <<h>>) \o r = sent \o (<<h>> \o r)
      BY <1>2, <3>1, <3>2, ConcatAssociative
    <3> QED BY <2>1, <3>1, <3>2, <3>3 DEF h, r
  <2>4. Stream' = Stream
    BY <1>1, <2>3 DEF Stream
  <2> QED BY <1>1, <2>1, <2>2, <2>4 DEF DaemonInv
<1> QED BY <1>3, <1>4

\* A daemon that starts again knows nothing, and has told nobody anything.
LEMMA SendFailsStep ==
  ASSUME DaemonInv, SendFails PROVE DaemonInv'
<1>1. /\ entries' = <<>> /\ events' = <<>> /\ nextId' = 0 /\ step' = "poll" /\ batch' = <<>>
      /\ sent' = <<>> /\ author' = [id \in Ids |-> "nobody"]
      /\ clicks' = clicks /\ failures < MaxFailures /\ failures' = failures + 1
  BY DEF SendFails
<1>2. failures' \in 0..MaxFailures /\ clicks' \in 0..MaxClicks
  BY <1>1, BoundAssumption DEF DaemonInv, BoundAssumption
<1>3. /\ nextId' \in 0..MaxId /\ author' \in [Ids -> Apps \cup {"nobody"}]
      /\ events' \in Seq(Events) /\ Len(events') <= MaxEvents
      /\ batch' \in Seq(Events) /\ sent' \in Seq(Events)
  BY <1>1, BoundAssumption, LimitAssumption DEF BoundAssumption, LimitAssumption
<1>4. EntriesOK(entries', nextId', author')
  <2> DEFINE es == <<>>
  <2>1. es \in Seq(Entries) /\ Len(es) = 0 /\ DOMAIN es = {}
    OBVIOUS
  <2> HIDE DEF es
  <2>2. NumberActive(es) \in Nat /\ NumberActive(es) <= Len(es)
    BY <2>1, ActivesFinite
  <2>3. entries' = es
    BY <1>1 DEF es
  <2> QED BY <2>1, <2>2, <2>3, LimitAssumption DEF EntriesOK, LimitAssumption
<1>5. StreamOK(entries', Stream', nextId', author')
  <2>1. Stream' = <<>>
    BY <1>1 DEF Stream
  <2>2. 1..nextId' = {}
    BY <1>1
  <2> QED BY <2>1, <2>2 DEF StreamOK
<1> QED BY <1>1, <1>2, <1>3, <1>4, <1>5 DEF DaemonInv

LEMMA TimePassesStep ==
  ASSUME DaemonInv, TimePasses PROVE DaemonInv'
<1>1. PICK i \in DOMAIN entries : entries' = [entries EXCEPT ![i].due = "now"]
  BY DEF TimePasses
<1>2. UNCHANGED <<events, nextId, step, batch, sent, author, clicks, failures>>
  BY DEF TimePasses, history, counters
<1>3. /\ entries \in Seq(Entries) /\ Len(entries) \in Nat /\ DOMAIN entries = 1..Len(entries)
      /\ (\A j, k \in 1..Len(entries) : entries[j].id = entries[k].id => j = k)
      /\ (\A j \in 1..Len(entries) : /\ entries[j].id <= nextId
                                     /\ entries[j].sender = author[entries[j].id])
      /\ Len(entries) <= MaxRetained /\ NumberActive(entries) <= MaxActive
  BY DEF DaemonInv, EntriesOK
<1> DEFINE fs == [entries EXCEPT ![i].due = "now"]
<1>4. /\ DOMAIN fs = 1..Len(entries) /\ \A j \in 1..Len(entries) : j # i => fs[j] = entries[j]
      /\ fs[i] = [entries[i] EXCEPT !.due = "now"]
  BY <1>3
<1>5. /\ fs[i] \in Entries /\ fs[i].id = entries[i].id /\ fs[i].sender = entries[i].sender
      /\ fs[i].active = entries[i].active
  <2>1. ASSUME NEW x \in Entries, NEW y, y = [x EXCEPT !.due = "now"]
        PROVE  y \in Entries /\ y.id = x.id /\ y.sender = x.sender /\ y.active = x.active
    <3>1. DOMAIN x = {"id", "sender", "keys", "resident", "transient", "active", "due"}
      BY DEF Entries
    <3>2. y = [id |-> x.id, sender |-> x.sender, keys |-> x.keys, resident |-> x.resident,
               transient |-> x.transient, active |-> x.active, due |-> "now"]
      BY <2>1, <3>1 DEF Entries
    <3> QED BY <3>2 DEF Entries
  <2>2. entries[i] \in Entries
    BY <1>3
  <2> HIDE DEF fs
  <2> QED BY <2>1, <2>2, <1>4
<1>6. fs \in Seq(Entries) /\ Len(fs) = Len(entries)
  <2>1. fs = [j \in 1..Len(entries) |-> fs[j]]
    BY <1>3
  <2> HIDE DEF fs
  <2>2. \A j \in 1..Len(entries) : fs[j] \in Entries
    BY <1>3, <1>4, <1>5
  <2>3. /\ [j \in 1..Len(entries) |-> fs[j]] \in Seq(Entries)
        /\ Len([j \in 1..Len(entries) |-> fs[j]]) = Len(entries)
    BY <1>3, <2>2
  <2> QED BY <2>1, <2>3
<1> HIDE DEF fs
<1>7. \A j \in 1..Len(entries) : /\ fs[j].id = entries[j].id /\ fs[j].sender = entries[j].sender
                                 /\ fs[j].active = entries[j].active
  BY <1>4, <1>5
<1>8. NumberActive(fs) = NumberActive(entries) /\ \A id : Active(fs, id) = Active(entries, id)
  <2>1. \A id : Active(fs, id) = Active(entries, id)
    BY <1>3, <1>4, <1>7 DEF Active
  <2>2. {j \in DOMAIN fs : fs[j].active} = {j \in DOMAIN entries : entries[j].active}
    BY <1>3, <1>4, <1>7
  <2> QED BY <2>1, <2>2 DEF NumberActive
<1>9. EntriesOK(fs, nextId, author)
  BY <1>3, <1>4, <1>6, <1>7, <1>8 DEF EntriesOK
<1>10. StreamOK(fs, Stream, nextId, author)
  <2>1. StreamOK(entries, Stream, nextId, author)
    BY DEF DaemonInv
  <2> QED BY <1>8, <2>1, StreamFrame
<1>11. Stream' = Stream
  BY <1>2 DEF Stream
<1> QED BY <1>1, <1>2, <1>9, <1>10, <1>11 DEF DaemonInv, fs

LEMMA DaemonStep ==
  ASSUME DaemonInv, [Next]_vars PROVE DaemonInv'
<1>1. ASSUME NEW caller \in Apps, Call(caller) PROVE DaemonInv'
  BY <1>1, CloseStepKeeps, NotifyStep, ReplaceStep DEF Call, CloseNotification
<1>2. ASSUME Command PROVE DaemonInv'
  BY <1>2, CloseStepKeeps, InvokeStep DEF Command, Dismiss
<1>3. ASSUME PollDone PROVE DaemonInv'
  <2>1. step' = "take" /\ UNCHANGED <<entries, events, nextId, batch, sent, author, clicks, failures>>
    BY <1>3 DEF PollDone, state, history, counters
  <2>2. Stream' = Stream /\ batch = <<>>
    BY <1>3, <2>1 DEF Stream, PollDone, DaemonInv
  <2> QED BY <2>1, <2>2 DEF DaemonInv
<1>4. ASSUME Loop PROVE DaemonInv'
  BY <1>3, <1>4, TakeStep, SendStep DEF Loop
<1>5. CASE UNCHANGED vars
  <2>1. UNCHANGED <<entries, events, nextId, step, batch, sent, author, clicks, failures>>
    BY <1>5 DEF vars, state, history, counters
  <2>2. Stream' = Stream
    BY <2>1 DEF Stream
  <2> QED BY <2>1, <2>2 DEF DaemonInv
<1> QED BY <1>1, <1>2, <1>4, <1>5, SendFailsStep, TimePassesStep DEF Next

LEMMA DaemonIsSound ==
  ASSUME DaemonInv PROVE ReportedOnce
<1>1. /\ nextId \in 0..MaxId /\ EntriesOK(entries, nextId, author)
      /\ StreamOK(entries, Stream, nextId, author)
  BY DEF DaemonInv
<1>2. TypeOK
  BY DEF DaemonInv, EntriesOK, TypeOK, NumberActive
<1>3. /\ \A i, j \in DOMAIN entries : entries[i].id = entries[j].id => i = j
      /\ Stream \in Seq(Events)
      /\ \A i \in DOMAIN Stream : Stream[i].id <= nextId /\ Stream[i].to = author[Stream[i].id]
      /\ \A i, j \in DOMAIN Stream :
           Stream[i].kind = "closed" /\ Stream[j].id = Stream[i].id => j <= i
      /\ \A id \in 1..nextId :
           Active(entries, id) # {} <=> \A i \in DOMAIN Stream : Stream[i] # Closed(id, author[id])
  BY <1>1 DEF EntriesOK, StreamOK
<1>4. ASSUME NEW id \in 1..nextId
      PROVE  Cardinality(Active(entries, id)) + Cardinality(CloseReports(id)) = 1
  <2>1. \A i, j \in CloseReports(id) : i = j
    <3> SUFFICES ASSUME NEW i \in CloseReports(id), NEW j \in CloseReports(id) PROVE i = j
      OBVIOUS
    <3>1. /\ i \in DOMAIN Stream /\ j \in DOMAIN Stream /\ i \in Int /\ j \in Int
          /\ Stream[i].kind = "closed" /\ Stream[j].kind = "closed" /\ Stream[i].id = Stream[j].id
      BY <1>3 DEF CloseReports, Closed
    <3>2. j <= i /\ i <= j
      BY <3>1, <1>3
    <3> QED BY <3>1, <3>2
  <2>2. \A i, j \in Active(entries, id) : i = j
    BY <1>3 DEF Active
  <2>3. ASSUME NEW A, NEW x \in A, \A i, j \in A : i = j PROVE Cardinality(A) = 1
    <3>1. A = {x}
      BY <2>3
    <3> QED BY <3>1, FS_Singleton
  <2>4. Active(entries, id) # {} <=> CloseReports(id) = {}
    BY <1>3 DEF CloseReports
  <2>5. Cardinality({}) = 0
    BY FS_EmptySet
  <2>6. CASE Active(entries, id) # {}
    <3>1. Cardinality(Active(entries, id)) = 1 /\ CloseReports(id) = {}
      BY <2>2, <2>3, <2>4, <2>6
    <3> QED BY <3>1, <2>5
  <2>7. CASE Active(entries, id) = {}
    <3>1. Cardinality(CloseReports(id)) = 1
      BY <2>1, <2>3, <2>4, <2>7
    <3> QED BY <3>1, <2>5, <2>7
  <2> QED BY <2>6, <2>7
<1>5. LiveUntilReported
  BY <1>4 DEF LiveUntilReported
<1>6. EndsWithReport
  BY <1>3 DEF EndsWithReport, CloseReports, Closed
<1> QED BY <1>2, <1>5, <1>6 DEF ReportedOnce

\* ActedOnce, of a step.
Acted ==
  \A i \in DOMAIN entries :
    /\ entries[i].active /\ ~entries[i].resident
    /\ Len(events') > Len(events)
    /\ events'[Len(events) + 1] = Action(entries[i].id, entries[i].sender)
    => Active(entries', entries[i].id) = {}

LEMMA ActedStep ==
  ASSUME DaemonInv, [Next]_vars PROVE Acted
<1>1. /\ events \in Seq(Events) /\ Len(events) \in Nat /\ DOMAIN entries = 1..Len(entries)
      /\ \A i, j \in DOMAIN entries : entries[i].id = entries[j].id => i = j
  BY DEF DaemonInv, EntriesOK
<1>2. ASSUME events' = events \/ events' = <<>> PROVE Acted
  <2>1. Len(<<>>) = 0
    OBVIOUS
  <2> QED BY <1>1, <1>2, <2>1 DEF Acted
<1>3. ASSUME NEW id \in Ids, CloseStep(id) PROVE Acted
  <2>1. events' = Append(events, Closed(id, author[id]))
    BY <1>3, CloseStepKeeps
  <2>2. events'[Len(events) + 1] = Closed(id, author[id])
    BY <1>1, <2>1
  <2>3. \A i, to : Closed(id, author[id]) # Action(i, to)
    BY DEF Closed, Action
  <2> QED BY <2>2, <2>3 DEF Acted
<1>4. ASSUME NEW id \in Ids, NEW key \in Keys, Invoke(id, key) PROVE Acted
  <2>1. PICK j \in DOMAIN entries :
          entries[j].id = id /\ (entries[j].resident \/ Active(entries', id) = {})
    BY <1>4, InvokeStep
  <2>2. events'[Len(events) + 1] = Action(id, author[id])
    <3>1. PICK i \in Active(entries, id) :
            LET acted == Append(events, Action(id, entries[i].sender))
            IN IF entries[i].resident THEN events' = acted /\ UNCHANGED entries
               ELSE /\ entries' = EntriesAfterClose(entries, id)
                    /\ events' = EventsAfterClose(entries, acted, id)
      BY <1>4 DEF Invoke
    <3>2. i \in DOMAIN entries /\ entries[i].id = id
      BY DEF Active
    <3>3. entries[i].sender = author[id] /\ entries[i] \in Entries
      BY <3>2 DEF DaemonInv, EntriesOK
    <3> DEFINE a == Action(id, author[id])
               acted == Append(events, a)
    <3>4. a \in Events
      BY <3>3 DEF Entries, Action, Events
    <3>5. acted \in Seq(Events) /\ Len(acted) = Len(events) + 1 /\ acted[Len(events) + 1] = a
      BY <1>1, <3>4
    <3>6. \E e \in Events : events' = acted \/ events' = Append(acted, e)
      <4>1. EntriesOK(entries, nextId, author) /\ nextId \in 0..MaxId /\ Active(entries, id) # {}
        BY DEF DaemonInv
      <4>2. /\ \A evs : EventsAfterClose(entries, evs, id) = Append(evs, Closed(id, author[id]))
            /\ Closed(id, author[id]) \in Events
        BY <4>1, Closing
      <4> QED BY <3>1, <3>3, <4>2
    <3> HIDE DEF a, acted
    <3> QED BY <1>1, <3>5, <3>6 DEF a
  <2>3. \A i \in DOMAIN entries :
          Action(entries[i].id, entries[i].sender) = Action(id, author[id]) => i = j
    BY <1>1, <2>1 DEF Action
  <2> QED BY <2>1, <2>2, <2>3 DEF Acted
<1>5. ASSUME NEW caller \in Apps, Call(caller) PROVE Acted
  <2>1. ASSUME NEW id \in Ids, CloseNotification(caller, id) PROVE Acted
    BY <1>3, <2>1 DEF CloseNotification
  <2>2. ASSUME NEW kind \in Kinds, Notify(caller, kind) \/ \E id \in Ids : Replace(caller, id, kind) PROVE Acted
    BY <2>2, <1>2 DEF Notify, Replace
  <2> QED BY <1>5, <2>1, <2>2 DEF Call
<1>6. ASSUME Command PROVE Acted
  BY <1>6, <1>3, <1>4 DEF Command, Dismiss
<1>7. ASSUME Loop PROVE Acted
  BY <1>7, <1>2 DEF Loop, PollDone, Take, Send, state
<1>8. ASSUME SendFails \/ TimePasses \/ UNCHANGED vars PROVE Acted
  BY <1>8, <1>2 DEF SendFails, TimePasses, vars, state
<1> QED BY <1>5, <1>6, <1>7, <1>8 DEF Next

-----------------------------------------------------------------------------
(***************************************************************************)
(* The tray: the queue of its loop.                                        *)
(***************************************************************************)
TrayKeys == Tray!ItemKeys
Elements(q) == {q[i] : i \in DOMAIN q}
Injective(q) == \A i, j \in DOMAIN q : q[i] = q[j] => i = j
UnderWay(r) == {k \in TrayKeys : r[k] # Tray!Nothing}

\* What a branch of the loop leaves to its top.
LoopStates ==
  [needed : BOOLEAN, discovery : [pc : {"none", "names", "prune", "done"}, found : SUBSET Tray!TrayApps],
   queued : Seq(TrayKeys), pending : SUBSET TrayKeys,
   reads : [TrayKeys -> Tray!Tasks \cup {Tray!Nothing}]]

\* What is pending is queued or being read, once, by no more reads than may be.
QueueOK(q, p, r) ==
  /\ q \in Seq(TrayKeys) /\ r \in [TrayKeys -> Tray!Tasks \cup {Tray!Nothing}]
  /\ p = Elements(q) \cup UnderWay(r) /\ Injective(q) /\ Elements(q) \cap UnderWay(r) = {}
  /\ Cardinality(UnderWay(r)) <= MaxReads

LEMMA Bridges ==
  /\ \A q : Tray!ToSet(q) = Elements(q)
  /\ \A q : Tray!IsInjective(q) <=> Injective(q)
  /\ Tray!Reading = UnderWay(reads)
BY DEF Tray!ToSet, Tray!IsInjective, Elements, Injective, Tray!Reading, UnderWay, TrayKeys

LEMMA KeysFinite == IsFiniteSet(TrayKeys)
<1>1. IsFiniteSet(1..NumApps) /\ IsFiniteSet(1..MaxGeneration)
  BY TrayAssumption, FS_Interval DEF TrayAssumption
<1>2. IsFiniteSet((1..NumApps) \X (1..MaxGeneration))
  BY <1>1, FS_Product
<1> QED BY <1>2 DEF TrayKeys, Tray!ItemKeys, Tray!TrayApps

LEMMA UnderWayFinite ==
  ASSUME NEW r
  PROVE  IsFiniteSet(UnderWay(r)) /\ Cardinality(UnderWay(r)) \in Nat
<1>1. UnderWay(r) \subseteq TrayKeys
  BY DEF UnderWay
<1> QED BY <1>1, KeysFinite, FS_Subset, FS_CardinalityType

\* A set of places without gaps is an interval.
LEMMA Prefix ==
  ASSUME NEW N \in Nat, NEW T, T \subseteq 1..N, \A i \in T, j \in 1..N : j < i => j \in T
  PROVE  Cardinality(T) \in 0..N /\ T = 1..Cardinality(T)
<1>1. CASE T = {}
  <2>1. Cardinality(T) = 0
    BY <1>1, FS_EmptySet
  <2>2. 1..0 = {}
    OBVIOUS
  <2> QED BY <1>1, <2>1, <2>2
<1>2. CASE T # {}
  <2>1. PICK m \in T : \A j \in T : j <= m
    BY <1>2, Greatest
  <2>2. m \in 1..N /\ \A j \in 1..N : j \in T <=> j <= m
    BY <2>1
  <2>4. T = 1..m
    <3>1. ASSUME NEW j \in T PROVE j \in 1..m
      BY <2>1, <2>2
    <3>2. ASSUME NEW j \in 1..m PROVE j \in T
      BY <2>2
    <3> QED BY <3>1, <3>2
  <2>3. Cardinality(1..m) = m
    BY <2>2, FS_Interval
  <2> QED BY <2>2, <2>3, <2>4
<1> QED BY <1>1, <1>2

LEMMA TrayCount ==
  ASSUME NEW S
  PROVE  Tray!Cardinality(S) = Cardinality(S)
BY DEF Tray!Cardinality, Cardinality

\* The first of a queue, with the keys that are known among them: they are as many as
\* there is room for.
LEMMA TakenIs ==
  ASSUME NEW s \in LoopStates, Cardinality(UnderWay(s.reads)) <= MaxReads
  PROVE  /\ Cardinality(Tray!Taken(s)) \in 0..Len(s.queued)
         /\ Tray!Taken(s) = 1..Cardinality(Tray!Taken(s))
         /\ IsFiniteSet({i \in Tray!Taken(s) : s.queued[i] \in Tray!Known'})
         /\ Cardinality({i \in Tray!Taken(s) : s.queued[i] \in Tray!Known'})
              + Cardinality(UnderWay(s.reads)) <= MaxReads
<1> DEFINE q == s.queued
           N == Len(q)
           G == Tray!Known'
           B(i) == {j \in 1..(i - 1) : q[j] \in G}
           room == MaxReads - Cardinality({k \in Tray!ItemKeys : s.reads[k] # Tray!Nothing})
           T == {i \in 1..N : Cardinality(B(i)) < room}
           H == {i \in T : q[i] \in G}
<1>1. q \in Seq(TrayKeys) /\ N \in Nat
  BY DEF LoopStates
<1>2. Tray!Taken(s) = T
  <2>1. Tray!Taken(s) = {i \in 1..N : Tray!Cardinality(B(i)) <
                           MaxReads - Tray!Cardinality({k \in Tray!ItemKeys : s.reads[k] # Tray!Nothing})}
    BY DEF Tray!Taken
  <2>2. /\ \A i : Tray!Cardinality(B(i)) = Cardinality(B(i))
        /\ Tray!Cardinality({k \in Tray!ItemKeys : s.reads[k] # Tray!Nothing})
             = Cardinality({k \in Tray!ItemKeys : s.reads[k] # Tray!Nothing})
    BY TrayCount
  <2> HIDE DEF B, G
  <2> QED BY <2>1, <2>2
<1>a. room = MaxReads - Cardinality(UnderWay(s.reads))
  BY DEF UnderWay, TrayKeys
<1>3. Cardinality(UnderWay(s.reads)) \in Nat /\ MaxReads \in Nat
  BY UnderWayFinite, TrayAssumption DEF TrayAssumption
<1>4. room \in Nat
  BY <1>3, <1>a
<1> HIDE DEF room
<1>5. \A i \in 1..N : IsFiniteSet(B(i)) /\ Cardinality(B(i)) \in Nat
  <2> SUFFICES ASSUME NEW i \in 1..N PROVE IsFiniteSet(B(i)) /\ Cardinality(B(i)) \in Nat
    OBVIOUS
  <2>1. i - 1 \in Int /\ B(i) \subseteq 1..(i - 1)
    BY <1>1
  <2>2. IsFiniteSet(1..(i - 1))
    BY <2>1, FS_Interval
  <2> HIDE DEF B
  <2> QED BY <2>1, <2>2, FS_Subset, FS_CardinalityType
<1>6. ASSUME NEW i \in T, NEW j \in 1..N, j < i PROVE j \in T
  <2>1. B(j) \subseteq B(i)
    BY <1>6, <1>1
  <2>2. Cardinality(B(j)) <= Cardinality(B(i)) /\ i \in 1..N
    BY <2>1, <1>5, FS_Subset
  <2>3. Cardinality(B(j)) \in Nat /\ Cardinality(B(i)) \in Nat /\ Cardinality(B(i)) < room
    BY <2>2, <1>5
  <2> HIDE DEF B
  <2> QED BY <2>2, <2>3, <1>4
<1>7. T \subseteq 1..N
  OBVIOUS
<1> HIDE DEF B, G
<1>8. Cardinality(T) \in 0..N /\ T = 1..Cardinality(T)
  <2> HIDE DEF T
  <2> QED BY <1>1, <1>6, <1>7, Prefix
<1>9. IsFiniteSet(H) /\ H \subseteq 1..N
  <2>1. IsFiniteSet(1..N)
    BY <1>1, FS_Interval
  <2>2. H \subseteq 1..N
    OBVIOUS
  <2> HIDE DEF H
  <2> QED BY <2>1, <2>2, FS_Subset
<1>10. Cardinality(H) <= room /\ Cardinality(H) \in Nat
  <2>1. CASE H = {}
    <3>1. Cardinality(H) = 0
      <4> HIDE DEF H
      <4> QED BY <2>1, FS_EmptySet
    <3> QED BY <3>1, <1>4
  <2>2. CASE H # {}
    <3>1. PICK m \in H : \A j \in H : j <= m
      <4> HIDE DEF H
      <4> QED BY <2>2, <1>1, <1>9, Greatest
    <3>2. m \in T /\ m \in 1..N /\ q[m] \in G
      OBVIOUS
    <3>3. H = B(m) \cup {m}
      <4>1. ASSUME NEW j \in H PROVE j \in B(m) \cup {m}
        <5>1. j \in 1..N /\ q[j] \in G /\ j <= m
          BY <3>1
        <5> QED BY <5>1, <3>2, <1>1 DEF B
      <4>2. ASSUME NEW j \in B(m) PROVE j \in H
        <5>1. j \in 1..N /\ j < m /\ q[j] \in G
          BY <3>2, <1>1 DEF B
        <5>2. j \in T
          <6> HIDE DEF T
          <6> QED BY <5>1, <3>2, <1>6
        <5> QED BY <5>1, <5>2
      <4> QED BY <4>1, <4>2, <3>1
    <3>4. m \notin B(m) /\ Cardinality(B(m)) < room
      BY <3>2, <1>1 DEF B
    <3>5. IsFiniteSet(B(m)) /\ Cardinality(B(m)) \in Nat
      BY <3>2, <1>5
    <3>6. Cardinality(B(m) \cup {m}) = Cardinality(B(m)) + 1
      BY <3>4, <3>5, FS_AddElement
    <3> HIDE DEF H
    <3> QED BY <3>3, <3>4, <3>5, <3>6, <1>4
  <2> QED BY <2>1, <2>2
<1>11. Cardinality(H) + Cardinality(UnderWay(s.reads)) <= MaxReads
  <2> HIDE DEF H
  <2> QED BY <1>3, <1>10, <1>a
<1> HIDE DEF T
<1>12. H = {i \in Tray!Taken(s) : s.queued[i] \in Tray!Known'}
  BY <1>2 DEF G
<1> HIDE DEF H
<1> QED BY <1>2, <1>8, <1>9, <1>11, <1>12

\* The top of the loop: what it takes off the queue and is still known is read.
LEMMA TopKeeps ==
  ASSUME NEW s \in LoopStates, QueueOK(s.queued, s.pending, s.reads), Tray!Top(s),
         known' \in [Tray!TrayApps -> 0..MaxGeneration],
         items' \in [TrayKeys -> Tray!Items \cup {Tray!Nothing}]
  PROVE  /\ needed' \in BOOLEAN
         /\ discovery' \in [pc : {"none", "names", "prune", "done"}, found : SUBSET Tray!TrayApps]
         /\ QueueOK(queued', pending', reads') /\ pending' \subseteq s.pending
         /\ s.pending \cap Tray!Known' \subseteq pending'
         /\ \A k \in UnderWay(s.reads) : reads'[k] = s.reads[k]
         /\ \A k \in UnderWay(reads') :
              reads'[k] = s.reads[k] \/ reads'[k].pc = "properties"
         /\ \A k \in Elements(s.queued) \cap Tray!Known' :
              \/ k \in Elements(queued')
              \/ k \in UnderWay(reads') /\ reads'[k].pc = "properties"
<1> DEFINE q == s.queued
           N == Len(q)
           n == Cardinality(Tray!Taken(s))
           G == Tray!Known'
           H == {i \in 1..n : q[i] \in G}
           taken == {q[i] : i \in 1..n}
           old(k) == IF items'[k] = Tray!Nothing THEN Tray!Fresh ELSE items'[k]
           begins(k) == [pc |-> "properties",
                         item |-> [old(k) EXCEPT !.shows = 0, !.failed = FALSE]]
<1>1. /\ s.needed \in BOOLEAN /\ s.pending \in SUBSET TrayKeys /\ q \in Seq(TrayKeys) /\ N \in Nat
      /\ s.discovery \in [pc : {"none", "names", "prune", "done"}, found : SUBSET Tray!TrayApps]
      /\ s.reads \in [TrayKeys -> Tray!Tasks \cup {Tray!Nothing}]
  BY DEF LoopStates
<1>2. /\ s.pending = Elements(q) \cup UnderWay(s.reads) /\ Injective(q)
      /\ Elements(q) \cap UnderWay(s.reads) = {} /\ Cardinality(UnderWay(s.reads)) <= MaxReads
  BY DEF QueueOK
<1>3. n \in 0..N /\ Tray!Taken(s) = 1..n
  BY <1>2, TakenIs
<1>4. IsFiniteSet(H) /\ Cardinality(H) + Cardinality(UnderWay(s.reads)) <= MaxReads
  <2>1. H = {i \in Tray!Taken(s) : s.queued[i] \in Tray!Known'}
    BY <1>3
  <2> QED BY <2>1, <1>2, TakenIs
<1>5. /\ needed' \in BOOLEAN
      /\ discovery' \in [pc : {"none", "names", "prune", "done"}, found : SUBSET Tray!TrayApps]
  <2>1. needed' = (s.needed /\ ~(s.needed /\ s.discovery.pc = "none"))
    BY DEF Tray!Top
  <2>2. discovery' = IF s.needed /\ s.discovery.pc = "none"
                     THEN [pc |-> "names", found |-> {}] ELSE s.discovery
    BY DEF Tray!Top
  <2> QED BY <1>1, <2>1, <2>2
<1>6. {q[i] : i \in Tray!Taken(s)} = taken
  BY <1>3
<1>7. /\ queued' = SubSeq(q, n + 1, N)
      /\ pending' = s.pending \ (taken \ G)
      /\ reads' = [k \in TrayKeys |-> IF k \in taken \cap G THEN begins(k) ELSE s.reads[k]]
  <2> HIDE DEF taken
  <2>1. /\ queued' = SubSeq(q, Tray!Cardinality(Tray!Taken(s)) + 1, N)
        /\ pending' = s.pending \ ({q[i] : i \in Tray!Taken(s)} \ G)
        /\ reads' = [k \in TrayKeys |-> IF k \in {q[i] : i \in Tray!Taken(s)} \cap G
                                        THEN begins(k) ELSE s.reads[k]]
    BY DEF Tray!Top, TrayKeys
  <2> QED BY <2>1, <1>6, TrayCount
<1>8. /\ queued' \in Seq(TrayKeys) /\ Len(queued') = N - n /\ DOMAIN queued' = 1..(N - n)
      /\ \A i \in 1..(N - n) : queued'[i] = q[n + i] /\ n + i \in 1..N
  <2>1. n \in 0..N /\ q \in Seq(TrayKeys) /\ N = Len(q) /\ N \in Nat /\ queued' = SubSeq(q, n + 1, N)
    BY <1>1, <1>3, <1>7
  <2> HIDE DEF n, q, N
  <2>2. /\ queued' \in Seq(TrayKeys)
        /\ Len(queued') = IF n + 1 <= N THEN N - (n + 1) + 1 ELSE 0
        /\ \A i \in 1..(N - (n + 1) + 1) : queued'[i] = q[n + 1 + i - 1]
    <3>1. n + 1 \in 1..(Len(q) + 1) /\ N \in 0..Len(q)
      BY <2>1
    <3> QED BY <2>1, <3>1, SubSeqProperties
  <2>3. Len(queued') = N - n /\ (N - (n + 1) + 1) = N - n
    BY <2>1, <2>2
  <2>4. DOMAIN queued' = 1..(N - n)
    BY <2>2, <2>3, LenProperties
  <2>5. ASSUME NEW i \in 1..(N - n) PROVE queued'[i] = q[n + i] /\ n + i \in 1..N
    <3>1. n + 1 + i - 1 = n + i /\ n + i \in 1..N
      BY <2>1
    <3> QED BY <2>2, <2>3, <3>1
  <2> QED BY <2>2, <2>3, <2>4, <2>5
<1> HIDE DEF n, old
<1>9. Injective(queued')
  <2> SUFFICES ASSUME NEW i \in 1..(N - n), NEW j \in 1..(N - n), queued'[i] = queued'[j]
               PROVE  i = j
    BY <1>8 DEF Injective
  <2>1. n + i = n + j
    BY <1>1, <1>2, <1>8 DEF Injective
  <2> QED BY <2>1, <1>1, <1>3
<1>10. Elements(q) = taken \cup Elements(queued')
  <2>1. ASSUME NEW i \in 1..N PROVE q[i] \in taken \cup Elements(queued')
    <3>1. CASE i <= n
      <4>1. i \in 1..n
        BY <3>1, <1>3
      <4> QED BY <4>1
    <3>2. CASE i > n
      <4>1. i - n \in 1..(N - n) /\ n + (i - n) = i
        BY <3>2, <1>1, <1>3
      <4>2. queued'[i - n] = q[i]
        BY <4>1, <1>8
      <4> QED BY <4>1, <4>2, <1>8 DEF Elements
    <3> QED BY <3>1, <3>2, <1>1, <1>3
  <2>2. taken \subseteq Elements(q)
    BY <1>1, <1>3 DEF Elements
  <2>3. Elements(queued') \subseteq Elements(q)
    BY <1>1, <1>8 DEF Elements
  <2>4. Elements(q) \subseteq taken \cup Elements(queued')
    BY <2>1, <1>1 DEF Elements
  <2> QED BY <2>2, <2>3, <2>4
<1>11. taken \cap Elements(queued') = {}
  <2> SUFFICES ASSUME NEW i \in 1..n, NEW j \in 1..(N - n), q[i] = queued'[j] PROVE FALSE
    BY <1>8 DEF Elements
  <2>1. i \in 1..N /\ n + j \in 1..N /\ q[n + j] = q[i]
    BY <1>1, <1>3, <1>8
  <2>2. n + j = i
    BY <2>1, <1>1, <1>2 DEF Injective
  <2> QED BY <2>2, <1>1, <1>3
<1>12. taken \subseteq TrayKeys
  BY <1>1, <1>3
<1>13. \A k \in TrayKeys : begins(k) \in Tray!Tasks /\ begins(k).pc = "properties" /\ begins(k) # Tray!Nothing
  <2> SUFFICES ASSUME NEW k \in TrayKeys PROVE begins(k) \in Tray!Tasks /\ begins(k) # Tray!Nothing
    OBVIOUS
  <2>1. old(k) \in Tray!Items
    BY DEF old, Tray!Fresh, Tray!Items, Tray!NoMenu
  <2>2. ASSUME NEW x \in Tray!Items PROVE [x EXCEPT !.shows = 0, !.failed = FALSE] \in Tray!Items
    BY DEF Tray!Items
  <2>3. begins(k) \in Tray!Tasks
    BY <2>1, <2>2 DEF Tray!Tasks
  <2>4. begins(k) # Tray!Nothing
    <3>1. DOMAIN begins(k) = {"pc", "item"} /\ DOMAIN Tray!Nothing = {}
      BY DEF Tray!Nothing
    <3> QED BY <3>1
  <2> QED BY <2>3, <2>4
<1> HIDE DEF begins, taken, q, N, H
<1>14. reads' \in [TrayKeys -> Tray!Tasks \cup {Tray!Nothing}]
  BY <1>1, <1>7, <1>13
<1>15. UnderWay(reads') = UnderWay(s.reads) \cup (taken \cap G)
  BY <1>1, <1>7, <1>12, <1>13 DEF UnderWay
<1>16. pending' = Elements(queued') \cup UnderWay(reads') /\ Elements(queued') \cap UnderWay(reads') = {}
  BY <1>2, <1>7, <1>10, <1>11, <1>15 DEF q
<1>17. Cardinality(UnderWay(reads')) <= MaxReads
  <2> DEFINE f == [i \in H |-> q[i]]
             X == taken \cap G
             R == UnderWay(s.reads)
  <2>1. f \in Surjection(H, X)
    <3>1. \A i \in H : i \in 1..n /\ q[i] \in G /\ q[i] \in taken
      BY DEF H, taken
    <3>2. \A x \in X : \E i \in H : q[i] = x
      BY DEF H, taken
    <3>3. f \in [H -> X]
      BY <3>1
    <3> QED BY <3>2, <3>3 DEF Surjection
  <2> HIDE DEF f, X
  <2>2. IsFiniteSet(X) /\ Cardinality(X) <= Cardinality(H)
    BY <2>1, <1>4, FS_Surjection
  <2>3. IsFiniteSet(R) /\ Cardinality(R) \in Nat
    BY UnderWayFinite
  <2> HIDE DEF R
  <2>4. Cardinality(X) \in Nat /\ Cardinality(H) \in Nat
    BY <2>2, <1>4, FS_CardinalityType
  <2>5. Cardinality(R \cup X) = Cardinality(R) + Cardinality(X) - Cardinality(R \cap X)
    BY <2>2, <2>3, FS_Union
  <2>6. Cardinality(R \cap X) \in Nat
    BY <2>3, FS_Subset, FS_CardinalityType
  <2>7. Cardinality(H) + Cardinality(R) <= MaxReads /\ MaxReads \in Nat
    BY <1>4, TrayAssumption DEF TrayAssumption, R
  <2>8. Cardinality(R \cup X) <= MaxReads
    BY <2>2, <2>3, <2>4, <2>5, <2>6, <2>7
  <2> QED BY <2>8, <1>15 DEF R, X
<1>18. QueueOK(queued', pending', reads')
  BY <1>8, <1>9, <1>14, <1>16, <1>17 DEF QueueOK
<1>19. \A k \in UnderWay(s.reads) : reads'[k] = s.reads[k]
  <2> SUFFICES ASSUME NEW k \in UnderWay(s.reads) PROVE reads'[k] = s.reads[k]
    OBVIOUS
  <2>1. k \in TrayKeys /\ k \notin taken
    BY <1>2, <1>10 DEF UnderWay, q
  <2> QED BY <2>1, <1>7
<1>20. \A k \in UnderWay(reads') : reads'[k] = s.reads[k] \/ reads'[k].pc = "properties"
  BY <1>7, <1>13 DEF UnderWay
<1>21. \A k \in Elements(q) \cap G :
         \/ k \in Elements(queued')
         \/ k \in UnderWay(reads') /\ reads'[k].pc = "properties"
  <2> SUFFICES ASSUME NEW k \in taken \cap G PROVE k \in UnderWay(reads') /\ reads'[k].pc = "properties"
    BY <1>10
  <2>1. k \in TrayKeys /\ reads'[k] = begins(k)
    BY <1>7, <1>12
  <2> QED BY <2>1, <1>13, <1>15
<1>22. pending' \subseteq s.pending /\ s.pending \cap G \subseteq pending'
  BY <1>7
<1> QED BY <1>5, <1>18, <1>19, <1>20, <1>21, <1>22 DEF q, G

-----------------------------------------------------------------------------
(* What a branch asks to be read. *)

LEMMA QueueGrows ==
  ASSUME NEW S, NEW q \in Seq(S), NEW k \in S, NEW w, w = <<k>> \o q \/ w = Append(q, k)
  PROVE  /\ w \in Seq(S) /\ Elements(w) = Elements(q) \cup {k}
         /\ Injective(q) /\ k \notin Elements(q) => Injective(w)
<1> DEFINE N == Len(q)
<1>1. N \in Nat /\ DOMAIN q = 1..N
  OBVIOUS
<1>2. CASE w = <<k>> \o q
  <2>1. w \in Seq(S) /\ Len(w) = N + 1 /\ DOMAIN w = 1..(N + 1)
    BY <1>2
  <2>2. w[1] = k
    BY <1>2
  <2>3. \A i \in 1..N : w[i + 1] = q[i]
    BY <1>2
  <2>4. \A i \in 1..(N + 1) : i = 1 \/ (i - 1 \in 1..N /\ w[i] = q[i - 1])
    <3> SUFFICES ASSUME NEW i \in 1..(N + 1), i # 1 PROVE i - 1 \in 1..N /\ w[i] = q[i - 1]
      OBVIOUS
    <3>1. i - 1 \in 1..N /\ i - 1 + 1 = i
      BY <1>1
    <3> QED BY <3>1, <2>3
  <2> HIDE DEF N
  <2>5. Elements(w) = Elements(q) \cup {k}
    <3>1. ASSUME NEW x \in Elements(w) PROVE x \in Elements(q) \cup {k}
      <4>1. PICK i \in 1..(N + 1) : x = w[i]
        BY <3>1, <2>1 DEF Elements
      <4>2. CASE i = 1
        BY <4>1, <4>2, <2>2
      <4>3. CASE i # 1
        BY <4>1, <4>3, <2>4, <1>1 DEF Elements
      <4> QED BY <4>2, <4>3
    <3>2. ASSUME NEW i \in 1..N PROVE q[i] \in Elements(w)
      <4>1. i + 1 \in 1..(N + 1)
        BY <1>1
      <4> QED BY <4>1, <2>1, <2>3 DEF Elements
    <3>3. k \in Elements(w)
      BY <1>1, <2>1, <2>2 DEF Elements
    <3> QED BY <3>1, <3>2, <3>3, <1>1 DEF Elements
  <2>6. ASSUME Injective(q), k \notin Elements(q), NEW i \in 1..(N + 1), NEW j \in 1..(N + 1), w[i] = w[j]
        PROVE  i = j
    <3>1. \A n \in 1..N : q[n] # k
      BY <2>6, <1>1 DEF Elements
    <3>2. CASE i = 1
      BY <3>1, <3>2, <2>2, <2>4, <2>6
    <3>3. CASE j = 1
      BY <3>1, <3>3, <2>2, <2>4, <2>6
    <3>4. CASE i # 1 /\ j # 1
      <4>1. i - 1 \in 1..N /\ j - 1 \in 1..N /\ q[i - 1] = q[j - 1]
        BY <3>4, <2>4, <2>6
      <4>2. i - 1 = j - 1
        BY <4>1, <2>6, <1>1 DEF Injective
      <4> QED BY <4>2, <1>1
    <3> QED BY <3>2, <3>3, <3>4
  <2> QED BY <2>1, <2>5, <2>6 DEF Injective
<1>3. CASE w = Append(q, k)
  <2>1. w \in Seq(S) /\ Len(w) = N + 1 /\ DOMAIN w = 1..(N + 1)
    BY <1>3
  <2>2. w[N + 1] = k
    BY <1>3
  <2>3. \A i \in 1..N : w[i] = q[i]
    BY <1>3
  <2>4. \A i \in 1..(N + 1) : i = N + 1 \/ i \in 1..N
    OBVIOUS
  <2> HIDE DEF N
  <2>5. Elements(w) = Elements(q) \cup {k}
    <3>1. ASSUME NEW x \in Elements(w) PROVE x \in Elements(q) \cup {k}
      BY <3>1, <2>1, <2>2, <2>3, <2>4, <1>1 DEF Elements
    <3>2. ASSUME NEW i \in 1..N PROVE q[i] \in Elements(w)
      <4>1. i \in 1..(N + 1)
        BY <1>1
      <4> QED BY <4>1, <2>1, <2>3 DEF Elements
    <3>3. k \in Elements(w)
      <4>1. N + 1 \in 1..(N + 1)
        BY <1>1
      <4> QED BY <4>1, <2>1, <2>2 DEF Elements
    <3> QED BY <3>1, <3>2, <3>3, <1>1 DEF Elements
  <2>6. ASSUME Injective(q), k \notin Elements(q), NEW i \in 1..(N + 1), NEW j \in 1..(N + 1), w[i] = w[j]
        PROVE  i = j
    <3>1. \A n \in 1..N : q[n] # k
      BY <2>6, <1>1 DEF Elements
    <3>2. CASE i \in 1..N /\ j \in 1..N
      BY <3>2, <2>3, <2>6, <1>1 DEF Injective
    <3>3. CASE i = N + 1 \/ j = N + 1
      BY <3>1, <3>3, <2>2, <2>3, <2>4, <2>6
    <3> QED BY <3>2, <3>3, <2>4
  <2> QED BY <2>1, <2>5, <2>6 DEF Injective
<1> QED BY <1>2, <1>3

LEMMA AsksKeep ==
  ASSUME NEW s \in LoopStates, QueueOK(s.queued, s.pending, s.reads), NEW k \in TrayKeys, NEW front
  PROVE  LET t == Tray!Asks(k, s, front)
         IN /\ t \in LoopStates /\ QueueOK(t.queued, t.pending, t.reads)
            /\ t.pending = s.pending \cup {k} /\ t.reads = s.reads
            /\ t.needed = s.needed /\ t.discovery = s.discovery
            /\ Elements(s.queued) \subseteq Elements(t.queued)
            /\ k \in s.pending \/ k \in Elements(t.queued)
<1> DEFINE w == IF front THEN <<k>> \o s.queued ELSE Append(s.queued, k)
           t == [needed |-> s.needed, discovery |-> s.discovery, queued |-> w,
                 pending |-> s.pending \cup {k}, reads |-> s.reads]
<1>1. CASE k \in s.pending
  <2>1. Tray!Asks(k, s, front) = s
    BY <1>1 DEF Tray!Asks
  <2> QED BY <1>1, <2>1
<1>2. CASE k \notin s.pending
  <2>1. /\ s.needed \in BOOLEAN /\ s.pending \in SUBSET TrayKeys /\ s.queued \in Seq(TrayKeys)
        /\ s.discovery \in [pc : {"none", "names", "prune", "done"}, found : SUBSET Tray!TrayApps]
        /\ s.reads \in [TrayKeys -> Tray!Tasks \cup {Tray!Nothing}]
    BY DEF LoopStates
  <2>2. Tray!Asks(k, s, front) = [s EXCEPT !.pending = @ \cup {k}, !.queued = w]
    BY <1>2 DEF Tray!Asks
  <2>3. [s EXCEPT !.pending = @ \cup {k}, !.queued = w] = t
    <3>1. s = [needed |-> s.needed, discovery |-> s.discovery, queued |-> s.queued,
               pending |-> s.pending, reads |-> s.reads]
      BY DEF LoopStates
    <3>2. DOMAIN s = {"needed", "discovery", "queued", "pending", "reads"}
      BY <3>1
    <3>3. ASSUME NEW p, NEW x
          PROVE  [s EXCEPT !.pending = p, !.queued = x]
                   = [needed |-> s.needed, discovery |-> s.discovery, queued |-> x,
                      pending |-> p, reads |-> s.reads]
      <4> DEFINE y == [s EXCEPT !.pending = p, !.queued = x]
      <4>1. y = [f \in {"needed", "discovery", "queued", "pending", "reads"} |-> y[f]]
        BY <3>2
      <4>2. /\ y["needed"] = s["needed"] /\ y["discovery"] = s["discovery"] /\ y["reads"] = s["reads"]
            /\ y["pending"] = p /\ y["queued"] = x
        BY <3>2
      <4> HIDE DEF y
      <4>3. y = [needed |-> s.needed, discovery |-> s.discovery, queued |-> x,
                 pending |-> p, reads |-> s.reads]
        BY <4>1, <4>2
      <4> QED BY <4>3 DEF y
    <3> QED BY <3>3
  <2>4. w = <<k>> \o s.queued \/ w = Append(s.queued, k)
    OBVIOUS
  <2>a. \A x : x = <<k>> \o s.queued \/ x = Append(s.queued, k) =>
          /\ x \in Seq(TrayKeys) /\ Elements(x) = Elements(s.queued) \cup {k}
          /\ Injective(s.queued) /\ k \notin Elements(s.queued) => Injective(x)
    BY <2>1, QueueGrows
  <2> HIDE DEF w
  <2>5. Elements(s.queued) \cup UnderWay(s.reads) = s.pending
    BY DEF QueueOK
  <2>6. w \in Seq(TrayKeys) /\ Elements(w) = Elements(s.queued) \cup {k}
    BY <2>4, <2>a
  <2>7. Injective(s.queued) /\ Elements(s.queued) \cap UnderWay(s.reads) = {}
        /\ Cardinality(UnderWay(s.reads)) <= MaxReads
    BY DEF QueueOK
  <2>8. Injective(w)
    <3>1. k \notin Elements(s.queued)
      BY <1>2, <2>5
    <3> QED BY <3>1, <2>4, <2>7, <2>a
  <2>9. t \in LoopStates
    BY <2>1, <2>6 DEF LoopStates
  <2>10. s.pending \cup {k} = Elements(w) \cup UnderWay(s.reads)
         /\ Elements(w) \cap UnderWay(s.reads) = {}
    BY <1>2, <2>5, <2>6, <2>7
  <2>11. QueueOK(w, s.pending \cup {k}, s.reads)
    BY <2>1, <2>6, <2>7, <2>8, <2>10 DEF QueueOK
  <2>12. Tray!Asks(k, s, front) = t
    BY <2>2, <2>3
  <2> QED BY <2>6, <2>9, <2>11, <2>12
<1> QED BY <1>1, <1>2

\* The loop while what was discovered is asked about, address by address.
Leavings ==
  {s \in LoopStates :
    /\ QueueOK(s.queued, s.pending, s.reads) /\ s.reads = reads
    /\ s.discovery = [pc |-> "none", found |-> {}]
    /\ pending \subseteq s.pending /\ Elements(queued) \subseteq Elements(s.queued)
    /\ \A k \in s.pending : k \in pending \/ k \in Tray!Known'}

AskedFrom(a, s) ==
  IF a \in discovery.found
  THEN Tray!Asks(<<a, known'[a]>>, s, items'[<<a, known'[a]>>] = Tray!Nothing) ELSE s

LEMMA AskedFromKeeps ==
  ASSUME known' \in [Tray!TrayApps -> 0..MaxGeneration], \A a \in discovery.found : known'[a] # 0,
         NEW s \in Leavings, NEW a \in 1..NumApps
  PROVE  AskedFrom(a, s) \in Leavings
<1>1. /\ s \in LoopStates /\ QueueOK(s.queued, s.pending, s.reads) /\ s.reads = reads
      /\ s.discovery = [pc |-> "none", found |-> {}]
      /\ pending \subseteq s.pending /\ Elements(queued) \subseteq Elements(s.queued)
      /\ \A k \in s.pending : k \in pending \/ k \in Tray!Known'
  BY DEF Leavings
<1>2. CASE a \notin discovery.found
  BY <1>2 DEF AskedFrom
<1>3. CASE a \in discovery.found
  <2> DEFINE k == <<a, known'[a]>>
             front == items'[k] = Tray!Nothing
             t == Tray!Asks(k, s, front)
  <2>1. a \in Tray!TrayApps /\ known'[a] \in 0..MaxGeneration /\ known'[a] # 0
    BY <1>3 DEF Tray!TrayApps
  <2>2. known'[a] \in 1..MaxGeneration
    BY <2>1, TrayAssumption DEF TrayAssumption
  <2>3. k \in TrayKeys
    BY <2>1, <2>2 DEF TrayKeys, Tray!ItemKeys
  <2>4. k \in Tray!Known'
    BY <2>1, <2>2 DEF Tray!Known, Tray!ItemKeys, Tray!TrayApps
  <2>5. AskedFrom(a, s) = t
    BY <1>3 DEF AskedFrom
  <2> HIDE DEF k, front
  <2>6. /\ t \in LoopStates /\ QueueOK(t.queued, t.pending, t.reads)
        /\ t.pending = s.pending \cup {k} /\ t.reads = s.reads
        /\ t.discovery = s.discovery
        /\ Elements(s.queued) \subseteq Elements(t.queued)
    BY <1>1, <2>3, AsksKeep
  <2> HIDE DEF t
  <2>7. t \in Leavings
    BY <1>1, <2>4, <2>6 DEF Leavings
  <2> QED BY <2>5, <2>7
<1> QED BY <1>2, <1>3

LEMMA AskedSound ==
  ASSUME known' \in [Tray!TrayApps -> 0..MaxGeneration], \A a \in discovery.found : known'[a] # 0,
         [Tray!Left EXCEPT !.discovery = [pc |-> "none", found |-> {}]] \in Leavings
  PROVE  Tray!Asked[NumApps] \in Leavings
<1> DEFINE N == NumApps
           start == [Tray!Left EXCEPT !.discovery = [pc |-> "none", found |-> {}]]
           S == Leavings
           F == [p \in (1..N) \X S |-> AskedFrom(p[1], p[2])]
           Solves(f) == f = [i \in 0..N |-> IF i = 0 THEN start ELSE AskedFrom(i, f[i-1])]
<1>1. N \in Nat /\ start \in S
  BY TrayAssumption DEF TrayAssumption
<1>2. F \in [(1..N) \X S -> S]
  BY AskedFromKeeps
<1>3. \E g \in [0..N -> S] : Iterates(g, F, start, N)
  <2> HIDE DEF F, N, start, S
  <2> QED BY <1>1, <1>2, Iteration
<1>4. PICK g \in [0..N -> S] : g[0] = start /\ \A i \in 1..N : g[i] = F[<<i, g[i-1]>>]
  BY <1>3 DEF Iterates
<1> HIDE DEF S, start
<1>5. \A i \in 1..N : g[i] = AskedFrom(i, g[i-1])
  <2> SUFFICES ASSUME NEW i \in 1..N PROVE g[i] = AskedFrom(i, g[i-1])
    OBVIOUS
  <2>1. g[i-1] \in S
    BY <1>1, <1>4
  <2>2. F[<<i, g[i-1]>>] = AskedFrom(i, g[i-1])
    BY <2>1
  <2> QED BY <2>2, <1>4
<1>6. Solves(g)
  <2>1. \A i \in 0..N : g[i] = IF i = 0 THEN start ELSE AskedFrom(i, g[i-1])
    <3> SUFFICES ASSUME NEW i \in 0..N PROVE g[i] = IF i = 0 THEN start ELSE AskedFrom(i, g[i-1])
      OBVIOUS
    <3>1. CASE i = 0
      BY <1>4, <3>1
    <3>2. CASE i # 0
      <4>1. i \in 1..N
        BY <3>2, <1>1
      <4> QED BY <4>1, <3>2, <1>5
    <3> QED BY <3>1, <3>2
  <2> HIDE DEF N
  <2> QED BY <2>1, <1>4
<1>7. Tray!Asked = CHOOSE f : Solves(f)
  BY DEF Tray!Asked, AskedFrom, start
<1>8. Solves(Tray!Asked)
  <2> HIDE DEF Solves
  <2> QED BY <1>6, <1>7
<1>9. Tray!Asked[0] = start /\ \A i \in 1..N : Tray!Asked[i] = AskedFrom(i, Tray!Asked[i-1])
  <2>1. 0 \in 0..N /\ Tray!Asked[0] = start
    BY <1>8, <1>1
  <2>2. ASSUME NEW i \in 1..N PROVE Tray!Asked[i] = AskedFrom(i, Tray!Asked[i-1])
    <3>1. i \in 0..N /\ i # 0
      BY <1>1
    <3> HIDE DEF N
    <3> QED BY <3>1, <1>8
  <2> QED BY <2>1, <2>2
<1> HIDE DEF Solves, F
<1> DEFINE T == {k \in Nat : k <= N => Tray!Asked[k] \in S}
<1>10. 0 \in T
  BY <1>1, <1>9
<1>11. ASSUME NEW k \in Nat, k \in T PROVE k + 1 \in T
  <2> SUFFICES ASSUME k + 1 <= N PROVE Tray!Asked[k + 1] \in S
    OBVIOUS
  <2>1. k + 1 \in 1..N /\ k + 1 - 1 = k /\ Tray!Asked[k] \in S
    BY <1>1, <1>11
  <2>2. Tray!Asked[k + 1] = AskedFrom(k + 1, Tray!Asked[k])
    BY <2>1, <1>9
  <2> QED BY <2>1, <2>2, AskedFromKeeps DEF S
<1>12. Nat \subseteq T
  <2> HIDE DEF T
  <2> QED BY <1>10, <1>11, Induction
<1> QED BY <1>1, <1>12 DEF S

-----------------------------------------------------------------------------
(***************************************************************************)
(* The invariant of the tray.                                              *)
(***************************************************************************)
SignalKinds == [kind : {"item", "menu", "owner"}, app : Tray!TrayApps] \cup {[kind |-> "registry"]}
Applied == [life : {"absent", "live", "gone"}, shows : Nat, menu : Nat]
Performed == [key : TrayKeys, menu : Nat,
              pc : {"call", "check", "click", "load", "done", "failed"}]
Wanted == [key : TrayKeys, kind : {"call", "open", "click"}]
Discoveries == [pc : {"none", "names", "prune", "done"}, found : SUBSET Tray!TrayApps]

Signalled(k, sg) == [kind |-> "item", app |-> k[1]] \in Elements(sg)

\* What an application shows is kept, or will be read.
Covered(k, its, ap, q, r, d, sg) ==
  \/ its[k].shows = ap[k[1]].shows \/ k \in d \/ k \in Elements(q) \/ Signalled(k, sg)
  \/ k \in UnderWay(r) /\ (r[k].pc \in {"properties", "failed"} \/ r[k].item.shows = ap[k[1]].shows)

\* A read that has what the application shows may end as it is.
Following(k, ap, r, d, sg) ==
  \/ r[k].pc \in {"properties", "failed"}
  \/ r[k].item.shows = ap[k[1]].shows \/ k \in d \/ Signalled(k, sg)

AppsTyped == app \in [Tray!TrayApps -> Applied] /\ registry \subseteq Tray!TrayApps /\ signals \in Seq(SignalKinds)
ItemsTyped ==
  /\ known \in [Tray!TrayApps -> 0..MaxGeneration] /\ generation \in 0..MaxGeneration
  /\ items \in [TrayKeys -> Tray!Items \cup {Tray!Nothing}]
TasksTyped ==
  /\ discovery \in Discoveries /\ action \in Performed \cup {Tray!Nothing}
  /\ command \in Wanted \cup {Tray!Nothing}
FlagsTyped == connected \in BOOLEAN /\ needed \in BOOLEAN /\ changed \in BOOLEAN

QueuesKept == QueueOK(queued, pending, reads) /\ dirty \subseteq pending \cap Tray!Known
ViewsKept == changed \/ ~connected \/ snapshot = Tray!Views
ItemsKept ==
  \A k \in Tray!Shown : k \in Tray!Known /\ Covered(k, items, app, queued, reads, dirty, signals)
ReadsFollow == \A k \in UnderWay(reads) \cap Tray!Known : Following(k, app, reads, dirty, signals)

\* Generations are given once, and without a session nothing is known.
KeysFollow ==
  /\ \A a \in Tray!TrayApps : known[a] <= generation
  /\ \A k \in pending : k[2] <= generation
  /\ ~connected => \A a \in Tray!TrayApps : known[a] = 0

TrayInv ==
  /\ AppsTyped /\ ItemsTyped /\ TasksTyped /\ FlagsTyped
  /\ QueuesKept /\ ViewsKept /\ ItemsKept /\ ReadsFollow /\ KeysFollow

LEMMA TrayIsSound ==
  ASSUME TrayInv PROVE Tray!TrayKept
<1>1. /\ AppsTyped /\ ItemsTyped /\ TasksTyped /\ FlagsTyped
      /\ QueuesKept /\ ViewsKept /\ ItemsKept
  BY DEF TrayInv
<1>2. /\ queued \in Seq(TrayKeys) /\ reads \in [TrayKeys -> Tray!Tasks \cup {Tray!Nothing}]
      /\ pending = Elements(queued) \cup UnderWay(reads) /\ Injective(queued)
      /\ Elements(queued) \cap UnderWay(reads) = {} /\ Cardinality(UnderWay(reads)) <= MaxReads
      /\ dirty \subseteq pending \cap Tray!Known
  BY <1>1 DEF QueuesKept, QueueOK
<1>3. Elements(queued) \subseteq TrayKeys /\ UnderWay(reads) \subseteq TrayKeys
  BY <1>2 DEF Elements, UnderWay
<1>4. pending \subseteq TrayKeys /\ dirty \subseteq TrayKeys
  BY <1>2, <1>3
<1>5. Tray!TypeOK
  BY <1>1, <1>2, <1>4 DEF Tray!TypeOK, AppsTyped, ItemsTyped, TasksTyped, FlagsTyped, TrayKeys,
     SignalKinds, Applied, Performed, Wanted, Discoveries
<1>6. Tray!PendingIsDue
  BY <1>2, Bridges, TrayCount DEF Tray!PendingIsDue
<1>7. Tray!ViewsFlushed
  BY <1>1 DEF Tray!ViewsFlushed, ViewsKept, ItemsKept
<1>8. Tray!NothingForgotten
  <2> SUFFICES ASSUME NEW k \in Tray!Shown
               PROVE  \/ items[k].shows = app[k[1]].shows
                      \/ k \in dirty \/ k \in Tray!ToSet(queued)
                      \/ [kind |-> "item", app |-> k[1]] \in Tray!ToSet(signals)
                      \/ (k \in Tray!Reading /\ (\/ reads[k].pc \in {"properties", "failed"}
                                                \/ reads[k].item.shows = app[k[1]].shows))
    BY DEF Tray!NothingForgotten
  <2>1. Covered(k, items, app, queued, reads, dirty, signals)
    BY <1>1 DEF ItemsKept
  <2> QED BY <2>1, Bridges DEF Covered, Signalled
<1> QED BY <1>5, <1>6, <1>7, <1>8 DEF Tray!TrayKept

LEMMA TrayInitially == Tray!Init => TrayInv
<1> SUFFICES ASSUME Tray!Init PROVE TrayInv
  OBVIOUS
<1>1. /\ app = [a \in Tray!TrayApps |-> [life |-> "absent", shows |-> 1, menu |-> 1]]
      /\ registry = {} /\ signals = <<>> /\ connected = TRUE
      /\ known = [a \in Tray!TrayApps |-> 0] /\ items = [k \in TrayKeys |-> Tray!Nothing]
      /\ queued = <<>> /\ pending = {} /\ dirty = {}
      /\ needed = FALSE /\ discovery = [pc |-> "names", found |-> {}]
      /\ reads = [k \in TrayKeys |-> Tray!Nothing] /\ action = Tray!Nothing /\ command = Tray!Nothing
      /\ changed = TRUE /\ generation = 0
  BY DEF Tray!Init, TrayKeys
<1>2. MaxGeneration \in Nat /\ MaxReads \in Nat
  BY TrayAssumption DEF TrayAssumption
<1>3. AppsTyped
  BY <1>1 DEF AppsTyped, Applied
<1>4. ItemsTyped
  BY <1>1, <1>2 DEF ItemsTyped
<1>5. TasksTyped
  BY <1>1 DEF TasksTyped, Discoveries
<1>6. FlagsTyped
  BY <1>1 DEF FlagsTyped
<1>7. UnderWay(reads) = {} /\ Elements(queued) = {} /\ Injective(queued)
  BY <1>1 DEF UnderWay, Elements, Injective
<1>8. Cardinality(UnderWay(reads)) <= MaxReads
  BY <1>2, <1>7, FS_EmptySet
<1>9. QueuesKept
  BY <1>1, <1>7, <1>8 DEF QueuesKept, QueueOK
<1>10. ViewsKept
  BY <1>1 DEF ViewsKept
<1>11. ItemsKept
  BY <1>1 DEF ItemsKept, Tray!Shown, TrayKeys
<1>12. ReadsFollow
  BY <1>7 DEF ReadsFollow
<1>13. KeysFollow
  BY <1>1 DEF KeysFollow
<1> QED BY <1>3, <1>4, <1>5, <1>6, <1>9, <1>10, <1>11, <1>12, <1>13 DEF TrayInv

\* The top of the loop keeps the invariant when what a branch leaves to it would.
LEMMA LoopKeeps ==
  ASSUME NEW s \in LoopStates, QueueOK(s.queued, s.pending, s.reads), Tray!Top(s),
         AppsTyped', ItemsTyped', action' \in Performed \cup {Tray!Nothing},
         command' \in Wanted \cup {Tray!Nothing},
         connected' \in BOOLEAN, changed' \in BOOLEAN, ViewsKept',
         dirty' \subseteq s.pending \cap Tray!Known',
         \A k \in Tray!Shown' :
           k \in Tray!Known' /\ Covered(k, items', app', s.queued, s.reads, dirty', signals'),
         \A k \in UnderWay(s.reads) \cap Tray!Known' : Following(k, app', s.reads, dirty', signals'),
         \A a \in Tray!TrayApps : known'[a] <= generation',
         \A k \in s.pending : k[2] <= generation',
         ~connected' => \A a \in Tray!TrayApps : known'[a] = 0
  PROVE  TrayInv'
<1>1. /\ known' \in [Tray!TrayApps -> 0..MaxGeneration]
      /\ items' \in [TrayKeys -> Tray!Items \cup {Tray!Nothing}]
  BY DEF ItemsTyped
<1>2. /\ needed' \in BOOLEAN
      /\ discovery' \in [pc : {"none", "names", "prune", "done"}, found : SUBSET Tray!TrayApps]
      /\ QueueOK(queued', pending', reads') /\ pending' \subseteq s.pending
      /\ s.pending \cap Tray!Known' \subseteq pending'
      /\ \A k \in UnderWay(s.reads) : reads'[k] = s.reads[k]
      /\ \A k \in UnderWay(reads') : reads'[k] = s.reads[k] \/ reads'[k].pc = "properties"
      /\ \A k \in Elements(s.queued) \cap Tray!Known' :
           \/ k \in Elements(queued')
           \/ k \in UnderWay(reads') /\ reads'[k].pc = "properties"
  BY <1>1, TopKeeps
<1>3. TasksTyped' /\ FlagsTyped'
  BY <1>2 DEF TasksTyped, FlagsTyped, Discoveries
<1>4. QueuesKept'
  <2>1. dirty' \subseteq pending' \cap Tray!Known'
    BY <1>2
  <2> QED BY <2>1, <1>2 DEF QueuesKept
<1>5. \A k : k \in UnderWay(s.reads) => k \in UnderWay(reads')
  BY <1>2 DEF UnderWay
<1>6. ASSUME NEW k \in Tray!Shown'
      PROVE  k \in Tray!Known' /\ Covered(k, items', app', queued', reads', dirty', signals')
  <2>1. k \in Tray!Known' /\ Covered(k, items', app', s.queued, s.reads, dirty', signals')
    BY <1>6
  <2>2. CASE k \in Elements(s.queued)
    <3>1. \/ k \in Elements(queued')
          \/ k \in UnderWay(reads') /\ reads'[k].pc = "properties"
      BY <2>1, <2>2, <1>2
    <3> QED BY <2>1, <3>1 DEF Covered
  <2>3. CASE k \in UnderWay(s.reads)
    <3>1. k \in UnderWay(reads') /\ reads'[k] = s.reads[k]
      BY <2>3, <1>2, <1>5
    <3> QED BY <2>1, <2>2, <3>1 DEF Covered
  <2>4. CASE k \notin Elements(s.queued) /\ k \notin UnderWay(s.reads)
    BY <2>1, <2>4 DEF Covered
  <2> QED BY <2>2, <2>3, <2>4
<1>7. ItemsKept'
  BY <1>6 DEF ItemsKept
<1>8. ASSUME NEW k \in UnderWay(reads') \cap Tray!Known'
      PROVE  Following(k, app', reads', dirty', signals')
  <2>1. CASE reads'[k].pc = "properties"
    BY <2>1 DEF Following
  <2>2. CASE reads'[k] = s.reads[k]
    <3>1. k \in UnderWay(s.reads)
      BY <1>8, <2>2 DEF UnderWay
    <3>2. Following(k, app', s.reads, dirty', signals')
      BY <3>1, <1>8
    <3> QED BY <3>2, <2>2 DEF Following
  <2> QED BY <1>2, <1>8, <2>1, <2>2
<1>9. ReadsFollow'
  BY <1>8 DEF ReadsFollow
<1>10. KeysFollow'
  BY <1>2 DEF KeysFollow
<1> QED BY <1>3, <1>4, <1>7, <1>9, <1>10 DEF TrayInv

LEMMA TrayStutters ==
  ASSUME TrayInv, UNCHANGED trayVars PROVE TrayInv'
BY DEF trayVars, TrayInv, AppsTyped, ItemsTyped, TasksTyped, FlagsTyped, QueuesKept, ViewsKept,
   Tray!Views, ItemsKept, ReadsFollow, KeysFollow, Tray!Known, Tray!Shown

\* What an unchanged loop leaves to its top.
LEMMA LeftIs ==
  ASSUME TrayInv
  PROVE  /\ Tray!Left \in LoopStates
         /\ QueueOK(Tray!Left.queued, Tray!Left.pending, Tray!Left.reads)
         /\ Tray!Left.queued = queued /\ Tray!Left.pending = pending /\ Tray!Left.reads = reads
         /\ Tray!Left.needed = needed /\ Tray!Left.discovery = discovery
<1>1. QueueOK(queued, pending, reads)
  BY DEF TrayInv, QueuesKept
<1>2. queued \in Seq(TrayKeys) /\ reads \in [TrayKeys -> Tray!Tasks \cup {Tray!Nothing}]
  BY <1>1 DEF QueueOK
<1>3. pending \in SUBSET TrayKeys
  BY <1>1 DEF QueueOK, Elements, UnderWay
<1>4. needed \in BOOLEAN /\ discovery \in Discoveries
  BY DEF TrayInv, FlagsTyped, TasksTyped
<1> QED BY <1>1, <1>2, <1>3, <1>4 DEF Tray!Left, LoopStates, Discoveries

-----------------------------------------------------------------------------
(* The steps outside the loop. *)

LEMMA SignalAdds ==
  ASSUME signals \in Seq(SignalKinds), NEW s \in SignalKinds, Tray!Signal(s)
  PROVE  /\ signals' \in Seq(SignalKinds) /\ Elements(signals) \subseteq Elements(signals')
         /\ connected => s \in Elements(signals')
<1>1. CASE connected
  <2>1. signals' = Append(signals, s)
    BY <1>1 DEF Tray!Signal
  <2>2. \A w : w = <<s>> \o signals \/ w = Append(signals, s) =>
          w \in Seq(SignalKinds) /\ Elements(w) = Elements(signals) \cup {s}
    BY QueueGrows
  <2> QED BY <2>1, <2>2
<1>2. CASE ~connected
  BY <1>2 DEF Tray!Signal
<1> QED BY <1>1, <1>2

\* Applications change what they show with a signal; tasks move on.
LEMMA AppsMove ==
  ASSUME TrayInv, AppsTyped', TasksTyped',
         UNCHANGED <<connected, known, items, queued, pending, dirty, needed, reads, changed,
                     snapshot, generation>>,
         Elements(signals) \subseteq Elements(signals'),
         \A a \in Tray!TrayApps : \/ app'[a].shows = app[a].shows \/ ~connected
                              \/ [kind |-> "item", app |-> a] \in Elements(signals')
  PROVE  TrayInv'
<1>1. /\ ItemsTyped /\ FlagsTyped /\ QueuesKept /\ ViewsKept /\ ItemsKept /\ ReadsFollow /\ KeysFollow
  BY DEF TrayInv
<1>2. ItemsTyped' /\ FlagsTyped' /\ QueuesKept' /\ ViewsKept' /\ KeysFollow'
  BY <1>1 DEF ItemsTyped, FlagsTyped, QueuesKept, ViewsKept, Tray!Views, KeysFollow, Tray!Known
<1>3. Tray!Known' = Tray!Known /\ Tray!Shown' = Tray!Shown
  BY DEF Tray!Known, Tray!Shown
<1>4. ASSUME NEW k \in Tray!Known
      PROVE  /\ k[1] \in Tray!TrayApps /\ connected
             /\ Signalled(k, signals) => Signalled(k, signals')
             /\ app'[k[1]].shows = app[k[1]].shows \/ Signalled(k, signals')
  <2>1. k \in Tray!TrayApps \X (1..MaxGeneration) /\ known[k[1]] = k[2]
    BY <1>4 DEF Tray!Known, Tray!ItemKeys
  <2>2. k[1] \in Tray!TrayApps /\ known[k[1]] # 0
    BY <2>1
  <2>3. connected
    BY <2>2, <1>1 DEF KeysFollow
  <2> QED BY <2>2, <2>3 DEF Signalled
<1>5. ASSUME NEW k \in Tray!Shown
      PROVE  k \in Tray!Known /\ Covered(k, items, app', queued, reads, dirty, signals')
  <2>1. k \in Tray!Known /\ Covered(k, items, app, queued, reads, dirty, signals)
    BY <1>1, <1>5 DEF ItemsKept
  <2>2. /\ Signalled(k, signals) => Signalled(k, signals')
        /\ app'[k[1]].shows = app[k[1]].shows \/ Signalled(k, signals')
    BY <2>1, <1>4
  <2> QED BY <2>1, <2>2 DEF Covered
<1>6. ASSUME NEW k \in UnderWay(reads) \cap Tray!Known
      PROVE  Following(k, app', reads, dirty, signals')
  <2>1. Following(k, app, reads, dirty, signals)
    BY <1>1, <1>6 DEF ReadsFollow
  <2>2. /\ Signalled(k, signals) => Signalled(k, signals')
        /\ app'[k[1]].shows = app[k[1]].shows \/ Signalled(k, signals')
    BY <1>6, <1>4
  <2> QED BY <2>1, <2>2 DEF Following
<1>7. ItemsKept'
  BY <1>3, <1>5 DEF ItemsKept
<1>8. ReadsFollow'
  BY <1>3, <1>6 DEF ReadsFollow
<1> QED BY <1>2, <1>7, <1>8 DEF TrayInv

LEMMA TrayApplications ==
  ASSUME TrayInv, Tray!Applications PROVE TrayInv'
<1>1. /\ UNCHANGED <<connected, known, items, queued, pending, dirty, needed, reads, changed,
                     snapshot, generation>>
      /\ UNCHANGED <<discovery, action, command>>
  BY DEF Tray!Applications, Tray!queues, Tray!view
<1>2. TasksTyped'
  BY <1>1 DEF TrayInv, TasksTyped
<1>3. app \in [Tray!TrayApps -> Applied] /\ registry \subseteq Tray!TrayApps /\ signals \in Seq(SignalKinds)
  BY DEF TrayInv, AppsTyped
<1>4. PICK a \in Tray!TrayApps : Tray!Starts(a) \/ Tray!Exits(a) \/ Tray!Registers(a) \/ Tray!Changes(a)
  BY DEF Tray!Applications
<1>5. app[a] \in Applied /\ app[a].shows \in Nat /\ app[a].menu \in Nat
  BY <1>3 DEF Applied
<1>6. CASE Tray!Starts(a)
  <2>1. app' = [app EXCEPT ![a].life = "live"] /\ registry' = registry /\ signals' = signals
    BY <1>6 DEF Tray!Starts
  <2>2. [app[a] EXCEPT !.life = "live"] \in Applied
    BY <1>5 DEF Applied
  <2>3. AppsTyped'
    BY <1>3, <2>1, <2>2 DEF AppsTyped
  <2>4. \A b \in Tray!TrayApps : app'[b].shows = app[b].shows
    BY <1>3, <2>1 DEF Applied
  <2> QED BY <1>1, <1>2, <2>1, <2>3, <2>4, AppsMove
<1>7. CASE Tray!Exits(a)
  <2>1. app' = [app EXCEPT ![a].life = "gone"] /\ registry' = registry
        /\ Tray!Signal([kind |-> "owner", app |-> a])
    BY <1>7 DEF Tray!Exits
  <2>2. [app[a] EXCEPT !.life = "gone"] \in Applied
    BY <1>5 DEF Applied
  <2>3. [kind |-> "owner", app |-> a] \in SignalKinds
    BY DEF SignalKinds
  <2>4. signals' \in Seq(SignalKinds) /\ Elements(signals) \subseteq Elements(signals')
    BY <1>3, <2>1, <2>3, SignalAdds
  <2>5. AppsTyped'
    BY <1>3, <2>1, <2>2, <2>4 DEF AppsTyped
  <2>6. \A b \in Tray!TrayApps : app'[b].shows = app[b].shows
    BY <1>3, <2>1 DEF Applied
  <2> QED BY <1>1, <1>2, <2>4, <2>5, <2>6, AppsMove
<1>8. CASE Tray!Registers(a)
  <2>1. app' = app /\ registry' = registry \cup {a} /\ Tray!Signal([kind |-> "registry"])
    BY <1>8 DEF Tray!Registers
  <2>2. [kind |-> "registry"] \in SignalKinds
    BY DEF SignalKinds
  <2>3. signals' \in Seq(SignalKinds) /\ Elements(signals) \subseteq Elements(signals')
    BY <1>3, <2>1, <2>2, SignalAdds
  <2>4. AppsTyped'
    BY <1>3, <2>1, <2>3 DEF AppsTyped
  <2>5. \A b \in Tray!TrayApps : app'[b].shows = app[b].shows
    BY <2>1
  <2> QED BY <1>1, <1>2, <2>3, <2>4, <2>5, AppsMove
<1>9. CASE Tray!Changes(a)
  <2>1. /\ registry' = registry
        /\ \/ /\ app' = [app EXCEPT ![a].shows = @ + 1] /\ Tray!Signal([kind |-> "item", app |-> a])
           \/ /\ app' = [app EXCEPT ![a].menu = @ + 1] /\ Tray!Signal([kind |-> "menu", app |-> a])
    BY <1>9 DEF Tray!Changes
  <2>2. [app[a] EXCEPT !.shows = @ + 1] \in Applied /\ [app[a] EXCEPT !.menu = @ + 1] \in Applied
    BY <1>5 DEF Applied
  <2>3. [kind |-> "item", app |-> a] \in SignalKinds /\ [kind |-> "menu", app |-> a] \in SignalKinds
    BY DEF SignalKinds
  <2>4. signals' \in Seq(SignalKinds) /\ Elements(signals) \subseteq Elements(signals')
    BY <1>3, <2>1, <2>3, SignalAdds
  <2>5. AppsTyped'
    BY <1>3, <2>1, <2>2, <2>4 DEF AppsTyped
  <2>6. ASSUME NEW b \in Tray!TrayApps
        PROVE  \/ app'[b].shows = app[b].shows \/ ~connected
               \/ [kind |-> "item", app |-> b] \in Elements(signals')
    <3>1. CASE app' = [app EXCEPT ![a].menu = @ + 1]
      BY <3>1, <1>3 DEF Applied
    <3>2. CASE app' = [app EXCEPT ![a].shows = @ + 1] /\ Tray!Signal([kind |-> "item", app |-> a])
      <4>1. connected => [kind |-> "item", app |-> a] \in Elements(signals')
        BY <3>2, <2>3, <1>3, SignalAdds
      <4>2. b = a \/ app'[b] = app[b]
        BY <3>2, <1>3
      <4> QED BY <4>1, <4>2
    <3> QED BY <2>1, <3>1, <3>2
  <2> QED BY <1>1, <1>2, <2>4, <2>5, <2>6, AppsMove
<1> QED BY <1>4, <1>6, <1>7, <1>8, <1>9

LEMMA TrayCommands ==
  ASSUME TrayInv, Tray!Commands PROVE TrayInv'
<1>1. /\ UNCHANGED <<connected, known, items, queued, pending, dirty, needed, reads, changed,
                     snapshot, generation>>
      /\ UNCHANGED <<app, registry, signals>> /\ UNCHANGED <<discovery, action>>
  BY DEF Tray!Commands, Tray!queues, Tray!view, Tray!bus
<1>2. command' \in Wanted
  BY DEF Tray!Commands, Wanted, TrayKeys
<1>3. TasksTyped'
  BY <1>1, <1>2 DEF TrayInv, TasksTyped
<1>4. AppsTyped'
  BY <1>1 DEF TrayInv, AppsTyped
<1> QED BY <1>1, <1>3, <1>4, AppsMove

LEMMA TrayDiscover ==
  ASSUME TrayInv, Tray!Discover PROVE TrayInv'
<1>1. /\ UNCHANGED <<connected, known, items, queued, pending, dirty, needed, reads, changed,
                     snapshot, generation>>
      /\ app' = app /\ UNCHANGED <<action, command>>
  BY DEF Tray!Discover, Tray!queues, Tray!view
<1>2. discovery \in Discoveries
  BY DEF TrayInv, TasksTyped
<1>3. app \in [Tray!TrayApps -> Applied] /\ registry \subseteq Tray!TrayApps /\ signals \in Seq(SignalKinds)
  BY DEF TrayInv, AppsTyped
<1>4. [kind |-> "registry"] \in SignalKinds
  BY DEF SignalKinds
<1>5. discovery' \in Discoveries /\ registry' \subseteq Tray!TrayApps
      /\ (signals' = signals \/ Tray!Signal([kind |-> "registry"]))
  <2>1. CASE discovery.pc = "names"
    <3>1. /\ discovery' = [pc |-> "prune", found |-> {a \in Tray!TrayApps : Tray!Live(a)}]
          /\ registry' = registry /\ signals' = signals
      BY <2>1 DEF Tray!Discover
    <3> QED BY <3>1, <1>3 DEF Discoveries
  <2>2. CASE discovery.pc = "prune"
    <3>1. /\ registry' = registry \cap discovery.found
          /\ discovery' = [pc |-> "done", found |-> registry']
          /\ (signals' = signals \/ Tray!Signal([kind |-> "registry"]))
      BY <2>2 DEF Tray!Discover
    <3> QED BY <3>1, <1>3 DEF Discoveries
  <2> QED BY <2>1, <2>2 DEF Tray!Discover
<1>6. signals' \in Seq(SignalKinds) /\ Elements(signals) \subseteq Elements(signals')
  BY <1>3, <1>4, <1>5, SignalAdds
<1>7. AppsTyped'
  BY <1>1, <1>3, <1>5, <1>6 DEF AppsTyped
<1>8. TasksTyped'
  BY <1>1, <1>5 DEF TrayInv, TasksTyped
<1> QED BY <1>1, <1>6, <1>7, <1>8, AppsMove

\* An application's menu may change at a click, which it signals.
LEMMA ClickMoves ==
  ASSUME TrayInv, NEW a \in Tray!TrayApps, NEW act \in Performed, action' = act,
         \/ app' = app /\ signals' = signals
         \/ Tray!Clicked(a),
         UNCHANGED <<connected, known, items, queued, pending, dirty, needed, reads, changed,
                     snapshot, generation, registry, discovery, command>>
  PROVE  TrayInv'
<1>1. app \in [Tray!TrayApps -> Applied] /\ registry \subseteq Tray!TrayApps
      /\ signals \in Seq(SignalKinds)
  BY DEF TrayInv, AppsTyped
<1>2. app[a] \in Applied /\ app[a].menu \in Nat
  BY <1>1 DEF Applied
<1>3. \/ app' = app /\ signals' = signals
      \/ /\ app' = [app EXCEPT ![a].menu = @ + 1]
         /\ Tray!Signal([kind |-> "menu", app |-> a])
  BY DEF Tray!Clicked
<1>4. [kind |-> "menu", app |-> a] \in SignalKinds
  BY DEF SignalKinds
<1>5. signals' \in Seq(SignalKinds) /\ Elements(signals) \subseteq Elements(signals')
  BY <1>1, <1>3, <1>4, SignalAdds
<1>6. app' \in [Tray!TrayApps -> Applied] /\ \A b \in Tray!TrayApps : app'[b].shows = app[b].shows
  <2>1. CASE app' = app
    BY <2>1, <1>1
  <2>2. CASE app' = [app EXCEPT ![a].menu = @ + 1]
    <3>1. [app[a] EXCEPT !.menu = @ + 1] \in Applied
      BY <1>2 DEF Applied
    <3>2. app' \in [Tray!TrayApps -> Applied]
      BY <2>2, <3>1, <1>1
    <3>3. \A b \in Tray!TrayApps : app'[b].shows = app[b].shows
      BY <2>2, <1>1 DEF Applied
    <3> QED BY <3>2, <3>3
  <2> QED BY <1>3, <2>1, <2>2
<1>7. AppsTyped' /\ TasksTyped'
  BY <1>1, <1>5, <1>6 DEF TrayInv, AppsTyped, TasksTyped
<1> QED BY <1>5, <1>6, <1>7, AppsMove

LEMMA ActionTyped ==
  ASSUME TrayInv, action # Tray!Nothing
  PROVE  action \in Performed /\ action.key[1] \in Tray!TrayApps
<1>1. action \in Performed
  BY DEF TrayInv, TasksTyped
<1>2. action.key \in Tray!TrayApps \X (1..MaxGeneration)
  BY <1>1 DEF Performed, TrayKeys, Tray!ItemKeys
<1> QED BY <1>1, <1>2

LEMMA TrayActionStep ==
  ASSUME TrayInv, Tray!ActionStep PROVE TrayInv'
<1> DEFINE a == action.key[1]
<1>1. /\ UNCHANGED <<connected, known, items, queued, pending, dirty, needed, reads, changed,
                     snapshot, generation, registry, discovery, command>>
      /\ action # Tray!Nothing
  BY DEF Tray!ActionStep, Tray!queues, Tray!view
<1>2. action \in Performed /\ a \in Tray!TrayApps
  BY <1>1, ActionTyped
<1>3. app[a].menu \in Nat
  BY <1>2 DEF TrayInv, AppsTyped, Applied
<1>4. /\ \/ \E stage \in {"click", "load", "done"} : action' = [action EXCEPT !.pc = stage]
         \/ action' = [action EXCEPT !.pc = "done", !.menu = app[a].menu]
      /\ (app' = app /\ signals' = signals) \/ Tray!Clicked(a)
  BY DEF Tray!ActionStep
<1> HIDE DEF a
<1>5. action' \in Performed
  <2>1. ASSUME NEW stage \in {"click", "load", "done"}
        PROVE  [action EXCEPT !.pc = stage] \in Performed
    BY <1>2 DEF Performed
  <2>2. [action EXCEPT !.pc = "done", !.menu = app[a].menu] \in Performed
    BY <1>2, <1>3 DEF Performed
  <2> QED BY <1>4, <2>1, <2>2
<1> QED BY <1>1, <1>2, <1>4, <1>5, ClickMoves

LEMMA TrayActionFails ==
  ASSUME TrayInv, Tray!ActionFails PROVE TrayInv'
<1> DEFINE a == action.key[1]
<1>1. /\ UNCHANGED <<connected, known, items, queued, pending, dirty, needed, reads, changed,
                     snapshot, generation, registry, discovery, command>>
      /\ action # Tray!Nothing /\ action' = [action EXCEPT !.pc = "failed"]
      /\ (app' = app /\ signals' = signals) \/ Tray!Clicked(a)
  BY DEF Tray!ActionFails, Tray!queues, Tray!view
<1>2. action \in Performed /\ a \in Tray!TrayApps
  BY <1>1, ActionTyped
<1> HIDE DEF a
<1>3. action' \in Performed
  BY <1>1, <1>2 DEF Performed
<1> QED BY <1>1, <1>2, <1>3, ClickMoves

\* A read takes what the application shows while it runs.
LEMMA ReadsMove ==
  ASSUME TrayInv, NEW k \in UnderWay(reads), NEW t \in Tray!Tasks,
         reads' = [reads EXCEPT ![k] = t],
         t.pc \in {"properties", "failed"} \/ t.item.shows = app[k[1]].shows
           \/ (reads[k].pc \notin {"properties", "failed"} /\ t.item.shows = reads[k].item.shows),
         UNCHANGED <<app, registry, signals, connected, known, items, queued, pending, dirty, needed,
                     discovery, action, command, changed, snapshot, generation>>
  PROVE  TrayInv'
<1>1. /\ AppsTyped /\ ItemsTyped /\ TasksTyped /\ FlagsTyped /\ QueuesKept /\ ViewsKept /\ ItemsKept
      /\ ReadsFollow /\ KeysFollow
  BY DEF TrayInv
<1>2. /\ AppsTyped' /\ ItemsTyped' /\ TasksTyped' /\ FlagsTyped' /\ ViewsKept' /\ KeysFollow'
  BY <1>1 DEF AppsTyped, ItemsTyped, TasksTyped, FlagsTyped, ViewsKept, Tray!Views, KeysFollow
<1>3. reads \in [TrayKeys -> Tray!Tasks \cup {Tray!Nothing}]
  BY <1>1 DEF QueuesKept, QueueOK
<1>4. k \in TrayKeys
  BY DEF UnderWay
<1>5. t # Tray!Nothing
  <2>1. DOMAIN t = {"pc", "item"} /\ DOMAIN Tray!Nothing = {}
    BY DEF Tray!Tasks, Tray!Nothing
  <2> QED BY <2>1
<1>6. reads' \in [TrayKeys -> Tray!Tasks \cup {Tray!Nothing}] /\ reads'[k] = t
      /\ \A j \in TrayKeys : j # k => reads'[j] = reads[j]
  BY <1>3, <1>4
<1>7. UnderWay(reads') = UnderWay(reads)
  BY <1>4, <1>5, <1>6 DEF UnderWay
<1>8. Tray!Known' = Tray!Known /\ Tray!Shown' = Tray!Shown
  BY DEF Tray!Known, Tray!Shown
<1>9. QueuesKept'
  BY <1>1, <1>6, <1>7, <1>8 DEF QueuesKept, QueueOK
<1>10. ASSUME NEW j \in Tray!Shown
       PROVE  j \in Tray!Known /\ Covered(j, items, app, queued, reads', dirty, signals)
  <2>1. j \in Tray!Known /\ Covered(j, items, app, queued, reads, dirty, signals)
    BY <1>1, <1>10 DEF ItemsKept
  <2>2. CASE j # k
    BY <2>1, <2>2, <1>6, <1>7 DEF Covered, UnderWay
  <2>3. CASE j = k
    <3>1. CASE t.pc \in {"properties", "failed"} \/ t.item.shows = app[k[1]].shows
      BY <2>1, <2>3, <3>1, <1>6, <1>7 DEF Covered
    <3>2. CASE reads[k].pc \notin {"properties", "failed"} /\ t.item.shows = reads[k].item.shows
      BY <2>1, <2>3, <3>2, <1>6, <1>7 DEF Covered
    <3> QED BY <3>1, <3>2
  <2> QED BY <2>2, <2>3
<1>11. ASSUME NEW j \in UnderWay(reads) \cap Tray!Known
       PROVE  Following(j, app, reads', dirty, signals)
  <2>1. Following(j, app, reads, dirty, signals)
    BY <1>1, <1>11 DEF ReadsFollow
  <2>2. CASE j # k
    BY <2>1, <2>2, <1>11, <1>6 DEF Following, UnderWay
  <2>3. CASE j = k
    <3>1. CASE t.pc \in {"properties", "failed"} \/ t.item.shows = app[k[1]].shows
      BY <2>3, <3>1, <1>6 DEF Following
    <3>2. CASE reads[k].pc \notin {"properties", "failed"} /\ t.item.shows = reads[k].item.shows
      BY <2>1, <2>3, <3>2, <1>6 DEF Following
    <3> QED BY <3>1, <3>2
  <2> QED BY <2>2, <2>3
<1>12. ItemsKept'
  BY <1>8, <1>10 DEF ItemsKept
<1>13. ReadsFollow'
  BY <1>7, <1>8, <1>11 DEF ReadsFollow
<1> QED BY <1>2, <1>9, <1>12, <1>13 DEF TrayInv

LEMMA TaskIs ==
  ASSUME NEW x \in Tray!Tasks, NEW i, NEW p
  PROVE  [[x EXCEPT !.item = i] EXCEPT !.pc = p] = [pc |-> p, item |-> i]
<1> DEFINE y == [[x EXCEPT !.item = i] EXCEPT !.pc = p]
<1>1. DOMAIN x = {"pc", "item"}
  BY DEF Tray!Tasks
<1>2. y = [f \in {"pc", "item"} |-> y[f]] /\ y["pc"] = p /\ y["item"] = i
  BY <1>1
<1> HIDE DEF y
<1>3. y = [pc |-> p, item |-> i]
  BY <1>2
<1> QED BY <1>3 DEF y

LEMMA TrayReadStep ==
  ASSUME TrayInv, NEW k \in TrayKeys, Tray!ReadStep(k) PROVE TrayInv'
<1> DEFINE task == reads[k]
<1>1. /\ UNCHANGED <<app, registry, signals, connected, known, items, queued, pending, dirty, needed,
                     discovery, action, command, changed, snapshot, generation>>
      /\ task # Tray!Nothing
  BY DEF Tray!ReadStep, Tray!bus, Tray!queues, Tray!view
<1>2. reads \in [TrayKeys -> Tray!Tasks \cup {Tray!Nothing}]
  BY DEF TrayInv, QueuesKept, QueueOK
<1>3. k \in UnderWay(reads) /\ task \in Tray!Tasks
  BY <1>1, <1>2 DEF UnderWay
<1>4. task.item \in Tray!Items /\ task.pc \in {"properties", "menu", "done", "failed"}
      /\ DOMAIN task = {"pc", "item"} /\ DOMAIN task.item = {"shows", "menu", "failed", "loaded", "revision"}
  BY <1>3 DEF Tray!Tasks, Tray!Items
<1>5. k[1] \in Tray!TrayApps
  <2>1. k \in Tray!TrayApps \X (1..MaxGeneration)
    BY DEF TrayKeys, Tray!ItemKeys
  <2> QED BY <2>1
<1>6. app[k[1]].shows \in Nat /\ app[k[1]].menu \in Nat
  <2>1. app[k[1]] \in Applied
    BY <1>5 DEF TrayInv, AppsTyped
  <2> QED BY <2>1 DEF Applied
<1>7. CASE task.pc = "properties" /\ Tray!Live(k[1])
  <2> DEFINE stage == IF task.item.loaded THEN "menu" ELSE "done"
             item == [task.item EXCEPT !.shows = app[k[1]].shows]
             t == [pc |-> stage, item |-> item]
  <2>1. reads' = [reads EXCEPT ![k].item.shows = app[k[1]].shows,
                               ![k].pc = IF task.item.loaded THEN "menu" ELSE "done"]
    BY <1>7 DEF Tray!ReadStep
  <2>2. reads' = [reads EXCEPT ![k] = [[task EXCEPT !.item = item] EXCEPT !.pc = stage]]
    BY <2>1, <1>2
  <2>3. item \in Tray!Items /\ item.shows = app[k[1]].shows
    BY <1>4, <1>6 DEF Tray!Items
  <2>4. stage \in {"menu", "done"}
    OBVIOUS
  <2> HIDE DEF item, stage
  <2>5. [[task EXCEPT !.item = item] EXCEPT !.pc = stage] = t
    BY <1>3, TaskIs
  <2>6. t \in Tray!Tasks
    BY <2>3, <2>4 DEF Tray!Tasks
  <2>7. reads' = [reads EXCEPT ![k] = t] /\ t.item.shows = app[k[1]].shows
    BY <2>2, <2>3, <2>5
  <2> HIDE DEF t
  <2> QED BY <1>1, <1>3, <2>6, <2>7, ReadsMove
<1>8. CASE task.pc = "properties" /\ ~Tray!Live(k[1])
  <2> DEFINE t == [task EXCEPT !.pc = "failed"]
  <2>1. reads' = [reads EXCEPT ![k] = t]
    BY <1>8 DEF Tray!ReadStep
  <2>2. t \in Tray!Tasks /\ t.pc = "failed"
    BY <1>3 DEF Tray!Tasks
  <2> HIDE DEF t
  <2> QED BY <1>1, <1>3, <2>1, <2>2, ReadsMove
<1>9. CASE task.pc = "menu"
  <2> DEFINE menu == IF Tray!Live(k[1]) THEN app[k[1]].menu ELSE task.item.menu
             item == [[task.item EXCEPT !.menu = menu] EXCEPT !.failed = ~Tray!Live(k[1])]
             t == [pc |-> "done", item |-> item]
  <2>1. reads' = [reads EXCEPT ![k].item.menu = IF Tray!Live(k[1]) THEN app[k[1]].menu ELSE @,
                               ![k].item.failed = ~Tray!Live(k[1]), ![k].pc = "done"]
    BY <1>9 DEF Tray!ReadStep
  <2>2. reads' = [reads EXCEPT ![k] = [[task EXCEPT !.item = item] EXCEPT !.pc = "done"]]
    BY <2>1, <1>2, <1>4
  <2>3. menu \in Nat /\ (~Tray!Live(k[1])) \in BOOLEAN
    BY <1>4, <1>6 DEF Tray!Items, Tray!Live
  <2>4. ASSUME NEW m \in Nat, NEW b \in BOOLEAN, NEW i \in Tray!Items
        PROVE  LET j == [[i EXCEPT !.menu = m] EXCEPT !.failed = b]
               IN j \in Tray!Items /\ j.shows = i.shows
    BY DEF Tray!Items
  <2> HIDE DEF menu
  <2>5. item \in Tray!Items /\ item.shows = task.item.shows
    BY <1>4, <2>3, <2>4
  <2> HIDE DEF item
  <2>6. [[task EXCEPT !.item = item] EXCEPT !.pc = "done"] = t
    BY <1>3, TaskIs
  <2>7. t \in Tray!Tasks
    BY <2>5 DEF Tray!Tasks
  <2>8. reads' = [reads EXCEPT ![k] = t] /\ t.item.shows = reads[k].item.shows
    BY <2>2, <2>5, <2>6
  <2>9. reads[k].pc \notin {"properties", "failed"}
    BY <1>9
  <2> HIDE DEF t
  <2> QED BY <1>1, <1>3, <2>7, <2>8, <2>9, ReadsMove
<1> QED BY <1>7, <1>8, <1>9 DEF Tray!ReadStep

LEMMA TrayReadFails ==
  ASSUME TrayInv, NEW k \in TrayKeys, Tray!ReadFails(k) PROVE TrayInv'
<1>1. /\ UNCHANGED <<app, registry, signals, connected, known, items, queued, pending, dirty, needed,
                     discovery, action, command, changed, snapshot, generation>>
      /\ reads[k] # Tray!Nothing
  BY DEF Tray!ReadFails, Tray!bus, Tray!queues, Tray!view
<1>2. reads \in [TrayKeys -> Tray!Tasks \cup {Tray!Nothing}]
  BY DEF TrayInv, QueuesKept, QueueOK
<1>3. k \in UnderWay(reads) /\ reads[k] \in Tray!Tasks
  BY <1>1, <1>2 DEF UnderWay
<1>4. CASE reads' = [reads EXCEPT ![k].pc = "failed"]
  <2> DEFINE t == [reads[k] EXCEPT !.pc = "failed"]
  <2>1. t \in Tray!Tasks /\ t.pc = "failed" /\ reads' = [reads EXCEPT ![k] = t]
    BY <1>3, <1>4 DEF Tray!Tasks
  <2> HIDE DEF t
  <2> QED BY <1>1, <1>3, <2>1, ReadsMove
<1>5. CASE /\ reads[k].pc = "menu"
           /\ reads' = [reads EXCEPT ![k].item.failed = TRUE, ![k].pc = "done"]
  <2> DEFINE i == [reads[k].item EXCEPT !.failed = TRUE]
             t == [reads[k] EXCEPT !.item = i, !.pc = "done"]
  <2>1. i \in Tray!Items /\ i.shows = reads[k].item.shows
    BY <1>3 DEF Tray!Tasks, Tray!Items
  <2>2. reads' = [reads EXCEPT ![k] = t]
    BY <1>5
  <2> HIDE DEF i
  <2>3. t \in Tray!Tasks /\ t.item = i
    BY <1>3, <2>1 DEF Tray!Tasks
  <2> HIDE DEF t
  <2> QED BY <1>1, <1>3, <1>5, <2>1, <2>2, <2>3, ReadsMove
<1> QED BY <1>4, <1>5 DEF Tray!ReadFails

\* Without a session there is nothing to be kept.
LEMMA TraySessionLost ==
  ASSUME TrayInv, Tray!SessionLost PROVE TrayInv'
<1>1. /\ app' = app /\ registry' = {} /\ signals' = <<>> /\ connected' = FALSE
      /\ known' = [a \in Tray!TrayApps |-> 0] /\ items' = [k \in TrayKeys |-> Tray!Nothing]
      /\ queued' = <<>> /\ pending' = {} /\ dirty' = {}
      /\ needed' = FALSE /\ discovery' = [pc |-> "none", found |-> {}]
      /\ reads' = [k \in TrayKeys |-> Tray!Nothing] /\ action' = Tray!Nothing /\ command' = command
      /\ changed' = FALSE /\ generation' = generation
  BY DEF Tray!SessionLost, TrayKeys
<1>2. MaxGeneration \in Nat /\ MaxReads \in Nat
  BY TrayAssumption DEF TrayAssumption
<1>3. AppsTyped'
  BY <1>1 DEF TrayInv, AppsTyped
<1>4. ItemsTyped'
  BY <1>1, <1>2 DEF TrayInv, ItemsTyped
<1>5. TasksTyped'
  BY <1>1 DEF TrayInv, TasksTyped, Discoveries
<1>6. FlagsTyped'
  BY <1>1 DEF FlagsTyped
<1>7. UnderWay(reads') = {} /\ Elements(queued') = {} /\ Injective(queued')
  BY <1>1 DEF UnderWay, Elements, Injective
<1>8. Cardinality(UnderWay(reads')) <= MaxReads
  BY <1>2, <1>7, FS_EmptySet
<1>9. QueuesKept'
  BY <1>1, <1>7, <1>8 DEF QueuesKept, QueueOK
<1>10. ViewsKept'
  BY <1>1 DEF ViewsKept
<1>11. ItemsKept'
  BY <1>1 DEF ItemsKept, Tray!Shown, TrayKeys
<1>12. ReadsFollow'
  BY <1>7 DEF ReadsFollow
<1>13. generation \in Nat
  BY <1>2 DEF TrayInv, ItemsTyped
<1>14. KeysFollow'
  BY <1>1, <1>13 DEF KeysFollow
<1> QED BY <1>3, <1>4, <1>5, <1>6, <1>9, <1>10, <1>11, <1>12, <1>14 DEF TrayInv

LEMMA TrayReconnects ==
  ASSUME TrayInv, Tray!Reconnects PROVE TrayInv'
<1>1. /\ UNCHANGED <<app, registry, signals, known, items, queued, pending, dirty, needed, reads,
                     action, snapshot, generation>>
      /\ connected' = TRUE /\ command' = Tray!Nothing /\ changed' = TRUE
      /\ discovery' = [pc |-> "names", found |-> {}]
  BY DEF Tray!Reconnects, Tray!bus, Tray!queues
<1>2. /\ AppsTyped /\ ItemsTyped /\ TasksTyped /\ FlagsTyped /\ QueuesKept /\ ItemsKept
      /\ ReadsFollow /\ KeysFollow
  BY DEF TrayInv
<1>3. AppsTyped' /\ ItemsTyped'
  BY <1>1, <1>2 DEF AppsTyped, ItemsTyped
<1>4. TasksTyped'
  BY <1>1, <1>2 DEF TasksTyped, Discoveries
<1>5. FlagsTyped'
  BY <1>1, <1>2 DEF FlagsTyped
<1>6. Tray!Known' = Tray!Known /\ Tray!Shown' = Tray!Shown
  BY <1>1 DEF Tray!Known, Tray!Shown
<1>7. QueuesKept' /\ ItemsKept' /\ ReadsFollow' /\ KeysFollow'
  BY <1>1, <1>2, <1>6 DEF QueuesKept, ItemsKept, ReadsFollow, KeysFollow
<1>8. ViewsKept'
  BY <1>1 DEF ViewsKept
<1> QED BY <1>3, <1>4, <1>5, <1>7, <1>8 DEF TrayInv

-----------------------------------------------------------------------------
(* The branches of the loop. *)

LEMMA LeftNeeding ==
  ASSUME TrayInv, NEW b \in BOOLEAN
  PROVE  LET s == [Tray!Left EXCEPT !.needed = b]
         IN /\ s \in LoopStates /\ QueueOK(s.queued, s.pending, s.reads)
            /\ s.queued = queued /\ s.pending = pending /\ s.reads = reads
<1>1. /\ Tray!Left \in LoopStates
      /\ QueueOK(Tray!Left.queued, Tray!Left.pending, Tray!Left.reads)
      /\ Tray!Left.queued = queued /\ Tray!Left.pending = pending /\ Tray!Left.reads = reads
  BY LeftIs
<1>2. ASSUME NEW x \in LoopStates
      PROVE  LET s == [x EXCEPT !.needed = b]
             IN /\ s \in LoopStates /\ s.queued = x.queued /\ s.pending = x.pending
                /\ s.reads = x.reads
  BY DEF LoopStates
<1> QED BY <1>1, <1>2

\* A branch that neither reads nor marks anything.
LEMMA PlainBranch ==
  ASSUME TrayInv, NEW s \in LoopStates, Tray!Top(s),
         s.queued = queued, s.pending = pending, s.reads = reads,
         UNCHANGED <<app, registry, signals, connected, known, dirty, generation>>,
         items' \in [TrayKeys -> Tray!Items \cup {Tray!Nothing}],
         \A k \in TrayKeys : items'[k] # Tray!Nothing =>
           items[k] # Tray!Nothing /\ items'[k].shows = items[k].shows,
         action' \in Performed \cup {Tray!Nothing},
         command' \in Wanted \cup {Tray!Nothing},
         changed' \in BOOLEAN, ViewsKept'
  PROVE  TrayInv'
<1>1. /\ AppsTyped /\ ItemsTyped /\ FlagsTyped /\ QueuesKept /\ ItemsKept /\ ReadsFollow /\ KeysFollow
  BY DEF TrayInv
<1>2. QueueOK(s.queued, s.pending, s.reads)
  BY <1>1 DEF QueuesKept
<1>3. AppsTyped'
  BY <1>1 DEF AppsTyped
<1>4. ItemsTyped'
  BY <1>1 DEF ItemsTyped
<1>5. connected' \in BOOLEAN
  BY <1>1 DEF FlagsTyped
<1>6. Tray!Known' = Tray!Known
  BY DEF Tray!Known
<1>7. dirty' \subseteq s.pending \cap Tray!Known'
  BY <1>1, <1>6 DEF QueuesKept
<1>8. ASSUME NEW k \in Tray!Shown'
      PROVE  k \in Tray!Known' /\ Covered(k, items', app', s.queued, s.reads, dirty', signals')
  <2>1. k \in TrayKeys /\ items'[k] # Tray!Nothing
    BY <1>8 DEF Tray!Shown, TrayKeys
  <2>2. k \in Tray!Shown /\ items'[k].shows = items[k].shows
    BY <2>1 DEF Tray!Shown, TrayKeys
  <2>3. k \in Tray!Known /\ Covered(k, items, app, queued, reads, dirty, signals)
    BY <2>2, <1>1 DEF ItemsKept
  <2> QED BY <2>2, <2>3, <1>6 DEF Covered
<1>9. \A k \in UnderWay(s.reads) \cap Tray!Known' : Following(k, app', s.reads, dirty', signals')
  BY <1>1, <1>6 DEF ReadsFollow
<1>10. /\ \A a \in Tray!TrayApps : known'[a] <= generation'
       /\ \A k \in s.pending : k[2] <= generation'
       /\ ~connected' => \A a \in Tray!TrayApps : known'[a] = 0
  BY <1>1 DEF KeysFollow
<1> QED BY <1>2, <1>3, <1>4, <1>5, <1>7, <1>8, <1>9, <1>10, LoopKeeps

LEMMA TrayPoll ==
  ASSUME TrayInv, Tray!Poll PROVE TrayInv'
<1> DEFINE s == [Tray!Left EXCEPT !.needed = TRUE]
<1>1. /\ UNCHANGED <<app, registry, signals, connected, known, dirty, generation>>
      /\ items' = items /\ action' = action /\ command' = command
      /\ UNCHANGED <<changed, snapshot>> /\ Tray!Top(s)
  BY DEF Tray!Poll, Tray!bus, Tray!view
<1>2. s \in LoopStates /\ s.queued = queued /\ s.pending = pending /\ s.reads = reads
  BY LeftNeeding
<1> HIDE DEF s
<1>3. /\ items' \in [TrayKeys -> Tray!Items \cup {Tray!Nothing}]
      /\ action' \in Performed \cup {Tray!Nothing}
      /\ command' \in Wanted \cup {Tray!Nothing}
  BY <1>1 DEF TrayInv, ItemsTyped, TasksTyped
<1>4. changed' \in BOOLEAN
  BY <1>1 DEF TrayInv, FlagsTyped
<1>5. ViewsKept'
  BY <1>1 DEF TrayInv, ViewsKept, Tray!Views
<1> QED BY <1>1, <1>2, <1>3, <1>4, <1>5, PlainBranch

LEMMA TrayFlush ==
  ASSUME TrayInv, Tray!Flush PROVE TrayInv'
<1>1. /\ UNCHANGED <<app, registry, signals, connected, known, dirty, generation>>
      /\ items' = items /\ action' = action /\ command' = command
      /\ changed' = FALSE /\ snapshot' = Tray!Views /\ Tray!Top(Tray!Left)
  BY DEF Tray!Flush, Tray!bus
<1>2. /\ Tray!Left \in LoopStates /\ Tray!Left.queued = queued /\ Tray!Left.pending = pending
      /\ Tray!Left.reads = reads
  BY LeftIs
<1>3. /\ items' \in [TrayKeys -> Tray!Items \cup {Tray!Nothing}]
      /\ action' \in Performed \cup {Tray!Nothing}
      /\ command' \in Wanted \cup {Tray!Nothing}
  BY <1>1 DEF TrayInv, ItemsTyped, TasksTyped
<1>4. changed' \in BOOLEAN
  BY <1>1
<1>5. ViewsKept'
  <2>1. Tray!Views' = Tray!Views
    BY <1>1 DEF Tray!Views
  <2> QED BY <1>1, <2>1 DEF ViewsKept
<1> QED BY <1>1, <1>2, <1>3, <1>4, <1>5, PlainBranch

\* What the interface sees of an item is not the revision.
LEMMA TrayTakeCommand ==
  ASSUME TrayInv, Tray!TakeCommand PROVE TrayInv'
<1> DEFINE k == command.key
<1>1. /\ UNCHANGED <<app, registry, signals, connected, known, dirty, generation>>
      /\ UNCHANGED <<changed, snapshot>> /\ command' = Tray!Nothing /\ command # Tray!Nothing
      /\ Tray!Top(Tray!Left)
  BY DEF Tray!TakeCommand, Tray!bus, Tray!view
<1>2. /\ Tray!Left \in LoopStates /\ Tray!Left.queued = queued /\ Tray!Left.pending = pending
      /\ Tray!Left.reads = reads
  BY LeftIs
<1>3. /\ items \in [TrayKeys -> Tray!Items \cup {Tray!Nothing}]
      /\ action \in Performed \cup {Tray!Nothing}
      /\ command \in Wanted
  BY <1>1 DEF TrayInv, ItemsTyped, TasksTyped
<1>4. k \in TrayKeys /\ command.kind \in {"call", "open", "click"}
  BY <1>3 DEF Wanted
<1>5. changed' \in BOOLEAN
  BY <1>1 DEF TrayInv, FlagsTyped
<1>6. ViewsKept
  BY DEF TrayInv
<1>7. CASE items[k] = Tray!Nothing
  <2>1. items' = items /\ action' = action
    BY <1>7 DEF Tray!TakeCommand
  <2>2. ViewsKept'
    BY <1>1, <1>6, <2>1 DEF ViewsKept, Tray!Views
  <2>3. command' \in Wanted \cup {Tray!Nothing}
    BY <1>1
  <2> QED BY <1>1, <1>2, <1>3, <1>5, <2>1, <2>2, <2>3, PlainBranch
<1>8. CASE items[k] # Tray!Nothing
  <2> DEFINE i == [items[k] EXCEPT !.revision = @ + 1]
  <2>1. /\ items' = [items EXCEPT ![k].revision = @ + 1]
        /\ action' = [key |-> k, menu |-> Tray!NoMenu,
                      pc |-> CASE command.kind = "click" -> "check"
                               [] command.kind = "open" -> "load"
                               [] command.kind = "call" -> "call"]
    BY <1>8 DEF Tray!TakeCommand
  <2>2. items[k] \in Tray!Items
    BY <1>3, <1>4, <1>8
  <2>3. i \in Tray!Items /\ i.shows = items[k].shows /\ i.menu = items[k].menu /\ i.failed = items[k].failed
    BY <2>2 DEF Tray!Items
  <2>4. items' = [items EXCEPT ![k] = i]
    BY <2>1
  <2>5. i # Tray!Nothing
    <3>1. DOMAIN i = {"shows", "menu", "failed", "loaded", "revision"} /\ DOMAIN Tray!Nothing = {}
      BY <2>3 DEF Tray!Items, Tray!Nothing
    <3> QED BY <3>1
  <2>6. action' \in Performed
    BY <1>4, <2>1 DEF Performed, Tray!NoMenu
  <2>7. Tray!View(i) = Tray!View(items[k])
    BY <1>8, <2>3, <2>5 DEF Tray!View
  <2> HIDE DEF i, k
  <2>8. items' \in [TrayKeys -> Tray!Items \cup {Tray!Nothing}]
    BY <1>3, <1>4, <2>3, <2>4
  <2>9. \A j \in TrayKeys : items'[j] # Tray!Nothing =>
          items[j] # Tray!Nothing /\ items'[j].shows = items[j].shows
    BY <1>3, <1>4, <1>8, <2>3, <2>4
  <2>10. \A j \in TrayKeys : Tray!View(items'[j]) = Tray!View(items[j])
    BY <1>3, <1>4, <2>4, <2>7
  <2>11. Tray!Views' = Tray!Views
    BY <2>10 DEF Tray!Views, TrayKeys
  <2>12. ViewsKept'
    BY <1>1, <1>6, <2>11 DEF ViewsKept
  <2>13. /\ action' \in Performed \cup {Tray!Nothing}
         /\ command' \in Wanted \cup {Tray!Nothing}
    BY <1>1, <2>6
  <2> QED BY <1>1, <1>2, <1>5, <2>8, <2>9, <2>12, <2>13, PlainBranch
<1> QED BY <1>7, <1>8

LEMMA TrayActionJoined ==
  ASSUME TrayInv, Tray!ActionJoined PROVE TrayInv'
<1> DEFINE k == action.key
<1>1. /\ UNCHANGED <<app, registry, signals, connected, known, dirty, generation>>
      /\ snapshot' = snapshot /\ command' = command /\ action' = Tray!Nothing /\ action # Tray!Nothing
      /\ Tray!Top(Tray!Left)
  BY DEF Tray!ActionJoined, Tray!bus
<1>2. /\ Tray!Left \in LoopStates /\ Tray!Left.queued = queued /\ Tray!Left.pending = pending
      /\ Tray!Left.reads = reads
  BY LeftIs
<1>3. /\ items \in [TrayKeys -> Tray!Items \cup {Tray!Nothing}]
      /\ action \in Performed
      /\ command' \in Wanted \cup {Tray!Nothing}
      /\ action' \in Performed \cup {Tray!Nothing}
  BY <1>1 DEF TrayInv, ItemsTyped, TasksTyped
<1>4. k \in TrayKeys /\ action.menu \in Nat
  BY <1>3 DEF Performed
<1>5. CASE items[k] = Tray!Nothing
  <2>1. items' = items /\ changed' = changed
    BY <1>5 DEF Tray!ActionJoined
  <2>2. ViewsKept'
    BY <1>1, <2>1 DEF TrayInv, ViewsKept, Tray!Views
  <2>3. changed' \in BOOLEAN
    BY <2>1 DEF TrayInv, FlagsTyped
  <2> QED BY <1>1, <1>2, <1>3, <2>1, <2>2, <2>3, PlainBranch
<1>6. CASE items[k] # Tray!Nothing
  <2> DEFINE x == items[k]
             failed == action.pc = "failed"
             opened == action.pc = "done" /\ action.menu # Tray!NoMenu
             loaded == x.loaded \/ opened
             menu == IF opened THEN action.menu ELSE x.menu
             n == x.revision + 1
             i == [[[[x EXCEPT !.revision = n] EXCEPT !.failed = failed] EXCEPT !.loaded = loaded]
                   EXCEPT !.menu = menu]
  <2>1. /\ items' = [items EXCEPT ![k].revision = @ + 1,
                            ![k].failed = action.pc = "failed",
                            ![k].loaded = @ \/ opened,
                            ![k].menu = IF opened THEN action.menu ELSE @]
        /\ changed' = TRUE
    BY <1>6 DEF Tray!ActionJoined
  <2>2. x \in Tray!Items
    BY <1>3, <1>4, <1>6
  <2>3. DOMAIN x = {"shows", "menu", "failed", "loaded", "revision"} /\ x.menu \in Nat /\ x.loaded \in BOOLEAN
    BY <2>2 DEF Tray!Items
  <2>4. items' = [items EXCEPT ![k] = i]
    BY <1>3, <1>4, <2>1, <2>3
  <2>5. failed \in BOOLEAN /\ loaded \in BOOLEAN /\ menu \in Nat
    BY <2>3, <1>4
  <2>a. n \in Nat
    BY <2>2 DEF Tray!Items
  <2> HIDE DEF failed, opened, loaded, menu, n, x, k
  <2>6. i \in Tray!Items /\ i.shows = x.shows
    <3>1. ASSUME NEW y \in Tray!Items, NEW r \in Nat, NEW f \in BOOLEAN, NEW l \in BOOLEAN, NEW m \in Nat
          PROVE  [[[[y EXCEPT !.revision = r] EXCEPT !.failed = f] EXCEPT !.loaded = l]
                  EXCEPT !.menu = m] \in {z \in Tray!Items : z.shows = y.shows}
      BY DEF Tray!Items
    <3>2. i \in {z \in Tray!Items : z.shows = x.shows}
      BY <2>2, <2>5, <2>a, <3>1, Zenon
    <3> QED BY <3>2
  <2> HIDE DEF i
  <2>7. items' \in [TrayKeys -> Tray!Items \cup {Tray!Nothing}]
    BY <1>3, <1>4, <2>4, <2>6
  <2>8. \A j \in TrayKeys : items'[j] # Tray!Nothing =>
          items[j] # Tray!Nothing /\ items'[j].shows = items[j].shows
    BY <1>3, <1>4, <1>6, <2>4, <2>6 DEF x
  <2>9. ViewsKept' /\ changed' \in BOOLEAN
    BY <2>1 DEF ViewsKept
  <2> QED BY <1>1, <1>2, <1>3, <2>7, <2>8, <2>9, PlainBranch
<1> QED BY <1>5, <1>6

LEMMA HeadAndTail ==
  ASSUME NEW S, NEW q \in Seq(S), q # <<>>
  PROVE  Head(q) \in S /\ Tail(q) \in Seq(S) /\ Elements(q) = {Head(q)} \cup Elements(Tail(q))
<1> DEFINE h == Head(q)
           t == Tail(q)
<1>1. q = <<h>> \o t /\ t \in Seq(S) /\ h \in S
  OBVIOUS
<1> HIDE DEF h, t
<1>2. \A w : w = <<h>> \o t \/ w = Append(t, h) => Elements(w) = Elements(t) \cup {h}
  BY <1>1, QueueGrows
<1>3. Elements(q) = Elements(t) \cup {h}
  BY <1>1, <1>2
<1> QED BY <1>1, <1>3 DEF h, t

LEMMA TrayHandleSignal ==
  ASSUME TrayInv, Tray!HandleSignal PROVE TrayInv'
<1> DEFINE x == Head(signals)
           k == <<x.app, known[x.app]>>
           heard == /\ x.kind \in {"item", "menu"} /\ known[x.app] # 0
                    /\ x.kind = "menu" => items[k] # Tray!Nothing
           discovers == \/ x.kind = "registry"
                        \/ x.kind = "owner" /\ (x.app \in registry \/ known[x.app] # 0)
<1>1. /\ UNCHANGED <<app, registry, connected, known, items, action, command, changed, snapshot,
                     generation>>
      /\ signals # <<>> /\ signals' = Tail(signals)
  BY DEF Tray!HandleSignal, Tray!view
<1>2. /\ AppsTyped /\ ItemsTyped /\ TasksTyped /\ FlagsTyped /\ QueuesKept /\ ViewsKept /\ ItemsKept
      /\ ReadsFollow /\ KeysFollow
  BY DEF TrayInv
<1>3. signals \in Seq(SignalKinds)
  BY <1>2 DEF AppsTyped
<1>4. /\ x \in SignalKinds /\ signals' \in Seq(SignalKinds)
      /\ Elements(signals) = {x} \cup Elements(signals')
  <2>1. \A t : t = Tail(signals) =>
          /\ x \in SignalKinds /\ t \in Seq(SignalKinds) /\ Elements(signals) = {x} \cup Elements(t)
    BY <1>1, <1>3, HeadAndTail
  <2> QED BY <1>1, <2>1
<1>5. /\ dirty' = IF heard THEN Tray!Marked(k) ELSE dirty
      /\ Tray!Top(IF heard THEN Tray!Asks(k, Tray!Left, TRUE)
                  ELSE [Tray!Left EXCEPT !.needed = @ \/ discovers])
  BY DEF Tray!HandleSignal
<1> HIDE DEF x
<1>6. Tray!Known' = Tray!Known /\ Tray!Shown' = Tray!Shown
  BY <1>1 DEF Tray!Known, Tray!Shown
<1>7. /\ AppsTyped' /\ ItemsTyped' /\ ViewsKept'
      /\ action' \in Performed \cup {Tray!Nothing}
      /\ command' \in Wanted \cup {Tray!Nothing}
      /\ connected' \in BOOLEAN /\ changed' \in BOOLEAN
  <2>1. AppsTyped'
    BY <1>1, <1>2, <1>4 DEF AppsTyped
  <2>2. ItemsTyped' /\ ViewsKept'
    BY <1>1, <1>2 DEF ItemsTyped, ViewsKept, Tray!Views
  <2>3. /\ action' \in Performed \cup {Tray!Nothing}
        /\ command' \in Wanted \cup {Tray!Nothing}
    BY <1>1, <1>2 DEF TasksTyped
  <2>4. connected' \in BOOLEAN /\ changed' \in BOOLEAN
    BY <1>1, <1>2 DEF FlagsTyped
  <2> QED BY <2>1, <2>2, <2>3, <2>4
<1>8. QueueOK(queued, pending, reads) /\ dirty \subseteq pending \cap Tray!Known
  BY <1>2 DEF QueuesKept
<1>9. UnderWay(reads) \subseteq pending
  BY <1>8 DEF QueueOK
\* A signal that is taken is that of a key that is known.
<1>10. ASSUME NEW j \in Tray!Known, Signalled(j, signals), ~Signalled(j, signals')
       PROVE  heard /\ j = k
  <2>1. x = [kind |-> "item", app |-> j[1]]
    BY <1>4, <1>10 DEF Signalled
  <2>2. j \in Tray!TrayApps \X (1..MaxGeneration) /\ known[j[1]] = j[2]
    BY DEF Tray!Known, Tray!ItemKeys
  <2>3. j = <<j[1], j[2]>> /\ j[2] # 0
    BY <2>2
  <2> QED BY <2>1, <2>2, <2>3
<1>11. CASE heard
  <2> DEFINE s == Tray!Asks(k, Tray!Left, TRUE)
  <2>1. x \in [kind : {"item", "menu", "owner"}, app : Tray!TrayApps]
    BY <1>4, <1>11 DEF SignalKinds
  <2>2. x.app \in Tray!TrayApps /\ known[x.app] \in 0..MaxGeneration
    BY <2>1, <1>2 DEF ItemsTyped
  <2>3. known[x.app] \in 1..MaxGeneration
    BY <2>2, <1>11, TrayAssumption DEF TrayAssumption
  <2>4. k \in TrayKeys /\ k \in Tray!Known
    BY <2>2, <2>3 DEF TrayKeys, Tray!ItemKeys, Tray!Known
  <2>5. k[2] <= generation
    BY <2>2, <1>2 DEF KeysFollow
  <2>6. Tray!Top(s) /\ dirty' = Tray!Marked(k)
    BY <1>5, <1>11
  <2> HIDE DEF k
  <2>7. /\ Tray!Left \in LoopStates
        /\ QueueOK(Tray!Left.queued, Tray!Left.pending, Tray!Left.reads)
        /\ Tray!Left.queued = queued /\ Tray!Left.pending = pending /\ Tray!Left.reads = reads
    BY LeftIs
  <2>8. /\ s \in LoopStates /\ QueueOK(s.queued, s.pending, s.reads)
        /\ s.pending = pending \cup {k} /\ s.reads = reads
        /\ Elements(queued) \subseteq Elements(s.queued)
        /\ k \in pending \/ k \in Elements(s.queued)
    BY <2>4, <2>7, AsksKeep
  <2> HIDE DEF s
  <2>9. /\ dirty \subseteq dirty' /\ dirty' \subseteq s.pending \cap Tray!Known
        /\ k \in dirty' \/ k \in Elements(s.queued)
        /\ k \in pending => k \in dirty'
    BY <1>8, <2>4, <2>6, <2>8 DEF Tray!Marked
  <2>10. ASSUME NEW j \in Tray!Shown
         PROVE  j \in Tray!Known /\ Covered(j, items, app, s.queued, s.reads, dirty', signals')
    <3>1. j \in Tray!Known /\ Covered(j, items, app, queued, reads, dirty, signals)
      BY <2>10, <1>2 DEF ItemsKept
    <3>2. CASE Signalled(j, signals) => Signalled(j, signals')
      BY <3>1, <3>2, <2>8, <2>9 DEF Covered
    <3>3. CASE Signalled(j, signals) /\ ~Signalled(j, signals')
      <4>1. j = k
        BY <3>1, <3>3, <1>10
      <4> QED BY <4>1, <3>1, <2>9 DEF Covered
    <3> QED BY <3>2, <3>3
  <2>11. ASSUME NEW j \in UnderWay(reads) \cap Tray!Known
         PROVE  Following(j, app, reads, dirty', signals')
    <3>1. Following(j, app, reads, dirty, signals)
      BY <2>11, <1>2 DEF ReadsFollow
    <3>2. CASE Signalled(j, signals) => Signalled(j, signals')
      BY <3>1, <3>2, <2>9 DEF Following
    <3>3. CASE Signalled(j, signals) /\ ~Signalled(j, signals')
      <4>1. j = k /\ j \in pending
        BY <2>11, <3>3, <1>9, <1>10
      <4> QED BY <4>1, <2>9 DEF Following
    <3> QED BY <3>2, <3>3
  <2>12. \A j \in Tray!Shown' :
           j \in Tray!Known' /\ Covered(j, items', app', s.queued, s.reads, dirty', signals')
    BY <2>10, <1>1, <1>6
  <2>13. \A j \in UnderWay(s.reads) \cap Tray!Known' : Following(j, app', s.reads, dirty', signals')
    BY <2>8, <2>11, <1>1, <1>6
  <2>14. /\ \A a \in Tray!TrayApps : known'[a] <= generation'
         /\ \A j \in s.pending : j[2] <= generation'
         /\ ~connected' => \A a \in Tray!TrayApps : known'[a] = 0
    BY <1>1, <1>2, <2>5, <2>8 DEF KeysFollow
  <2>15. dirty' \subseteq s.pending \cap Tray!Known'
    BY <2>9, <1>6
  <2> QED BY <1>7, <2>6, <2>8, <2>12, <2>13, <2>14, <2>15, LoopKeeps
<1>12. CASE ~heard
  <2> DEFINE b == needed \/ discovers
             s == [Tray!Left EXCEPT !.needed = b]
  <2>1. Tray!Top(s) /\ dirty' = dirty
    <3>1. Tray!Top([Tray!Left EXCEPT !.needed = @ \/ discovers])
      BY <1>5, <1>12
    <3>2. [Tray!Left EXCEPT !.needed = @ \/ discovers] = s
      BY DEF Tray!Left
    <3> QED BY <3>1, <3>2, <1>5, <1>12
  <2>2. b \in BOOLEAN
    OBVIOUS
  <2> HIDE DEF b
  <2>3. /\ s \in LoopStates /\ QueueOK(s.queued, s.pending, s.reads)
        /\ s.queued = queued /\ s.pending = pending /\ s.reads = reads
    BY <2>2, LeftNeeding
  <2> HIDE DEF s, heard
  <2>4. \A j \in Tray!Known : Signalled(j, signals) => Signalled(j, signals')
    BY <1>10, <1>12
  <2>5. ASSUME NEW j \in Tray!Shown'
        PROVE  j \in Tray!Known' /\ Covered(j, items', app', s.queued, s.reads, dirty', signals')
    <3>1. j \in Tray!Known /\ Covered(j, items, app, queued, reads, dirty, signals)
      BY <2>5, <1>2, <1>6 DEF ItemsKept
    <3> QED BY <3>1, <1>1, <1>6, <2>1, <2>3, <2>4 DEF Covered
  <2>6. ASSUME NEW j \in UnderWay(s.reads) \cap Tray!Known'
        PROVE  Following(j, app', s.reads, dirty', signals')
    <3>1. j \in Tray!Known /\ Following(j, app, reads, dirty, signals)
      BY <2>3, <2>6, <1>2, <1>6 DEF ReadsFollow
    <3> QED BY <3>1, <1>1, <2>1, <2>3, <2>4 DEF Following
  <2>7. /\ \A a \in Tray!TrayApps : known'[a] <= generation'
        /\ \A j \in s.pending : j[2] <= generation'
        /\ ~connected' => \A a \in Tray!TrayApps : known'[a] = 0
    BY <1>1, <1>2, <2>3 DEF KeysFollow
  <2>8. dirty' \subseteq s.pending \cap Tray!Known'
    BY <1>6, <1>8, <2>1, <2>3
  <2> QED BY <1>7, <2>1, <2>3, <2>5, <2>6, <2>7, <2>8, LoopKeeps
<1> QED BY <1>11, <1>12

\* A read that ends makes room.
LEMMA RejoinedIs ==
  ASSUME TrayInv, NEW k \in UnderWay(reads)
  PROVE  LET s == Tray!Rejoined(k)
         IN /\ s \in LoopStates /\ QueueOK(s.queued, s.pending, s.reads)
            /\ s.queued = queued /\ s.pending = pending \ {k}
            /\ s.reads = [reads EXCEPT ![k] = Tray!Nothing]
            /\ UnderWay(s.reads) = UnderWay(reads) \ {k}
<1> DEFINE r == [reads EXCEPT ![k] = Tray!Nothing]
           t == [needed |-> needed, discovery |-> discovery, queued |-> queued,
                 pending |-> pending \ {k}, reads |-> r]
<1>1. Tray!Rejoined(k) = t
  <2>1. Tray!Rejoined(k) = [[Tray!Left EXCEPT !.reads = r] EXCEPT !.pending = pending \ {k}]
    BY DEF Tray!Rejoined, Tray!Left
  <2> DEFINE y == [[Tray!Left EXCEPT !.reads = r] EXCEPT !.pending = pending \ {k}]
  <2>2. DOMAIN Tray!Left = {"needed", "discovery", "queued", "pending", "reads"}
    BY DEF Tray!Left
  <2>3. y = [f \in {"needed", "discovery", "queued", "pending", "reads"} |-> y[f]]
    BY <2>2
  <2>4. /\ y["needed"] = needed /\ y["discovery"] = discovery /\ y["queued"] = queued
        /\ y["pending"] = pending \ {k} /\ y["reads"] = r
    BY DEF Tray!Left
  <2> HIDE DEF y
  <2>5. y = t
    BY <2>3, <2>4
  <2> QED BY <2>1, <2>5 DEF y
<1>2. /\ queued \in Seq(TrayKeys) /\ reads \in [TrayKeys -> Tray!Tasks \cup {Tray!Nothing}]
      /\ pending = Elements(queued) \cup UnderWay(reads) /\ Injective(queued)
      /\ Elements(queued) \cap UnderWay(reads) = {} /\ Cardinality(UnderWay(reads)) <= MaxReads
  BY DEF TrayInv, QueuesKept, QueueOK
<1>3. needed \in BOOLEAN /\ discovery \in Discoveries
  BY DEF TrayInv, FlagsTyped, TasksTyped
<1>4. k \in TrayKeys
  BY DEF UnderWay
<1>5. r \in [TrayKeys -> Tray!Tasks \cup {Tray!Nothing}]
  BY <1>2, <1>4
<1>6. UnderWay(r) = UnderWay(reads) \ {k}
  BY <1>2, <1>4 DEF UnderWay
<1> HIDE DEF r
<1>7. pending \ {k} = Elements(queued) \cup UnderWay(r) /\ Elements(queued) \cap UnderWay(r) = {}
  BY <1>2, <1>6
<1>8. Cardinality(UnderWay(r)) <= MaxReads
  <2>1. /\ IsFiniteSet(UnderWay(reads)) /\ Cardinality(UnderWay(reads)) \in Nat
        /\ Cardinality(UnderWay(r)) \in Nat
    BY UnderWayFinite
  <2>2. UnderWay(r) \subseteq UnderWay(reads)
    BY <1>6
  <2>3. Cardinality(UnderWay(r)) <= Cardinality(UnderWay(reads))
    BY <2>1, <2>2, FS_Subset
  <2>4. MaxReads \in Nat
    BY TrayAssumption DEF TrayAssumption
  <2> QED BY <1>2, <2>1, <2>3, <2>4
<1>9. QueueOK(queued, pending \ {k}, r)
  BY <1>2, <1>5, <1>7, <1>8 DEF QueueOK
<1>10. pending \ {k} \in SUBSET TrayKeys
  BY <1>2 DEF Elements, UnderWay
<1>11. t \in LoopStates
  BY <1>2, <1>3, <1>5, <1>10 DEF LoopStates, Discoveries
<1>12. r = [reads EXCEPT ![k] = Tray!Nothing]
  BY DEF r
<1>13. t.queued = queued /\ t.pending = pending \ {k} /\ t.reads = r
  OBVIOUS
<1> HIDE DEF t
<1>14. /\ t \in LoopStates /\ QueueOK(t.queued, t.pending, t.reads)
       /\ UnderWay(t.reads) = UnderWay(reads) \ {k}
  BY <1>6, <1>9, <1>11, <1>13
<1> QED BY <1>1, <1>12, <1>13, <1>14

LEMMA TrayReadJoined ==
  ASSUME TrayInv, NEW k \in TrayKeys, Tray!ReadJoined(k) PROVE TrayInv'
<1> DEFINE s0 == Tray!Rejoined(k)
           task == reads[k]
           read == reads[k].item
           old == items[k]
           kept == /\ old # Tray!Nothing
                   /\ old.revision # read.revision \/ (old.loaded /\ ~read.loaded)
<1>1. /\ UNCHANGED <<app, registry, signals, connected, known, action, command, snapshot, generation>>
      /\ task # Tray!Nothing /\ task.pc \in {"done", "failed"}
  BY DEF Tray!ReadJoined, Tray!bus
<1>2. /\ AppsTyped /\ ItemsTyped /\ TasksTyped /\ FlagsTyped /\ QueuesKept /\ ViewsKept /\ ItemsKept
      /\ ReadsFollow /\ KeysFollow
  BY DEF TrayInv
<1>3. QueueOK(queued, pending, reads) /\ dirty \subseteq pending \cap Tray!Known
  BY <1>2 DEF QueuesKept
<1>4. reads \in [TrayKeys -> Tray!Tasks \cup {Tray!Nothing}]
  BY <1>3 DEF QueueOK
<1>5. k \in UnderWay(reads) /\ task \in Tray!Tasks
  BY <1>1, <1>4 DEF UnderWay
<1>6. read \in Tray!Items
  BY <1>5 DEF Tray!Tasks
<1>7. items \in [TrayKeys -> Tray!Items \cup {Tray!Nothing}]
  BY <1>2 DEF ItemsTyped
<1>8. /\ s0 \in LoopStates /\ QueueOK(s0.queued, s0.pending, s0.reads)
      /\ s0.queued = queued /\ s0.pending = pending \ {k}
      /\ s0.reads = [reads EXCEPT ![k] = Tray!Nothing]
      /\ UnderWay(s0.reads) = UnderWay(reads) \ {k}
  BY <1>5, RejoinedIs
<1>9. Tray!Known' = Tray!Known
  BY <1>1 DEF Tray!Known
<1>10. /\ AppsTyped' /\ action' \in Performed \cup {Tray!Nothing}
       /\ command' \in Wanted \cup {Tray!Nothing}
       /\ connected' \in BOOLEAN
  <2>1. AppsTyped'
    BY <1>1, <1>2 DEF AppsTyped
  <2>2. /\ action' \in Performed \cup {Tray!Nothing}
        /\ command' \in Wanted \cup {Tray!Nothing}
    BY <1>1, <1>2 DEF TasksTyped
  <2>3. connected' \in BOOLEAN
    BY <1>1, <1>2 DEF FlagsTyped
  <2> QED BY <2>1, <2>2, <2>3
<1>11. UnderWay(reads) \subseteq pending /\ pending \subseteq TrayKeys
  BY <1>3 DEF QueueOK, Elements, UnderWay
<1>12. \A j \in UnderWay(s0.reads) : j \in UnderWay(reads) /\ j # k /\ s0.reads[j] = reads[j]
  BY <1>4, <1>8, <1>11
<1>13. CASE k \notin Tray!Known
  <2>1. UNCHANGED <<items, dirty, changed>> /\ Tray!Top(s0)
    BY <1>13 DEF Tray!ReadJoined
  <2> HIDE DEF s0
  <2>2. ItemsTyped' /\ ViewsKept' /\ changed' \in BOOLEAN
    <3>1. ItemsTyped' /\ ViewsKept'
      BY <1>1, <1>2, <2>1 DEF ItemsTyped, ViewsKept, Tray!Views
    <3>2. changed' \in BOOLEAN
      BY <1>2, <2>1 DEF FlagsTyped
    <3> QED BY <3>1, <3>2
  <2>3. dirty' \subseteq s0.pending \cap Tray!Known'
    BY <1>3, <1>8, <1>9, <1>13, <2>1
  <2>4. ASSUME NEW j \in Tray!Shown'
        PROVE  j \in Tray!Known' /\ Covered(j, items', app', s0.queued, s0.reads, dirty', signals')
    <3>1. j \in Tray!Shown
      BY <2>1, <2>4 DEF Tray!Shown
    <3>2. j \in Tray!Known /\ Covered(j, items, app, queued, reads, dirty, signals) /\ j # k
      BY <3>1, <1>2, <1>13 DEF ItemsKept
    <3>3. j \in UnderWay(reads) => j \in UnderWay(s0.reads) /\ s0.reads[j] = reads[j]
      BY <3>2, <1>8, <1>12
    <3> QED BY <3>2, <3>3, <1>1, <1>8, <1>9, <2>1 DEF Covered
  <2>5. ASSUME NEW j \in UnderWay(s0.reads) \cap Tray!Known'
        PROVE  Following(j, app', s0.reads, dirty', signals')
    <3>1. Following(j, app, reads, dirty, signals) /\ s0.reads[j] = reads[j]
      BY <2>5, <1>2, <1>9, <1>12 DEF ReadsFollow
    <3> QED BY <3>1, <1>1, <2>1 DEF Following
  <2>6. /\ \A a \in Tray!TrayApps : known'[a] <= generation'
        /\ \A j \in s0.pending : j[2] <= generation'
        /\ ~connected' => \A a \in Tray!TrayApps : known'[a] = 0
    BY <1>1, <1>2, <1>8 DEF KeysFollow
  <2> QED BY <1>8, <1>10, <2>1, <2>2, <2>3, <2>4, <2>5, <2>6, LoopKeeps
<1>14. CASE k \in Tray!Known
  <2> DEFINE i == IF task.pc = "failed" THEN Tray!Nothing
                  ELSE IF kept THEN [old EXCEPT !.shows = read.shows] ELSE read
             s == IF k \in dirty THEN Tray!Asks(k, s0, FALSE) ELSE s0
  <2>1. /\ items' = [items EXCEPT ![k] = i] /\ dirty' = dirty \ {k}
        /\ changed' = (changed \/ Tray!View(items'[k]) # Tray!View(old))
        /\ Tray!Top(s)
    BY <1>14 DEF Tray!ReadJoined
  <2>2. i \in Tray!Items \cup {Tray!Nothing} /\ (i # Tray!Nothing => task.pc = "done" /\ i.shows = read.shows)
    <3>1. CASE task.pc = "failed"
      BY <3>1
    <3>2. CASE task.pc = "done" /\ kept
      <4>1. old \in Tray!Items
        BY <3>2, <1>5, <1>7 DEF UnderWay
      <4>2. [old EXCEPT !.shows = read.shows] \in Tray!Items
            /\ [old EXCEPT !.shows = read.shows].shows = read.shows
        BY <4>1, <1>6 DEF Tray!Items
      <4>3. i = [old EXCEPT !.shows = read.shows]
        BY <3>2
      <4> QED BY <3>2, <4>2, <4>3
    <3>3. CASE task.pc = "done" /\ ~kept
      BY <3>3, <1>6
    <3> QED BY <1>1, <3>1, <3>2, <3>3
  <2> HIDE DEF i, s0
  <2>3. /\ s \in LoopStates /\ QueueOK(s.queued, s.pending, s.reads)
        /\ s.reads = s0.reads /\ Elements(queued) \subseteq Elements(s.queued)
        /\ s.pending \subseteq pending /\ pending \ {k} \subseteq s.pending
        /\ k \in dirty => k \in Elements(s.queued)
    <3>1. CASE k \in dirty
      <4> DEFINE front == FALSE
                 t == Tray!Asks(k, s0, front)
      <4>2. s = t
        BY <3>1
      <4> HIDE DEF front
      <4>1. /\ t \in LoopStates /\ QueueOK(t.queued, t.pending, t.reads)
            /\ t.pending = s0.pending \cup {k} /\ t.reads = s0.reads
            /\ Elements(s0.queued) \subseteq Elements(t.queued)
            /\ k \in s0.pending \/ k \in Elements(t.queued)
        BY <1>8, AsksKeep
      <4> HIDE DEF t, s
      <4> QED BY <4>1, <4>2, <1>5, <1>8, <1>11
    <3>2. CASE k \notin dirty
      BY <3>2, <1>8
    <3> QED BY <3>1, <3>2
  <2> HIDE DEF s
  <2>4. dirty' \subseteq s.pending \cap Tray!Known'
    BY <1>3, <1>9, <2>1, <2>3
  <2>5. items' \in [TrayKeys -> Tray!Items \cup {Tray!Nothing}]
        /\ items'[k] = i /\ \A j \in TrayKeys : j # k => items'[j] = items[j]
    BY <1>7, <2>1, <2>2
  <2>6. ItemsTyped'
    BY <1>1, <1>2, <2>5 DEF ItemsTyped
  <2>7. changed' \in BOOLEAN
    BY <2>1
  <2>8. ViewsKept'
    <3>1. CASE changed'
      BY <3>1 DEF ViewsKept
    <3>2. CASE ~changed'
      <4>1. ~changed /\ Tray!View(items'[k]) = Tray!View(items[k])
        BY <3>2, <2>1
      <4>2. \A j \in TrayKeys : Tray!View(items'[j]) = Tray!View(items[j])
        BY <4>1, <2>5
      <4>3. Tray!Views' = Tray!Views
        BY <4>2 DEF Tray!Views, TrayKeys
      <4> QED BY <1>1, <1>2, <4>1, <4>3 DEF ViewsKept
    <3> QED BY <3>1, <3>2
  <2>9. Following(k, app, reads, dirty, signals)
    BY <1>2, <1>5, <1>14 DEF ReadsFollow
  <2>10. ASSUME NEW j \in Tray!Shown'
         PROVE  j \in Tray!Known' /\ Covered(j, items', app', s.queued, s.reads, dirty', signals')
    <3>1. j \in TrayKeys /\ items'[j] # Tray!Nothing
      BY <2>10 DEF Tray!Shown, TrayKeys
    <3>2. CASE j = k
      <4>1. task.pc = "done" /\ items'[k].shows = read.shows
        BY <3>1, <3>2, <2>2, <2>5
      <4>2. read.shows = app[k[1]].shows \/ k \in dirty \/ Signalled(k, signals)
        BY <4>1, <2>9 DEF Following
      <4> QED BY <4>1, <4>2, <3>2, <1>1, <1>9, <1>14, <2>3 DEF Covered
    <3>3. CASE j # k
      <4>1. j \in Tray!Shown /\ items'[j] = items[j]
        BY <3>1, <3>3, <2>5 DEF Tray!Shown, TrayKeys
      <4>2. j \in Tray!Known /\ Covered(j, items, app, queued, reads, dirty, signals)
        BY <4>1, <1>2 DEF ItemsKept
      <4>3. j \in UnderWay(reads) => j \in UnderWay(s.reads) /\ s.reads[j] = reads[j]
        BY <3>3, <1>8, <1>12, <2>3
      <4>4. j \in dirty => j \in dirty'
        BY <3>3, <2>1
      <4> QED BY <4>1, <4>2, <4>3, <4>4, <1>1, <1>9, <2>3 DEF Covered
    <3> QED BY <3>2, <3>3
  <2>11. ASSUME NEW j \in UnderWay(s.reads) \cap Tray!Known'
         PROVE  Following(j, app', s.reads, dirty', signals')
    <3>1. j \in UnderWay(reads) \cap Tray!Known /\ j # k /\ s.reads[j] = reads[j]
      BY <2>11, <1>9, <1>12, <2>3
    <3>2. Following(j, app, reads, dirty, signals)
      BY <3>1, <1>2 DEF ReadsFollow
    <3>3. j \in dirty => j \in dirty'
      BY <3>1, <2>1
    <3> QED BY <3>1, <3>2, <3>3, <1>1 DEF Following
  <2>12. /\ \A a \in Tray!TrayApps : known'[a] <= generation'
         /\ \A j \in s.pending : j[2] <= generation'
         /\ ~connected' => \A a \in Tray!TrayApps : known'[a] = 0
    BY <1>1, <1>2, <2>3 DEF KeysFollow
  <2> QED BY <1>10, <2>1, <2>3, <2>4, <2>6, <2>7, <2>8, <2>10, <2>11, <2>12, LoopKeeps
<1> QED BY <1>13, <1>14

\* New addresses have a generation of their own; keys that are pending keep theirs.
LEMMA TrayDiscovered ==
  ASSUME TrayInv, Tray!Discovered PROVE TrayInv'
<1> DEFINE s == Tray!Asked[NumApps]
           n(a) == Cardinality(Tray!New(a))
<1>1. /\ UNCHANGED <<app, registry, signals, connected, action, command, snapshot>>
      /\ connected /\ generation' <= MaxGeneration
      /\ generation' = generation + Tray!Cardinality(Tray!New(NumApps))
      /\ known' = [a \in Tray!TrayApps |-> IF a \notin discovery.found THEN 0
                                       ELSE IF known[a] # 0 THEN known[a]
                                       ELSE generation + Tray!Cardinality(Tray!New(a))]
      /\ items' = [k \in TrayKeys |-> IF k \in Tray!Known' THEN items[k] ELSE Tray!Nothing]
      /\ dirty' = dirty \cap Tray!Known' /\ changed' = (changed \/ items' # items)
      /\ Tray!Top(s)
  BY DEF Tray!Discovered, Tray!bus, TrayKeys
<1>2. generation' = generation + n(NumApps)
      /\ known' = [a \in Tray!TrayApps |-> IF a \notin discovery.found THEN 0
                                       ELSE IF known[a] # 0 THEN known[a] ELSE generation + n(a)]
  BY <1>1, TrayCount
<1>3. /\ AppsTyped /\ ItemsTyped /\ TasksTyped /\ FlagsTyped /\ QueuesKept /\ ViewsKept /\ ItemsKept
      /\ ReadsFollow /\ KeysFollow
  BY DEF TrayInv
<1>4. /\ known \in [Tray!TrayApps -> 0..MaxGeneration] /\ generation \in Nat /\ MaxGeneration \in Nat
      /\ items \in [TrayKeys -> Tray!Items \cup {Tray!Nothing}] /\ NumApps \in Nat
  BY <1>3, TrayAssumption DEF TrayAssumption, ItemsTyped
<1>5. discovery.found \subseteq Tray!TrayApps
  BY <1>3 DEF TasksTyped, Discoveries
<1>6. ASSUME NEW a \in Tray!TrayApps
      PROVE  /\ n(a) \in Nat /\ n(a) <= n(NumApps) /\ n(NumApps) \in Nat
             /\ (a \in discovery.found /\ known[a] = 0 => n(a) # 0)
  <2> DEFINE A == Tray!New(a)
             B == Tray!New(NumApps)
  <2>1. A \subseteq B /\ B \subseteq Tray!TrayApps
    BY <1>4, <1>5 DEF Tray!New, Tray!TrayApps
  <2>2. IsFiniteSet(Tray!TrayApps)
    BY <1>4, FS_Interval DEF Tray!TrayApps
  <2>3. a \in discovery.found /\ known[a] = 0 => a \in A
    BY DEF Tray!New, Tray!TrayApps
  <2> HIDE DEF A, B
  <2>4. IsFiniteSet(B)
    BY <2>1, <2>2, FS_Subset
  <2>5. IsFiniteSet(A) /\ Cardinality(A) <= Cardinality(B)
    BY <2>1, <2>4, FS_Subset
  <2>6. Cardinality(A) \in Nat /\ Cardinality(B) \in Nat
    BY <2>4, <2>5, FS_CardinalityType
  <2>7. a \in A => Cardinality(A) # 0
    BY <2>5, FS_EmptySet
  <2> QED BY <2>3, <2>5, <2>6, <2>7 DEF A, B
<1>7. n(NumApps) \in Nat
  <2>1. CASE Tray!TrayApps = {}
    <3>1. Tray!New(NumApps) = {}
      BY <2>1, <1>5 DEF Tray!New
    <3> QED BY <3>1, FS_EmptySet
  <2>2. CASE Tray!TrayApps # {}
    BY <2>2, <1>6
  <2> QED BY <2>1, <2>2
<1> HIDE DEF n
<1>8. ASSUME NEW a \in Tray!TrayApps
      PROVE  /\ known'[a] \in 0..MaxGeneration /\ known'[a] <= generation'
             /\ known'[a] \in {0, known[a]} \/ known'[a] > generation
             /\ a \in discovery.found => known'[a] # 0
  <2>1. known[a] \in 0..MaxGeneration /\ known[a] <= generation
    BY <1>3, <1>4 DEF KeysFollow
  <2>2. known'[a] = IF a \notin discovery.found THEN 0
                    ELSE IF known[a] # 0 THEN known[a] ELSE generation + n(a)
    BY <1>2
  <2>3. generation' \in Nat /\ generation' <= MaxGeneration /\ generation <= generation'
    BY <1>1, <1>2, <1>4, <1>7
  <2>4. CASE a \notin discovery.found
    BY <2>2, <2>3, <2>4, <1>4
  <2>5. CASE a \in discovery.found /\ known[a] # 0
    BY <2>1, <2>2, <2>3, <2>5, <1>4
  <2>6. CASE a \in discovery.found /\ known[a] = 0
    BY <2>2, <2>3, <2>6, <1>2, <1>4, <1>6
  <2> QED BY <2>4, <2>5, <2>6
<1>9. known' \in [Tray!TrayApps -> 0..MaxGeneration]
  BY <1>2, <1>8
<1>10. generation' \in 0..MaxGeneration /\ generation <= generation'
  BY <1>1, <1>2, <1>4, <1>7
<1>11. QueueOK(queued, pending, reads) /\ dirty \subseteq pending \cap Tray!Known
  BY <1>3 DEF QueuesKept
<1>12. UnderWay(reads) \subseteq pending /\ pending \subseteq TrayKeys
  BY <1>11 DEF QueueOK, Elements, UnderWay
<1>13. ASSUME NEW k \in Tray!Known'
       PROVE  k \in TrayKeys /\ k[2] <= generation' /\ (k[2] <= generation => k \in Tray!Known)
  <2>1. k \in Tray!TrayApps \X (1..MaxGeneration) /\ known'[k[1]] = k[2]
    BY <1>13 DEF Tray!Known, Tray!ItemKeys, Tray!TrayApps
  <2>2. k[1] \in Tray!TrayApps /\ k[2] \in 1..MaxGeneration /\ k \in TrayKeys
    BY <2>1 DEF TrayKeys, Tray!ItemKeys
  <2>3. k[2] <= generation => known[k[1]] = k[2]
    BY <2>1, <2>2, <1>4, <1>8
  <2> QED BY <2>1, <2>2, <2>3, <1>8 DEF Tray!Known, TrayKeys
<1>14. \A k \in pending : k[2] <= generation
  BY <1>3 DEF KeysFollow
<1>15. s \in Leavings
  <2> DEFINE none == [pc |-> "none", found |-> {}]
             b == [Tray!Left EXCEPT !.discovery = none]
  <2>1. /\ Tray!Left \in LoopStates
        /\ QueueOK(Tray!Left.queued, Tray!Left.pending, Tray!Left.reads)
        /\ Tray!Left.queued = queued /\ Tray!Left.pending = pending /\ Tray!Left.reads = reads
    BY LeftIs
  <2>2. none \in [pc : {"none", "names", "prune", "done"}, found : SUBSET Tray!TrayApps]
    OBVIOUS
  <2>3. ASSUME NEW x \in LoopStates,
               NEW d \in [pc : {"none", "names", "prune", "done"}, found : SUBSET Tray!TrayApps]
        PROVE  LET y == [x EXCEPT !.discovery = d]
               IN /\ y \in LoopStates /\ y.queued = x.queued /\ y.pending = x.pending
                  /\ y.reads = x.reads /\ y.discovery = d
    BY DEF LoopStates
  <2>4. /\ b \in LoopStates /\ b.queued = queued /\ b.pending = pending /\ b.reads = reads
        /\ b.discovery = none
    <3> HIDE DEF none
    <3> QED BY <2>1, <2>2, <2>3
  <2> HIDE DEF b
  <2>5. b \in Leavings
    BY <2>4, <1>11 DEF Leavings
  <2>6. \A a \in discovery.found : known'[a] # 0
    BY <1>5, <1>8
  <2> QED BY <2>5, <2>6, <1>9, AskedSound DEF b
<1>16. /\ s \in LoopStates /\ QueueOK(s.queued, s.pending, s.reads) /\ s.reads = reads
       /\ pending \subseteq s.pending /\ Elements(queued) \subseteq Elements(s.queued)
       /\ \A k \in s.pending : k \in pending \/ k \in Tray!Known'
  BY <1>15 DEF Leavings
<1> HIDE DEF s
<1>17. /\ AppsTyped' /\ action' \in Performed \cup {Tray!Nothing}
       /\ command' \in Wanted \cup {Tray!Nothing}
       /\ connected' \in BOOLEAN
  <2>1. AppsTyped'
    BY <1>1, <1>3 DEF AppsTyped
  <2>2. /\ action' \in Performed \cup {Tray!Nothing}
        /\ command' \in Wanted \cup {Tray!Nothing}
    BY <1>1, <1>3 DEF TasksTyped
  <2>3. connected' \in BOOLEAN
    BY <1>1, <1>3 DEF FlagsTyped
  <2> QED BY <2>1, <2>2, <2>3
<1>18. items' \in [TrayKeys -> Tray!Items \cup {Tray!Nothing}]
       /\ \A k \in TrayKeys : items'[k] # Tray!Nothing => k \in Tray!Known' /\ items'[k] = items[k]
  BY <1>1, <1>4
<1>19. ItemsTyped'
  BY <1>9, <1>10, <1>18 DEF ItemsTyped
<1>20. changed' \in BOOLEAN
  BY <1>1
<1>21. ViewsKept'
  <2>1. CASE changed'
    BY <2>1 DEF ViewsKept
  <2>2. CASE ~changed'
    <3>1. ~changed /\ items' = items
      BY <2>2, <1>1
    <3>2. Tray!Views' = Tray!Views
      BY <3>1 DEF Tray!Views
    <3> QED BY <3>1, <3>2, <1>1, <1>3 DEF ViewsKept
  <2> QED BY <2>1, <2>2
<1>22. dirty' \subseteq s.pending \cap Tray!Known'
  BY <1>1, <1>11, <1>16
<1>23. ASSUME NEW k \in Tray!Shown'
       PROVE  k \in Tray!Known' /\ Covered(k, items', app', s.queued, s.reads, dirty', signals')
  <2>1. k \in TrayKeys /\ items'[k] # Tray!Nothing
    BY <1>23 DEF Tray!Shown, TrayKeys
  <2>2. k \in Tray!Known' /\ items'[k] = items[k] /\ k \in Tray!Shown
    BY <2>1, <1>18 DEF Tray!Shown, TrayKeys
  <2>3. Covered(k, items, app, queued, reads, dirty, signals)
    BY <2>2, <1>3 DEF ItemsKept
  <2>4. k \in dirty => k \in dirty'
    BY <2>2, <1>1
  <2> QED BY <2>2, <2>3, <2>4, <1>1, <1>16 DEF Covered
<1>24. ASSUME NEW k \in UnderWay(s.reads) \cap Tray!Known'
       PROVE  Following(k, app', s.reads, dirty', signals')
  <2>1. k \in UnderWay(reads) /\ k \in Tray!Known
    BY <1>12, <1>13, <1>14, <1>16, <1>24
  <2>2. Following(k, app, reads, dirty, signals)
    BY <2>1, <1>3 DEF ReadsFollow
  <2>3. k \in dirty => k \in dirty'
    BY <1>1, <1>24
  <2> QED BY <2>2, <2>3, <1>1, <1>16 DEF Following
<1>25. ASSUME NEW k \in s.pending PROVE k[2] <= generation'
  <2>1. CASE k \in Tray!Known'
    BY <2>1, <1>13
  <2>2. CASE k \in pending
    <3>1. k \in Tray!TrayApps \X (1..MaxGeneration) /\ k[2] <= generation
      BY <2>2, <1>12, <1>14 DEF TrayKeys, Tray!ItemKeys
    <3>2. k[2] \in Nat
      BY <3>1
    <3> QED BY <3>1, <3>2, <1>4, <1>10
  <2> QED BY <2>1, <2>2, <1>16
<1>26. \A a \in Tray!TrayApps : known'[a] <= generation'
  BY <1>8
<1>27. connected'
  BY <1>1
<1> QED BY <1>1, <1>16, <1>17, <1>19, <1>20, <1>21, <1>22, <1>23, <1>24, <1>25, <1>26, <1>27, LoopKeeps

LEMMA TrayStep ==
  ASSUME TrayInv, [Tray!Next]_trayVars PROVE TrayInv'
<1>1. CASE UNCHANGED trayVars
  BY <1>1, TrayStutters
<1>2. ASSUME NEW k \in Tray!ItemKeys, Tray!ReadStep(k) \/ Tray!ReadJoined(k) \/ Tray!ReadFails(k)
      PROVE  TrayInv'
  BY <1>2, TrayReadStep, TrayReadJoined, TrayReadFails DEF TrayKeys
<1>3. ASSUME NEW a \in Tray!TrayApps, Tray!Reads(a) PROVE TrayInv'
  <2>1. PICK k \in {a} \X (1..MaxGeneration) : Tray!ReadStep(k) \/ Tray!ReadJoined(k)
    BY <1>3 DEF Tray!Reads
  <2>2. k \in Tray!ItemKeys
    BY DEF Tray!ItemKeys
  <2> QED BY <2>1, <2>2, <1>2
<1>4. CASE Tray!Discovery
  BY <1>4, TrayDiscover, TrayDiscovered DEF Tray!Discovery
<1>5. CASE Tray!Actions
  BY <1>5, TrayActionStep, TrayActionFails, TrayActionJoined DEF Tray!Actions
<1>6. CASE Tray!Applications \/ Tray!Commands \/ Tray!SessionLost \/ Tray!Reconnects
  BY <1>6, TrayApplications, TrayCommands, TraySessionLost, TrayReconnects
<1>7. CASE Tray!Poll \/ Tray!HandleSignal \/ Tray!TakeCommand \/ Tray!Flush
  BY <1>7, TrayPoll, TrayHandleSignal, TrayTakeCommand, TrayFlush
<1> QED BY <1>1, <1>2, <1>3, <1>4, <1>5, <1>6, <1>7 DEF Tray!Next

-----------------------------------------------------------------------------
(***************************************************************************)
(* The theorems of the two services.                                       *)
(***************************************************************************)
\* Of the notification daemon: whatever is replaced, evicted, dismissed or due, every
\* notification it gave an id to is live or was reported closed to its author, once, and
\* nothing is sent about it after that.
THEOREM EndsAreReported == Spec => []ReportedOnce
<1>1. Spec => []DaemonInv
  BY InitDaemon, DaemonStep, PTL DEF Spec
<1>2. DaemonInv => ReportedOnce
  BY DaemonIsSound
<1> QED BY <1>1, <1>2, PTL

\* Of the tray: its queues hold what is due, once, by no more reads than may run, and no
\* change that an application signalled is lost, through discoveries, reads that fail or
\* are overtaken, and sessions that end.
THEOREM TrayForgetsNothing == Tray!Spec => []Tray!TrayKept
<1>1. TrayInv /\ [Tray!Next]_Tray!vars => TrayInv'
  <2>1. UNCHANGED Tray!vars => UNCHANGED trayVars
    BY DEF Tray!vars, Tray!bus, Tray!queues, Tray!view, trayVars
  <2> QED BY <2>1, TrayStep
<1>2. Tray!Spec => []TrayInv
  BY <1>1, TrayInitially, PTL DEF Tray!Spec
<1>3. TrayInv => Tray!TrayKept
  BY TrayIsSound
<1> QED BY <1>2, <1>3, PTL

ServicesInv == DaemonInv /\ TrayInv

LEMMA ServicesKeep == ServicesSpec => []ServicesInv
<1>1. ServicesInit => ServicesInv
  BY InitDaemon, TrayInitially DEF ServicesInit, ServicesInv
<1>2. ServicesInv /\ [ServicesNext]_<<vars, trayVars, scopeVars, environment, side>> => ServicesInv'
  <2> SUFFICES ASSUME ServicesInv, [ServicesNext]_<<vars, trayVars, scopeVars, environment, side>> PROVE ServicesInv'
    OBVIOUS
  <2>1. [Next]_vars /\ [Tray!Next]_trayVars
    BY DEF ServicesNext, RemainsNext
  <2> QED BY <2>1, DaemonStep, TrayStep DEF ServicesInv
<1> QED BY <1>1, <1>2, PTL DEF ServicesSpec

\* Of both on one bus: an end is reported once, and no signal is forgotten.
THEOREM ServicesAreSound == ServicesSpec => []ServicesSound
<1>1. ServicesInv => ServicesSound
  BY DaemonIsSound, TrayIsSound DEF ServicesInv, ServicesSound
<1> QED BY <1>1, ServicesKeep, PTL

\* Whoever is told of an action is told of the end, unless the notification is to stay: it
\* is closed in the step that queues the action, however little room there is.
THEOREM ActionsAreFinal == ServicesSpec => ActedOnce
<1>1. ServicesInv /\ [ServicesNext]_<<vars, trayVars, scopeVars, environment, side>> => [Acted]_vars
  <2> SUFFICES ASSUME ServicesInv, [ServicesNext]_<<vars, trayVars, scopeVars, environment, side>> PROVE [Acted]_vars
    OBVIOUS
  <2>1. [Next]_vars
    BY DEF ServicesNext, RemainsNext
  <2> QED BY <2>1, ActedStep DEF ServicesInv
<1>2. ServicesSpec => [][Acted]_vars
  BY <1>1, ServicesKeep, PTL DEF ServicesSpec
<1> QED BY <1>2 DEF ActedOnce, Acted
=============================================================================

---------------------------- MODULE SettingsStore ----------------------------
(***************************************************************************)
(* How hearthspace-settingsd updates the settings file (storage.rs,        *)
(* storage/transaction.rs, mutation.rs, and the pending request of         *)
(* server/client.rs).  Several daemons, one per session, share the file    *)
(* and its lock file; a person may edit the file at any time; a daemon may *)
(* be killed and the machine may lose power between any two system calls.  *)
(*                                                                         *)
(* A daemon runs one update at a time: the steps of an update below are    *)
(* its system calls.  Only the lock is retried, until the deadline of the  *)
(* request.  The settings are abstracted to fields that a request sets;    *)
(* validation and the response limit are sets of values.  Not modelled: a  *)
(* lock file removed by hand while a daemon runs, which docs/SETTINGS.md   *)
(* forbids, and a torn write of its eight bytes.                           *)
(***************************************************************************)
EXTENDS Integers

CONSTANTS Daemons,
          Fields, Values,  \* a request sets a field to a value
          Default,         \* the value of each field where there is no file
          Invalid,         \* values that validation rejects
          TooLarge,        \* values whose reply would not fit
          MaxRevision,
          Absent, Broken,  \* no file, a file that does not parse
          Unlocked,        \* nobody holds the lock file
          MaxRequests,     \* bound: requests made
          MaxFaults        \* bound: edits, kills and power failures

ASSUME ValueAssumption ==
  /\ Fields # {}
  /\ Default \in Values \ Invalid /\ Invalid \subseteq Values /\ TooLarge \subseteq Values
ASSUME UnlockedAssumption == Unlocked \notin Daemons
ASSUME StoreBoundAssumption ==
  MaxRevision \in Nat /\ MaxRequests \in Nat /\ MaxFaults \in Nat

Settings == [Fields -> Values \ Invalid]
Snapshots == [revision : 0..MaxRevision, settings : Settings]
Files == Snapshots \cup {Absent, Broken}

VARIABLES
  file,         \* the settings file
  survivors,    \* what a power failure may leave of it
  mark, syncedMark,  \* the lock file's high-water mark, and what of it is synced
  holder,       \* the daemon that holds the lock, or Unlocked
  pc,           \* the next system call of each daemon's update
  request,      \* what is being set
  base,         \* the snapshot it loaded
  next,         \* the revision it reserved
  reply,        \* the answer to its last request
  published,    \* that request's settings have been in the file
  touched,      \* the file has changed from outside since the load
  highest,      \* the highest revision ever published by a daemon
  requests, faults

fileVars == <<file, survivors, mark, syncedMark>>
answerVars == <<reply, published>>
storeVars == <<fileVars, holder, pc, request, base, next, answerVars, touched, highest,
          requests, faults>>

Requests == [field : Fields, value : Values]

\* load_snapshot of a file that parses.
Loaded(f) ==
  IF f = Absent THEN [revision |-> 0, settings |-> [x \in Fields |-> Default]] ELSE f

\* mutation::apply
Mutated(snapshot, r) == [snapshot.settings EXCEPT ![r.field] = r.value]

StoreTypeOK ==
  /\ file \in Files /\ survivors \subseteq Files
  /\ mark \in 0..MaxRevision /\ syncedMark \in 0..MaxRevision
  /\ holder \in Daemons \cup {Unlocked}
  /\ pc \in [Daemons -> {"idle", "pending", "locked", "loaded", "reserved", "synced",
                         "renamed"}]
  /\ request \in [Daemons -> Requests]
  /\ base \in [Daemons -> Snapshots]
  /\ next \in [Daemons -> 0..MaxRevision]
  /\ reply \in [Daemons -> {"none", "ok", "err"}]
  /\ published \in [Daemons -> BOOLEAN]
  /\ touched \in [Daemons -> BOOLEAN]
  /\ highest \in 0..MaxRevision
  /\ requests \in 0..MaxRequests /\ faults \in 0..MaxFaults

StoreInit ==
  /\ file \in {Absent, [revision |-> 0, settings |-> [x \in Fields |-> Default]]}
  /\ survivors = {file}
  /\ mark = 0 /\ syncedMark = 0
  /\ holder = Unlocked
  /\ pc = [d \in Daemons |-> "idle"]
  /\ request = [d \in Daemons |-> CHOOSE r \in Requests : TRUE]
  /\ base = [d \in Daemons |-> Loaded(Absent)]
  /\ next = [d \in Daemons |-> 0]
  /\ reply = [d \in Daemons |-> "none"]
  /\ published = [d \in Daemons |-> FALSE]
  /\ touched = [d \in Daemons |-> FALSE]
  /\ highest = 0
  /\ requests = 0 /\ faults = 0

(***************************************************************************)
(* The steps of one update.                                                *)
(***************************************************************************)
At(d, point) == pc[d] = point
Goto(d, point) == pc' = [pc EXCEPT ![d] = point]

\* The lock's file descriptor closes, and the client is answered.
Answer(d, word) ==
  /\ Goto(d, "idle")
  /\ reply' = [reply EXCEPT ![d] = word]
  /\ holder' = IF holder = d THEN Unlocked ELSE holder

Request(d, r) ==
  /\ At(d, "idle") /\ requests < MaxRequests /\ requests' = requests + 1
  /\ Goto(d, "pending")
  /\ request' = [request EXCEPT ![d] = r]
  /\ reply' = [reply EXCEPT ![d] = "none"]
  /\ published' = [published EXCEPT ![d] = FALSE]
  /\ UNCHANGED <<fileVars, holder, base, next, touched, highest, faults>>

TryLockAnyway(d) ==
  /\ At(d, "pending")
  /\ holder' = d
  /\ Goto(d, "locked")
  /\ UNCHANGED <<fileVars, request, base, next, answerVars, touched, highest, requests,
                 faults>>

\* try_lock; while another daemon holds it, WouldBlock leaves the request pending.
TryLock(d) ==
  /\ At(d, "pending") /\ holder = Unlocked
  /\ holder' = d
  /\ Goto(d, "locked")
  /\ UNCHANGED <<fileVars, request, base, next, answerVars, touched, highest, requests,
                 faults>>

ExpireOnceFree(d) ==
  /\ At(d, "pending") /\ holder = Unlocked
  /\ Answer(d, "err")
  /\ UNCHANGED <<fileVars, request, base, next, published, touched, highest, requests,
                 faults>>

\* Client::poll past the request's deadline, and any other failure to open the lock.
Expire(d) ==
  /\ At(d, "pending")
  /\ Answer(d, "err")
  /\ UNCHANGED <<fileVars, request, base, next, published, touched, highest, requests,
                 faults>>

\* load_snapshot, the mutation, validation, the no-op and the response limit.
Load(d) ==
  LET snapshot == Loaded(file)
      settings == Mutated(snapshot, request[d])
      rejected == file = Broken \/ request[d].value \in Invalid
      unchanged == settings = snapshot.settings /\ snapshot.revision # 0
      tooLarge == \E x \in Fields : settings[x] \in TooLarge
  IN /\ At(d, "locked")
     /\ CASE rejected -> Answer(d, "err") /\ UNCHANGED <<base, touched>>
          [] ~rejected /\ unchanged -> Answer(d, "ok") /\ UNCHANGED <<base, touched>>
          [] ~rejected /\ ~unchanged /\ tooLarge ->
               Answer(d, "err") /\ UNCHANGED <<base, touched>>
          [] ~rejected /\ ~unchanged /\ ~tooLarge ->
               /\ base' = [base EXCEPT ![d] = snapshot]
               /\ touched' = [touched EXCEPT ![d] = FALSE]
               /\ Goto(d, "loaded")
               /\ UNCHANGED <<reply, holder>>
     /\ UNCHANGED <<fileVars, request, next, published, highest, requests, faults>>

\* reserve_revision: above the file's revision and the high-water mark.
NextRevisionOfFile(d) == base[d].revision + 1
NextRevision(d) ==
  (IF base[d].revision > mark THEN base[d].revision ELSE mark) + 1

Reserve(d) ==
  /\ At(d, "loaded")
  /\ IF NextRevision(d) > MaxRevision
     THEN Answer(d, "err") /\ UNCHANGED <<mark, next>>
     ELSE /\ mark' = NextRevision(d)
          /\ next' = [next EXCEPT ![d] = mark']
          /\ Goto(d, "reserved")
          /\ UNCHANGED <<reply, holder>>
  /\ UNCHANGED <<file, survivors, syncedMark, request, base, published, touched, highest,
                 requests, faults>>

\* The mark is synced before the settings are published.
SyncMark(d) ==
  /\ At(d, "reserved")
  /\ syncedMark' = mark
  /\ Goto(d, "synced")
  /\ UNCHANGED <<file, survivors, mark, holder, request, base, next, answerVars, touched,
                 highest, requests, faults>>

\* save_snapshot: the synced temporary file replaces the settings file.
Rename(d) ==
  /\ At(d, "synced")
  /\ file' = [revision |-> next[d], settings |-> Mutated(base[d], request[d])]
  /\ survivors' = survivors \cup {file'}
  /\ highest' = next[d]
  /\ published' = [published EXCEPT ![d] = TRUE]
  /\ Goto(d, "renamed")
  /\ UNCHANGED <<mark, syncedMark, holder, request, base, next, reply, touched, requests,
                 faults>>

\* The commit is not taken back when the directory cannot be synced.
SyncDirectoryOrFail(d) ==
  /\ At(d, "renamed")
  /\ \/ survivors' = {file} /\ Answer(d, "ok")
     \/ survivors' = survivors /\ Answer(d, "err")
  /\ UNCHANGED <<file, mark, syncedMark, request, base, next, published, touched, highest,
                 requests, faults>>

SyncDirectory(d) ==
  /\ At(d, "renamed")
  /\ survivors' \in {{file}, survivors}
  /\ Answer(d, "ok")
  /\ UNCHANGED <<file, mark, syncedMark, request, base, next, published, touched, highest,
                 requests, faults>>

\* An I/O error before the rename: a reserved revision is left unused.
Fail(d) ==
  /\ pc[d] \in {"locked", "loaded", "reserved", "synced"}
  /\ Answer(d, "err")
  /\ UNCHANGED <<fileVars, request, base, next, published, touched, highest, requests,
                 faults>>

UpdateStep(d) ==
  \/ TryLock(d) \/ Expire(d) \/ Load(d) \/ Reserve(d) \/ SyncMark(d) \/ Rename(d)
  \/ SyncDirectory(d)

(***************************************************************************)
(* What happens around the daemons.                                        *)
(***************************************************************************)
Fault == faults < MaxFaults /\ faults' = faults + 1

\* A daemon dies; the kernel releases its lock, and its client gets no answer.
Kill(d) ==
  /\ ~At(d, "idle") /\ Fault
  /\ Goto(d, "idle")
  /\ holder' = IF holder = d THEN Unlocked ELSE holder
  /\ UNCHANGED <<fileVars, request, base, next, answerVars, touched, highest, requests>>

PowerFailure ==
  /\ Fault
  /\ file' \in survivors /\ survivors' = {file'}
  /\ mark' \in {mark, syncedMark} /\ syncedMark' = mark'
  /\ pc' = [d \in Daemons |-> "idle"]
  /\ holder' = Unlocked
  /\ UNCHANGED <<request, base, next, answerVars, touched, highest, requests>>

\* A person writes or removes the file, whatever a daemon is doing with it.
Edit ==
  /\ Fault
  /\ file' \in Files \ {file}
  /\ survivors' = survivors \cup {file'}
  /\ touched' = [d \in Daemons |-> TRUE]
  /\ UNCHANGED <<mark, syncedMark, holder, pc, request, base, next, answerVars, highest,
                 requests>>

StoreNext ==
  \/ \E d \in Daemons :
       \/ \E r \in Requests : Request(d, r)
       \/ UpdateStep(d) \/ Fail(d) \/ Kill(d)
  \/ PowerFailure \/ Edit

StoreSpec == StoreInit /\ [][StoreNext]_storeVars

\* The server's loop of daemon d goes on: its timeout is at most 5 ms while a
\* request waits for the lock.  Nothing is assumed of the other daemons.
Fairness(d) == WF_storeVars(UpdateStep(d)) /\ WF_storeVars(Expire(d))
-----------------------------------------------------------------------------
\* A daemon that is about to publish has loaded what the file holds, unless a
\* person has edited it meanwhile: no update of another daemon is lost.
WriterSeesLatest ==
  \A d \in Daemons :
    pc[d] \in {"loaded", "reserved", "synced"} => touched[d] \/ base[d] = Loaded(file)

\* The two together: no update is lost, and no daemon is left in an impossible state.
NoUpdateLost == StoreTypeOK /\ WriterSeesLatest

\* A failure is reported only of a request that was never published, and a
\* success only of one that was, or that the file already satisfied.
TruthfulReplies ==
  [][\A d \in Daemons : reply[d] = "none" =>
       /\ reply'[d] = "err" => ~published[d]
       /\ reply'[d] = "ok" =>
            published[d] \/ Loaded(file).settings[request[d].field] = request[d].value]_storeVars

\* The file is a register whose commits carry ever higher revisions, through
\* failed writes, edits of the revision, kills and power failures.
Register == INSTANCE SettingsRegister
RegisterSpec == Register!Spec

\* The request of one daemon is answered (or the daemon dies), also while
\* another daemon keeps the lock for ever.
AnsweredBy(d) == At(d, "pending") ~> At(d, "idle")
==============================================================================

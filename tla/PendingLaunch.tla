----------------------------- MODULE PendingLaunch -----------------------------
(***************************************************************************)
(* How the compositor launches an application or opens files               *)
(* (shell_integration/launch/pending.rs, pending/caller.rs, the handlers   *)
(* of launch/apps.rs and launch/files.rs, command_socket/connection.rs,    *)
(* and file_launch/process.rs of hearthspace-desktop).                     *)
(*                                                                         *)
(* One worker thread prepares and launches; a source of the event loop     *)
(* owns the deadline and admits the launch; a connection of the control    *)
(* socket waits for the answer.  The three share a Lifetime, which each    *)
(* may cancel and which looks at the caller's end of the socket itself.    *)
(* A worker's look is one step with the message it leads to, because the   *)
(* event loop looks again when it takes the message; the last looks, after *)
(* which nobody looks, are steps of their own.                             *)
(***************************************************************************)
EXTENDS Integers, Sequences, FiniteSets

CONSTANTS Launches,     \* a finite set; the others are natural numbers
          MaxWorkers,   \* MAX_WORKERS
          MaxChanges,   \* bound: changes of the session or of its display
          MaxFaults     \* bound: panics, broken connections, failed threads

VARIABLES
  caller,       \* what the caller knows; "internal" is the compositor itself
  connection,   \* its command connection
  mail,         \* the answer on its way from the source to the connection
  source,       \* the source is in the event loop
  messages,     \* from the worker to the source
  command, accepted,  \* what the source has sent the worker
  display,      \* the display the command was prepared for
  cancelled, late,    \* the Lifetime: its flag, and whether its deadline has passed
  worker, kind, \* the worker, and how it launches
  child,        \* the application, or the helper that opens the files
  slots,        \* WORKERS
  admissible,   \* session active and unlocked, output known
  changes, faults

loopVars == <<connection, mail, source, display>>
workerVars == <<worker, kind, child, slots>>
worldVars == <<admissible, changes, faults>>
vars == <<caller, loopVars, messages, command, accepted, cancelled, late, workerVars,
          worldVars>>

Results == {"ok", "error"}
Early == {"prepare", "command", "display", "admission"}

TypeOK ==
  /\ caller \in [Launches -> {"idle", "internal", "waiting", "left", "dropped"} \cup Results]
  /\ connection \in [Launches -> {"none", "pending", "closed"}]
  /\ mail \in [Launches -> {"none"} \cup Results]
  /\ source \in [Launches -> BOOLEAN]
  /\ messages \in [Launches -> Seq({"prepared", "ready", "closed"} \cup Results)]
  /\ command \in [Launches -> BOOLEAN] /\ accepted \in [Launches -> BOOLEAN]
  /\ display \in [Launches -> {"none", "current", "stale"}]
  /\ cancelled \in [Launches -> BOOLEAN] /\ late \in [Launches -> BOOLEAN]
  /\ worker \in [Launches -> Early \cup {"none", "last look", "start", "helper", "done", "gone"}]
  /\ kind \in [Launches -> {"detached", "helper"}]
  /\ child \in [Launches -> {"none", "running", "started", "opened", "failed", "killed"}]
  /\ slots \in 0..MaxWorkers
  /\ admissible \in BOOLEAN /\ changes \in 0..MaxChanges /\ faults \in 0..MaxFaults

Init ==
  /\ caller = [l \in Launches |-> "idle"]
  /\ connection = [l \in Launches |-> "none"] /\ mail = [l \in Launches |-> "none"]
  /\ source = [l \in Launches |-> FALSE] /\ messages = [l \in Launches |-> <<>>]
  /\ command = [l \in Launches |-> FALSE] /\ accepted = [l \in Launches |-> FALSE]
  /\ display = [l \in Launches |-> "none"]
  /\ cancelled = [l \in Launches |-> FALSE] /\ late = [l \in Launches |-> FALSE]
  /\ worker = [l \in Launches |-> "none"] /\ kind = [l \in Launches |-> "detached"]
  /\ child = [l \in Launches |-> "none"]
  /\ slots = 0 /\ admissible = TRUE /\ changes = 0 /\ faults = 0

Fault == faults < MaxFaults /\ faults' = faults + 1

\* Lifetime::check fails, and cancels.
Expired(l) == cancelled[l] \/ late[l] \/ caller[l] = "left"

(***************************************************************************)
(* The world.                                                              *)
(***************************************************************************)
\* The session is locked or suspended, an output goes, or a drawing launch is overtaken.
Admissibility ==
  /\ changes < MaxChanges /\ changes' = changes + 1 /\ admissible' = ~admissible
  /\ UNCHANGED <<caller, loopVars, messages, command, accepted, cancelled, late, workerVars,
                 faults>>

\* XWayland starts or stops: the revision grows.
DisplayChanges ==
  /\ changes < MaxChanges /\ changes' = changes + 1
  /\ display' = [l \in Launches |-> IF display[l] = "current" THEN "stale" ELSE display[l]]
  /\ UNCHANGED <<caller, connection, mail, source, messages, command, accepted, cancelled,
                 late, workerVars, admissible, faults>>

DeadlinePasses(l) ==
  /\ ~late[l] /\ (source[l] \/ worker[l] \notin {"none", "gone"})
  /\ late' = [late EXCEPT ![l] = TRUE]
  /\ UNCHANGED <<caller, loopVars, messages, command, accepted, cancelled, workerVars,
                 worldVars>>

CallerLeaves(l) ==
  /\ caller[l] = "waiting" /\ caller' = [caller EXCEPT ![l] = "left"]
  /\ UNCHANGED <<loopVars, messages, command, accepted, cancelled, late, workerVars,
                 worldVars>>

(***************************************************************************)
(* The event loop.                                                         *)
(***************************************************************************)
Started(l, k) ==
  /\ slots < MaxWorkers /\ slots' = slots + 1
  /\ source' = [source EXCEPT ![l] = TRUE]
  /\ worker' = [worker EXCEPT ![l] = "prepare"] /\ kind' = [kind EXCEPT ![l] = k]
  /\ UNCHANGED <<mail, messages, command, accepted, display, cancelled, late, child,
                 worldVars>>

\* start_checked for a command: its connection waits for the answer.
Request(l, k) ==
  /\ caller[l] = "idle" /\ caller' = [caller EXCEPT ![l] = "waiting"]
  /\ connection' = [connection EXCEPT ![l] = "pending"]
  /\ Started(l, k)

\* open_layout_settings drops the receiver of the answer.
RequestInternally(l) ==
  /\ caller[l] = "idle" /\ caller' = [caller EXCEPT ![l] = "internal"]
  /\ UNCHANGED connection
  /\ Started(l, "detached")

\* Every slot is taken, or the source or the thread cannot be created.
Busy(l) ==
  /\ caller[l] = "idle" /\ caller' = [caller EXCEPT ![l] = "error"]
  /\ (slots = MaxWorkers /\ UNCHANGED faults) \/ Fault
  /\ UNCHANGED <<loopVars, messages, command, accepted, cancelled, late, workerVars,
                 admissible, changes>>

\* The source answers and leaves the loop; its Drop cancels, and drops what it has not
\* taken from its channel.
Answer(l, result) ==
  /\ source' = [source EXCEPT ![l] = FALSE] /\ messages' = [messages EXCEPT ![l] = <<>>]
  /\ cancelled' = [cancelled EXCEPT ![l] = TRUE]
  /\ mail' = [mail EXCEPT ![l] = IF connection[l] = "pending" THEN result ELSE @]

Taken(l) == messages' = [messages EXCEPT ![l] = Tail(@)] /\ UNCHANGED <<mail, source, cancelled>>

\* Event::Prepared: the environment of the command, with the display of this moment (none
\* in a session that publishes nothing).
Configure(l) ==
  /\ Head(messages[l]) = "prepared"
  /\ \/ /\ worker[l] = "command" /\ Taken(l)
        /\ command' = [command EXCEPT ![l] = TRUE]
        /\ \E d \in {"none", "current"} : display' = [display EXCEPT ![l] = d]
     \/ Answer(l, "error") /\ UNCHANGED <<command, display>>
  /\ UNCHANGED accepted

\* Event::Ready: the last word of the event loop.
Admit(l) ==
  /\ Head(messages[l]) = "ready"
  /\ IF admissible /\ display[l] # "stale" /\ worker[l] = "admission"
     THEN Taken(l) /\ accepted' = [accepted EXCEPT ![l] = TRUE]
     ELSE Answer(l, "error") /\ UNCHANGED accepted
  /\ UNCHANGED <<command, display>>

\* Event::Finished: an existing window is focused, which may fail; or the channel closed.
Finished(l) ==
  /\ \/ Head(messages[l]) \in Results /\ Answer(l, Head(messages[l]))
     \/ Head(messages[l]) \in {"ok", "closed"} /\ Answer(l, "error")
  /\ UNCHANGED <<command, accepted, display>>

\* Source::process_events.
SourceFires(l) ==
  /\ source[l] /\ (late[l] \/ messages[l] # <<>>)
  /\ \/ Expired(l) /\ Answer(l, "error") /\ UNCHANGED <<command, accepted, display>>
     \/ ~Expired(l) /\ messages[l] # <<>> /\ (Configure(l) \/ Admit(l) \/ Finished(l))
     \/ /\ ~Expired(l) /\ messages[l] = <<>>        \* the timer
        /\ Answer(l, "error") /\ UNCHANGED <<command, accepted, display>>
  /\ UNCHANGED <<caller, connection, late, workerVars, worldVars>>

Tell(l, result) ==
  /\ connection' = [connection EXCEPT ![l] = "closed"]
  /\ caller' = [caller EXCEPT ![l] = IF @ = "waiting" THEN result ELSE @]

\* Connection::advance: an answer that is there counts, whatever the deadline.
Advance(l) ==
  /\ connection[l] = "pending"
  /\ \/ mail[l] # "none" /\ Tell(l, mail[l]) /\ UNCHANGED cancelled
     \/ /\ mail[l] = "none" /\ Expired(l) /\ Tell(l, "error")
        /\ cancelled' = [cancelled EXCEPT ![l] = TRUE]
  /\ UNCHANGED <<mail, source, display, messages, command, accepted, late, workerVars,
                 worldVars>>

\* The connection is dropped with the command pending: Drop cancels.
ConnectionBreaks(l) ==
  /\ connection[l] = "pending" /\ Fault
  /\ connection' = [connection EXCEPT ![l] = "closed"]
  /\ caller' = [caller EXCEPT ![l] = "dropped"]
  /\ cancelled' = [cancelled EXCEPT ![l] = TRUE]
  /\ UNCHANGED <<mail, source, display, messages, command, accepted, late, workerVars,
                 admissible, changes>>

(***************************************************************************)
(* The worker.                                                             *)
(***************************************************************************)
At(l, pc) == worker[l] = pc
Goto(l, pc) == worker' = [worker EXCEPT ![l] = pc]
Post(l, message) ==
  messages' = [messages EXCEPT ![l] = IF source[l] THEN Append(@, message) ELSE @]
Done(l, result) == Goto(l, "done") /\ Post(l, result)
Look(l) == cancelled' = [cancelled EXCEPT ![l] = @ \/ Expired(l)]

\* The preparation returns; it may never.
Prepare(l) ==
  /\ At(l, "prepare")
  /\ \/ Done(l, "error") /\ UNCHANGED cancelled
     \/ /\ Look(l)
        /\ IF Expired(l) THEN Done(l, "error") ELSE Goto(l, "command") /\ Post(l, "prepared")
  /\ UNCHANGED <<caller, loopVars, command, accepted, late, kind, child, slots, worldVars>>

\* recv_timeout of the command.
TakeCommand(l) ==
  /\ At(l, "command")
  /\ \/ /\ command[l] /\ Look(l)
        /\ IF Expired(l) THEN Done(l, "error") ELSE Goto(l, "display") /\ UNCHANGED messages
     \/ ~command[l] /\ (late[l] \/ ~source[l]) /\ Done(l, "error") /\ UNCHANGED cancelled
  /\ UNCHANGED <<caller, loopVars, command, accepted, late, kind, child, slots, worldVars>>

\* The services of the session are told the display; the deadline bounds it.
Synchronize(l) ==
  /\ At(l, "display")
  /\ \/ Done(l, "error")
     \/ source[l] /\ Goto(l, "admission") /\ Post(l, "ready")
  /\ UNCHANGED <<caller, loopVars, command, accepted, cancelled, late, kind, child, slots,
                 worldVars>>

\* recv_timeout of the admission, and the last look at the caller itself.
TakeAdmission(l) ==
  /\ At(l, "admission")
  /\ \/ /\ accepted[l] /\ Look(l)
        /\ IF Expired(l) THEN Done(l, "error") ELSE Goto(l, "last look") /\ UNCHANGED messages
     \/ ~accepted[l] /\ (late[l] \/ ~source[l]) /\ Done(l, "error") /\ UNCHANGED cancelled
  /\ UNCHANGED <<caller, loopVars, command, accepted, late, kind, child, slots, worldVars>>

SpawnUnchecked(l) ==
  /\ At(l, "last look") /\ Goto(l, "start")
  /\ UNCHANGED <<caller, loopVars, messages, command, accepted, cancelled, late, kind, child,
                 slots, worldVars>>

\* check_pending.
CheckPending(l) ==
  /\ At(l, "last look")
  /\ IF cancelled[l] \/ late[l] THEN Done(l, "error")
     ELSE Goto(l, "start") /\ UNCHANGED messages
  /\ UNCHANGED <<caller, loopVars, command, accepted, cancelled, late, kind, child, slots,
                 worldVars>>

Spawn(l) ==
  /\ At(l, "start")
  /\ \/ Done(l, "error") /\ UNCHANGED child
     \/ /\ kind[l] = "detached" /\ Done(l, "ok")
        /\ child' = [child EXCEPT ![l] = "started"]
     \/ /\ kind[l] = "helper" /\ Goto(l, "helper") /\ UNCHANGED messages
        /\ child' = [child EXCEPT ![l] = "running"]
  /\ UNCHANGED <<caller, loopVars, command, accepted, cancelled, late, kind, slots, worldVars>>

HelperExits(l) ==
  /\ At(l, "helper")
  /\ \/ Done(l, "ok") /\ child' = [child EXCEPT ![l] = "opened"]
     \/ Done(l, "error") /\ child' = [child EXCEPT ![l] = "failed"]
  /\ UNCHANGED <<caller, loopVars, command, accepted, cancelled, late, kind, slots, worldVars>>

UnboundedHelper(l) == At(l, "helper") /\ FALSE /\ UNCHANGED vars

\* run_opener_until looks between its polls; the guard of the child kills it.
HelperKilled(l) ==
  /\ At(l, "helper") /\ (cancelled[l] \/ late[l]) /\ Done(l, "error")
  /\ child' = [child EXCEPT ![l] = "killed"]
  /\ UNCHANGED <<caller, loopVars, command, accepted, cancelled, late, kind, slots, worldVars>>

\* The slot is the last thing the thread gives up.
Release(l) ==
  /\ At(l, "done") /\ Goto(l, "gone") /\ slots' = slots - 1
  /\ UNCHANGED <<caller, loopVars, messages, command, accepted, cancelled, late, kind, child,
                 worldVars>>

\* A panic unwinds: the slot is given up and the channel closes.
Panic(l) ==
  /\ worker[l] \in Early /\ Fault
  /\ Goto(l, "gone") /\ slots' = slots - 1 /\ Post(l, "closed")
  /\ UNCHANGED <<caller, loopVars, command, accepted, cancelled, late, kind, child,
                 admissible, changes>>

Onward(l) ==
  \/ TakeCommand(l) \/ Synchronize(l) \/ TakeAdmission(l) \/ CheckPending(l) \/ Spawn(l)
  \/ HelperKilled(l) \/ Release(l)

Next ==
  \/ Admissibility \/ DisplayChanges
  \/ \E l \in Launches :
       \/ DeadlinePasses(l) \/ CallerLeaves(l)
       \/ \E k \in {"detached", "helper"} : Request(l, k)
       \/ RequestInternally(l) \/ Busy(l)
       \/ SourceFires(l) \/ Advance(l) \/ ConnectionBreaks(l)
       \/ Prepare(l) \/ Onward(l) \/ HelperExits(l) \/ Panic(l)

Spec == Init /\ [][Next]_vars

\* The event loop dispatches what is ready, time passes, and a worker whose preparation
\* has returned goes on.  A preparation, or a helper, may hang for ever.
Fairness ==
  \A l \in Launches :
    /\ WF_vars(DeadlinePasses(l)) /\ WF_vars(SourceFires(l)) /\ WF_vars(Advance(l))
    /\ WF_vars(Onward(l))

FairSpec == Spec /\ Fairness
-----------------------------------------------------------------------------
\* Every slot is held by one thread, so there are never more than MAX_WORKERS threads;
\* and success is reported only of what has been started, and by the helper, opened.
SlotsHeld == slots = Cardinality({l \in Launches : worker[l] \notin {"none", "gone"}})
SuccessTruthful ==
  \A l \in Launches :
    caller[l] = "ok" \/ mail[l] = "ok" => child[l] \in {"started", "opened"}
LaunchesSound == TypeOK /\ SlotsHeld /\ SuccessTruthful

\* Nothing is launched late.  Once the caller has been told of a failure or has lost its
\* connection, no worker passes its last look; once it has hung up, none passes the look
\* at the socket.  (A worker that has passed already does start its child: the answer and
\* the start are a race that nothing orders.)
RefusedNeverStarts ==
  [][\A l \in Launches :
       /\ caller[l] \in {"error", "dropped"} /\ worker'[l] = "start" => worker[l] = "start"
       /\ caller[l] = "left" /\ worker'[l] = "last look" => worker[l] = "last look"]_vars

\* Every caller is answered in bounded time, also while its worker hangs; and every slot
\* comes back once the preparation has returned, also while the helper hangs.
Owed(l) == caller[l] = "waiting" \/ worker[l] \notin {"none", "prepare", "gone"}
LaunchEnds(l) == []<>~Owed(l)
==============================================================================

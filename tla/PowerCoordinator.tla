-------------------------- MODULE PowerCoordinator --------------------------
(***************************************************************************)
(* The power coordinator of hearthspace-session (power/): one async task   *)
(* between systemd-logind, the compositor's control socket and the shell's *)
(* power menu.  Between any two of its awaits the machine, the seat, the   *)
(* lid, the compositor and the user move on, so every action of the task   *)
(* below ends at an await, and what it read before may be stale after it.  *)
(*                                                                         *)
(* The compositor is known only by the promise of its session lock: it     *)
(* takes any step LockPromise allows, which NativeSession and              *)
(* HeadlessSession implement.  logind is external, and modelled by what    *)
(* the coordinator relies on.                                              *)
(*                                                                         *)
(* Left out: the locked hint (informational), counters and log texts; the  *)
(* permission queries, each a reason to refuse like the ones kept; docked  *)
(* stands for a dock or an external display.  local_seat is TRUE.          *)
(* Deadlines are taken at any time: `expired`.                             *)
(***************************************************************************)
EXTENDS Integers, Sequences

CONSTANTS
  Clients, None,   \* the lockers, as in LockPromise
  MaxSignals,      \* bound: logind signals not read yet
  MaxLost          \* bound: commands to the compositor that fail

ASSUME BoundsAssumption == MaxSignals \in Nat /\ MaxLost \in Nat

VARIABLES
  (* the compositor *)
  phase, holder, acknowledged, sealed, latch,
  confirmed,       \* lock_confirmed of its status reply
  ready,           \* recovery_ready of its status reply
  late,            \* commands that timed out but are still in its socket
  lost,            \* commands that failed so far
  (* logind and the machine *)
  power,           \* "awake", "preparing" (for sleep), "asleep"
  signals,         \* PrepareForSleep signals the task has not read yet
  active,          \* our VT session has the seat
  lidClosed, docked,
  (* the task *)
  pc,              \* the await it is at
  cycle,           \* Cycle, and Status.phase
  snap,            \* the last logind Snapshot
  seen,            \* the last status reply of the compositor
  established,     \* a logind connection has been established before
  (* the power menu *)
  request,         \* the Request in flight
  cancelled,       \* its client gave up waiting
  gate,            \* Shared.shutdown_dispatched
  (* history *)
  unprotected,     \* this sleep may start without the shield, see below
  proven,          \* since the last wake: lock presented anew, or unlocked
  closure,         \* the last lid closure no Suspend call has answered
  unresolved       \* a shutdown call was made, and not rejected

Lock == INSTANCE LockPromise

lock == <<phase, holder, acknowledged, sealed, latch>>
compositor == <<lock, confirmed, ready, late, lost>>
machine == <<power, signals, active, lidClosed, docked>>
task == <<pc, cycle, snap, seen, established>>
menu == <<request, cancelled, gate>>
history == <<unprotected, proven, closure, unresolved>>
vars == <<compositor, machine, task, menu, history>>

Commands == {"lock-shield", "prepare-sleep", "session-resume"}
Phases == {"connecting", "awake", "preparing-sleep", "sleeping", "recovering", "degraded"}
Requests == {"none", "suspend", "shutdown"}

Cycles == [ delay : BOOLEAN, lid : BOOLEAN,            \* inhibitors held
            lastClosed : {"unknown", "open", "closed"}, controlling : BOOLEAN,
            sleeping : BOOLEAN, preparing : BOOLEAN, recovering : BOOLEAN,
            resumeAccepted : BOOLEAN, lidRequest : BOOLEAN,
            manual : {"none", "pending", "dispatched"}, phase : Phases ]

\* Cycle as `connected` builds it, but for the delay inhibitor and the phase.
NewCycle == [ delay |-> FALSE, lid |-> FALSE,
              lastClosed |-> "unknown", controlling |-> FALSE,
              sleeping |-> FALSE, preparing |-> FALSE, recovering |-> FALSE,
              resumeAccepted |-> TRUE, lidRequest |-> FALSE,
              manual |-> "none", phase |-> "degraded" ]

Snapshots == [active : BOOLEAN, lidClosed : BOOLEAN, docked : BOOLEAN, preparing : BOOLEAN]

Snapshot == [ active |-> active, lidClosed |-> lidClosed, docked |-> docked,
              preparing |-> power # "awake" ]

Replies == [ locked : {"yes", "no", "unknown"}, confirmed : BOOLEAN,
             active : BOOLEAN, ready : BOOLEAN ]

NoReply == [locked |-> "unknown", confirmed |-> FALSE, active |-> FALSE, ready |-> FALSE]

Status == [ locked |-> IF phase = "open" THEN "no" ELSE "yes",
            confirmed |-> confirmed, active |-> active, ready |-> ready ]

TypeOK ==
  /\ Lock!TypeOK
  /\ confirmed \in BOOLEAN /\ ready \in BOOLEAN
  /\ late \in SUBSET Commands
  /\ lost \in 0..MaxLost
  /\ power \in {"awake", "preparing", "asleep"}
  /\ signals \in Seq(BOOLEAN)
  /\ active \in BOOLEAN /\ lidClosed \in BOOLEAN /\ docked \in BOOLEAN
  /\ pc \in {"off", "arm", "reshield", "resume", "top", "shield", "status", "act",
             "manualSnapshot", "manualStatus", "manualSeat", "manualSuspend",
             "lid", "lidSeat", "lidSuspend", "idle", "poll", "requestStatus",
             "requestShield", "shutdownStatus", "shutdown", "lost"}
  /\ cycle \in Cycles
  /\ snap \in Snapshots
  /\ seen \in Replies
  /\ established \in BOOLEAN
  /\ request \in Requests
  /\ cancelled \in BOOLEAN /\ gate \in BOOLEAN
  /\ unprotected \in BOOLEAN /\ proven \in BOOLEAN /\ unresolved \in BOOLEAN
  /\ closure \in {"none", "fresh", "before wake"}

Init ==
  /\ Lock!Init /\ confirmed = FALSE /\ ready = TRUE
  /\ late = {} /\ lost = 0
  /\ power = "awake" /\ signals = <<>>
  /\ active = TRUE /\ docked = FALSE /\ lidClosed \in BOOLEAN
  /\ pc = "off" /\ cycle = [NewCycle EXCEPT !.phase = "connecting"]
  /\ snap = Snapshot /\ seen = NoReply
  /\ established = FALSE
  /\ request = "none" /\ cancelled = FALSE /\ gate = FALSE
  /\ unprotected = FALSE /\ proven = TRUE /\ closure = "none" /\ unresolved = FALSE

-----------------------------------------------------------------------------
(***************************************************************************)
(* The compositor: any step its lock promises, and the control commands.   *)
(***************************************************************************)
Proof == proven' = (proven \/ (confirmed' /\ ~confirmed) \/ phase' = "open")

LockStep ==
  /\ power # "asleep"
  /\ Lock!Shield \/ Lock!Acknowledge \/ Lock!Seal \/ Lock!Release
     \/ \E c \in Clients : Lock!Claim(c)
  /\ latch' = latch
  /\ confirmed' \in BOOLEAN /\ (confirmed' => sealed')
  /\ Proof
  /\ UNCHANGED <<ready, late, lost, machine, task, menu, unprotected, closure, unresolved>>

DisplayChanges ==
  /\ power # "asleep"
  /\ ready' = ~ready
  /\ UNCHANGED <<lock, confirmed, late, lost,
                 machine, task, menu, history>>

Executed(command) ==
  \/ /\ command = "lock-shield"
     /\ \/ Lock!Shield /\ latch' = latch /\ confirmed' = FALSE
        \/ phase # "open" /\ UNCHANGED <<lock, confirmed>>
  \/ /\ command = "prepare-sleep"
     /\ \/ Lock!Shield /\ latch' /\ confirmed' = FALSE
        \/ Lock!PrepareSleep /\ UNCHANGED confirmed
  \/ /\ command = "session-resume"
     /\ Lock!Resume /\ confirmed' = FALSE

\* control::command: accepted is TRUE when the reply is "ok".  A failure may
\* be a refusal, an error of a command that took effect, or a timeout.
Command(command, accepted) ==
  \/ accepted /\ Executed(command) /\ UNCHANGED <<late, lost>>
  \/ /\ ~accepted /\ lost < MaxLost /\ lost' = lost + 1
     /\ \/ Executed(command) /\ UNCHANGED late
        \/ UNCHANGED <<lock, confirmed>> /\ late' \in {late, late \cup {command}}

\* A command that had timed out.
LateCommand ==
  /\ power # "asleep"
  /\ \E command \in late :
       /\ Executed(command)
       /\ late' = late \ {command}
       /\ unprotected' = (unprotected \/ (command = "session-resume" /\ power = "preparing"))
  /\ Proof
  /\ UNCHANGED <<ready, lost, machine, task, menu, closure, unresolved>>

-----------------------------------------------------------------------------
(***************************************************************************)
(* logind and the machine.  A sleep waits for our delay inhibitor until    *)
(* logind's own budget is over.  The shield cannot be guaranteed           *)
(* (unprotected) when the sleep starts without the inhibitor, or before    *)
(* the task has read the end of the last one, when either budget is        *)
(* missed, when the compositor did not accept prepare-sleep, or when it    *)
(* runs a session-resume meant for an earlier sleep.                       *)
(***************************************************************************)
\* A sleep starts only with room for both its signals.
Signalled(b) ==
  /\ b => Len(signals) + 2 =< MaxSignals
  /\ signals' = IF pc \in {"off", "lost"} THEN signals ELSE Append(signals, b)

StartsSleeping ==
  /\ power = "awake" /\ power' = "preparing"
  /\ Signalled(TRUE)
  /\ unprotected' = (~cycle.delay \/ cycle.sleeping)

SleepRequested ==
  /\ StartsSleeping
  /\ UNCHANGED <<compositor, active, lidClosed, docked, task, menu, proven, closure, unresolved>>

FallAsleep ==
  /\ power = "preparing" /\ power' = "asleep"
  /\ unprotected' = (unprotected \/ cycle.delay)
  /\ UNCHANGED <<compositor, signals, active, lidClosed, docked, task, menu,
                 proven, closure, unresolved>>

\* Or the sleep is called off.
Wake ==
  /\ power # "awake" /\ power' = "awake"
  /\ Signalled(FALSE)
  /\ proven' = (phase = "open")
  /\ unprotected' = FALSE
  /\ closure' = IF closure = "none" THEN "none" ELSE "before wake"
  /\ UNCHANGED <<compositor, active, lidClosed, docked, task, menu, unresolved>>

SeatMoves ==
  /\ power # "asleep"
  /\ active' = ~active
  /\ UNCHANGED <<compositor, power, signals, lidClosed, docked, task, menu, history>>

DockMoves ==
  /\ docked' = ~docked
  /\ UNCHANGED <<compositor, power, signals, active, lidClosed, task, menu, history>>

LidMoves ==
  /\ lidClosed' = ~lidClosed
  /\ closure' = IF lidClosed THEN closure ELSE "fresh"
  /\ UNCHANGED <<compositor, power, signals, active, docked, task, menu,
                 unprotected, proven, unresolved>>

-----------------------------------------------------------------------------
(***************************************************************************)
(* The task: connecting.                                                   *)
(***************************************************************************)
Running == power # "asleep"

At(label) == Running /\ pc = label
Goto(label) == pc' = label

Error(c) == [c EXCEPT !.phase = "degraded"]

\* Signals are subscribed to before the first snapshot.
Connect ==
  /\ At("off") /\ Goto("arm")
  /\ snap' = Snapshot
  /\ signals' = <<>>
  /\ proven' = (proven \/ ~established)
  /\ UNCHANGED <<compositor, power, active, lidClosed, docked, cycle, seen,
                 established, menu, unprotected, closure, unresolved>>

Arm ==
  /\ At("arm")
  /\ LET rebuild == established /\ ~snap.preparing
         new == [NewCycle EXCEPT !.delay = TRUE]
     IN  \/ /\ rebuild /\ Goto("reshield")
            /\ cycle' = [new EXCEPT !.recovering = TRUE, !.resumeAccepted = FALSE,
                                    !.phase = "recovering"]
            /\ seen' = NoReply
         \/ /\ ~rebuild /\ Goto("top")
            /\ cycle' = [new EXCEPT !.phase = "awake"]
            /\ UNCHANGED seen
  /\ established' = TRUE
  /\ UNCHANGED <<compositor, machine, snap, menu, history>>

ArmFailed ==
  /\ At("arm") /\ Goto("off")
  /\ cycle' = Error(cycle)
  /\ UNCHANGED <<compositor, machine, snap, seen, established, menu, history>>

Reshield ==
  /\ At("reshield") /\ Goto("resume")
  /\ \E accepted \in BOOLEAN :
       /\ Command("lock-shield", accepted)
       /\ cycle' = IF accepted THEN cycle ELSE Error(cycle)
  /\ Proof
  /\ UNCHANGED <<ready, machine, snap, seen, established, menu,
                 unprotected, closure, unresolved>>

Resume ==
  /\ At("resume") /\ Goto("top")
  /\ \E accepted \in BOOLEAN :
       /\ Command("session-resume", accepted)
       /\ cycle' = IF accepted THEN [cycle EXCEPT !.resumeAccepted = TRUE] ELSE Error(cycle)
       /\ unprotected' = (unprotected \/ power = "preparing")
  /\ Proof
  /\ UNCHANGED <<ready, machine, snap, seen, established, menu, closure, unresolved>>

(***************************************************************************)
(* The bus connection is lost, and with it both inhibitors and the pending *)
(* request; then the session is shielded.                                  *)
(***************************************************************************)
Dropped ==
  /\ Goto("lost")
  /\ cycle' = NewCycle
  /\ request' = "none" /\ cancelled' = FALSE
  /\ unprotected' = (unprotected \/ power = "preparing")

BusLost ==
  /\ At("idle") \/ At("poll") \/ At("lidSeat")
  /\ Dropped
  /\ UNCHANGED <<compositor, machine, snap, seen, established, gate,
                 proven, closure, unresolved>>

ShieldAfterLoss ==
  /\ At("lost") /\ Goto("off")
  /\ \E accepted \in BOOLEAN : Command("lock-shield", accepted)
  /\ Proof
  /\ UNCHANGED <<ready, machine, cycle, snap, seen, established, menu,
                 unprotected, closure, unresolved>>
-----------------------------------------------------------------------------
(***************************************************************************)
(* The task: sleep_event.  A signal that says what is known already, by a  *)
(* snapshot for instance, changes nothing.                                 *)
(***************************************************************************)
SleepSignal ==
  /\ At("idle") /\ Goto("top")
  /\ signals # <<>>
  /\ signals' = Tail(signals)
  /\ snap' = [snap EXCEPT !.preparing = Head(signals)]
  /\ UNCHANGED <<compositor, power, active, lidClosed, docked, cycle, seen,
                 established, menu, history>>

SleepStarts ==
  /\ At("top") /\ snap.preparing /\ ~cycle.sleeping
  /\ UNCHANGED pc
  /\ \E accepted \in BOOLEAN :
       /\ Command("prepare-sleep", accepted)
       /\ cycle' = [cycle EXCEPT !.sleeping = TRUE, !.preparing = TRUE,
                                 !.recovering = FALSE, !.lidRequest = FALSE,
                                 !.manual = "none",
                                 !.phase = IF accepted THEN "preparing-sleep" ELSE "degraded"]
       /\ unprotected' = (unprotected \/ (~accepted /\ power = "preparing"))
  /\ \/ cycle.manual = "pending" /\ request' = "none" /\ cancelled' = FALSE
     \/ cycle.manual # "pending" /\ UNCHANGED <<request, cancelled>>
  /\ Proof
  /\ UNCHANGED <<ready, machine, snap, seen, established, gate, closure, unresolved>>

\* take_sleep_delay: if it fails, the connection is given up.
SleepEnds ==
  /\ At("top") /\ ~snap.preparing /\ cycle.sleeping
  /\ \/ /\ Goto("resume")
        /\ cycle' = [cycle EXCEPT !.sleeping = FALSE, !.preparing = FALSE, !.delay = TRUE,
                                  !.recovering = TRUE, !.resumeAccepted = FALSE,
                                  !.lidRequest = FALSE, !.manual = "none",
                                  !.phase = "recovering"]
        /\ seen' = NoReply
        /\ \/ cycle.manual = "pending" /\ request' = "none" /\ cancelled' = FALSE
           \/ cycle.manual # "pending" /\ UNCHANGED <<request, cancelled>>
        /\ UNCHANGED unprotected
     \/ Dropped /\ UNCHANGED seen
  /\ UNCHANGED <<compositor, machine, snap, established, gate, proven, closure, unresolved>>

-----------------------------------------------------------------------------
(***************************************************************************)
(* The task: tick.                                                         *)
(***************************************************************************)

\* LidPolicy.update, with lid control held or not.
ClosingByLevel(controls) ==
  /\ snap.lidClosed /\ cycle.controlling
  /\ snap.active /\ controls /\ ~snap.docked

Closing(controls) ==
  /\ cycle.lastClosed = "open" /\ snap.lidClosed /\ cycle.controlling
  /\ snap.active /\ controls /\ ~snap.docked

Tick ==
  /\ At("top") /\ snap.preparing = cycle.sleeping
  /\ \E controls \in (IF ~snap.active THEN {FALSE}
                      ELSE IF cycle.lid THEN {TRUE} ELSE BOOLEAN) :
       LET starts == /\ Closing(controls)
                     /\ ~cycle.sleeping /\ cycle.manual = "none" /\ ~gate
       IN  /\ cycle' = [cycle EXCEPT
                !.lid = controls,
                !.lidRequest = starts \/ (@ /\ snap.active),
                !.lastClosed = IF snap.lidClosed THEN "closed" ELSE "open",
                !.controlling = snap.active /\ controls,
                !.phase = IF snap.active /\ ~controls THEN "degraded" ELSE @]
           /\ pc' = IF starts THEN "shield" ELSE "status"
  /\ UNCHANGED <<compositor, machine, snap, seen, established, menu, history>>

LidShield ==
  /\ At("shield") /\ Goto("status")
  /\ \E accepted \in BOOLEAN :
       /\ Command("lock-shield", accepted)
       /\ cycle' = IF accepted THEN cycle ELSE Error(cycle)
  /\ Proof
  /\ UNCHANGED <<ready, machine, snap, seen, established, menu,
                 unprotected, closure, unresolved>>

ReadStatus ==
  /\ At("status") /\ Goto("act")
  /\ \/ seen' = Status /\ UNCHANGED <<cycle, lost>>
     \/ lost < MaxLost /\ lost' = lost + 1 /\ seen' = NoReply /\ cycle' = Error(cycle)
  /\ UNCHANGED <<lock, confirmed, ready, late,
                 machine, snap, established, menu, history>>

\* Release the sleep delay once the shield is presented, or give up on it.
AfterPreparingByLock(c, expired) ==
  CASE c.preparing /\ seen.locked = "yes" ->
         [c EXCEPT !.preparing = FALSE, !.delay = FALSE, !.phase = "sleeping"]
    [] c.preparing /\ seen.locked # "yes" /\ expired ->
         [Error(c) EXCEPT !.preparing = FALSE, !.delay = FALSE]
    [] OTHER -> c

AfterPreparing(c, expired) ==
  CASE c.preparing /\ seen.confirmed ->
         [c EXCEPT !.preparing = FALSE, !.delay = FALSE, !.phase = "sleeping"]
    [] c.preparing /\ ~seen.confirmed /\ expired ->
         [Error(c) EXCEPT !.preparing = FALSE, !.delay = FALSE]
    [] OTHER -> c

RecoveredByOldFrame(c) == seen.confirmed \/ (seen.active /\ seen.locked = "no")

Recovered(c) ==
  /\ c.resumeAccepted /\ seen.ready
  /\ seen.confirmed \/ (seen.active /\ seen.locked = "no")

AfterRecovering(c, expired) ==
  CASE c.recovering /\ ~snap.active -> [c EXCEPT !.phase = "recovering"]
    [] c.recovering /\ snap.active /\ Recovered(c) ->
         [c EXCEPT !.recovering = FALSE, !.phase = "awake"]
    [] c.recovering /\ snap.active /\ ~Recovered(c) /\ expired ->
         [Error(c) EXCEPT !.recovering = FALSE]
    [] OTHER -> c

\* An ambiguous or rejected suspend demands an unlock before the next.
AfterUnlock(c) ==
  IF c.manual = "dispatched" /\ seen.active /\ seen.locked = "no"
  THEN [c EXCEPT !.manual = "none"] ELSE c

\* A pending suspend request is given up.
NeverGivesUp(c, expired) == ~snap.active \/ ~c.delay \/ ~seen.ready

GivesUp(c, expired) ==
  \/ cancelled \/ expired
  \/ ~snap.active \/ ~c.delay \/ ~seen.ready

\* The requester gets its answer, which frees the request slot.
Answer == request' = "none" /\ cancelled' = FALSE

Act ==
  /\ At("act")
  /\ \E prepareExpired, recoverExpired, manualExpired \in BOOLEAN :
       LET c == AfterUnlock(AfterRecovering(AfterPreparing(cycle, prepareExpired),
                                            recoverExpired))
       IN  /\ \/ /\ c.manual # "pending"
                 /\ cycle' = c /\ Goto("lid") /\ UNCHANGED <<request, cancelled>>
              \/ /\ c.manual = "pending" /\ GivesUp(c, manualExpired)
                 /\ cycle' = [c EXCEPT !.manual = "none"] /\ Goto("lid") /\ Answer
              \/ /\ c.manual = "pending" /\ ~GivesUp(c, manualExpired)
                 /\ cycle' = c /\ pc' = (IF seen.confirmed THEN "manualSnapshot" ELSE "lid")
                 /\ UNCHANGED <<request, cancelled>>
           /\ unprotected' =
                \/ unprotected
                \/ /\ prepareExpired /\ ~seen.confirmed
                   /\ cycle.preparing /\ power = "preparing"
  /\ UNCHANGED <<compositor, machine, snap, seen, established, gate,
                 proven, closure, unresolved>>

-----------------------------------------------------------------------------
(***************************************************************************)
(* The task: a pending suspend request whose lock is presented.  The seat, *)
(* the compositor and the seat once more are asked, then logind is called. *)
(***************************************************************************)
ManualFails ==
  /\ Goto("lid")
  /\ cycle' = [Error(cycle) EXCEPT !.manual = "none"]
  /\ Answer

ManualSnapshot ==
  /\ At("manualSnapshot")
  /\ \/ /\ active /\ power = "awake"
        /\ Goto("manualStatus")
        /\ UNCHANGED <<cycle, request, cancelled>>
     \/ ManualFails
  /\ UNCHANGED <<compositor, machine, snap, seen, established, gate, history>>

ManualStatus ==
  /\ At("manualStatus")
  /\ \/ /\ confirmed /\ active /\ ready /\ ~cancelled
        /\ Goto("manualSeat")
        /\ UNCHANGED <<cycle, request, cancelled>>
     \/ ManualFails
  /\ UNCHANGED <<compositor, machine, snap, seen, established, gate, history>>

ManualSeat ==
  /\ At("manualSeat")
  /\ \/ /\ active /\ power = "awake" /\ ~cancelled
        /\ Goto("manualSuspend")
        /\ cycle' = [cycle EXCEPT !.manual = "dispatched"]
        /\ UNCHANGED <<request, cancelled>>
     \/ ManualFails
  /\ UNCHANGED <<compositor, machine, snap, seen, established, gate, history>>

\* logind.suspend: a call reported as failed may have started the sleep.
Suspend ==
  /\ \/ StartsSleeping
     \/ UNCHANGED <<power, signals, unprotected>>
  /\ UNCHANGED <<active, lidClosed, docked>>

ManualSuspend ==
  /\ At("manualSuspend") /\ Goto("lid")
  /\ Suspend
  /\ cycle' \in {cycle, Error(cycle)}
  /\ Answer
  /\ UNCHANGED <<compositor, snap, seen, established, gate, proven, closure, unresolved>>

-----------------------------------------------------------------------------
(***************************************************************************)
(* The task: the lid request, and the verdict of this turn.                *)
(***************************************************************************)
SettledInactive(c) ==
  IF /\ ~c.sleeping /\ ~c.preparing /\ ~c.recovering /\ ~c.lidRequest
     /\ c.manual = "none" /\ c.delay /\ c.resumeAccepted /\ seen.ready
     /\ ~snap.active
     /\ seen.locked = "no" \/ seen.confirmed
  THEN [c EXCEPT !.phase = "awake"] ELSE c

Settled(c) ==
  IF /\ ~c.sleeping /\ ~c.preparing /\ ~c.recovering /\ ~c.lidRequest
     /\ c.manual = "none" /\ c.delay /\ c.resumeAccepted /\ seen.ready
     /\ ~snap.active \/ (c.lid /\ seen.active)
     /\ seen.locked = "no" \/ seen.confirmed
  THEN [c EXCEPT !.phase = "awake"] ELSE c

Lid ==
  /\ At("lid")
  /\ \/ ~cycle.lidRequest /\ cycle' = Settled(cycle) /\ Goto("idle")
     \/ /\ cycle.lidRequest
        /\ \/ cycle' = Settled([Error(cycle) EXCEPT !.lidRequest = FALSE]) /\ Goto("idle")
           \/ /\ ~snap.active \/ ~snap.lidClosed \/ snap.docked
              /\ cycle' = Settled([cycle EXCEPT !.lidRequest = FALSE]) /\ Goto("idle")
           \/ /\ snap.active /\ snap.lidClosed /\ ~snap.docked
              /\ \/ /\ seen.confirmed /\ Goto("lidSeat")
                    /\ cycle' = [cycle EXCEPT !.lidRequest = FALSE]
                 \/ ~seen.confirmed /\ cycle' = Settled(cycle) /\ Goto("idle")
  /\ UNCHANGED <<compositor, machine, snap, seen, established, menu, history>>

LidSeat ==
  /\ At("lidSeat")
  /\ pc' = IF active /\ lidClosed /\ ~docked /\ cycle.lid THEN "lidSuspend" ELSE "idle"
  /\ UNCHANGED <<compositor, machine, cycle, snap, seen, established, menu, history>>

LidSuspend ==
  /\ At("lidSuspend") /\ Goto("idle")
  /\ Suspend
  /\ closure' = "none"
  /\ cycle' \in {Settled(cycle), Settled(Error(cycle))}
  /\ UNCHANGED <<compositor, snap, seen, established, menu, proven, unresolved>>

-----------------------------------------------------------------------------
(***************************************************************************)
(* The task: its other wakeups.  A signal that is ready is read before the *)
(* timer is: it only expires while nothing is.                             *)
(***************************************************************************)
Timer ==
  /\ At("idle") /\ signals = <<>>
  /\ Goto("poll")
  /\ UNCHANGED <<compositor, machine, cycle, snap, seen, established, menu, history>>

Poll ==
  /\ At("poll") /\ Goto("top")
  /\ snap' = Snapshot
  /\ UNCHANGED <<compositor, machine, cycle, seen, established, menu, history>>

\* logind's Lock signal for this session.
SessionLockSignal ==
  /\ At("idle") /\ Goto("top")
  /\ \E accepted \in BOOLEAN :
       /\ Command("lock-shield", accepted)
       /\ cycle' = IF accepted THEN cycle ELSE Error(cycle)
  /\ Proof
  /\ UNCHANGED <<ready, machine, snap, seen, established, menu,
                 unprotected, closure, unresolved>>

-----------------------------------------------------------------------------
(***************************************************************************)
(* The power menu: one request at a time, over the private socket.         *)
(***************************************************************************)
Submit(kind) ==
  /\ Running /\ pc \notin {"off", "arm", "lost"}
  /\ request = "none" /\ ~gate
  /\ request' = kind
  /\ UNCHANGED <<compositor, machine, task, cancelled, gate, history>>

\* Its client gives up waiting.
Cancel ==
  /\ Running /\ request # "none"
  /\ cancelled' = TRUE
  /\ UNCHANGED <<compositor, machine, task, request, gate, history>>

\* `unavailable`, with a fresh snapshot of logind.
SuspendAvailable ==
  /\ cycle.manual = "none" /\ ~cycle.sleeping /\ ~cycle.preparing /\ ~cycle.lidRequest
  /\ active /\ power = "awake" /\ ~cycle.recovering
  /\ cycle.delay /\ cycle.resumeAccepted /\ seen.ready /\ cycle.phase = "awake"

RequestSuspend ==
  /\ At("idle") /\ request = "suspend" /\ cycle.manual # "pending" /\ ~gate
  /\ \/ SuspendAvailable /\ Goto("requestStatus") /\ UNCHANGED <<request, cancelled>>
     \/ Goto("top") /\ Answer
  /\ UNCHANGED <<compositor, machine, cycle, snap, seen, established, gate, history>>

RequestStatus ==
  /\ At("requestStatus")
  /\ \/ /\ active /\ ready /\ (phase = "open" \/ confirmed) /\ ~cancelled
        /\ Goto("requestShield") /\ UNCHANGED <<request, cancelled>>
     \/ Goto("top") /\ Answer
  /\ UNCHANGED <<compositor, machine, cycle, snap, seen, established, gate, history>>

RequestShield ==
  /\ At("requestShield") /\ Goto("top")
  /\ \E accepted \in BOOLEAN :
       /\ Command("lock-shield", accepted)
       /\ \/ /\ accepted /\ cycle' = [cycle EXCEPT !.manual = "pending"]
             /\ UNCHANGED <<request, cancelled>>
          \/ ~accepted /\ UNCHANGED cycle /\ Answer
  /\ Proof
  /\ UNCHANGED <<ready, machine, snap, seen, established, gate,
                 unprotected, closure, unresolved>>

\* shutdown_unavailable, with a fresh snapshot of logind.
ShutdownAvailable ==
  /\ ~gate /\ cycle.manual = "none" /\ ~cycle.lidRequest
  /\ ~cycle.sleeping /\ ~cycle.preparing
  /\ active /\ power = "awake" /\ ~cycle.recovering

RequestPower ==
  /\ At("idle")
  /\ request = "shutdown" \/ (request = "suspend" /\ gate)
  /\ \/ ShutdownAvailable /\ Goto("shutdownStatus") /\ UNCHANGED <<request, cancelled>>
     \/ Goto("top") /\ Answer
  /\ UNCHANGED <<compositor, machine, cycle, snap, seen, established, gate, history>>

ShutdownStatus ==
  /\ At("shutdownStatus")
  /\ \/ active /\ ready /\ Goto("shutdown") /\ UNCHANGED <<request, cancelled>>
     \/ Goto("top") /\ Answer
  /\ UNCHANGED <<compositor, machine, cycle, snap, seen, established, gate, history>>

\* The gate is set before the call, and taken back only if logind says no.
ShutdownCallUngated ==
  /\ At("shutdown") /\ ShutdownAvailable /\ ~cancelled
  /\ Goto("top") /\ Answer
  /\ \E rejected, failed \in BOOLEAN :
       /\ rejected => failed
       /\ gate' = ~failed /\ unresolved' = ~rejected
  /\ UNCHANGED <<compositor, machine, cycle, snap, seen, established,
                 unprotected, proven, closure>>

ShutdownCall ==
  /\ At("shutdown") /\ ShutdownAvailable /\ ~cancelled
  /\ Goto("top") /\ Answer
  /\ \E rejected \in BOOLEAN : gate' = ~rejected /\ unresolved' = ~rejected
  /\ UNCHANGED <<compositor, machine, cycle, snap, seen, established,
                 unprotected, proven, closure>>

\* Not available any more, cancelled, or out of time.
ShutdownWithdrawn ==
  /\ At("shutdown")
  /\ Goto("top") /\ Answer
  /\ UNCHANGED <<compositor, machine, cycle, snap, seen, established, gate, history>>
-----------------------------------------------------------------------------
Environment ==
  \/ LockStep \/ DisplayChanges \/ LateCommand
  \/ SleepRequested \/ FallAsleep \/ Wake
  \/ SeatMoves \/ DockMoves \/ LidMoves

Coordinator ==
  \/ Connect \/ Arm \/ ArmFailed \/ Reshield \/ Resume
  \/ BusLost \/ ShieldAfterLoss
  \/ SleepSignal \/ SleepStarts \/ SleepEnds
  \/ Tick \/ LidShield \/ ReadStatus \/ Act
  \/ ManualSnapshot \/ ManualStatus \/ ManualSeat \/ ManualSuspend
  \/ Lid \/ LidSeat \/ LidSuspend
  \/ Timer \/ Poll \/ SessionLockSignal
  \/ RequestSuspend \/ RequestStatus \/ RequestShield
  \/ RequestPower \/ ShutdownStatus \/ ShutdownCall \/ ShutdownWithdrawn

Menu == Cancel \/ \E kind \in Requests \ {"none"} : Submit(kind)

Next == Environment \/ Coordinator \/ Menu

Spec == Init /\ [][Next]_vars

(***************************************************************************)
(* Fairness.  The machine wakes up.  The task runs (tokio), its 250 ms     *)
(* timer and the request channel get their turn (select! picks at random   *)
(* among what is ready), and the deadline of a pending request passes.     *)
(***************************************************************************)
Fairness ==
  /\ WF_vars(Wake)
  /\ WF_vars(Coordinator)
  /\ SF_vars(Timer) /\ SF_vars(RequestSuspend) /\ SF_vars(RequestPower)
  /\ SF_vars(Act /\ request' = "none")

FairSpec == Spec /\ Fairness

-----------------------------------------------------------------------------
(***************************************************************************)
(* Safety.                                                                 *)
(***************************************************************************)

\* A sleep that kept to its budgets starts with the desktop sealed and the
\* latch set, so that nobody who authenticates before or during it reveals the
\* desktop on wake: whoever asked for it, and whatever the session was doing.
ProtectedSleepIsSealed ==
  power = "asleep" /\ ~unprotected => phase # "open" /\ sealed /\ latch

\* When the coordinator reports the session awake and has read every signal,
\* the display has proven itself since the last wake: a lock presented anew on
\* every output, or a session opened by its owner.  A confirmation from before
\* the sleep does not count.
AwakeIsProven ==
  pc = "idle" /\ signals = <<>> /\ cycle.phase = "awake" => proven

\* A Suspend call is never repeated: for the lid it answers a closure that no
\* earlier call has answered, for the menu a request that is still in flight:
\* neither an earlier call, nor a sleep that came first, has answered it.
SuspendsOnce ==
  [][ /\ LidSuspend => closure # "none"
      /\ ManualSuspend => request = "suspend" ]_vars

\* After a shutdown call that logind has not rejected, neither a second one nor
\* a suspend is ever issued, reconnections to the bus included.
ShutdownIsFinal ==
  [][unresolved => ~(ShutdownCall \/ LidSuspend \/ ManualSuspend)]_vars

\* docs/POWER.md: "Startup, VT activation, bus reconnection, and waking with
\* an already closed lid do not trigger another suspend": a Suspend call for the
\* lid, once the task has read that the machine woke, answers a closure since.
WakeNeverResuspends ==
  [][LidSuspend /\ signals = <<>> => closure = "fresh"]_vars
-----------------------------------------------------------------------------
(***************************************************************************)
(* Liveness.                                                               *)
(***************************************************************************)

\* Every request of the power menu is answered, which frees the only request
\* slot: also one overtaken by another sleep, by the loss of the bus, by a lock
\* that is never presented, or by its own client giving up.
RequestAnswered == request # "none" ~> request = "none"

\* coordinator.rs: "Startup and temporary transport failures must not leave a
\* healthy session permanently degraded after all required checks recover."
\* Once connected, with the seat, the lid inhibitor, a working display, no request, no
\* Suspend call that an unlock has yet to answer for, and a session that is open or
\* whose lock is presented, it is reported awake.
Healthy ==
  /\ power = "awake" /\ signals = <<>> /\ pc \notin {"off", "arm", "lost"}
  /\ active /\ cycle.lid /\ ready /\ request = "none" /\ cycle.manual = "none"
  /\ phase = "open" \/ confirmed

RecoversAwake == <>[]Healthy => <>[](cycle.phase = "awake")
==============================================================================

------------------------------ MODULE LockClient ------------------------------
(***************************************************************************)
(* hearthspace-lock: the process that shows the lock screens and asks PAM  *)
(* (session.rs, session/state.rs, session/outputs.rs, auth/worker.rs),     *)
(* together with the compositor it talks to, of which it knows only what   *)
(* LockPromise states.  SessionLock and the backends implement that        *)
(* promise.                                                                *)
(*                                                                         *)
(* The process has one GTK main loop: each callback below is one step.     *)
(* Each PAM transaction runs in a thread of its own and its answer is      *)
(* polled every 40 ms.  Requests and events cross the Wayland socket in    *)
(* order.  The lock library (gtk4-session-lock), GTK, PAM and the user are *)
(* external.                                                               *)
(***************************************************************************)
EXTENDS Integers, Sequences

CONSTANTS Monitors,     \* monitors that may be plugged in
          Locker,       \* this process, a client of the compositor
          Other,        \* another locker, which may come first
          Nobody,
          MaxAttempts,  \* bound: passwords submitted
          MaxChanges    \* bound: the compositor's own steps, and monitor changes

ASSUME ClientAssumption ==
  Locker # Other /\ Locker # Nobody /\ Other # Nobody
ASSUME BoundAssumption == MaxAttempts \in Nat /\ MaxChanges \in Nat

VARIABLES
  phase, generation, attempt, authenticated,  \* State; no attempt: 0
  receiver,      \* Session.attempt: the attempt whose channel is polled, or 0
  worker,        \* what became of the thread of each attempt
  lock,          \* the library's Instance
  monitors,      \* the valid monitors
  screens,       \* Session.outputs
  busyScreens,   \* screens whose entry is insensitive
  typed,         \* screens whose entry holds text
  process,       \* "starting", "running", "quitting" (quit() was called), its end
  requests, events,                           \* the socket, both ways
  deskPhase, deskHolder, deskAcknowledged, deskSealed, deskLatch,
  changes        \* steps taken of the MaxChanges allowed

Compositor == INSTANCE LockPromise WITH
  Clients <- {Locker, Other}, None <- Nobody, phase <- deskPhase,
  holder <- deskHolder, acknowledged <- deskAcknowledged,
  sealed <- deskSealed, latch <- deskLatch

stateVars == <<phase, generation, attempt, authenticated>>
threadVars == <<receiver, worker>>
screenVars == <<monitors, screens, busyScreens, typed>>
deskVars == <<deskPhase, deskHolder, deskAcknowledged, deskSealed, deskLatch>>
vars == <<stateVars, threadVars, lock, screenVars, process, requests, events,
          deskVars, changes>>

Attempts == 1..MaxAttempts

\* The types of what the process keeps.
SessionTypes ==
  /\ phase \in {"Acquiring", "Locked", "UnlockRequested", "Completed", "Failed"}
  /\ generation \in 0..MaxAttempts
  /\ attempt \in 0..MaxAttempts
  /\ receiver \in 0..MaxAttempts
  /\ worker \in [Attempts -> {"none", "working", "accepted", "failed", "panicked"}]
  /\ lock \in {"idle", "pending", "locked", "released", "over"}
  /\ process \in {"starting", "running", "quitting", "success", "failure", "crashed"}

\* The types of what it shows, and of the bound.
ScreenTypes ==
  /\ monitors \subseteq Monitors
  /\ screens \subseteq monitors
  /\ busyScreens \subseteq screens
  /\ typed \subseteq screens
  /\ changes \in 0..MaxChanges

TypeOK ==
  /\ SessionTypes /\ ScreenTypes
  /\ authenticated \in BOOLEAN
  /\ requests \in Seq({"lock", "unlock"})
  /\ events \in Seq({"locked", "finished"})
  /\ Compositor!TypeOK

Init ==
  /\ phase = "Acquiring" /\ generation = 0 /\ attempt = 0 /\ authenticated = FALSE
  /\ receiver = 0 /\ worker = [g \in Attempts |-> "none"]
  /\ lock = "idle"
  /\ monitors \in SUBSET Monitors
  /\ screens = {} /\ busyScreens = {} /\ typed = {}
  /\ process = "starting"
  /\ requests = <<>> /\ events = <<>>
  /\ Compositor!Init
  /\ changes = 0

\* Callbacks still run while the loop finishes the iteration quit() ends.
Live == process \in {"running", "quitting"}

AcceptsOutputs == phase \in {"Acquiring", "Locked"}
BusyUntilAnswered == attempt # 0 \/ ~AcceptsOutputs
Busy == attempt # 0 \/ authenticated \/ ~AcceptsOutputs

(***************************************************************************)
(* What the handlers do to the screens and to the state.                   *)
(***************************************************************************)

\* set_busy on every screen, with the state as the handler leaves it.
UpdateScreens == busyScreens' = IF Busy' THEN screens ELSE {}

\* fail: no unlock is attempted; the compositor keeps its shield.
Fail ==
  /\ phase' = "Failed" /\ attempt' = 0 /\ authenticated' = FALSE
  /\ UNCHANGED generation
  /\ typed' = {}
  /\ UpdateScreens
  /\ process' = "quitting"
  /\ UNCHANGED requests

(***************************************************************************)
(* State::ended, called from within Instance::unlock or by the compositor: *)
(* p is the phase it finds.                                                *)
(***************************************************************************)
Ended(p) ==
  /\ phase' = IF p = "UnlockRequested" THEN "Completed" ELSE "Failed"
  /\ attempt' = 0 /\ authenticated' = FALSE
  /\ typed' = {}
  /\ process' = "quitting"
  /\ UNCHANGED <<generation, busyScreens>>

(***************************************************************************)
(* unlock_if_ready and what session.rs does with its effect: p, a and ok   *)
(* are the phase, the attempt and the authentication the caller has set, l *)
(* is the library's state.  The phase is set before Instance::unlock,      *)
(* whose `unlocked` signal comes before it returns.                        *)
(***************************************************************************)
SettlePhase(p, a, ok, l, ready, requested) ==
  CASE p = "Locked" /\ ready /\ l = "locked" ->
         lock' = "released" /\ requests' = Append(requests, "unlock") /\ Ended(requested)
    [] p = "Locked" /\ ready /\ l # "locked" ->
         Fail /\ lock' = l
    [] ~(p = "Locked" /\ ready) ->
         /\ phase' = p /\ attempt' = a /\ authenticated' = ok
         /\ lock' = l
         /\ UNCHANGED <<generation, typed, requests, process>>
         /\ UpdateScreens

UnlockIfReadySetsPhaseLate(p, a, ok, l) == SettlePhase(p, a, ok, l, ok, p)
UnlockIfReadyOnLocked(p, a, ok, l) ==
  SettlePhase(p, a, ok, l, ok /\ phase # p, "UnlockRequested")
UnlockIfReady(p, a, ok, l) == SettlePhase(p, a, ok, l, ok, "UnlockRequested")


(***************************************************************************)
(* The lock: activation and the library's signals.                         *)
(***************************************************************************)

\* connect_activate: the library may refuse at once.
Activate ==
  /\ process = "starting"
  /\ \/ /\ process' = "running"
        /\ lock' = "pending"
        /\ requests' = Append(requests, "lock")
        /\ UNCHANGED <<stateVars, busyScreens, typed>>
     \/ Fail /\ UNCHANGED lock
  /\ UNCHANGED <<threadVars, monitors, screens, events, deskVars, changes>>

Receive(event) ==
  /\ Live
  /\ events # <<>> /\ Head(events) = event /\ events' = Tail(events)
  /\ UNCHANGED <<threadVars, monitors, screens, deskVars, changes>>

\* connect_locked
ReceiveLocked ==
  /\ Receive("locked")
  /\ UnlockIfReady(IF phase = "Acquiring" THEN "Locked" ELSE phase,
                   attempt, authenticated, "locked")

\* connect_failed
ReceiveFinished ==
  /\ Receive("finished")
  /\ lock' = "over"
  /\ Fail

(***************************************************************************)
(* Authentication.                                                         *)
(***************************************************************************)

\* begin_authentication, then Attempt::start: without a thread it fails at once.
Begin ==
  IF Busy \/ generation = MaxAttempts
  THEN UNCHANGED <<stateVars, threadVars, busyScreens>>
  ELSE /\ generation' = generation + 1
       /\ \/ /\ attempt' = generation' /\ receiver' = generation'
             /\ worker' = [worker EXCEPT ![generation'] = "working"]
          \/ UNCHANGED <<attempt, threadVars>>
       /\ UNCHANGED <<phase, authenticated>>
       /\ UpdateScreens

\* The entry of screen o is activated: take empties it, submit all the others.
SubmitKeepingOthers(o) ==
  /\ Live /\ o \in typed
  /\ typed' = typed \ {o}
  /\ Begin
  /\ UNCHANGED <<lock, monitors, screens, process, requests, events, deskVars, changes>>

Submit(o) ==
  /\ Live /\ o \in typed
  /\ typed' = {}
  /\ IF o \in busyScreens THEN UNCHANGED <<stateVars, threadVars, busyScreens>> ELSE Begin
  /\ UNCHANGED <<lock, monitors, screens, process, requests, events, deskVars, changes>>

\* The thread: every check of authenticate() passed, or one failed, or it died.
Authenticate(g) ==
  /\ worker[g] = "working"
  /\ \E answer \in {"accepted", "failed", "panicked"} :
       worker' = [worker EXCEPT ![g] = answer]
  /\ UNCHANGED <<stateVars, receiver, lock, screenVars, process, requests, events,
                 deskVars, changes>>

\* Attempt::poll: a channel that was lost is a failure.
LostMeansAccepted(g) == worker[g] \in {"accepted", "panicked"}
Accepted(g) == worker[g] = "accepted"

\* poll_authentication and complete
Poll ==
  /\ Live /\ receiver # 0 /\ worker[receiver] # "working"
  /\ receiver' = 0
  /\ CASE ~AcceptsOutputs \/ attempt # receiver ->
            /\ UNCHANGED <<stateVars, lock, typed, requests, process>>
            /\ UpdateScreens
       [] AcceptsOutputs /\ attempt = receiver /\ Accepted(receiver) ->
            UnlockIfReady(phase, 0, TRUE, lock)
       [] AcceptsOutputs /\ attempt = receiver /\ ~Accepted(receiver) ->
            /\ attempt' = 0
            /\ typed' = {}
            /\ UNCHANGED <<phase, generation, authenticated, lock, requests, process>>
            /\ UpdateScreens
  /\ UNCHANGED <<worker, monitors, screens, events, deskVars, changes>>

(***************************************************************************)
(* Screens and the user.                                                   *)
(***************************************************************************)

Changed == changes < MaxChanges /\ changes' = changes + 1

MonitorAdded(o) ==
  /\ o \notin monitors /\ Changed
  /\ monitors' = monitors \cup {o}
  /\ UNCHANGED <<stateVars, threadVars, lock, screens, busyScreens, typed, process,
                 requests, events, deskVars>>

\* connect_monitor, which the library signals while it has or awaits the lock.
\* GTK may have realized the window too early.
AddOutput(o) ==
  /\ Live /\ lock \in {"pending", "locked"}
  /\ o \in monitors \ screens /\ AcceptsOutputs
  /\ \/ /\ screens' = screens \cup {o}
        /\ busyScreens' = IF Busy THEN busyScreens \cup {o} ELSE busyScreens
        /\ typed' = {}
        /\ UNCHANGED <<stateVars, process, requests>>
     \/ Fail /\ UNCHANGED screens
  /\ UNCHANGED <<threadVars, lock, monitors, events, deskVars, changes>>

\* connect_invalidate: the screen goes, and nothing of the lock with it.
MonitorRemoved(o) ==
  /\ o \in monitors /\ Changed
  /\ monitors' = monitors \ {o} /\ screens' = screens \ {o}
  /\ busyScreens' = busyScreens \ {o}
  /\ typed' = IF o \in screens THEN {} ELSE typed
  /\ UNCHANGED <<stateVars, threadVars, lock, process, requests, events, deskVars>>

\* connect_destroy, while the monitor is still there.
WindowDestroyed(o) ==
  /\ Live /\ o \in screens /\ AcceptsOutputs
  /\ Fail
  /\ UNCHANGED <<threadVars, lock, monitors, screens, events, deskVars, changes>>

\* A key in the entry of a screen whose entry is sensitive.
Type(o) ==
  /\ Live /\ o \in screens \ (busyScreens \cup typed)
  /\ typed' = typed \cup {o}
  /\ UNCHANGED <<stateVars, threadVars, lock, monitors, screens, busyScreens, process,
                 requests, events, deskVars, changes>>

\* connect_close_request, connect_is_active_notify
SecretsCleared ==
  /\ Live /\ typed # {} /\ typed' = {}
  /\ UNCHANGED <<stateVars, threadVars, lock, monitors, screens, busyScreens, process,
                 requests, events, deskVars, changes>>

(***************************************************************************)
(* The end of the process.                                                 *)
(***************************************************************************)
Exit ==
  /\ process = "quitting"
  /\ process' = IF phase = "Completed" THEN "success" ELSE "failure"
  /\ typed' = {}
  /\ UNCHANGED <<stateVars, threadVars, lock, monitors, screens, busyScreens,
                 requests, events, deskVars, changes>>

\* Killed, or its connection to the compositor lost: GDK then ends the process.
Crash ==
  /\ process \in {"starting", "running", "quitting"}
  /\ process' = "crashed" /\ Changed
  /\ UNCHANGED <<stateVars, threadVars, lock, screenVars, requests, events, deskVars>>

Client ==
  \/ Activate \/ ReceiveLocked \/ ReceiveFinished
  \/ \E g \in Attempts : Authenticate(g)
  \/ Poll \/ SecretsCleared \/ Exit \/ Crash
  \/ \E o \in Monitors :
       \/ MonitorAdded(o) \/ MonitorRemoved(o) \/ AddOutput(o) \/ WindowDestroyed(o)
       \/ Type(o) \/ Submit(o)

(***************************************************************************)
(* The compositor, as LockPromise describes it, and its end of the socket. *)
(***************************************************************************)
clientVars == <<stateVars, threadVars, lock, screenVars, process>>

NextRequest(request) ==
  requests # <<>> /\ Head(requests) = request /\ requests' = Tail(requests)

TakeLock ==
  /\ NextRequest("lock")
  /\ \/ /\ Compositor!Claim(Locker)
        /\ events' = IF deskAcknowledged' THEN Append(events, "locked") ELSE events
     \/ /\ deskPhase = "held" /\ UNCHANGED deskVars
        /\ events' = Append(events, "finished")
  /\ UNCHANGED <<clientVars, changes>>

TakeUnlock ==
  /\ NextRequest("unlock")
  /\ deskHolder = Locker /\ Compositor!Release
  /\ UNCHANGED <<clientVars, events, changes>>

Acknowledge ==
  /\ Compositor!Acknowledge
  /\ events' = IF deskHolder = Locker THEN Append(events, "locked") ELSE events
  /\ UNCHANGED <<clientVars, requests, changes>>

\* What the compositor does of itself, and for another locker.
CompositorAlone ==
  /\ \/ Compositor!Shield \/ Compositor!Seal
     \/ Compositor!PrepareSleep \/ Compositor!Resume
     \/ Compositor!Claim(Other)
     \/ deskHolder = Other /\ Compositor!Release
  /\ Changed
  /\ UNCHANGED <<clientVars, requests, events>>

Next == Client \/ TakeLock \/ TakeUnlock \/ Acknowledge \/ CompositorAlone

Spec == Init /\ [][Next]_vars

(***************************************************************************)
(* Fairness: the main loop keeps polling the answer and its socket, and    *)
(* the compositor serves requests.  PAM may never answer, the user may     *)
(* never type, and nothing makes screens present the shield.               *)
(***************************************************************************)
Fairness ==
  WF_vars(Poll) /\ WF_vars(ReceiveLocked) /\ WF_vars(Exit) /\ WF_vars(TakeUnlock)

FairSpec == Spec /\ Fairness
-----------------------------------------------------------------------------
\* The session leaves this locker only if PAM accepted the password of the attempt
\* that was begun last: no failure, crash, vanished monitor or lost thread opens it,
\* and no answer to an attempt that another one has followed.
OpensOnlyForAccepted ==
  [][deskHolder = Locker /\ deskHolder' # Locker
       => generation \in Attempts /\ worker[generation] = "accepted"]_vars

\* The exit status says whether the session was opened: success only after the
\* unlock was requested, failure only if it was not, whatever else the last
\* iteration of the loop still runs.
HonestExit ==
  /\ process = "success" => lock = "released"
  /\ process = "failure" => lock # "released"

\* PAM is asked one question at a time, though nothing joins the threads.
OneConversation ==
  \A g, h \in Attempts : worker[g] = "working" /\ worker[h] = "working" => g = h

\* A password stays in an entry only while its lock can still use it: none is
\* left on another screen while one is checked, or once the lock has ended.
NoForgottenSecret ==
  typed # {} => attempt = 0 /\ ~authenticated /\ phase \in {"Acquiring", "Locked"}

\* What the state says of the lock, the attempt, its thread and the entries agrees.
Consistent == TypeOK /\ OneConversation /\ NoForgottenSecret

\* Once the session is locked for this process and PAM has accepted a password,
\* in either order, the session leaves it, unless the process fails or dies.
AcceptedOpens ==
  (deskHolder = Locker /\ deskAcknowledged /\ \E g \in Attempts : worker[g] = "accepted")
    ~> (deskHolder # Locker \/ process \in {"failure", "crashed"})
==============================================================================

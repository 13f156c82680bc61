------------------------------ MODULE AppScopes ------------------------------
(***************************************************************************)
(* How a native session owns the systemd scopes of its applications        *)
(* (hearthspace-session/src/app_scopes.rs, app_scopes/, login_session.rs,  *)
(* scripts/runtime/hearthspace-login-guard, and launch/snap_scope.rs of    *)
(* the compositor).                                                        *)
(*                                                                         *)
(* An owner service runs a guard that watches the supervisor.  Launchers   *)
(* record a scope and then ask the user's manager for one that is bound to *)
(* the owner.  Before the runtime directory is removed, by the supervisor  *)
(* or after its death by the login guard, a barrier stops the owner and    *)
(* waits for every scope.  The manager, which is external, may take any    *)
(* request late; it starts an owner that it still knows for a scope bound  *)
(* to it, and forgets a service that has stopped.                          *)
(***************************************************************************)
EXTENDS Integers, FiniteSets

CONSTANTS Shells,     \* scopes a Ptyxis terminal asks for, through the adapter
          Snaps,      \* scopes the compositor asks for
          Login,      \* the session has a login guard
          MaxFaults   \* bound: processes killed, calls that fail

Scopes == Shells \cup Snaps
Owner == "owner"
Units == Scopes \cup {Owner}
Cleaners == {"supervisor", "login guard"}

VARIABLES
  supervisor,   \* what it does; "failed" is an end that keeps the runtime
  desktop,      \* the compositor runs
  runtime,      \* the runtime directory exists
  intent, ready, closing, records,  \* the files in it
  owner,        \* the owner service, as the manager sees it
  guard,        \* its process
  scope,        \* the scopes, as the manager sees them
  brief,        \* those of them started by a service whose guard has not looked yet
  launch,       \* how far each launcher is
  requests,     \* the units the manager has been asked to start
  barrier,      \* how far each cleaner is, with the units it is to wait for
  faults

files == <<runtime, intent, ready, closing, records>>
units == <<owner, guard, scope, brief, requests>>
vars == <<supervisor, desktop, files, units, launch, barrier, faults>>

TypeOK ==
  /\ supervisor \in {"new", "asked", "live", "stopping", "ended", "failed", "dead"}
  /\ desktop \in BOOLEAN
  /\ runtime \in BOOLEAN /\ intent \in BOOLEAN /\ ready \in BOOLEAN /\ closing \in BOOLEAN
  /\ records \in SUBSET Scopes
  /\ owner \in {"unknown", "active", "stopping", "inactive"}
  /\ guard \in {"none", "begun", "watching", "leaving"}
  /\ scope \in [Scopes -> {"none", "running", "stopping"}]
  /\ brief \in SUBSET Scopes
  /\ launch \in [Scopes -> {"idle", "checked", "recorded", "over"}]
  /\ requests \in SUBSET Units
  /\ barrier \in [Cleaners ->
       [pc : {"off", "mark", "read", "show", "stop", "stopping", "wait", "done", "failed"},
        seen : SUBSET Units, left : SUBSET Units]]
  /\ faults \in 0..MaxFaults

Init ==
  /\ supervisor = "new" /\ desktop = FALSE
  /\ runtime = TRUE /\ intent = FALSE /\ ready = FALSE /\ closing = FALSE /\ records = {}
  /\ owner = "unknown" /\ guard = "none"
  /\ scope = [x \in Scopes |-> "none"] /\ brief = {}
  /\ launch = [x \in Scopes |-> "idle"]
  /\ requests = {}
  /\ barrier = [c \in Cleaners |-> [pc |-> "off", seen |-> {}, left |-> {}]]
  /\ faults = 0

At(c, pc) == barrier[c].pc = pc
Go(c, pc) == barrier' = [barrier EXCEPT ![c].pc = pc]
SupervisorGone == supervisor \in {"ended", "failed", "dead"}

(***************************************************************************)
(* The supervisor.                                                         *)
(***************************************************************************)
\* The intent is on disk before the manager is asked for the owner.
Start ==
  /\ supervisor = "new" /\ supervisor' = "asked"
  /\ intent' = TRUE /\ requests' = requests \cup {Owner}
  /\ UNCHANGED <<desktop, runtime, ready, closing, records, owner, guard, scope, brief,
                 launch, barrier, faults>>

\* The compositor is started when the guard has said it is ready and its service runs.
Owned ==
  /\ supervisor = "asked" /\ ready /\ owner = "active"
  /\ supervisor' = "live" /\ desktop' = TRUE
  /\ UNCHANGED <<files, units, launch, barrier, faults>>

\* A start that failed or timed out, and any end of a session: the compositor is ended
\* first, and then the scopes.
Shutdown ==
  /\ supervisor \in {"asked", "live"}
  /\ supervisor' = "stopping" /\ desktop' = FALSE
  /\ Go("supervisor", "mark")
  /\ UNCHANGED <<files, units, launch, faults>>

\* The supervisor removes the directory after a barrier that held; otherwise everything
\* stays for a later attempt.
Finish ==
  /\ supervisor = "stopping"
  /\ \/ At("supervisor", "done") /\ supervisor' = "ended" /\ runtime' = FALSE
        /\ ready' = FALSE /\ closing' = FALSE /\ intent' = FALSE /\ records' = {}
     \/ At("supervisor", "failed") /\ supervisor' = "failed" /\ UNCHANGED files
  /\ UNCHANGED <<desktop, units, launch, barrier, faults>>

(***************************************************************************)
(* The guard.                                                              *)
(***************************************************************************)
AliveUntilGone == runtime /\ ~SupervisorGone
Alive == runtime /\ ~closing /\ ~SupervisorGone

\* The service ends with its process; what is bound to it is stopped.
ServiceEnds ==
  /\ guard' = "none"
  /\ owner' = "inactive"
  /\ scope' = [x \in Scopes |-> IF scope[x] = "running" THEN "stopping" ELSE scope[x]]

GuardLooks ==
  /\ guard = "begun"
  /\ IF Alive THEN /\ guard' = "watching" /\ ready' = TRUE /\ UNCHANGED <<owner, scope>>
              ELSE ServiceEnds /\ UNCHANGED ready
  /\ UNCHANGED <<supervisor, desktop, runtime, intent, closing, records, brief, requests,
                 launch, barrier, faults>>

GuardPolls ==
  /\ guard = "watching" /\ ~Alive /\ guard' = "leaving"
  /\ UNCHANGED <<supervisor, desktop, files, owner, scope, brief, requests, launch,
                 barrier, faults>>

\* It retires the activation environment, takes its file away, and exits.
GuardLeaves ==
  /\ guard = "leaving" /\ ServiceEnds /\ ready' = FALSE
  /\ UNCHANGED <<supervisor, desktop, runtime, intent, closing, records, brief, requests,
                 launch, barrier, faults>>

(***************************************************************************)
(* Launchers.                                                              *)
(***************************************************************************)
Active == runtime /\ ~closing /\ ready /\ intent

Leaves(x) == launch' = [launch EXCEPT ![x] = "over"]

\* Ptyxis's adapter looks, records, looks again, and asks.
Check(x) ==
  /\ x \in Shells /\ launch[x] = "idle"
  /\ launch' = [launch EXCEPT ![x] = IF Active THEN "checked" ELSE "over"]
  /\ UNCHANGED <<supervisor, desktop, files, units, barrier, faults>>

Record(x) ==
  /\ x \in Shells /\ launch[x] = "checked"
  /\ IF runtime THEN /\ records' = records \cup {x}
                     /\ launch' = [launch EXCEPT ![x] = "recorded"]
                ELSE Leaves(x) /\ UNCHANGED records
  /\ UNCHANGED <<supervisor, desktop, runtime, intent, ready, closing, units, barrier, faults>>

Ask(x) ==
  /\ x \in Shells /\ launch[x] = "recorded" /\ Leaves(x)
  /\ requests' = IF Active THEN requests \cup {x} ELSE requests
  /\ UNCHANGED <<supervisor, desktop, files, owner, guard, scope, brief, barrier, faults>>

\* The compositor records, too, and does not look: the supervisor ends it first.
RecordSnap(x) ==
  /\ x \in Snaps /\ launch[x] = "idle" /\ desktop
  /\ records' = records \cup {x}
  /\ launch' = [launch EXCEPT ![x] = "recorded"]
  /\ UNCHANGED <<supervisor, desktop, runtime, intent, ready, closing, units, barrier, faults>>

AskSnap(x) ==
  /\ x \in Snaps /\ launch[x] = "recorded" /\ Leaves(x)
  /\ requests' = IF desktop THEN requests \cup {x} ELSE requests
  /\ UNCHANGED <<supervisor, desktop, files, owner, guard, scope, brief, barrier, faults>>

(***************************************************************************)
(* The manager.                                                            *)
(***************************************************************************)
StartOwner ==
  /\ Owner \in requests /\ requests' = requests \ {Owner}
  /\ IF owner \in {"unknown", "inactive"} THEN owner' = "active" /\ guard' = "begun"
                                          ELSE UNCHANGED <<owner, guard>>
  /\ UNCHANGED <<supervisor, desktop, files, scope, brief, launch, barrier, faults>>

\* BindsTo= brings up a service the manager still knows; one it does not know, or that
\* is being stopped, fails the request.
StartScope(x) ==
  /\ x \in requests /\ requests' = requests \ {x}
  /\ IF owner \in {"active", "inactive"}
     THEN /\ owner' = "active"
          /\ guard' = IF owner = "inactive" THEN "begun" ELSE guard
          /\ scope' = [scope EXCEPT ![x] = "running"]
          /\ brief' = IF guard' = "begun" THEN brief \cup {x} ELSE brief
     ELSE UNCHANGED <<owner, guard, scope, brief>>
  /\ UNCHANGED <<supervisor, desktop, files, launch, barrier, faults>>

ScopeEnds(x) ==
  /\ scope[x] # "none" /\ scope' = [scope EXCEPT ![x] = "none"]
  /\ brief' = brief \ {x}
  /\ UNCHANGED <<supervisor, desktop, files, owner, guard, requests, launch, barrier, faults>>

\* After= orders the stop: first what is bound, then the service.
OwnerStopped ==
  /\ owner = "stopping" /\ \A x \in Scopes : scope[x] = "none"
  /\ owner' = "inactive" /\ guard' = "none"
  /\ UNCHANGED <<supervisor, desktop, files, scope, brief, requests, launch, barrier, faults>>

Collect ==
  /\ owner = "inactive" /\ owner' = "unknown"
  /\ UNCHANGED <<supervisor, desktop, files, guard, scope, brief, requests, launch, barrier,
                 faults>>

(***************************************************************************)
(* The barrier: app_scopes::cleanup::shutdown.                             *)
(***************************************************************************)
\* Without an intent there is nothing to stop.  The marker bars later launches.
Mark(c) ==
  /\ At(c, "mark")
  /\ closing' = intent
  /\ Go(c, IF intent THEN "read" ELSE "done")
  /\ UNCHANGED <<supervisor, desktop, runtime, intent, ready, records, units, launch, faults>>

Read(c) ==
  /\ At(c, "read")
  /\ barrier' = [barrier EXCEPT
                  ![c] = [pc |-> "show", seen |-> {Owner} \cup records, left |-> {}]]
  /\ UNCHANGED <<supervisor, desktop, files, units, launch, faults>>

\* What the manager says is bound is waited for as well.  A service it has forgotten
\* needs no stop.
Show(c) ==
  /\ At(c, "show")
  /\ LET bound == {x \in Scopes : scope[x] # "none"}
         seen == barrier[c].seen \cup (IF owner = "unknown" THEN {} ELSE bound)
     IN barrier' = [barrier EXCEPT
          ![c] = [pc |-> IF owner = "unknown" THEN "wait" ELSE "stop",
                  seen |-> seen, left |-> seen]]
  /\ UNCHANGED <<supervisor, desktop, files, units, launch, faults>>

\* systemctl stop: the manager refuses a unit it does not know.
Stop(c) ==
  /\ At(c, "stop")
  /\ Go(c, IF owner = "unknown" THEN "failed" ELSE "stopping")
  /\ IF owner = "active"
     THEN /\ owner' = "stopping"
          /\ scope' = [x \in Scopes |-> IF scope[x] = "running" THEN "stopping" ELSE scope[x]]
     ELSE UNCHANGED <<owner, scope>>
  /\ UNCHANGED <<supervisor, desktop, files, guard, brief, requests, launch, faults>>

StopReturns(c) ==
  /\ At(c, "stopping") /\ owner # "stopping" /\ Go(c, "wait")
  /\ UNCHANGED <<supervisor, desktop, files, units, launch, faults>>

Stopped(u) == IF u = Owner THEN owner \in {"unknown", "inactive"} ELSE scope[u] = "none"

\* One unit after the other is looked at; one that still runs begins another round.
Wait(c) ==
  /\ At(c, "wait")
  /\ \/ barrier[c].left = {} /\ Go(c, "done")
     \/ \E u \in barrier[c].left :
          barrier' = [barrier EXCEPT
                       ![c].left = IF Stopped(u) THEN @ \ {u} ELSE barrier[c].seen]
  /\ UNCHANGED <<supervisor, desktop, files, units, launch, faults>>

BarrierStep(c) ==
  Mark(c) \/ Read(c) \/ Show(c) \/ Stop(c) \/ StopReturns(c) \/ Wait(c)

(***************************************************************************)
(* The login guard: once the supervisor has gone, it ends the login with   *)
(* everything in it, and cleans what is left.                              *)
(***************************************************************************)
LoginEnds ==
  /\ Login /\ SupervisorGone /\ At("login guard", "off")
  /\ desktop' = FALSE
  /\ Go("login guard", IF runtime THEN "mark" ELSE "done")
  /\ UNCHANGED <<supervisor, files, units, launch, faults>>

LoginCleans ==
  /\ At("login guard", "done") /\ runtime /\ runtime' = FALSE
  /\ ready' = FALSE /\ closing' = FALSE /\ intent' = FALSE /\ records' = {}
  /\ UNCHANGED <<supervisor, desktop, units, launch, barrier, faults>>

(***************************************************************************)
(* Failures.                                                               *)
(***************************************************************************)
Fault == faults < MaxFaults /\ faults' = faults + 1

SupervisorDies ==
  /\ Fault /\ supervisor \in {"asked", "live", "stopping"} /\ supervisor' = "dead"
  /\ Go("supervisor", "off")
  /\ UNCHANGED <<desktop, files, units, launch>>

GuardDies ==
  /\ Fault /\ guard # "none" /\ owner = "active" /\ ServiceEnds
  /\ UNCHANGED <<supervisor, desktop, files, brief, requests, launch, barrier>>

\* A call of the barrier fails or its deadline of four seconds passes.
BarrierFails(c) ==
  /\ Fault /\ barrier[c].pc \in {"mark", "read", "show", "stop", "stopping", "wait"}
  /\ Go(c, "failed")
  /\ UNCHANGED <<supervisor, desktop, files, units, launch>>

Supervise == Start \/ Owned \/ Shutdown \/ Finish \/ BarrierStep("supervisor")
Clean == LoginEnds \/ LoginCleans \/ BarrierStep("login guard")
Guard == GuardLooks \/ GuardPolls \/ GuardLeaves
Launch(x) == Check(x) \/ Record(x) \/ Ask(x) \/ RecordSnap(x) \/ AskSnap(x)

Next ==
  \/ Supervise \/ Clean \/ Guard
  \/ \E x \in Scopes : Launch(x) \/ StartScope(x) \/ ScopeEnds(x)
  \/ StartOwner \/ OwnerStopped \/ Collect
  \/ SupervisorDies \/ GuardDies \/ \E c \in Cleaners : BarrierFails(c)

Spec == Init /\ [][Next]_vars

\* The guard polls, a launcher that has begun goes on, and the manager takes every
\* request and stops what it is to stop (TimeoutStopSec=1, and then a kill).
Fairness ==
  /\ WF_vars(Guard)
  /\ WF_vars(BarrierStep("supervisor")) /\ WF_vars(Finish)
  /\ WF_vars(Clean)
  /\ WF_vars(StartOwner) /\ WF_vars(OwnerStopped)
  /\ \A x \in Scopes :
       /\ WF_vars(StartScope(x))
       /\ WF_vars(Record(x) \/ Ask(x) \/ AskSnap(x))
       /\ WF_vars(scope[x] = "stopping" /\ ScopeEnds(x))

FairSpec == Spec /\ Fairness
-----------------------------------------------------------------------------
\* After a barrier that held, and so while the runtime directory is removed, no guard
\* keeps scopes going, and no scope runs but one whose service was started anew for it
\* and has still to see that it must not run.
BarrierHolds ==
  \A c \in Cleaners : At(c, "done") /\ barrier[c].seen # {} =>
    guard # "watching" /\ \A x \in Scopes : scope[x] # "none" => x \in brief

\* Once the supervisor has gone or has closed the session, every scope ends for good.
ScopesEnd == <>[](SupervisorGone \/ closing => \A x \in Scopes : scope[x] = "none")
==============================================================================

----------------------------- MODULE Supervisor ------------------------------
(***************************************************************************)
(* The processes of a session and the supervisor that starts, restarts and *)
(* ends them (hearthspace-session/src/main.rs, supervisor.rs, supervisor/, *)
(* process.rs and the entries of desktop_services.rs).                     *)
(*                                                                         *)
(* The supervisor is one thread.  While it waits for a child to be ready   *)
(* it looks at a few children only, so every poll is a step of its own.    *)
(* A child leads a process group; what it has forked may outlive it.  The  *)
(* entry "service" stands for each of the desktop services.                *)
(***************************************************************************)
EXTENDS Integers, Sequences, FiniteSetsExt

CONSTANTS Parts,       \* which of the optional parts this session has
          MaxRestarts, \* 3, or 0 with --no-shell-restart and --no-settingsd-restart
          ServiceRestarts,  \* 2
          MaxExits,    \* bound: children that exit by themselves
          MaxForks,    \* bound: descendants
          MaxFaults    \* bound: steps of the supervisor that fail

Needed == {"settingsd", "compositor", "shell"}
Services == {"notifications", "service"}
Optional == {"bus", "scopes", "activation", "watcher", "wayvnc"} \cup Services
Children == Needed \cup Services \cup {"bus", "watcher", "wayvnc"}

ASSUME PartsAssumption == Parts \subseteq Optional
ASSUME BoundAssumption ==
  /\ MaxRestarts \in Nat /\ ServiceRestarts \in Nat
  /\ MaxExits \in Nat /\ MaxForks \in Nat /\ MaxFaults \in Nat

StartOrder == <<"bus", "settingsd", "scopes", "compositor", "activation",
                "notifications", "service", "shell", "wayvnc", "watcher">>
Round == <<"flag", "bus", "compositor", "settingsd", "shell", "notifications", "watcher",
           "service", "wayvnc">>
StopOrder == <<"terminate", "service", "wayvnc", "shell", "compositor", "settingsd", "watcher",
               "notifications", "retire", "scopes", "bus", "remove">>

\* The steps of startup after place i that this session has.
Ahead(i) == {j \in (i + 1)..Len(StartOrder) : StartOrder[j] \in Needed \cup Parts}

VARIABLES
  phase,       \* "startup", "monitoring", "stopping" or "over"
  at,          \* the place in the order of that phase
  awaiting,    \* it waits for the child at that place to be ready
  child,       \* what became of each child; "none" is an empty Option
  kin,         \* the children that have descendants in their group
  strays,      \* the children that had some in a group the supervisor no longer knows
  left,        \* restarts each child still has
  flag,        \* shutdown_requested
  published,   \* the activation environment names this session
  scopes,      \* an owner of scopes, or the intent of one, is on record
  runtime,     \* the runtime directory exists
  failed,      \* the cleanups that failed
  exits, forks, faults

place == <<phase, at, awaiting>>
processes == <<child, kin, strays>>
outside == <<published, scopes, runtime, failed>>
counters == <<exits, forks, faults>>
vars == <<place, processes, left, flag, outside, counters>>

TypeOK ==
  /\ phase \in {"startup", "monitoring", "stopping", "over"}
  /\ at \in 1..12 /\ awaiting \in BOOLEAN
  /\ child \in [Children -> {"none", "alive", "exited"}]
  /\ kin \in SUBSET Children /\ strays \in SUBSET Children
  /\ left \in [Children -> 0..(MaxRestarts + ServiceRestarts)]
  /\ flag \in BOOLEAN
  /\ published \in BOOLEAN /\ scopes \in BOOLEAN /\ runtime \in BOOLEAN
  /\ failed \in SUBSET {"retire", "scopes", "remove"}
  /\ exits \in 0..MaxExits /\ forks \in 0..MaxForks /\ faults \in 0..MaxFaults

Init ==
  /\ phase = "startup" /\ at = Min(Ahead(0)) /\ awaiting = FALSE
  /\ child = [c \in Children |-> "none"] /\ kin = {} /\ strays = {}
  /\ left = [c \in Children |-> CASE c \in {"settingsd", "shell"} -> MaxRestarts
                                  [] c \in Services \cap Parts -> ServiceRestarts
                                  [] OTHER -> 0]
  /\ flag = FALSE
  /\ published = FALSE /\ scopes = FALSE /\ runtime = TRUE /\ failed = {}
  /\ exits = 0 /\ forks = 0 /\ faults = 0

Fault == faults < MaxFaults /\ faults' = faults + 1

\* Where the supervisor goes from its place.
Stay == UNCHANGED place
Onward ==
  /\ awaiting' = FALSE
  /\ CASE phase = "startup" /\ Ahead(at) # {} -> at' = Min(Ahead(at)) /\ UNCHANGED phase
       [] phase = "startup" /\ Ahead(at) = {} -> at' = 1 /\ phase' = "monitoring"
       [] phase = "monitoring" -> at' = (at % Len(Round)) + 1 /\ UNCHANGED phase
       [] phase = "stopping" -> IF at < Len(StopOrder)
                                THEN at' = at + 1 /\ UNCHANGED phase
                                ELSE at' = at /\ phase' = "over"
AwaitIt == awaiting' = TRUE /\ UNCHANGED <<phase, at>>
EndSession == phase' = "stopping" /\ at' = 1 /\ awaiting' = FALSE

Here(p, c) ==
  /\ phase = p /\ ~awaiting
  /\ c = (CASE p = "startup" -> StartOrder [] p = "monitoring" -> Round
            [] p = "stopping" -> StopOrder)[at]
Awaits(c) ==
  /\ awaiting
  /\ c = IF phase = "startup" THEN StartOrder[at] ELSE Round[at]

\* kill_group, then spawn_child: the group of a leader that has exited is killed first.
\* A spawn that fails leaves the old child.
RestartAloneOf(c) ==
  /\ kin' = kin \ {c}
  /\ strays' = IF c \in kin THEN strays \cup {c} ELSE strays
  /\ \/ child' = [child EXCEPT ![c] = "alive"] /\ UNCHANGED faults
     \/ Fault /\ UNCHANGED child
Respawned(c) ==
  /\ kin' = kin \ {c} /\ UNCHANGED strays
  /\ \/ child' = [child EXCEPT ![c] = "alive"] /\ UNCHANGED faults
     \/ Fault /\ UNCHANGED child

\* terminate_process and wait_then_kill_process, and the Option emptied.
Stopped(c) ==
  /\ child' = [child EXCEPT ![c] = "none"] /\ kin' = kin \ {c} /\ UNCHANGED strays

\* An Option emptied without a signal.
GivenUp(c) ==
  /\ child' = [child EXCEPT ![c] = "none"] /\ kin' = kin \ {c}
  /\ strays' = IF c \in kin THEN strays \cup {c} ELSE strays

(***************************************************************************)
(* Startup.                                                                *)
(***************************************************************************)
\* The watcher is not waited for.  Only the remote desktop may fail to start.
Start(c) ==
  /\ Here("startup", c) /\ c \in Children
  /\ \/ /\ child' = [child EXCEPT ![c] = "alive"]
        /\ IF c = "watcher" THEN Onward ELSE AwaitIt
        /\ UNCHANGED faults
     \/ Fault /\ (IF c = "wayvnc" THEN Onward ELSE EndSession) /\ UNCHANGED child
  /\ UNCHANGED <<kin, strays, left, flag, outside, exits, forks>>

\* A step that fails may already have left its record.
Publish ==
  /\ Here("startup", "activation")
  /\ \/ published' = TRUE /\ Onward /\ UNCHANGED faults
     \/ Fault /\ published' \in BOOLEAN /\ EndSession
  /\ UNCHANGED <<processes, left, flag, scopes, runtime, failed, exits, forks>>

StartScopes ==
  /\ Here("startup", "scopes")
  /\ \/ scopes' = TRUE /\ Onward /\ UNCHANGED faults
     \/ Fault /\ scopes' \in BOOLEAN /\ EndSession
  /\ UNCHANGED <<processes, left, flag, published, runtime, failed, exits, forks>>

(***************************************************************************)
(* Waiting until a child is ready.                                         *)
(***************************************************************************)
\* The children whose exit ends the wait.
Watched(c) ==
  {c} \cup (IF c = "shell" THEN {"compositor", "settingsd"} ELSE {})
      \cup (IF c \in {"service", "wayvnc"} THEN {} ELSE {"bus"})
SomeExited(c) == \E w \in Watched(c) : child[w] = "exited"

Ready(c) ==
  /\ Awaits(c) /\ child[c] = "alive" /\ ~flag /\ ~SomeExited(c)
  /\ Onward
  /\ UNCHANGED <<processes, left, flag, outside, counters>>

\* The deadline is absolute, and may pass at any moment.
NoDeadline == FALSE
DeadlinePasses == TRUE

\* A service that does not start ends a session that starts, and is only stopped in one
\* that runs; the remote desktop is stopped in either.
AwaitFails(c) ==
  /\ Awaits(c) /\ (flag \/ SomeExited(c) \/ DeadlinePasses)
  /\ IF c \in {"service", "wayvnc"} THEN Stopped(c) ELSE UNCHANGED processes
  /\ IF c = "wayvnc" \/ (c = "service" /\ phase = "monitoring") THEN Onward ELSE EndSession
  /\ UNCHANGED <<left, flag, outside, counters>>

(***************************************************************************)
(* The monitor: one poll after the other.                                  *)
(***************************************************************************)
LookAtFlag ==
  /\ Here("monitoring", "flag")
  /\ IF flag THEN EndSession ELSE Onward
  /\ UNCHANGED <<processes, left, flag, outside, counters>>

\* Nothing has happened to this one.
LookAgain(c) ==
  /\ Here("monitoring", c) /\ c \in Children /\ child[c] # "exited"
  /\ c = "service" => child[c] = "alive" \/ left[c] = 0
  /\ Onward
  /\ UNCHANGED <<processes, left, flag, outside, counters>>

LookAtVital(c) ==
  /\ Here("monitoring", c) /\ c \in {"bus", "compositor"} /\ child[c] = "exited"
  /\ EndSession
  /\ UNCHANGED <<processes, left, flag, outside, counters>>

\* The daemon is awaited, the shell is not.
LookAtRestartable(c) ==
  /\ Here("monitoring", c) /\ c \in {"settingsd", "shell", "notifications"}
  /\ child[c] = "exited" /\ left[c] > 0
  /\ left' = [left EXCEPT ![c] = @ - 1]
  /\ Respawned(c)
  /\ CASE child'[c] = "exited" -> EndSession
       [] child'[c] = "alive" /\ c = "settingsd" -> AwaitIt
       [] OTHER -> Onward
  /\ UNCHANGED <<flag, outside, exits, forks>>

LookAtSpent(c) ==
  /\ Here("monitoring", c) /\ c \in {"settingsd", "shell", "notifications"}
  /\ child[c] = "exited" /\ left[c] = 0
  /\ IF c = "notifications" THEN GivenUp(c) /\ Onward
                            ELSE EndSession /\ UNCHANGED processes
  /\ UNCHANGED <<left, flag, outside, counters>>

LookAtWatcher ==
  /\ Here("monitoring", "watcher") /\ child["watcher"] = "exited"
  /\ GivenUp("watcher") /\ Onward
  /\ UNCHANGED <<left, flag, outside, counters>>

\* An entry that does not run is stopped and, while it has restarts, spawned again.
LookAtService ==
  /\ Here("monitoring", "service") /\ "service" \in Parts /\ child["service"] # "alive"
  /\ child["service"] = "exited" \/ left["service"] > 0
  /\ kin' = kin \ {"service"} /\ UNCHANGED strays
  /\ \/ /\ left["service"] = 0
        /\ child' = [child EXCEPT !["service"] = "none"] /\ Onward
        /\ UNCHANGED <<left, faults>>
     \/ /\ left["service"] > 0 /\ left' = [left EXCEPT !["service"] = @ - 1]
        /\ \/ child' = [child EXCEPT !["service"] = "alive"] /\ AwaitIt /\ UNCHANGED faults
           \/ Fault /\ child' = [child EXCEPT !["service"] = "none"] /\ Onward
  /\ UNCHANGED <<flag, outside, exits, forks>>

LookAtWayVNCAsVital ==
  /\ Here("monitoring", "wayvnc") /\ child["wayvnc"] = "exited"
  /\ Stopped("wayvnc") /\ EndSession
  /\ UNCHANGED <<left, flag, outside, counters>>

LookAtWayVNC ==
  /\ Here("monitoring", "wayvnc") /\ child["wayvnc"] = "exited"
  /\ Stopped("wayvnc") /\ Onward
  /\ UNCHANGED <<left, flag, outside, counters>>

(***************************************************************************)
(* Shutdown.                                                               *)
(***************************************************************************)
Terminate ==
  /\ Here("stopping", "terminate") /\ Onward
  /\ UNCHANGED <<processes, left, flag, outside, counters>>

\* A leader that has exited and one that is killed after the timeout take their group
\* with them.
Reap(c) ==
  /\ Here("stopping", c) /\ c \in Children /\ Onward
  /\ child' = [child EXCEPT ![c] = "none"]
  /\ kin' = kin \ {c}
  /\ UNCHANGED <<strays, left, flag, outside, counters>>

Retire ==
  /\ Here("stopping", "retire") /\ Onward
  /\ \/ published' = FALSE /\ UNCHANGED <<failed, faults>>
     \/ Fault /\ failed' = failed \cup {"retire"} /\ UNCHANGED published
  /\ UNCHANGED <<processes, left, flag, scopes, runtime, exits, forks>>

StopScopes ==
  /\ Here("stopping", "scopes") /\ Onward
  /\ \/ scopes' = FALSE /\ UNCHANGED <<failed, faults>>
     \/ Fault /\ failed' = failed \cup {"scopes"} /\ UNCHANGED scopes
  /\ UNCHANGED <<processes, left, flag, published, runtime, exits, forks>>

RemoveUnlessScopes ==
  /\ Here("stopping", "remove") /\ Onward
  /\ \/ "scopes" \in failed /\ UNCHANGED <<runtime, failed, faults>>
     \/ "scopes" \notin failed /\ runtime' = FALSE /\ UNCHANGED <<failed, faults>>
     \/ Fault /\ failed' = failed \cup {"remove"} /\ UNCHANGED runtime
  /\ UNCHANGED <<processes, left, flag, published, scopes, exits, forks>>

\* A failed barrier or retirement keeps the directory, with the records for a later try.
Remove ==
  /\ Here("stopping", "remove") /\ Onward
  /\ \/ failed # {} /\ UNCHANGED <<runtime, failed, faults>>
     \/ failed = {} /\ runtime' = FALSE /\ UNCHANGED <<failed, faults>>
     \/ failed = {} /\ Fault /\ failed' = {"remove"} /\ UNCHANGED runtime
  /\ UNCHANGED <<processes, left, flag, published, scopes, exits, forks>>

(***************************************************************************)
(* The children and the user.                                              *)
(***************************************************************************)
Terminated == phase = "stopping" /\ at > 1

\* A child exits by itself, or because it was sent SIGTERM; the bus is not, yet.
Exit(c) ==
  /\ child[c] = "alive" /\ child' = [child EXCEPT ![c] = "exited"]
  /\ \/ Terminated /\ c # "bus" /\ UNCHANGED exits
     \/ exits < MaxExits /\ exits' = exits + 1
  /\ UNCHANGED <<place, kin, strays, left, flag, outside, forks, faults>>

Fork(c) ==
  /\ child[c] = "alive" /\ forks < MaxForks
  /\ kin' = kin \cup {c} /\ forks' = forks + 1
  /\ UNCHANGED <<place, child, strays, left, flag, outside, exits, faults>>

KinExit(c) ==
  /\ c \in kin /\ kin' = kin \ {c}
  /\ UNCHANGED <<place, child, strays, left, flag, outside, counters>>

RequestShutdown ==
  /\ ~flag /\ phase # "over" /\ flag' = TRUE
  /\ UNCHANGED <<place, processes, left, outside, counters>>

Monitor ==
  \/ LookAtFlag \/ LookAtWatcher \/ LookAtService \/ LookAtWayVNC
  \/ \E c \in Children :
       LookAgain(c) \/ LookAtVital(c) \/ LookAtRestartable(c) \/ LookAtSpent(c)
Shutdown == Terminate \/ Retire \/ StopScopes \/ Remove \/ \E c \in Children : Reap(c)
Startup == Publish \/ StartScopes \/ \E c \in Children : Start(c)

Next ==
  \/ Startup \/ Monitor \/ Shutdown
  \/ \E c \in Children : Ready(c) \/ AwaitFails(c) \/ Exit(c) \/ Fork(c) \/ KinExit(c)
  \/ RequestShutdown

Spec == Init /\ [][Next]_vars

\* The supervisor's thread goes on.  Nothing says that a child is ever ready.
Fairness ==
  /\ WF_vars(Startup) /\ WF_vars(Monitor) /\ WF_vars(Shutdown)
  /\ \A c \in Children : WF_vars(AwaitFails(c))

FairSpec == Spec /\ Fairness
-----------------------------------------------------------------------------
\* However far startup came and whatever exited, failed or forked, nothing of the session
\* runs when the supervisor exits: only what a child given up without a signal (a watcher,
\* a notification daemon without restarts) had forked.
NothingLeft == phase = "over" => kin = {} /\ \A c \in Children : child[c] = "none"

\* What an earlier generation of a child forked does not run beside a later one.
OneGeneration == strays \subseteq {"watcher", "notifications"}

\* Both: every child is reaped with all it has forked.
ChildrenReaped == TypeOK /\ NothingLeft /\ OneGeneration

\* The runtime directory is removed only when no record in it is needed any more, and
\* nothing that uses it runs.
RemovedMeansClean ==
  ~runtime => ~published /\ ~scopes /\ kin = {} /\ \A c \in Children : child[c] = "none"

\* No process of the session is forgotten and no part runs twice, and a runtime directory
\* is removed only when nothing needs it any more.
SessionSound == ChildrenReaped /\ RemovedMeansClean

\* A running desktop is ended by a request, by the loss of a needed child or of the bus, or
\* by a daemon that does not come back: never by the loss of an optional one (but by a
\* call of the supervisor itself that fails).
EndsForCause ==
  [][phase = "monitoring" /\ phase' = "stopping" =>
       \/ flag \/ awaiting \/ faults' # faults
       \/ \E c \in Needed \cup {"bus"} : child[c] = "exited"]_vars

\* A request and the loss of the compositor or of the bus end the session, however the
\* other children behave, also those the supervisor is waiting for.
SessionEnds ==
  (flag \/ child["compositor"] = "exited" \/ child["bus"] = "exited") ~> phase = "over"
==============================================================================

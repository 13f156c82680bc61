----------------------------- MODULE MCLockClient -----------------------------
(* The two ends of a lock: the process that unlocks (LockClient, with two     *)
(* monitors) and the threads that put its screens up (Presenter, with one     *)
(* output).  Between the two is the protocol of SessionLock; here they share  *)
(* no state, so a behaviour moves one of them: the states add up.             *)
(* The presenter has four scenarios: scenes and a lock, a lock while the      *)
(* output is configured anew, a VT switch, and a failure.                     *)
EXTENDS LockClient, PresenterState

Presenter == INSTANCE Presenter

VARIABLE side

\* What the bounds of the module are in each scenario.
Scenario ==
  /\ side # "fault" => counters'.faults = 0
  /\ side # "seat" => counters'.pauses = 0
  /\ CASE side = "lock" -> output'.key < 2
       [] side = "configure" -> output'.key < MaxKey /\ counters'.scenes < MaxScenes
       [] side = "seat" -> control'.now.tag = 1 /\ counters'.scenes < MaxScenes
       [] side = "fault" -> output'.key < 2 /\ counters'.scenes < MaxScenes

EdgesInit ==
  /\ Init /\ Presenter!Init
  /\ side \in {"client", "lock", "configure", "seat", "fault"}
  /\ (side # "client" => monitors = {})
EdgesNext ==
  \/ side = "client" /\ Next /\ UNCHANGED <<presenterVars, side>>
  \/ side # "client" /\ Presenter!Next /\ Scenario /\ UNCHANGED <<vars, side>>

\* Nothing that either fairness is about is enabled in the initial state of the other.
EdgesSpec ==
  /\ EdgesInit /\ [][EdgesNext]_<<vars, presenterVars, side>>
  /\ Fairness /\ Presenter!Fairness

SecurityShown == Presenter!SecurityShown
==============================================================================

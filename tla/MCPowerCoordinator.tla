------------------------- MODULE MCPowerCoordinator -------------------------
(* Constants of the TLC runs of PowerCoordinator.  A behaviour has one       *)
(* scenario, which says what parts of the environment move in it: the states *)
(* of the scenarios of a run add up.                                         *)
EXTENDS PowerCoordinator

VARIABLE scenario

Sleeps == SleepRequested \/ FallAsleep \/ Wake

\* Sleeps asked for by others while the lid is closed: with a lossy control socket, or
\* with VT switches.
LossyNext == LockStep \/ LateCommand \/ Sleeps \/ Coordinator
SeatNext == LockStep \/ SeatMoves \/ Sleeps \/ Coordinator

\* The lid and the Suspend button.
SuspendNext ==
  LockStep \/ Sleeps \/ LidMoves \/ Coordinator
  \/ Cancel \/ Submit("suspend")

\* Shutdown against the lid, the dock, the Suspend button and the bus.
ShutdownNext == LockStep \/ LidMoves \/ DockMoves \/ Coordinator \/ Menu

SafetyInit ==
  /\ Init /\ scenario \in {"lossy", "seat", "suspend", "shutdown"}
  /\ scenario \in {"lossy", "seat"} => lidClosed
SafetyNext ==
  /\ \/ scenario = "lossy" /\ LossyNext
     \/ scenario = "seat" /\ SeatNext
     \/ scenario = "suspend" /\ SuspendNext
     \/ scenario = "shutdown" /\ ShutdownNext
  /\ scenario # "lossy" => lost' = 0
  /\ UNCHANGED scenario
SafetySpec == SafetyInit /\ [][SafetyNext]_<<vars, scenario>>

\* With fairness: sleeps asked for by the menu, or by others with a display that
\* comes and goes.
FairSuspendNext == LockStep \/ FallAsleep \/ Wake \/ Coordinator \/ Cancel \/ Submit("suspend")
FairSleepNext == LockStep \/ DisplayChanges \/ Sleeps \/ Coordinator
LivenessInit == Init /\ lidClosed /\ scenario \in {"suspend", "display"}
LivenessNext ==
  /\ \/ scenario = "suspend" /\ FairSuspendNext
     \/ scenario = "display" /\ FairSleepNext
  /\ UNCHANGED scenario
LivenessSpec == LivenessInit /\ [][LivenessNext]_<<vars, scenario>> /\ Fairness

DisplaySpec ==
  /\ LivenessInit /\ scenario = "display"
  /\ [][LivenessNext]_<<vars, scenario>> /\ Fairness

\* Sleeps asked for by others, and the lid closed or opened while asleep.
LidAsleepInit == Init /\ ~lidClosed /\ scenario = "lid"
LidAsleepNext ==
  /\ LockStep \/ Sleeps \/ Coordinator \/ (power = "asleep" /\ LidMoves)
  /\ UNCHANGED scenario
LidAsleepSpec == LidAsleepInit /\ [][LidAsleepNext]_<<vars, scenario>>
==============================================================================

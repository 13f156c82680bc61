----------------------- MODULE PowerCoordinator_proofs -----------------------
(***************************************************************************)
(* Proofs about the power coordinator: its variables keep their types, no  *)
(* power call follows a shutdown that logind has not rejected, a sleep     *)
(* within its budgets starts with the desktop sealed and the latch set, no *)
(* lid closure is answered twice, and the session is reported awake only   *)
(* after the display has proven itself.                                    *)
(* Each invariant is disturbed by few of the steps, so each proof splits   *)
(* off those steps and shows once that the others leave its state alone.   *)
(***************************************************************************)
EXTENDS PowerCoordinator, SequenceTheorems, TLAPS

USE BoundsAssumption

(***************************************************************************)
(* TypeOK in five parts, each kept by lemmas of its own.                   *)
(***************************************************************************)
CompositorOK ==
  /\ Lock!TypeOK
  /\ confirmed \in BOOLEAN /\ ready \in BOOLEAN
  /\ late \in SUBSET Commands
  /\ lost \in 0..MaxLost

MachineOK ==
  /\ power \in {"awake", "preparing", "asleep"}
  /\ signals \in Seq(BOOLEAN)
  /\ active \in BOOLEAN /\ lidClosed \in BOOLEAN /\ docked \in BOOLEAN

TaskOK ==
  /\ pc \in {"off", "arm", "reshield", "resume", "top", "shield", "status", "act",
             "manualSnapshot", "manualStatus", "manualSeat", "manualSuspend",
             "lid", "lidSeat", "lidSuspend", "idle", "poll", "requestStatus",
             "requestShield", "shutdownStatus", "shutdown", "lost"}
  /\ cycle \in Cycles
  /\ snap \in Snapshots
  /\ seen \in Replies
  /\ established \in BOOLEAN

MenuOK ==
  /\ request \in Requests
  /\ cancelled \in BOOLEAN /\ gate \in BOOLEAN

HistoryOK ==
  /\ unprotected \in BOOLEAN /\ proven \in BOOLEAN /\ unresolved \in BOOLEAN
  /\ closure \in {"none", "fresh", "before wake"}

LEMMA TypeParts ==
  TypeOK <=> CompositorOK /\ MachineOK /\ TaskOK /\ MenuOK /\ HistoryOK
BY DEF TypeOK, CompositorOK, MachineOK, TaskOK, MenuOK, HistoryOK

LEMMA TypePartsNext ==
  TypeOK' <=> CompositorOK' /\ MachineOK' /\ TaskOK' /\ MenuOK' /\ HistoryOK'
BY TypeParts, PTL

LEMMA TypeInit == Init => TypeOK
<1> SUFFICES ASSUME Init PROVE TypeOK
  OBVIOUS
<1>1. CompositorOK
  <2>1. Lock!TypeOK
    BY DEF Init, Lock!Init, Lock!TypeOK
  <2>2. confirmed \in BOOLEAN /\ ready \in BOOLEAN /\ late \in SUBSET Commands
    BY DEF Init
  <2>3. lost \in 0..MaxLost
    BY BoundsAssumption DEF Init, BoundsAssumption
  <2> QED BY <2>1, <2>2, <2>3 DEF CompositorOK
<1>2. MachineOK
  <2>1. active \in BOOLEAN /\ lidClosed \in BOOLEAN /\ docked \in BOOLEAN
    BY DEF Init
  <2>2. power \in {"awake", "preparing", "asleep"} /\ signals \in Seq(BOOLEAN)
    BY DEF Init
  <2> QED BY <2>1, <2>2 DEF MachineOK
<1>3. NewCycle \in Cycles /\ "connecting" \in Phases
  BY DEF NewCycle, Cycles, Phases
<1>4. cycle \in Cycles
  BY <1>3 DEF Init, Cycles
<1>5. snap \in Snapshots /\ seen \in Replies
  BY <1>2 DEF Init, Snapshot, Snapshots, NoReply, Replies, MachineOK
<1>6. TaskOK
  BY <1>4, <1>5 DEF Init, TaskOK
<1>7. MenuOK /\ HistoryOK
  BY DEF Init, MenuOK, HistoryOK, Requests
<1> QED BY <1>1, <1>2, <1>6, <1>7, TypeParts

-----------------------------------------------------------------------------

(***************************************************************************)
(* The compositor's part: a command, and the answer to it, of either kind. *)
(***************************************************************************)
LEMMA ExecutedType ==
  ASSUME CompositorOK, NEW command, Executed(command)
  PROVE  Lock!TypeOK' /\ confirmed' \in BOOLEAN
<1> USE DEF CompositorOK, Lock!TypeOK, lock
<1>1. CASE command = "lock-shield"
  BY <1>1 DEF Executed, Lock!Shield, Lock!Sealing
<1>2. CASE command = "prepare-sleep"
  BY <1>2 DEF Executed, Lock!Shield, Lock!PrepareSleep, Lock!Sealing
<1>3. CASE command = "session-resume"
  BY <1>3 DEF Executed, Lock!Resume
<1> QED BY <1>1, <1>2, <1>3 DEF Executed

LEMMA CommandType ==
  ASSUME CompositorOK, NEW command \in Commands, NEW accepted \in BOOLEAN,
         Command(command, accepted), UNCHANGED ready
  PROVE  CompositorOK'
<1>1. CASE accepted
  BY <1>1, ExecutedType DEF Command, CompositorOK
<1>2. CASE ~accepted /\ Executed(command)
  BY <1>2, ExecutedType DEF Command, CompositorOK
<1>3. CASE ~accepted /\ ~Executed(command)
  BY <1>3 DEF Command, CompositorOK, Lock!TypeOK, lock
<1> QED BY <1>1, <1>2, <1>3

LEMMA CompositorStep ==
  ASSUME TypeOK, [Next]_vars
  PROVE  CompositorOK'
<1>0. CompositorOK
  BY TypeParts
<1>1. CASE LockStep
  <2>1. Lock!TypeOK'
    BY <1>0, <1>1 DEF LockStep, CompositorOK, Lock!TypeOK, Lock!Shield,
       Lock!Acknowledge, Lock!Seal, Lock!Release, Lock!Claim, Lock!Sealing
  <2> QED BY <1>0, <1>1, <2>1 DEF LockStep, CompositorOK
<1>2. CASE DisplayChanges
  BY <1>0, <1>2 DEF DisplayChanges, CompositorOK, Lock!TypeOK, lock
<1>3. CASE LateCommand
  <2> PICK command \in late : Executed(command) /\ late' = late \ {command}
    BY <1>3 DEF LateCommand
  <2> QED BY <1>0, <1>3, ExecutedType DEF LateCommand, CompositorOK
<1>4. CASE Reshield
  BY <1>0, <1>4, CommandType DEF Reshield, Commands
<1>5. CASE Resume
  BY <1>0, <1>5, CommandType DEF Resume, Commands
<1>6. CASE ShieldAfterLoss
  BY <1>0, <1>6, CommandType DEF ShieldAfterLoss, Commands
<1>7. CASE SleepStarts
  BY <1>0, <1>7, CommandType DEF SleepStarts, Commands
<1>8. CASE LidShield
  BY <1>0, <1>8, CommandType DEF LidShield, Commands
<1>9. CASE ReadStatus
  BY <1>0, <1>9 DEF ReadStatus, CompositorOK, Lock!TypeOK, lock
<1>10. CASE SessionLockSignal
  BY <1>0, <1>10, CommandType DEF SessionLockSignal, Commands
<1>11. CASE RequestShield
  BY <1>0, <1>11, CommandType DEF RequestShield, Commands
<1>12. CASE UNCHANGED compositor
  BY <1>0, <1>12 DEF compositor, CompositorOK, Lock!TypeOK, lock
<1> QED
  BY <1>1, <1>2, <1>3, <1>4, <1>5, <1>6, <1>7, <1>8, <1>9, <1>10, <1>11, <1>12
  DEF Next, Environment, Coordinator, Menu, vars, SleepRequested, FallAsleep, Wake,
      SeatMoves, DockMoves, LidMoves, Connect, Arm, ArmFailed, BusLost, SleepSignal,
      SleepEnds, Tick, Act, ManualSnapshot, ManualStatus, ManualSeat, ManualSuspend,
      Lid, LidSeat, LidSuspend, Timer, Poll, RequestStatus, RequestSuspend,
      ShutdownStatus, RequestPower, ShutdownCall, ShutdownWithdrawn, Cancel, Submit

\* A sleep signal is queued and nothing else of the machine changes type.
LEMMA SignalledType ==
  ASSUME MachineOK, NEW b \in BOOLEAN, Signalled(b)
  PROVE  signals' \in Seq(BOOLEAN)
<1>1. Append(signals, b) \in Seq(BOOLEAN)
  BY DEF MachineOK
<1> QED BY <1>1 DEF MachineOK, Signalled

LEMMA StartsSleepingType ==
  ASSUME MachineOK, StartsSleeping
  PROVE  power' = "preparing" /\ signals' \in Seq(BOOLEAN)
BY SignalledType DEF StartsSleeping

LEMMA MachineStep ==
  ASSUME TypeOK, [Next]_vars
  PROVE  MachineOK'
<1>0. MachineOK
  BY TypeParts
<1>1. CASE SleepRequested
  BY <1>0, <1>1, StartsSleepingType DEF SleepRequested, MachineOK
<1>2. CASE FallAsleep
  BY <1>0, <1>2 DEF FallAsleep, MachineOK
<1>3. CASE Wake
  BY <1>0, <1>3, SignalledType DEF Wake, MachineOK
<1>4. CASE SeatMoves
  BY <1>0, <1>4 DEF SeatMoves, MachineOK
<1>5. CASE DockMoves
  BY <1>0, <1>5 DEF DockMoves, MachineOK
<1>6. CASE LidMoves
  BY <1>0, <1>6 DEF LidMoves, MachineOK
<1>7. CASE Connect
  BY <1>0, <1>7 DEF Connect, MachineOK
<1>8. CASE SleepSignal
  BY <1>0, <1>8 DEF SleepSignal, MachineOK
<1>9. CASE ManualSuspend \/ LidSuspend
  BY <1>0, <1>9, StartsSleepingType DEF ManualSuspend, LidSuspend, Suspend, MachineOK
<1>10. CASE UNCHANGED machine
  BY <1>0, <1>10 DEF machine, MachineOK
<1> QED
  BY <1>1, <1>2, <1>3, <1>4, <1>5, <1>6, <1>7, <1>8, <1>9, <1>10
  DEF Next, Environment, Coordinator, Menu, vars, LockStep, DisplayChanges,
      LateCommand, Arm, ArmFailed, Reshield, Resume, BusLost, ShieldAfterLoss,
      SleepStarts, SleepEnds, Tick, LidShield, ReadStatus, Act, ManualSnapshot,
      ManualStatus, ManualSeat, Lid, LidSeat, Timer, Poll, SessionLockSignal,
      RequestStatus, RequestSuspend, RequestShield, ShutdownStatus, RequestPower,
      ShutdownCall, ShutdownWithdrawn, Cancel, Submit

LEMMA MenuStep ==
  ASSUME TypeOK, [Next]_vars
  PROVE  MenuOK'
<1>0. MenuOK
  BY TypeParts
<1>1. CASE Cancel \/ \E kind \in Requests \ {"none"} : Submit(kind)
  BY <1>0, <1>1 DEF Cancel, Submit, MenuOK
<1>2. CASE ShutdownCall
  BY <1>0, <1>2 DEF ShutdownCall, Answer, MenuOK, Requests
<1>3. CASE UNCHANGED <<request, cancelled, gate>>
  BY <1>0, <1>3 DEF MenuOK
<1>4. CASE request' = "none" /\ cancelled' = FALSE /\ UNCHANGED gate
  BY <1>0, <1>4 DEF MenuOK, Requests
<1> QED
  BY <1>1, <1>2, <1>3, <1>4
  DEF Next, Environment, Coordinator, Menu, vars, menu, Answer, Dropped, ManualFails,
      LockStep, DisplayChanges, LateCommand, SleepRequested, FallAsleep, Wake,
      SeatMoves, DockMoves, LidMoves, Connect, Arm, ArmFailed, Reshield, Resume,
      BusLost, ShieldAfterLoss, SleepSignal, SleepStarts, SleepEnds, Tick, LidShield,
      ReadStatus, Act, ManualSnapshot, ManualStatus, ManualSeat, ManualSuspend, Lid,
      LidSeat, LidSuspend, Timer, Poll, SessionLockSignal, RequestStatus,
      RequestSuspend, RequestShield, ShutdownStatus, RequestPower, ShutdownWithdrawn

LEMMA HistoryStep ==
  ASSUME TypeOK, [Next]_vars
  PROVE  HistoryOK'
<1>0. HistoryOK
  BY TypeParts
<1>1. unprotected' \in BOOLEAN
  <2>1. CASE UNCHANGED unprotected
    BY <1>0, <2>1 DEF HistoryOK
  <2>2. CASE SleepRequested \/ ManualSuspend \/ LidSuspend
    BY <1>0, <2>2 DEF SleepRequested, ManualSuspend, LidSuspend, Suspend,
       StartsSleeping, HistoryOK
  <2>3. CASE FallAsleep \/ Wake \/ LateCommand \/ Resume \/ SleepStarts
    BY <2>3 DEF FallAsleep, Wake, LateCommand, Resume, SleepStarts
  <2>4. CASE BusLost \/ SleepEnds
    BY <1>0, <2>4 DEF BusLost, SleepEnds, Dropped, HistoryOK
  <2>5. CASE Act
    BY <2>5 DEF Act
  <2> QED
  BY <2>1, <2>2, <2>3, <2>4, <2>5
  DEF Next, Environment, Coordinator, Menu, vars, history, LockStep, DisplayChanges,
      SeatMoves, DockMoves, LidMoves, Connect, Arm, ArmFailed, Reshield,
      ShieldAfterLoss, SleepSignal, Tick, LidShield, ReadStatus, ManualSnapshot,
      ManualStatus, ManualSeat, Lid, LidSeat, Timer, Poll, SessionLockSignal,
      RequestStatus, RequestSuspend, RequestShield, ShutdownStatus, RequestPower,
      ShutdownCall, ShutdownWithdrawn, Cancel, Submit
<1>2. proven' \in BOOLEAN
  <2>1. CASE UNCHANGED proven
    BY <1>0, <2>1 DEF HistoryOK
  <2>2. CASE Proof
    BY <2>2 DEF Proof
  <2>3. CASE Wake \/ Connect
    BY <2>3 DEF Wake, Connect
  <2> QED
  BY <2>1, <2>2, <2>3
  DEF Next, Environment, Coordinator, Menu, vars, history, LockStep, DisplayChanges,
      LateCommand, SleepRequested, FallAsleep, SeatMoves, DockMoves, LidMoves, Arm,
      ArmFailed, Reshield, Resume, BusLost, ShieldAfterLoss, SleepSignal, SleepStarts,
      SleepEnds, Tick, LidShield, ReadStatus, Act, ManualSnapshot, ManualStatus,
      ManualSeat, ManualSuspend, Lid, LidSeat, LidSuspend, Timer, Poll,
      SessionLockSignal, RequestStatus, RequestSuspend, RequestShield, ShutdownStatus,
      RequestPower, ShutdownCall, ShutdownWithdrawn, Cancel, Submit
<1>3. unresolved' \in BOOLEAN
  <2>1. CASE UNCHANGED unresolved
    BY <1>0, <2>1 DEF HistoryOK
  <2>2. CASE ShutdownCall
    BY <2>2 DEF ShutdownCall
  <2> QED
  BY <2>1, <2>2
  DEF Next, Environment, Coordinator, Menu, vars, history, LockStep, DisplayChanges,
      LateCommand, SleepRequested, FallAsleep, Wake, SeatMoves, DockMoves, LidMoves,
      Connect, Arm, ArmFailed, Reshield, Resume, BusLost, ShieldAfterLoss,
      SleepSignal, SleepStarts, SleepEnds, Tick, LidShield, ReadStatus, Act,
      ManualSnapshot, ManualStatus, ManualSeat, ManualSuspend, Lid, LidSeat,
      LidSuspend, Timer, Poll, SessionLockSignal, RequestStatus, RequestSuspend,
      RequestShield, ShutdownStatus, RequestPower, ShutdownWithdrawn, Cancel, Submit
<1>4. closure' \in {"none", "fresh", "before wake"}
  <2>1. CASE UNCHANGED closure
    BY <1>0, <2>1 DEF HistoryOK
  <2>2. CASE Wake \/ LidMoves \/ LidSuspend
    BY <1>0, <2>2 DEF Wake, LidMoves, LidSuspend, HistoryOK
  <2> QED
  BY <2>1, <2>2
  DEF Next, Environment, Coordinator, Menu, vars, history, LockStep, DisplayChanges,
      LateCommand, SleepRequested, FallAsleep, SeatMoves, DockMoves, Connect, Arm,
      ArmFailed, Reshield, Resume, BusLost, ShieldAfterLoss, SleepSignal, SleepStarts,
      SleepEnds, Tick, LidShield, ReadStatus, Act, ManualSnapshot, ManualStatus,
      ManualSeat, ManualSuspend, Lid, LidSeat, Timer, Poll, SessionLockSignal,
      RequestStatus, RequestSuspend, RequestShield, ShutdownStatus, RequestPower,
      ShutdownCall, ShutdownWithdrawn, Cancel, Submit
<1> QED BY <1>1, <1>2, <1>3, <1>4 DEF HistoryOK

-----------------------------------------------------------------------------
(***************************************************************************)
(* The task's part: what each stage of a turn does to the cycle it keeps.  *)
(***************************************************************************)
LEMMA NewCycleType == NewCycle \in Cycles
BY DEF NewCycle, Cycles, Phases

LEMMA ErrorType == \A c \in Cycles : Error(c) \in Cycles
BY DEF Error, Cycles, Phases

LEMMA AfterPreparingType ==
  \A c \in Cycles, expired \in BOOLEAN : AfterPreparing(c, expired) \in Cycles
<1> SUFFICES ASSUME NEW c \in Cycles, NEW expired \in BOOLEAN
             PROVE  AfterPreparing(c, expired) \in Cycles
  OBVIOUS
<1>1. [c EXCEPT !.preparing = FALSE, !.delay = FALSE, !.phase = "sleeping"] \in Cycles
  BY DEF Cycles, Phases
<1>2. [Error(c) EXCEPT !.preparing = FALSE, !.delay = FALSE] \in Cycles
  BY ErrorType DEF Cycles
<1> QED BY <1>1, <1>2 DEF AfterPreparing

LEMMA AfterRecoveringType ==
  \A c \in Cycles, expired \in BOOLEAN : AfterRecovering(c, expired) \in Cycles
<1> SUFFICES ASSUME NEW c \in Cycles, NEW expired \in BOOLEAN
             PROVE  AfterRecovering(c, expired) \in Cycles
  OBVIOUS
<1>1. [c EXCEPT !.phase = "recovering"] \in Cycles
  BY DEF Cycles, Phases
<1>2. [c EXCEPT !.recovering = FALSE, !.phase = "awake"] \in Cycles
  BY DEF Cycles, Phases
<1>3. [Error(c) EXCEPT !.recovering = FALSE] \in Cycles
  BY ErrorType DEF Cycles
<1> QED BY <1>1, <1>2, <1>3 DEF AfterRecovering

LEMMA AfterUnlockType == \A c \in Cycles : AfterUnlock(c) \in Cycles
BY DEF AfterUnlock, Cycles

LEMMA SettledType == \A c \in Cycles : Settled(c) \in Cycles
BY DEF Settled, Cycles, Phases

LEMMA TickType ==
  \A c \in Cycles, b1, b2, b3 \in BOOLEAN, l \in {"unknown", "open", "closed"}, p \in Phases :
    [c EXCEPT !.lid = b1, !.lidRequest = b2, !.lastClosed = l, !.controlling = b3,
              !.phase = p] \in Cycles
BY DEF Cycles

LEMMA TaskStep ==
  ASSUME TypeOK, [Next]_vars
  PROVE  TaskOK'
<1>0. TaskOK /\ MachineOK /\ CompositorOK
  BY TypeParts
<1>a. Snapshot \in Snapshots
  BY <1>0 DEF Snapshot, Snapshots, MachineOK
<1>b. NoReply \in Replies /\ Status \in Replies
  BY <1>0 DEF NoReply, Status, Replies, MachineOK, CompositorOK
<1>c. NewCycle \in Cycles
  BY NewCycleType
<1>1. CASE UNCHANGED task
  BY <1>0, <1>1 DEF task, TaskOK
<1>2. CASE Connect
  BY <1>0, <1>a, <1>2 DEF Connect, Goto, TaskOK
<1>3. CASE Arm
  BY <1>0, <1>b, <1>c, <1>3 DEF Arm, Goto, TaskOK, Cycles, Phases
<1>4. CASE ArmFailed
  BY <1>0, <1>4, ErrorType DEF ArmFailed, Goto, TaskOK
<1>5. CASE Reshield
  BY <1>0, <1>5, ErrorType DEF Reshield, Goto, TaskOK
<1>6. CASE Resume
  <2>1. [cycle EXCEPT !.resumeAccepted = TRUE] \in Cycles
    BY <1>0 DEF TaskOK, Cycles
  <2> QED BY <1>0, <1>6, <2>1, ErrorType DEF Resume, Goto, TaskOK
<1>7. CASE BusLost
  BY <1>0, <1>c, <1>7 DEF BusLost, Dropped, Goto, TaskOK
<1>8. CASE ShieldAfterLoss
  BY <1>0, <1>8 DEF ShieldAfterLoss, Goto, TaskOK
<1>9. CASE SleepSignal
  <2>1. Head(signals) \in BOOLEAN
    BY <1>0, <1>9 DEF SleepSignal, MachineOK
  <2> QED BY <1>0, <1>9, <2>1 DEF SleepSignal, Goto, TaskOK, Snapshots
<1>10. CASE SleepStarts
  <2>1. PICK p \in Phases :
          cycle' = [cycle EXCEPT !.sleeping = TRUE, !.preparing = TRUE, !.recovering = FALSE,
                                 !.lidRequest = FALSE, !.manual = "none", !.phase = p]
    BY <1>10 DEF SleepStarts, Phases
  <2>2. cycle' \in Cycles
    BY <1>0, <2>1 DEF TaskOK, Cycles
  <2> QED BY <1>0, <1>10, <2>2 DEF SleepStarts, TaskOK
<1>11. CASE SleepEnds
  <2>1. [cycle EXCEPT !.sleeping = FALSE, !.preparing = FALSE, !.delay = TRUE,
                      !.recovering = TRUE, !.resumeAccepted = FALSE,
                      !.lidRequest = FALSE, !.manual = "none",
                      !.phase = "recovering"] \in Cycles
    BY <1>0 DEF TaskOK, Cycles, Phases
  <2>2. cycle' \in Cycles /\ pc' \in {"resume", "lost"} /\ seen' \in Replies
    BY <1>0, <1>b, <1>c, <1>11, <2>1 DEF SleepEnds, Dropped, Goto, TaskOK
  <2> QED BY <1>0, <1>11, <2>2 DEF SleepEnds, TaskOK
<1>12. CASE Tick
  <2>1. PICK controls \in BOOLEAN, starts \in BOOLEAN :
          /\ cycle' = [cycle EXCEPT
               !.lid = controls,
               !.lidRequest = starts \/ (cycle.lidRequest /\ snap.active),
               !.lastClosed = IF snap.lidClosed THEN "closed" ELSE "open",
               !.controlling = snap.active /\ controls,
               !.phase = IF snap.active /\ ~controls THEN "degraded" ELSE cycle.phase]
          /\ pc' = IF starts THEN "shield" ELSE "status"
    BY <1>12 DEF Tick
  <2> DEFINE request1 == starts \/ (cycle.lidRequest /\ snap.active)
             controlling1 == snap.active /\ controls
             closed1 == IF snap.lidClosed THEN "closed" ELSE "open"
             phase1 == IF snap.active /\ ~controls THEN "degraded" ELSE cycle.phase
  <2>2. request1 \in BOOLEAN /\ controlling1 \in BOOLEAN
    OBVIOUS
  <2>3. closed1 \in {"unknown", "open", "closed"}
    OBVIOUS
  <2>4. phase1 \in Phases
    BY <1>0 DEF TaskOK, Cycles, Phases
  <2>5. cycle' = [cycle EXCEPT !.lid = controls, !.lidRequest = request1,
                               !.lastClosed = closed1, !.controlling = controlling1,
                               !.phase = phase1]
    BY <2>1
  <2> HIDE DEF request1, controlling1, closed1, phase1
  <2>6. cycle' \in Cycles
    BY <1>0, <2>2, <2>3, <2>4, <2>5, TickType DEF TaskOK
  <2> QED BY <1>0, <1>12, <2>1, <2>6 DEF Tick, TaskOK
<1>13. CASE LidShield
  BY <1>0, <1>13, ErrorType DEF LidShield, Goto, TaskOK
<1>14. CASE ReadStatus
  BY <1>0, <1>b, <1>14, ErrorType DEF ReadStatus, Goto, TaskOK
<1>15. CASE Act
  <2>1. PICK e1, e2, e3 \in BOOLEAN :
          LET c == AfterUnlock(AfterRecovering(AfterPreparing(cycle, e1), e2))
          IN  cycle' = c \/ cycle' = [c EXCEPT !.manual = "none"]
    BY <1>15 DEF Act
  <2>2. AfterUnlock(AfterRecovering(AfterPreparing(cycle, e1), e2)) \in Cycles
    BY <1>0, AfterPreparingType, AfterRecoveringType, AfterUnlockType DEF TaskOK
  <2>3. cycle' \in Cycles
    BY <2>1, <2>2 DEF Cycles
  <2>4. pc' \in {"lid", "manualSnapshot"}
    BY <1>15 DEF Act, Goto
  <2> QED BY <1>0, <1>15, <2>3, <2>4 DEF Act, TaskOK
<1>16. CASE ManualSnapshot \/ ManualStatus \/ ManualSeat
  BY <1>0, <1>16, ErrorType DEF ManualSnapshot, ManualStatus, ManualSeat, ManualFails,
     Goto, TaskOK, Cycles
<1>17. CASE ManualSuspend
  BY <1>0, <1>17, ErrorType DEF ManualSuspend, Goto, TaskOK
<1>18. CASE Lid
  <2>1. /\ cycle \in Cycles
        /\ [cycle EXCEPT !.lidRequest = FALSE] \in Cycles
        /\ [Error(cycle) EXCEPT !.lidRequest = FALSE] \in Cycles
    BY <1>0, ErrorType DEF TaskOK, Cycles
  <2>2. cycle' \in Cycles
    BY <1>18, <2>1, SettledType DEF Lid
  <2>3. pc' \in {"idle", "lidSeat"}
    BY <1>18 DEF Lid, Goto
  <2> QED BY <1>0, <1>18, <2>2, <2>3 DEF Lid, TaskOK
<1>19. CASE LidSeat
  BY <1>0, <1>19 DEF LidSeat, Goto, TaskOK
<1>20. CASE LidSuspend
  BY <1>0, <1>20, ErrorType, SettledType DEF LidSuspend, Goto, TaskOK
<1>21. CASE Timer
  BY <1>0, <1>21 DEF Timer, Goto, TaskOK
<1>22. CASE Poll
  BY <1>0, <1>a, <1>22 DEF Poll, Goto, TaskOK
<1>23. CASE SessionLockSignal
  BY <1>0, <1>23, ErrorType DEF SessionLockSignal, Goto, TaskOK
<1>24. CASE RequestStatus \/ RequestSuspend \/ ShutdownStatus \/ RequestPower
  BY <1>0, <1>24 DEF RequestStatus, RequestSuspend, ShutdownStatus, RequestPower,
     Goto, TaskOK
<1>25. CASE RequestShield
  BY <1>0, <1>25 DEF RequestShield, Goto, TaskOK, Cycles
<1>26. CASE ShutdownCall \/ ShutdownWithdrawn
  BY <1>0, <1>26 DEF ShutdownCall, ShutdownWithdrawn, Goto, TaskOK
<1> QED
  BY <1>1, <1>2, <1>3, <1>4, <1>5, <1>6, <1>7, <1>8, <1>9, <1>10, <1>11, <1>12, <1>13,
     <1>14, <1>15, <1>16, <1>17, <1>18, <1>19, <1>20, <1>21, <1>22, <1>23, <1>24, <1>25,
     <1>26
  DEF Next, Environment, Coordinator, Menu, vars, LockStep, DisplayChanges, LateCommand,
      SleepRequested, FallAsleep, Wake, SeatMoves, DockMoves, LidMoves, Cancel, Submit

\* The variables keep their types: every step of the task, whatever it read
\* and whichever call failed, leaves a cycle, a snapshot and a reply it knows.
THEOREM PowerTypeCorrect == Spec => []TypeOK
<1>1. TypeOK /\ [Next]_vars => TypeOK'
  BY TypePartsNext, CompositorStep, MachineStep, TaskStep, MenuStep, HistoryStep
<1> QED BY TypeInit, <1>1, PTL DEF Spec

-----------------------------------------------------------------------------
(***************************************************************************)
(* What the parts of a turn leave alone.                                   *)
(***************************************************************************)

SameButPhase(c, d) ==
  /\ d.delay = c.delay /\ d.lid = c.lid /\ d.lastClosed = c.lastClosed
  /\ d.controlling = c.controlling /\ d.sleeping = c.sleeping
  /\ d.preparing = c.preparing /\ d.lidRequest = c.lidRequest
  /\ d.resumeAccepted = c.resumeAccepted /\ d.manual = c.manual

LEMMA ErrorKeeps == \A c \in Cycles : SameButPhase(c, Error(c))
BY DEF SameButPhase, Error, Cycles

LEMMA SettledKeeps == \A c \in Cycles : SameButPhase(c, Settled(c))
BY DEF SameButPhase, Settled, Cycles

LEMMA AfterRecoveringKeeps ==
  \A c \in Cycles, expired \in BOOLEAN : SameButPhase(c, AfterRecovering(c, expired))
<1> SUFFICES ASSUME NEW c \in Cycles, NEW expired \in BOOLEAN
             PROVE  SameButPhase(c, AfterRecovering(c, expired))
  OBVIOUS
<1>1. SameButPhase(c, c)
  BY DEF SameButPhase
<1>2. SameButPhase(c, [c EXCEPT !.phase = "recovering"])
  BY DEF SameButPhase, Cycles
<1>3. SameButPhase(c, [c EXCEPT !.recovering = FALSE, !.phase = "awake"])
  BY DEF SameButPhase, Cycles
<1>4. SameButPhase(c, [Error(c) EXCEPT !.recovering = FALSE])
  BY DEF SameButPhase, Error, Cycles
<1> QED BY <1>1, <1>2, <1>3, <1>4 DEF AfterRecovering

LEMMA AfterPreparingKeeps ==
  \A c \in Cycles, expired \in BOOLEAN :
    LET d == AfterPreparing(c, expired)
    IN  /\ d.sleeping = c.sleeping /\ d.lidRequest = c.lidRequest /\ d.manual = c.manual
        /\ d.lastClosed = c.lastClosed /\ d.resumeAccepted = c.resumeAccepted
        /\ d.recovering = c.recovering /\ d.phase \in {c.phase, "sleeping", "degraded"}
        /\ \/ d.delay = c.delay /\ d.preparing = c.preparing
           \/ /\ c.preparing /\ ~d.delay /\ ~d.preparing
              /\ seen.confirmed \/ expired
<1> SUFFICES ASSUME NEW c \in Cycles, NEW expired \in BOOLEAN
             PROVE  LET d == AfterPreparing(c, expired)
                    IN  /\ d.sleeping = c.sleeping /\ d.lidRequest = c.lidRequest
                        /\ d.manual = c.manual
                        /\ d.lastClosed = c.lastClosed
                        /\ d.resumeAccepted = c.resumeAccepted
                        /\ d.recovering = c.recovering
                        /\ d.phase \in {c.phase, "sleeping", "degraded"}
                        /\ \/ d.delay = c.delay /\ d.preparing = c.preparing
                           \/ /\ c.preparing /\ ~d.delay /\ ~d.preparing
                              /\ seen.confirmed \/ expired
  OBVIOUS
<1>1. CASE c.preparing /\ seen.confirmed
  BY <1>1 DEF AfterPreparing, Cycles
<1>2. CASE c.preparing /\ ~seen.confirmed /\ expired
  BY <1>2 DEF AfterPreparing, Error, Cycles
<1>3. CASE ~(c.preparing /\ seen.confirmed) /\ ~(c.preparing /\ ~seen.confirmed /\ expired)
  BY <1>3 DEF AfterPreparing
<1> QED BY <1>1, <1>2, <1>3

LEMMA AfterUnlockKeeps ==
  \A c \in Cycles :
    LET d == AfterUnlock(c)
    IN  /\ d.delay = c.delay /\ d.sleeping = c.sleeping /\ d.preparing = c.preparing
        /\ d.lidRequest = c.lidRequest /\ d.lastClosed = c.lastClosed
        /\ d.resumeAccepted = c.resumeAccepted /\ d.recovering = c.recovering
        /\ d.phase = c.phase
        /\ d.manual = c.manual \/ d.manual = "none"
BY DEF AfterUnlock, Cycles

\* What Act does to the cycle as a whole: the display is found to have recovered,
\* or the phase does not become "awake".
LEMMA ActKeeps ==
  ASSUME TypeOK, Act
  PROVE  /\ cycle'.sleeping = cycle.sleeping /\ cycle'.lidRequest = cycle.lidRequest
         /\ cycle'.lastClosed = cycle.lastClosed
         /\ cycle'.resumeAccepted = cycle.resumeAccepted
         /\ cycle'.recovering => cycle.recovering
         /\ cycle'.manual \in {cycle.manual, "none"}
         /\ cycle'.phase = "awake" =>
              \/ cycle.phase = "awake"
              \/ /\ cycle.recovering /\ cycle.resumeAccepted
                 /\ seen.confirmed \/ seen.locked = "no"
<1>1. PICK e1, e2 \in BOOLEAN :
        LET c == AfterUnlock(AfterRecovering(AfterPreparing(cycle, e1), e2))
        IN  cycle' = c \/ cycle' = [c EXCEPT !.manual = "none"]
  BY DEF Act
<1> DEFINE p == AfterPreparing(cycle, e1)
           r == AfterRecovering(p, e2)
           c == AfterUnlock(r)
<1>2. p \in Cycles /\ r \in Cycles /\ c \in Cycles
  BY AfterPreparingType, AfterRecoveringType, AfterUnlockType DEF TypeOK
<1>3. SameButPhase(p, r)
  BY <1>2, AfterRecoveringKeeps
<1>4. /\ r.recovering => p.recovering
      /\ r.phase = "awake" =>
           p.phase = "awake" \/ (p.recovering /\ Recovered(p))
  <2>1. p.recovering \in BOOLEAN
    BY <1>2 DEF Cycles
  <2> HIDE DEF p
  <2> QED BY <1>2, <2>1 DEF AfterRecovering, Error, Cycles
<1>5. /\ p.sleeping = cycle.sleeping /\ p.lidRequest = cycle.lidRequest
      /\ p.manual = cycle.manual /\ p.lastClosed = cycle.lastClosed
      /\ p.resumeAccepted = cycle.resumeAccepted /\ p.recovering = cycle.recovering
      /\ p.phase \in {cycle.phase, "sleeping", "degraded"}
  <2>1. cycle \in Cycles
    BY DEF TypeOK
  <2> QED BY <2>1, AfterPreparingKeeps
<1>6. /\ c.sleeping = r.sleeping /\ c.lidRequest = r.lidRequest /\ c.lastClosed = r.lastClosed
      /\ c.resumeAccepted = r.resumeAccepted /\ c.recovering = r.recovering
      /\ c.phase = r.phase /\ c.manual \in {r.manual, "none"}
  BY <1>2, AfterUnlockKeeps
<1>7. cycle' = c \/ cycle' = [c EXCEPT !.manual = "none"]
  BY <1>1
<1> HIDE DEF p, r, c
<1>8. /\ cycle'.sleeping = c.sleeping /\ cycle'.lidRequest = c.lidRequest
      /\ cycle'.lastClosed = c.lastClosed /\ cycle'.resumeAccepted = c.resumeAccepted
      /\ cycle'.recovering = c.recovering /\ cycle'.phase = c.phase
      /\ cycle'.manual \in {c.manual, "none"}
  BY <1>2, <1>7 DEF Cycles
<1> QED BY <1>3, <1>4, <1>5, <1>6, <1>8 DEF SameButPhase, Recovered

-----------------------------------------------------------------------------
(***************************************************************************)
(* The gate of an accepted or ambiguous shutdown.  While it is closed no   *)
(* other power call is prepared: the call set it with nothing pending, and *)
(* nothing starts behind it.                                               *)
(***************************************************************************)
CallLabels == {"manualSnapshot", "manualStatus", "manualSeat", "manualSuspend",
               "lidSeat", "lidSuspend", "requestStatus", "requestShield"}

GateInv ==
  /\ unresolved => gate
  /\ gate => cycle.manual # "pending" /\ ~cycle.lidRequest /\ pc \notin CallLabels

LEMMA GateInit == Init => GateInv
BY DEF Init, GateInv

LEMMA GateStep ==
  ASSUME TypeOK, GateInv, [Next]_vars
  PROVE  GateInv'
<1>0. cycle \in Cycles /\ gate \in BOOLEAN /\ snap \in Snapshots
  BY DEF TypeOK
<1>4. ~ShutdownCall => UNCHANGED <<gate, unresolved>>
  BY DEF Next, Environment, Coordinator, Menu, vars, menu, history, Answer,
      Dropped, ManualFails, LockStep, DisplayChanges, LateCommand,
      SleepRequested, FallAsleep, Wake, SeatMoves, DockMoves, LidMoves,
      Connect, Arm, ArmFailed, Reshield, Resume, BusLost, ShieldAfterLoss,
      SleepSignal, SleepStarts, SleepEnds, Tick, LidShield, ReadStatus, Act,
      ManualSnapshot, ManualStatus, ManualSeat, ManualSuspend, Lid, LidSeat, LidSuspend,
      Timer, Poll, SessionLockSignal, RequestStatus, RequestSuspend, RequestShield,
      ShutdownStatus, RequestPower, ShutdownWithdrawn, Cancel, Submit
<1>1. CASE ShutdownCall
  BY <1>1 DEF ShutdownCall, ShutdownAvailable, Goto, GateInv, CallLabels
<1>2. CASE ~ShutdownCall /\ gate
  <2>1. cycle.manual # "pending" /\ ~cycle.lidRequest /\ pc \notin CallLabels
    BY <1>2 DEF GateInv
  <2>2. SameButPhase(cycle, Error(cycle))
    BY <1>0, ErrorKeeps
  <2>3. ASSUME UNCHANGED task
        PROVE  cycle'.manual # "pending" /\ ~cycle'.lidRequest /\ pc' \notin CallLabels
    BY <2>1, <2>3 DEF task
  <2>4. ASSUME Connect \/ ArmFailed \/ Reshield \/ ShieldAfterLoss \/ SleepSignal
               \/ LidShield \/ ReadStatus \/ Timer \/ Poll \/ SessionLockSignal
               \/ ShutdownStatus \/ RequestPower \/ ShutdownWithdrawn
        PROVE  cycle'.manual # "pending" /\ ~cycle'.lidRequest /\ pc' \notin CallLabels
    <3>1. cycle' \in {cycle, Error(cycle)}
      BY <2>4 DEF Connect, ArmFailed, Reshield, ShieldAfterLoss, SleepSignal,
         LidShield, ReadStatus, Timer, Poll, SessionLockSignal, ShutdownStatus,
         RequestPower, ShutdownWithdrawn
    <3>2. pc' \notin CallLabels
      BY <2>4 DEF Connect, ArmFailed, Reshield, ShieldAfterLoss, SleepSignal,
         LidShield, ReadStatus, Timer, Poll, SessionLockSignal, ShutdownStatus,
         RequestPower, ShutdownWithdrawn, Goto, CallLabels
    <3> QED BY <2>1, <2>2, <3>1, <3>2 DEF SameButPhase
  <2>5. ASSUME Resume
        PROVE  cycle'.manual # "pending" /\ ~cycle'.lidRequest /\ pc' \notin CallLabels
    BY <1>0, <2>1, <2>2, <2>5 DEF Resume, Goto, CallLabels, SameButPhase, Cycles
  <2>6. ASSUME Arm \/ BusLost \/ SleepStarts \/ SleepEnds
        PROVE  cycle'.manual # "pending" /\ ~cycle'.lidRequest /\ pc' \notin CallLabels
    <3>0. NewCycle \in Cycles /\ NewCycle.manual = "none" /\ ~NewCycle.lidRequest
      BY NewCycleType DEF NewCycle
    <3>1. CASE Arm
      BY <3>0, <3>1 DEF Arm, Goto, CallLabels, Cycles
    <3>2. CASE BusLost
      BY <3>0, <3>2 DEF BusLost, Dropped, Goto, CallLabels
    <3>3. CASE SleepStarts
      BY <1>0, <2>1, <3>3 DEF SleepStarts, Cycles
    <3>4. CASE SleepEnds
      BY <1>0, <3>0, <3>4 DEF SleepEnds, Dropped, Goto, CallLabels, Cycles
    <3> QED BY <2>6, <3>1, <3>2, <3>3, <3>4
  <2>7. ASSUME Tick
        PROVE  cycle'.manual # "pending" /\ ~cycle'.lidRequest /\ pc' \notin CallLabels
    BY <1>0, <1>2, <2>1, <2>7 DEF Tick, Cycles, CallLabels
  <2>8. ASSUME Act
        PROVE  cycle'.manual # "pending" /\ ~cycle'.lidRequest /\ pc' \notin CallLabels
    <3>1. PICK e1, e2 \in BOOLEAN :
            LET c == AfterUnlock(AfterRecovering(AfterPreparing(cycle, e1), e2))
            IN  \/ c.manual # "pending" /\ cycle' = c /\ pc' = "lid"
                \/ c.manual = "pending"
      BY <2>8 DEF Act, Goto
    <3>2. LET c == AfterUnlock(AfterRecovering(AfterPreparing(cycle, e1), e2))
          IN  c.manual # "pending" /\ ~c.lidRequest
      <4>1. AfterPreparing(cycle, e1) \in Cycles
        BY <1>0, AfterPreparingType
      <4>2. AfterRecovering(AfterPreparing(cycle, e1), e2) \in Cycles
        BY <4>1, AfterRecoveringType
      <4> QED BY <1>0, <2>1, <4>1, <4>2, AfterPreparingKeeps, AfterRecoveringKeeps,
                 AfterUnlockKeeps DEF SameButPhase
    <3> QED BY <3>1, <3>2 DEF CallLabels
  <2>9. ASSUME Lid
        PROVE  cycle'.manual # "pending" /\ ~cycle'.lidRequest /\ pc' \notin CallLabels
    <3>1. cycle' = Settled(cycle) /\ pc' = "idle"
      BY <2>1, <2>9 DEF Lid, Goto
    <3> QED BY <1>0, <2>1, <3>1, SettledKeeps DEF SameButPhase, CallLabels
  <2>10. ~RequestStatus /\ ~RequestSuspend /\ ~RequestShield
    BY <1>2, <2>1 DEF RequestStatus, RequestSuspend, RequestShield, At, CallLabels
  <2>11. ~ManualSnapshot /\ ~ManualStatus /\ ~ManualSeat /\ ~ManualSuspend /\ ~LidSeat /\ ~LidSuspend
    BY <2>1 DEF ManualSnapshot, ManualStatus, ManualSeat, ManualSuspend, LidSeat,
       LidSuspend, At, CallLabels
  <2>12. cycle'.manual # "pending" /\ ~cycle'.lidRequest /\ pc' \notin CallLabels
    BY <1>2, <2>3, <2>4, <2>5, <2>6, <2>7, <2>8, <2>9, <2>10, <2>11
    DEF Next, Environment, Coordinator, Menu, vars, LockStep, DisplayChanges,
        LateCommand, SleepRequested, FallAsleep, Wake, SeatMoves, DockMoves, LidMoves,
        Cancel, Submit
  <2> QED BY <1>2, <1>4, <2>12 DEF GateInv
<1>3. CASE ~ShutdownCall /\ ~gate
  BY <1>3, <1>4 DEF GateInv
<1> QED BY <1>0, <1>1, <1>2, <1>3

\* After a shutdown call that logind has not rejected no other power call is
\* made, whatever the lid, the menu, the bus and the machine do, for any number
\* of signals and lost commands.
THEOREM ShutdownLast == Spec => ShutdownIsFinal
<1>1. GateInv /\ [Next]_vars => [unresolved => ~(ShutdownCall \/ LidSuspend \/ ManualSuspend)]_vars
  BY DEF GateInv, ShutdownCall, ShutdownAvailable, LidSuspend, ManualSuspend, At,
     CallLabels
<1>2. TypeOK /\ GateInv /\ [Next]_vars => GateInv'
  BY GateStep
<1> QED BY <1>1, <1>2, GateInit, PowerTypeCorrect, PTL DEF Spec, ShutdownIsFinal

-----------------------------------------------------------------------------
(***************************************************************************)
(* The sleep handshake.  In a sleep that kept to its budgets (Guarded) the *)
(* task has latched the shield as soon as it knows of the sleep, and it    *)
(* gives its delay up only after reading a confirmation from then on; the  *)
(* latch keeps the desktop sealed from there, whoever unlocks.             *)
(***************************************************************************)
LockInv ==
  /\ latch => phase # "open"
  /\ confirmed => sealed

Guarded == power # "awake" /\ ~unprotected

SleepInv ==
  /\ LockInv
  /\ cycle.preparing => cycle.sleeping
  /\ Guarded =>
       /\ cycle.sleeping => latch
       /\ ~cycle.delay => latch /\ sealed
       /\ pc = "act" /\ cycle.preparing /\ seen.confirmed => sealed
       /\ power = "asleep" => ~cycle.delay

LEMMA SleepInit == Init => SleepInv
BY DEF Init, Lock!Init, SleepInv, LockInv, Guarded, NewCycle

\* A command never undoes the shield, and only session-resume the latch.
LEMMA ExecutedKeeps ==
  ASSUME TypeOK, LockInv, NEW command, Executed(command)
  PROVE  /\ LockInv'
         /\ sealed => sealed'
         /\ command # "session-resume" => (latch => latch')
         /\ command = "prepare-sleep" => latch'
<1>0. /\ phase \in {"open", "shielded", "held"} /\ sealed \in BOOLEAN /\ latch \in BOOLEAN
      /\ latch => phase # "open"
      /\ confirmed => sealed
  BY DEF TypeOK, Lock!TypeOK, LockInv
<1>1. CASE command \in {"lock-shield", "prepare-sleep"} /\ Lock!Shield /\ confirmed' = FALSE
  <2>1. LockInv' /\ (sealed => sealed') /\ (latch => latch')
    BY <1>1 DEF Lock!Shield, Lock!Sealing, LockInv
  <2>2. command = "prepare-sleep" => latch'
    BY <1>0, <1>1 DEF Executed, Lock!Shield, Lock!PrepareSleep
  <2> QED BY <2>1, <2>2
<1>2. CASE command = "lock-shield" /\ phase # "open" /\ UNCHANGED <<lock, confirmed>>
  BY <1>0, <1>2 DEF lock, LockInv
<1>3. CASE command = "prepare-sleep" /\ Lock!PrepareSleep /\ UNCHANGED confirmed
  BY <1>0, <1>3 DEF Lock!PrepareSleep, LockInv
<1>4. CASE command = "session-resume" /\ Lock!Resume /\ confirmed' = FALSE
  BY <1>0, <1>4 DEF Lock!Resume, LockInv
<1> QED BY <1>1, <1>2, <1>3, <1>4 DEF Executed

LEMMA CommandKeeps ==
  ASSUME TypeOK, LockInv, NEW command, NEW accepted \in BOOLEAN, Command(command, accepted)
  PROVE  /\ LockInv'
         /\ sealed => sealed'
         /\ command # "session-resume" => (latch => latch')
         /\ command = "prepare-sleep" /\ accepted => latch'
<1>1. CASE Executed(command)
  BY <1>1, ExecutedKeeps
<1>2. CASE ~accepted /\ UNCHANGED <<lock, confirmed>>
  BY <1>2 DEF lock, LockInv
<1> QED BY <1>1, <1>2 DEF Command

LEMMA LockStepKeeps ==
  ASSUME TypeOK, LockInv, LockStep
  PROVE  LockInv' /\ latch' = latch /\ (latch /\ sealed => sealed')
BY DEF LockStep, TypeOK, LockInv, Lock!TypeOK, Lock!Shield, Lock!Acknowledge, Lock!Seal,
   Lock!Release, Lock!Claim, Lock!Sealing

\* A step of a guarded sleep that keeps the latch, the seal, and what the task
\* holds.
LEMMA QuietStep ==
  ASSUME SleepInv, LockInv',
         Guarded' => Guarded /\ power' = power,
         Guarded' => (latch => latch') /\ (latch /\ sealed => sealed'),
         cycle'.preparing => cycle'.sleeping,
         cycle'.sleeping => cycle.sleeping,
         cycle'.preparing => cycle.preparing,
         ~cycle'.delay => ~cycle.delay,
         power = "asleep" => cycle' = cycle,
         pc' # "act" \/ UNCHANGED <<pc, seen>>
  PROVE  SleepInv'
BY DEF SleepInv, Guarded

\* In a guarded sleep nothing takes the latch, nor the seal while it is set.
LEMMA ShieldKept ==
  ASSUME TypeOK, LockInv, [Next]_vars
  PROVE  /\ LockInv'
         /\ Guarded' => (latch => latch') /\ (latch /\ sealed => sealed')
<1>0. power \in {"awake", "preparing", "asleep"}
  BY DEF TypeOK
<1>1. CASE UNCHANGED compositor
  BY <1>1 DEF compositor, lock, LockInv
<1>2. CASE LockStep
  BY <1>2, LockStepKeeps
<1>3. CASE DisplayChanges \/ ReadStatus
  BY <1>3 DEF DisplayChanges, ReadStatus, lock, LockInv
<1>4. CASE LateCommand
  <2>1. PICK command \in late :
          /\ Executed(command)
          /\ unprotected' = (unprotected \/ (command = "session-resume" /\ power = "preparing"))
    BY <1>4 DEF LateCommand
  <2>2. power = "awake" \/ power = "preparing"
    BY <1>0, <1>4 DEF LateCommand
  <2>3. power' = power
    BY <1>4 DEF LateCommand, machine
  <2> QED BY <2>1, <2>2, <2>3, ExecutedKeeps DEF Guarded
<1>5. CASE Resume
  <2>1. LockInv'
    BY <1>5, CommandKeeps DEF Resume
  <2>2. ~Guarded'
    BY <1>0, <1>5 DEF Resume, At, Running, machine, Guarded
  <2> QED BY <2>1, <2>2
<1>6. CASE Reshield \/ ShieldAfterLoss \/ SleepStarts \/ LidShield \/ SessionLockSignal
           \/ RequestShield
  <2>1. PICK command \in {"lock-shield", "prepare-sleep"}, accepted \in BOOLEAN :
          Command(command, accepted)
    BY <1>6 DEF Reshield, ShieldAfterLoss, SleepStarts, LidShield, SessionLockSignal,
       RequestShield
  <2> QED BY <2>1, CommandKeeps
<1> QED
  BY <1>1, <1>2, <1>3, <1>4, <1>5, <1>6
  DEF Next, Environment, Coordinator, Menu, vars, SleepRequested, FallAsleep, Wake,
      SeatMoves, DockMoves, LidMoves, Connect, Arm, ArmFailed, BusLost, SleepSignal,
      SleepEnds, Tick, Act, ManualSnapshot, ManualStatus, ManualSeat, ManualSuspend,
      Lid, LidSeat, LidSuspend, Timer, Poll, RequestStatus, RequestSuspend,
      ShutdownStatus, RequestPower, ShutdownCall, ShutdownWithdrawn, Cancel, Submit

SameSleep(c, d) == d.delay = c.delay /\ d.sleeping = c.sleeping /\ d.preparing = c.preparing

LEMMA QuietTurn ==
  ASSUME TypeOK, SleepInv, [Next]_vars, Running, UNCHANGED power, unprotected => unprotected',
         SameSleep(cycle, cycle'), pc' # "act"
  PROVE  SleepInv'
<1>1. unprotected \in BOOLEAN
  BY DEF TypeOK
<1> QED BY <1>1, ShieldKept, QuietStep DEF SleepInv, Running, SameSleep, Guarded

LEMMA SleepStep ==
  ASSUME TypeOK, SleepInv, [Next]_vars
  PROVE  SleepInv'
<1>0. /\ cycle \in Cycles /\ power \in {"awake", "preparing", "asleep"}
      /\ cycle.preparing => cycle.sleeping
      /\ unprotected \in BOOLEAN
  BY DEF TypeOK, SleepInv
<1>a. /\ LockInv'
      /\ Guarded' => (latch => latch') /\ (latch /\ sealed => sealed')
  BY ShieldKept DEF SleepInv
<1>b. SameButPhase(cycle, Error(cycle))
  BY <1>0, ErrorKeeps
<1>c. NewCycle \in Cycles /\ ~NewCycle.sleeping /\ ~NewCycle.preparing
  BY NewCycleType DEF NewCycle
<1>1. CASE UNCHANGED task /\ UNCHANGED power /\ (unprotected => unprotected')
  BY <1>0, <1>a, <1>1, QuietStep DEF task, Guarded
<1>2. CASE SleepRequested
  BY <1>0, <1>a, <1>2 DEF SleepRequested, StartsSleeping, task, SleepInv, Guarded
<1>3. CASE ManualSuspend \/ LidSuspend
  <2>1. SameSleep(cycle, cycle') /\ pc' # "act"
    BY <1>0, <1>b, <1>3, ErrorType, SettledKeeps
    DEF ManualSuspend, LidSuspend, Goto, SameButPhase, SameSleep
  <2>2. CASE StartsSleeping
    BY <1>0, <1>a, <2>1, <2>2 DEF StartsSleeping, SameSleep, SleepInv, Guarded
  <2>3. CASE UNCHANGED <<power, unprotected>>
    BY <1>3, <2>1, <2>3, QuietTurn DEF ManualSuspend, LidSuspend, At
  <2> QED BY <1>3, <2>2, <2>3 DEF ManualSuspend, LidSuspend, Suspend
<1>4. CASE FallAsleep
  BY <1>0, <1>a, <1>4 DEF FallAsleep, task, compositor, lock, SleepInv, Guarded
<1>5. CASE Wake
  BY <1>0, <1>a, <1>5 DEF Wake, task, SleepInv, Guarded
<1>6. CASE SleepStarts
  <2>1. PICK accepted \in BOOLEAN :
          /\ Command("prepare-sleep", accepted)
          /\ cycle'.sleeping /\ cycle'.preparing /\ cycle'.delay = cycle.delay
          /\ unprotected' = (unprotected \/ (~accepted /\ power = "preparing"))
    BY <1>0, <1>6 DEF SleepStarts, Cycles
  <2>2. accepted => latch'
    BY <2>1, CommandKeeps DEF SleepInv
  <2>3. pc' # "act" /\ power' = power /\ power \in {"awake", "preparing"}
    BY <1>0, <1>6 DEF SleepStarts, At, Running, machine
  <2> QED BY <1>0, <1>a, <2>1, <2>2, <2>3 DEF SleepInv, Guarded
<1>7. CASE SleepEnds \/ BusLost
  <2>1. pc' # "act" /\ power' = power /\ power \in {"awake", "preparing"}
    BY <1>0, <1>7 DEF SleepEnds, BusLost, Dropped, Goto, At, Running, machine
  <2>2. ~cycle'.sleeping /\ ~cycle'.preparing
    <3>1. CASE Dropped
      BY <1>c, <3>1 DEF Dropped
    <3>2. CASE SleepEnds /\ ~Dropped
      BY <1>0, <3>2 DEF SleepEnds, Cycles
    <3> QED BY <1>7, <3>1, <3>2 DEF BusLost
  <2>3. CASE Dropped
    BY <1>a, <2>1, <2>2, <2>3 DEF Dropped, SleepInv, Guarded
  <2>4. CASE cycle'.delay /\ UNCHANGED unprotected
    BY <1>a, <2>1, <2>2, <2>4 DEF SleepInv, Guarded
  <2>5. Dropped \/ (cycle'.delay /\ UNCHANGED unprotected)
    BY <1>0, <1>7 DEF SleepEnds, BusLost, Cycles
  <2> QED BY <2>3, <2>4, <2>5
<1>8. CASE Act
  <2>1. PICK e1, e2 \in BOOLEAN :
          /\ LET c == AfterUnlock(AfterRecovering(AfterPreparing(cycle, e1), e2))
             IN  cycle' = c \/ cycle' = [c EXCEPT !.manual = "none"]
          /\ unprotected' =
               \/ unprotected
               \/ e1 /\ ~seen.confirmed /\ cycle.preparing /\ power = "preparing"
    BY <1>8 DEF Act
  <2>2. /\ cycle'.sleeping = cycle.sleeping
        /\ \/ cycle'.delay = cycle.delay /\ cycle'.preparing = cycle.preparing
           \/ /\ cycle.preparing /\ ~cycle'.delay /\ ~cycle'.preparing
              /\ seen.confirmed \/ e1
    <3>1. AfterPreparing(cycle, e1) \in Cycles
      BY <1>0, AfterPreparingType
    <3>2. AfterRecovering(AfterPreparing(cycle, e1), e2) \in Cycles
      BY <3>1, AfterRecoveringType
    <3> DEFINE c == AfterUnlock(AfterRecovering(AfterPreparing(cycle, e1), e2))
    <3>3. c \in Cycles
      BY <3>2, AfterUnlockType
    <3>4. SameSleep(AfterPreparing(cycle, e1), c)
      BY <3>1, <3>2, AfterRecoveringKeeps, AfterUnlockKeeps DEF SameButPhase, SameSleep
    <3>5. SameSleep(c, cycle')
      <4> HIDE DEF c
      <4>1. cycle' = c \/ cycle' = [c EXCEPT !.manual = "none"]
        BY <2>1 DEF c
      <4> QED BY <3>3, <4>1 DEF SameSleep, Cycles
    <3> HIDE DEF c
    <3> QED BY <1>0, <3>4, <3>5, AfterPreparingKeeps DEF SameSleep
  <2>3. /\ pc = "act" /\ pc' # "act" /\ UNCHANGED compositor
        /\ power' = power /\ power \in {"awake", "preparing"}
    BY <1>0, <1>8 DEF Act, Goto, At, Running, machine
  <2>4. seen.confirmed \in BOOLEAN
    BY DEF TypeOK, Replies
  <2> QED BY <1>0, <1>a, <2>1, <2>2, <2>3, <2>4 DEF SleepInv, Guarded, compositor, lock
<1>9. CASE ReadStatus
  <2>1. /\ pc' = "act" /\ power' = power /\ power \in {"awake", "preparing"}
        /\ UNCHANGED <<unprotected, sealed, latch>>
    BY <1>0, <1>9 DEF ReadStatus, Goto, At, Running, machine, history, lock
  <2>2. seen'.confirmed => sealed
    BY <1>9 DEF ReadStatus, Status, NoReply, SleepInv, LockInv
  <2>3. SameSleep(cycle, cycle')
    BY <1>b, <1>9 DEF ReadStatus, SameButPhase, SameSleep
  <2> QED BY <1>0, <1>a, <2>1, <2>2, <2>3 DEF SameSleep, SleepInv, Guarded
<1>10. CASE Arm
  <2>1. cycle'.delay /\ ~cycle'.sleeping /\ ~cycle'.preparing
    BY <1>c, <1>10 DEF Arm, Cycles
  <2>2. pc' # "act" /\ power' = power /\ power \in {"awake", "preparing"}
    BY <1>0, <1>10 DEF Arm, Goto, At, Running, machine
  <2> QED BY <1>a, <2>1, <2>2 DEF SleepInv, Guarded
<1>11. CASE Reshield \/ ShieldAfterLoss \/ SleepSignal \/ LidShield \/ Timer \/ Poll
            \/ SessionLockSignal \/ LidSeat \/ RequestStatus \/ RequestSuspend \/ ShutdownStatus \/ RequestPower
            \/ ShutdownCall \/ ShutdownWithdrawn \/ Connect \/ ArmFailed
  <2>1. SameSleep(cycle, cycle')
    BY <1>b, <1>11
    DEF Reshield, ShieldAfterLoss, SleepSignal, LidShield, Timer, Poll,
        SessionLockSignal, LidSeat, RequestStatus, RequestSuspend, ShutdownStatus,
        RequestPower, ShutdownCall, ShutdownWithdrawn, Connect, ArmFailed,
        SameButPhase, SameSleep
  <2>2. Running /\ UNCHANGED <<power, unprotected>> /\ pc' # "act"
    BY <1>11
    DEF Reshield, ShieldAfterLoss, SleepSignal, LidShield, Timer, Poll,
        SessionLockSignal, LidSeat, RequestStatus, RequestSuspend, ShutdownStatus,
        RequestPower, ShutdownCall, ShutdownWithdrawn, Connect, ArmFailed, At, Goto,
        machine, history
  <2> QED BY <2>1, <2>2, QuietTurn
<1>12. CASE Resume \/ Tick \/ ManualSnapshot \/ ManualStatus \/ ManualSeat \/ Lid \/ RequestShield
  <2>1. SameSleep(cycle, cycle')
    <3>1. CASE Resume
      BY <1>0, <1>b, <3>1 DEF Resume, SameButPhase, SameSleep, Cycles
    <3>2. CASE Tick
      BY <1>0, <3>2 DEF Tick, SameSleep, Cycles
    <3>3. CASE ManualSnapshot \/ ManualStatus \/ ManualSeat \/ RequestShield
      BY <1>0, <1>b, <3>3, ErrorType
      DEF ManualSnapshot, ManualStatus, ManualSeat, ManualFails, RequestShield,
          SameButPhase, SameSleep, Cycles
    <3>4. CASE Lid
      <4>1. PICK c \in {cycle, [cycle EXCEPT !.lidRequest = FALSE],
                        [Error(cycle) EXCEPT !.lidRequest = FALSE]} :
              cycle' \in {c, Settled(c)}
        BY <3>4 DEF Lid
      <4>2. c \in Cycles /\ SameSleep(cycle, c)
        BY <1>0, <1>b, ErrorType DEF SameButPhase, SameSleep, Cycles
      <4> QED BY <4>1, <4>2, SettledKeeps DEF SameButPhase, SameSleep
    <3> QED BY <1>12, <3>1, <3>2, <3>3, <3>4
  <2>2. Running /\ UNCHANGED power /\ pc' # "act"
    <3>1. CASE Resume \/ RequestShield
      BY <3>1 DEF Resume, RequestShield, At, Goto, machine
    <3>2. CASE Tick
      BY <3>2 DEF Tick, At, machine
    <3>3. CASE ManualSnapshot \/ ManualStatus \/ ManualSeat
      BY <3>3 DEF ManualSnapshot, ManualStatus, ManualSeat, ManualFails, At, Goto,
         machine
    <3>4. CASE Lid
      BY <3>4 DEF Lid, At, Goto, machine
    <3> QED BY <1>12, <3>1, <3>2, <3>3, <3>4
  <2>3. unprotected => unprotected'
    <3>1. CASE Resume
      BY <3>1 DEF Resume
    <3>2. CASE Tick \/ ManualSnapshot \/ ManualStatus \/ ManualSeat \/ Lid \/ RequestShield
      BY <3>2 DEF Tick, ManualSnapshot, ManualStatus, ManualSeat, Lid, RequestShield,
         history
    <3> QED BY <1>12, <3>1, <3>2
  <2> QED BY <2>1, <2>2, <2>3, QuietTurn
<1>13. CASE UNCHANGED vars \/ LockStep \/ DisplayChanges \/ SeatMoves \/ DockMoves
            \/ LidMoves \/ Menu
  BY <1>1, <1>13
  DEF LockStep, DisplayChanges, SeatMoves, DockMoves, LidMoves, Menu, Cancel, Submit,
      vars, machine, history
<1>14. CASE LateCommand
  BY <1>1, <1>14 DEF LateCommand, machine
<1> QED
  BY <1>2, <1>3, <1>4, <1>5, <1>6, <1>7, <1>8, <1>9, <1>10, <1>11, <1>12, <1>13, <1>14
  DEF Next, Environment, Coordinator

\* A sleep that kept to its budgets starts with the desktop sealed and the latch
\* set, for any backlog of signals, any lost commands and any lockers.
THEOREM SleepIsSealed == Spec => []ProtectedSleepIsSealed
<1>1. TypeOK /\ SleepInv /\ [Next]_vars => SleepInv'
  BY SleepStep
<1>2. TypeOK /\ SleepInv => ProtectedSleepIsSealed
  BY DEF SleepInv, LockInv, Guarded, ProtectedSleepIsSealed
<1> QED BY <1>1, <1>2, SleepInit, PowerTypeCorrect, PTL DEF Spec

-----------------------------------------------------------------------------
(***************************************************************************)
(* A Suspend call is never repeated.  For the menu: a request that waits   *)
(* for the shield, or whose checks are being made, is the one in flight;   *)
(* what frees the slot also ends the wait.  For the lid: the level of the  *)
(* switch is never taken for a closure, because a lid that was open when   *)
(* the task last looked and is closed now has been closed since the last   *)
(* Suspend call.                                                           *)
(***************************************************************************)
ManualChecks == {"manualSnapshot", "manualStatus", "manualSeat"}

RequestInv ==
  /\ cycle.manual = "pending" => request = "suspend"
  /\ pc \in ManualChecks => cycle.manual = "pending"
  /\ pc = "manualSuspend" => request = "suspend"
  /\ pc \in {"requestStatus", "requestShield"} => request = "suspend"
  /\ pc \in {"manualSuspend", "requestStatus", "requestShield", "shutdownStatus", "shutdown"}
       => cycle.manual # "pending"

LEMMA RequestInit == Init => RequestInv
BY DEF Init, RequestInv, NewCycle, ManualChecks

RequestLabels == ManualChecks \cup {"manualSuspend", "requestStatus", "requestShield",
                                    "shutdownStatus", "shutdown"}

\* A step between other points of a turn that neither makes a request wait nor
\* frees the slot of one that does.
LEMMA RequestQuiet ==
  ASSUME RequestInv, pc' \notin RequestLabels,
         cycle'.manual = "pending" => cycle.manual = "pending" /\ request' = request
  PROVE  RequestInv'
BY DEF RequestInv, RequestLabels, ManualChecks

LEMMA RequestStep ==
  ASSUME TypeOK, GateInv, RequestInv, [Next]_vars
  PROVE  RequestInv'
<1>0. /\ cycle \in Cycles
      /\ SameButPhase(cycle, Error(cycle)) /\ Error(cycle) \in Cycles
  BY ErrorKeeps, ErrorType DEF TypeOK
<1>1. CASE UNCHANGED <<pc, cycle, request>>
  BY <1>1 DEF RequestInv
<1>2. CASE \E kind \in Requests : Submit(kind)
  BY <1>2 DEF Submit, task, RequestInv, ManualChecks
<1>3. CASE Connect \/ ArmFailed \/ Reshield \/ ShieldAfterLoss \/ SleepSignal \/ LidShield
           \/ ReadStatus \/ Timer \/ Poll \/ SessionLockSignal \/ LidSeat
  <2>1. cycle' \in {cycle, Error(cycle)} /\ request' = request
    BY <1>3 DEF Connect, ArmFailed, Reshield, ShieldAfterLoss, SleepSignal, LidShield,
       ReadStatus, Timer, Poll, SessionLockSignal, LidSeat, menu
  <2>2. pc' \notin RequestLabels
    BY <1>3 DEF Connect, ArmFailed, Reshield, ShieldAfterLoss, SleepSignal, LidShield,
       ReadStatus, Timer, Poll, SessionLockSignal, LidSeat, Goto, RequestLabels,
       ManualChecks
  <2> QED BY <1>0, <2>1, <2>2, RequestQuiet DEF SameButPhase
<1>4. CASE Arm \/ Resume
  <2>1. cycle'.manual \in {"none", cycle.manual} /\ request' = request
    <3>1. CASE Arm
      BY <3>1 DEF Arm, NewCycle, menu
    <3>2. CASE Resume
      BY <1>0, <3>2 DEF Resume, menu, SameButPhase, Cycles
    <3> QED BY <1>4, <3>1, <3>2
  <2>2. pc' \notin RequestLabels
    BY <1>4 DEF Arm, Resume, Goto, RequestLabels, ManualChecks
  <2> QED BY <2>1, <2>2, RequestQuiet
<1>5. CASE BusLost \/ SleepStarts \/ SleepEnds
  <2>1. cycle'.manual = "none"
    <3>1. NewCycle.manual = "none"
      BY DEF NewCycle
    <3>2. CASE BusLost
      BY <3>1, <3>2 DEF BusLost, Dropped
    <3>3. CASE SleepStarts
      BY <1>0, <3>3 DEF SleepStarts, Cycles
    <3>4. CASE SleepEnds
      BY <1>0, <3>1, <3>4 DEF SleepEnds, Dropped, Cycles
    <3> QED BY <1>5, <3>2, <3>3, <3>4
  <2>2. pc' \notin RequestLabels
    BY <1>5 DEF BusLost, SleepStarts, SleepEnds, Dropped, Goto, At, RequestLabels,
       ManualChecks
  <2> QED BY <2>1, <2>2, RequestQuiet
<1>6. CASE Tick \/ Lid \/ LidSuspend
  <2>1. cycle'.manual = cycle.manual
    <3>1. CASE Tick
      BY <1>0, <3>1 DEF Tick, Cycles
    <3>2. CASE Lid
      <4>1. PICK c \in {cycle, [cycle EXCEPT !.lidRequest = FALSE],
                        [Error(cycle) EXCEPT !.lidRequest = FALSE]} :
              cycle' \in {c, Settled(c)}
        BY <3>2 DEF Lid
      <4>2. c \in Cycles /\ c.manual = cycle.manual
        BY <1>0 DEF SameButPhase, Cycles
      <4> QED BY <4>1, <4>2, SettledKeeps DEF SameButPhase
    <3>3. CASE LidSuspend
      BY <1>0, <3>3, SettledKeeps DEF LidSuspend, SameButPhase
    <3> QED BY <1>6, <3>1, <3>2, <3>3
  <2>2. pc' \notin RequestLabels
    BY <1>6 DEF Tick, Lid, LidSuspend, Goto, RequestLabels, ManualChecks
  <2>3. request' = request
    BY <1>6 DEF Tick, Lid, LidSuspend, menu
  <2> QED BY <2>1, <2>2, <2>3, RequestQuiet
<1>7. CASE Act
  <2> DEFINE c(e1, e2) == AfterUnlock(AfterRecovering(AfterPreparing(cycle, e1), e2))
  <2>1. PICK e1, e2 \in BOOLEAN :
          \/ /\ c(e1, e2).manual # "pending" /\ cycle' = c(e1, e2) /\ pc' = "lid"
             /\ request' = request
          \/ cycle' = [c(e1, e2) EXCEPT !.manual = "none"] /\ pc' = "lid"
          \/ /\ c(e1, e2).manual = "pending" /\ cycle' = c(e1, e2)
             /\ pc' \in {"manualSnapshot", "lid"} /\ request' = request
    BY <1>7 DEF Act, Goto
  <2>2. c(e1, e2) \in Cycles
    BY <1>0, AfterPreparingType, AfterRecoveringType, AfterUnlockType
  <2>3. cycle'.manual = "pending" => cycle.manual = "pending"
    BY <1>7, ActKeeps
  <2> HIDE DEF c
  <2>4. cycle'.manual = "pending" => request' = request
    BY <2>1, <2>2 DEF Cycles
  <2>5. pc' = "manualSnapshot" => cycle'.manual = "pending"
    BY <2>1
  <2>6. pc' \in {"lid", "manualSnapshot"}
    BY <2>1
  <2> QED BY <2>3, <2>4, <2>5, <2>6 DEF RequestInv, ManualChecks
<1>8. CASE ManualSnapshot \/ ManualStatus \/ ManualSeat
  <2>1. pc \in ManualChecks
    BY <1>8 DEF ManualSnapshot, ManualStatus, ManualSeat, At, ManualChecks
  <2>2. CASE ManualFails
    <3>1. cycle'.manual = "none" /\ pc' = "lid"
      BY <1>0, <2>2 DEF ManualFails, Goto, Cycles
    <3> QED BY <3>1, RequestQuiet DEF RequestLabels, ManualChecks
  <2>3. CASE cycle' = cycle /\ request' = request /\ pc' \in ManualChecks
    BY <2>1, <2>3 DEF RequestInv, ManualChecks
  <2>4. CASE cycle'.manual = "dispatched" /\ request' = request /\ pc' = "manualSuspend"
    BY <2>1, <2>4 DEF RequestInv, ManualChecks
  <2> QED
    BY <1>0, <1>8, <2>2, <2>3, <2>4
    DEF ManualSnapshot, ManualStatus, ManualSeat, Goto, ManualChecks, Cycles
<1>9. CASE ManualSuspend
  BY <1>0, <1>9 DEF ManualSuspend, At, Goto, RequestInv, SameButPhase, ManualChecks
<1>10. CASE RequestSuspend
  BY <1>10 DEF RequestSuspend, SuspendAvailable, Goto, Answer, RequestInv, ManualChecks
<1>11. CASE RequestPower
  BY <1>11 DEF RequestPower, ShutdownAvailable, Goto, Answer, RequestInv, ManualChecks,
     GateInv
<1>12. CASE RequestStatus
  BY <1>12 DEF RequestStatus, At, Goto, Answer, RequestInv, ManualChecks
<1>13. CASE RequestShield
  <2>1. cycle' \in {cycle, [cycle EXCEPT !.manual = "pending"]}
    BY <1>13 DEF RequestShield
  <2>2. /\ pc = "requestShield" /\ pc' = "top"
        /\ cycle' = cycle \/ request' = request
    BY <1>13 DEF RequestShield, At, Goto
  <2> QED BY <2>1, <2>2 DEF RequestInv, ManualChecks
<1>14. CASE ShutdownStatus \/ ShutdownCall \/ ShutdownWithdrawn
  <2>1. cycle' = cycle /\ cycle.manual # "pending"
    BY <1>14 DEF ShutdownStatus, ShutdownCall, ShutdownWithdrawn, At, RequestInv
  <2>2. pc' \in {"top", "shutdown"}
    BY <1>14 DEF ShutdownStatus, ShutdownCall, ShutdownWithdrawn, Goto
  <2> QED BY <2>1, <2>2 DEF RequestInv, ManualChecks
<1> QED
  BY <1>1, <1>2, <1>3, <1>4, <1>5, <1>6, <1>7, <1>8, <1>9, <1>10, <1>11, <1>12, <1>13, <1>14
  DEF Next, Environment, Coordinator, Menu, vars, task, menu, LockStep, DisplayChanges,
      LateCommand, SleepRequested, FallAsleep, Wake, SeatMoves, DockMoves, LidMoves, Cancel

\* What the task knows of the lid, against the closures that no call has answered.
ThisTurn == {"shield", "status", "act", "manualSnapshot", "manualStatus", "manualSeat",
             "manualSuspend", "lid", "lidSeat", "lidSuspend"}

ClosureInv ==
  /\ lidClosed /\ ~snap.lidClosed => closure # "none"
  /\ cycle.lastClosed = "open" /\ (lidClosed \/ snap.lidClosed) => closure # "none"
  /\ cycle.lidRequest => closure # "none"
  /\ pc \in ThisTurn /\ snap.lidClosed => cycle.lastClosed = "closed"
  /\ pc \in {"lidSeat", "lidSuspend"} =>
       closure # "none" /\ ~cycle.lidRequest /\ snap.lidClosed

LEMMA ClosureInit == Init => ClosureInv
BY DEF Init, ClosureInv, ThisTurn, NewCycle, Snapshot

SameLid(c, d) == d.lastClosed = c.lastClosed /\ d.lidRequest = c.lidRequest

LEMMA ClosureQuiet ==
  ASSUME ClosureInv, UNCHANGED <<lidClosed, closure>>, snap'.lidClosed = snap.lidClosed,
         SameLid(cycle, cycle'), pc' \in ThisTurn => pc \in ThisTurn,
         pc' \notin {"lidSeat", "lidSuspend"} \/ pc' = pc
  PROVE  ClosureInv'
BY DEF ClosureInv, SameLid

LEMMA ClosureStep ==
  ASSUME TypeOK, ClosureInv, [Next]_vars
  PROVE  ClosureInv'
<1>0. /\ cycle \in Cycles /\ snap \in Snapshots
      /\ SameButPhase(cycle, Error(cycle)) /\ Error(cycle) \in Cycles
  BY ErrorKeeps, ErrorType DEF TypeOK
<1>1. CASE UNCHANGED <<task, lidClosed>> /\ (closure' = "none" => closure = "none")
  BY <1>1 DEF ClosureInv, task
<1>2. CASE LidMoves
  BY <1>2 DEF LidMoves, task, ClosureInv
<1>3. CASE Connect \/ Poll
  <2>1. /\ snap'.lidClosed = lidClosed /\ cycle' = cycle
        /\ UNCHANGED <<lidClosed, closure>> /\ pc' \notin ThisTurn
    BY <1>3 DEF Connect, Poll, Snapshot, Goto, machine, history, ThisTurn
  <2> QED BY <2>1 DEF ClosureInv, ThisTurn
<1>4. CASE ArmFailed \/ Reshield \/ ShieldAfterLoss \/ SleepSignal \/ LidShield \/ ReadStatus
           \/ Timer \/ SessionLockSignal \/ ManualSuspend
           \/ RequestSuspend \/ RequestStatus \/ RequestPower \/ ShutdownStatus
           \/ ShutdownCall \/ ShutdownWithdrawn
  <2>1. cycle' \in {cycle, Error(cycle)} /\ UNCHANGED <<lidClosed, closure>>
    BY <1>4 DEF ArmFailed, Reshield, ShieldAfterLoss, SleepSignal, LidShield, ReadStatus,
       Timer, SessionLockSignal, ManualSuspend, Suspend, RequestSuspend, RequestStatus,
       RequestPower, ShutdownStatus, ShutdownCall, ShutdownWithdrawn, machine, history
  <2>2. snap'.lidClosed = snap.lidClosed
    BY <1>0, <1>4 DEF ArmFailed, Reshield, ShieldAfterLoss, SleepSignal, LidShield,
       ReadStatus, Timer, SessionLockSignal, ManualSuspend, RequestSuspend, RequestStatus,
       RequestPower, ShutdownStatus, ShutdownCall, ShutdownWithdrawn, Snapshots
  <2>3. /\ pc' \in ThisTurn => pc \in ThisTurn
        /\ pc' \notin {"lidSeat", "lidSuspend"}
    BY <1>4 DEF ArmFailed, Reshield, ShieldAfterLoss, SleepSignal, LidShield, ReadStatus,
       Timer, SessionLockSignal, ManualSuspend, RequestSuspend, RequestStatus,
       RequestPower, ShutdownStatus, ShutdownCall, ShutdownWithdrawn, Goto, At, ThisTurn
  <2> QED BY <1>0, <2>1, <2>2, <2>3, ClosureQuiet DEF SameButPhase, SameLid
<1>5. CASE Resume \/ RequestShield \/ ManualSnapshot \/ ManualStatus \/ ManualSeat
  <2>1. SameLid(cycle, cycle')
    <3>1. CASE Resume
      BY <1>0, <3>1 DEF Resume, SameButPhase, SameLid, Cycles
    <3>2. CASE RequestShield
      BY <1>0, <3>2 DEF RequestShield, SameLid, Cycles
    <3>3. CASE ManualSnapshot \/ ManualStatus \/ ManualSeat
      BY <1>0, <3>3 DEF ManualSnapshot, ManualStatus, ManualSeat, ManualFails,
         SameButPhase, SameLid, Cycles
    <3> QED BY <1>5, <3>1, <3>2, <3>3
  <2>2. UNCHANGED <<lidClosed, closure, snap>>
    BY <1>5 DEF Resume, RequestShield, ManualSnapshot, ManualStatus, ManualSeat, machine,
       history
  <2>3. /\ pc' \in ThisTurn => pc \in ThisTurn
        /\ pc' \notin {"lidSeat", "lidSuspend"}
    BY <1>5 DEF Resume, RequestShield, ManualSnapshot, ManualStatus, ManualSeat, Goto, At,
       ManualFails, ThisTurn
  <2> QED BY <2>1, <2>2, <2>3, ClosureQuiet
<1>6. CASE Arm \/ BusLost \/ SleepStarts \/ SleepEnds
  <2>1. ~cycle'.lidRequest /\ cycle'.lastClosed \in {"unknown", cycle.lastClosed}
    <3>1. NewCycle \in Cycles /\ ~NewCycle.lidRequest /\ NewCycle.lastClosed = "unknown"
      BY NewCycleType DEF NewCycle
    <3>2. CASE Arm
      BY <3>1, <3>2 DEF Arm, Cycles
    <3>3. CASE BusLost
      BY <3>1, <3>3 DEF BusLost, Dropped
    <3>4. CASE SleepStarts
      BY <1>0, <3>4 DEF SleepStarts, Cycles
    <3>5. CASE SleepEnds
      BY <1>0, <3>1, <3>5 DEF SleepEnds, Dropped, Cycles
    <3> QED BY <1>6, <3>2, <3>3, <3>4, <3>5
  <2>2. UNCHANGED <<lidClosed, closure, snap>>
    BY <1>6 DEF Arm, BusLost, SleepStarts, SleepEnds, Dropped, machine, history
  <2>3. pc' \notin ThisTurn
    BY <1>6 DEF Arm, BusLost, SleepStarts, SleepEnds, Dropped, Goto, At, ThisTurn
  <2> QED BY <2>1, <2>2, <2>3 DEF ClosureInv, ThisTurn
<1>7. CASE Tick
  <2>1. PICK controls \in BOOLEAN, starts \in BOOLEAN :
          /\ starts => cycle.lastClosed = "open" /\ snap.lidClosed
          /\ cycle' = [cycle EXCEPT
               !.lid = controls,
               !.lidRequest = starts \/ (cycle.lidRequest /\ snap.active),
               !.lastClosed = IF snap.lidClosed THEN "closed" ELSE "open",
               !.controlling = snap.active /\ controls,
               !.phase = IF snap.active /\ ~controls THEN "degraded" ELSE cycle.phase]
    BY <1>7 DEF Tick, Closing
  <2>2. /\ cycle'.lidRequest => starts \/ cycle.lidRequest
        /\ cycle'.lastClosed = IF snap.lidClosed THEN "closed" ELSE "open"
    BY <1>0, <2>1 DEF Cycles
  <2>3. UNCHANGED <<lidClosed, closure, snap>> /\ pc' \in {"shield", "status"}
    BY <1>7 DEF Tick, machine, history
  <2> QED BY <2>1, <2>2, <2>3 DEF ClosureInv
<1>8. CASE Act
  <2>1. SameLid(cycle, cycle')
    BY <1>8, ActKeeps DEF SameLid
  <2>2. /\ UNCHANGED <<lidClosed, closure, snap>> /\ pc = "act"
        /\ pc' \notin {"lidSeat", "lidSuspend"}
    BY <1>8 DEF Act, machine, At, Goto
  <2> QED BY <2>1, <2>2, ClosureQuiet DEF ThisTurn
<1>9. CASE Lid
  <2>1. PICK c \in {cycle, [cycle EXCEPT !.lidRequest = FALSE],
                    [Error(cycle) EXCEPT !.lidRequest = FALSE]} :
          /\ cycle' \in {c, Settled(c)}
          /\ \/ pc' = "idle"
             \/ /\ cycle.lidRequest /\ snap.lidClosed /\ pc' = "lidSeat"
                /\ cycle' = [cycle EXCEPT !.lidRequest = FALSE]
    BY <1>9 DEF Lid, Goto
  <2>2. /\ c \in Cycles /\ c.lastClosed = cycle.lastClosed
        /\ c.lidRequest => cycle.lidRequest
    BY <1>0 DEF SameButPhase, Cycles
  <2>3. /\ cycle'.lastClosed = cycle.lastClosed
        /\ cycle'.lidRequest => cycle.lidRequest
    BY <2>1, <2>2, SettledKeeps DEF SameButPhase
  <2>4. pc' = "lidSeat" => cycle.lidRequest /\ snap.lidClosed /\ ~cycle'.lidRequest
    BY <1>0, <2>1 DEF Cycles
  <2>5. UNCHANGED <<lidClosed, closure, snap>> /\ pc = "lid" /\ pc' \in {"idle", "lidSeat"}
    BY <1>9, <2>1 DEF Lid, machine, history, At
  <2> QED BY <2>3, <2>4, <2>5 DEF ClosureInv, ThisTurn
<1>10. CASE LidSeat
  BY <1>10 DEF LidSeat, machine, history, At, ClosureInv, ThisTurn
<1>11. CASE LidSuspend
  <2>1. SameLid(cycle, cycle')
    BY <1>0, <1>11, SettledKeeps DEF LidSuspend, SameButPhase, SameLid
  <2>2. UNCHANGED <<lidClosed, snap>> /\ pc = "lidSuspend" /\ pc' = "idle"
    BY <1>11 DEF LidSuspend, Suspend, At, Goto
  <2> QED BY <2>1, <2>2 DEF ClosureInv, ThisTurn, SameLid
<1> QED
  BY <1>1, <1>2, <1>3, <1>4, <1>5, <1>6, <1>7, <1>8, <1>9, <1>10, <1>11
  DEF Next, Environment, Coordinator, Menu, vars, machine, history, LockStep,
      DisplayChanges, LateCommand, SleepRequested, FallAsleep, Wake, SeatMoves, DockMoves,
      Cancel, Submit

\* A Suspend call answers a closure of the lid that no call has answered, or the
\* request that is in flight, for any interleaving of the lid, the menu, the bus
\* and the sleeps of others.
THEOREM NeverSuspendsTwice == Spec => SuspendsOnce
<1>1. RequestInv /\ ClosureInv /\ [Next]_vars =>
        [ /\ LidSuspend => closure # "none"
          /\ ManualSuspend => request = "suspend" ]_vars
  BY DEF RequestInv, ClosureInv, LidSuspend, ManualSuspend, At
<1>2. TypeOK /\ GateInv /\ RequestInv /\ ClosureInv /\ [Next]_vars
        => GateInv' /\ RequestInv' /\ ClosureInv'
  BY GateStep, RequestStep, ClosureStep
<1> QED
  BY <1>1, <1>2, GateInit, RequestInit, ClosureInit, PowerTypeCorrect, PTL
  DEF Spec, SuspendsOnce

-----------------------------------------------------------------------------
(***************************************************************************)
(* The proof of the display.  What the task has been told of the machine   *)
(* and what it has not yet read agree (StoryInv): the last signal, or the  *)
(* snapshot when none is waiting, says whether the machine is awake.  So   *)
(* when nothing that it has yet to read or to do tells of a sleep it has   *)
(* caught up (Caught) with the last wake, it has invalidated the frames    *)
(* from before that wake, and without new proof no confirmation, and no    *)
(* status reply it still holds, can make it report the session awake.      *)
(***************************************************************************)
Disconnected == {"off", "arm", "lost"}

Told == IF signals = <<>> THEN snap.preparing ELSE signals[Len(signals)]

StoryInv ==
  /\ pc \notin {"off", "lost"} => Told = (power # "awake")
  /\ pc \notin Disconnected \cup {"top"} => snap.preparing = cycle.sleeping
  /\ pc \in Disconnected \cup {"reshield", "resume"} => ~cycle.sleeping
  /\ cycle.sleeping => ~cycle.recovering /\ cycle.phase # "awake"

Caught ==
  /\ pc \notin {"off", "lost"}
  /\ ~cycle.sleeping /\ ~snap.preparing
  /\ \A i \in 1..Len(signals) : ~signals[i]

Unproven ==
  /\ pc = "arm" => established
  /\ pc # "arm" => cycle.phase # "awake"
  /\ pc \in {"reshield", "resume"} => ~seen.confirmed /\ seen.locked # "no"
  /\ pc # "arm" /\ cycle.resumeAccepted =>
       ~confirmed /\ ~seen.confirmed /\ seen.locked # "no"

ProofInv ==
  /\ ~proven => phase # "open"
  /\ Caught /\ ~proven => Unproven

LEMMA StoryInit == Init => StoryInv
BY DEF Init, StoryInv, Disconnected, NewCycle

LEMMA ProofInit == Init => ProofInv
BY DEF Init, ProofInv

\* The last signal of a queue that grows, and of one that is read.
LEMMA AppendLast ==
  ASSUME NEW s \in Seq(BOOLEAN), NEW b \in BOOLEAN
  PROVE  /\ Append(s, b) # <<>>
         /\ Append(s, b)[Len(Append(s, b))] = b
         /\ Len(Append(s, b)) = Len(s) + 1
         /\ \A i \in 1..Len(s) : Append(s, b)[i] = s[i]
OBVIOUS

LEMMA TailLast ==
  ASSUME NEW s \in Seq(BOOLEAN), s # <<>>
  PROVE  /\ Tail(s) = <<>> => Head(s) = s[Len(s)]
         /\ Tail(s) # <<>> => Tail(s)[Len(Tail(s))] = s[Len(s)]
         /\ (\A i \in 1..Len(Tail(s)) : ~Tail(s)[i]) /\ ~Head(s)
              => \A i \in 1..Len(s) : ~s[i]
<1>1. /\ Tail(s) \in Seq(BOOLEAN)
      /\ Len(Tail(s)) = Len(s) - 1
      /\ \A i \in 1..Len(Tail(s)) : Tail(s)[i] = s[i + 1]
  BY HeadTailProperties
<1>2. Len(s) \in Nat \ {0} /\ Head(s) = s[1]
  BY EmptySeq
<1>3. Tail(s) = <<>> => Head(s) = s[Len(s)]
  <2>1. ASSUME Tail(s) = <<>> PROVE Len(s) = 1
    <3>0. Len(<<>>) = 0
      OBVIOUS
    <3>1. Len(Tail(s)) = 0
      BY <2>1, <3>0
    <3>2. Len(s) - 1 = 0
      BY <1>1, <3>1
    <3> QED BY <1>2, <3>2
  <2> QED BY <1>2, <2>1
<1>4. Tail(s) # <<>> => Tail(s)[Len(Tail(s))] = s[Len(s)]
  <2>1. Tail(s) # <<>> => Len(Tail(s)) \in Nat \ {0}
    BY <1>1, EmptySeq
  <2> QED BY <1>1, <1>2, <2>1
<1>5. ASSUME \A i \in 1..Len(Tail(s)) : ~Tail(s)[i], ~Head(s), NEW i \in 1..Len(s)
      PROVE  ~s[i]
  <2>1. CASE i = 1
    BY <1>2, <1>5, <2>1
  <2>2. CASE i # 1
    <3>1. i - 1 \in 1..Len(Tail(s)) /\ s[i] = Tail(s)[i - 1]
      BY <1>1, <1>2, <2>2
    <3> QED BY <1>5, <3>1
  <2> QED BY <2>1, <2>2
<1> QED BY <1>3, <1>4, <1>5

\* What logind signals is the last that the task is told of.
LEMMA SignalledTold ==
  ASSUME TypeOK, NEW b \in BOOLEAN, Signalled(b), pc \notin {"off", "lost"}
  PROVE  /\ Told' = b
         /\ (\A i \in 1..Len(signals') : ~signals'[i])
              => ~b /\ \A i \in 1..Len(signals) : ~signals[i]
<1>1. signals' = Append(signals, b) /\ signals \in Seq(BOOLEAN)
  BY DEF Signalled, TypeOK
<1>2. Len(signals) \in Nat
  BY <1>1, LenProperties
<1> QED BY <1>1, <1>2, AppendLast DEF Told

LEMMA ErrorPhase ==
  \A c \in Cycles : Error(c).recovering = c.recovering /\ Error(c).phase = "degraded"
BY DEF Error, Cycles, Phases

LEMMA SettledPhase ==
  \A c \in Cycles :
    /\ Settled(c).recovering = c.recovering
    /\ Settled(c).phase = "awake" =>
         \/ c.phase = "awake"
         \/ ~c.sleeping /\ c.resumeAccepted /\ (seen.confirmed \/ seen.locked = "no")
BY DEF Settled, Cycles, Phases

-----------------------------------------------------------------------------
\* The steps of a turn between two signals: none of them forgets a sleep, or
\* finds the display recovered without a resume and a status reply to say so.
Calm ==
  \/ Tick \/ LidShield \/ ReadStatus \/ Act
  \/ ManualSnapshot \/ ManualStatus \/ ManualSeat \/ ManualSuspend
  \/ Lid \/ LidSeat \/ LidSuspend \/ Timer \/ SessionLockSignal
  \/ RequestSuspend \/ RequestStatus \/ RequestShield
  \/ RequestPower \/ ShutdownStatus \/ ShutdownCall \/ ShutdownWithdrawn

CalmCycle ==
  /\ cycle'.sleeping = cycle.sleeping
  /\ cycle'.resumeAccepted = cycle.resumeAccepted
  /\ cycle'.recovering => cycle.recovering
  /\ cycle'.phase = "awake" =>
       \/ cycle.phase = "awake"
       \/ /\ ~cycle.sleeping \/ cycle.recovering
          /\ cycle.resumeAccepted
          /\ seen.confirmed \/ seen.locked = "no"

LEMMA CalmSteps ==
  ASSUME TypeOK, Calm
  PROVE  CalmCycle
<1>0. /\ cycle \in Cycles /\ Error(cycle) \in Cycles
      /\ SameButPhase(cycle, Error(cycle)) /\ Error(cycle).recovering = cycle.recovering
      /\ Error(cycle).phase = "degraded"
  BY ErrorKeeps, ErrorType, ErrorPhase DEF TypeOK
<1>1. CASE Tick
  <2>1. PICK controls \in BOOLEAN, starts \in BOOLEAN :
          cycle' = [cycle EXCEPT
               !.lid = controls,
               !.lidRequest = starts \/ (cycle.lidRequest /\ snap.active),
               !.lastClosed = IF snap.lidClosed THEN "closed" ELSE "open",
               !.controlling = snap.active /\ controls,
               !.phase = IF snap.active /\ ~controls THEN "degraded" ELSE cycle.phase]
    BY <1>1 DEF Tick
  <2> QED BY <1>0, <2>1 DEF CalmCycle, Cycles
<1>2. CASE LidShield \/ ReadStatus \/ ManualSuspend \/ LidSeat \/ Timer \/ SessionLockSignal
           \/ RequestSuspend \/ RequestStatus \/ RequestPower \/ ShutdownStatus
           \/ ShutdownCall \/ ShutdownWithdrawn
  <2>1. cycle' \in {cycle, Error(cycle)}
    BY <1>2 DEF LidShield, ReadStatus, ManualSuspend, LidSeat, Timer, SessionLockSignal,
       RequestSuspend, RequestStatus, RequestPower, ShutdownStatus, ShutdownCall,
       ShutdownWithdrawn
  <2> QED BY <1>0, <2>1 DEF CalmCycle, SameButPhase
<1>3. CASE Act
  BY <1>3, ActKeeps DEF CalmCycle
<1>4. CASE ManualSnapshot \/ ManualStatus \/ ManualSeat \/ RequestShield
  <2>1. PICK m \in {"none", "pending", "dispatched"} :
          \/ cycle' = cycle
          \/ cycle' = [cycle EXCEPT !.manual = m]
          \/ cycle' = [Error(cycle) EXCEPT !.manual = m]
    BY <1>4 DEF ManualSnapshot, ManualStatus, ManualSeat, ManualFails, RequestShield
  <2> QED BY <1>0, <2>1 DEF CalmCycle, SameButPhase, Cycles
<1>5. CASE Lid
  <2>1. PICK c \in {cycle, [cycle EXCEPT !.lidRequest = FALSE],
                    [Error(cycle) EXCEPT !.lidRequest = FALSE]} :
          cycle' \in {c, Settled(c)}
    BY <1>5 DEF Lid
  <2>2. /\ c \in Cycles /\ c.sleeping = cycle.sleeping /\ c.recovering = cycle.recovering
        /\ c.resumeAccepted = cycle.resumeAccepted /\ c.phase \in {cycle.phase, "degraded"}
    BY <1>0 DEF SameButPhase, Cycles
  <2> QED BY <2>1, <2>2, SettledKeeps, SettledPhase DEF CalmCycle, SameButPhase
<1>6. CASE LidSuspend
  <2>1. PICK c \in {cycle, Error(cycle)} : cycle' = Settled(c)
    BY <1>6 DEF LidSuspend
  <2> QED BY <1>0, <2>1, SettledKeeps, SettledPhase DEF CalmCycle, SameButPhase
<1> QED BY <1>1, <1>2, <1>3, <1>4, <1>5, <1>6 DEF Calm

\* Where a calm step leads, and what else it leaves alone.
LEMMA CalmPlace ==
  ASSUME Calm
  PROVE  /\ pc \notin Disconnected \cup {"reshield", "resume"}
         /\ pc' \notin Disconnected \cup {"reshield", "resume"}
         /\ pc = "top" => snap.preparing = cycle.sleeping
         /\ UNCHANGED <<snap, established, proven>> \/ (Proof /\ UNCHANGED <<snap, established>>)
         /\ UNCHANGED <<power, signals>> \/ StartsSleeping
         /\ ReadStatus \/ seen' = seen
<1>1. CASE Tick
  BY <1>1 DEF Tick, At, Disconnected, machine, history
<1>2. CASE LidShield \/ SessionLockSignal \/ RequestShield
  BY <1>2 DEF LidShield, SessionLockSignal, RequestShield, At, Goto, Disconnected, machine
<1>3. CASE ReadStatus \/ Act
  BY <1>3 DEF ReadStatus, Act, At, Goto, Disconnected, machine, history
<1>4. CASE ManualSnapshot \/ ManualStatus \/ ManualSeat
  BY <1>4 DEF ManualSnapshot, ManualStatus, ManualSeat, ManualFails, At, Goto,
     Disconnected, machine, history
<1>5. CASE ManualSuspend \/ LidSuspend
  BY <1>5 DEF ManualSuspend, LidSuspend, Suspend, At, Goto, Disconnected
<1>6. CASE Lid \/ LidSeat \/ Timer
  BY <1>6 DEF Lid, LidSeat, Timer, At, Goto, Disconnected, machine, history
<1>7. CASE RequestSuspend \/ RequestStatus \/ RequestPower \/ ShutdownStatus
  BY <1>7 DEF RequestSuspend, RequestStatus, RequestPower, ShutdownStatus, At, Goto,
     Disconnected, machine, history
<1>8. CASE ShutdownCall \/ ShutdownWithdrawn
  BY <1>8 DEF ShutdownCall, ShutdownWithdrawn, At, Goto, Disconnected, machine, history
<1> QED BY <1>1, <1>2, <1>3, <1>4, <1>5, <1>6, <1>7, <1>8 DEF Calm

\* A step of the environment leaves the task alone.
LEMMA EnvironmentTask ==
  ASSUME Environment \/ Menu
  PROVE  UNCHANGED task
BY DEF Environment, Menu, LockStep, DisplayChanges, LateCommand, SleepRequested, FallAsleep,
   Wake, SeatMoves, DockMoves, LidMoves, Cancel, Submit

LEMMA StoryStep ==
  ASSUME TypeOK, StoryInv, [Next]_vars
  PROVE  StoryInv'
<1>0. /\ cycle \in Cycles /\ snap \in Snapshots /\ signals \in Seq(BOOLEAN)
      /\ power \in {"awake", "preparing", "asleep"}
      /\ NewCycle \in Cycles
  BY NewCycleType DEF TypeOK
<1>1. CASE UNCHANGED <<power, signals, task>>
  BY <1>1 DEF task, StoryInv, Told
<1>2. ASSUME UNCHANGED task, Signalled(power' # "awake")
      PROVE  StoryInv'
  <2>1. pc \notin {"off", "lost"} => Told' = (power' # "awake")
    BY <1>2, SignalledTold
  <2> QED BY <1>2, <2>1 DEF task, StoryInv
<1>3. CASE SleepRequested \/ Wake
  <2>1. UNCHANGED task /\ Signalled(power' # "awake")
    <3>1. CASE SleepRequested
      BY <3>1 DEF SleepRequested, StartsSleeping
    <3>2. CASE Wake
      BY <3>2 DEF Wake
    <3> QED BY <1>3, <3>1, <3>2
  <2> QED BY <1>2, <2>1
<1>4. CASE FallAsleep
  BY <1>4 DEF FallAsleep, task, StoryInv, Told
<1>5. CASE LockStep \/ DisplayChanges \/ LateCommand \/ SeatMoves \/ DockMoves \/ LidMoves
           \/ Menu \/ UNCHANGED vars
  <2>1. UNCHANGED <<power, signals, task>>
    BY <1>5 DEF LockStep, DisplayChanges, LateCommand, SeatMoves, DockMoves, LidMoves, Menu,
       Cancel, Submit, vars, machine
  <2> QED BY <1>1, <2>1
<1>6. CASE Connect
  <2>1. /\ pc = "off" /\ pc' = "arm" /\ cycle' = cycle /\ power' = power
        /\ signals' = <<>> /\ snap'.preparing = (power # "awake")
    BY <1>6 DEF Connect, At, Goto, Snapshot
  <2> QED BY <2>1 DEF StoryInv, Told, Disconnected
<1>7. CASE Arm
  <2>1. /\ pc = "arm" /\ UNCHANGED <<power, signals, snap>>
        /\ cycle'.sleeping = FALSE
        /\ \/ pc' = "reshield" /\ ~snap.preparing
           \/ pc' = "top"
    BY <1>0, <1>7 DEF Arm, At, Goto, machine, NewCycle, Cycles
  <2>2. Told' = Told
    BY <2>1 DEF Told
  <2>3. snap.preparing \in BOOLEAN
    BY <1>0 DEF Snapshots
  <2> QED BY <2>1, <2>2, <2>3 DEF StoryInv, Disconnected
<1>8. CASE ArmFailed \/ BusLost \/ ShieldAfterLoss
  <2>1. pc' \in {"off", "lost"} /\ ~cycle'.sleeping
    <3>1. ~NewCycle.sleeping
      BY DEF NewCycle
    <3>2. CASE ArmFailed \/ ShieldAfterLoss
      BY <1>0, <3>2, ErrorKeeps DEF ArmFailed, ShieldAfterLoss, At, Goto, StoryInv,
         Disconnected, SameButPhase
    <3>3. CASE BusLost
      BY <3>1, <3>3 DEF BusLost, Dropped, Goto
    <3> QED BY <1>8, <3>2, <3>3
  <2> QED BY <2>1 DEF StoryInv, Disconnected
<1>9. CASE Reshield \/ Resume
  <2>1. /\ pc \in {"reshield", "resume"} /\ pc' \in {"resume", "top"}
        /\ UNCHANGED <<power, signals, snap>>
    BY <1>9 DEF Reshield, Resume, At, Goto, machine
  <2>2. cycle'.sleeping = cycle.sleeping
    BY <1>0, <1>9, ErrorKeeps DEF Reshield, Resume, SameButPhase, Cycles
  <2>3. ~cycle.sleeping /\ ~snap.preparing
    BY <2>1 DEF StoryInv, Disconnected
  <2> QED BY <2>1, <2>2, <2>3 DEF StoryInv, Told, Disconnected
<1>10. CASE SleepSignal
  <2>1. /\ pc = "idle" /\ pc' = "top" /\ UNCHANGED <<power, cycle>>
        /\ signals # <<>> /\ signals' = Tail(signals)
        /\ snap'.preparing = Head(signals)
    BY <1>0, <1>10 DEF SleepSignal, At, Goto, Snapshots
  <2>2. Told' = Told
    BY <1>0, <2>1, TailLast DEF Told
  <2> QED BY <2>1, <2>2 DEF StoryInv, Disconnected
<1>11. CASE SleepStarts
  <2>1. /\ pc = "top" /\ pc' = "top" /\ UNCHANGED <<power, signals, snap>>
        /\ ~cycle'.recovering /\ cycle'.phase # "awake"
    <3>1. PICK p \in {"preparing-sleep", "degraded"} :
            cycle' = [cycle EXCEPT !.sleeping = TRUE, !.preparing = TRUE,
                                   !.recovering = FALSE, !.lidRequest = FALSE,
                                   !.manual = "none", !.phase = p]
      BY <1>11 DEF SleepStarts
    <3>2. ~cycle'.recovering /\ cycle'.phase # "awake"
      BY <1>0, <3>1 DEF Cycles
    <3> QED BY <1>11, <3>2 DEF SleepStarts, At, machine
  <2> QED BY <2>1 DEF StoryInv, Told, Disconnected
<1>12. CASE SleepEnds
  <2>1. CASE Dropped
    BY <2>1 DEF Dropped, Goto, NewCycle, StoryInv, Disconnected
  <2>2. CASE ~Dropped
    <3>0. ~cycle'.sleeping
      BY <1>0, <1>12, <2>2 DEF SleepEnds, Cycles
    <3>1. cycle'.sleeping = FALSE
      BY <3>0, TaskStep DEF TaskOK, Cycles
    <3>2. /\ pc = "top" /\ pc' = "resume" /\ ~snap.preparing
          /\ UNCHANGED <<power, signals, snap>>
      BY <1>12, <2>2 DEF SleepEnds, At, Goto, machine
    <3>3. Told' = Told
      BY <3>2 DEF Told
    <3>4. snap.preparing \in BOOLEAN
      BY <1>0 DEF Snapshots
    <3> QED BY <3>1, <3>2, <3>3, <3>4 DEF StoryInv, Disconnected
  <2> QED BY <2>1, <2>2
<1>13. CASE Poll
  <2>1. /\ pc = "poll" /\ pc' = "top" /\ UNCHANGED <<power, signals, cycle>>
        /\ snap'.preparing = (power # "awake")
    BY <1>13 DEF Poll, At, Goto, Snapshot, machine
  <2> QED BY <2>1 DEF StoryInv, Told, Disconnected
<1>14. CASE Calm
  <2>1. CalmCycle
    BY <1>14, CalmSteps
  <2>2. /\ pc \notin Disconnected \cup {"reshield", "resume"}
        /\ pc' \notin Disconnected \cup {"reshield", "resume"}
        /\ pc = "top" => snap.preparing = cycle.sleeping
        /\ snap' = snap
        /\ UNCHANGED <<power, signals>> \/ StartsSleeping
    BY <1>14, CalmPlace
  <2>3. Told' = (power' # "awake")
    <3>1. CASE StartsSleeping
      <4>1. Signalled(TRUE) /\ power' = "preparing"
        BY <3>1 DEF StartsSleeping
      <4> QED BY <2>2, <4>1, SignalledTold DEF Disconnected
    <3>2. CASE UNCHANGED <<power, signals>>
      BY <2>2, <3>2 DEF StoryInv, Told, Disconnected
    <3> QED BY <2>2, <3>1, <3>2
  <2>4. snap.preparing = cycle.sleeping
    BY <2>2 DEF StoryInv, Disconnected
  <2> QED BY <1>0, <2>1, <2>2, <2>3, <2>4 DEF CalmCycle, StoryInv, Cycles
<1> QED
  BY <1>3, <1>4, <1>5, <1>6, <1>7, <1>8, <1>9, <1>10, <1>11, <1>12, <1>13, <1>14
  DEF Next, Environment, Coordinator, Calm

\* Without new proof the session is still locked, and whatever confirmation the
\* compositor had before a step it has at most after it.
LEMMA ProofGrows ==
  ASSUME TypeOK, ProofInv, [Next]_vars, ~Wake, ~proven'
  PROVE  ~proven /\ phase' # "open" /\ (confirmed' => confirmed)
<1>0. confirmed \in BOOLEAN /\ proven \in BOOLEAN /\ confirmed' \in BOOLEAN
  BY TypePartsNext, CompositorStep DEF TypeOK, CompositorOK
<1>1. CASE Proof
  BY <1>0, <1>1 DEF Proof
<1>2. CASE UNCHANGED <<lock, confirmed>> /\ (proven => proven')
  BY <1>2 DEF lock, ProofInv
<1>3. CASE Menu \/ UNCHANGED vars \/ Environment
  BY <1>1, <1>2, <1>3
  DEF Environment, Menu, vars, compositor, history, LockStep, DisplayChanges, LateCommand,
      SleepRequested, FallAsleep, SeatMoves, DockMoves, LidMoves, Cancel, Submit
<1>4. CASE Coordinator
  <2>1. CASE Connect
    BY <1>2, <2>1 DEF Connect, compositor
  <2>2. CASE ReadStatus
    BY <1>2, <2>2 DEF ReadStatus, history
  <2>3. CASE Reshield \/ Resume \/ ShieldAfterLoss \/ SleepStarts \/ LidShield
             \/ SessionLockSignal \/ RequestShield
    BY <1>1, <2>3
    DEF Reshield, Resume, ShieldAfterLoss, SleepStarts, LidShield, SessionLockSignal,
        RequestShield
  <2>4. CASE UNCHANGED <<compositor, proven>>
    BY <1>2, <2>4 DEF compositor
  <2> QED
    BY <1>4, <2>1, <2>2, <2>3, <2>4
    DEF Coordinator, history, Arm, ArmFailed, BusLost, SleepSignal, SleepEnds, Tick, Act,
        ManualSnapshot, ManualStatus, ManualSeat, ManualSuspend, Lid, LidSeat, LidSuspend,
        Timer, Poll, RequestSuspend, RequestStatus, RequestPower, ShutdownStatus,
        ShutdownCall, ShutdownWithdrawn
<1> QED BY <1>3, <1>4 DEF Next

\* Nothing is caught up with while the machine sleeps.
LEMMA CaughtAwake ==
  ASSUME TypeOK, StoryInv, Caught
  PROVE  power = "awake"
<1>1. signals \in Seq(BOOLEAN)
  BY DEF TypeOK
<1>2. ~Told
  <2>1. CASE signals = <<>>
    BY <2>1 DEF Told, Caught
  <2>2. CASE signals # <<>>
    <3>1. Len(signals) \in 1..Len(signals)
      BY <1>1, <2>2, EmptySeq
    <3> QED BY <2>2, <3>1 DEF Told, Caught
  <2> QED BY <2>1, <2>2
<1> QED BY <1>2 DEF StoryInv, Caught

LEMMA ProofStep ==
  ASSUME TypeOK, StoryInv, ProofInv, [Next]_vars
  PROVE  ProofInv'
<1>0. /\ cycle \in Cycles /\ snap \in Snapshots /\ signals \in Seq(BOOLEAN)
      /\ Error(cycle) \in Cycles /\ SameButPhase(cycle, Error(cycle))
      /\ Error(cycle).phase = "degraded"
  BY ErrorKeeps, ErrorType, ErrorPhase DEF TypeOK
<1>1. CASE Wake
  <2>1. ~proven' => phase' # "open"
    BY <1>1 DEF Wake, compositor, lock
  <2>2. ~Caught'
    <3>1. SUFFICES ASSUME Caught' PROVE FALSE
      OBVIOUS
    <3>2. UNCHANGED task /\ Signalled(FALSE) /\ power # "awake"
      BY <1>1 DEF Wake
    <3>3. pc \notin {"off", "lost"} /\ ~cycle.sleeping /\ ~snap.preparing
      BY <3>1, <3>2 DEF Caught, task
    <3>4. \A i \in 1..Len(signals) : ~signals[i]
      BY <3>1, <3>2, <3>3, SignalledTold DEF Caught
    <3> QED BY <3>2, <3>3, <3>4, CaughtAwake DEF Caught
  <2> QED BY <2>1, <2>2 DEF ProofInv
<1>2. SUFFICES ASSUME ~Wake, ~proven'
               PROVE  phase' # "open" /\ (Caught' => Unproven')
  BY <1>1 DEF ProofInv
<1>3. ~proven /\ phase # "open" /\ phase' # "open" /\ (confirmed' => confirmed)
  BY <1>2, ProofGrows DEF ProofInv
<1>4. SUFFICES ASSUME Caught' PROVE Unproven'
  BY <1>3
<1>5. CASE UNCHANGED task
  <2>1. Caught
    <3>1. CASE UNCHANGED signals
      BY <1>4, <1>5, <3>1 DEF Caught, task
    <3>2. CASE SleepRequested
      BY <1>4, <1>5, <3>2, SignalledTold
      DEF Caught, task, SleepRequested, StartsSleeping
    <3>3. CASE ManualSuspend \/ LidSuspend \/ SleepSignal \/ Connect
      BY <1>5, <3>3 DEF ManualSuspend, LidSuspend, SleepSignal, Connect, task, At, Goto
    <3> QED
      BY <1>2, <3>1, <3>2, <3>3
      DEF Next, Environment, Coordinator, Menu, vars, machine, LockStep, DisplayChanges,
          LateCommand, FallAsleep, SeatMoves, DockMoves, LidMoves, Arm, ArmFailed, Reshield,
          Resume, BusLost, ShieldAfterLoss, SleepStarts, SleepEnds, Tick, LidShield,
          ReadStatus, Act, ManualSnapshot, ManualStatus, ManualSeat, Lid, LidSeat, Timer,
          Poll, SessionLockSignal, RequestSuspend, RequestStatus, RequestShield,
          RequestPower, ShutdownStatus, ShutdownCall, ShutdownWithdrawn, Cancel, Submit
  <2> QED BY <1>3, <1>5, <2>1 DEF ProofInv, Unproven, task
<1>6. CASE Connect
  <2>1. pc' = "arm" /\ established' = established /\ proven' = (proven \/ ~established)
    BY <1>6 DEF Connect, Goto
  <2> QED BY <1>2, <2>1 DEF Unproven
<1>7. CASE Arm
  <2>1. pc = "arm" /\ UNCHANGED <<signals, snap>> /\ pc' \notin {"off", "arm", "lost"}
    BY <1>7 DEF Arm, At, Goto, machine
  <2>2. Caught
    BY <1>4, <2>1 DEF Caught, StoryInv, Disconnected
  <2>3. established /\ ~snap.preparing
    BY <1>3, <2>1, <2>2 DEF ProofInv, Unproven, Caught
  <2>4. /\ seen' = NoReply
        /\ cycle' = [[NewCycle EXCEPT !.delay = TRUE]
                       EXCEPT !.recovering = TRUE, !.resumeAccepted = FALSE,
                              !.phase = "recovering"]
    BY <1>7, <2>3 DEF Arm
  <2>5. ~cycle'.resumeAccepted /\ cycle'.phase = "recovering"
    BY <2>4, NewCycleType DEF Cycles
  <2> QED BY <2>1, <2>4, <2>5 DEF Unproven, NoReply
<1>8. CASE ArmFailed \/ BusLost \/ ShieldAfterLoss
  BY <1>4, <1>8 DEF ArmFailed, BusLost, ShieldAfterLoss, Dropped, Goto, Caught
<1>9. CASE Reshield \/ Resume
  <2>1. /\ pc \in {"reshield", "resume"} /\ pc' \in {"resume", "top"}
        /\ UNCHANGED <<signals, snap, seen>>
    BY <1>9 DEF Reshield, Resume, At, Goto, machine
  <2>2. Caught
    <3>1. ~cycle.sleeping
      BY <2>1 DEF StoryInv
    <3> QED BY <1>4, <2>1, <3>1 DEF Caught
  <2>3. ~seen.confirmed /\ seen.locked # "no" /\ cycle.phase # "awake"
    BY <1>3, <2>1, <2>2 DEF ProofInv, Unproven
  <2>4. cycle'.phase # "awake"
    BY <1>0, <1>9, <2>3 DEF Reshield, Resume, Cycles
  <2>5. cycle'.resumeAccepted => ~confirmed'
    <3>1. CASE Reshield
      <4>1. cycle' \in {cycle, Error(cycle)}
        BY <3>1 DEF Reshield
      <4>2. cycle.resumeAccepted => ~confirmed
        BY <1>3, <2>1, <2>2 DEF ProofInv, Unproven
      <4> QED BY <1>0, <1>3, <4>1, <4>2 DEF SameButPhase
    <3>2. CASE Resume
      <4>1. PICK accepted \in BOOLEAN :
              /\ Command("session-resume", accepted)
              /\ cycle' = IF accepted THEN [cycle EXCEPT !.resumeAccepted = TRUE]
                                      ELSE Error(cycle)
        BY <3>2 DEF Resume
      <4>2. CASE accepted
        BY <4>1, <4>2 DEF Command, Executed
      <4>3. CASE ~accepted
        <5>1. cycle.resumeAccepted => ~confirmed
          BY <1>3, <2>1, <2>2 DEF ProofInv, Unproven
        <5> QED BY <1>0, <1>3, <4>1, <4>3, <5>1 DEF SameButPhase
      <4> QED BY <4>2, <4>3
    <3> QED BY <1>9, <3>1, <3>2
  <2> QED BY <2>1, <2>3, <2>4, <2>5 DEF Unproven
<1>10. CASE SleepSignal
  <2>1. /\ pc = "idle" /\ pc' = "top" /\ UNCHANGED <<cycle, seen>>
        /\ signals # <<>> /\ signals' = Tail(signals)
        /\ snap'.preparing = Head(signals)
    BY <1>0, <1>10 DEF SleepSignal, At, Goto, Snapshots
  <2>2. ~cycle.sleeping /\ ~snap.preparing
    BY <1>4, <2>1 DEF Caught, StoryInv, Disconnected
  <2>3. \A i \in 1..Len(signals) : ~signals[i]
    BY <1>0, <1>4, <2>1, TailLast DEF Caught
  <2>4. Caught
    BY <2>1, <2>2, <2>3 DEF Caught
  <2> QED BY <1>3, <2>1, <2>4 DEF ProofInv, Unproven
<1>11. CASE SleepStarts
  <2>1. cycle'.sleeping
    BY <1>0, <1>11 DEF SleepStarts, Cycles
  <2> QED BY <1>4, <2>1 DEF Caught
<1>12. CASE SleepEnds
  <2>1. ~Dropped
    BY <1>4 DEF Dropped, Goto, Caught
  <2>2. pc' = "resume" /\ seen' = NoReply
    BY <1>12, <2>1 DEF SleepEnds, Goto
  <2>3. ~cycle'.resumeAccepted /\ cycle'.phase = "recovering"
    BY <1>0, <1>12, <2>1 DEF SleepEnds, Cycles
  <2> QED BY <2>2, <2>3 DEF Unproven, NoReply
<1>13. CASE Poll
  <2>1. pc = "poll" /\ pc' = "top" /\ UNCHANGED <<signals, cycle, seen>>
    BY <1>13 DEF Poll, At, Goto, machine
  <2>2. Caught
    BY <1>4, <2>1 DEF Caught, StoryInv, Disconnected
  <2> QED BY <1>3, <2>1, <2>2 DEF ProofInv, Unproven
<1>14. CASE Calm
  <2>1. CalmCycle
    BY <1>14, CalmSteps
  <2>2. /\ pc \notin Disconnected \cup {"reshield", "resume"}
        /\ pc' \notin Disconnected \cup {"reshield", "resume"}
        /\ snap' = snap
        /\ UNCHANGED <<power, signals>> \/ StartsSleeping
        /\ ReadStatus \/ seen' = seen
    BY <1>14, CalmPlace
  <2>3. Caught
    <3>1. \A i \in 1..Len(signals) : ~signals[i]
      <4>1. CASE UNCHANGED signals
        BY <1>4, <4>1 DEF Caught
      <4>2. CASE StartsSleeping
        BY <1>4, <2>2, <4>2, SignalledTold DEF StartsSleeping, Caught, Disconnected
      <4> QED BY <2>2, <4>1, <4>2
    <3> QED BY <1>4, <2>1, <2>2, <3>1 DEF CalmCycle, Caught, Disconnected
  <2>4. /\ cycle.phase # "awake"
        /\ cycle.resumeAccepted => ~confirmed /\ ~seen.confirmed /\ seen.locked # "no"
    BY <1>3, <2>2, <2>3 DEF ProofInv, Unproven, Disconnected
  <2>5. cycle'.phase # "awake"
    BY <2>1, <2>4 DEF CalmCycle
  <2>6. cycle.resumeAccepted => ~seen'.confirmed /\ seen'.locked # "no"
    <3>1. CASE ReadStatus
      BY <1>3, <2>4, <3>1 DEF ReadStatus, Status, NoReply
    <3> QED BY <2>2, <2>4, <3>1
  <2> QED BY <1>3, <2>1, <2>2, <2>4, <2>5, <2>6 DEF CalmCycle, Unproven, Disconnected
<1>15. Environment \/ Menu \/ UNCHANGED vars => UNCHANGED task
  BY EnvironmentTask DEF vars, task
<1> QED
  BY <1>5, <1>6, <1>7, <1>8, <1>9, <1>10, <1>11, <1>12, <1>13, <1>14, <1>15
  DEF Next, Coordinator, Calm

\* Awake means proven: when the task has read every signal and reports the session
\* awake, the display has proven itself since the last wake, however stale the
\* snapshots, the replies and the commands that it worked with.
THEOREM AwakeMeansProven == Spec => []AwakeIsProven
<1>1. TypeOK /\ StoryInv /\ ProofInv /\ [Next]_vars => StoryInv' /\ ProofInv'
  BY StoryStep, ProofStep
<1>2. TypeOK /\ StoryInv /\ ProofInv => AwakeIsProven
  <2> SUFFICES ASSUME TypeOK, StoryInv, ProofInv, pc = "idle", signals = <<>>,
                      cycle.phase = "awake", ~proven
               PROVE  FALSE
    BY DEF AwakeIsProven
  <2>1. ~cycle.sleeping /\ ~snap.preparing
    BY DEF StoryInv, Disconnected
  <2>2. Len(signals) = 0
    OBVIOUS
  <2>3. Caught
    BY <2>1, <2>2 DEF Caught
  <2> QED BY <2>3 DEF ProofInv, Unproven
<1> QED BY <1>1, <1>2, StoryInit, ProofInit, PowerTypeCorrect, PTL DEF Spec
==============================================================================

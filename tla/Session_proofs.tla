---------------------------- MODULE Session_proofs ----------------------------
(***************************************************************************)
(* Proofs about the processes of a session, for any parts, restarts and    *)
(* bounds, and about what a session leaves behind, for any scopes and      *)
(* numbers of failures and of independent changes.                         *)
(*                                                                         *)
(* The supervisor.  The reason that nothing is left is the order of the    *)
(* shutdown: what it has passed stays reaped (Reaped) or withdrawn unless  *)
(* that failed (Withdrawn), and every child has a place in it              *)
(* (EveryChildStops).                                                      *)
(*                                                                         *)
(* The scopes.  A launcher records before it asks (ScopesRecorded), and    *)
(* once the marker stands nobody asks: so what a cleaner has listed is all *)
(* that can still be started (Listed).  The manager may start an owner     *)
(* anew for it, but never one that passes its first look (Checked).        *)
(*                                                                         *)
(* The environment.  What a journal restores names no session (Journals),  *)
(* as it was taken from an owner that had published as a whole or over     *)
(* nobody's values (ComesWhole), or from nobody's; whoever has no journal, *)
(* or not the marker, is nowhere or stranded (Cleared); a session that is  *)
(* stranded is so for good, as nobody publishes any more (Apart); and what *)
(* a retirement leaves alone was set by a user or is stranded (Restores).  *)
(***************************************************************************)
EXTENDS Supervisor, SessionRemains, TLAPS

\* The supervisor stands at a step that exists, and waits in two phases only.
Standing ==
  /\ phase = "startup" => at \in 1..10
  /\ phase = "monitoring" => at \in 1..9
  /\ awaiting => phase \in {"startup", "monitoring"}

\* Only a child that the supervisor knows has a group.
KinKnown == \A c \in kin : child[c] # "none"

\* The shutdown has passed step i.
Passed(i) == phase = "over" \/ (phase = "stopping" /\ at > i)

Reaped == \A i \in 1..12 : Passed(i) /\ StopOrder[i] \in Children => child[StopOrder[i]] = "none"

Withdrawn ==
  /\ Passed(9) => ~published \/ "retire" \in failed
  /\ Passed(10) => ~scopes \/ "scopes" \in failed

\* The directory goes last, after everything was withdrawn.
GoesLast == ~runtime => phase = "over" /\ ~published /\ ~scopes

Inv == TypeOK /\ Standing /\ KinKnown /\ OneGeneration /\ Reaped /\ Withdrawn /\ GoesLast

-----------------------------------------------------------------------------
(* The orders. *)

LEMMA Least ==
  ASSUME NEW T, T \subseteq 1..10, T # {}
  PROVE  Min(T) \in T
<1> DEFINE P(x) == x \in T /\ \A y \in T : x =< y
<1>1. \E x : P(x)
  BY SMTT(30)
<1>2. P(CHOOSE x : P(x))
  BY <1>1
<1> QED
  BY <1>1 DEF Min

LEMMA AheadIn ==
  ASSUME NEW i \in 0..10
  PROVE  Ahead(i) \subseteq 1..10
BY DEF Ahead, StartOrder

LEMMA StartsSomewhere == Ahead(0) # {}
<1>1. 2 \in 1..Len(StartOrder) /\ StartOrder[2] = "settingsd"
  BY DEF StartOrder
<1> QED
  BY <1>1 DEF Ahead, Needed

LEMMA StopOrderIs ==
  /\ Len(StopOrder) = 12 /\ Len(Round) = 9
  /\ StopOrder[1] = "terminate" /\ StopOrder[2] = "service" /\ StopOrder[3] = "wayvnc"
  /\ StopOrder[4] = "shell" /\ StopOrder[5] = "compositor" /\ StopOrder[6] = "settingsd"
  /\ StopOrder[7] = "watcher" /\ StopOrder[8] = "notifications" /\ StopOrder[9] = "retire"
  /\ StopOrder[10] = "scopes" /\ StopOrder[11] = "bus" /\ StopOrder[12] = "remove"
BY DEF StopOrder, Round

\* Every child has a place in the order of the shutdown.
LEMMA EveryChildStops ==
  ASSUME NEW c \in Children
  PROVE  \E i \in 1..12 : StopOrder[i] = c
BY StopOrderIs DEF Children, Needed, Services

LEMMA HereStopping ==
  ASSUME NEW c, Here("stopping", c)
  PROVE  phase = "stopping" /\ ~awaiting /\ c = StopOrder[at]
BY DEF Here

LEMMA HereEarlier ==
  ASSUME NEW p \in {"startup", "monitoring"}, NEW c, Here(p, c)
  PROVE  phase = p /\ ~awaiting
BY DEF Here

\* Where the next step of the supervisor is.
LEMMA OnwardGoes ==
  ASSUME TypeOK, Standing, Onward, phase # "over"
  PROVE  /\ awaiting' = FALSE
         /\ phase = "startup" => \/ phase' = "startup" /\ at' \in 1..10
                                 \/ phase' = "monitoring" /\ at' = 1
         /\ phase = "monitoring" => phase' = "monitoring" /\ at' \in 1..9
         /\ phase = "stopping" => \/ phase' = "stopping" /\ at < 12 /\ at' = at + 1
                                  \/ phase' = "over" /\ at = 12 /\ at' = 12
<1>1. CASE phase = "startup"
  <2>1. CASE Ahead(at) # {}
    <3>1. at \in 1..10
      BY <1>1 DEF Standing
    <3>2. Ahead(at) \subseteq 1..10
      BY <3>1, AheadIn
    <3>3. Min(Ahead(at)) \in Ahead(at)
      BY <2>1, <3>2, Least
    <3> QED
      BY <1>1, <2>1, <3>2, <3>3 DEF Onward
  <2>2. CASE Ahead(at) = {}
    BY <1>1, <2>2 DEF Onward
  <2> QED
    BY <1>1, <2>1, <2>2
<1>2. CASE phase = "monitoring"
  <2>1. at' = (at % 9) + 1 /\ phase' = "monitoring" /\ awaiting' = FALSE
    BY <1>2, StopOrderIs DEF Onward
  <2>2. at \in 1..9
    BY <1>2 DEF Standing
  <2> QED
    BY <1>2, <2>1, <2>2
<1>3. CASE phase = "stopping"
  <2>1. awaiting' = FALSE /\ (IF at < 12 THEN at' = at + 1 /\ UNCHANGED phase
                              ELSE at' = at /\ phase' = "over")
    BY <1>3, StopOrderIs DEF Onward
  <2> QED
    BY <1>3, <2>1 DEF TypeOK
<1> QED
  BY <1>1, <1>2, <1>3 DEF TypeOK

-----------------------------------------------------------------------------
(* What a step does to the place. *)

PlaceOK ==
  phase \in {"startup", "monitoring", "stopping", "over"} /\ at \in 1..12 /\ awaiting \in BOOLEAN
ProcessesOK ==
  /\ child \in [Children -> {"none", "alive", "exited"}]
  /\ kin \in SUBSET Children /\ strays \in SUBSET Children
LeftOK == left \in [Children -> 0..(MaxRestarts + ServiceRestarts)]
OutsideOK ==
  /\ published \in BOOLEAN /\ scopes \in BOOLEAN /\ runtime \in BOOLEAN
  /\ failed \in SUBSET {"retire", "scopes", "remove"}
CountersOK == exits \in 0..MaxExits /\ forks \in 0..MaxForks /\ faults \in 0..MaxFaults

LEMMA Types ==
  TypeOK <=> PlaceOK /\ ProcessesOK /\ LeftOK /\ flag \in BOOLEAN /\ OutsideOK /\ CountersOK
BY DEF TypeOK, PlaceOK, ProcessesOK, LeftOK, OutsideOK, CountersOK

Running == phase \in {"startup", "monitoring"}

LEMMA NotPassed ==
  ASSUME Inv, phase # "over", UNCHANGED runtime, \A i \in 1..12 : ~Passed(i)'
  PROVE  Reaped' /\ Withdrawn' /\ GoesLast'
BY DEF Inv, Reaped, Withdrawn, GoesLast

\* Before the shutdown nothing is passed yet, so nothing can be lost of it.
LEMMA EarlyPlace ==
  ASSUME Inv, Running, Onward \/ AwaitIt \/ EndSession, UNCHANGED runtime
  PROVE  PlaceOK' /\ Standing' /\ Reaped' /\ Withdrawn' /\ GoesLast'
<1>1. phase # "over" /\ TypeOK /\ Standing
  BY DEF Running, Inv
<1>2. CASE Onward
  <2>1. awaiting' = FALSE /\ (\/ phase' = "startup" /\ at' \in 1..10
                              \/ phase' = "monitoring" /\ at' \in 1..9)
    <3>1. /\ awaiting' = FALSE
          /\ phase = "startup" => \/ phase' = "startup" /\ at' \in 1..10
                                  \/ phase' = "monitoring" /\ at' = 1
          /\ phase = "monitoring" => phase' = "monitoring" /\ at' \in 1..9
      BY <1>1, <1>2, OnwardGoes
    <3> QED
      BY <3>1 DEF Running
  <2>2. \A i \in 1..12 : ~Passed(i)'
    BY <2>1 DEF Passed
  <2>3. PlaceOK'
    <3>1. at' \in 1..12
      BY <2>1
    <3> QED
      BY <2>1, <3>1, Zenon DEF PlaceOK
  <2>4. Standing'
    BY <2>1 DEF Standing
  <2> QED
    BY <1>1, <2>2, <2>3, <2>4, NotPassed
<1>3. CASE AwaitIt
  <2>1. awaiting' = TRUE /\ phase' = phase /\ at' = at
    BY <1>3 DEF AwaitIt
  <2>2. \A i \in 1..12 : ~Passed(i)'
    BY <2>1 DEF Passed, Running
  <2>3. PlaceOK' /\ Standing'
    BY <1>1, <2>1 DEF Running, TypeOK, PlaceOK, Standing
  <2> QED
    BY <1>1, <2>2, <2>3, NotPassed
<1>4. CASE EndSession
  <2>1. awaiting' = FALSE /\ phase' = "stopping" /\ at' = 1
    BY <1>4 DEF EndSession
  <2>2. \A i \in 1..12 : ~Passed(i)'
    BY <2>1 DEF Passed
  <2>3. PlaceOK'
    <3>1. at' \in 1..12
      BY <2>1
    <3> QED
      BY <2>1, <3>1, Zenon DEF PlaceOK
  <2>4. Standing'
    BY <2>1 DEF Standing
  <2> QED
    BY <1>1, <2>2, <2>3, <2>4, NotPassed
<1> QED
  BY <1>2, <1>3, <1>4

LEMMA LatePlace ==
  ASSUME Inv, phase = "stopping", Onward
  PROVE  /\ PlaceOK' /\ Standing'
         /\ phase' # "over" => at' = at + 1 /\ at < 12
         /\ phase' = "over" => at = 12
         /\ \A i \in 1..12 : Passed(i)' => Passed(i) \/ i = at
<1>1. phase # "over" /\ TypeOK /\ Standing /\ at \in 1..12
  BY DEF Inv, TypeOK
<1>2. awaiting' = FALSE /\ (\/ phase' = "stopping" /\ at < 12 /\ at' = at + 1
                            \/ phase' = "over" /\ at = 12 /\ at' = 12)
  BY <1>1, OnwardGoes
<1>3. PlaceOK'
  <2>1. at' \in 1..12
    BY <1>1, <1>2
  <2> QED
    BY <1>2, <2>1, Zenon DEF PlaceOK
<1>4. Standing'
  BY <1>2 DEF Standing
<1>5. \A i \in 1..12 : Passed(i)' => Passed(i) \/ i = at
  BY <1>1, <1>2 DEF Passed
<1> QED
  BY <1>2, <1>3, <1>4, <1>5

\* A child that is gone stays gone, wherever the supervisor is.
LEMMA StayingPlace ==
  ASSUME Inv, UNCHANGED <<place, outside>>,
    \A c \in Children : child[c] = "none" => child'[c] = "none"
  PROVE  PlaceOK' /\ Standing' /\ Reaped' /\ Withdrawn' /\ GoesLast'
<1>1. \A i \in 1..12 : Passed(i)' <=> Passed(i)
  BY DEF Passed, place
<1>2. Reaped'
  BY <1>1 DEF Inv, Reaped, StopOrder
<1>3. Withdrawn' /\ GoesLast'
  BY <1>1 DEF Inv, Withdrawn, GoesLast, outside, place
<1>4. PlaceOK' /\ Standing'
  BY DEF Inv, TypeOK, PlaceOK, Standing, place
<1> QED
  BY <1>2, <1>3, <1>4

-----------------------------------------------------------------------------
(* What a step does to the processes. *)

\* The parts of the invariant that are about processes.
Known == ProcessesOK /\ KinKnown /\ OneGeneration

LEMMA Spawns ==
  ASSUME Known, NEW c \in Children, child' = [child EXCEPT ![c] = "alive"],
         kin' \in {kin, kin \ {c}}, UNCHANGED strays
  PROVE  Known'
BY DEF Known, ProcessesOK, KinKnown, OneGeneration

LEMMA Leaves ==
  ASSUME Known, NEW c \in Children, child' = [child EXCEPT ![c] = "none"], kin' = kin \ {c},
         \/ UNCHANGED strays
         \/ c \in {"watcher", "notifications"} /\ strays' = strays \cup {c}
  PROVE  Known'
<1>1. ProcessesOK'
  BY DEF Known, ProcessesOK, OneGeneration
<1>2. KinKnown'
  BY DEF Known, ProcessesOK, KinKnown
<1>3. OneGeneration'
  BY DEF Known, OneGeneration
<1> QED
  BY <1>1, <1>2, <1>3 DEF Known

LEMMA Spared ==
  ASSUME Known, NEW c, kin' = kin \ {c}, UNCHANGED <<child, strays>>
  PROVE  Known'
BY DEF Known, ProcessesOK, KinKnown, OneGeneration

LEMMA FaultCounted ==
  ASSUME CountersOK, Fault, UNCHANGED <<exits, forks>>
  PROVE  CountersOK'
BY BoundAssumption DEF CountersOK, Fault, BoundAssumption

LEMMA NothingCounted ==
  ASSUME CountersOK, UNCHANGED counters
  PROVE  CountersOK'
BY DEF CountersOK, counters

LEMMA Whole ==
  Inv <=> /\ PlaceOK /\ Standing /\ Reaped /\ Withdrawn /\ GoesLast
          /\ Known /\ LeftOK /\ flag \in BOOLEAN /\ OutsideOK /\ CountersOK
BY Types DEF Inv, Known

LEMMA WholeNext ==
  ASSUME PlaceOK', Standing', Reaped', Withdrawn', GoesLast',
         Known', LeftOK', flag' \in BOOLEAN, OutsideOK', CountersOK'
  PROVE  Inv'
<1>1. TypeOK'
  BY DEF Known, TypeOK, PlaceOK, ProcessesOK, LeftOK, OutsideOK, CountersOK
<1> QED
  BY <1>1 DEF Inv, Known

-----------------------------------------------------------------------------
(* The steps. *)

LEMMA InitInv == Init => Inv
<1> SUFFICES ASSUME Init PROVE Inv
  OBVIOUS
<1>1. at \in 1..10
  BY AheadIn, StartsSomewhere, Least DEF Init
<1>2. PlaceOK /\ Standing
  <2>1. at \in 1..12
    BY <1>1
  <2>2. PlaceOK
    BY <2>1, Zenon DEF Init, PlaceOK
  <2> QED
    BY <1>1, <2>2 DEF Init, Standing
<1>3. Known
  BY DEF Init, Known, ProcessesOK, KinKnown, OneGeneration
<1>4. LeftOK
  BY BoundAssumption DEF Init, LeftOK, BoundAssumption
<1>5. CountersOK
  BY BoundAssumption DEF Init, CountersOK, BoundAssumption
<1>6. OutsideOK /\ flag \in BOOLEAN
  BY DEF Init, OutsideOK
<1>7. Reaped /\ Withdrawn /\ GoesLast
  BY DEF Init, Reaped, Withdrawn, GoesLast, Passed
<1> QED
  BY <1>2, <1>3, <1>4, <1>5, <1>6, <1>7, Whole

LEMMA StartStep ==
  ASSUME Inv, NEW c \in Children, Start(c)
  PROVE  Inv'
<1>1. Running /\ (Onward \/ AwaitIt \/ EndSession) /\ UNCHANGED <<kin, strays, left, flag,
  outside, exits, forks>>
  BY HereEarlier DEF Start, Running
<1>2. PlaceOK' /\ Standing' /\ Reaped' /\ Withdrawn' /\ GoesLast'
  BY <1>1, EarlyPlace DEF outside
<1>3. Known' /\ CountersOK'
  <2>1. Known /\ CountersOK
    BY Whole
  <2>2. CASE child' = [child EXCEPT ![c] = "alive"] /\ UNCHANGED faults
    <3>1. Known'
      BY <1>1, <2>1, <2>2, Spawns
    <3> QED
      BY <1>1, <2>1, <2>2, <3>1, NothingCounted DEF counters
  <2>3. CASE Fault /\ UNCHANGED child
    <3>1. Known'
      BY <1>1, <2>1, <2>3 DEF Known, ProcessesOK, KinKnown, OneGeneration
    <3> QED
      BY <1>1, <2>1, <2>3, <3>1, FaultCounted
  <2> QED
    BY <2>2, <2>3 DEF Start
<1>4. LeftOK' /\ flag' \in BOOLEAN /\ OutsideOK'
  BY <1>1, Whole DEF LeftOK, OutsideOK, outside
<1> QED
  BY <1>2, <1>3, <1>4, WholeNext

\* The records are left by steps that may fail.
LEMMA RecordStep ==
  ASSUME Inv, Publish \/ StartScopes
  PROVE  Inv'
<1>1. Running /\ (Onward \/ EndSession) /\ UNCHANGED <<processes, left, flag, runtime, failed,
  exits, forks>>
  BY HereEarlier DEF Publish, StartScopes, Running
<1>2. PlaceOK' /\ Standing' /\ Reaped' /\ Withdrawn' /\ GoesLast'
  BY <1>1, EarlyPlace
<1>3. Known' /\ LeftOK' /\ flag' \in BOOLEAN
  BY <1>1, Whole DEF Known, ProcessesOK, KinKnown, OneGeneration, LeftOK, processes
<1>4. CountersOK'
  <2>1. CASE UNCHANGED faults
    BY <1>1, <2>1, Whole, NothingCounted DEF counters
  <2>2. CASE Fault
    BY <1>1, <2>2, Whole, FaultCounted
  <2> QED
    BY <2>1, <2>2 DEF Publish, StartScopes
<1>5. OutsideOK'
  BY <1>1, Whole DEF OutsideOK, Publish, StartScopes
<1> QED
  BY <1>2, <1>3, <1>4, <1>5, WholeNext

\* Looks of the supervisor that leave the processes and what is outside alone.
LEMMA LookStep ==
  ASSUME Inv, Running, Onward \/ EndSession, UNCHANGED <<processes, left, flag, outside, counters>>
  PROVE  Inv'
<1>1. PlaceOK' /\ Standing' /\ Reaped' /\ Withdrawn' /\ GoesLast'
  BY EarlyPlace DEF outside
<1>2. Known' /\ LeftOK' /\ flag' \in BOOLEAN /\ OutsideOK'
  BY Whole DEF Known, ProcessesOK, KinKnown, OneGeneration, LeftOK, OutsideOK, processes, outside
<1>3. CountersOK'
  BY Whole, NothingCounted
<1> QED
  BY <1>1, <1>2, <1>3, WholeNext

\* Looks that stop or give up a child.
LEMMA StopStep ==
  ASSUME Inv, Running, Onward \/ EndSession, NEW c \in Children,
         Stopped(c) \/ (GivenUp(c) /\ c \in {"watcher", "notifications"}),
         UNCHANGED <<left, flag, outside, counters>>
  PROVE  Inv'
<1>1. PlaceOK' /\ Standing' /\ Reaped' /\ Withdrawn' /\ GoesLast'
  BY EarlyPlace DEF outside
<1>2. Known'
  BY Whole, Leaves DEF Stopped, GivenUp
<1>3. LeftOK' /\ flag' \in BOOLEAN /\ OutsideOK'
  BY Whole DEF LeftOK, OutsideOK, outside
<1>4. CountersOK'
  BY Whole, NothingCounted
<1> QED
  BY <1>1, <1>2, <1>3, <1>4, WholeNext

LEMMA AwaitStep ==
  ASSUME Inv, NEW c \in Children, Ready(c) \/ AwaitFails(c)
  PROVE  Inv'
<1>1. Running
  BY DEF Ready, AwaitFails, Awaits, Running, Inv, Standing
<1>2. CASE Ready(c)
  BY <1>1, <1>2, LookStep DEF Ready
<1>3. CASE AwaitFails(c)
  BY <1>1, <1>3, LookStep, StopStep DEF AwaitFails
<1> QED
  BY <1>2, <1>3

\* Looks that spawn a child again, or fail to.
LEMMA RestartStep ==
  ASSUME Inv, NEW c \in Children, LookAtRestartable(c)
  PROVE  Inv'
<1>1. Running /\ UNCHANGED <<flag, outside, exits, forks>> /\ Respawned(c)
      /\ left[c] > 0 /\ left' = [left EXCEPT ![c] = left[c] - 1]
  BY HereEarlier DEF LookAtRestartable, Running
<1>2. Onward \/ AwaitIt \/ EndSession
  BY DEF LookAtRestartable, Inv, TypeOK, Respawned
<1>3. PlaceOK' /\ Standing' /\ Reaped' /\ Withdrawn' /\ GoesLast'
  BY <1>1, <1>2, EarlyPlace DEF outside
<1>4. Known' /\ CountersOK'
  <2>1. CASE child' = [child EXCEPT ![c] = "alive"] /\ UNCHANGED faults
    BY <1>1, <2>1, Whole, Spawns, NothingCounted DEF Respawned, counters
  <2>2. CASE Fault /\ UNCHANGED child
    BY <1>1, <2>2, Whole, Spared, FaultCounted DEF Respawned
  <2> QED
    BY <1>1, <2>1, <2>2 DEF Respawned
<1>5. LeftOK'
  BY <1>1, Whole, BoundAssumption DEF LeftOK, BoundAssumption
<1>6. flag' \in BOOLEAN /\ OutsideOK'
  BY <1>1, Whole DEF OutsideOK, outside
<1> QED
  BY <1>3, <1>4, <1>5, <1>6, WholeNext

LEMMA ServiceStep ==
  ASSUME Inv, LookAtService
  PROVE  Inv'
<1> DEFINE c == "service"
<1>1. c \in Children
  BY DEF Children, Services
<1>2. Running /\ (Onward \/ AwaitIt) /\ kin' = kin \ {c}
      /\ UNCHANGED <<strays, flag, outside, exits, forks>>
  BY HereEarlier DEF LookAtService, Running
<1>3. PlaceOK' /\ Standing' /\ Reaped' /\ Withdrawn' /\ GoesLast'
  BY <1>2, EarlyPlace DEF outside
<1>4. \/ child' = [child EXCEPT ![c] = "alive"] /\ UNCHANGED faults
      \/ child' = [child EXCEPT ![c] = "none"] /\ (Fault \/ UNCHANGED faults)
  BY DEF LookAtService
<1>5. Known' /\ CountersOK'
  <2>1. Known'
    BY <1>1, <1>2, <1>4, Whole, Spawns, Leaves
  <2>2. CountersOK'
    BY <1>2, <1>4, Whole, FaultCounted, NothingCounted DEF counters
  <2> QED
    BY <2>1, <2>2
<1>6. LeftOK'
  <2>1. left' = left \/ (left[c] > 0 /\ left' = [left EXCEPT ![c] = left[c] - 1])
    BY DEF LookAtService
  <2> QED
    BY <1>1, <2>1, Whole, BoundAssumption DEF LeftOK, BoundAssumption
<1>7. flag' \in BOOLEAN /\ OutsideOK'
  BY <1>2, Whole DEF OutsideOK, outside
<1> QED
  BY <1>3, <1>5, <1>6, <1>7, WholeNext

LEMMA MonitorStep ==
  ASSUME Inv, Monitor
  PROVE  Inv'
<1>1. CASE LookAtFlag
  BY <1>1, LookStep, HereEarlier DEF LookAtFlag, Running
<1>2. CASE LookAtWatcher
  <2>1. "watcher" \in Children
    BY DEF Children
  <2> QED
    BY <1>2, <2>1, StopStep, HereEarlier DEF LookAtWatcher, Running
<1>3. CASE LookAtService
  BY <1>3, ServiceStep
<1>4. CASE LookAtWayVNC
  <2>1. "wayvnc" \in Children
    BY DEF Children
  <2> QED
    BY <1>4, <2>1, StopStep, HereEarlier DEF LookAtWayVNC, Running
<1>5. ASSUME NEW c \in Children, LookAgain(c) \/ LookAtVital(c)
      PROVE  Inv'
  BY <1>5, LookStep, HereEarlier DEF LookAgain, LookAtVital, Running
<1>6. ASSUME NEW c \in Children, LookAtRestartable(c)
      PROVE  Inv'
  BY <1>6, RestartStep
<1>7. ASSUME NEW c \in Children, LookAtSpent(c)
      PROVE  Inv'
  BY <1>7, LookStep, StopStep, HereEarlier DEF LookAtSpent, Running
<1> QED
  BY <1>1, <1>2, <1>3, <1>4, <1>5, <1>6, <1>7 DEF Monitor

\* A child is reaped at its place, and those reaped before stay so.
LEMMA ReapStep ==
  ASSUME Inv, NEW c \in Children, Reap(c)
  PROVE  Inv'
<1>1. /\ phase = "stopping" /\ ~awaiting /\ c = StopOrder[at] /\ Onward
      /\ child' = [child EXCEPT ![c] = "none"] /\ kin' = kin \ {c}
      /\ UNCHANGED <<strays, left, flag, outside, counters>>
  BY HereStopping DEF Reap
<1>2. /\ PlaceOK' /\ Standing'
      /\ phase' = "over" => at = 12
      /\ \A i \in 1..12 : Passed(i)' => Passed(i) \/ i = at
  BY <1>1, LatePlace
<1>3. Reaped'
  <2> SUFFICES ASSUME NEW i \in 1..12, Passed(i)', StopOrder[i] \in Children
               PROVE  child'[StopOrder[i]] = "none"
    BY DEF Reaped, StopOrder
  <2>1. CASE Passed(i)
    BY <1>1, <2>1 DEF Inv, Reaped, TypeOK
  <2>2. CASE i = at
    BY <1>1, <2>2 DEF Inv, TypeOK
  <2> QED
    BY <1>2, <2>1, <2>2
<1>4. at \notin {9, 10, 12}
  BY <1>1, StopOrderIs DEF Children, Needed, Services
<1>5. Withdrawn' /\ GoesLast'
  <2>1. (Passed(9)' => Passed(9)) /\ (Passed(10)' => Passed(10))
    BY <1>2, <1>4
  <2>2. Withdrawn'
    BY <1>1, <2>1 DEF Inv, Withdrawn, outside
  <2>3. runtime /\ runtime' = runtime
    BY <1>1 DEF Inv, GoesLast, outside
  <2> QED
    BY <2>2, <2>3 DEF GoesLast
<1>6. Known'
  BY <1>1, Whole, Leaves
<1>7. LeftOK' /\ flag' \in BOOLEAN /\ OutsideOK' /\ CountersOK'
  BY <1>1, Whole, NothingCounted DEF LeftOK, OutsideOK, outside
<1> QED
  BY <1>2, <1>3, <1>5, <1>6, <1>7, WholeNext

\* The steps of the shutdown that are not about a child.
LEMMA OtherPlaces ==
  ASSUME Inv, phase = "stopping", NEW c, c = StopOrder[at]
  PROVE  /\ c = "terminate" => at = 1
         /\ c = "retire" => at = 9
         /\ c = "scopes" => at = 10
         /\ c = "remove" => at = 12
BY StopOrderIs DEF Inv, TypeOK

\* They find the children before their place reaped.
LEMMA ReapedStays ==
  ASSUME Inv, phase = "stopping", Onward, StopOrder[at] \notin Children, UNCHANGED child
  PROVE  Reaped'
<1>1. \A i \in 1..12 : Passed(i)' => Passed(i) \/ i = at
  BY LatePlace
<1> QED
  BY <1>1 DEF Reaped, StopOrder, Inv

LEMMA ShutdownStep ==
  ASSUME Inv, Terminate \/ Retire \/ StopScopes \/ Remove
  PROVE  Inv'
<1> DEFINE step == StopOrder[at]
<1>1. /\ phase = "stopping" /\ Onward /\ step \in {"terminate", "retire", "scopes", "remove"}
      /\ UNCHANGED <<processes, left, flag, exits, forks>>
  BY HereStopping DEF Terminate, Retire, StopScopes, Remove, counters
<1>2. step \notin Children
  BY <1>1 DEF Children, Needed, Services
<1>3. /\ PlaceOK' /\ Standing'
      /\ phase' = "over" => at = 12
      /\ \A i \in 1..12 : Passed(i)' => Passed(i) \/ i = at
  BY <1>1, LatePlace
<1>4. Reaped'
  BY <1>1, <1>2, ReapedStays DEF processes
<1>5. Known' /\ LeftOK' /\ flag' \in BOOLEAN
  BY <1>1, Whole DEF Known, ProcessesOK, KinKnown, OneGeneration, LeftOK, processes
<1>6. CountersOK'
  <2>1. Fault \/ UNCHANGED faults
    BY DEF Terminate, Retire, StopScopes, Remove, counters
  <2> QED
    BY <1>1, <2>1, Whole, FaultCounted, NothingCounted DEF counters
<1>7. OutsideOK'
  BY Whole DEF OutsideOK, outside, Terminate, Retire, StopScopes, Remove
<1>8. runtime
  BY <1>1 DEF Inv, GoesLast
<1>9. Withdrawn' /\ GoesLast'
  <2>1. CASE Terminate
    <3>1. at = 1 /\ UNCHANGED outside
      BY <1>1, <2>1, HereStopping, OtherPlaces DEF Terminate
    <3>2. ~Passed(9)' /\ ~Passed(10)'
      BY <1>3, <3>1, <1>1 DEF Passed
    <3> QED
      BY <1>8, <3>1, <3>2 DEF Withdrawn, GoesLast, outside
  <2>2. CASE Retire
    <3>1. at = 9 /\ UNCHANGED <<scopes, runtime>>
          /\ (published' = FALSE \/ "retire" \in failed')
      BY <1>1, <2>2, HereStopping, OtherPlaces DEF Retire
    <3>2. ~Passed(10)'
      BY <1>3, <3>1, <1>1 DEF Passed
    <3> QED
      BY <1>8, <3>1, <3>2 DEF Withdrawn, GoesLast
  <2>3. CASE StopScopes
    <3>1. at = 10 /\ UNCHANGED <<published, runtime>> /\ failed \subseteq failed'
          /\ (scopes' = FALSE \/ "scopes" \in failed')
      BY <1>1, <2>3, HereStopping, OtherPlaces DEF StopScopes
    <3>2. ~published \/ "retire" \in failed
      BY <1>1, <3>1 DEF Inv, Withdrawn, Passed
    <3> QED
      BY <1>8, <3>1, <3>2 DEF Withdrawn, GoesLast
  <2>4. CASE Remove
    <3>1. at = 12 /\ UNCHANGED <<published, scopes>> /\ failed \subseteq failed'
      BY <1>1, <2>4, HereStopping, OtherPlaces DEF Remove
    <3>2. (~published \/ "retire" \in failed) /\ (~scopes \/ "scopes" \in failed)
      BY <1>1, <3>1 DEF Inv, Withdrawn, Passed
    <3>3. Withdrawn'
      BY <3>1, <3>2 DEF Withdrawn
    <3>4. phase' = "over"
      BY <1>1, <1>3, <3>1, LatePlace
    <3>5. runtime' = runtime \/ failed = {}
      BY <2>4 DEF Remove
    <3> QED
      BY <1>8, <3>1, <3>2, <3>3, <3>4, <3>5 DEF GoesLast
  <2> QED
    BY <2>1, <2>2, <2>3, <2>4
<1> QED
  BY <1>3, <1>4, <1>5, <1>6, <1>7, <1>9, WholeNext

\* What the children and the user do.
LEMMA OutsideStep ==
  ASSUME Inv, \/ \E c \in Children : Exit(c) \/ Fork(c) \/ KinExit(c)
              \/ RequestShutdown
  PROVE  Inv'
<1>1. UNCHANGED <<place, strays, left, outside, faults>>
  BY DEF Exit, Fork, KinExit, RequestShutdown, processes, counters
<1>2. ASSUME NEW c \in Children, Exit(c)
      PROVE  /\ Known'
             /\ CountersOK'
             /\ flag' = flag
             /\ \A d \in Children : child[d] = "none" => child'[d] = "none"
  <2>1. child[c] = "alive" /\ child' = [child EXCEPT ![c] = "exited"] /\ UNCHANGED <<kin, strays,
    flag, forks, faults>>
    BY <1>2 DEF Exit
  <2>2. Known'
    BY <2>1, Whole DEF Known, ProcessesOK, KinKnown, OneGeneration
  <2>3. CountersOK'
    BY <1>2, <2>1, Whole, BoundAssumption DEF CountersOK, Exit, BoundAssumption
  <2> QED
    BY <2>1, <2>2, <2>3 DEF Inv, TypeOK
<1>3. ASSUME NEW c \in Children, Fork(c) \/ KinExit(c)
      PROVE  Known' /\ CountersOK' /\ flag' = flag /\ UNCHANGED child
  <2>1. UNCHANGED <<child, strays, flag, exits, faults>>
    BY <1>3 DEF Fork, KinExit, counters
  <2>2. kin' = kin \ {c} \/ (kin' = kin \cup {c} /\ child[c] = "alive")
    BY <1>3 DEF Fork, KinExit
  <2>3. Known'
    BY <2>1, <2>2, Whole DEF Known, ProcessesOK, KinKnown, OneGeneration
  <2>4. CountersOK'
    BY <1>3, <2>1, Whole, BoundAssumption DEF CountersOK, Fork, KinExit, counters, BoundAssumption
  <2> QED
    BY <2>1, <2>3, <2>4
<1>4. ASSUME RequestShutdown
      PROVE  Known' /\ CountersOK' /\ flag' = TRUE /\ UNCHANGED child
  BY <1>4, Whole, NothingCounted
  DEF RequestShutdown, Known, ProcessesOK, KinKnown, OneGeneration, processes
<1>5. /\ Known'
      /\ CountersOK'
      /\ flag' \in BOOLEAN
      /\ \A d \in Children : child[d] = "none" => child'[d] = "none"
  BY <1>2, <1>3, <1>4, Whole
<1>6. PlaceOK' /\ Standing' /\ Reaped' /\ Withdrawn' /\ GoesLast'
  BY <1>1, <1>5, StayingPlace
<1>7. LeftOK' /\ OutsideOK'
  BY <1>1, Whole DEF LeftOK, OutsideOK, outside
<1> QED
  BY <1>5, <1>6, <1>7, WholeNext

LEMMA StutterStep ==
  ASSUME Inv, UNCHANGED vars
  PROVE  Inv'
<1>1. Known' /\ LeftOK' /\ flag' \in BOOLEAN /\ OutsideOK' /\ CountersOK'
  BY Whole, NothingCounted DEF vars, processes, outside, Known, ProcessesOK, KinKnown,
    OneGeneration,
     LeftOK, OutsideOK
<1>2. PlaceOK' /\ Standing' /\ Reaped' /\ Withdrawn' /\ GoesLast'
  BY StayingPlace DEF vars, processes
<1> QED
  BY <1>1, <1>2, WholeNext

LEMMA NextInv == Inv /\ [Next]_vars => Inv'
<1> SUFFICES ASSUME Inv, [Next]_vars PROVE Inv'
  OBVIOUS
<1>1. CASE Startup
  BY <1>1, StartStep, RecordStep DEF Startup
<1>2. CASE Monitor
  BY <1>2, MonitorStep
<1>3. CASE Shutdown
  BY <1>3, ShutdownStep, ReapStep DEF Shutdown
<1>4. ASSUME NEW c \in Children, Ready(c) \/ AwaitFails(c)
      PROVE  Inv'
  BY <1>4, AwaitStep
<1>5. CASE (\E c \in Children : Exit(c) \/ Fork(c) \/ KinExit(c)) \/ RequestShutdown
  BY <1>5, OutsideStep
<1>6. CASE UNCHANGED vars
  BY <1>6, StutterStep
<1> QED
  BY <1>1, <1>2, <1>3, <1>4, <1>5, <1>6 DEF Next

LEMMA Invariance == Spec => []Inv
<1> QED
  BY InitInv, NextInv, PTL DEF Spec

\* What the invariant says when the supervisor exits: every child has had its place.
LEMMA InvSound == Inv => SessionSound
<1> SUFFICES ASSUME Inv PROVE SessionSound
  OBVIOUS
<1>1. phase = "over" => \A c \in Children : child[c] = "none"
  BY EveryChildStops DEF Inv, Reaped, Passed
<1>2. NothingLeft
  BY <1>1 DEF NothingLeft, Inv, KinKnown, TypeOK
<1>3. RemovedMeansClean
  BY <1>2 DEF RemovedMeansClean, Inv, GoesLast, NothingLeft
<1> QED
  BY <1>2, <1>3 DEF SessionSound, ChildrenReaped, Inv

\* However far startup came and whatever exited, failed or forked, for any parts and any
\* restarts: nothing of the session runs when the supervisor exits, no part runs twice,
\* and the runtime directory is removed only when no record in it is needed.
THEOREM NothingForgotten == Spec => []SessionSound
<1> QED
  BY Invariance, InvSound, PTL

-----------------------------------------------------------------------------
(* Why a running desktop is ended. *)

LEMMA Cause ==
  ASSUME Inv, Next, phase = "monitoring", phase' = "stopping"
  PROVE  \/ flag \/ awaiting \/ faults' # faults
         \/ \E c \in Needed \cup {"bus"} : child[c] = "exited"
<1> SUFFICES ASSUME ~awaiting PROVE flag \/ faults' # faults
                                    \/ \E c \in Needed \cup {"bus"} : child[c] = "exited"
  OBVIOUS
<1>1. ~Onward
  <2> SUFFICES ASSUME Onward PROVE FALSE
    OBVIOUS
  <2>1. phase' = "monitoring"
    BY OnwardGoes DEF Inv
  <2> QED
    BY <2>1
<1>2. ~Startup /\ ~Shutdown
  BY HereEarlier, HereStopping
  DEF Startup, Shutdown, Publish, StartScopes, Start, Terminate, Retire, StopScopes, Remove, Reap
<1>3. CASE Monitor
  <2>1. CASE LookAtFlag
    BY <1>1, <2>1 DEF LookAtFlag
  <2>2. ~LookAtWatcher /\ ~LookAtWayVNC /\ \A c \in Children : ~LookAgain(c)
    BY <1>1 DEF LookAtWatcher, LookAtWayVNC, LookAgain
  <2>3. ~LookAtService
    BY <1>1 DEF LookAtService, AwaitIt
  <2>4. ASSUME NEW c \in Children, LookAtVital(c)
        PROVE  \E d \in Needed \cup {"bus"} : child[d] = "exited"
    BY <2>4 DEF LookAtVital, Needed
  <2>5. ASSUME NEW c \in Children, LookAtRestartable(c)
        PROVE  faults' # faults
    <3>1. child'[c] = "exited"
      BY <1>1, <2>5 DEF LookAtRestartable, AwaitIt, Inv, TypeOK, Respawned
    <3>2. ~(child' = [child EXCEPT ![c] = "alive"])
      BY <3>1 DEF Inv, TypeOK
    <3>3. Fault
      BY <2>5, <3>2 DEF LookAtRestartable, Respawned
    <3> QED
      BY <3>3, BoundAssumption DEF Fault, Inv, TypeOK, BoundAssumption
  <2>6. ASSUME NEW c \in Children, LookAtSpent(c)
        PROVE  \E d \in Needed \cup {"bus"} : child[d] = "exited"
    BY <1>1, <2>6 DEF LookAtSpent, Needed
  <2> QED
    BY <1>3, <2>1, <2>2, <2>3, <2>4, <2>5, <2>6 DEF Monitor
<1>4. \A c \in Children : ~Ready(c) /\ ~AwaitFails(c)
  BY DEF Ready, AwaitFails, Awaits
<1>5. ~(\E c \in Children : Exit(c) \/ Fork(c) \/ KinExit(c)) /\ ~RequestShutdown
  BY DEF Exit, Fork, KinExit, RequestShutdown, place
<1> QED
  BY <1>2, <1>3, <1>4, <1>5 DEF Next

\* A running desktop is ended by a request, a needed child that is lost or does not come
\* back, or a call of the supervisor that fails: never by an optional child.
THEOREM EndsOnlyForCause == Spec => EndsForCause
<1>1. Inv /\ [Next]_vars =>
        [phase = "monitoring" /\ phase' = "stopping" =>
           \/ flag \/ awaiting \/ faults' # faults
           \/ \E c \in Needed \cup {"bus"} : child[c] = "exited"]_vars
  BY Cause DEF vars, place
<1> QED
  BY <1>1, Invariance, PTL DEF Spec, EndsForCause

-----------------------------------------------------------------------------
Cleaning == {"show", "stop", "stopping", "wait"}
Barred == ~directory \/ closing

\* The cleaner has listed what it waits for.
Walked(c) ==
  barrier[c].pc \in Cleaning \/ (Scoped!At(c, "done") /\ barrier[c].seen # {})

\* A cleaner works while there is a directory to remove; the compositor has ended before.
LivesInOrder ==
  /\ desktop => supervisor \in {"live", "dead"} /\ Scoped!At("login guard", "off")
  /\ ~Scoped!At("login guard", "off") => Scoped!SupervisorGone
  /\ Scoped!At("login guard", "off") => barrier["login guard"].seen = {}
  /\ ~Scoped!At("supervisor", "off") => supervisor \in {"stopping", "ended", "failed"}
  /\ ~directory => Scoped!SupervisorGone
  /\ directory /\ supervisor # "new" => intent
  /\ supervisor = "ended" => ~directory
  /\ supervisor \in {"ended", "failed"} =>
       barrier["supervisor"].pc \notin Cleaning \cup {"mark", "read"}
  /\ barrier["login guard"].pc \in Cleaning \cup {"mark", "read"} => directory
  /\ supervisor = "failed" => Scoped!At("supervisor", "failed")

\* A launcher records a scope before it asks for it.
ScopesRecorded ==
  directory => \A x \in Scoped!Scopes :
    x \in asked \/ scope[x] # "none" \/ launch[x] = "recorded" => x \in records

ServiceGuarded == guard = "none" <=> owner \in {"unknown", "inactive"}

\* Nothing is asked for that a cleaner which has listed would not wait for.
Listed(c) ==
  /\ Scoped!At(c, "read") \/ Walked(c) => Barred /\ ~desktop
  /\ Walked(c) =>
       /\ Scoped!Owner \in barrier[c].seen
       /\ \A x \in Scoped!Scopes : x \in asked \/ scope[x] # "none" => x \in barrier[c].seen

\* From the owner's end on no guard watches, and what was found stopped runs at most because
\* the manager has started the owner anew for it.
Checked(c) ==
  /\ barrier[c].pc \in {"stop", "stopping"} => barrier[c].left = barrier[c].seen
  /\ Walked(c) /\ barrier[c].pc \in {"stopping", "wait", "done"} =>
       /\ owner = "active" => guard = "begun"
       /\ barrier[c].pc # "stopping" => owner # "stopping"
       /\ barrier[c].pc = "done" => barrier[c].left = {}
       /\ \A x \in Scoped!Scopes :
            x \in barrier[c].seen /\ x \notin barrier[c].left /\ scope[x] # "none" => x \in brief

Places == {"off", "mark", "read", "show", "stop", "stopping", "wait", "done", "failed"}
CleanerStates == [pc : Places, seen : SUBSET Scoped!Units, left : SUBSET Scoped!Units]
FlagsTyped ==
  /\ supervisor \in {"new", "asked", "live", "stopping", "ended", "failed", "dead"}
  /\ desktop \in BOOLEAN
  /\ directory \in BOOLEAN /\ intent \in BOOLEAN /\ ready \in BOOLEAN /\ closing \in BOOLEAN
  /\ owner \in {"unknown", "active", "stopping", "inactive"}
  /\ guard \in {"none", "begun", "watching", "leaving"}
  /\ killed \in 0..ScopeFaults
UnitsTyped ==
  /\ records \in SUBSET Scoped!Scopes /\ brief \in SUBSET Scoped!Scopes
  /\ scope \in [Scoped!Scopes -> {"none", "running", "stopping"}]
  /\ launch \in [Scoped!Scopes -> {"idle", "checked", "recorded", "over"}]
  /\ asked \in SUBSET Scoped!Units
CleanersTyped == barrier \in [Scoped!Cleaners -> CleanerStates]

ScopeInv ==
  /\ FlagsTyped /\ UnitsTyped /\ CleanersTyped /\ LivesInOrder /\ ScopesRecorded /\ ServiceGuarded
  /\ \A c \in Scoped!Cleaners : Listed(c) /\ Checked(c)

LEMMA ScopeInvHolds == ASSUME ScopeInv PROVE Scoped!TypeOK /\ Scoped!BarrierHolds
<1>1. Scoped!TypeOK
  BY DEF ScopeInv, Scoped!TypeOK, FlagsTyped, UnitsTyped, CleanersTyped, Places, CleanerStates
<1>2. ASSUME NEW c \in Scoped!Cleaners, Scoped!At(c, "done"), barrier[c].seen # {}
      PROVE  guard # "watching" /\ \A x \in Scoped!Scopes : scope[x] # "none" => x \in brief
  <2>1. Listed(c) /\ Checked(c) /\ Walked(c) /\ barrier[c].pc = "done"
    BY <1>2 DEF ScopeInv, Walked, Scoped!At
  <2> QED BY <2>1 DEF ScopeInv, Listed, Checked, ServiceGuarded, FlagsTyped
<1> QED BY <1>1, <1>2 DEF Scoped!BarrierHolds

LEMMA Went ==
  ASSUME CleanersTyped, NEW c \in Scoped!Cleaners, NEW p \in Places, Scoped!Go(c, p)
  PROVE  /\ CleanersTyped'
         /\ \A d \in Scoped!Cleaners :
              /\ barrier'[d].pc = IF d = c THEN p ELSE barrier[d].pc
              /\ barrier'[d].seen = barrier[d].seen /\ barrier'[d].left = barrier[d].left
<1>1. barrier' = [barrier EXCEPT ![c] = [barrier[c] EXCEPT !.pc = p]]
  BY DEF Scoped!Go
<1>2. \A d \in Scoped!Cleaners :
        /\ barrier[d] \in CleanerStates
        /\ [barrier[d] EXCEPT !.pc = p] \in CleanerStates
  BY DEF CleanersTyped, CleanerStates
<1> QED BY <1>1, <1>2 DEF CleanersTyped, CleanerStates

LEMMA Noted ==
  ASSUME CleanersTyped, NEW c \in Scoped!Cleaners, NEW b \in CleanerStates,
         barrier' = [barrier EXCEPT ![c] = b]
  PROVE  CleanersTyped' /\ \A d \in Scoped!Cleaners : barrier'[d] = IF d = c THEN b ELSE barrier[d]
BY DEF CleanersTyped

\* The login guard begins to clean only when the supervisor has nothing left to do.
LEMMA OneCleaner ==
  ASSUME LivesInOrder, NEW c \in Scoped!Cleaners, NEW d \in Scoped!Cleaners, d # c,
         barrier[c].pc \in Cleaning \cup {"mark", "read"}
  PROVE  ~Walked(d) /\ barrier[d].pc \notin {"mark", "read"}
BY DEF LivesInOrder, Walked, Cleaning, Scoped!At, Scoped!SupervisorGone, Scoped!Cleaners

LEMMA ScopeInvInit == ASSUME Scoped!Init PROVE ScopeInv
<1> USE DEF Scoped!Init
<1>1. FlagsTyped /\ UnitsTyped
  <2>1. 0 \in 0..ScopeFaults
    BY ScopesAssumption
  <2> QED BY <2>1 DEF FlagsTyped, UnitsTyped
<1>2. CleanersTyped
  BY DEF CleanersTyped, Places, CleanerStates
<1>3. \A c \in Scoped!Cleaners : barrier[c].pc = "off" /\ ~Walked(c)
  BY DEF Walked, Cleaning, Scoped!At
<1>4. LivesInOrder /\ ScopesRecorded /\ ServiceGuarded
  BY <1>3 DEF LivesInOrder, ScopesRecorded, ServiceGuarded, Scoped!At, Scoped!SupervisorGone,
    Cleaning, Scoped!Cleaners
<1>5. ASSUME NEW c \in Scoped!Cleaners PROVE Listed(c) /\ Checked(c)
  BY <1>3, <1>5 DEF Listed, Checked, Scoped!At
<1> QED BY <1>1, <1>2, <1>4, <1>5 DEF ScopeInv

LEMMA ScopeStart ==
  ASSUME ScopeInv, Scoped!Start
  PROVE  ScopeInv'
<1> USE DEF Scoped!Start, ScopeInv, Scoped!SupervisorGone
<1>0. UNCHANGED barrier /\ CleanersTyped'
  BY DEF CleanersTyped
<1>1. FlagsTyped'
  BY ScopesAssumption DEF FlagsTyped
<1>2. UnitsTyped'
  BY DEF UnitsTyped, Scoped!Units, Scoped!Scopes
<1> USE DEF Scoped!At, Scoped!Cleaners
<1>3. LivesInOrder'
  BY <1>0 DEF FlagsTyped, CleanersTyped, LivesInOrder, Cleaning
<1>4. ScopesRecorded'
  BY ScopesAssumption DEF FlagsTyped, UnitsTyped, LivesInOrder, ScopesRecorded, Scoped!Scopes,
    Scoped!Units
<1>5. ServiceGuarded'
  BY DEF FlagsTyped, ServiceGuarded
<1>6. ASSUME NEW d \in Scoped!Cleaners PROVE Listed(d)'
  BY <1>0, <1>6, ScopesAssumption DEF FlagsTyped, UnitsTyped, LivesInOrder, ScopesRecorded,
    Listed, Walked, Cleaning,
    Barred, Scoped!Scopes, Scoped!Units
<1>7. ASSUME NEW d \in Scoped!Cleaners PROVE Checked(d)'
  BY <1>0, <1>7, ScopesAssumption DEF FlagsTyped, UnitsTyped, LivesInOrder, ServiceGuarded,
    Listed, Checked, Walked,
    Cleaning, Barred, Scoped!Scopes, Scoped!Units
<1> QED BY <1>0, <1>1, <1>2, <1>3, <1>4, <1>5, <1>6, <1>7

LEMMA ScopeOwned ==
  ASSUME ScopeInv, Scoped!Owned
  PROVE  ScopeInv'
<1> USE DEF Scoped!Owned, ScopeInv, Scoped!SupervisorGone, Scoped!files, Scoped!units
<1>0. UNCHANGED barrier /\ CleanersTyped'
  BY DEF CleanersTyped
<1>1. FlagsTyped'
  BY ScopesAssumption DEF FlagsTyped
<1>2. UnitsTyped'
  BY DEF UnitsTyped, Scoped!Units, Scoped!Scopes
<1> USE DEF Scoped!At, Scoped!Cleaners
<1>3. LivesInOrder'
  BY <1>0 DEF FlagsTyped, CleanersTyped, LivesInOrder, Cleaning
<1>4. ScopesRecorded'
  BY ScopesAssumption DEF FlagsTyped, UnitsTyped, LivesInOrder, ScopesRecorded, Scoped!Scopes,
    Scoped!Units
<1>5. ServiceGuarded'
  BY DEF FlagsTyped, ServiceGuarded
<1>6. ASSUME NEW d \in Scoped!Cleaners PROVE Listed(d)'
  BY <1>0, <1>6, ScopesAssumption DEF FlagsTyped, UnitsTyped, LivesInOrder, ScopesRecorded,
    Listed, Walked, Cleaning,
    Barred, Scoped!Scopes, Scoped!Units
<1>7. ASSUME NEW d \in Scoped!Cleaners PROVE Checked(d)'
  BY <1>0, <1>7, ScopesAssumption DEF FlagsTyped, UnitsTyped, LivesInOrder, ServiceGuarded,
    Listed, Checked, Walked,
    Cleaning, Barred, Scoped!Scopes, Scoped!Units
<1> QED BY <1>0, <1>1, <1>2, <1>3, <1>4, <1>5, <1>6, <1>7

LEMMA ScopeShutdown ==
  ASSUME ScopeInv, Scoped!Shutdown
  PROVE  ScopeInv'
<1> USE DEF Scoped!Shutdown, ScopeInv, Scoped!SupervisorGone, Scoped!files, Scoped!units
<1>0. /\ CleanersTyped'
      /\ \A d \in Scoped!Cleaners :
           /\ barrier'[d].pc = IF d = "supervisor" THEN "mark" ELSE barrier[d].pc
           /\ barrier'[d].seen = barrier[d].seen /\ barrier'[d].left = barrier[d].left
  <2>1. Scoped!Go("supervisor", "mark") /\ "supervisor" \in Scoped!Cleaners /\ ("mark") \in Places
    BY DEF Places, Scoped!Cleaners
  <2> HIDE DEF Scoped!Shutdown
  <2> QED BY <2>1, Went
<1>1. FlagsTyped'
  BY ScopesAssumption DEF FlagsTyped
<1>2. UnitsTyped'
  BY DEF UnitsTyped, Scoped!Units, Scoped!Scopes
<1> USE DEF Scoped!At, Scoped!Cleaners
<1>3. LivesInOrder'
  BY <1>0 DEF FlagsTyped, CleanersTyped, LivesInOrder, Cleaning
<1>4. ScopesRecorded'
  BY ScopesAssumption DEF FlagsTyped, UnitsTyped, LivesInOrder, ScopesRecorded, Scoped!Scopes,
    Scoped!Units
<1>5. ServiceGuarded'
  BY DEF FlagsTyped, ServiceGuarded
<1>6. ASSUME NEW d \in Scoped!Cleaners PROVE Listed(d)'
  BY <1>0, <1>6, OneCleaner, ScopesAssumption DEF FlagsTyped, UnitsTyped, LivesInOrder,
    ScopesRecorded, Listed, Walked, Cleaning,
    Barred, Scoped!Scopes, Scoped!Units
<1>7. ASSUME NEW d \in Scoped!Cleaners PROVE Checked(d)'
  BY <1>0, <1>7, OneCleaner, ScopesAssumption DEF FlagsTyped, UnitsTyped, LivesInOrder,
    ServiceGuarded, Listed, Checked, Walked,
    Cleaning, Barred, Scoped!Scopes, Scoped!Units
<1> QED BY <1>0, <1>1, <1>2, <1>3, <1>4, <1>5, <1>6, <1>7

LEMMA ScopeFinish ==
  ASSUME ScopeInv, Scoped!Finish
  PROVE  ScopeInv'
<1> USE DEF Scoped!Finish, ScopeInv, Scoped!SupervisorGone, Scoped!files, Scoped!units
<1>0. UNCHANGED barrier /\ CleanersTyped'
  BY DEF CleanersTyped
<1>1. FlagsTyped'
  BY ScopesAssumption DEF FlagsTyped
<1>2. UnitsTyped'
  BY DEF UnitsTyped, Scoped!Units, Scoped!Scopes
<1> USE DEF Scoped!At, Scoped!Cleaners
<1>3. LivesInOrder'
  BY <1>0 DEF FlagsTyped, CleanersTyped, LivesInOrder, Cleaning
<1>4. ScopesRecorded'
  BY ScopesAssumption DEF FlagsTyped, UnitsTyped, LivesInOrder, ScopesRecorded, Scoped!Scopes,
    Scoped!Units
<1>5. ServiceGuarded'
  BY DEF FlagsTyped, ServiceGuarded
<1>6. ASSUME NEW d \in Scoped!Cleaners PROVE Listed(d)'
  BY <1>0, <1>6, ScopesAssumption DEF FlagsTyped, UnitsTyped, LivesInOrder, ScopesRecorded,
    Listed, Walked, Cleaning,
    Barred, Scoped!Scopes, Scoped!Units
<1>7. ASSUME NEW d \in Scoped!Cleaners PROVE Checked(d)'
  BY <1>0, <1>7, ScopesAssumption DEF FlagsTyped, UnitsTyped, LivesInOrder, ServiceGuarded,
    Listed, Checked, Walked,
    Cleaning, Barred, Scoped!Scopes, Scoped!Units
<1> QED BY <1>0, <1>1, <1>2, <1>3, <1>4, <1>5, <1>6, <1>7

LEMMA ScopeGuardLooks ==
  ASSUME ScopeInv, Scoped!GuardLooks
  PROVE  ScopeInv'
<1> USE DEF Scoped!GuardLooks, ScopeInv, Scoped!SupervisorGone, Scoped!Alive, Scoped!ServiceEnds
<1>0. UNCHANGED barrier /\ CleanersTyped'
  BY DEF CleanersTyped
<1>1. FlagsTyped'
  BY ScopesAssumption DEF FlagsTyped
<1>2. UnitsTyped'
  BY DEF UnitsTyped, Scoped!Units, Scoped!Scopes
<1> USE DEF Scoped!At, Scoped!Cleaners
<1>3. LivesInOrder'
  BY <1>0 DEF FlagsTyped, CleanersTyped, LivesInOrder, Cleaning
<1>4. ScopesRecorded'
  BY ScopesAssumption DEF FlagsTyped, UnitsTyped, LivesInOrder, ScopesRecorded, Scoped!Scopes,
    Scoped!Units
<1>5. ServiceGuarded'
  BY DEF FlagsTyped, ServiceGuarded
<1>6. ASSUME NEW d \in Scoped!Cleaners PROVE Listed(d)'
  BY <1>0, <1>6, ScopesAssumption DEF FlagsTyped, UnitsTyped, LivesInOrder, ScopesRecorded,
    Listed, Walked, Cleaning,
    Barred, Scoped!Scopes, Scoped!Units
<1>7. ASSUME NEW d \in Scoped!Cleaners PROVE Checked(d)'
  BY <1>0, <1>7, ScopesAssumption DEF FlagsTyped, UnitsTyped, LivesInOrder, ServiceGuarded,
    Listed, Checked, Walked,
    Cleaning, Barred, Scoped!Scopes, Scoped!Units
<1> QED BY <1>0, <1>1, <1>2, <1>3, <1>4, <1>5, <1>6, <1>7

LEMMA ScopeGuardPolls ==
  ASSUME ScopeInv, Scoped!GuardPolls
  PROVE  ScopeInv'
<1> USE DEF Scoped!GuardPolls, ScopeInv, Scoped!SupervisorGone, Scoped!files, Scoped!Alive
<1>0. UNCHANGED barrier /\ CleanersTyped'
  BY DEF CleanersTyped
<1>1. FlagsTyped'
  BY ScopesAssumption DEF FlagsTyped
<1>2. UnitsTyped'
  BY DEF UnitsTyped, Scoped!Units, Scoped!Scopes
<1> USE DEF Scoped!At, Scoped!Cleaners
<1>3. LivesInOrder'
  BY <1>0 DEF FlagsTyped, CleanersTyped, LivesInOrder, Cleaning
<1>4. ScopesRecorded'
  BY ScopesAssumption DEF FlagsTyped, UnitsTyped, LivesInOrder, ScopesRecorded, Scoped!Scopes,
    Scoped!Units
<1>5. ServiceGuarded'
  BY DEF FlagsTyped, ServiceGuarded
<1>6. ASSUME NEW d \in Scoped!Cleaners PROVE Listed(d)'
  BY <1>0, <1>6, ScopesAssumption DEF FlagsTyped, UnitsTyped, LivesInOrder, ScopesRecorded,
    Listed, Walked, Cleaning,
    Barred, Scoped!Scopes, Scoped!Units
<1>7. ASSUME NEW d \in Scoped!Cleaners PROVE Checked(d)'
  BY <1>0, <1>7, ScopesAssumption DEF FlagsTyped, UnitsTyped, LivesInOrder, ServiceGuarded,
    Listed, Checked, Walked,
    Cleaning, Barred, Scoped!Scopes, Scoped!Units
<1> QED BY <1>0, <1>1, <1>2, <1>3, <1>4, <1>5, <1>6, <1>7

LEMMA ScopeGuardLeaves ==
  ASSUME ScopeInv, Scoped!GuardLeaves
  PROVE  ScopeInv'
<1> USE DEF Scoped!GuardLeaves, ScopeInv, Scoped!SupervisorGone, Scoped!ServiceEnds
<1>0. UNCHANGED barrier /\ CleanersTyped'
  BY DEF CleanersTyped
<1>1. FlagsTyped'
  BY ScopesAssumption DEF FlagsTyped
<1>2. UnitsTyped'
  BY DEF UnitsTyped, Scoped!Units, Scoped!Scopes
<1> USE DEF Scoped!At, Scoped!Cleaners
<1>3. LivesInOrder'
  BY <1>0 DEF FlagsTyped, CleanersTyped, LivesInOrder, Cleaning
<1>4. ScopesRecorded'
  BY ScopesAssumption DEF FlagsTyped, UnitsTyped, LivesInOrder, ScopesRecorded, Scoped!Scopes,
    Scoped!Units
<1>5. ServiceGuarded'
  BY DEF FlagsTyped, ServiceGuarded
<1>6. ASSUME NEW d \in Scoped!Cleaners PROVE Listed(d)'
  BY <1>0, <1>6, ScopesAssumption DEF FlagsTyped, UnitsTyped, LivesInOrder, ScopesRecorded,
    Listed, Walked, Cleaning,
    Barred, Scoped!Scopes, Scoped!Units
<1>7. ASSUME NEW d \in Scoped!Cleaners PROVE Checked(d)'
  BY <1>0, <1>7, ScopesAssumption DEF FlagsTyped, UnitsTyped, LivesInOrder, ServiceGuarded,
    Listed, Checked, Walked,
    Cleaning, Barred, Scoped!Scopes, Scoped!Units
<1> QED BY <1>0, <1>1, <1>2, <1>3, <1>4, <1>5, <1>6, <1>7

LEMMA ScopeCheck ==
  ASSUME NEW x \in Scoped!Scopes, ScopeInv, Scoped!Check(x)
  PROVE  ScopeInv'
<1> USE DEF Scoped!Check, ScopeInv, Scoped!SupervisorGone, Scoped!files, Scoped!units,
      Scoped!Active
<1>0. UNCHANGED barrier /\ CleanersTyped'
  BY DEF CleanersTyped
<1>1. FlagsTyped'
  BY ScopesAssumption DEF FlagsTyped
<1>2. UnitsTyped'
  BY DEF UnitsTyped, Scoped!Units, Scoped!Scopes
<1> USE DEF Scoped!At, Scoped!Cleaners
<1>3. LivesInOrder'
  BY <1>0 DEF FlagsTyped, CleanersTyped, LivesInOrder, Cleaning
<1>4. ScopesRecorded'
  BY ScopesAssumption DEF FlagsTyped, UnitsTyped, LivesInOrder, ScopesRecorded, Scoped!Scopes,
    Scoped!Units
<1>5. ServiceGuarded'
  BY DEF FlagsTyped, ServiceGuarded
<1>6. ASSUME NEW d \in Scoped!Cleaners PROVE Listed(d)'
  BY <1>0, <1>6, ScopesAssumption DEF FlagsTyped, UnitsTyped, LivesInOrder, ScopesRecorded,
    Listed, Walked, Cleaning,
    Barred, Scoped!Scopes, Scoped!Units
<1>7. ASSUME NEW d \in Scoped!Cleaners PROVE Checked(d)'
  BY <1>0, <1>7, ScopesAssumption DEF FlagsTyped, UnitsTyped, LivesInOrder, ServiceGuarded,
    Listed, Checked, Walked,
    Cleaning, Barred, Scoped!Scopes, Scoped!Units
<1> QED BY <1>0, <1>1, <1>2, <1>3, <1>4, <1>5, <1>6, <1>7

LEMMA ScopeRecord ==
  ASSUME NEW x \in Scoped!Scopes, ScopeInv, Scoped!Record(x)
  PROVE  ScopeInv'
<1> USE DEF Scoped!Record, ScopeInv, Scoped!SupervisorGone, Scoped!units, Scoped!Leaves
<1>0. UNCHANGED barrier /\ CleanersTyped'
  BY DEF CleanersTyped
<1>1. FlagsTyped'
  BY ScopesAssumption DEF FlagsTyped
<1>2. UnitsTyped'
  BY DEF UnitsTyped, Scoped!Units, Scoped!Scopes
<1> USE DEF Scoped!At, Scoped!Cleaners
<1>3. LivesInOrder'
  BY <1>0 DEF FlagsTyped, CleanersTyped, LivesInOrder, Cleaning
<1>4. ScopesRecorded'
  BY ScopesAssumption DEF FlagsTyped, UnitsTyped, LivesInOrder, ScopesRecorded, Scoped!Scopes,
    Scoped!Units
<1>5. ServiceGuarded'
  BY DEF FlagsTyped, ServiceGuarded
<1>6. ASSUME NEW d \in Scoped!Cleaners PROVE Listed(d)'
  BY <1>0, <1>6, ScopesAssumption DEF FlagsTyped, UnitsTyped, LivesInOrder, ScopesRecorded,
    Listed, Walked, Cleaning,
    Barred, Scoped!Scopes, Scoped!Units
<1>7. ASSUME NEW d \in Scoped!Cleaners PROVE Checked(d)'
  BY <1>0, <1>7, ScopesAssumption DEF FlagsTyped, UnitsTyped, LivesInOrder, ServiceGuarded,
    Listed, Checked, Walked,
    Cleaning, Barred, Scoped!Scopes, Scoped!Units
<1> QED BY <1>0, <1>1, <1>2, <1>3, <1>4, <1>5, <1>6, <1>7

LEMMA ScopeAsk ==
  ASSUME NEW x \in Scoped!Scopes, ScopeInv, Scoped!Ask(x)
  PROVE  ScopeInv'
<1> USE DEF Scoped!Ask, ScopeInv, Scoped!SupervisorGone, Scoped!files, Scoped!Active,
      Scoped!Leaves
<1>0. UNCHANGED barrier /\ CleanersTyped'
  BY DEF CleanersTyped
<1>1. FlagsTyped'
  BY ScopesAssumption DEF FlagsTyped
<1>2. UnitsTyped'
  BY DEF UnitsTyped, Scoped!Units, Scoped!Scopes
<1> USE DEF Scoped!At, Scoped!Cleaners
<1>3. LivesInOrder'
  BY <1>0 DEF FlagsTyped, CleanersTyped, LivesInOrder, Cleaning
<1>4. ScopesRecorded'
  BY ScopesAssumption DEF FlagsTyped, UnitsTyped, LivesInOrder, ScopesRecorded, Scoped!Scopes,
    Scoped!Units
<1>5. ServiceGuarded'
  BY DEF FlagsTyped, ServiceGuarded
<1>6. ASSUME NEW d \in Scoped!Cleaners PROVE Listed(d)'
  BY <1>0, <1>6, ScopesAssumption DEF FlagsTyped, UnitsTyped, LivesInOrder, ScopesRecorded,
    Listed, Walked, Cleaning,
    Barred, Scoped!Scopes, Scoped!Units
<1>7. ASSUME NEW d \in Scoped!Cleaners PROVE Checked(d)'
  BY <1>0, <1>7, ScopesAssumption DEF FlagsTyped, UnitsTyped, LivesInOrder, ServiceGuarded,
    Listed, Checked, Walked,
    Cleaning, Barred, Scoped!Scopes, Scoped!Units
<1> QED BY <1>0, <1>1, <1>2, <1>3, <1>4, <1>5, <1>6, <1>7

LEMMA ScopeRecordSnap ==
  ASSUME NEW x \in Scoped!Scopes, ScopeInv, Scoped!RecordSnap(x)
  PROVE  ScopeInv'
<1> USE DEF Scoped!RecordSnap, ScopeInv, Scoped!SupervisorGone, Scoped!units
<1>0. UNCHANGED barrier /\ CleanersTyped'
  BY DEF CleanersTyped
<1>1. FlagsTyped'
  BY ScopesAssumption DEF FlagsTyped
<1>2. UnitsTyped'
  BY DEF UnitsTyped, Scoped!Units, Scoped!Scopes
<1> USE DEF Scoped!At, Scoped!Cleaners
<1>3. LivesInOrder'
  BY <1>0 DEF FlagsTyped, CleanersTyped, LivesInOrder, Cleaning
<1>4. ScopesRecorded'
  BY ScopesAssumption DEF FlagsTyped, UnitsTyped, LivesInOrder, ScopesRecorded, Scoped!Scopes,
    Scoped!Units
<1>5. ServiceGuarded'
  BY DEF FlagsTyped, ServiceGuarded
<1>6. ASSUME NEW d \in Scoped!Cleaners PROVE Listed(d)'
  BY <1>0, <1>6, ScopesAssumption DEF FlagsTyped, UnitsTyped, LivesInOrder, ScopesRecorded,
    Listed, Walked, Cleaning,
    Barred, Scoped!Scopes, Scoped!Units
<1>7. ASSUME NEW d \in Scoped!Cleaners PROVE Checked(d)'
  BY <1>0, <1>7, ScopesAssumption DEF FlagsTyped, UnitsTyped, LivesInOrder, ServiceGuarded,
    Listed, Checked, Walked,
    Cleaning, Barred, Scoped!Scopes, Scoped!Units
<1> QED BY <1>0, <1>1, <1>2, <1>3, <1>4, <1>5, <1>6, <1>7

LEMMA ScopeAskSnap ==
  ASSUME NEW x \in Scoped!Scopes, ScopeInv, Scoped!AskSnap(x)
  PROVE  ScopeInv'
<1> USE DEF Scoped!AskSnap, ScopeInv, Scoped!SupervisorGone, Scoped!files, Scoped!Leaves
<1>0. UNCHANGED barrier /\ CleanersTyped'
  BY DEF CleanersTyped
<1>1. FlagsTyped'
  BY ScopesAssumption DEF FlagsTyped
<1>2. UnitsTyped'
  BY DEF UnitsTyped, Scoped!Units, Scoped!Scopes
<1> USE DEF Scoped!At, Scoped!Cleaners
<1>3. LivesInOrder'
  BY <1>0 DEF FlagsTyped, CleanersTyped, LivesInOrder, Cleaning
<1>4. ScopesRecorded'
  BY ScopesAssumption DEF FlagsTyped, UnitsTyped, LivesInOrder, ScopesRecorded, Scoped!Scopes,
    Scoped!Units
<1>5. ServiceGuarded'
  BY DEF FlagsTyped, ServiceGuarded
<1>6. ASSUME NEW d \in Scoped!Cleaners PROVE Listed(d)'
  BY <1>0, <1>6, ScopesAssumption DEF FlagsTyped, UnitsTyped, LivesInOrder, ScopesRecorded,
    Listed, Walked, Cleaning,
    Barred, Scoped!Scopes, Scoped!Units
<1>7. ASSUME NEW d \in Scoped!Cleaners PROVE Checked(d)'
  BY <1>0, <1>7, ScopesAssumption DEF FlagsTyped, UnitsTyped, LivesInOrder, ServiceGuarded,
    Listed, Checked, Walked,
    Cleaning, Barred, Scoped!Scopes, Scoped!Units
<1> QED BY <1>0, <1>1, <1>2, <1>3, <1>4, <1>5, <1>6, <1>7

LEMMA ScopeStartOwner ==
  ASSUME ScopeInv, Scoped!StartOwner
  PROVE  ScopeInv'
<1> USE DEF Scoped!StartOwner, ScopeInv, Scoped!SupervisorGone, Scoped!files
<1>0. UNCHANGED barrier /\ CleanersTyped'
  BY DEF CleanersTyped
<1>1. FlagsTyped'
  BY ScopesAssumption DEF FlagsTyped
<1>2. UnitsTyped'
  BY DEF UnitsTyped, Scoped!Units, Scoped!Scopes
<1> USE DEF Scoped!At, Scoped!Cleaners
<1>3. LivesInOrder'
  BY <1>0 DEF FlagsTyped, CleanersTyped, LivesInOrder, Cleaning
<1>4. ScopesRecorded'
  BY ScopesAssumption DEF FlagsTyped, UnitsTyped, LivesInOrder, ScopesRecorded, Scoped!Scopes,
    Scoped!Units
<1>5. ServiceGuarded'
  BY DEF FlagsTyped, ServiceGuarded
<1>6. ASSUME NEW d \in Scoped!Cleaners PROVE Listed(d)'
  BY <1>0, <1>6, ScopesAssumption DEF FlagsTyped, UnitsTyped, LivesInOrder, ScopesRecorded,
    Listed, Walked, Cleaning,
    Barred, Scoped!Scopes, Scoped!Units
<1>7. ASSUME NEW d \in Scoped!Cleaners PROVE Checked(d)'
  BY <1>0, <1>7, ScopesAssumption DEF FlagsTyped, UnitsTyped, LivesInOrder, ServiceGuarded,
    Listed, Checked, Walked,
    Cleaning, Barred, Scoped!Scopes, Scoped!Units
<1> QED BY <1>0, <1>1, <1>2, <1>3, <1>4, <1>5, <1>6, <1>7

LEMMA ScopeStartScope ==
  ASSUME NEW x \in Scoped!Scopes, ScopeInv, Scoped!StartScope(x)
  PROVE  ScopeInv'
<1> USE DEF Scoped!StartScope, ScopeInv, Scoped!SupervisorGone, Scoped!files
<1>0. UNCHANGED barrier /\ CleanersTyped'
  BY DEF CleanersTyped
<1>1. FlagsTyped'
  BY ScopesAssumption DEF FlagsTyped
<1>2. UnitsTyped'
  BY DEF UnitsTyped, Scoped!Units, Scoped!Scopes
<1> USE DEF Scoped!At, Scoped!Cleaners
<1>3. LivesInOrder'
  BY <1>0 DEF FlagsTyped, CleanersTyped, LivesInOrder, Cleaning
<1>4. ScopesRecorded'
  BY ScopesAssumption DEF FlagsTyped, UnitsTyped, LivesInOrder, ScopesRecorded, Scoped!Scopes,
    Scoped!Units
<1>5. ServiceGuarded'
  BY DEF FlagsTyped, ServiceGuarded
<1>6. ASSUME NEW d \in Scoped!Cleaners PROVE Listed(d)'
  BY <1>0, <1>6, ScopesAssumption DEF FlagsTyped, UnitsTyped, LivesInOrder, ScopesRecorded,
    Listed, Walked, Cleaning,
    Barred, Scoped!Scopes, Scoped!Units
<1>7. ASSUME NEW d \in Scoped!Cleaners PROVE Checked(d)'
  <2>1. Checked(d) /\ (Walked(d)' <=> Walked(d)) /\ barrier'[d] = barrier[d]
    BY <1>0, <1>7 DEF Walked
  <2>2. ASSUME Walked(d), barrier[d].pc \in {"stopping", "wait", "done"}
        PROVE  /\ owner' = "active" => guard' = "begun"
               /\ owner' = "stopping" => owner = "stopping"
               /\ \A y \in Scoped!Scopes : scope'[y] # "none" =>
                    y \in brief' \/ (scope[y] # "none" /\ (y \in brief => y \in brief'))
    <3>1. CASE owner \in {"active", "inactive"}
      <4>1. guard' = "begun" /\ brief' = brief \cup {x} /\ owner' = "active"
        BY <2>1, <2>2, <3>1 DEF Checked
      <4>2. \A y \in Scoped!Scopes : scope'[y] = IF y = x THEN "running" ELSE scope[y]
        BY <3>1 DEF UnitsTyped
      <4> QED BY <4>1, <4>2
    <3>2. CASE owner \notin {"active", "inactive"}
      BY <3>2
    <3> QED BY <3>1, <3>2
  <2> QED BY <2>1, <2>2 DEF Checked
<1> QED BY <1>0, <1>1, <1>2, <1>3, <1>4, <1>5, <1>6, <1>7

LEMMA ScopeScopeEnds ==
  ASSUME NEW x \in Scoped!Scopes, ScopeInv, Scoped!ScopeEnds(x)
  PROVE  ScopeInv'
<1> USE DEF Scoped!ScopeEnds, ScopeInv, Scoped!SupervisorGone, Scoped!files
<1>0. UNCHANGED barrier /\ CleanersTyped'
  BY DEF CleanersTyped
<1>1. FlagsTyped'
  BY ScopesAssumption DEF FlagsTyped
<1>2. UnitsTyped'
  BY DEF UnitsTyped, Scoped!Units, Scoped!Scopes
<1> USE DEF Scoped!At, Scoped!Cleaners
<1>3. LivesInOrder'
  BY <1>0 DEF FlagsTyped, CleanersTyped, LivesInOrder, Cleaning
<1>4. ScopesRecorded'
  BY ScopesAssumption DEF FlagsTyped, UnitsTyped, LivesInOrder, ScopesRecorded, Scoped!Scopes,
    Scoped!Units
<1>5. ServiceGuarded'
  BY DEF FlagsTyped, ServiceGuarded
<1>6. ASSUME NEW d \in Scoped!Cleaners PROVE Listed(d)'
  BY <1>0, <1>6, ScopesAssumption DEF FlagsTyped, UnitsTyped, LivesInOrder, ScopesRecorded,
    Listed, Walked, Cleaning,
    Barred, Scoped!Scopes, Scoped!Units
<1>7. ASSUME NEW d \in Scoped!Cleaners PROVE Checked(d)'
  BY <1>0, <1>7, ScopesAssumption DEF FlagsTyped, UnitsTyped, LivesInOrder, ServiceGuarded,
    Listed, Checked, Walked,
    Cleaning, Barred, Scoped!Scopes, Scoped!Units
<1> QED BY <1>0, <1>1, <1>2, <1>3, <1>4, <1>5, <1>6, <1>7

LEMMA ScopeOwnerStopped ==
  ASSUME ScopeInv, Scoped!OwnerStopped
  PROVE  ScopeInv'
<1> USE DEF Scoped!OwnerStopped, ScopeInv, Scoped!SupervisorGone, Scoped!files
<1>0. UNCHANGED barrier /\ CleanersTyped'
  BY DEF CleanersTyped
<1>1. FlagsTyped'
  BY ScopesAssumption DEF FlagsTyped
<1>2. UnitsTyped'
  BY DEF UnitsTyped, Scoped!Units, Scoped!Scopes
<1> USE DEF Scoped!At, Scoped!Cleaners
<1>3. LivesInOrder'
  BY <1>0 DEF FlagsTyped, CleanersTyped, LivesInOrder, Cleaning
<1>4. ScopesRecorded'
  BY ScopesAssumption DEF FlagsTyped, UnitsTyped, LivesInOrder, ScopesRecorded, Scoped!Scopes,
    Scoped!Units
<1>5. ServiceGuarded'
  BY DEF FlagsTyped, ServiceGuarded
<1>6. ASSUME NEW d \in Scoped!Cleaners PROVE Listed(d)'
  BY <1>0, <1>6, ScopesAssumption DEF FlagsTyped, UnitsTyped, LivesInOrder, ScopesRecorded,
    Listed, Walked, Cleaning,
    Barred, Scoped!Scopes, Scoped!Units
<1>7. ASSUME NEW d \in Scoped!Cleaners PROVE Checked(d)'
  BY <1>0, <1>7, ScopesAssumption DEF FlagsTyped, UnitsTyped, LivesInOrder, ServiceGuarded,
    Listed, Checked, Walked,
    Cleaning, Barred, Scoped!Scopes, Scoped!Units
<1> QED BY <1>0, <1>1, <1>2, <1>3, <1>4, <1>5, <1>6, <1>7

LEMMA ScopeCollect ==
  ASSUME ScopeInv, Scoped!Collect
  PROVE  ScopeInv'
<1> USE DEF Scoped!Collect, ScopeInv, Scoped!SupervisorGone, Scoped!files
<1>0. UNCHANGED barrier /\ CleanersTyped'
  BY DEF CleanersTyped
<1>1. FlagsTyped'
  BY ScopesAssumption DEF FlagsTyped
<1>2. UnitsTyped'
  BY DEF UnitsTyped, Scoped!Units, Scoped!Scopes
<1> USE DEF Scoped!At, Scoped!Cleaners
<1>3. LivesInOrder'
  BY <1>0 DEF FlagsTyped, CleanersTyped, LivesInOrder, Cleaning
<1>4. ScopesRecorded'
  BY ScopesAssumption DEF FlagsTyped, UnitsTyped, LivesInOrder, ScopesRecorded, Scoped!Scopes,
    Scoped!Units
<1>5. ServiceGuarded'
  BY DEF FlagsTyped, ServiceGuarded
<1>6. ASSUME NEW d \in Scoped!Cleaners PROVE Listed(d)'
  BY <1>0, <1>6, ScopesAssumption DEF FlagsTyped, UnitsTyped, LivesInOrder, ScopesRecorded,
    Listed, Walked, Cleaning,
    Barred, Scoped!Scopes, Scoped!Units
<1>7. ASSUME NEW d \in Scoped!Cleaners PROVE Checked(d)'
  BY <1>0, <1>7, ScopesAssumption DEF FlagsTyped, UnitsTyped, LivesInOrder, ServiceGuarded,
    Listed, Checked, Walked,
    Cleaning, Barred, Scoped!Scopes, Scoped!Units
<1> QED BY <1>0, <1>1, <1>2, <1>3, <1>4, <1>5, <1>6, <1>7

LEMMA ScopeMark ==
  ASSUME NEW c \in Scoped!Cleaners, ScopeInv, Scoped!Mark(c)
  PROVE  ScopeInv'
<1> USE DEF Scoped!Mark, ScopeInv, Scoped!SupervisorGone, Scoped!units
<1>0. /\ CleanersTyped'
      /\ \A d \in Scoped!Cleaners :
           /\ barrier'[d].pc = IF d = c THEN IF intent THEN "read" ELSE "done"
                              ELSE barrier[d].pc
           /\ barrier'[d].seen = barrier[d].seen /\ barrier'[d].left = barrier[d].left
  <2>1. /\ Scoped!Go(c, IF intent THEN "read" ELSE "done")
        /\ c \in Scoped!Cleaners
        /\ (IF intent THEN "read" ELSE "done") \in Places
    BY DEF Places, Scoped!Cleaners
  <2> HIDE DEF Scoped!Mark
  <2> QED BY <2>1, Went
<1>1. FlagsTyped'
  BY ScopesAssumption DEF FlagsTyped
<1>2. UnitsTyped'
  BY DEF UnitsTyped, Scoped!Units, Scoped!Scopes
<1> USE DEF Scoped!At, Scoped!Cleaners
<1>3. LivesInOrder'
  BY <1>0 DEF FlagsTyped, CleanersTyped, LivesInOrder, Cleaning
<1>4. ScopesRecorded'
  BY ScopesAssumption DEF FlagsTyped, UnitsTyped, LivesInOrder, ScopesRecorded, Scoped!Scopes,
    Scoped!Units
<1>5. ServiceGuarded'
  BY DEF FlagsTyped, ServiceGuarded
<1>6. ASSUME NEW d \in Scoped!Cleaners PROVE Listed(d)'
  BY <1>0, <1>6, OneCleaner, ScopesAssumption DEF FlagsTyped, UnitsTyped, LivesInOrder,
    ScopesRecorded, Listed, Walked, Cleaning,
    Barred, Scoped!Scopes, Scoped!Units
<1>7. ASSUME NEW d \in Scoped!Cleaners PROVE Checked(d)'
  BY <1>0, <1>7, OneCleaner, ScopesAssumption DEF FlagsTyped, UnitsTyped, LivesInOrder,
    ServiceGuarded, Listed, Checked, Walked,
    Cleaning, Barred, Scoped!Scopes, Scoped!Units
<1> QED BY <1>0, <1>1, <1>2, <1>3, <1>4, <1>5, <1>6, <1>7

LEMMA ScopeRead ==
  ASSUME NEW c \in Scoped!Cleaners, ScopeInv, Scoped!Read(c)
  PROVE  ScopeInv'
<1> USE DEF Scoped!Read, ScopeInv, Scoped!files, Scoped!units
<1> DEFINE b == [pc |-> "show", seen |-> {Scoped!Owner} \cup records, left |-> {}]
<1>0. CleanersTyped' /\ \A d \in Scoped!Cleaners : barrier'[d] = IF d = c THEN b ELSE barrier[d]
  <2>1. b \in CleanerStates /\ barrier' = [barrier EXCEPT ![c] = b]
    BY DEF CleanerStates, Places, UnitsTyped, Scoped!Units
  <2> QED BY <2>1, Noted
<1>1. barrier[c].pc = "read" /\ b.pc = "show" /\ b.seen = {Scoped!Owner} \cup records /\ b.left = {}
  BY DEF Scoped!At
<1> HIDE DEF b
<1>2. FlagsTyped' /\ UnitsTyped'
  BY DEF FlagsTyped, UnitsTyped
<1>3. LivesInOrder'
  BY <1>0, <1>1 DEF LivesInOrder, Cleaning, Scoped!At, Scoped!SupervisorGone, Scoped!Cleaners
<1>4. ScopesRecorded' /\ ServiceGuarded'
  BY DEF ScopesRecorded, ServiceGuarded
<1>5. directory
  BY <1>1 DEF LivesInOrder, Scoped!SupervisorGone, Scoped!At, Scoped!Cleaners
<1>6. ASSUME NEW d \in Scoped!Cleaners PROVE Listed(d)' /\ Checked(d)'
  <2>1. CASE d = c
    <3>1. Walked(c)' /\ (Barred /\ ~desktop)'
      BY <1>0, <1>1 DEF Walked, Cleaning, Listed, Barred, Scoped!At
    <3>2. \A x \in Scoped!Scopes : x \in asked \/ scope[x] # "none" => x \in b.seen
      BY <1>1, <1>5 DEF ScopesRecorded
    <3> QED BY <1>0, <1>1, <2>1, <3>1, <3>2 DEF Listed, Checked, Walked, Scoped!At
  <2>2. CASE d # c
    <3>1. barrier'[d] = barrier[d] /\ Listed(d) /\ Checked(d)
      BY <1>0, <1>6, <2>2
    <3> QED BY <3>1 DEF Listed, Checked, Walked, Barred, Scoped!At
  <2> QED BY <2>1, <2>2
<1> QED BY <1>0, <1>2, <1>3, <1>4, <1>6

LEMMA ScopeShow ==
  ASSUME NEW c \in Scoped!Cleaners, ScopeInv, Scoped!Show(c)
  PROVE  ScopeInv'
<1> USE DEF Scoped!Show, ScopeInv, Scoped!files, Scoped!units
<1> DEFINE bound == {x \in Scoped!Scopes : scope[x] # "none"}
           seen == barrier[c].seen \cup (IF owner = "unknown" THEN {} ELSE bound)
           b == [pc |-> IF owner = "unknown" THEN "wait" ELSE "stop", seen |-> seen, left |-> seen]
<1>a. barrier[c].seen \subseteq seen /\ seen \subseteq Scoped!Units
  BY DEF CleanersTyped, CleanerStates, Scoped!Units
<1>b. barrier' = [barrier EXCEPT ![c] = b]
  OBVIOUS
<1> HIDE DEF seen
<1>0. CleanersTyped' /\ \A d \in Scoped!Cleaners : barrier'[d] = IF d = c THEN b ELSE barrier[d]
  <2>1. b \in CleanerStates
    BY <1>a DEF CleanerStates, Places
  <2> QED BY <1>b, <2>1, Noted
<1>1. /\ barrier[c].pc = "show" /\ b.pc = (IF owner = "unknown" THEN "wait" ELSE "stop")
      /\ b.seen = seen /\ b.left = seen
  BY DEF Scoped!At
<1> HIDE DEF b
<1>2. FlagsTyped' /\ UnitsTyped'
  BY DEF FlagsTyped, UnitsTyped
<1>3. LivesInOrder'
  BY <1>0, <1>1 DEF LivesInOrder, Cleaning, Scoped!At, Scoped!SupervisorGone, Scoped!Cleaners
<1>4. ScopesRecorded' /\ ServiceGuarded'
  BY DEF ScopesRecorded, ServiceGuarded
<1>6. ASSUME NEW d \in Scoped!Cleaners PROVE Listed(d)' /\ Checked(d)'
  <2>1. CASE d = c
    <3>1. Walked(c) /\ Walked(c)'
      BY <1>0, <1>1 DEF Walked, Cleaning, Listed, Barred, Scoped!At
    <3>2. Listed(c)
      OBVIOUS
    <3>3. Listed(c)'
      BY <1>0, <1>1, <1>a, <3>1, <3>2 DEF Listed, Barred
    <3>4. Checked(c)'
      BY <1>0, <1>1, <3>1 DEF Checked, ServiceGuarded, FlagsTyped
    <3> QED BY <2>1, <3>3, <3>4
  <2>2. CASE d # c
    <3>1. barrier'[d] = barrier[d] /\ Listed(d) /\ Checked(d)
      BY <1>0, <1>6, <2>2
    <3> QED BY <3>1 DEF Listed, Checked, Walked, Barred, Scoped!At
  <2> QED BY <2>1, <2>2
<1> QED BY <1>0, <1>2, <1>3, <1>4, <1>6

LEMMA ScopeStop ==
  ASSUME NEW c \in Scoped!Cleaners, ScopeInv, Scoped!Stop(c)
  PROVE  ScopeInv'
<1> USE DEF Scoped!Stop, ScopeInv, Scoped!SupervisorGone, Scoped!files
<1>0. /\ CleanersTyped'
      /\ \A d \in Scoped!Cleaners :
           /\ barrier'[d].pc = IF d = c THEN IF owner = "unknown" THEN "failed" ELSE "stopping"
                              ELSE barrier[d].pc
           /\ barrier'[d].seen = barrier[d].seen /\ barrier'[d].left = barrier[d].left
  <2>1. /\ Scoped!Go(c, IF owner = "unknown" THEN "failed" ELSE "stopping")
        /\ c \in Scoped!Cleaners
        /\ (IF owner = "unknown" THEN "failed" ELSE "stopping") \in Places
    BY DEF Places, Scoped!Cleaners
  <2> HIDE DEF Scoped!Stop
  <2> QED BY <2>1, Went
<1>1. FlagsTyped'
  BY ScopesAssumption DEF FlagsTyped
<1>2. UnitsTyped'
  BY DEF UnitsTyped, Scoped!Units, Scoped!Scopes
<1> USE DEF Scoped!At, Scoped!Cleaners
<1>3. LivesInOrder'
  BY <1>0 DEF FlagsTyped, CleanersTyped, LivesInOrder, Cleaning
<1>4. ScopesRecorded'
  BY ScopesAssumption DEF FlagsTyped, UnitsTyped, LivesInOrder, ScopesRecorded, Scoped!Scopes,
    Scoped!Units
<1>5. ServiceGuarded'
  BY DEF FlagsTyped, ServiceGuarded
<1>6. ASSUME NEW d \in Scoped!Cleaners PROVE Listed(d)'
  <2>1. \A x \in Scoped!Scopes : scope'[x] # "none" => scope[x] # "none"
    BY DEF UnitsTyped
  <2>2. /\ Listed(d)
        /\ (Walked(d)' => Walked(d))
        /\ (barrier'[d].pc = "read" => barrier[d].pc = "read")
    BY <1>0, <1>6 DEF Walked, Cleaning
  <2>3. barrier'[d].seen = barrier[d].seen
    BY <1>0, <1>6
  <2> QED BY <2>1, <2>2, <2>3 DEF Listed, Barred
<1>7. ASSUME NEW d \in Scoped!Cleaners PROVE Checked(d)'
  BY <1>0, <1>7, OneCleaner, ScopesAssumption DEF FlagsTyped, UnitsTyped, LivesInOrder,
    ServiceGuarded, Listed, Checked, Walked,
    Cleaning, Barred, Scoped!Scopes, Scoped!Units
<1> QED BY <1>0, <1>1, <1>2, <1>3, <1>4, <1>5, <1>6, <1>7

LEMMA ScopeStopReturns ==
  ASSUME NEW c \in Scoped!Cleaners, ScopeInv, Scoped!StopReturns(c)
  PROVE  ScopeInv'
<1> USE DEF Scoped!StopReturns, ScopeInv, Scoped!files, Scoped!units
<1>0. /\ CleanersTyped'
      /\ \A d \in Scoped!Cleaners :
           /\ barrier'[d].pc = IF d = c THEN "wait" ELSE barrier[d].pc
           /\ barrier'[d].seen = barrier[d].seen /\ barrier'[d].left = barrier[d].left
  <2>1. Scoped!Go(c, "wait") /\ "wait" \in Places
    BY DEF Places
  <2> QED BY <2>1, Went
<1>1. FlagsTyped' /\ UnitsTyped' /\ ScopesRecorded' /\ ServiceGuarded'
  BY DEF FlagsTyped, UnitsTyped, ScopesRecorded, ServiceGuarded
<1>2. barrier[c].pc = "stopping" /\ Walked(c)
  BY DEF Scoped!At, Walked, Cleaning
<1>3. LivesInOrder'
  BY <1>0, <1>2 DEF LivesInOrder, Cleaning, Scoped!At, Scoped!SupervisorGone, Scoped!Cleaners
<1>4. ASSUME NEW d \in Scoped!Cleaners PROVE Listed(d)' /\ Checked(d)'
  <2>1. CASE d = c
    <3>1. Walked(c)' /\ Listed(c) /\ Checked(c)
      BY <1>0 DEF Walked, Cleaning
    <3>2. Listed(c)'
      BY <1>0, <1>2, <3>1 DEF Listed, Barred
    <3>3. Checked(c)'
      BY <1>0, <1>2, <3>1 DEF Checked
    <3> QED BY <2>1, <3>2, <3>3
  <2>2. CASE d # c
    <3>1. Listed(d) /\ Checked(d)
      OBVIOUS
    <3> QED BY <1>0, <2>2, <3>1 DEF Listed, Checked, Walked, Barred, Scoped!At
  <2> QED BY <2>1, <2>2
<1> QED BY <1>0, <1>1, <1>3, <1>4

LEMMA ScopeWait ==
  ASSUME NEW c \in Scoped!Cleaners, ScopeInv, Scoped!Wait(c)
  PROVE  ScopeInv'
<1> USE DEF ScopeInv, Scoped!files, Scoped!units
<1>1. barrier[c].pc = "wait" /\ Walked(c) /\ Listed(c) /\ Checked(c)
  BY DEF Scoped!Wait, Scoped!At, Walked, Cleaning
<1>2. UNCHANGED <<supervisor, desktop, directory, intent, ready, closing, records, owner, guard,
                  scope, brief, asked, launch, killed>>
  BY DEF Scoped!Wait
<1>3. /\ CleanersTyped'
      /\ \A d \in Scoped!Cleaners :
           /\ d # c => barrier'[d] = barrier[d]
           /\ barrier'[d].seen = barrier[d].seen
      /\ \/ barrier[c].left = {} /\ barrier'[c].pc = "done" /\ barrier'[c].left = {}
         \/ /\ barrier'[c].pc = "wait"
            /\ \E u \in barrier[c].left :
                 barrier'[c].left = IF Scoped!Stopped(u) THEN barrier[c].left \ {u}
                                    ELSE barrier[c].seen
  <2>1. CASE barrier[c].left = {} /\ Scoped!Go(c, "done")
    <3>1. "done" \in Places
      BY DEF Places
    <3>2. \A d \in Scoped!Cleaners : d # c => barrier'[d] = barrier[d]
      BY <2>1 DEF Scoped!Go, CleanersTyped
    <3> QED BY <2>1, <3>1, <3>2, Went
  <2>2. ASSUME NEW u \in barrier[c].left,
               barrier' = [barrier EXCEPT ![c].left = IF Scoped!Stopped(u) THEN @ \ {u}
                                                      ELSE barrier[c].seen]
        PROVE  <1>3
    <3> DEFINE l == IF Scoped!Stopped(u) THEN barrier[c].left \ {u} ELSE barrier[c].seen
               b == [barrier[c] EXCEPT !.left = l]
    <3>1. barrier[c] \in CleanerStates
      BY DEF CleanersTyped
    <3>2. b \in CleanerStates /\ b.pc = "wait" /\ b.seen = barrier[c].seen /\ b.left = l
      BY <1>1, <3>1 DEF CleanerStates
    <3>3. barrier' = [barrier EXCEPT ![c] = b]
      BY <2>2 DEF CleanersTyped
    <3> HIDE DEF b
    <3>4. CleanersTyped' /\ \A d \in Scoped!Cleaners : barrier'[d] = IF d = c THEN b ELSE barrier[d]
      BY <3>2, <3>3, Noted
    <3> QED BY <2>2, <3>2, <3>4
  <2> QED BY <2>1, <2>2 DEF Scoped!Wait
<1>4. FlagsTyped' /\ UnitsTyped' /\ ScopesRecorded' /\ ServiceGuarded'
  BY <1>2 DEF FlagsTyped, UnitsTyped, ScopesRecorded, ServiceGuarded
<1>5. LivesInOrder'
  BY <1>1, <1>2, <1>3 DEF LivesInOrder, Cleaning, Scoped!At, Scoped!SupervisorGone, Scoped!Cleaners
<1>6. ASSUME NEW d \in Scoped!Cleaners PROVE Listed(d)' /\ Checked(d)'
  <2>1. CASE d = c
    <3>1. barrier[c].seen # {} /\ Walked(c)'
      BY <1>1, <1>3 DEF Listed, Walked, Cleaning, Scoped!At
    <3>2. Listed(c)'
      BY <1>1, <1>2, <1>3, <3>1 DEF Listed, Barred
    <3>3. Checked(c)'
      <4>1. CASE barrier[c].left = {} /\ barrier'[c].pc = "done" /\ barrier'[c].left = {}
        BY <1>1, <1>2, <1>3, <4>1 DEF Checked
      <4>2. ASSUME NEW u \in barrier[c].left, barrier'[c].pc = "wait",
                   barrier'[c].left = IF Scoped!Stopped(u) THEN barrier[c].left \ {u}
                                      ELSE barrier[c].seen
            PROVE  Checked(c)'
        <5>1. ASSUME NEW x \in Scoped!Scopes, x \in barrier'[c].seen, x \notin barrier'[c].left,
                     scope'[x] # "none"
              PROVE  x \in brief'
          <6>1. x # Scoped!Owner /\ barrier'[c].seen = barrier[c].seen /\ scope[x] # "none"
            BY <1>2, <1>3, <5>1, ScopesAssumption
          <6>2. ~(x = u /\ Scoped!Stopped(u))
            BY <6>1 DEF Scoped!Stopped
          <6>3. x \notin barrier[c].left
            BY <4>2, <5>1, <6>1, <6>2
          <6> QED BY <1>1, <1>2, <5>1, <6>1, <6>3 DEF Checked
        <5> QED BY <1>1, <1>2, <4>2, <5>1 DEF Checked
      <4> QED BY <1>3, <4>1, <4>2
    <3> QED BY <2>1, <3>2, <3>3
  <2>2. CASE d # c
    <3>1. barrier'[d] = barrier[d] /\ Listed(d) /\ Checked(d)
      BY <1>3, <1>6, <2>2
    <3> QED BY <1>2, <3>1 DEF Listed, Checked, Walked, Barred, Scoped!At
  <2> QED BY <2>1, <2>2
<1> QED BY <1>3, <1>4, <1>5, <1>6

LEMMA ScopeLoginEnds ==
  ASSUME ScopeInv, Scoped!LoginEnds
  PROVE  ScopeInv'
<1> USE DEF Scoped!LoginEnds, ScopeInv, Scoped!SupervisorGone, Scoped!files, Scoped!units
<1>0. /\ CleanersTyped'
      /\ \A d \in Scoped!Cleaners :
           /\ barrier'[d].pc = IF d = "login guard" THEN IF directory THEN "mark" ELSE "done"
                              ELSE barrier[d].pc
           /\ barrier'[d].seen = barrier[d].seen /\ barrier'[d].left = barrier[d].left
  <2>1. /\ Scoped!Go("login guard", IF directory THEN "mark" ELSE "done")
        /\ "login guard" \in Scoped!Cleaners
        /\ (IF directory THEN "mark" ELSE "done") \in Places
    BY DEF Places, Scoped!Cleaners
  <2> HIDE DEF Scoped!LoginEnds
  <2> QED BY <2>1, Went
<1>1. FlagsTyped'
  BY ScopesAssumption DEF FlagsTyped
<1>2. UnitsTyped'
  BY DEF UnitsTyped, Scoped!Units, Scoped!Scopes
<1> USE DEF Scoped!At, Scoped!Cleaners
<1>3. LivesInOrder'
  BY <1>0 DEF FlagsTyped, CleanersTyped, LivesInOrder, Cleaning
<1>4. ScopesRecorded'
  BY ScopesAssumption DEF FlagsTyped, UnitsTyped, LivesInOrder, ScopesRecorded, Scoped!Scopes,
    Scoped!Units
<1>5. ServiceGuarded'
  BY DEF FlagsTyped, ServiceGuarded
<1>6. ASSUME NEW d \in Scoped!Cleaners PROVE Listed(d)'
  BY <1>0, <1>6, OneCleaner, ScopesAssumption DEF FlagsTyped, UnitsTyped, LivesInOrder,
    ScopesRecorded, Listed, Walked, Cleaning,
    Barred, Scoped!Scopes, Scoped!Units
<1>7. ASSUME NEW d \in Scoped!Cleaners PROVE Checked(d)'
  BY <1>0, <1>7, OneCleaner, ScopesAssumption DEF FlagsTyped, UnitsTyped, LivesInOrder,
    ServiceGuarded, Listed, Checked, Walked,
    Cleaning, Barred, Scoped!Scopes, Scoped!Units
<1> QED BY <1>0, <1>1, <1>2, <1>3, <1>4, <1>5, <1>6, <1>7

LEMMA ScopeLoginCleans ==
  ASSUME ScopeInv, Scoped!LoginCleans
  PROVE  ScopeInv'
<1> USE DEF Scoped!LoginCleans, ScopeInv, Scoped!SupervisorGone, Scoped!units
<1>0. UNCHANGED barrier /\ CleanersTyped'
  BY DEF CleanersTyped
<1>1. FlagsTyped'
  BY ScopesAssumption DEF FlagsTyped
<1>2. UnitsTyped'
  BY DEF UnitsTyped, Scoped!Units, Scoped!Scopes
<1> USE DEF Scoped!At, Scoped!Cleaners
<1>3. LivesInOrder'
  BY <1>0 DEF FlagsTyped, CleanersTyped, LivesInOrder, Cleaning
<1>4. ScopesRecorded'
  BY ScopesAssumption DEF FlagsTyped, UnitsTyped, LivesInOrder, ScopesRecorded, Scoped!Scopes,
    Scoped!Units
<1>5. ServiceGuarded'
  BY DEF FlagsTyped, ServiceGuarded
<1>6. ASSUME NEW d \in Scoped!Cleaners PROVE Listed(d)'
  BY <1>0, <1>6, ScopesAssumption DEF FlagsTyped, UnitsTyped, LivesInOrder, ScopesRecorded,
    Listed, Walked, Cleaning,
    Barred, Scoped!Scopes, Scoped!Units
<1>7. ASSUME NEW d \in Scoped!Cleaners PROVE Checked(d)'
  BY <1>0, <1>7, ScopesAssumption DEF FlagsTyped, UnitsTyped, LivesInOrder, ServiceGuarded,
    Listed, Checked, Walked,
    Cleaning, Barred, Scoped!Scopes, Scoped!Units
<1> QED BY <1>0, <1>1, <1>2, <1>3, <1>4, <1>5, <1>6, <1>7

LEMMA ScopeSupervisorDies ==
  ASSUME ScopeInv, Scoped!SupervisorDies
  PROVE  ScopeInv'
<1> USE DEF Scoped!SupervisorDies, ScopeInv, Scoped!SupervisorGone, Scoped!files, Scoped!units,
      Scoped!Fault
<1>0. /\ CleanersTyped'
      /\ \A d \in Scoped!Cleaners :
           /\ barrier'[d].pc = IF d = "supervisor" THEN "off" ELSE barrier[d].pc
           /\ barrier'[d].seen = barrier[d].seen /\ barrier'[d].left = barrier[d].left
  <2>1. Scoped!Go("supervisor", "off") /\ "supervisor" \in Scoped!Cleaners /\ ("off") \in Places
    BY DEF Places, Scoped!Cleaners
  <2> HIDE DEF Scoped!SupervisorDies
  <2> QED BY <2>1, Went
<1>1. FlagsTyped'
  BY ScopesAssumption DEF FlagsTyped
<1>2. UnitsTyped'
  BY DEF UnitsTyped, Scoped!Units, Scoped!Scopes
<1> USE DEF Scoped!At, Scoped!Cleaners
<1>3. LivesInOrder'
  BY <1>0 DEF FlagsTyped, CleanersTyped, LivesInOrder, Cleaning
<1>4. ScopesRecorded'
  BY ScopesAssumption DEF FlagsTyped, UnitsTyped, LivesInOrder, ScopesRecorded, Scoped!Scopes,
    Scoped!Units
<1>5. ServiceGuarded'
  BY DEF FlagsTyped, ServiceGuarded
<1>6. ASSUME NEW d \in Scoped!Cleaners PROVE Listed(d)'
  BY <1>0, <1>6, ScopesAssumption DEF FlagsTyped, UnitsTyped, LivesInOrder, ScopesRecorded,
    Listed, Walked, Cleaning,
    Barred, Scoped!Scopes, Scoped!Units
<1>7. ASSUME NEW d \in Scoped!Cleaners PROVE Checked(d)'
  BY <1>0, <1>7, ScopesAssumption DEF FlagsTyped, UnitsTyped, LivesInOrder, ServiceGuarded,
    Listed, Checked, Walked,
    Cleaning, Barred, Scoped!Scopes, Scoped!Units
<1> QED BY <1>0, <1>1, <1>2, <1>3, <1>4, <1>5, <1>6, <1>7

LEMMA ScopeGuardDies ==
  ASSUME ScopeInv, Scoped!GuardDies
  PROVE  ScopeInv'
<1> USE DEF Scoped!GuardDies, ScopeInv, Scoped!SupervisorGone, Scoped!files, Scoped!ServiceEnds,
      Scoped!Fault
<1>0. UNCHANGED barrier /\ CleanersTyped'
  BY DEF CleanersTyped
<1>1. FlagsTyped'
  BY ScopesAssumption DEF FlagsTyped
<1>2. UnitsTyped'
  BY DEF UnitsTyped, Scoped!Units, Scoped!Scopes
<1> USE DEF Scoped!At, Scoped!Cleaners
<1>3. LivesInOrder'
  BY <1>0 DEF FlagsTyped, CleanersTyped, LivesInOrder, Cleaning
<1>4. ScopesRecorded'
  BY ScopesAssumption DEF FlagsTyped, UnitsTyped, LivesInOrder, ScopesRecorded, Scoped!Scopes,
    Scoped!Units
<1>5. ServiceGuarded'
  BY DEF FlagsTyped, ServiceGuarded
<1>6. ASSUME NEW d \in Scoped!Cleaners PROVE Listed(d)'
  BY <1>0, <1>6, ScopesAssumption DEF FlagsTyped, UnitsTyped, LivesInOrder, ScopesRecorded,
    Listed, Walked, Cleaning,
    Barred, Scoped!Scopes, Scoped!Units
<1>7. ASSUME NEW d \in Scoped!Cleaners PROVE Checked(d)'
  BY <1>0, <1>7, ScopesAssumption DEF FlagsTyped, UnitsTyped, LivesInOrder, ServiceGuarded,
    Listed, Checked, Walked,
    Cleaning, Barred, Scoped!Scopes, Scoped!Units
<1> QED BY <1>0, <1>1, <1>2, <1>3, <1>4, <1>5, <1>6, <1>7

LEMMA ScopeBarrierFails ==
  ASSUME NEW c \in Scoped!Cleaners, ScopeInv, Scoped!BarrierFails(c)
  PROVE  ScopeInv'
<1> USE DEF Scoped!BarrierFails, ScopeInv, Scoped!SupervisorGone, Scoped!files, Scoped!units,
      Scoped!Fault
<1>0. /\ CleanersTyped'
      /\ \A d \in Scoped!Cleaners :
           /\ barrier'[d].pc = IF d = c THEN "failed" ELSE barrier[d].pc
           /\ barrier'[d].seen = barrier[d].seen /\ barrier'[d].left = barrier[d].left
  <2>1. Scoped!Go(c, "failed") /\ c \in Scoped!Cleaners /\ ("failed") \in Places
    BY DEF Places, Scoped!Cleaners
  <2> HIDE DEF Scoped!BarrierFails
  <2> QED BY <2>1, Went
<1>1. FlagsTyped'
  BY ScopesAssumption DEF FlagsTyped
<1>2. UnitsTyped'
  BY DEF UnitsTyped, Scoped!Units, Scoped!Scopes
<1> USE DEF Scoped!At, Scoped!Cleaners
<1>3. LivesInOrder'
  BY <1>0 DEF FlagsTyped, CleanersTyped, LivesInOrder, Cleaning
<1>4. ScopesRecorded'
  BY ScopesAssumption DEF FlagsTyped, UnitsTyped, LivesInOrder, ScopesRecorded, Scoped!Scopes,
    Scoped!Units
<1>5. ServiceGuarded'
  BY DEF FlagsTyped, ServiceGuarded
<1>6. ASSUME NEW d \in Scoped!Cleaners PROVE Listed(d)'
  BY <1>0, <1>6, OneCleaner, ScopesAssumption DEF FlagsTyped, UnitsTyped, LivesInOrder,
    ScopesRecorded, Listed, Walked, Cleaning,
    Barred, Scoped!Scopes, Scoped!Units
<1>7. ASSUME NEW d \in Scoped!Cleaners PROVE Checked(d)'
  BY <1>0, <1>7, OneCleaner, ScopesAssumption DEF FlagsTyped, UnitsTyped, LivesInOrder,
    ServiceGuarded, Listed, Checked, Walked,
    Cleaning, Barred, Scoped!Scopes, Scoped!Units
<1> QED BY <1>0, <1>1, <1>2, <1>3, <1>4, <1>5, <1>6, <1>7

-----------------------------------------------------------------------------
Two == {one, two}
EnvKeys == {Marker, Dir, Path, Display}
EnvValues == {one, two, Host, User, Empty, Unset}
Environs == [EnvKeys -> EnvValues]
Journal == [published : Environs, previous : Environs, pending : EnvValues \cup {None}]
Kinds == {"publish", "retire", "display"}
Steps == {"claim", "bus", "manager", "verify", "latest", "replace", "remove", "settle"}
Work == [kind : Kinds, session : Two, step : Steps, seen : Environs,
         plan : [EnvKeys -> EnvValues \cup {None}]]

LEMMA Distinct ==
  /\ Marker # Dir /\ Marker # Path /\ Marker # Display /\ Dir # Path /\ Dir # Display
  /\ Path # Display
  /\ one # two /\ {one, two} \cap {Host, User, Empty, Unset} = {}
  /\ Host # User /\ Host # Empty /\ Host # Unset /\ User # Empty /\ User # Unset /\ Empty # Unset
  /\ None \notin EnvValues \cup Journal /\ Free \notin Work
<1>1. /\ Marker # Dir /\ Marker # Path /\ Marker # Display /\ Dir # Path /\ Dir # Display
      /\ Path # Display
  <2> DEFINE key == <<Marker, Dir, Path, Display>>
  <2>1. \A i, j \in 1..4 : key[i] = key[j] => i = j
    BY EnvironmentAssumption
  <2>2. key[1] = Marker /\ key[2] = Dir /\ key[3] = Path /\ key[4] = Display
    OBVIOUS
  <2> HIDE DEF key
  <2> QED BY <2>1, <2>2
<1>2. /\ one # two /\ {one, two} \cap {Host, User, Empty, Unset} = {}
      /\ Host # User /\ Host # Empty /\ Host # Unset /\ User # Empty /\ User # Unset
      /\ Empty # Unset
  <2> DEFINE value == <<one, two, Host, User, Empty, Unset>>
  <2>1. \A i, j \in 1..6 : value[i] = value[j] => i = j
    BY EnvironmentAssumption
  <2>2. /\ value[1] = one /\ value[2] = two /\ value[3] = Host /\ value[4] = User
        /\ value[5] = Empty /\ value[6] = Unset
    OBVIOUS
  <2> HIDE DEF value
  <2> QED BY <2>1, <2>2
<1>3. None \notin EnvValues \cup Journal /\ Free \notin Work
  BY EnvironmentAssumption DEF EnvValues, Journal, Work, Environs, EnvKeys, Kinds, Steps, Two,
    Environment!Values, Environment!Records, Environment!Operations, Environment!Environments,
    Environment!Names
<1> QED BY <1>1, <1>2, <1>3

EnvironsTyped == manager \in Environs /\ bus \in Environs
JournalsTyped == record \in [Two -> Journal \cup {None}]
SessionsTyped ==
  /\ shown \in [Two -> Two \cup {Empty}]
  /\ session \in [Two -> {"starting", "publishing", "live", "ending", "crashed", "gone"}]
  /\ aborts \in 0..MaxDisturbances /\ userSets \in 0..MaxUserSets
  /\ stranded \in SUBSET Two
WorkTyped == op \in Work \cup {Free}

\* An operation of a kind is under way, at one of some steps.
Doing(kind, steps) == op # Free /\ op.kind = kind /\ op.step \in steps
MidPublish == Doing("publish", {"bus", "manager"})
Nowhere(s) == \A k \in EnvKeys : manager[k] # s /\ bus[k] # s

Owns(r, k, v) == v = r.published[k] \/ (k = Display /\ v = r.pending)

\* What a journal restores names no session; what it has published names its own.
Journals ==
  \A s \in Two : record[s] # None =>
    /\ \A k \in EnvKeys : record[s].previous[k] \notin Two
    /\ record[s].previous[Marker] = Unset /\ record[s].previous[Display] # Empty
    /\ \A k \in {Marker, Dir, Path} : record[s].published[k] = s
    /\ record[s].published[Display] \in {s, Empty}
    /\ record[s].pending \in {None, s, Empty}

\* A session has a journal from its publication to its retirement.
Phases ==
  /\ \A s \in Two :
       /\ shown[s] \in {s, Empty}
       /\ session[s] \in {"starting", "gone"} => record[s] = None
       /\ session[s] = "live" => record[s] # None
       /\ session[s] = "publishing" <=> (op # Free /\ op.kind = "publish" /\ op.session = s)
  /\ op # Free =>
       /\ record[op.session] # None
       /\ op.kind = "publish" => op.step \in {"claim", "bus", "manager", "verify"}
       /\ op.kind = "display" => op.step \in {"bus", "manager", "settle"}
       /\ op.kind = "retire" => /\ op.step \in {"bus", "latest", "replace", "remove"}
                                /\ session[op.session] \in {"ending", "crashed"}

\* Whoever publishes has the marker from its claim on; who updates or retires has it.
Working ==
  op # Free =>
    /\ op.step \notin {"claim", "remove"} => manager[Marker] = op.session
    /\ Doing("retire", {"remove"}) => manager[Marker] # op.session
    /\ Doing("publish", {"claim"}) => Nowhere(op.session)
    /\ MidPublish => \A k \in {Dir, Path, Display} : manager[k] # op.session
    /\ Doing("publish", {"manager", "verify"}) => bus = record[op.session].published
    /\ Doing("display", {"settle"}) =>
         manager[Display] \in {User, record[op.session].published[Display]}
    /\ op.kind = "display" => manager[Dir] \in Two

\* Once a session has been stranded, both have begun, and it has not the marker.
Apart ==
  stranded # {} =>
    /\ \A t \in Two : session[t] \notin {"starting", "publishing"}
    /\ manager[Marker] \notin stranded

\* A session without a journal or without the marker is nowhere, or stranded.
Cleared ==
  \A s \in Two :
    record[s] = None \/ (manager[Marker] # s /\ ~MidPublish) => s \in stranded \/ Nowhere(s)

\* The marker comes with the directory, unless its publication was cut short: then it is over
\* the environment of the other session, or over one that names none.
ComesWhole ==
  \A s \in Two : manager[Marker] = s /\ ~MidPublish =>
    \/ manager[Dir] = s
    \/ \E t \in Two : t # s /\ t \in stranded
    \/ \A k \in {Dir, Path, Display} : manager[k] \notin Two

\* A display of a session, or the empty one, is there with a directory.
OfSession(d) == d \in Two \cup {Empty}
Together == OfSession(manager[Display]) => manager[Dir] \in Two

Displays ==
  \A s \in Two :
    /\ manager[Display] = s /\ s \notin stranded => Owns(record[s], Display, s)
    /\ manager[Marker] = s /\ manager[Dir] = s /\ OfSession(manager[Display]) =>
         Owns(record[s], Display, manager[Display])

\* A retirement puts no session in the place of its own, and leaves only what a user has set
\* and the values of a stranded session, its display with its directory.
Restores ==
  Doing("retire", {"bus", "latest", "replace"}) =>
    /\ op.seen[Marker] = op.session /\ op.plan[Marker] = Unset /\ op.plan[Display] # Empty
    /\ op.plan[Display] = None /\ OfSession(manager[Display]) => op.plan[Dir] = None
    /\ \A k \in EnvKeys :
         /\ op.plan[k] \notin Two
         /\ op.plan[k] = None => /\ manager[k] \notin Two \ stranded
                                 /\ op.step = "bus" => op.seen[k] \notin Two \ stranded
         /\ manager[k] # op.seen[k] => manager[k] = User
         /\ op.step # "bus" => bus[k] \notin Two \ stranded

Owners ==
  \A s \in Two : session[s] = "live" /\ manager[Marker] = s =>
    /\ manager[Dir] = s /\ bus[Dir] = s
    /\ manager[Path] \in {s, User} /\ bus[Path] = s
    /\ manager[Display] = User \/ Owns(record[s], Display, manager[Display])

EnvInv ==
  /\ EnvironsTyped /\ JournalsTyped /\ SessionsTyped /\ WorkTyped
  /\ Journals /\ Phases /\ Working /\ Apart /\ Cleared /\ ComesWhole /\ Together
  /\ Displays /\ Restores /\ Owners

LEMMA EnvNames ==
  /\ Environment!Names = EnvKeys /\ Environment!Values = EnvValues
  /\ Environment!Environments = Environs /\ Environment!Records = Journal
  /\ Environment!Operations = Work
  /\ \A s : Environment!Own(s) = s
  /\ \A r, k, v : Environment!OwnedBy(r, k, v) <=> Owns(r, k, v)
BY DEF EnvValues, Journal, Work, Environs, EnvKeys, Kinds, Steps, Two, Owns, Environment!Own,
    Environment!OwnedBy, Environment!Values, Environment!Records, Environment!Operations,
    Environment!Environments, Environment!Names

LEMMA EnvInvHolds ==
  ASSUME EnvInv
  PROVE  Environment!TypeOK /\ Environment!GoneLeavesNothing /\ Environment!OwnerIntact
<1>1. Environment!TypeOK
  BY EnvNames DEF EnvInv, EnvironsTyped, JournalsTyped, SessionsTyped, WorkTyped, Two,
    Environment!TypeOK
<1>2. Environment!GoneLeavesNothing
  BY EnvNames DEF EnvInv, Phases, Cleared, Nowhere, Two, Environment!GoneLeavesNothing
<1>3. Environment!OwnerIntact
  BY EnvNames DEF EnvInv, Owners, Two, Environment!OwnerIntact
<1> QED BY <1>1, <1>2, <1>3

LEMMA EnvInvInit == ASSUME Environment!Init PROVE EnvInv
<1>1. PICK path \in {Host, Unset} :
        manager = [k \in EnvKeys |-> IF k = Path THEN path ELSE Unset]
  BY EnvNames DEF Environment!Init
<1>2. /\ bus = manager /\ op = Free /\ aborts = 0 /\ userSets = 0 /\ stranded = {}
      /\ record = [s \in Two |-> None] /\ shown = [s \in Two |-> Empty]
      /\ session = [s \in Two |-> "starting"]
  BY DEF Environment!Init, Two
<1>3. EnvironsTyped /\ JournalsTyped /\ SessionsTyped /\ WorkTyped
  <2>1. 0 \in 0..MaxDisturbances /\ 0 \in 0..MaxUserSets
    BY EnvironmentAssumption
  <2>2. EnvironsTyped
    BY <1>1, <1>2 DEF EnvironsTyped, Environs, EnvValues
  <2> QED BY <1>2, <2>1, <2>2 DEF JournalsTyped, SessionsTyped, WorkTyped
<1>4. \A k \in EnvKeys : manager[k] \notin Two /\ bus[k] \notin Two
  BY <1>1, <1>2, Distinct DEF EnvKeys, Two
<1>5. Journals /\ Phases /\ Working /\ Apart /\ Restores
  BY <1>2, Distinct DEF Journals, Phases, Working, Apart, Restores, Doing, MidPublish, Two
<1>6. Cleared /\ ComesWhole /\ Displays /\ Owners
  BY <1>2, <1>4 DEF Cleared, ComesWhole, Displays, Owners, Nowhere, EnvKeys, Two
<1>7. Together
  <2>1. manager[Display] = Unset
    BY <1>1, Distinct DEF EnvKeys
  <2> QED BY <2>1, Distinct DEF Together, OfSession, Two
<1> QED BY <1>3, <1>5, <1>6, <1>7 DEF EnvInv

LEMMA Stepped ==
  ASSUME WorkTyped, op # Free, NEW n \in Steps, Environment!Step(n)
  PROVE  /\ WorkTyped' /\ op' # Free /\ op'.step = n /\ op'.kind = op.kind
         /\ op'.session = op.session /\ op'.seen = op.seen /\ op'.plan = op.plan
<1>1. op \in Work
  BY DEF WorkTyped
<1>2. op' = [op EXCEPT !.step = n]
  BY DEF Environment!Step
<1>3. op' \in Work
  BY <1>1, <1>2 DEF Work
<1> QED BY <1>1, <1>2, <1>3, Distinct DEF WorkTyped, Work

LEMMA Began ==
  ASSUME NEW kind \in Kinds, NEW s \in Two, NEW n \in Steps, NEW seen \in Environs,
         NEW plan \in [EnvKeys -> EnvValues \cup {None}],
         Environment!Begin(kind, s, n, seen, plan)
  PROVE  /\ WorkTyped' /\ op' # Free /\ op'.step = n /\ op'.kind = kind
         /\ op'.session = s /\ op'.seen = seen /\ op'.plan = plan
<1>1. op' = [kind |-> kind, session |-> s, step |-> n, seen |-> seen, plan |-> plan]
  BY DEF Environment!Begin
<1>2. op' \in Work
  BY <1>1 DEF Work
<1> QED BY <1>1, <1>2, Distinct DEF WorkTyped

LEMMA EnvRecord ==
  ASSUME NEW s \in Two, EnvInv, Environment!Record(s)
  PROVE  EnvInv'
<1> DEFINE p == Environment!Published(s)
           b == Environment!Baseline
           r == [published |-> p, previous |-> b, pending |-> None]
<1>1. /\ op = Free /\ session[s] = "starting" /\ record[s] = None
      /\ session' = [session EXCEPT ![s] = "publishing"]
      /\ record' = [record EXCEPT ![s] = r]
      /\ Environment!Begin("publish", s, "claim", manager, Environment!NoPlan)
      /\ UNCHANGED <<manager, bus, shown, aborts, userSets, stranded>>
  BY DEF Environment!Record
<1>2. EnvironsTyped /\ JournalsTyped /\ SessionsTyped /\ WorkTyped
  BY DEF EnvInv
<1>3. p \in Environs /\ p[Display] \in {s, Empty} /\ \A k \in {Marker, Dir, Path} : p[k] = s
  <2>1. p = [k \in EnvKeys |-> IF k = Display THEN shown[s] ELSE s]
    BY EnvNames DEF Environment!Published
  <2>2. shown[s] \in {s, Empty}
    BY DEF EnvInv, Phases
  <2> QED BY <2>1, <2>2, Distinct DEF Environs, EnvValues, Two, EnvKeys
<1>a. stranded = {}
  BY <1>1 DEF EnvInv, Apart
<1>4. /\ b \in Environs /\ b[Marker] = Unset /\ b[Display] # Empty
      /\ \A k \in EnvKeys : b[k] \notin Two
  <2> DEFINE w == manager[Dir]
             flat == [k \in EnvKeys |->
                       IF k # Marker /\ manager[Marker] = w /\ record[w] # None
                            /\ Owns(record[w], k, manager[k])
                       THEN record[w].previous[k] ELSE manager[k]]
  <2>1. b = IF manager[Marker] \in Two /\ w \in Two
            THEN [k \in EnvKeys |-> IF k = Marker \/ (k # Display /\ flat[k] = w) THEN Unset
                                    ELSE flat[k]]
            ELSE [manager EXCEPT ![Marker] = Unset]
    BY EnvNames DEF Environment!Baseline, Two
  <2>2. \A k \in EnvKeys : manager[k] # s
    BY <1>1, <1>a DEF EnvInv, Cleared, Nowhere
  <2>3. \A k \in EnvKeys : manager[k] \in EnvValues
    BY <1>2 DEF EnvironsTyped, Environs
  <2>4. ~MidPublish
    BY <1>1 DEF MidPublish, Doing
  <2>5. CASE manager[Marker] \in Two /\ w \in Two
    <3>1. PICK t \in Two : t # s /\ manager[Marker] = t
      BY <2>2, <2>5 DEF EnvKeys
    <3>2. record[t] # None
      BY <1>a, <3>1 DEF EnvInv, Cleared, Nowhere, EnvKeys
    <3>3. w = t
      <4>1. Dir \in EnvKeys /\ \A u \in Two : u \in {s, t}
        BY <3>1 DEF Two, EnvKeys
      <4> QED BY <2>2, <2>5, <4>1
    <3>4. /\ record[t] \in Journal
          /\ \A k \in EnvKeys : record[t].previous[k] \in EnvValues \ Two
          /\ record[t].previous[Display] # Empty
      BY <1>2, <3>2 DEF JournalsTyped, Journal, Environs, EnvInv, Journals
    <3>5. \A k \in EnvKeys : flat[k] \in EnvValues /\ flat[k] # s
      BY <2>2, <2>3, <3>3, <3>4
    <3>6. b = [k \in EnvKeys |-> IF k = Marker \/ (k # Display /\ flat[k] = w) THEN Unset
                                 ELSE flat[k]]
      BY <2>1, <2>5
    <3>7. flat[Display] # t /\ flat[Display] # Empty
      <4>1. OfSession(manager[Display]) => Owns(record[t], Display, manager[Display])
        BY <3>1, <3>3 DEF EnvInv, Displays
      <4>2. Display \in EnvKeys /\ Display # Marker
        BY Distinct DEF EnvKeys
      <4>3. flat[Display] = IF Owns(record[t], Display, manager[Display])
                            THEN record[t].previous[Display] ELSE manager[Display]
        BY <3>1, <3>2, <3>3, <4>2
      <4> HIDE DEF flat
      <4> QED BY <3>4, <4>1, <4>2, <4>3 DEF OfSession
    <3>8. /\ \A u \in Two : u \in {s, t}
          /\ Unset \in EnvValues /\ Unset \notin Two /\ Marker \in EnvKeys
          /\ Display \in EnvKeys /\ Display # Marker
      <4>1. \A u \in Two : u \in {s, t}
        BY <3>1 DEF Two
      <4> QED BY <4>1, Distinct DEF Two, EnvValues, EnvKeys
    <3> HIDE DEF flat
    <3>9. ASSUME NEW k \in EnvKeys PROVE b[k] \in EnvValues /\ b[k] # s /\ b[k] # t
      BY <2>2, <3>1, <3>3, <3>5, <3>6, <3>7, <3>8
    <3>10. b \in Environs
      BY <3>6, <3>9 DEF Environs
    <3>11. b[Marker] = Unset /\ b[Display] = flat[Display]
      BY <3>6, <3>8
    <3> QED BY <3>7, <3>8, <3>9, <3>10, <3>11
  <2>6. CASE ~(manager[Marker] \in Two /\ w \in Two)
    <3>1. \A k \in EnvKeys \ {Marker} : manager[k] \notin Two
      <4>1. CASE manager[Marker] \in Two
        <5>1. \A k \in {Dir, Path, Display} : manager[k] \notin Two
          BY <1>a, <2>4, <2>6, <4>1 DEF EnvInv, ComesWhole
        <5> QED BY <5>1 DEF EnvKeys
      <4>2. CASE manager[Marker] \notin Two
        BY <1>a, <2>4, <4>2 DEF EnvInv, Cleared, Nowhere
      <4> QED BY <4>1, <4>2
    <3>2. b = [manager EXCEPT ![Marker] = Unset]
      BY <2>1, <2>6
    <3>3. manager[Display] # Empty
      BY <3>1, Distinct DEF EnvInv, Together, OfSession, EnvKeys
    <3> QED BY <1>2, <3>1, <3>2, <3>3, Distinct DEF EnvironsTyped, Environs, Two, EnvKeys, EnvValues
  <2> QED BY <2>5, <2>6
<1> HIDE DEF p, b
<1>5. /\ WorkTyped' /\ op' # Free /\ op'.step = "claim" /\ op'.kind = "publish" /\ op'.session = s
  <2>1. /\ Environment!NoPlan \in [EnvKeys -> EnvValues \cup {None}]
        /\ "publish" \in Kinds /\ "claim" \in Steps
    BY EnvNames DEF Environment!NoPlan, Kinds, Steps
  <2> QED BY <1>1, <1>2, <2>1, Began DEF EnvironsTyped
<1>6. /\ r \in Journal
      /\ r # None
      /\ record'[s] = r
      /\ \A t \in Two : t # s => record'[t] = record[t]
      /\ JournalsTyped'
  <2>1. r \in Journal
    BY <1>3, <1>4 DEF Journal
  <2> QED BY <1>1, <1>2, <2>1, Distinct DEF JournalsTyped
<1>7. r.published = p /\ r.previous = b /\ r.pending = None
  OBVIOUS
<1> HIDE DEF r
<1>8. SessionsTyped' /\ EnvironsTyped'
  BY <1>1, <1>2 DEF SessionsTyped, EnvironsTyped
<1>9. /\ session'[s] = "publishing" /\ \A t \in Two : t # s => session'[t] = session[t]
  BY <1>1, <1>2 DEF SessionsTyped
<1>10. Phases'
  BY <1>1, <1>5, <1>6, <1>9 DEF EnvInv, Phases, Two
<1>11. Journals'
  BY <1>3, <1>4, <1>6, <1>7 DEF EnvInv, Journals
<1>12. Nowhere(s) /\ Nowhere(s)'
  BY <1>1, <1>a DEF EnvInv, Cleared, Nowhere
<1>13. Working' /\ Restores'
  BY <1>5, <1>12 DEF Working, Restores, Doing, MidPublish
<1>14. Cleared' /\ ComesWhole' /\ Apart' /\ Together'
  <2>1. ~MidPublish /\ ~MidPublish' /\ stranded' = stranded
    BY <1>1, <1>5 DEF MidPublish, Doing
  <2> QED BY <1>1, <1>a, <1>6, <1>12, <2>1 DEF EnvInv, Cleared, ComesWhole, Apart, Together,
    OfSession, Nowhere
<1>15. Displays' /\ Owners'
  <2>1. manager[Display] # s /\ manager[Marker] # s /\ stranded' = stranded
    BY <1>1, <1>12 DEF Nowhere, EnvKeys
  <2> QED BY <1>1, <1>6, <1>9, <2>1 DEF EnvInv, Displays, OfSession, Owners, Owns
<1> QED BY <1>5, <1>6, <1>8, <1>10, <1>11, <1>13, <1>14, <1>15 DEF EnvInv

LEMMA EnvClaim ==
  ASSUME NEW s \in Two, EnvInv, Environment!Claim(s)
  PROVE  EnvInv'
<1> USE DEF EnvInv
<1>0. /\ WorkTyped' /\ op' # Free /\ op # Free /\ op'.step = "bus" /\ op'.kind = op.kind
      /\ op.session = s /\ op'.session = s /\ op'.seen = op.seen /\ op'.plan = op.plan
  <2>1. op # Free /\ op.session = s /\ Environment!Step("bus") /\ "bus" \in Steps
    BY DEF Environment!Claim, Environment!Operation, Steps
  <2> QED BY <2>1, Stepped
<1> USE EnvNames DEF Environment!Claim, Environment!Operation
<1>1. EnvironsTyped'
  BY DEF EnvironsTyped, JournalsTyped, Environs, Journal, EnvKeys, EnvValues, Phases, Two
<1>2. JournalsTyped' /\ SessionsTyped'
  BY DEF JournalsTyped, SessionsTyped, Journal, Two
<1> USE <1>0, Distinct
<1>3. Phases'
  BY DEF Phases, JournalsTyped, SessionsTyped, Two
<1>4. Journals'
  BY DEF Journals, JournalsTyped, Two
<1>5. Working'
  BY DEF Working, Phases, Doing, MidPublish, Cleared, Nowhere, EnvironsTyped, Environs, EnvKeys,
    EnvValues, Two
<1>6. Cleared'
  BY DEF Cleared, Nowhere, Journals, Phases, Working, Doing, MidPublish, EnvironsTyped, Environs,
    EnvKeys, Two
<1>7. ComesWhole'
  BY DEF ComesWhole, Journals, Phases, Working, Doing, MidPublish, EnvironsTyped, Environs,
    EnvKeys, Two
<1>8. Displays'
  BY DEF Displays, OfSession, Owns, Journals, Phases, Working, Cleared, Nowhere, Doing, MidPublish,
    EnvironsTyped, Environs, EnvKeys, Two
<1>9. Restores'
  BY DEF Restores, OfSession, Journals, Phases, Working, Doing, EnvironsTyped, Environs, EnvKeys,
    Two
<1>10. Owners'
  BY DEF Owners, Owns, Journals, Phases, Working, Doing, SessionsTyped, EnvironsTyped, Environs,
    EnvKeys, Two
<1>11. Apart'
  BY DEF Apart, Phases, Working, Cleared, Nowhere, SessionsTyped, EnvironsTyped, Environs,
    EnvKeys, Two
<1>12. Together'
  BY DEF Together, OfSession, Journals, Phases, EnvironsTyped, Environs, EnvKeys, Two
<1> QED BY <1>0, <1>1, <1>2, <1>3, <1>4, <1>5, <1>6, <1>7, <1>8, <1>9, <1>10, <1>11, <1>12

LEMMA EnvPublishBus ==
  ASSUME NEW s \in Two, EnvInv, Environment!PublishBus(s)
  PROVE  EnvInv'
<1> USE DEF EnvInv
<1>0. /\ WorkTyped' /\ op' # Free /\ op # Free /\ op'.step = "manager" /\ op'.kind = op.kind
      /\ op.session = s /\ op'.session = s /\ op'.seen = op.seen /\ op'.plan = op.plan
  <2>1. op # Free /\ op.session = s /\ Environment!Step("manager") /\ "manager" \in Steps
    BY DEF Environment!PublishBus, Environment!Operation, Steps
  <2> QED BY <2>1, Stepped
<1> USE EnvNames DEF Environment!PublishBus, Environment!Operation
<1>1. EnvironsTyped'
  BY DEF EnvironsTyped, JournalsTyped, Environs, Journal, EnvKeys, EnvValues, Phases, Two
<1>2. JournalsTyped' /\ SessionsTyped'
  BY DEF JournalsTyped, SessionsTyped, Journal, Two
<1> USE <1>0, Distinct
<1>3. Phases'
  BY DEF Phases, JournalsTyped, SessionsTyped, Two
<1>4. Journals'
  BY DEF Journals, JournalsTyped, Two
<1>5. Working'
  BY DEF Working, Phases, Doing, MidPublish, Cleared, Nowhere, EnvironsTyped, Environs, EnvKeys,
    EnvValues, Two
<1>6. Cleared'
  <2>1. record[s] # None /\ \A k \in EnvKeys : bus'[k] \in {s, Empty}
    BY DEF Phases, Journals, EnvKeys
  <2>2. manager' = manager /\ record' = record /\ MidPublish'
    BY DEF MidPublish, Doing, Phases
  <2> QED BY <2>1, <2>2 DEF Cleared, Nowhere, Two
<1>7. ComesWhole'
  BY DEF ComesWhole, Journals, Phases, Working, Doing, MidPublish, EnvironsTyped, Environs,
    EnvKeys, Two
<1>8. Displays'
  BY DEF Displays, OfSession, Owns, Journals, Phases, Working, Cleared, Nowhere, Doing, MidPublish,
    EnvironsTyped, Environs, EnvKeys, Two
<1>9. Restores'
  BY DEF Restores, OfSession, Journals, Phases, Working, Doing, EnvironsTyped, Environs, EnvKeys,
    Two
<1>10. Owners'
  BY DEF Owners, Owns, Journals, Phases, Working, Doing, SessionsTyped, EnvironsTyped, Environs,
    EnvKeys, Two
<1>11. Apart'
  BY DEF Apart, Phases, Working, Cleared, Nowhere, SessionsTyped, EnvironsTyped, Environs,
    EnvKeys, Two
<1>12. Together'
  BY DEF Together, OfSession, Journals, Phases, EnvironsTyped, Environs, EnvKeys, Two
<1> QED BY <1>0, <1>1, <1>2, <1>3, <1>4, <1>5, <1>6, <1>7, <1>8, <1>9, <1>10, <1>11, <1>12

LEMMA EnvPublishManager ==
  ASSUME NEW s \in Two, EnvInv, Environment!PublishManager(s)
  PROVE  EnvInv'
<1> USE DEF EnvInv
<1>0. /\ WorkTyped' /\ op' # Free /\ op # Free /\ op'.step = "verify" /\ op'.kind = op.kind
      /\ op.session = s /\ op'.session = s /\ op'.seen = op.seen /\ op'.plan = op.plan
  <2>1. op # Free /\ op.session = s /\ Environment!Step("verify") /\ "verify" \in Steps
    BY DEF Environment!PublishManager, Environment!Operation, Steps
  <2> QED BY <2>1, Stepped
<1> USE EnvNames DEF Environment!PublishManager, Environment!Operation
<1>1. EnvironsTyped'
  BY DEF EnvironsTyped, JournalsTyped, Environs, Journal, EnvKeys, EnvValues, Phases, Two
<1>2. JournalsTyped' /\ SessionsTyped'
  BY DEF JournalsTyped, SessionsTyped, Journal, Two
<1> USE <1>0, Distinct
<1>3. Phases'
  BY DEF Phases, JournalsTyped, SessionsTyped, Two
<1>4. Journals'
  BY DEF Journals, JournalsTyped, Two
<1>a. /\ record[s] # None /\ \A k \in EnvKeys : manager'[k] \in {s, Empty} /\ bus'[k] \in {s, Empty}
      /\ manager'[Marker] = s /\ bus' = record'[s].published /\ op.kind = "publish"
  BY DEF Phases, Journals, EnvKeys, Working, Doing
<1>5. Working' /\ ~MidPublish'
  BY <1>a DEF Working, Doing, MidPublish
<1>6. Cleared'
  BY <1>5, <1>a DEF Cleared, Nowhere, Two
<1>7. ComesWhole'
  BY DEF ComesWhole, Journals, Phases, Working, Doing, MidPublish, EnvironsTyped, Environs,
    EnvKeys, Two
<1>8. Displays'
  BY DEF Displays, OfSession, Owns, Journals, Phases, Working, Cleared, Nowhere, Doing, MidPublish,
    EnvironsTyped, Environs, EnvKeys, Two
<1>9. Restores'
  BY DEF Restores, OfSession, Journals, Phases, Working, Doing, EnvironsTyped, Environs, EnvKeys,
    Two
<1>10. Owners'
  BY DEF Owners, Owns, Journals, Phases, Working, Doing, SessionsTyped, EnvironsTyped, Environs,
    EnvKeys, Two
<1>11. Apart'
  BY DEF Apart, Phases, Working, Cleared, Nowhere, SessionsTyped, EnvironsTyped, Environs,
    EnvKeys, Two
<1>12. Together'
  BY DEF Together, OfSession, Journals, Phases, EnvironsTyped, Environs, EnvKeys, Two
<1> QED BY <1>0, <1>1, <1>2, <1>3, <1>4, <1>5, <1>6, <1>7, <1>8, <1>9, <1>10, <1>11, <1>12

LEMMA EnvVerify ==
  ASSUME NEW s \in Two, EnvInv, Environment!Verify(s)
  PROVE  EnvInv'
<1> USE DEF EnvInv
<1>0. WorkTyped' /\ op' = Free
  BY DEF Environment!Verify, WorkTyped
<1> USE EnvNames DEF Environment!Verify, Environment!Operation
<1>1. EnvironsTyped'
  BY DEF EnvironsTyped, JournalsTyped, Environs, Journal, EnvKeys, EnvValues, Phases, Two
<1>2. JournalsTyped' /\ SessionsTyped'
  BY DEF JournalsTyped, SessionsTyped, Journal, Two
<1> USE <1>0, Distinct
<1>3. Phases'
  BY DEF Phases, JournalsTyped, SessionsTyped, Two
<1>4. Journals'
  BY DEF Journals, JournalsTyped, Two
<1>5. Working'
  BY DEF Working, Phases, Doing, MidPublish, Cleared, Nowhere, EnvironsTyped, Environs, EnvKeys,
    EnvValues, Two
<1>6. Cleared'
  BY DEF Cleared, Nowhere, Journals, Phases, Working, Doing, MidPublish, EnvironsTyped, Environs,
    EnvKeys, Two
<1>7. ComesWhole'
  BY DEF ComesWhole, Journals, Phases, Working, Doing, MidPublish, EnvironsTyped, Environs,
    EnvKeys, Two
<1>8. Displays'
  BY DEF Displays, OfSession, Owns, Journals, Phases, Working, Cleared, Nowhere, Doing, MidPublish,
    EnvironsTyped, Environs, EnvKeys, Two
<1>9. Restores'
  BY DEF Restores, OfSession, Journals, Phases, Working, Doing, EnvironsTyped, Environs, EnvKeys,
    Two
<1>10. Owners'
  BY DEF Owners, Owns, Journals, Phases, Working, Doing, SessionsTyped, EnvironsTyped, Environs,
    EnvKeys, Two
<1>11. Apart'
  BY DEF Apart, Phases, Working, Cleared, Nowhere, SessionsTyped, EnvironsTyped, Environs,
    EnvKeys, Two
<1>12. Together'
  BY DEF Together, OfSession, Journals, Phases, EnvironsTyped, Environs, EnvKeys, Two
<1> QED BY <1>0, <1>1, <1>2, <1>3, <1>4, <1>5, <1>6, <1>7, <1>8, <1>9, <1>10, <1>11, <1>12

LEMMA EnvDisplayChanges ==
  ASSUME NEW s \in Two, NEW d \in {Empty, s}, EnvInv, Environment!DisplayChanges(s, d)
  PROVE  EnvInv'
<1>1. /\ op = Free /\ session[s] # "gone" /\ shown' = [shown EXCEPT ![s] = d]
      /\ UNCHANGED <<manager, bus, session, aborts, userSets, stranded>>
  BY DEF Environment!DisplayChanges
<1>2. EnvironsTyped /\ JournalsTyped /\ SessionsTyped /\ WorkTyped
  BY DEF EnvInv
<1>3. EnvironsTyped' /\ SessionsTyped'
  BY <1>1, <1>2 DEF EnvironsTyped, SessionsTyped, Two
<1>4. \A t \in Two : shown'[t] \in {t, Empty}
  BY <1>1, <1>2 DEF SessionsTyped, EnvInv, Phases
<1>5. CASE record' = record /\ op' = op
  BY <1>1, <1>2, <1>3, <1>4, <1>5 DEF EnvInv, JournalsTyped, WorkTyped, Journals, Phases, Working,
    Apart, Cleared, ComesWhole, Together, OfSession, Displays, Restores, Owners, Owns, Nowhere,
    Doing, MidPublish
<1>6. ASSUME record[s] # None, manager[Marker] = s, Owns(record[s], Display, manager[Display]),
             record' = [record EXCEPT ![s].pending = manager[Display],
                                      ![s].published[Display] = d],
             Environment!Begin("display", s, "bus", manager, Environment!NoPlan)
      PROVE  EnvInv'
  <2> DEFINE p == [record[s].published EXCEPT ![Display] = d]
             r == [record[s] EXCEPT !.pending = manager[Display], !.published = p]
  <2>1. /\ WorkTyped' /\ op' # Free /\ op'.step = "bus" /\ op'.kind = "display" /\ op'.session = s
    <3>1. /\ Environment!NoPlan \in [EnvKeys -> EnvValues \cup {None}]
          /\ "display" \in Kinds /\ "bus" \in Steps
      BY EnvNames DEF Environment!NoPlan, Kinds, Steps
    <3> QED BY <1>2, <1>6, <3>1, Began DEF EnvironsTyped
  <2>2. record[s] \in Journal
    BY <1>2, <1>6 DEF JournalsTyped
  <2>3. manager[Display] \in {s, Empty} /\ manager[Display] \in EnvValues
    <3>1. manager[Display] \in EnvValues
      BY <1>2 DEF EnvironsTyped, Environs, EnvKeys
    <3> QED BY <1>6, <3>1, Distinct DEF EnvInv, Journals, Owns
  <2>4. /\ p \in Environs
        /\ p[Display] = d
        /\ \A k \in EnvKeys : k # Display => p[k] = record[s].published[k]
    BY <2>2 DEF Journal, Environs, EnvValues, EnvKeys, Two
  <2>5. r \in Journal /\ r # None
    BY <2>2, <2>3, <2>4, Distinct DEF Journal
  <2>6. r.published = p /\ r.pending = manager[Display] /\ r.previous = record[s].previous
    BY <2>2 DEF Journal
  <2>7. record' = [record EXCEPT ![s] = r]
    BY <1>2, <1>6, <2>2 DEF JournalsTyped, Journal, Environs
  <2> HIDE DEF r, p
  <2>8. JournalsTyped' /\ record'[s] = r /\ \A t \in Two : t # s => record'[t] = record[t]
    BY <1>2, <2>5, <2>7 DEF JournalsTyped
  <2>9. Journals'
    <3>1. /\ \A k \in EnvKeys : r.previous[k] \notin Two
          /\ r.previous[Marker] = Unset /\ r.previous[Display] # Empty
          /\ r.pending \in {None, s, Empty}
      BY <1>6, <2>3, <2>6 DEF EnvInv, Journals
    <3>2. \A k \in {Marker, Dir, Path} : r.published[k] = s
      BY <1>6, <2>4, <2>6, Distinct DEF EnvInv, Journals, EnvKeys
    <3>3. r.published[Display] \in {s, Empty}
      BY <2>4, <2>6
    <3> QED BY <2>8, <3>1, <3>2, <3>3 DEF EnvInv, Journals
  <2>10. Phases'
    BY <1>1, <1>4, <1>6, <2>1, <2>5, <2>8 DEF EnvInv, Phases
  <2>11. Working' /\ Restores'
    <3>1. manager[Dir] \in Two
      BY <2>3 DEF EnvInv, Together, OfSession
    <3> QED BY <1>1, <1>6, <2>1, <3>1 DEF Working, Restores, Doing, MidPublish
  <2>12. ~MidPublish /\ ~MidPublish'
    BY <1>1, <2>1 DEF MidPublish, Doing
  <2>13. Cleared' /\ ComesWhole' /\ Apart' /\ Together'
    BY <1>1, <1>6, <2>5, <2>8, <2>12 DEF EnvInv, Cleared, ComesWhole, Apart, Together, OfSession,
      Nowhere
  <2>14. Displays' /\ Owners'
    BY <1>1, <2>6, <2>8 DEF EnvInv, Displays, OfSession, Owners, Owns
  <2> QED BY <1>3, <2>1, <2>8, <2>9, <2>10, <2>11, <2>13, <2>14 DEF EnvInv
<1> QED
  <2>1. \/ record' = record /\ op' = op
        \/ /\ record[s] # None /\ manager[Marker] = s /\ Owns(record[s], Display, manager[Display])
           /\ record' = [record EXCEPT ![s].pending = manager[Display],
                                       ![s].published[Display] = d]
           /\ Environment!Begin("display", s, "bus", manager, Environment!NoPlan)
    BY EnvNames DEF Environment!DisplayChanges
  <2> QED BY <1>5, <1>6, <2>1

LEMMA EnvDisplayBus ==
  ASSUME NEW s \in Two, EnvInv, Environment!DisplayBus(s)
  PROVE  EnvInv'
<1> USE DEF EnvInv
<1>0. /\ WorkTyped' /\ op' # Free /\ op # Free /\ op'.step = "manager" /\ op'.kind = op.kind
      /\ op.session = s /\ op'.session = s /\ op'.seen = op.seen /\ op'.plan = op.plan
  <2>1. op # Free /\ op.session = s /\ Environment!Step("manager") /\ "manager" \in Steps
    BY DEF Environment!DisplayBus, Environment!Operation, Steps
  <2> QED BY <2>1, Stepped
<1> USE EnvNames DEF Environment!DisplayBus, Environment!Operation
<1>1. EnvironsTyped'
  BY DEF EnvironsTyped, JournalsTyped, Environs, Journal, EnvKeys, EnvValues, Phases, Two
<1>2. JournalsTyped' /\ SessionsTyped'
  BY DEF JournalsTyped, SessionsTyped, Journal, Two
<1> USE <1>0, Distinct
<1>3. Phases'
  BY DEF Phases, JournalsTyped, SessionsTyped, Two
<1>4. Journals'
  BY DEF Journals, JournalsTyped, Two
<1>5. Working'
  BY DEF Working, Phases, Doing, MidPublish, Cleared, Nowhere, EnvironsTyped, Environs, EnvKeys,
    EnvValues, Two
<1>6. Cleared'
  <2>1. /\ record[s] # None /\ record[s].published[Display] \in {s, Empty} /\ manager[Marker] = s
        /\ ~MidPublish /\ ~MidPublish'
    BY DEF Phases, Journals, Working, MidPublish, Doing
  <2>2. \A k \in EnvKeys : bus'[k] \in {bus[k], s, Empty}
    BY <2>1 DEF EnvironsTyped, Environs
  <2> QED BY <2>1, <2>2 DEF Cleared, Nowhere, Two
<1>7. ComesWhole'
  BY DEF ComesWhole, Journals, Phases, Working, Doing, MidPublish, EnvironsTyped, Environs,
    EnvKeys, Two
<1>8. Displays'
  BY DEF Displays, OfSession, Owns, Journals, Phases, Working, Cleared, Nowhere, Doing, MidPublish,
    EnvironsTyped, Environs, EnvKeys, Two
<1>9. Restores'
  BY DEF Restores, OfSession, Journals, Phases, Working, Doing, EnvironsTyped, Environs, EnvKeys,
    Two
<1>10. Owners'
  BY DEF Owners, Owns, Journals, Phases, Working, Doing, SessionsTyped, EnvironsTyped, Environs,
    EnvKeys, Two
<1>11. Apart'
  BY DEF Apart, Phases, Working, Cleared, Nowhere, SessionsTyped, EnvironsTyped, Environs,
    EnvKeys, Two
<1>12. Together'
  BY DEF Together, OfSession, Journals, Phases, EnvironsTyped, Environs, EnvKeys, Two
<1> QED BY <1>0, <1>1, <1>2, <1>3, <1>4, <1>5, <1>6, <1>7, <1>8, <1>9, <1>10, <1>11, <1>12

LEMMA EnvDisplayManager ==
  ASSUME NEW s \in Two, EnvInv, Environment!DisplayManager(s)
  PROVE  EnvInv'
<1>1. /\ op # Free /\ op.kind = "display" /\ op.session = s /\ op.step = "manager"
      /\ UNCHANGED <<bus, record, shown, session, aborts, userSets, stranded>>
  BY DEF Environment!DisplayManager, Environment!Operation
<1>2. EnvironsTyped /\ JournalsTyped /\ SessionsTyped /\ WorkTyped
  BY DEF EnvInv
<1>3. JournalsTyped' /\ SessionsTyped' /\ Journals'
  BY <1>1, <1>2 DEF EnvInv, JournalsTyped, SessionsTyped, Journals
<1>4. record[s] # None /\ manager[Marker] = s /\ manager[Dir] \in Two /\ ~MidPublish
  BY <1>1 DEF EnvInv, Phases, Working, MidPublish, Doing
<1>5. CASE op' = Free /\ manager' = manager
  BY <1>1, <1>2, <1>3, <1>4, <1>5 DEF EnvInv, EnvironsTyped, WorkTyped, Phases, Working, Apart,
    Cleared, ComesWhole, Together, OfSession, Displays, Restores, Owners, Owns, Nowhere, Doing,
    MidPublish
<1>6. ASSUME manager' = [manager EXCEPT ![Display] = record[s].published[Display]],
             Environment!Step("settle")
      PROVE  EnvInv'
  <2>1. /\ WorkTyped'
        /\ op' # Free
        /\ op'.step = "settle"
        /\ op'.kind = "display"
        /\ op'.session = s
    <3>1. "settle" \in Steps
      BY DEF Steps
    <3> QED BY <1>1, <1>2, <1>6, <3>1, Stepped
  <2>2. record[s].published[Display] \in {s, Empty}
    BY <1>4 DEF EnvInv, Journals
  <2>3. /\ \A k \in EnvKeys : manager'[k] = IF k = Display THEN record[s].published[Display]
                                            ELSE manager[k]
        /\ EnvironsTyped'
    BY <1>1, <1>2, <1>6, <2>2 DEF EnvironsTyped, Environs, EnvValues, Two
  <2>4. Phases'
    BY <1>1, <2>1, <1>4 DEF EnvInv, Phases
  <2>5. manager'[Marker] = s /\ manager'[Dir] = manager[Dir] /\ manager'[Path] = manager[Path]
        /\ manager'[Display] = record[s].published[Display]
    BY <1>4, <2>3, Distinct DEF EnvKeys
  <2>6. Working' /\ Restores' /\ ~MidPublish'
    BY <1>1, <1>4, <2>1, <2>5 DEF Working, Restores, Doing, MidPublish
  <2>7. Cleared' /\ ComesWhole' /\ Apart' /\ Together'
    BY <1>1, <1>4, <2>2, <2>3, <2>5, <2>6, Distinct DEF EnvInv, Cleared, ComesWhole, Apart,
      Together, Nowhere, EnvKeys, Two
  <2>8. Displays'
    <3>1. ASSUME NEW t \in Two, manager'[Display] = t PROVE t = s
      BY <2>2, <2>5, <3>1, Distinct DEF Two
    <3> QED BY <1>1, <2>5, <3>1 DEF Displays, Owns
  <2>9. Owners'
    <3>1. \A t \in Two : manager'[Marker] = t => t = s
      BY <2>5
    <3> QED BY <1>1, <1>4, <2>5, <3>1 DEF EnvInv, Owners, Owns
  <2> QED BY <1>3, <2>1, <2>3, <2>4, <2>6, <2>7, <2>8, <2>9 DEF EnvInv
<1> QED BY <1>5, <1>6 DEF Environment!DisplayManager

LEMMA EnvDisplaySettles ==
  ASSUME NEW s \in Two, EnvInv, Environment!DisplaySettles(s)
  PROVE  EnvInv'
<1>1. /\ op # Free /\ op.kind = "display" /\ op.session = s /\ op.step = "settle" /\ op' = Free
      /\ record' = [record EXCEPT ![s].pending = None]
      /\ UNCHANGED <<manager, bus, shown, session, aborts, userSets, stranded>>
  BY DEF Environment!DisplaySettles, Environment!Operation
<1>2. EnvironsTyped /\ JournalsTyped /\ SessionsTyped /\ WorkTyped
  BY DEF EnvInv
<1>3. EnvironsTyped' /\ SessionsTyped' /\ WorkTyped'
  BY <1>1, <1>2 DEF EnvironsTyped, SessionsTyped, WorkTyped
<1>4. /\ record[s] # None /\ manager[Marker] = s /\ ~MidPublish /\ ~MidPublish'
      /\ manager[Display] \in {User, record[s].published[Display]}
  BY <1>1 DEF EnvInv, Phases, Working, MidPublish, Doing
<1> DEFINE r == [record[s] EXCEPT !.pending = None]
<1>5. record[s] \in Journal
  BY <1>2, <1>4 DEF JournalsTyped
<1>6. /\ r \in Journal /\ r # None /\ r.pending = None
      /\ r.published = record[s].published /\ r.previous = record[s].previous
  BY <1>5, Distinct DEF Journal
<1>7. record' = [record EXCEPT ![s] = r]
  BY <1>1
<1> HIDE DEF r
<1>8. JournalsTyped' /\ record'[s] = r /\ \A t \in Two : t # s => record'[t] = record[t]
  BY <1>2, <1>6, <1>7 DEF JournalsTyped
<1>9. Journals' /\ Phases'
  BY <1>1, <1>6, <1>8 DEF EnvInv, Journals, Phases
<1>10. Working' /\ Restores'
  BY <1>1 DEF Working, Restores, Doing
<1>11. Cleared' /\ ComesWhole' /\ Apart' /\ Together'
  BY <1>1, <1>4, <1>6, <1>8 DEF EnvInv, Cleared, ComesWhole, Apart, Together, OfSession, Nowhere
<1>12. Displays'
  <2>1. OfSession(manager[Display]) => Owns(r, Display, manager[Display])
    BY <1>4, <1>6, Distinct DEF OfSession, Owns, Two
  <2> QED BY <1>1, <1>4, <1>8, <2>1 DEF EnvInv, Displays, OfSession, Owns
<1>13. Owners'
  <2>1. manager[Display] = User \/ Owns(r, Display, manager[Display])
    BY <1>4, <1>6 DEF Owns
  <2> QED BY <1>1, <1>4, <1>8, <2>1 DEF EnvInv, Owners
<1> QED BY <1>3, <1>8, <1>9, <1>10, <1>11, <1>12, <1>13 DEF EnvInv

LEMMA EnvEnds ==
  ASSUME NEW s \in Two, EnvInv, Environment!Ends(s)
  PROVE  EnvInv'
<1> USE DEF EnvInv
<1>0. WorkTyped' /\ op' = op
  BY DEF Environment!Ends, WorkTyped
<1> USE EnvNames DEF Environment!Ends, Environment!Operation
<1>1. EnvironsTyped'
  BY DEF EnvironsTyped, JournalsTyped, Environs, Journal, EnvKeys, EnvValues, Phases, Two
<1>2. JournalsTyped' /\ SessionsTyped'
  BY DEF JournalsTyped, SessionsTyped, Journal, Two
<1> USE <1>0, Distinct
<1>3. Phases'
  BY DEF Phases, JournalsTyped, SessionsTyped, Two
<1>4. Journals'
  BY DEF Journals, JournalsTyped, Two
<1>5. Working'
  BY DEF Working, Phases, Doing, MidPublish, Cleared, Nowhere, EnvironsTyped, Environs, EnvKeys,
    EnvValues, Two
<1>6. Cleared'
  BY DEF Cleared, Nowhere, Journals, Phases, Working, Doing, MidPublish, EnvironsTyped, Environs,
    EnvKeys, Two
<1>7. ComesWhole'
  BY DEF ComesWhole, Journals, Phases, Working, Doing, MidPublish, EnvironsTyped, Environs,
    EnvKeys, Two
<1>8. Displays'
  BY DEF Displays, OfSession, Owns, Journals, Phases, Working, Cleared, Nowhere, Doing, MidPublish,
    EnvironsTyped, Environs, EnvKeys, Two
<1>9. Restores'
  BY DEF Restores, OfSession, Journals, Phases, Working, Doing, EnvironsTyped, Environs, EnvKeys,
    Two
<1>10. Owners'
  BY DEF Owners, Owns, Journals, Phases, Working, Doing, SessionsTyped, EnvironsTyped, Environs,
    EnvKeys, Two
<1>11. Apart'
  BY DEF Apart, Phases, Working, Cleared, Nowhere, SessionsTyped, EnvironsTyped, Environs,
    EnvKeys, Two
<1>12. Together'
  BY DEF Together, OfSession, Journals, Phases, EnvironsTyped, Environs, EnvKeys, Two
<1> QED BY <1>0, <1>1, <1>2, <1>3, <1>4, <1>5, <1>6, <1>7, <1>8, <1>9, <1>10, <1>11, <1>12

LEMMA EnvRetire ==
  ASSUME NEW s \in Two, EnvInv, Environment!Retire(s)
  PROVE  EnvInv'
<1> DEFINE plan == [k \in EnvKeys |-> IF Owns(record[s], k, manager[k])
                                      THEN record[s].previous[k] ELSE None]
<1>1. /\ op = Free /\ session[s] \in {"ending", "crashed"} /\ record[s] # None
      /\ IF manager[Marker] = s THEN Environment!Begin("retire", s, "bus", manager, plan)
         ELSE Environment!Begin("retire", s, "remove", manager, Environment!NoPlan)
      /\ UNCHANGED <<manager, bus, record, shown, session, aborts, userSets, stranded>>
  BY EnvNames DEF Environment!Retire
<1>2. EnvironsTyped /\ JournalsTyped /\ SessionsTyped /\ WorkTyped
  BY DEF EnvInv
<1>3. EnvironsTyped' /\ SessionsTyped' /\ JournalsTyped' /\ Journals'
  BY <1>1, <1>2 DEF EnvInv, EnvironsTyped, SessionsTyped, JournalsTyped, Journals
<1>4. record[s] \in Journal /\ \A k \in EnvKeys : record[s].previous[k] \in EnvValues \ Two
      /\ record[s].previous[Display] # Empty
  BY <1>1, <1>2 DEF JournalsTyped, Journal, Environs, EnvInv, Journals
<1>5. /\ plan \in [EnvKeys -> EnvValues \cup {None}]
      /\ Environment!NoPlan \in [EnvKeys -> EnvValues \cup {None}]
  BY <1>4, EnvNames DEF Environment!NoPlan
<1>6. \A k \in EnvKeys : plan[k] = IF Owns(record[s], k, manager[k])
                                   THEN record[s].previous[k] ELSE None
  OBVIOUS
<1> HIDE DEF plan
<1>7. "retire" \in Kinds /\ "bus" \in Steps /\ "remove" \in Steps /\ manager \in Environs
  BY <1>2 DEF Kinds, Steps, EnvironsTyped
<1>8. /\ WorkTyped' /\ op' # Free /\ op'.kind = "retire" /\ op'.session = s
      /\ \/ manager[Marker] = s /\ op'.step = "bus" /\ op'.seen = manager /\ op'.plan = plan
         \/ manager[Marker] # s /\ op'.step = "remove"
  BY <1>1, <1>5, <1>7, Began
<1>9. Phases' /\ Working'
  BY <1>1, <1>8 DEF EnvInv, Phases, Working, Doing, MidPublish
<1>10. Cleared' /\ ComesWhole' /\ Apart' /\ Together' /\ Displays' /\ Owners'
  BY <1>1, <1>8 DEF EnvInv, Cleared, ComesWhole, Apart, Together, OfSession, Displays, Owners,
    Owns, Nowhere, MidPublish, Doing
<1>11. Restores'
  <2>1. SUFFICES ASSUME manager[Marker] = s, op'.step = "bus", op'.seen = manager, op'.plan = plan
                 PROVE  Restores'
    BY <1>8 DEF Restores, Doing
  <2>2. record[s].published[Marker] = s /\ record[s].previous[Marker] = Unset
    BY <1>1 DEF EnvInv, Journals
  <2>3. plan[Marker] = Unset
    BY <1>6, <2>1, <2>2 DEF Owns, EnvKeys
  <2>4. \A k \in EnvKeys : plan[k] \notin Two
    BY <1>4, <1>6, Distinct DEF Two, EnvValues
  <2>5. ASSUME NEW k \in EnvKeys, plan[k] = None PROVE manager[k] \notin Two \ stranded
    <3>1. ~Owns(record[s], k, manager[k])
      BY <1>4, <1>6, <2>5, Distinct
    <3>2. manager[k] # s
      <4>1. CASE k = Display
        BY <2>1, <3>1, <4>1 DEF EnvInv, Displays, Apart
      <4>2. CASE k # Display
        <5>1. record[s].published[k] = s
          BY <1>1, <4>2 DEF EnvInv, Journals, EnvKeys
        <5> QED BY <3>1, <5>1 DEF Owns
      <4> QED BY <4>1, <4>2
    <3>3. ASSUME NEW t \in Two \ stranded, t # s PROVE manager[k] # t
      <4>1. ~MidPublish /\ manager[Marker] # t
        BY <1>1, <2>1, <3>3 DEF MidPublish, Doing
      <4> QED BY <4>1 DEF EnvInv, Cleared, Nowhere
    <3> QED BY <3>2, <3>3
  <2>6. plan[Display] # Empty
    BY <1>4, <1>6, Distinct DEF EnvKeys, EnvValues
  <2>7. ASSUME plan[Display] = None, OfSession(manager[Display]) PROVE plan[Dir] = None
    <3>1. ~Owns(record[s], Display, manager[Display])
      BY <1>4, <1>6, <2>7, Distinct DEF EnvKeys
    <3>2. manager[Dir] # s
      BY <2>1, <2>7, <3>1 DEF EnvInv, Displays
    <3>3. record[s].published[Dir] = s
      BY <1>1 DEF EnvInv, Journals
    <3> QED BY <1>6, <3>2, <3>3, Distinct DEF Owns, EnvKeys
  <2> QED BY <1>1, <1>8, <2>1, <2>3, <2>4, <2>5, <2>6, <2>7 DEF Restores, OfSession
<1> QED BY <1>3, <1>8, <1>9, <1>10, <1>11 DEF EnvInv

LEMMA EnvRetireBus ==
  ASSUME NEW s \in Two, EnvInv, Environment!RetireBus(s)
  PROVE  EnvInv'
<1>1. /\ op # Free /\ op.kind = "retire" /\ op.session = s /\ op.step = "bus"
      /\ Environment!Step("latest") /\ bus' = Environment!RestoredBus(s)
      /\ UNCHANGED <<manager, record, shown, session, aborts, userSets, stranded>>
  BY DEF Environment!RetireBus, Environment!Operation
<1>2. EnvironsTyped /\ JournalsTyped /\ SessionsTyped /\ WorkTyped
  BY DEF EnvInv
<1>3. SessionsTyped' /\ JournalsTyped' /\ Journals'
  BY <1>1, <1>2 DEF EnvInv, SessionsTyped, JournalsTyped, Journals
<1>4. /\ WorkTyped' /\ op' # Free /\ op'.step = "latest" /\ op'.kind = "retire"
      /\ op'.session = s /\ op'.seen = op.seen /\ op'.plan = op.plan
  <2>1. "latest" \in Steps
    BY DEF Steps
  <2> QED BY <1>1, <1>2, <2>1, Stepped
<1>5. /\ op.seen[Marker] = s /\ op.plan[Marker] = Unset /\ op.plan[Display] # Empty
      /\ op.plan[Display] = None /\ OfSession(manager[Display]) => op.plan[Dir] = None
      /\ \A k \in EnvKeys :
           /\ op.plan[k] \notin Two
           /\ op.plan[k] = None => /\ manager[k] \notin Two \ stranded
                                   /\ op.seen[k] \notin Two \ stranded
           /\ manager[k] # op.seen[k] => manager[k] = User
  BY <1>1 DEF EnvInv, Restores, Doing
<1>6. op.seen \in Environs /\ op.plan \in [EnvKeys -> EnvValues \cup {None}]
  BY <1>1, <1>2 DEF WorkTyped, Work
<1>7. bus' \in Environs /\ \A k \in EnvKeys : bus'[k] \notin Two \ stranded
  <2>1. bus' = [k \in EnvKeys |->
                 CASE op.plan[k] = Unset -> Empty
                   [] op.plan[k] = None -> IF op.seen[k] = Unset THEN Empty ELSE op.seen[k]
                   [] OTHER -> op.plan[k]]
    BY <1>1, EnvNames DEF Environment!RestoredBus
  <2>2. ASSUME NEW k \in EnvKeys
        PROVE  (CASE op.plan[k] = Unset -> Empty
                   [] op.plan[k] = None -> IF op.seen[k] = Unset THEN Empty ELSE op.seen[k]
                   [] OTHER -> op.plan[k]) \in EnvValues \ (Two \ stranded)
    <3>1. /\ op.seen[k] \in EnvValues
          /\ op.plan[k] \in EnvValues \cup {None}
          /\ Empty \in EnvValues \ Two
      BY <1>6, Distinct DEF Environs, EnvValues, Two
    <3>2. Unset # None
      BY Distinct DEF EnvValues
    <3> QED BY <1>5, <3>1, <3>2
  <2> QED BY <2>1, <2>2 DEF Environs
<1>8. EnvironsTyped' /\ Phases'
  BY <1>1, <1>2, <1>4, <1>7 DEF EnvInv, EnvironsTyped, Phases
<1>9. manager[Marker] = s
  BY <1>1 DEF EnvInv, Working
<1>10. Working' /\ ~MidPublish /\ ~MidPublish'
  BY <1>1, <1>4, <1>9 DEF Working, MidPublish, Doing
<1>11. Cleared' /\ ComesWhole' /\ Apart' /\ Together' /\ Displays'
  BY <1>1, <1>7, <1>10 DEF EnvInv, Cleared, ComesWhole, Apart, Together, OfSession, Displays,
    Owns, Nowhere
<1>12. Restores'
  BY <1>1, <1>4, <1>5, <1>7 DEF Restores, OfSession
<1>13. session[s] # "live"
  BY <1>1 DEF EnvInv, Phases
<1>14. Owners'
  BY <1>1, <1>9, <1>13 DEF Owners
<1> QED BY <1>3, <1>4, <1>8, <1>10, <1>11, <1>12, <1>14 DEF EnvInv

LEMMA EnvRetireLatest ==
  ASSUME NEW s \in Two, EnvInv, Environment!RetireLatest(s)
  PROVE  EnvInv'
<1> DEFINE plan == [k \in EnvKeys |-> IF manager[k] = op.seen[k] THEN op.plan[k] ELSE None]
           o == [op EXCEPT !.step = "replace", !.seen = manager, !.plan = plan]
<1>1. /\ op # Free /\ op.kind = "retire" /\ op.session = s /\ op.step = "latest"
      /\ UNCHANGED <<manager, bus, record, shown, session, aborts, userSets, stranded>>
  BY DEF Environment!RetireLatest, Environment!Operation
<1>2. EnvironsTyped /\ JournalsTyped /\ SessionsTyped /\ WorkTyped
  BY DEF EnvInv
<1>3. SessionsTyped' /\ JournalsTyped' /\ Journals' /\ EnvironsTyped'
  BY <1>1, <1>2 DEF EnvInv, EnvironsTyped, SessionsTyped, JournalsTyped, Journals
<1>4. manager[Marker] = s
  BY <1>1 DEF EnvInv, Working
<1>5. op \in Work
  BY <1>1, <1>2 DEF WorkTyped
<1>6. op' = o
  BY <1>1, <1>4, EnvNames DEF Environment!RetireLatest
<1>7. plan \in [EnvKeys -> EnvValues \cup {None}]
  BY <1>5 DEF Work
<1>8. \A k \in EnvKeys : plan[k] = IF manager[k] = op.seen[k] THEN op.plan[k] ELSE None
  OBVIOUS
<1> HIDE DEF plan
<1>9. /\ o \in Work /\ o.kind = "retire" /\ o.session = s /\ o.step = "replace"
      /\ o.seen = manager /\ o.plan = plan
  BY <1>1, <1>2, <1>5, <1>7 DEF Work, Steps, EnvironsTyped
<1> HIDE DEF o
<1>10. WorkTyped' /\ op' # Free
  BY <1>6, <1>9, Distinct DEF WorkTyped
<1>11. Phases' /\ Working' /\ ~MidPublish /\ ~MidPublish'
  BY <1>1, <1>4, <1>6, <1>9, <1>10 DEF EnvInv, Phases, Working, Doing, MidPublish
<1>12. Cleared' /\ ComesWhole' /\ Apart' /\ Together' /\ Displays' /\ Owners'
  BY <1>1, <1>11 DEF EnvInv, Cleared, ComesWhole, Apart, Together, OfSession, Displays, Owners,
    Owns, Nowhere
<1>13. Restores'
  <2>1. /\ op.seen[Marker] = s /\ op.plan[Marker] = Unset /\ op.plan[Display] # Empty
        /\ op.plan[Display] = None /\ OfSession(manager[Display]) => op.plan[Dir] = None
        /\ \A k \in EnvKeys :
             /\ op.plan[k] \notin Two
             /\ op.plan[k] = None => manager[k] \notin Two \ stranded
             /\ manager[k] # op.seen[k] => manager[k] = User
             /\ bus[k] \notin Two \ stranded
    BY <1>1 DEF EnvInv, Restores, Doing
  <2>2. plan[Marker] = Unset
    BY <1>4, <1>8, <2>1 DEF EnvKeys
  <2>3. \A k \in EnvKeys :
          plan[k] \notin Two /\ (plan[k] = None => manager[k] \notin Two \ stranded)
    BY <1>8, <2>1, Distinct DEF Two, EnvValues
  <2>4. /\ plan[Display] # Empty
        /\ plan[Display] = None /\ OfSession(manager[Display]) => plan[Dir] = None
    <3>1. OfSession(manager[Display]) => manager[Display] = op.seen[Display]
      BY <2>1, Distinct DEF OfSession, EnvKeys, Two
    <3>2. Empty # None
      BY Distinct DEF EnvValues
    <3> QED BY <1>8, <2>1, <3>1, <3>2 DEF EnvKeys
  <2> QED BY <1>1, <1>4, <1>6, <1>9, <2>1, <2>2, <2>3, <2>4 DEF Restores, OfSession
<1> QED BY <1>3, <1>10, <1>11, <1>12, <1>13 DEF EnvInv

LEMMA EnvRetireManager ==
  ASSUME NEW s \in Two, EnvInv, Environment!RetireManager(s)
  PROVE  EnvInv'
<1>1. /\ op # Free /\ op.kind = "retire" /\ op.session = s /\ op.step = "replace"
      /\ Environment!Step("remove")
      /\ manager' = [k \in EnvKeys |->
           CASE op.plan[k] = None -> manager[k]
             [] op.plan[k] = Unset -> IF manager[k] = op.seen[k] THEN Unset ELSE manager[k]
             [] OTHER -> op.plan[k]]
      /\ UNCHANGED <<bus, record, shown, session, aborts, userSets, stranded>>
  BY EnvNames DEF Environment!RetireManager, Environment!Operation
<1>2. EnvironsTyped /\ JournalsTyped /\ SessionsTyped /\ WorkTyped
  BY DEF EnvInv
<1>3. SessionsTyped' /\ JournalsTyped' /\ Journals'
  BY <1>1, <1>2 DEF EnvInv, SessionsTyped, JournalsTyped, Journals
<1>4. /\ WorkTyped' /\ op' # Free /\ op'.step = "remove" /\ op'.kind = "retire" /\ op'.session = s
  <2>1. "remove" \in Steps
    BY DEF Steps
  <2> QED BY <1>1, <1>2, <2>1, Stepped
<1>5. /\ op.seen[Marker] = s /\ op.plan[Marker] = Unset /\ op.plan[Display] # Empty
      /\ op.plan[Display] = None /\ OfSession(manager[Display]) => op.plan[Dir] = None
      /\ \A k \in EnvKeys :
           /\ op.plan[k] \notin Two
           /\ op.plan[k] = None => manager[k] \notin Two \ stranded
           /\ manager[k] # op.seen[k] => manager[k] = User
           /\ bus[k] \notin Two \ stranded
  BY <1>1 DEF EnvInv, Restores, Doing
<1>6. op.seen \in Environs /\ op.plan \in [EnvKeys -> EnvValues \cup {None}] /\ manager \in Environs
  BY <1>1, <1>2 DEF WorkTyped, Work, EnvironsTyped
<1>7. manager[Marker] = s
  BY <1>1 DEF EnvInv, Working
<1>8. ASSUME NEW k \in EnvKeys PROVE manager'[k] \in EnvValues \ (Two \ stranded)
  <2>1. /\ manager[k] \in EnvValues /\ op.plan[k] \in EnvValues \cup {None}
        /\ Unset \in EnvValues \ Two /\ User \in EnvValues \ Two
    BY <1>6, Distinct DEF Environs, EnvValues, Two
  <2> QED BY <1>1, <1>5, <2>1
<1>9. manager'[Marker] = Unset
  <2>1. Unset # None /\ Marker \in EnvKeys
    BY Distinct DEF EnvValues, EnvKeys
  <2> QED BY <1>1, <1>5, <1>7, <2>1
<1>10. EnvironsTyped'
  BY <1>1, <1>2, <1>8 DEF EnvironsTyped, Environs
<1>11. Phases' /\ Working'
  BY <1>1, <1>4, <1>9, Distinct DEF EnvInv, Phases, Working, Doing, MidPublish, Two
<1>12. \A t \in Two : t \in stranded' \/ Nowhere(t)'
  BY <1>1, <1>5, <1>8 DEF Nowhere
<1>13. Cleared' /\ ComesWhole' /\ Displays' /\ Owners' /\ Restores'
  BY <1>1, <1>4, <1>8, <1>9, <1>12, Distinct DEF Cleared, ComesWhole, Displays, Owners, Restores,
    Doing, EnvKeys, Two
<1>14. Apart'
  <2>1. Unset \notin stranded
    BY <1>2, Distinct DEF SessionsTyped, Two
  <2> QED BY <1>1, <1>9, <2>1 DEF EnvInv, Apart
<1>15. Together'
  <2>1. SUFFICES ASSUME OfSession(manager'[Display]) PROVE manager'[Dir] \in Two
    BY DEF Together, OfSession
  <2>2. Display \in EnvKeys /\ Dir \in EnvKeys /\ Unset # None
    BY Distinct DEF EnvKeys, EnvValues
  <2>3. ~OfSession(Unset) /\ ~OfSession(User) /\ ~OfSession(op.plan[Display])
    BY <1>5, <2>2, Distinct DEF OfSession, Two
  <2>4. op.plan[Display] = None /\ manager'[Display] = manager[Display]
    BY <1>1, <1>5, <2>1, <2>2, <2>3
  <2>5. manager'[Dir] = manager[Dir]
    BY <1>1, <1>5, <2>1, <2>2, <2>4
  <2> QED BY <2>1, <2>4, <2>5 DEF EnvInv, Together
<1> QED BY <1>3, <1>4, <1>10, <1>11, <1>13, <1>14, <1>15 DEF EnvInv

LEMMA EnvRemoveRecord ==
  ASSUME NEW s \in Two, EnvInv, Environment!RemoveRecord(s)
  PROVE  EnvInv'
<1> USE DEF EnvInv
<1>0. WorkTyped' /\ op' = Free
  BY DEF Environment!RemoveRecord, WorkTyped
<1> USE EnvNames DEF Environment!RemoveRecord, Environment!Operation
<1>1. EnvironsTyped'
  BY DEF EnvironsTyped, JournalsTyped, Environs, Journal, EnvKeys, EnvValues, Phases, Two
<1>2. JournalsTyped' /\ SessionsTyped'
  BY DEF JournalsTyped, SessionsTyped, Journal, Two
<1> USE <1>0, Distinct
<1>3. Phases'
  BY DEF Phases, JournalsTyped, SessionsTyped, Two
<1>4. Journals'
  BY DEF Journals, JournalsTyped, Two
<1>5. Working'
  BY DEF Working, Phases, Doing, MidPublish, Cleared, Nowhere, EnvironsTyped, Environs, EnvKeys,
    EnvValues, Two
<1>6. Cleared'
  BY DEF Cleared, Nowhere, Journals, Phases, Working, Doing, MidPublish, EnvironsTyped, Environs,
    EnvKeys, Two
<1>7. ComesWhole'
  BY DEF ComesWhole, Journals, Phases, Working, Doing, MidPublish, EnvironsTyped, Environs,
    EnvKeys, Two
<1>8. Displays'
  BY DEF Displays, OfSession, Owns, Journals, Phases, Working, Cleared, Nowhere, Doing, MidPublish,
    EnvironsTyped, Environs, EnvKeys, Two
<1>9. Restores'
  BY DEF Restores, OfSession, Journals, Phases, Working, Doing, EnvironsTyped, Environs, EnvKeys,
    Two
<1>10. Owners'
  BY DEF Owners, Owns, Journals, Phases, Working, Doing, SessionsTyped, EnvironsTyped, Environs,
    EnvKeys, Two
<1>11. Apart'
  BY DEF Apart, Phases, Working, Cleared, Nowhere, SessionsTyped, EnvironsTyped, Environs,
    EnvKeys, Two
<1>12. Together'
  BY DEF Together, OfSession, Journals, Phases, EnvironsTyped, Environs, EnvKeys, Two
<1> QED BY <1>0, <1>1, <1>2, <1>3, <1>4, <1>5, <1>6, <1>7, <1>8, <1>9, <1>10, <1>11, <1>12

LEMMA EnvGone ==
  ASSUME NEW s \in Two, EnvInv, Environment!Gone(s)
  PROVE  EnvInv'
<1> USE DEF EnvInv
<1>0. WorkTyped' /\ op' = op
  BY DEF Environment!Gone, WorkTyped
<1> USE EnvNames DEF Environment!Gone, Environment!Operation
<1>1. EnvironsTyped'
  BY DEF EnvironsTyped, JournalsTyped, Environs, Journal, EnvKeys, EnvValues, Phases, Two
<1>2. JournalsTyped' /\ SessionsTyped'
  BY DEF JournalsTyped, SessionsTyped, Journal, Two
<1> USE <1>0, Distinct
<1>3. Phases'
  BY DEF Phases, JournalsTyped, SessionsTyped, Two
<1>4. Journals'
  BY DEF Journals, JournalsTyped, Two
<1>5. Working'
  BY DEF Working, Phases, Doing, MidPublish, Cleared, Nowhere, EnvironsTyped, Environs, EnvKeys,
    EnvValues, Two
<1>6. Cleared'
  BY DEF Cleared, Nowhere, Journals, Phases, Working, Doing, MidPublish, EnvironsTyped, Environs,
    EnvKeys, Two
<1>7. ComesWhole'
  BY DEF ComesWhole, Journals, Phases, Working, Doing, MidPublish, EnvironsTyped, Environs,
    EnvKeys, Two
<1>8. Displays'
  BY DEF Displays, OfSession, Owns, Journals, Phases, Working, Cleared, Nowhere, Doing, MidPublish,
    EnvironsTyped, Environs, EnvKeys, Two
<1>9. Restores'
  BY DEF Restores, OfSession, Journals, Phases, Working, Doing, EnvironsTyped, Environs, EnvKeys,
    Two
<1>10. Owners'
  BY DEF Owners, Owns, Journals, Phases, Working, Doing, SessionsTyped, EnvironsTyped, Environs,
    EnvKeys, Two
<1>11. Apart'
  BY DEF Apart, Phases, Working, Cleared, Nowhere, SessionsTyped, EnvironsTyped, Environs,
    EnvKeys, Two
<1>12. Together'
  BY DEF Together, OfSession, Journals, Phases, EnvironsTyped, Environs, EnvKeys, Two
<1> QED BY <1>0, <1>1, <1>2, <1>3, <1>4, <1>5, <1>6, <1>7, <1>8, <1>9, <1>10, <1>11, <1>12

LEMMA EnvAbort ==
  ASSUME EnvInv, Environment!Abort
  PROVE  EnvInv'
<1> USE DEF EnvInv
<1>0. WorkTyped' /\ op' = Free
  BY DEF Environment!Abort, WorkTyped
<1> USE EnvNames DEF Environment!Abort, Environment!Operation
<1>1. EnvironsTyped'
  BY DEF EnvironsTyped, JournalsTyped, Environs, Journal, EnvKeys, EnvValues, Phases, Two
<1>2. JournalsTyped' /\ SessionsTyped'
  <2>1. aborts' \in 0..MaxDisturbances
    BY EnvironmentAssumption DEF SessionsTyped, Environment!Disturbance
  <2>2. session' \in [Two -> {"starting", "publishing", "live", "ending", "crashed", "gone"}]
    BY DEF SessionsTyped
  <2>3. stranded' \in SUBSET Two
    BY DEF SessionsTyped, Two
  <2> QED BY <2>1, <2>2, <2>3 DEF JournalsTyped, SessionsTyped
<1>a. /\ stranded \subseteq stranded'
      /\ MidPublish => \A t \in Two \ {op.session} : t \in stranded' \/ Nowhere(t)
  BY DEF MidPublish, Doing, Nowhere, Two
<1> USE <1>0, Distinct
<1>3. Phases'
  BY DEF Phases, JournalsTyped, SessionsTyped, Two
<1>4. Journals'
  BY DEF Journals, JournalsTyped, Two
<1>5. Working'
  BY DEF Working, Phases, Doing, MidPublish, Cleared, Nowhere, EnvironsTyped, Environs, EnvKeys,
    EnvValues, Two
<1>6. Cleared'
  <2>1. MidPublish => manager[Marker] = op.session
    BY DEF Working, MidPublish, Doing
  <2> QED BY <1>a, <2>1 DEF Cleared, Nowhere
<1>7. ComesWhole'
  <2>1. SUFFICES ASSUME MidPublish, NEW s \in Two, manager[Marker] = s,
                        \A t \in Two : t # s => t \notin stranded'
                 PROVE  \A k \in {Dir, Path, Display} : manager[k] \notin Two
    BY <1>a DEF ComesWhole
  <2>2. op.session = s /\ \A k \in {Dir, Path, Display} : manager[k] # s
    BY <2>1 DEF Working, MidPublish, Doing
  <2> QED BY <1>a, <2>1, <2>2 DEF Nowhere, EnvKeys
<1>8. Displays'
  BY DEF Displays, OfSession, Owns, Journals, Phases, Working, Cleared, Nowhere, Doing, MidPublish,
    EnvironsTyped, Environs, EnvKeys, Two
<1>9. Restores'
  BY DEF Restores, OfSession, Journals, Phases, Working, Doing, EnvironsTyped, Environs, EnvKeys,
    Two
<1>10. Owners'
  BY DEF Owners, Owns, Journals, Phases, Working, Doing, SessionsTyped, EnvironsTyped, Environs,
    EnvKeys, Two
<1>11. Apart'
  <2>1. CASE stranded' = stranded
    BY <2>1 DEF Apart, Phases, SessionsTyped, Two
  <2>2. CASE stranded' # stranded
    <3>1. /\ op.kind = "publish" /\ op.step # "claim" /\ op.session \in Two
          /\ stranded' = stranded \cup {t \in Two \ {op.session} : ~Nowhere(t)}
          /\ session[op.session] = "publishing"
      BY <2>2 DEF WorkTyped, Work, Phases, Nowhere, Two
    <3>2. stranded = {} /\ manager[Marker] = op.session
      BY <3>1 DEF Apart, Working, Phases
    <3>3. PICK t \in Two \ {op.session} : t \in stranded' /\ ~Nowhere(t)
      BY <2>2, <3>1, <3>2
    <3>4. session'[op.session] \in {"ending", "crashed"} /\ session'[t] = session[t]
      BY <3>1 DEF SessionsTyped
    <3>5. session[t] \notin {"starting", "publishing"}
      BY <3>2, <3>3 DEF Cleared, Phases
    <3>6. \A u \in Two : u \in {op.session, t}
      BY <3>1, <3>3 DEF Two
    <3> QED BY <3>1, <3>2, <3>4, <3>5, <3>6 DEF Apart
  <2> QED BY <2>1, <2>2
<1>12. Together'
  BY DEF Together, OfSession, Journals, Phases, EnvironsTyped, Environs, EnvKeys, Two
<1> QED BY <1>0, <1>1, <1>2, <1>3, <1>4, <1>5, <1>6, <1>7, <1>8, <1>9, <1>10, <1>11, <1>12

LEMMA EnvCrash ==
  ASSUME NEW s \in Two, EnvInv, Environment!Crash(s)
  PROVE  EnvInv'
<1> USE DEF EnvInv
<1>0. WorkTyped' /\ op' = op
  BY DEF Environment!Crash, WorkTyped
<1> USE EnvNames DEF Environment!Crash, Environment!Operation
<1>1. EnvironsTyped'
  BY DEF EnvironsTyped, JournalsTyped, Environs, Journal, EnvKeys, EnvValues, Phases, Two
<1>2. JournalsTyped' /\ SessionsTyped'
  <2>1. aborts' \in 0..MaxDisturbances
    BY EnvironmentAssumption DEF SessionsTyped, Environment!Disturbance
  <2>2. session' \in [Two -> {"starting", "publishing", "live", "ending", "crashed", "gone"}]
    BY DEF SessionsTyped
  <2> QED BY <2>1, <2>2 DEF JournalsTyped, SessionsTyped
<1> USE <1>0, Distinct
<1>3. Phases'
  BY DEF Phases, JournalsTyped, SessionsTyped, Two
<1>4. Journals'
  BY DEF Journals, JournalsTyped, Two
<1>5. Working'
  BY DEF Working, Phases, Doing, MidPublish, Cleared, Nowhere, EnvironsTyped, Environs, EnvKeys,
    EnvValues, Two
<1>6. Cleared'
  BY DEF Cleared, Nowhere, Journals, Phases, Working, Doing, MidPublish, EnvironsTyped, Environs,
    EnvKeys, Two
<1>7. ComesWhole'
  BY DEF ComesWhole, MidPublish, Doing
<1>8. Displays'
  BY DEF Displays, OfSession, Owns, Journals, Phases, Working, Cleared, Nowhere, Doing, MidPublish,
    EnvironsTyped, Environs, EnvKeys, Two
<1>9. Restores'
  BY DEF Restores, OfSession, Journals, Phases, Working, Doing, EnvironsTyped, Environs, EnvKeys,
    Two
<1>10. Owners'
  BY DEF Owners, Owns, Journals, Phases, Working, Doing, SessionsTyped, EnvironsTyped, Environs,
    EnvKeys, Two
<1>11. Apart'
  BY DEF Apart, Phases, Working, Cleared, Nowhere, SessionsTyped, EnvironsTyped, Environs,
    EnvKeys, Two
<1>12. Together'
  BY DEF Together, OfSession, Journals, Phases, EnvironsTyped, Environs, EnvKeys, Two
<1> QED BY <1>0, <1>1, <1>2, <1>3, <1>4, <1>5, <1>6, <1>7, <1>8, <1>9, <1>10, <1>11, <1>12

LEMMA EnvUserSets ==
  ASSUME NEW k \in {Path, Display}, EnvInv, Environment!UserSets(k)
  PROVE  EnvInv'
<1> USE DEF EnvInv
<1>0. WorkTyped' /\ op' = op
  BY DEF Environment!UserSets, WorkTyped
<1> USE EnvNames DEF Environment!UserSets, Environment!Operation
<1>1. EnvironsTyped'
  BY DEF EnvironsTyped, JournalsTyped, Environs, Journal, EnvKeys, EnvValues, Phases, Two
<1>2. JournalsTyped' /\ SessionsTyped'
  <2>1. userSets' \in 0..MaxUserSets
    BY EnvironmentAssumption DEF SessionsTyped
  <2> QED BY <2>1 DEF JournalsTyped, SessionsTyped
<1> USE <1>0, Distinct
<1>3. Phases'
  BY DEF Phases, JournalsTyped, SessionsTyped, Two
<1>4. Journals'
  BY DEF Journals, JournalsTyped, Two
<1>5. Working'
  <2>1. /\ \A k2 \in EnvKeys : manager'[k2] = IF k2 = k THEN User ELSE manager[k2]
        /\ manager'[Marker] = manager[Marker] /\ User \notin Two
    BY DEF EnvironsTyped, Environs, EnvKeys, Two
  <2>2. /\ \A t \in Two : Nowhere(t) => Nowhere(t)'
        /\ \A t \in Two, k2 \in EnvKeys : manager[k2] # t => manager'[k2] # t
    BY <2>1 DEF Nowhere
  <2>3. op # Free => op.session \in Two
    BY DEF WorkTyped, Work
  <2>4. bus' = bus /\ record' = record /\ manager'[Display] \in {User, manager[Display]}
    BY <2>1 DEF EnvKeys
  <2> QED BY <2>1, <2>2, <2>3, <2>4 DEF Working, Doing, MidPublish, EnvKeys
<1>6. Cleared'
  BY DEF Cleared, Nowhere, Journals, Phases, Working, Doing, MidPublish, EnvironsTyped, Environs,
    EnvKeys, Two
<1>7. ComesWhole'
  BY DEF ComesWhole, Journals, Phases, Working, Doing, MidPublish, EnvironsTyped, Environs,
    EnvKeys, Two
<1>8. Displays'
  BY DEF Displays, OfSession, Owns, Journals, Phases, Working, Cleared, Nowhere, Doing, MidPublish,
    EnvironsTyped, Environs, EnvKeys, Two
<1>9. Restores'
  BY DEF Restores, OfSession, Journals, Phases, Working, Doing, EnvironsTyped, Environs, EnvKeys,
    Two
<1>10. Owners'
  BY DEF Owners, Owns, Journals, Phases, Working, Doing, SessionsTyped, EnvironsTyped, Environs,
    EnvKeys, Two
<1>11. Apart'
  BY DEF Apart, Phases, Working, Cleared, Nowhere, SessionsTyped, EnvironsTyped, Environs,
    EnvKeys, Two
<1>12. Together'
  BY DEF Together, OfSession, Journals, Phases, EnvironsTyped, Environs, EnvKeys, Two
<1> QED BY <1>0, <1>1, <1>2, <1>3, <1>4, <1>5, <1>6, <1>7, <1>8, <1>9, <1>10, <1>11, <1>12

-----------------------------------------------------------------------------
\* A step that moves nothing.
LEMMA ScopeStutter ==
  ASSUME ScopeInv, UNCHANGED scopeVars PROVE ScopeInv'
<1> USE DEF scopeVars, ScopeInv
<1>1. FlagsTyped' /\ UnitsTyped' /\ CleanersTyped'
  BY DEF FlagsTyped, UnitsTyped, CleanersTyped
<1>2. LivesInOrder' /\ ScopesRecorded' /\ ServiceGuarded'
  BY DEF LivesInOrder, ScopesRecorded, ServiceGuarded, Scoped!At, Scoped!SupervisorGone
<1>3. ASSUME NEW c \in Scoped!Cleaners PROVE Listed(c)' /\ Checked(c)'
  BY <1>3 DEF Listed, Checked, Walked, Barred, Scoped!At
<1> QED BY <1>1, <1>2, <1>3

LEMMA ScopeStep ==
  ASSUME ScopeInv, Scoped!Next PROVE ScopeInv'
<1>1. CASE Scoped!Supervise
  <2>1. "supervisor" \in Scoped!Cleaners
    BY DEF Scoped!Cleaners
  <2> QED BY <1>1, <2>1, ScopeStart, ScopeOwned, ScopeShutdown, ScopeFinish, ScopeMark, ScopeRead,
    ScopeShow, ScopeStop, ScopeStopReturns, ScopeWait DEF Scoped!Supervise, Scoped!BarrierStep
<1>2. CASE Scoped!Clean
  <2>1. "login guard" \in Scoped!Cleaners
    BY DEF Scoped!Cleaners
  <2> QED BY <1>2, <2>1, ScopeLoginEnds, ScopeLoginCleans, ScopeMark, ScopeRead, ScopeShow,
    ScopeStop,
    ScopeStopReturns, ScopeWait DEF Scoped!Clean, Scoped!BarrierStep
<1>3. CASE Scoped!Guard
  BY <1>3, ScopeGuardLooks, ScopeGuardPolls, ScopeGuardLeaves DEF Scoped!Guard
<1>4. ASSUME NEW x \in Scoped!Scopes,
  Scoped!Launch(x) \/ Scoped!StartScope(x) \/ Scoped!ScopeEnds(x)
      PROVE  ScopeInv'
  BY <1>4, ScopeCheck, ScopeRecord, ScopeAsk, ScopeRecordSnap, ScopeAskSnap, ScopeStartScope,
    ScopeScopeEnds DEF Scoped!Launch
<1>5. CASE Scoped!StartOwner \/ Scoped!OwnerStopped \/ Scoped!Collect
  BY <1>5, ScopeStartOwner, ScopeOwnerStopped, ScopeCollect
<1>6. CASE \/ Scoped!SupervisorDies \/ Scoped!GuardDies
           \/ \E c \in Scoped!Cleaners : Scoped!BarrierFails(c)
  BY <1>6, ScopeSupervisorDies, ScopeGuardDies, ScopeBarrierFails
<1> QED BY <1>1, <1>2, <1>3, <1>4, <1>5, <1>6 DEF Scoped!Next

LEMMA EnvStutter ==
  ASSUME EnvInv, UNCHANGED environment PROVE EnvInv'
BY DEF environment, EnvInv, EnvironsTyped, JournalsTyped, SessionsTyped, WorkTyped, Journals,
  Phases,
  Working, Apart, Cleared, ComesWhole, Together, OfSession, Displays, Restores, Owners, Owns,
  Nowhere, Doing, MidPublish

LEMMA EnvStep ==
  ASSUME EnvInv, Environment!Next
  PROVE  EnvInv'
<1>1. ASSUME NEW s \in Two,
             Environment!Record(s) \/ Environment!PublishStep(s) \/ Environment!DisplayStep(s)
      PROVE  EnvInv'
  BY <1>1, EnvRecord, EnvClaim, EnvPublishBus, EnvPublishManager, EnvVerify, EnvDisplayBus,
    EnvDisplayManager, EnvDisplaySettles DEF Environment!PublishStep, Environment!DisplayStep
<1>2. ASSUME NEW s \in Two, Environment!RetireStep(s) PROVE EnvInv'
  BY <1>2, EnvRetire, EnvRetireBus, EnvRetireLatest, EnvRetireManager, EnvRemoveRecord
    DEF Environment!RetireStep
<1>3. ASSUME NEW s \in Two, \E d \in {Empty, s} : Environment!DisplayChanges(s, d) PROVE EnvInv'
  BY <1>3, EnvDisplayChanges
<1>4. ASSUME NEW s \in Two, Environment!Ends(s) \/ Environment!Gone(s) \/ Environment!Crash(s)
      PROVE  EnvInv'
  BY <1>4, EnvEnds, EnvGone, EnvCrash
<1>5. CASE Environment!Abort
  BY <1>5, EnvAbort
<1>6. CASE \E k \in {Path, Display} : Environment!UserSets(k)
  BY <1>6, EnvUserSets
<1> QED BY <1>1, <1>2, <1>3, <1>4, <1>5, <1>6 DEF Environment!Next, Two, Environment!Own

\* A service that is being watched, or a scope that runs and has not been started anew, is not
\* left when a cleaner has done its work, whatever launchers, the manager and failures do
\* meanwhile.
THEOREM ScopesBarred == Scoped!Spec => [](Scoped!TypeOK /\ Scoped!BarrierHolds)
<1>1. Scoped!Init => ScopeInv
  BY ScopeInvInit
<1>2. ScopeInv /\ [Scoped!Next]_(Scoped!vars) => ScopeInv'
  <2>1. UNCHANGED Scoped!vars => UNCHANGED scopeVars
    BY DEF Scoped!vars, Scoped!files, Scoped!units, scopeVars
  <2> QED BY <2>1, ScopeStep, ScopeStutter
<1>3. ScopeInv => Scoped!TypeOK /\ Scoped!BarrierHolds
  BY ScopeInvHolds
<1> QED BY <1>1, <1>2, <1>3, PTL DEF Scoped!Spec

\* What a session must not leave behind: no scope outlives the barrier but one the manager has
\* just started anew; nothing published names a session that has gone, unless another's
\* publication was cut short over it; and the values of the owner stay, or are the user's,
\* whoever else comes and goes.  For two sessions, and any number of failures and deaths.
THEOREM RemainsAreOwned == RemainsSpec => []RemainsOwned
<1>1. RemainsInit => ScopeInv /\ EnvInv
  BY ScopeInvInit, EnvInvInit DEF RemainsInit
<1>2. ScopeInv /\ EnvInv /\ [RemainsNext]_<<scopeVars, environment, side>>
      => ScopeInv' /\ EnvInv'
  BY ScopeStep, ScopeStutter, EnvStep, EnvStutter DEF RemainsNext
<1>3. ScopeInv /\ EnvInv => RemainsOwned
  BY ScopeInvHolds, EnvInvHolds DEF RemainsOwned
<1> QED BY <1>1, <1>2, <1>3, PTL DEF RemainsSpec
==============================================================================

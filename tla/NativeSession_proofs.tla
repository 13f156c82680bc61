------------------------ MODULE NativeSession_proofs -------------------------
(***************************************************************************)
(* Proofs about the session lock of both backends, for any outputs,        *)
(* lockers and bounds: first what the barrier's operators return and       *)
(* change, then NativeSession, and last HeadlessSession.                   *)
(*                                                                         *)
(* The inductive invariant Inv of NativeSession has four parts: how old    *)
(* the frames and events can be (Tags), what a counted presentation says   *)
(* of its screen (Counted), how devices, publication and availability      *)
(* agree (Topology), and who has been told what (Protocol).  The argument  *)
(* is that a generation is never reused: once a frame of the current       *)
(* generation has flipped on an output nothing older can be queued behind  *)
(* it, and every event that puts another picture there also raises the     *)
(* generation.                                                             *)
(***************************************************************************)
EXTENDS MCSessionLock, TLAPS

-----------------------------------------------------------------------------
(* Setting one field of a barrier gives a barrier.                         *)

LEMMA SetGeneration ==
  ASSUME NEW b \in Barriers, NEW v \in Nat
  PROVE  [b EXCEPT !.generation = v] \in Barriers
BY DEF Barriers

LEMMA SetActive ==
  ASSUME NEW b \in Barriers, NEW v \in BOOLEAN
  PROVE  [b EXCEPT !.active = v] \in Barriers
BY DEF Barriers

LEMMA SetUnavailable ==
  ASSUME NEW b \in Barriers, NEW v \in BOOLEAN
  PROVE  [b EXCEPT !.outputsUnavailable = v] \in Barriers
BY DEF Barriers

LEMMA SetOutputs ==
  ASSUME NEW b \in Barriers, NEW v \in SUBSET Outputs
  PROVE  [b EXCEPT !.outputs = v] \in Barriers
BY DEF Barriers

LEMMA SetPresented ==
  ASSUME NEW b \in Barriers, NEW v \in SUBSET Outputs
  PROVE  [b EXCEPT !.presented = v] \in Barriers
BY DEF Barriers

-----------------------------------------------------------------------------
(* A well-formed barrier: what the methods maintain.                       *)

GoodBarrier(b) ==
  /\ b \in Barriers
  /\ b.presented \subseteq b.outputs
  /\ b.active => b.generation > 0

\* From b to c the barrier only lost presentations, and lost all of them if
\* its generation changed; it neither armed nor disarmed.
Fades(b, c) ==
  /\ c.active = b.active
  /\ \/ c.generation = b.generation /\ c.presented \subseteq b.presented
     \/ c.generation > b.generation /\ c.presented = {}

LEMMA FadesTransitive ==
  ASSUME NEW b \in Barriers, NEW c \in Barriers, NEW d \in Barriers,
         Fades(b, c), Fades(c, d)
  PROVE  /\ Fades(b, d)
         /\ c.generation > b.generation => d.generation > b.generation
         /\ d.generation > c.generation => d.generation > b.generation
BY DEF Fades, Barriers

LEMMA NewBarrierGood ==
  /\ GoodBarrier(NewBarrier)
  /\ ~NewBarrier.active /\ NewBarrier.generation = 0
  /\ NewBarrier.outputs = {} /\ NewBarrier.presented = {}
BY DEF GoodBarrier, NewBarrier, Barriers

LEMMA BeginFacts ==
  ASSUME NEW b, GoodBarrier(b), NEW outs \in SUBSET Outputs
  PROVE  LET c == Begin(b, outs) IN
         /\ GoodBarrier(c)
         /\ c.active
         /\ c.generation = b.generation + 1
         /\ c.outputs = outs
         /\ c.presented = {}
         /\ c.outputsUnavailable = b.outputsUnavailable
<1> DEFINE d == [b EXCEPT !.generation = @ + 1]
           e == [d EXCEPT !.active = TRUE]
           f == [e EXCEPT !.outputs = outs]
<1>1. b \in Barriers
  BY DEF GoodBarrier
<1>2. d \in Barriers
  BY <1>1, SetGeneration DEF Barriers
<1>3. e \in Barriers
  BY <1>2, SetActive
<1>4. f \in Barriers
  BY <1>3, SetOutputs
<1>5. [f EXCEPT !.presented = {}] \in Barriers
  BY <1>4, SetPresented
<1>6. Begin(b, outs) \in Barriers
  BY <1>5 DEF Begin
<1>7. /\ Begin(b, outs).active
      /\ Begin(b, outs).generation = b.generation + 1
      /\ Begin(b, outs).outputs = outs
      /\ Begin(b, outs).presented = {}
      /\ Begin(b, outs).outputsUnavailable = b.outputsUnavailable
  BY <1>1 DEF Begin, Barriers
<1>8. b.generation \in Nat
  BY <1>1 DEF Barriers
<1> QED BY <1>6, <1>7, <1>8 DEF GoodBarrier

LEMMA InvalidateFades ==
  ASSUME NEW b, GoodBarrier(b)
  PROVE  LET c == Invalidate(b) IN
         /\ GoodBarrier(c)
         /\ Fades(b, c)
         /\ b.active => c.generation > b.generation
         /\ c.outputs = b.outputs
         /\ c.outputsUnavailable = b.outputsUnavailable
<1> DEFINE d == [b EXCEPT !.generation = @ + 1]
           c == [b EXCEPT !.generation = @ + 1, !.presented = {}]
<1>1. b \in Barriers /\ b.generation \in Nat
  BY DEF GoodBarrier, Barriers
<1>2. d \in Barriers
  BY <1>1, SetGeneration
<1>3. [d EXCEPT !.presented = {}] \in Barriers
  BY <1>2, SetPresented
<1>4. c \in Barriers
  BY <1>3
<1>5. /\ c.generation = b.generation + 1 /\ c.presented = {}
      /\ c.active = b.active /\ c.outputs = b.outputs
      /\ c.outputsUnavailable = b.outputsUnavailable
  BY <1>1 DEF Barriers
<1>6. Invalidate(b) = IF b.active THEN c ELSE b
  BY DEF Invalidate
<1> HIDE DEF c, d
<1> QED BY <1>1, <1>4, <1>5, <1>6 DEF GoodBarrier, Fades

LEMMA AvailabilityFades ==
  ASSUME NEW b, GoodBarrier(b), NEW available \in BOOLEAN
  PROVE  LET c == SetOutputsAvailable(b, available) IN
         /\ GoodBarrier(c)
         /\ Fades(b, c)
         /\ c.outputs = b.outputs
         /\ c.outputsUnavailable = ~available
<1> DEFINE k == IF ~available /\ ~b.outputsUnavailable THEN Invalidate(b) ELSE b
           c == [k EXCEPT !.outputsUnavailable = ~available]
<1>1. GoodBarrier(k) /\ Fades(b, k) /\ k.outputs = b.outputs
  BY InvalidateFades DEF GoodBarrier, Fades, Barriers
<1>2. SetOutputsAvailable(b, available) = c
  BY DEF SetOutputsAvailable
<1> HIDE DEF k
<1>3. c \in Barriers
  BY <1>1, SetUnavailable DEF GoodBarrier
<1>4. /\ c.generation = k.generation /\ c.presented = k.presented
      /\ c.active = k.active /\ c.outputs = k.outputs
      /\ c.outputsUnavailable = ~available
  BY <1>1 DEF GoodBarrier, Barriers
<1> HIDE DEF c
<1> QED BY <1>1, <1>2, <1>3, <1>4 DEF GoodBarrier, Fades

LEMMA UpdateFades ==
  ASSUME NEW b, GoodBarrier(b), NEW outs \in SUBSET Outputs
  PROVE  LET c == UpdateOutputs(b, outs) IN
         /\ GoodBarrier(c)
         /\ Fades(b, c)
         /\ c.generation = b.generation
         /\ c.outputs = outs
         /\ c.outputsUnavailable = b.outputsUnavailable
<1> DEFINE f == [b EXCEPT !.outputs = outs]
<1>1. b \in Barriers
  BY DEF GoodBarrier
<1>2. f \in Barriers
  BY <1>1, SetOutputs
<1>3. b.presented \cap outs \in SUBSET Outputs
  OBVIOUS
<1>4. [f EXCEPT !.presented = b.presented \cap outs] \in Barriers
  BY <1>2, <1>3, SetPresented
<1>5. UpdateOutputs(b, outs) = [f EXCEPT !.presented = b.presented \cap outs]
  BY <1>1 DEF UpdateOutputs, Barriers
<1>6. /\ UpdateOutputs(b, outs).generation = b.generation
      /\ UpdateOutputs(b, outs).active = b.active
      /\ UpdateOutputs(b, outs).outputs = outs
      /\ UpdateOutputs(b, outs).presented = b.presented \cap outs
      /\ UpdateOutputs(b, outs).outputsUnavailable = b.outputsUnavailable
  BY <1>1 DEF UpdateOutputs, Barriers
<1> QED BY <1>4, <1>5, <1>6 DEF GoodBarrier, Fades

LEMMA PresentedFacts ==
  ASSUME NEW b, GoodBarrier(b), NEW o \in Outputs, NEW g \in Nat
  PROVE  LET c == Presented(b, o, g) IN
         /\ GoodBarrier(c)
         /\ c.active = b.active /\ c.generation = b.generation
         /\ c.outputs = b.outputs
         /\ c.outputsUnavailable = b.outputsUnavailable
         /\ \/ c.presented = b.presented
            \/ /\ c.presented = b.presented \cup {o}
               /\ b.active /\ g = b.generation /\ o \in b.outputs
<1> DEFINE d == [b EXCEPT !.presented = b.presented \cup {o}]
<1>1. b \in Barriers
  BY DEF GoodBarrier
<1>2. b.presented \cup {o} \in SUBSET Outputs
  BY <1>1 DEF Barriers
<1>3. d \in Barriers
  BY <1>1, <1>2, SetPresented
<1>4. /\ d.generation = b.generation /\ d.active = b.active
      /\ d.outputs = b.outputs /\ d.presented = b.presented \cup {o}
      /\ d.outputsUnavailable = b.outputsUnavailable
  BY <1>1 DEF Barriers
<1>5. Presented(b, o, g) =
        IF b.active /\ b.generation = g /\ o \in b.outputs THEN d ELSE b
  BY DEF Presented
<1> HIDE DEF d
<1> QED BY <1>1, <1>3, <1>4, <1>5 DEF GoodBarrier

LEMMA UnlockFacts ==
  ASSUME NEW b, GoodBarrier(b)
  PROVE  LET c == Unlock(b) IN
         /\ GoodBarrier(c)
         /\ ~c.active
         /\ c.generation = b.generation
         /\ c.presented = {}
         /\ c.outputsUnavailable = b.outputsUnavailable
<1> DEFINE e == [b EXCEPT !.active = FALSE]
           f == [e EXCEPT !.outputs = {}]
<1>1. b \in Barriers
  BY DEF GoodBarrier
<1>2. e \in Barriers
  BY <1>1, SetActive
<1>3. f \in Barriers
  BY <1>2, SetOutputs
<1>4. [f EXCEPT !.presented = {}] \in Barriers
  BY <1>3, SetPresented
<1>5. Unlock(b) \in Barriers
  BY <1>4 DEF Unlock
<1>6. /\ ~Unlock(b).active /\ Unlock(b).generation = b.generation
      /\ Unlock(b).presented = {} /\ Unlock(b).outputs = {}
      /\ Unlock(b).outputsUnavailable = b.outputsUnavailable
  BY <1>1 DEF Unlock, Barriers
<1> QED BY <1>5, <1>6 DEF GoodBarrier

-----------------------------------------------------------------------------
(* NativeSession. *)

\* Nothing is tagged with a generation that has not begun.
Tags ==
  /\ lockGeneration =< barrier.generation
  /\ \A o \in Outputs : kms[o] =< barrier.generation
  /\ \A o \in Outputs : glass[o] =< barrier.generation
  /\ \A e \in events : 0 < e[2] /\ e[2] =< barrier.generation

\* A presentation of the current generation, counted or on its way to the
\* event loop, is still on its screen, and nothing older is behind it.
CountedAt(o) ==
  /\ o \in published
  /\ lockGeneration = barrier.generation
  /\ glass[o] = barrier.generation
  /\ kms[o] \in {NoFrame, barrier.generation}

Counted ==
  SessionLocked =>
    \A o \in Outputs :
      (o \in barrier.presented \/ <<o, barrier.generation>> \in events) => CountedAt(o)

Topology ==
  /\ SessionLocked => barrier.outputs = published
  /\ barrier.outputsUnavailable = ~NativeOutputsReady(seatActive, dev)
  /\ \A o \in Outputs :
       /\ dev[o] \in Scanout => o \in published
       /\ ~seatActive => dev[o] \in {"absent", "down"}
       /\ dev[o] = "absent" => glass[o] = Blank /\ kms[o] = NoFrame
       /\ scene[o] => dev[o] \in Scanout

Protocol ==
  /\ sleepPrepared => SessionLocked
  /\ ~SessionLocked => owner = None /\ ~awaitingLocker
  /\ awaitingLocker => owner = None
  /\ owner = None => pending = None /\ lockStatus = None
  /\ pending # None => /\ owner = pending /\ lockStatus = None
                       /\ client[pending] \in {"waiting", "gone"}
  /\ lockStatus # None => Sealed
  /\ \A c \in Clients :
       /\ client[c] = "locked" => lockStatus = c
       /\ lockStatus = c => client[c] = "locked" /\ owner = c

Base == GoodBarrier(barrier) /\ Tags /\ Counted /\ Topology

Inv == TypeOK /\ Base /\ Protocol

\* A step that neither arms nor drops the shield and changes no owner: at most
\* the pending locker is answered (once sealed) and a sleep preparation ended.
Quiet ==
  /\ SessionLocked' = SessionLocked
  /\ UNCHANGED <<owner, awaitingLocker>>
  /\ sleepPrepared' \in {sleepPrepared, FALSE}
  /\ Sealed => Sealed'
  /\ \/ lockStatus' = None <=> lockStatus = None
     \/ pending # None /\ lockStatus = None /\ lockStatus' # None /\ Sealed'

-----------------------------------------------------------------------------
(***************************************************************************)
(* The barrier operators of this module.                                   *)
(***************************************************************************)
LEMMA SyncedFades ==
  ASSUME NEW b, GoodBarrier(b), NEW ready \in BOOLEAN, NEW changed \in BOOLEAN
  PROVE  LET c == Synced(b, ready, changed) IN
         /\ GoodBarrier(c)
         /\ Fades(b, c)
         /\ b.active /\ changed => c.generation > b.generation
         /\ c.outputs = b.outputs
         /\ c.outputsUnavailable = ~ready
<1> DEFINE k == SetOutputsAvailable(b, ready)
<1>1. /\ GoodBarrier(k) /\ Fades(b, k)
      /\ k.outputs = b.outputs /\ k.outputsUnavailable = ~ready
  BY AvailabilityFades
<1>2. Synced(b, ready, changed) = IF changed THEN Invalidate(k) ELSE k
  BY DEF Synced
<1> HIDE DEF k
<1>3. CASE ~changed
  BY <1>1, <1>2, <1>3
<1>4. CASE changed
  <2>1. /\ GoodBarrier(Invalidate(k)) /\ Fades(k, Invalidate(k))
        /\ k.active => Invalidate(k).generation > k.generation
        /\ Invalidate(k).outputs = k.outputs
        /\ Invalidate(k).outputsUnavailable = k.outputsUnavailable
    BY <1>1, InvalidateFades
  <2> QED
    BY <1>1, <1>2, <1>4, <2>1 DEF GoodBarrier, Fades, Barriers
<1> QED BY <1>3, <1>4

LEMMA WithdrawnFades ==
  ASSUME GoodBarrier(barrier)
  PROVE  /\ GoodBarrier(Withdrawn)
         /\ Fades(barrier, Withdrawn)
         /\ barrier.active => Withdrawn.generation > barrier.generation
         /\ Withdrawn.outputs = barrier.outputs
         /\ Withdrawn.outputsUnavailable
<1> DEFINE k == SetOutputsAvailable(barrier, FALSE)
<1>1. /\ GoodBarrier(k) /\ Fades(barrier, k)
      /\ k.outputs = barrier.outputs /\ k.outputsUnavailable
  BY AvailabilityFades
<1>2. Withdrawn = Invalidate(k)
  BY DEF Withdrawn
<1> HIDE DEF k
<1>3. /\ GoodBarrier(Invalidate(k)) /\ Fades(k, Invalidate(k))
      /\ k.active => Invalidate(k).generation > k.generation
      /\ Invalidate(k).outputs = k.outputs
      /\ Invalidate(k).outputsUnavailable = k.outputsUnavailable
  BY <1>1, InvalidateFades
<1> QED BY <1>1, <1>2, <1>3 DEF GoodBarrier, Fades, Barriers

\* After a connector sync the barrier waits for what is published now, and if
\* its generation survived then so did the published outputs.
LEMMA ApplyFacts ==
  ASSUME NEW b, GoodBarrier(b), NEW ready \in BOOLEAN, NEW replaced,
         published' \in SUBSET Outputs,
         b.active => b.outputs = published,
         ApplyConnectorSync(b, ready, replaced)
  PROVE  /\ GoodBarrier(barrier')
         /\ Fades(b, barrier')
         /\ barrier'.outputsUnavailable = ~ready
         /\ b.active => barrier'.outputs = published'
         /\ b.active /\ barrier'.generation = b.generation => published' = published
         /\ invalidated' = {}
         /\ \/ ConfirmIfPresented(barrier', pending, client)
            \/ UNCHANGED <<pending, lockStatus, client>>
<1> DEFINE changed == published' # published \/ replaced # {}
           s == Synced(b, ready, changed)
<1>1. changed \in BOOLEAN
  OBVIOUS
<1>2. /\ invalidated' = {}
      /\ \/ (changed \/ ready) /\ ReconfigureLockOutputs(s)
         \/ ~(changed \/ ready) /\ barrier' = s /\ UNCHANGED <<pending, lockStatus, client>>
  BY DEF ApplyConnectorSync
<1> HIDE DEF changed
<1>3. /\ GoodBarrier(s) /\ Fades(b, s)
      /\ b.active /\ changed => s.generation > b.generation
      /\ s.outputs = b.outputs /\ s.outputsUnavailable = ~ready
  BY <1>1, SyncedFades
<1> HIDE DEF s
<1>4. ~changed => published' = published
  BY DEF changed
<1>5. CASE ~(changed \/ ready)
  <2>1. barrier' = s /\ UNCHANGED <<pending, lockStatus, client>>
    BY <1>2, <1>5
  <2> QED BY <1>2, <1>3, <1>4, <1>5, <2>1
<1>6. CASE changed \/ ready
  <2>1. ReconfigureLockOutputs(s)
    BY <1>2, <1>6
  <2>2. CASE ~s.active
    <3>1. barrier' = s /\ UNCHANGED <<pending, lockStatus, client>>
      BY <2>1, <2>2 DEF ReconfigureLockOutputs, Reconfigured
    <3> QED BY <1>2, <1>3, <2>2, <3>1 DEF Fades
  <2>3. CASE s.active
    <3>1. barrier' = UpdateOutputs(s, published') /\ ConfirmIfPresented(barrier', pending, client)
      BY <2>1, <2>3 DEF ReconfigureLockOutputs, Reconfigured
    <3> DEFINE u == UpdateOutputs(s, published')
    <3>2. /\ GoodBarrier(u) /\ Fades(s, u) /\ u.generation = s.generation
          /\ u.outputs = published' /\ u.outputsUnavailable = s.outputsUnavailable
      BY <1>3, UpdateFades
    <3> HIDE DEF u
    <3>3. barrier' = u
      BY <3>1 DEF u
    <3>4. Fades(b, u)
      BY <1>3, <3>2, FadesTransitive DEF GoodBarrier
    <3>5. b.active /\ u.generation = b.generation => published' = published
      BY <1>3, <1>4, <3>2 DEF GoodBarrier, Barriers
    <3> QED BY <1>2, <1>3, <3>1, <3>2, <3>3, <3>4, <3>5
  <2> QED BY <1>3, <2>2, <2>3 DEF GoodBarrier, Barriers
<1> QED BY <1>5, <1>6

-----------------------------------------------------------------------------
(***************************************************************************)
(* What a ready barrier means.                                             *)
(***************************************************************************)

LEMMA ReadyMeansShown ==
  Base /\ Ready(barrier) =>
    /\ Sealed
    /\ \A o \in Outputs : dev[o] # "absent" => glass[o] = barrier.generation
<1> SUFFICES ASSUME Base, Ready(barrier)
             PROVE  /\ Sealed
                    /\ \A o \in Outputs : dev[o] # "absent" => glass[o] = barrier.generation
  OBVIOUS
<1>1. SessionLocked /\ ~barrier.outputsUnavailable /\ barrier.outputs \subseteq barrier.presented
  BY DEF Ready, SessionLocked
<1>2. barrier.generation \in Nat /\ barrier.generation > 0
  BY <1>1 DEF Base, GoodBarrier, Barriers, SessionLocked
<1>3. ASSUME NEW o \in Outputs, dev[o] # "absent"
      PROVE  CountedAt(o) /\ dev[o] \in Scanout
  <2>1. dev[o] = "live"
    BY <1>1, <1>3 DEF Base, Topology, NativeOutputsReady, GoodBarrier, Barriers
  <2>2. o \in published
    BY <2>1 DEF Base, Topology, Scanout
  <2>3. o \in barrier.presented
    BY <1>1, <2>2 DEF Base, Topology
  <2> QED BY <1>1, <2>1, <2>3 DEF Base, Counted, Scanout
<1>4. ASSUME NEW o \in Outputs
      PROVE  glass[o] # Desktop /\ kms[o] # Desktop /\ ~(scene[o] /\ lockGeneration = NoLock)
  <2>1. CASE dev[o] = "absent"
    BY <2>1 DEF Base, Topology, Desktop, NoLock, Blank, NoFrame, Scanout
  <2>2. CASE dev[o] # "absent"
    BY <1>2, <1>3, <2>2 DEF CountedAt, Desktop, NoLock, NoFrame
  <2> QED BY <2>1, <2>2
<1> QED BY <1>1, <1>3, <1>4 DEF Sealed, CountedAt

LEMMA ReadyMeansShownNext ==
  Base' /\ Ready(barrier)' => Sealed'
BY ReadyMeansShown, PTL

-----------------------------------------------------------------------------
(***************************************************************************)
(* Steps that keep the parts of the invariant.                             *)
(***************************************************************************)

\* Telling the pending locker, or leaving it waiting: `told` and `waiting` are
\* what the handler has made of `client` and `pending`.
LEMMA ConfirmKeepsProtocol ==
  ASSUME NEW told \in [Clients -> ClientStates], NEW waiting \in Clients \cup {None},
         ConfirmIfPresented(barrier', waiting, told),
         lockStatus \in Clients \cup {None, Defunct},
         awaitingLocker' \in BOOLEAN,
         sleepPrepared' => SessionLocked',
         ~SessionLocked' => owner' = None /\ ~awaitingLocker',
         awaitingLocker' => owner' = None,
         owner' = None => waiting = None /\ lockStatus = None,
         waiting # None => /\ owner' = waiting /\ lockStatus = None
                           /\ told[waiting] \in {"waiting", "gone"},
         lockStatus # None => Sealed',
         Ready(barrier') => Sealed',
         \A c \in Clients : /\ told[c] = "locked" => lockStatus = c
                            /\ lockStatus = c => told[c] = "locked" /\ owner' = c
  PROVE  /\ pending' \in Clients \cup {None}
         /\ lockStatus' \in Clients \cup {None, Defunct}
         /\ client' \in [Clients -> ClientStates]
         /\ Protocol'
<1>1. CASE waiting # None /\ Ready(barrier') /\ Alive(told, waiting)
  <2>1. /\ pending' = None /\ lockStatus' = waiting
        /\ client' = [told EXCEPT ![waiting] = "locked"]
    BY <1>1 DEF ConfirmIfPresented
  <2>2. lockStatus = None /\ owner' = waiting
    BY <1>1
  <2>3. \A c \in Clients : client'[c] = IF c = waiting THEN "locked" ELSE told[c]
    BY <2>1
  <2>4. \A c \in Clients : c # waiting => told[c] # "locked"
    BY <2>2, NoneAssumption
  <2> QED BY <1>1, <2>1, <2>2, <2>3, <2>4, NoneAssumption DEF Protocol, ClientStates
<1>2. CASE ~(waiting # None /\ Ready(barrier') /\ Alive(told, waiting))
  <2>1. client' = told /\ lockStatus' = lockStatus /\ pending' \in {waiting, None}
    BY <1>2 DEF ConfirmIfPresented
  <2> QED BY <2>1, NoneAssumption DEF Protocol
<1> QED BY <1>1, <1>2

\* The handlers that do not change who asks, only confirm.
LEMMA QuietKeepsProtocol ==
  ASSUME TypeOK, Protocol,
         \/ ConfirmIfPresented(barrier', pending, client)
         \/ UNCHANGED <<pending, lockStatus, client>>,
         UNCHANGED <<owner, awaitingLocker>>,
         sleepPrepared' \in {sleepPrepared, FALSE},
         barrier'.active = barrier.active,
         Sealed => Sealed',
         Ready(barrier') => Sealed'
  PROVE  /\ pending' \in Clients \cup {None}
         /\ lockStatus' \in Clients \cup {None, Defunct}
         /\ client' \in [Clients -> ClientStates]
         /\ Protocol'
         /\ Quiet
<1>1. sleepPrepared' => sleepPrepared
  OBVIOUS
<1>2. SessionLocked' = SessionLocked
  BY DEF SessionLocked
<1>3. Quiet
  <2>1. \/ lockStatus' = None <=> lockStatus = None
        \/ pending # None /\ lockStatus = None /\ lockStatus' # None /\ Sealed'
    BY DEF ConfirmIfPresented, Protocol
  <2> QED BY <1>2, <2>1 DEF Quiet
<1>4. CASE ConfirmIfPresented(barrier', pending, client)
  <2>1. /\ client \in [Clients -> ClientStates] /\ pending \in Clients \cup {None}
        /\ lockStatus \in Clients \cup {None, Defunct} /\ awaitingLocker \in BOOLEAN
    BY DEF TypeOK, LockTypeOK
  <2>2. /\ pending' \in Clients \cup {None}
        /\ lockStatus' \in Clients \cup {None, Defunct}
        /\ client' \in [Clients -> ClientStates]
        /\ Protocol'
    BY <1>1, <1>2, <1>4, <2>1, ConfirmKeepsProtocol DEF Protocol
  <2> QED BY <1>3, <2>2
<1>5. CASE UNCHANGED <<pending, lockStatus, client>>
  BY <1>1, <1>2, <1>3, <1>5 DEF Protocol, TypeOK, LockTypeOK
<1> QED BY <1>4, <1>5

\* While the barrier only fades, no screen shows a younger frame, and a counted
\* screen keeps its frame unless the generation rose.
LEMMA FadingKeepsCounted ==
  ASSUME Base, GoodBarrier(barrier'), Fades(barrier, barrier'),
         events' \subseteq events,
         \A o \in Outputs :
           CountedAt(o) /\ SessionLocked /\ barrier'.generation = barrier.generation
             => CountedAt(o)'
  PROVE  Counted'
<1> SUFFICES ASSUME SessionLocked', NEW o \in Outputs,
                    o \in barrier'.presented \/ <<o, barrier'.generation>> \in events'
             PROVE  CountedAt(o)'
  BY DEF Counted
<1>1. SessionLocked
  BY DEF SessionLocked, Fades
<1>2. barrier.generation \in Nat /\ barrier'.generation \in Nat
  BY DEF Base, GoodBarrier, Barriers
<1>3. \A e \in events : e[2] =< barrier.generation
  BY DEF Base, Tags
<1>4. barrier'.generation = barrier.generation /\ barrier'.presented \subseteq barrier.presented
  BY <1>2, <1>3 DEF Fades
<1>5. CountedAt(o)
  BY <1>1, <1>4 DEF Base, Counted
<1> QED BY <1>1, <1>4, <1>5

\* Whatever the outputs are made of: a published topology change.
LEMMA SyncKeepsInv ==
  ASSUME Inv, NEW b, b \in {barrier, Withdrawn}, NEW replaced,
         dev' \in [Outputs -> DeviceStates],
         published' = NextPublished(dev'),
         ApplyConnectorSync(b, NativeOutputsReady(seatActive', dev'), replaced),
         seatActive' \in BOOLEAN,
         ~seatActive' => \A o \in Outputs : dev'[o] \in {"absent", "down"},
         scene' \in [Outputs -> BOOLEAN],
         \A o \in Outputs : scene'[o] => scene[o] /\ dev'[o] \in Scanout,
         kms' \in [Outputs -> Nat \cup {Blank, NoFrame}],
         glass' \in [Outputs -> Nat \cup {Blank}],
         \A o \in Outputs :
           \/ /\ dev'[o] # "absent" /\ dev[o] # "absent"
              /\ kms'[o] = kms[o] /\ glass'[o] = glass[o]
           \/ dev[o] = "absent" /\ kms'[o] = kms[o] /\ glass'[o] = glass[o]
           \/ dev'[o] = "absent" /\ kms'[o] = NoFrame /\ glass'[o] = Blank,
         UNCHANGED <<owner, awaitingLocker, lockGeneration, events>>,
         sleepPrepared' \in {sleepPrepared, FALSE}
  PROVE  Inv' /\ Quiet
<1>1. /\ GoodBarrier(b) /\ Fades(barrier, b) /\ b.outputs = barrier.outputs
      /\ b.active = barrier.active
  <2>1. GoodBarrier(barrier)
    BY DEF Inv, Base
  <2>2. Fades(barrier, barrier)
    BY DEF Fades
  <2> QED BY <2>1, <2>2, WithdrawnFades DEF Fades
<1>2. published' \in SUBSET Outputs /\ NativeOutputsReady(seatActive', dev') \in BOOLEAN
  BY DEF NextPublished, NativeOutputsReady
<1>3. b.active => b.outputs = published
  BY <1>1 DEF Inv, Base, Topology, SessionLocked
<1>4. /\ GoodBarrier(barrier')
      /\ Fades(b, barrier')
      /\ barrier'.outputsUnavailable = ~NativeOutputsReady(seatActive', dev')
      /\ b.active => barrier'.outputs = published'
      /\ b.active /\ barrier'.generation = b.generation => published' = published
      /\ invalidated' = {}
      /\ \/ ConfirmIfPresented(barrier', pending, client)
         \/ UNCHANGED <<pending, lockStatus, client>>
  BY <1>1, <1>2, <1>3, ApplyFacts
<1>5. /\ Fades(barrier, barrier')
      /\ barrier'.active = barrier.active
      /\ SessionLocked' = SessionLocked
      /\ barrier'.generation >= barrier.generation
      /\ SessionLocked /\ barrier'.generation = barrier.generation => published' = published
  <2>1. barrier \in Barriers /\ b \in Barriers /\ barrier' \in Barriers
    BY <1>1, <1>4 DEF Inv, Base, GoodBarrier
  <2>2. Fades(barrier, barrier')
    BY <1>1, <1>4, <2>1, FadesTransitive
  <2>3. barrier'.active = barrier.active
    BY <2>2 DEF Fades
  <2>4. barrier.generation \in Nat /\ barrier'.generation \in Nat /\ b.generation \in Nat
    BY <2>1 DEF Barriers
  <2>5. barrier'.generation >= barrier.generation
    BY <2>2, <2>4 DEF Fades
  <2>6. barrier'.generation = barrier.generation => barrier'.generation = b.generation
    BY <1>1, <1>4, <2>4 DEF Fades
  <2> QED BY <1>1, <1>4, <2>2, <2>3, <2>5, <2>6 DEF SessionLocked
<1>6. Tags'
  <2>1. Tags /\ barrier.generation \in Nat /\ barrier'.generation \in Nat
        /\ lockGeneration \in Nat
        /\ kms \in [Outputs -> Nat \cup {Blank, NoFrame}] /\ glass \in [Outputs -> Nat \cup {Blank}]
    BY <1>4 DEF Inv, Base, GoodBarrier, Barriers, TypeOK
  <2>2. \A e \in events : e[2] \in Nat
    BY DEF Inv, Base, TypeOK
  <2> QED BY <1>5, <2>1, <2>2 DEF Tags, Blank, NoFrame
<1>7. Counted'
  <2>1. ASSUME NEW o \in Outputs, CountedAt(o), SessionLocked,
               barrier'.generation = barrier.generation
        PROVE  CountedAt(o)'
    <3>1. published' = published /\ o \in published'
      BY <1>5, <2>1 DEF CountedAt
    <3>2. dev'[o] # "absent"
      BY <3>1 DEF NextPublished, Scanout
    <3> QED BY <2>1, <3>1, <3>2 DEF CountedAt
  <2> QED BY <1>4, <1>5, <2>1, FadingKeepsCounted DEF Inv
<1>8. Topology'
  <2>1. \A o \in Outputs : dev'[o] \in Scanout => o \in published'
    BY DEF NextPublished
  <2>2. \A o \in Outputs : dev'[o] = "absent" => glass'[o] = Blank /\ kms'[o] = NoFrame
    BY DEF Inv, Base, Topology
  <2> QED BY <1>1, <1>4, <1>5, <2>1, <2>2 DEF Topology, SessionLocked
<1>9. Sealed => Sealed'
  BY <1>5 DEF Sealed, Desktop, NoLock, Blank, NoFrame, Inv, Base, TypeOK
<1>10. /\ barrier' \in Barriers /\ awaitingLocker' \in BOOLEAN /\ sleepPrepared' \in BOOLEAN
       /\ owner' \in Clients \cup {None} /\ lockGeneration' \in Nat
       /\ events' \in SUBSET (Outputs \X Nat) /\ invalidated' \in SUBSET Outputs
  BY <1>4 DEF Inv, Base, TypeOK, LockTypeOK, GoodBarrier
<1>11. Base'
  BY <1>4, <1>6, <1>7, <1>8 DEF Base
<1>12. Ready(barrier') => Sealed'
  BY <1>11, ReadyMeansShownNext
<1>13. /\ pending' \in Clients \cup {None}
       /\ lockStatus' \in Clients \cup {None, Defunct}
       /\ client' \in [Clients -> ClientStates]
       /\ Protocol'
       /\ Quiet
  BY <1>4, <1>5, <1>9, <1>12, QuietKeepsProtocol DEF Inv
<1>14. TypeOK'
  BY <1>2, <1>10, <1>13 DEF TypeOK, LockTypeOK
<1> QED BY <1>11, <1>13, <1>14 DEF Inv

\* A step in which the barrier only fades and nobody is told anything.
LEMMA FadingKeepsInv ==
  ASSUME Inv, TypeOK', GoodBarrier(barrier'), Fades(barrier, barrier'), Topology',
         UNCHANGED <<pending, owner, awaitingLocker, lockStatus, client, kms, events>>,
         sleepPrepared' \in {sleepPrepared, FALSE},
         lockGeneration' \in {lockGeneration, Generation(barrier)},
         \A o \in Outputs : glass'[o] \in {glass[o], Blank},
         \A o \in Outputs :
           CountedAt(o) /\ SessionLocked /\ barrier'.generation = barrier.generation
             => o \in published' /\ glass'[o] = glass[o],
         \A o \in Outputs : scene'[o] => scene[o] \/ lockGeneration' = Generation(barrier)
  PROVE  Inv' /\ Quiet
<1>1. /\ barrier \in Barriers /\ barrier' \in Barriers
      /\ barrier.generation \in Nat /\ barrier'.generation \in Nat
  BY DEF Inv, Base, GoodBarrier, Barriers
<1>2. /\ SessionLocked' = SessionLocked
      /\ barrier'.generation >= barrier.generation
  BY <1>1 DEF Fades, SessionLocked
<1>3. /\ lockGeneration \in Nat /\ Generation(barrier) \in Nat
      /\ Generation(barrier) =< barrier.generation
      /\ SessionLocked => Generation(barrier) = barrier.generation /\ barrier.generation > 0
  BY <1>1 DEF Inv, TypeOK, Base, Generation, NoLock, SessionLocked, GoodBarrier
<1>4. Tags'
  <2>1. \A e \in events : e[2] \in Nat
    BY DEF Inv, TypeOK
  <2>2. /\ kms \in [Outputs -> Nat \cup {Blank, NoFrame}]
        /\ glass \in [Outputs -> Nat \cup {Blank}]
    BY DEF Inv, TypeOK
  <2> QED BY <1>1, <1>2, <1>3, <2>1, <2>2 DEF Inv, Base, Tags, Blank, NoFrame
<1>5. Counted'
  <2>1. ASSUME NEW o \in Outputs, CountedAt(o), SessionLocked,
               barrier'.generation = barrier.generation
        PROVE  CountedAt(o)'
    BY <1>3, <2>1 DEF CountedAt
  <2> QED BY <2>1, FadingKeepsCounted DEF Inv
<1>6. Sealed => Sealed'
  <2> SUFFICES ASSUME Sealed PROVE Sealed'
    OBVIOUS
  <2>1. SessionLocked /\ SessionLocked'
    BY <1>2 DEF Sealed
  <2> QED BY <1>3, <2>1 DEF Sealed, Desktop, NoLock, Blank
<1>7. sleepPrepared' => sleepPrepared
  OBVIOUS
<1>8. Protocol'
  BY <1>2, <1>6, <1>7 DEF Inv, Protocol
<1>9. Quiet
  BY <1>2, <1>6 DEF Quiet
<1> QED BY <1>4, <1>5, <1>8, <1>9 DEF Inv, Base

-----------------------------------------------------------------------------
(***************************************************************************)
(* The actions, one lemma each.                                            *)
(***************************************************************************)

LEMMA DeviceAddedKeepsInv ==
  ASSUME Inv, NEW o \in Outputs, DeviceAdded(o)
  PROVE  Inv' /\ Quiet
<1>1. /\ seatActive' = TRUE
      /\ dev' \in [Outputs -> DeviceStates]
      /\ \A p \in Outputs : dev[p] # "absent" => dev'[p] = dev[p]
      /\ published' = NextPublished(dev')
      /\ ApplyConnectorSync(barrier, NativeOutputsReady(seatActive', dev'), invalidated)
      /\ UNCHANGED <<owner, awaitingLocker, sleepPrepared, lockGeneration, scene,
                     kms, glass, events>>
  BY DEF DeviceAdded, PublishDevices, Inv, TypeOK, DeviceStates
<1>2. \A p \in Outputs : scene'[p] => scene[p] /\ dev'[p] \in Scanout
  BY <1>1 DEF Inv, Base, Topology, Scanout
<1>3. /\ scene' \in [Outputs -> BOOLEAN] /\ sleepPrepared' \in BOOLEAN
      /\ kms' \in [Outputs -> Nat \cup {Blank, NoFrame}]
      /\ glass' \in [Outputs -> Nat \cup {Blank}]
  BY <1>1 DEF Inv, TypeOK, LockTypeOK
<1> QED BY <1>1, <1>2, <1>3, SyncKeepsInv

\* The steps that rebuild some devices' surfaces with the seat active.
LEMMA RebuildKeepsInv ==
  ASSUME Inv, NEW b, b \in {barrier, Withdrawn}, NEW replaced,
         dev' \in [Outputs -> DeviceStates],
         \A o \in Outputs : dev'[o] = "absent" <=> dev[o] = "absent",
         seatActive' = TRUE,
         PublishDevices(b, replaced),
         DropScenes,
         UNCHANGED <<owner, awaitingLocker, lockGeneration, kms, glass, events>>,
         sleepPrepared' \in {sleepPrepared, FALSE}
  PROVE  Inv' /\ Quiet
<1>1. /\ published' = NextPublished(dev')
      /\ ApplyConnectorSync(b, NativeOutputsReady(seatActive', dev'), replaced)
  BY DEF PublishDevices
<1>2. /\ scene' \in [Outputs -> BOOLEAN]
      /\ \A o \in Outputs : scene'[o] => scene[o] /\ dev'[o] \in Scanout
  BY DEF DropScenes, Inv, TypeOK
<1>3. /\ kms' \in [Outputs -> Nat \cup {Blank, NoFrame}]
      /\ glass' \in [Outputs -> Nat \cup {Blank}]
  BY DEF Inv, TypeOK
<1> QED BY <1>1, <1>2, <1>3, SyncKeepsInv

LEMMA RefreshOutcomeFacts ==
  ASSUME NEW s \in DeviceStates
  PROVE  /\ RefreshOutcomes(s) \subseteq DeviceStates
         /\ \A t \in RefreshOutcomes(s) : t = "absent" <=> s = "absent"
         /\ PausedDevice(s) \in {"absent", "down"}
         /\ PausedDevice(s) = "absent" <=> s = "absent"
BY DEF RefreshOutcomes, PausedDevice, DeviceStates

LEMMA DeviceChangedKeepsInv ==
  ASSUME Inv, NEW o \in Outputs, DeviceChanged(o)
  PROVE  Inv' /\ Quiet
<1>1. /\ dev' \in [Outputs -> DeviceStates]
      /\ \A p \in Outputs : dev'[p] = "absent" <=> dev[p] = "absent"
  BY RefreshOutcomeFacts DEF DeviceChanged, Inv, TypeOK
<1>2. seatActive' = TRUE /\ sleepPrepared' = sleepPrepared /\ sleepPrepared \in BOOLEAN
  BY DEF DeviceChanged, Inv, TypeOK, LockTypeOK
<1> QED BY <1>1, <1>2, RebuildKeepsInv DEF DeviceChanged

LEMMA RecoveryTimerKeepsInv ==
  ASSUME Inv, RecoveryTimer
  PROVE  Inv' /\ Quiet
<1>1. /\ dev' \in [Outputs -> DeviceStates]
      /\ \A p \in Outputs : dev'[p] = "absent" <=> dev[p] = "absent"
  BY RefreshOutcomeFacts DEF RecoveryTimer, Inv, TypeOK
<1>2. seatActive' = TRUE /\ sleepPrepared' = sleepPrepared /\ sleepPrepared \in BOOLEAN
  BY DEF RecoveryTimer, Inv, TypeOK, LockTypeOK
<1> QED BY <1>1, <1>2, RebuildKeepsInv DEF RecoveryTimer

LEMMA ResumeSessionHereKeepsInv ==
  ASSUME Inv, ResumeSessionHere
  PROVE  Inv' /\ Quiet
<1>1. /\ dev' \in [Outputs -> DeviceStates]
      /\ \A p \in Outputs : dev'[p] = "absent" <=> dev[p] = "absent"
  <2>1. \A p \in Outputs : /\ dev[p] \in DeviceStates
                           /\ PausedDevice(dev[p]) \in DeviceStates
                           /\ PausedDevice(dev[p]) = "absent" <=> dev[p] = "absent"
    BY RefreshOutcomeFacts DEF Inv, TypeOK, DeviceStates
  <2>2. /\ dev' \in [Outputs -> DeviceStates]
        /\ \A p \in Outputs : dev'[p] \in RefreshOutcomes(PausedDevice(dev[p]))
    BY DEF ResumeSessionHere
  <2> QED BY <2>1, <2>2, RefreshOutcomeFacts
<1>2. /\ seatActive' = TRUE /\ sleepPrepared' = FALSE
      /\ UNCHANGED <<owner, awaitingLocker>>
  BY DEF ResumeSessionHere, FinishSleepPreparation, Inv, TypeOK, LockTypeOK
<1> QED BY <1>1, <1>2, RebuildKeepsInv DEF ResumeSessionHere

LEMMA ActivateSessionKeepsInv ==
  ASSUME Inv, ActivateSession
  PROVE  Inv' /\ Quiet
<1>1. /\ dev' \in [Outputs -> DeviceStates]
      /\ \A p \in Outputs : dev'[p] = "absent" <=> dev[p] = "absent"
  BY RefreshOutcomeFacts DEF ActivateSession, Inv, TypeOK
<1>2. seatActive' = TRUE /\ sleepPrepared' = sleepPrepared /\ sleepPrepared \in BOOLEAN
  BY DEF ActivateSession, Inv, TypeOK, LockTypeOK
<1>3. DropScenes
  <2>1. scene' = scene /\ scene \in [Outputs -> BOOLEAN]
    BY DEF ActivateSession, Inv, TypeOK
  <2>2. \A o \in Outputs : scene[o] = FALSE
    BY <2>1 DEF ActivateSession, Inv, Base, Topology, Scanout
  <2> QED BY <2>1, <2>2 DEF DropScenes
<1> QED BY <1>1, <1>2, <1>3, RebuildKeepsInv DEF ActivateSession

LEMMA ConfiguredKeepsInv ==
  ASSUME Inv, NEW o \in Outputs, Configured(o)
  PROVE  Inv' /\ Quiet
<1>1. /\ dev' \in [Outputs -> DeviceStates]
      /\ \A p \in Outputs : dev'[p] = "absent" <=> dev[p] = "absent"
      /\ \A p \in Outputs : dev[p] \in Scanout => dev'[p] \in Scanout
  BY DEF Configured, Inv, TypeOK, DeviceStates, Scanout
<1>2. seatActive' = TRUE /\ sleepPrepared' = sleepPrepared /\ sleepPrepared \in BOOLEAN
  BY DEF Configured, Inv, TypeOK, LockTypeOK
<1>3. DropScenes
  <2>1. scene' = scene /\ scene \in [Outputs -> BOOLEAN]
    BY DEF Configured, Inv, TypeOK
  <2>2. \A p \in Outputs : scene[p] = (scene[p] /\ dev'[p] \in Scanout)
    BY <1>1, <2>1 DEF Inv, Base, Topology
  <2> QED BY <2>1, <2>2 DEF DropScenes
<1> QED BY <1>1, <1>2, <1>3, RebuildKeepsInv DEF Configured

LEMMA DeviceRemovedKeepsInv ==
  ASSUME Inv, NEW o \in Outputs, DeviceRemoved(o)
  PROVE  Inv' /\ Quiet
<1>1. /\ dev' \in [Outputs -> DeviceStates]
      /\ dev' = [dev EXCEPT ![o] = "absent"]
      /\ seatActive' = seatActive /\ seatActive \in BOOLEAN
      /\ published' = NextPublished(dev')
      /\ ApplyConnectorSync(barrier, NativeOutputsReady(seatActive', dev'),
                            invalidated \cup Replaced)
      /\ UNCHANGED <<owner, awaitingLocker, sleepPrepared, lockGeneration, events>>
  BY DEF DeviceRemoved, Inv, TypeOK, DeviceStates
<1>2. \A p \in Outputs : dev'[p] = IF p = o THEN "absent" ELSE dev[p]
  BY <1>1 DEF Inv, TypeOK
<1>3. ~seatActive' => \A p \in Outputs : dev'[p] \in {"absent", "down"}
  BY <1>1, <1>2 DEF Inv, Base, Topology
<1>4. /\ scene' \in [Outputs -> BOOLEAN]
      /\ \A p \in Outputs : scene'[p] => scene[p] /\ dev'[p] \in Scanout
  BY DEF DeviceRemoved, DropScenes, Inv, TypeOK
<1>5. /\ kms' \in [Outputs -> Nat \cup {Blank, NoFrame}]
      /\ glass' \in [Outputs -> Nat \cup {Blank}]
      /\ kms'[o] = NoFrame /\ glass'[o] = Blank
      /\ \A p \in Outputs \ {o} : kms'[p] = kms[p] /\ glass'[p] = glass[p]
  BY DEF DeviceRemoved, Inv, TypeOK
<1>6. \A p \in Outputs :
        \/ /\ dev'[p] # "absent" /\ dev[p] # "absent"
           /\ kms'[p] = kms[p] /\ glass'[p] = glass[p]
        \/ dev[p] = "absent" /\ kms'[p] = kms[p] /\ glass'[p] = glass[p]
        \/ dev'[p] = "absent" /\ kms'[p] = NoFrame /\ glass'[p] = Blank
  BY <1>2, <1>5
<1>7. sleepPrepared' \in BOOLEAN
  BY <1>1 DEF Inv, TypeOK, LockTypeOK
<1> QED BY <1>1, <1>3, <1>4, <1>5, <1>6, <1>7, SyncKeepsInv

LEMMA DeviceAddedAwayKeepsInv ==
  ASSUME Inv, NEW o \in Outputs, DeviceAddedAway(o)
  PROVE  Inv' /\ Quiet
<1>1. GoodBarrier(barrier)
  BY DEF Inv, Base
<1>2. /\ GoodBarrier(barrier') /\ Fades(barrier, barrier')
      /\ barrier'.outputs = barrier.outputs /\ barrier'.outputsUnavailable
  BY <1>1, AvailabilityFades DEF DeviceAddedAway
<1>3. /\ ~seatActive /\ ~seatActive'
      /\ dev' \in [Outputs -> DeviceStates]
      /\ \A p \in Outputs : dev'[p] = IF p = o THEN "down" ELSE dev[p]
      /\ UNCHANGED <<pending, owner, awaitingLocker, sleepPrepared, published, lockStatus,
                     client, seatActive, invalidated, lockGeneration, scene, kms,
                     glass, events>>
  BY DEF DeviceAddedAway, Inv, TypeOK, DeviceStates
<1>4. TypeOK'
  BY <1>2, <1>3 DEF Inv, TypeOK, LockTypeOK, GoodBarrier
<1>5. Topology'
  <2>1. SessionLocked' = SessionLocked
    BY <1>2 DEF Fades, SessionLocked
  <2>2. ~NativeOutputsReady(seatActive', dev')
    BY <1>3 DEF NativeOutputsReady
  <2>3. \A p \in Outputs : dev[p] \notin Scanout
    BY <1>3 DEF Inv, Base, Topology, Scanout
  <2> QED BY <1>2, <1>3, <2>1, <2>2, <2>3 DEF Inv, Base, Topology, Scanout
<1> QED BY <1>2, <1>3, <1>4, <1>5, FadingKeepsInv DEF CountedAt

LEMMA PauseSessionKeepsInv ==
  ASSUME Inv, PauseSession
  PROVE  Inv' /\ Quiet
<1>1. GoodBarrier(barrier)
  BY DEF Inv, Base
<1>2. /\ GoodBarrier(barrier') /\ Fades(barrier, barrier')
      /\ barrier'.outputs = barrier.outputs /\ barrier'.outputsUnavailable
      /\ SessionLocked => barrier'.generation > barrier.generation
  BY <1>1, WithdrawnFades DEF PauseSession, SessionLocked
<1>3. /\ ~seatActive' /\ seatActive' \in BOOLEAN
      /\ dev' \in [Outputs -> DeviceStates]
      /\ \A p \in Outputs : dev'[p] = PausedDevice(dev[p])
      /\ invalidated' \in SUBSET Outputs
      /\ glass' \in [Outputs -> Nat \cup {Blank}]
      /\ \A p \in Outputs : glass'[p] = Blank
      /\ UNCHANGED <<pending, owner, awaitingLocker, sleepPrepared, published, lockStatus,
                     client, lockGeneration, kms, events>>
  BY RefreshOutcomeFacts DEF PauseSession, Inv, TypeOK, DeviceStates, Replaced
<1>4. \A p \in Outputs : /\ dev'[p] \in {"absent", "down"}
                         /\ dev'[p] = "absent" => dev[p] = "absent"
  BY <1>3, RefreshOutcomeFacts DEF Inv, TypeOK
<1>5. /\ scene' \in [Outputs -> BOOLEAN]
      /\ \A p \in Outputs : ~scene'[p]
  BY <1>4 DEF PauseSession, DropScenes, Inv, TypeOK, Scanout
<1>6. TypeOK'
  BY <1>2, <1>3, <1>5 DEF Inv, TypeOK, LockTypeOK, GoodBarrier
<1>7. Topology'
  <2>1. SessionLocked' = SessionLocked
    BY <1>2 DEF Fades, SessionLocked
  <2>2. ~NativeOutputsReady(seatActive', dev')
    BY <1>3 DEF NativeOutputsReady
  <2> QED BY <1>2, <1>3, <1>4, <1>5, <2>1, <2>2 DEF Inv, Base, Topology, Scanout
<1>8. SessionLocked => barrier'.generation # barrier.generation
  BY <1>1, <1>2 DEF GoodBarrier, Barriers
<1> QED BY <1>2, <1>3, <1>5, <1>6, <1>7, <1>8, FadingKeepsInv

LEMMA ResumeSessionAwayKeepsInv ==
  ASSUME Inv, ResumeSessionAway
  PROVE  Inv' /\ Quiet
<1>1. GoodBarrier(barrier)
  BY DEF Inv, Base
<1>2. /\ GoodBarrier(barrier') /\ Fades(barrier, barrier')
      /\ barrier'.outputs = barrier.outputs /\ barrier'.outputsUnavailable
  BY <1>1, WithdrawnFades DEF ResumeSessionAway
<1>3. /\ ~seatActive
      /\ sleepPrepared' = FALSE
      /\ UNCHANGED <<pending, owner, awaitingLocker, published, lockStatus, client,
                     seatActive, dev, invalidated, lockGeneration, scene, kms,
                     glass, events>>
  BY DEF ResumeSessionAway, FinishSleepPreparation, backendVars
<1>4. TypeOK'
  BY <1>2, <1>3 DEF Inv, TypeOK, LockTypeOK, GoodBarrier
<1>5. Topology'
  <2>1. SessionLocked' = SessionLocked
    BY <1>2 DEF Fades, SessionLocked
  <2>2. ~NativeOutputsReady(seatActive', dev')
    BY <1>3 DEF NativeOutputsReady
  <2> QED BY <1>2, <1>3, <2>1, <2>2 DEF Inv, Base, Topology
<1> QED BY <1>2, <1>3, <1>4, <1>5, FadingKeepsInv DEF CountedAt

LEMMA PresenterFailedKeepsInv ==
  ASSUME Inv, NEW o \in Outputs, PresenterFailed(o)
  PROVE  Inv' /\ Quiet
<1> DEFINE changed == published' # published \/ invalidated \cup Replaced # {}
           s == Synced(barrier, FALSE, changed)
           r == IF changed THEN Reconfigured(s) ELSE s
<1>1. GoodBarrier(barrier)
  BY DEF Inv, Base
<1>2. /\ GoodBarrier(s) /\ Fades(barrier, s)
      /\ s.outputs = barrier.outputs /\ s.outputsUnavailable
  BY <1>1, SyncedFades
<1>3. barrier' = Invalidate(r)
  BY DEF PresenterFailed
<1>4. published' = NextPublished(dev') /\ published' \in SUBSET Outputs
  BY DEF PresenterFailed, NextPublished
<1>5. ~changed => published' = published
  OBVIOUS
<1> HIDE DEF changed, s
<1>6. /\ GoodBarrier(r) /\ Fades(s, r) /\ r.outputsUnavailable
      /\ s.active => r.outputs = IF changed THEN published' ELSE s.outputs
  <2>1. CASE changed /\ s.active
    BY <1>2, <1>4, <2>1, UpdateFades DEF Reconfigured
  <2>2. CASE ~(changed /\ s.active)
    BY <1>2, <2>2 DEF Reconfigured, Fades
  <2> QED BY <2>1, <2>2
<1> HIDE DEF r
<1>7. /\ GoodBarrier(barrier') /\ Fades(r, barrier')
      /\ r.active => barrier'.generation > r.generation
      /\ barrier'.outputs = r.outputs /\ barrier'.outputsUnavailable
  BY <1>3, <1>6, InvalidateFades
<1>8. Fades(barrier, r) /\ Fades(barrier, barrier')
  BY <1>1, <1>2, <1>6, <1>7, FadesTransitive DEF GoodBarrier
<1>9. SessionLocked => barrier'.generation # barrier.generation
  <2>1. /\ barrier.generation \in Nat /\ r.generation \in Nat
        /\ barrier'.generation \in Nat
    BY <1>1, <1>6, <1>7 DEF GoodBarrier, Barriers
  <2> QED BY <1>7, <1>8, <2>1 DEF Fades, SessionLocked
<1>10. /\ seatActive /\ seatActive' = seatActive
       /\ dev' \in [Outputs -> DeviceStates]
       /\ \A p \in Outputs : dev'[p] = "absent" => dev[p] = "absent"
       /\ dev'[o] \in {"down", "faulty"}
       /\ invalidated' = {}
       /\ UNCHANGED <<pending, owner, awaitingLocker, sleepPrepared, lockStatus,
                      client, lockGeneration, kms, glass, events>>
  BY DEF PresenterFailed, Inv, TypeOK, DeviceStates
<1>11. /\ scene' \in [Outputs -> BOOLEAN]
       /\ \A p \in Outputs : scene'[p] => scene[p] /\ dev'[p] \in Scanout
  BY DEF PresenterFailed, DropScenes, Inv, TypeOK
<1>12. TypeOK'
  BY <1>4, <1>7, <1>10, <1>11 DEF Inv, TypeOK, LockTypeOK, GoodBarrier
<1>13. Topology'
  <2>1. SessionLocked' = SessionLocked
    BY <1>8 DEF Fades, SessionLocked
  <2>2. ~NativeOutputsReady(seatActive', dev')
    BY <1>10 DEF NativeOutputsReady
  <2>3. SessionLocked => barrier'.outputs = published'
    BY <1>2, <1>5, <1>6, <1>7 DEF Inv, Base, Topology, Fades, SessionLocked
  <2>4. \A p \in Outputs : dev'[p] \in Scanout => p \in published'
    BY <1>4 DEF NextPublished
  <2> QED BY <1>7, <1>10, <1>11, <2>1, <2>2, <2>3, <2>4 DEF Inv, Base, Topology
<1> QED BY <1>7, <1>8, <1>9, <1>10, <1>11, <1>12, <1>13, FadingKeepsInv

LEMMA EventLoopTurnKeepsInv ==
  ASSUME Inv, NEW rendered \in SUBSET Outputs, NEW failed \in SUBSET Outputs,
         EventLoopTurn(rendered, failed)
  PROVE  Inv' /\ Quiet
<1>1. GoodBarrier(barrier)
  BY DEF Inv, Base
<1>2. NativeOutputsReady(seatActive, dev') \in BOOLEAN
  BY DEF NativeOutputsReady
<1>3. /\ GoodBarrier(barrier') /\ Fades(barrier, barrier')
      /\ barrier'.outputs = barrier.outputs
      /\ barrier'.outputsUnavailable = ~NativeOutputsReady(seatActive, dev')
  BY <1>1, <1>2, AvailabilityFades DEF EventLoopTurn
<1>4. /\ lockGeneration' = Generation(barrier)
      /\ UNCHANGED <<pending, owner, awaitingLocker, sleepPrepared, published,
                     lockStatus, client, seatActive, invalidated, kms, glass, events>>
      /\ failed \subseteq {p \in Outputs : dev[p] \in {"live", "undiscovered"}}
      /\ rendered \subseteq {p \in Outputs : dev[p] \in {"live", "undiscovered"}}
      /\ failed \cap rendered = {}
  BY DEF EventLoopTurn
<1>5. /\ dev' \in [Outputs -> DeviceStates]
      /\ \A p \in Outputs : dev'[p] = IF p \in failed THEN "faulty" ELSE dev[p]
  BY DEF EventLoopTurn, Inv, TypeOK, DeviceStates
<1>6. /\ scene' \in [Outputs -> BOOLEAN]
      /\ \A p \in Outputs : scene'[p] => p \in rendered \/ scene[p]
  BY DEF EventLoopTurn, Inv, TypeOK
<1>7. lockGeneration' \in Nat
  BY <1>1, <1>4 DEF Generation, NoLock, GoodBarrier, Barriers
<1>8. TypeOK'
  BY <1>3, <1>4, <1>5, <1>6, <1>7 DEF Inv, TypeOK, LockTypeOK, GoodBarrier
<1>9. Topology'
  <2>1. SessionLocked' = SessionLocked
    BY <1>3 DEF Fades, SessionLocked
  <2>2. \A p \in failed : dev[p] \in Scanout /\ p \in published /\ seatActive
    BY <1>4 DEF Inv, Base, Topology, Scanout
  <2>3. \A p \in Outputs : dev'[p] \in Scanout <=> dev[p] \in Scanout
    BY <1>5, <2>2 DEF Scanout
  <2>4. \A p \in rendered : dev[p] \in Scanout
    BY <1>4 DEF Scanout
  <2>5. \A p \in Outputs : dev'[p] = "absent" => dev[p] = "absent"
    BY <1>5
  <2> QED BY <1>3, <1>4, <1>5, <1>6, <2>1, <2>2, <2>3, <2>4, <2>5
      DEF Inv, Base, Topology
<1> QED BY <1>3, <1>4, <1>8, <1>9, FadingKeepsInv DEF CountedAt

LEMMA QueueFrameKeepsInv ==
  ASSUME Inv, NEW o \in Outputs, QueueFrame(o)
  PROVE  Inv' /\ Quiet
<1> DEFINE frame == IF scene[o] \/ lockGeneration # NoLock THEN lockGeneration ELSE Blank
<1>1. /\ kms' = [kms EXCEPT ![o] = frame]
      /\ dev[o] \in Scanout
      /\ UNCHANGED <<lockVars, seatActive, dev, invalidated, lockGeneration,
                     scene, glass, events>>
  BY DEF QueueFrame
<1>2. /\ frame \in Nat \cup {Blank, NoFrame} /\ frame \in {lockGeneration, Blank}
      /\ lockGeneration \in Nat
  BY DEF Inv, TypeOK
<1>3. /\ kms' \in [Outputs -> Nat \cup {Blank, NoFrame}]
      /\ \A p \in Outputs : kms'[p] = IF p = o THEN frame ELSE kms[p]
  BY <1>1, <1>2 DEF Inv, TypeOK
<1>4. frame = Desktop => scene[o] /\ lockGeneration = NoLock
  BY DEF Desktop, NoLock, Blank
<1>5. lockGeneration # NoLock => frame = lockGeneration
  OBVIOUS
<1> HIDE DEF frame
<1>6. TypeOK'
  BY <1>1, <1>3 DEF Inv, TypeOK, LockTypeOK, lockVars
<1>7. /\ barrier' = barrier /\ SessionLocked' = SessionLocked
      /\ barrier.generation \in Nat
      /\ SessionLocked => barrier.generation > 0
  BY <1>1 DEF lockVars, SessionLocked, Inv, Base, GoodBarrier, Barriers
<1>8. Tags'
  BY <1>1, <1>2, <1>3, <1>7 DEF Inv, Base, Tags, Blank
<1>9. Counted'
  <2> SUFFICES ASSUME SessionLocked', NEW p \in Outputs,
                      p \in barrier'.presented \/ <<p, barrier'.generation>> \in events'
               PROVE  CountedAt(p)'
    BY DEF Counted
  <2>1. CountedAt(p)
    BY <1>1, <1>7 DEF Inv, Base, Counted
  <2> QED BY <1>1, <1>3, <1>5, <1>7, <2>1 DEF CountedAt, NoLock, lockVars
<1>10. Topology'
  BY <1>1, <1>3, <1>7 DEF Inv, Base, Topology, Scanout, lockVars
<1>11. Sealed => Sealed'
  BY <1>1, <1>3, <1>4, <1>7 DEF Sealed
<1>12. Protocol'
  BY <1>1, <1>7, <1>11 DEF Inv, Protocol, lockVars
<1>13. GoodBarrier(barrier')
  BY <1>7 DEF Inv, Base
<1>14. Quiet
  BY <1>1, <1>7, <1>11 DEF Quiet, lockVars
<1> QED BY <1>6, <1>8, <1>9, <1>10, <1>12, <1>13, <1>14 DEF Inv, Base

LEMMA PageFlipKeepsInv ==
  ASSUME Inv, NEW o \in Outputs, PageFlip(o)
  PROVE  Inv' /\ Quiet
<1>1. /\ kms[o] # NoFrame
      /\ kms' = [kms EXCEPT ![o] = NoFrame]
      /\ glass' = [glass EXCEPT ![o] = IF seatActive THEN kms[o] ELSE @]
      /\ UNCHANGED <<lockVars, seatActive, dev, invalidated, lockGeneration, scene>>
      /\ \/ events' = events
         \/ /\ events' = events \cup {<<o, kms[o]>>}
            /\ kms[o] # Desktop /\ kms[o] = lockGeneration /\ dev[o] \in Scanout
  BY DEF PageFlip
<1>2. /\ kms \in [Outputs -> Nat \cup {Blank, NoFrame}]
      /\ glass \in [Outputs -> Nat \cup {Blank}]
      /\ lockGeneration \in Nat /\ events \in SUBSET (Outputs \X Nat)
      /\ kms[o] \in Nat \cup {Blank}
  BY <1>1 DEF Inv, TypeOK
<1>3. /\ kms' \in [Outputs -> Nat \cup {Blank, NoFrame}]
      /\ glass' \in [Outputs -> Nat \cup {Blank}]
      /\ events' \in SUBSET (Outputs \X Nat)
  BY <1>1, <1>2
<1>4. \A p \in Outputs :
        /\ kms'[p] = IF p = o THEN NoFrame ELSE kms[p]
        /\ glass'[p] = IF p = o /\ seatActive THEN kms[p] ELSE glass[p]
  BY <1>1, <1>2
<1>5. TypeOK'
  BY <1>1, <1>3 DEF Inv, TypeOK, LockTypeOK, lockVars
<1>6. /\ barrier' = barrier /\ published' = published /\ SessionLocked' = SessionLocked
      /\ barrier.generation \in Nat
      /\ SessionLocked => barrier.generation > 0
  BY <1>1 DEF lockVars, SessionLocked, Inv, Base, GoodBarrier, Barriers
<1>7. Tags'
  <2>1. lockGeneration' =< barrier'.generation
    BY <1>1, <1>6 DEF Inv, Base, Tags
  <2>2. \A p \in Outputs : kms'[p] =< barrier'.generation /\ glass'[p] =< barrier'.generation
    BY <1>2, <1>4, <1>6 DEF Inv, Base, Tags, NoFrame
  <2>3. \A e \in events' : 0 < e[2] /\ e[2] =< barrier'.generation
    BY <1>1, <1>2, <1>6 DEF Inv, Base, Tags, Desktop, NoLock
  <2> QED BY <2>1, <2>2, <2>3 DEF Tags
<1>8. Counted'
  <2> SUFFICES ASSUME SessionLocked', NEW p \in Outputs,
                      p \in barrier'.presented \/ <<p, barrier'.generation>> \in events'
               PROVE  CountedAt(p)'
    BY DEF Counted
  <2>1. CASE p \in barrier.presented \/ <<p, barrier.generation>> \in events
    <3>1. CountedAt(p)
      BY <1>6, <2>1 DEF Inv, Base, Counted
    <3> QED BY <1>1, <1>4, <1>6, <3>1 DEF CountedAt
  <2>2. CASE ~(p \in barrier.presented \/ <<p, barrier.generation>> \in events)
    <3>1. /\ p = o /\ kms[o] = barrier.generation /\ lockGeneration = kms[o]
          /\ dev[o] \in Scanout
      BY <1>1, <1>6, <2>2
    <3>2. o \in published /\ seatActive
      BY <3>1 DEF Inv, Base, Topology, Scanout
    <3> QED BY <1>1, <1>4, <1>6, <3>1, <3>2 DEF CountedAt
  <2> QED BY <2>1, <2>2
<1>9. Topology'
  <2>1. dev[o] # "absent"
    BY <1>1 DEF Inv, Base, Topology
  <2> QED BY <1>1, <1>4, <1>6, <2>1 DEF Inv, Base, Topology
<1>10. Sealed => Sealed'
  BY <1>1, <1>4, <1>6 DEF Sealed, Desktop, NoLock, NoFrame
<1>11. Protocol'
  BY <1>1, <1>6, <1>10 DEF Inv, Protocol, lockVars
<1>12. GoodBarrier(barrier')
  BY <1>6 DEF Inv, Base
<1>13. Quiet
  BY <1>1, <1>6, <1>10 DEF Quiet, lockVars
<1> QED BY <1>5, <1>7, <1>8, <1>9, <1>11, <1>12, <1>13 DEF Inv, Base

LEMMA PresentedEventKeepsInv ==
  ASSUME Inv, NEW o \in Outputs, NEW generation \in Nat, PresentedEvent(o, generation)
  PROVE  Inv' /\ Quiet
<1>1. /\ <<o, generation>> \in events
      /\ events' \subseteq events
      /\ UNCHANGED <<seatActive, dev, invalidated, lockGeneration, scene, kms, glass>>
      /\ UNCHANGED <<owner, awaitingLocker, sleepPrepared, published>>
      /\ \/ barrier' = barrier /\ UNCHANGED <<pending, lockStatus, client>>
         \/ /\ barrier' = Presented(barrier, o, generation)
            /\ ConfirmIfPresented(barrier', pending, client)
  BY DEF PresentedEvent, LockFramePresented, lockVars
<1>2. GoodBarrier(barrier)
  BY DEF Inv, Base
<1>3. /\ GoodBarrier(barrier')
      /\ barrier'.active = barrier.active /\ barrier'.generation = barrier.generation
      /\ barrier'.outputs = barrier.outputs
      /\ barrier'.outputsUnavailable = barrier.outputsUnavailable
      /\ \/ barrier'.presented = barrier.presented
         \/ /\ barrier'.presented = barrier.presented \cup {o}
            /\ barrier.active /\ generation = barrier.generation
  BY <1>1, <1>2, PresentedFacts
<1>4. SessionLocked' = SessionLocked
  BY <1>3 DEF SessionLocked
<1>5. Tags'
  BY <1>1, <1>3 DEF Inv, Base, Tags
<1>6. Counted'
  <2> SUFFICES ASSUME SessionLocked', NEW p \in Outputs,
                      p \in barrier'.presented \/ <<p, barrier'.generation>> \in events'
               PROVE  CountedAt(p)'
    BY DEF Counted
  <2>1. p \in barrier.presented \/ <<p, barrier.generation>> \in events
    BY <1>1, <1>3
  <2>2. CountedAt(p)
    BY <1>4, <2>1 DEF Inv, Base, Counted
  <2> QED BY <1>1, <1>3, <2>2 DEF CountedAt
<1>7. Topology'
  BY <1>1, <1>3, <1>4 DEF Inv, Base, Topology
<1>8. Base'
  BY <1>3, <1>5, <1>6, <1>7 DEF Base
<1>9. Sealed => Sealed'
  BY <1>1, <1>4 DEF Sealed
<1>10. Ready(barrier') => Sealed'
  BY <1>8, ReadyMeansShownNext
<1>11. /\ pending' \in Clients \cup {None}
       /\ lockStatus' \in Clients \cup {None, Defunct}
       /\ client' \in [Clients -> ClientStates]
       /\ Protocol'
       /\ Quiet
  BY <1>1, <1>3, <1>9, <1>10, QuietKeepsProtocol DEF Inv
<1>12. TypeOK'
  BY <1>1, <1>3, <1>11 DEF Inv, TypeOK, LockTypeOK, GoodBarrier
<1> QED BY <1>8, <1>11, <1>12 DEF Inv

\* Arming the shield begins a generation nothing carries yet.
LEMMA ArmedKeepsBase ==
  ASSUME TypeOK, Base, barrier' = Armed, published' = published, UNCHANGED backendVars
  PROVE  /\ Base'
         /\ SessionLocked'
         /\ Sealed => Sealed'
<1>1. GoodBarrier(barrier) /\ published \in SUBSET Outputs
  BY DEF Base, TypeOK, LockTypeOK
<1>2. UNCHANGED <<seatActive, dev, invalidated, lockGeneration, scene, kms, glass, events>>
  BY DEF backendVars
<1>3. CASE SessionLocked
  BY <1>2, <1>3 DEF Armed, Base, Tags, Counted, CountedAt, Topology, SessionLocked, Sealed
<1>4. CASE ~SessionLocked
  <2>1. /\ GoodBarrier(barrier') /\ barrier'.active
        /\ barrier'.generation = barrier.generation + 1
        /\ barrier'.outputs = published /\ barrier'.presented = {}
        /\ barrier'.outputsUnavailable = barrier.outputsUnavailable
    BY <1>1, <1>4, BeginFacts DEF Armed
  <2>2. barrier.generation \in Nat
    BY <1>1 DEF GoodBarrier, Barriers
  <2>3. Tags'
    <3>1. /\ lockGeneration \in Nat /\ kms \in [Outputs -> Nat \cup {Blank, NoFrame}]
          /\ glass \in [Outputs -> Nat \cup {Blank}]
          /\ \A e \in events : e[2] \in Nat
      BY DEF TypeOK
    <3> QED BY <1>2, <2>1, <2>2, <3>1 DEF Base, Tags, Blank, NoFrame
  <2>4. Counted'
    <3>1. \A o \in Outputs : <<o, barrier'.generation>> \notin events
      BY <2>1, <2>2 DEF Base, Tags
    <3> QED BY <1>2, <2>1, <3>1 DEF Counted
  <2>5. Topology'
    BY <1>2, <2>1 DEF Base, Topology, SessionLocked
  <2>6. SessionLocked' /\ ~Sealed
    BY <1>4, <2>1 DEF SessionLocked, Sealed
  <2> QED BY <2>1, <2>3, <2>4, <2>5, <2>6 DEF Base
<1> QED BY <1>3, <1>4

LEMMA LockRefusedKeepsInv ==
  ASSUME Inv, NEW c \in Clients, LockRefused(c), UNCHANGED backendVars
  PROVE  Inv' /\ Quiet
<1>1. /\ client[c] = "idle" /\ client' = [client EXCEPT ![c] = "finished"]
      /\ UNCHANGED <<barrier, pending, owner, awaitingLocker, sleepPrepared, published,
                     lockStatus>>
      /\ UNCHANGED <<seatActive, dev, invalidated, lockGeneration, scene, kms, glass, events>>
  BY DEF LockRefused, backendVars
<1>2. /\ client \in [Clients -> ClientStates] /\ client' \in [Clients -> ClientStates]
      /\ \A d \in Clients : client'[d] = IF d = c THEN "finished" ELSE client[d]
  BY <1>1 DEF Inv, TypeOK, LockTypeOK, ClientStates
<1>3. TypeOK' /\ Base'
  BY <1>1, <1>2 DEF Inv, TypeOK, LockTypeOK, Base, Tags, Counted, CountedAt, Topology,
                    SessionLocked
<1>4. Protocol'
  <2>1. pending # c /\ lockStatus # c
    BY <1>1, NoneAssumption DEF Inv, Protocol
  <2>2. pending \in Clients \cup {None}
    BY DEF Inv, TypeOK, LockTypeOK
  <2> QED BY <1>1, <1>2, <2>1, <2>2 DEF Inv, Protocol, SessionLocked, Sealed
<1>5. Quiet
  BY <1>1 DEF Quiet, SessionLocked, Sealed
<1> QED BY <1>3, <1>4, <1>5 DEF Inv

LEMMA LockAcceptedKeepsInv ==
  ASSUME Inv, NEW c \in Clients, LockAccepted(c), UNCHANGED backendVars
  PROVE  Inv'
<1> DEFINE told == [client EXCEPT ![c] = "waiting"]
<1>1. /\ client[c] = "idle"
      /\ ~SessionLocked \/ awaitingLocker
      /\ barrier' = Armed /\ awaitingLocker' = FALSE /\ owner' = c
      /\ ConfirmIfPresented(barrier', c, told)
      /\ UNCHANGED <<sleepPrepared, published>>
      /\ UNCHANGED <<seatActive, dev, invalidated, lockGeneration, scene, kms, glass, events>>
  BY DEF LockAccepted, backendVars
<1>2. /\ told \in [Clients -> ClientStates]
      /\ \A d \in Clients : told[d] = IF d = c THEN "waiting" ELSE client[d]
  BY DEF Inv, TypeOK, LockTypeOK, ClientStates
<1> HIDE DEF told
<1>3. Base' /\ SessionLocked'
  BY <1>1, ArmedKeepsBase DEF Inv
<1>4. owner = None /\ pending = None /\ lockStatus = None
  BY <1>1 DEF Inv, Protocol
<1>5. Ready(barrier') => Sealed'
  BY <1>3, ReadyMeansShownNext
<1>6. \A d \in Clients : told[d] # "locked" /\ d # None
  BY <1>2, <1>4, NoneAssumption DEF Inv, Protocol
<1>7. /\ pending' \in Clients \cup {None}
      /\ lockStatus' \in Clients \cup {None, Defunct}
      /\ client' \in [Clients -> ClientStates]
      /\ Protocol'
  BY <1>1, <1>2, <1>3, <1>4, <1>5, <1>6, ConfirmKeepsProtocol
<1>8. TypeOK'
  BY <1>1, <1>3, <1>7 DEF Inv, TypeOK, LockTypeOK, Base, GoodBarrier
<1> QED BY <1>3, <1>7, <1>8 DEF Inv

LEMMA UnlockAndDestroyKeepsInv ==
  ASSUME Inv, NEW c \in Clients, UnlockAndDestroy(c), UNCHANGED backendVars
  PROVE  Inv'
<1>1. /\ lockStatus = c /\ lockStatus' = None
      /\ client' = [client EXCEPT ![c] = "gone"]
      /\ pending' = None /\ owner' = None
      /\ barrier' = IF sleepPrepared THEN barrier ELSE Unlock(barrier)
      /\ awaitingLocker' = sleepPrepared
      /\ UNCHANGED <<sleepPrepared, published>>
      /\ UNCHANGED <<seatActive, dev, invalidated, lockGeneration, scene, kms, glass, events>>
  BY DEF UnlockAndDestroy, backendVars
<1>2. /\ client \in [Clients -> ClientStates] /\ client' \in [Clients -> ClientStates]
      /\ \A d \in Clients : client'[d] = IF d = c THEN "gone" ELSE client[d]
  BY <1>1 DEF Inv, TypeOK, LockTypeOK, ClientStates
<1>3. Base' /\ (sleepPrepared => SessionLocked') /\ (SessionLocked' => sleepPrepared)
  <2>1. CASE sleepPrepared
    BY <1>1, <2>1 DEF Inv, Base, Protocol, Tags, Counted, CountedAt, Topology, SessionLocked
  <2>2. CASE ~sleepPrepared
    <3>1. /\ GoodBarrier(barrier') /\ ~barrier'.active
          /\ barrier'.generation = barrier.generation
          /\ barrier'.outputsUnavailable = barrier.outputsUnavailable
      BY <1>1, <2>2, UnlockFacts DEF Inv, Base
    <3> QED BY <1>1, <2>2, <3>1 DEF Inv, Base, Tags, Counted, Topology, SessionLocked
  <2> QED BY <2>1, <2>2
<1>4. \A d \in Clients : client'[d] # "locked" /\ d # None
  BY <1>1, <1>2, NoneAssumption DEF Inv, Protocol
<1>5. sleepPrepared \in BOOLEAN
  BY DEF Inv, TypeOK, LockTypeOK
<1>6. Protocol'
  BY <1>1, <1>3, <1>4, <1>5 DEF Protocol
<1>7. TypeOK'
  BY <1>1, <1>2, <1>3, <1>5 DEF Inv, TypeOK, LockTypeOK, Base, GoodBarrier
<1> QED BY <1>3, <1>6, <1>7 DEF Inv

LEMMA DisconnectKeepsInv ==
  ASSUME Inv, NEW c \in Clients, Disconnect(c), UNCHANGED backendVars
  PROVE  Inv' /\ Quiet
<1>1. /\ Alive(client, c)
      /\ client' = [client EXCEPT ![c] = "gone"]
      /\ lockStatus' = IF lockStatus = c THEN Defunct ELSE lockStatus
      /\ UNCHANGED <<barrier, pending, owner, awaitingLocker, sleepPrepared, published>>
      /\ UNCHANGED <<seatActive, dev, invalidated, lockGeneration, scene, kms, glass, events>>
  BY DEF Disconnect, backendVars
<1>2. /\ client \in [Clients -> ClientStates] /\ client' \in [Clients -> ClientStates]
      /\ \A d \in Clients : client'[d] = IF d = c THEN "gone" ELSE client[d]
      /\ lockStatus \in Clients \cup {None, Defunct}
      /\ lockStatus' \in Clients \cup {None, Defunct}
      /\ pending \in Clients \cup {None}
  BY <1>1 DEF Inv, TypeOK, LockTypeOK, ClientStates
<1>3. TypeOK' /\ Base'
  BY <1>1, <1>2 DEF Inv, TypeOK, LockTypeOK, Base, Tags, Counted, CountedAt, Topology,
                    SessionLocked
<1>4. Sealed => Sealed'
  BY <1>1 DEF Sealed, SessionLocked
<1>5. SessionLocked' = SessionLocked
  BY <1>1 DEF SessionLocked
<1>6. Protocol'
  BY <1>1, <1>2, <1>4, <1>5, NoneAssumption DEF Inv, Protocol
<1>7. Quiet
  BY <1>1, <1>4, <1>5, NoneAssumption DEF Quiet
<1> QED BY <1>3, <1>6, <1>7 DEF Inv

\* lock-shield and prepare-sleep: both arm the shield and wait for a locker.
LEMMA ShieldKeepsInv ==
  ASSUME Inv, LockShield \/ PrepareSleep, UNCHANGED backendVars
  PROVE  Inv'
<1>1. /\ barrier' = Armed
      /\ awaitingLocker' = (awaitingLocker \/ ~SessionLocked)
      /\ sleepPrepared' \in BOOLEAN
      /\ UNCHANGED <<pending, owner, published, lockStatus, client>>
      /\ UNCHANGED <<seatActive, dev, invalidated, lockGeneration, scene, kms, glass, events>>
  BY DEF LockShield, PrepareSleep, backendVars, Inv, TypeOK, LockTypeOK
<1>2. Base' /\ SessionLocked' /\ (Sealed => Sealed')
  BY <1>1, ArmedKeepsBase DEF Inv
<1>3. Protocol'
  BY <1>1, <1>2 DEF Inv, Protocol
<1>4. TypeOK'
  BY <1>1, <1>2 DEF Inv, TypeOK, LockTypeOK, Base, GoodBarrier
<1> QED BY <1>2, <1>3, <1>4 DEF Inv

-----------------------------------------------------------------------------
(***************************************************************************)
(* The invariant, and what follows from it.                                *)
(***************************************************************************)

LEMMA InitInv == Init => Inv
<1> SUFFICES ASSUME Init PROVE Inv
  OBVIOUS
<1> DEFINE ready == NativeOutputsReady(TRUE, dev)
<1>1. ready \in BOOLEAN
  BY DEF NativeOutputsReady
<1>2. barrier = SetOutputsAvailable(NewBarrier, ready)
  BY DEF Init
<1> HIDE DEF ready
<1>3. /\ GoodBarrier(barrier) /\ Fades(NewBarrier, barrier)
      /\ barrier.outputsUnavailable = ~ready
  BY <1>1, <1>2, NewBarrierGood, AvailabilityFades
<1>4. ~SessionLocked /\ barrier.generation >= 0
  BY <1>3, NewBarrierGood DEF Fades, SessionLocked, GoodBarrier, Barriers
<1>5. barrier.generation \in Nat
  BY <1>3 DEF GoodBarrier, Barriers
<1>6. /\ pending = None /\ owner = None /\ awaitingLocker = FALSE
      /\ sleepPrepared = FALSE /\ lockStatus = None
      /\ client = [c \in Clients |-> "idle"]
      /\ published = {} /\ seatActive = TRUE
      /\ dev \in [Outputs -> {"absent", "down", "pending"}]
      /\ invalidated = {} /\ lockGeneration = NoLock
      /\ scene = [o \in Outputs |-> FALSE]
      /\ kms = [o \in Outputs |-> NoFrame]
      /\ glass = [o \in Outputs |-> Blank]
      /\ events = {}
  BY DEF Init, LockInit
<1>7. TypeOK
  <2>1. LockTypeOK
    BY <1>3, <1>6 DEF LockTypeOK, GoodBarrier, ClientStates
  <2> QED BY <1>6, <2>1 DEF TypeOK, DeviceStates, NoLock
<1>8. Tags
  BY <1>5, <1>6 DEF Tags, NoLock, Blank, NoFrame
<1>9. Counted /\ Topology
  BY <1>3, <1>4, <1>6 DEF Counted, Topology, Scanout, ready
<1>10. Protocol
  BY <1>4, <1>6, NoneAssumption DEF Protocol
<1> QED BY <1>3, <1>7, <1>8, <1>9, <1>10 DEF Inv, Base

LEMMA DeviceEventsKeepInv ==
  ASSUME Inv, DeviceEvents
  PROVE  Inv' /\ Quiet
<1>1. PICK o \in Unsteady : DeviceAdded(o) \/ DeviceAddedAway(o) \/ DeviceChanged(o)
                            \/ DeviceRemoved(o) \/ PresenterFailed(o)
  BY DEF DeviceEvents
<1>2. o \in Outputs
  BY UnsteadyAssumption
<1> QED BY <1>1, <1>2, DeviceAddedKeepsInv, DeviceAddedAwayKeepsInv,
           DeviceChangedKeepsInv, DeviceRemovedKeepsInv, PresenterFailedKeepsInv

LEMMA SeatEventsKeepInv ==
  ASSUME Inv, SeatEvents
  PROVE  Inv' /\ Quiet
BY PauseSessionKeepsInv, ActivateSessionKeepsInv, ResumeSessionAwayKeepsInv,
   ResumeSessionHereKeepsInv, RecoveryTimerKeepsInv DEF SeatEvents

LEMMA PresentationKeepsInv ==
  ASSUME Inv, Presentation
  PROVE  Inv' /\ Quiet
<1>1. CASE \E rendered \in SUBSET Outputs, failed \in SUBSET Unsteady :
             EventLoopTurn(rendered, failed)
  <2>1. PICK rendered \in SUBSET Outputs, failed \in SUBSET Unsteady :
          EventLoopTurn(rendered, failed)
    BY <1>1
  <2>2. failed \in SUBSET Outputs
    BY UnsteadyAssumption
  <2> QED BY <2>1, <2>2, EventLoopTurnKeepsInv
<1>2. CASE \E o \in Outputs : Configured(o) \/ QueueFrame(o) \/ PageFlip(o)
  BY <1>2, ConfiguredKeepsInv, QueueFrameKeepsInv, PageFlipKeepsInv
<1>3. CASE \E e \in events : PresentedEvent(e[1], e[2])
  <2>1. PICK e \in events : PresentedEvent(e[1], e[2])
    BY <1>3
  <2>2. e[1] \in Outputs /\ e[2] \in Nat
    BY <2>1 DEF Inv, TypeOK
  <2> QED BY <2>1, <2>2, PresentedEventKeepsInv
<1> QED BY <1>1, <1>2, <1>3 DEF Presentation

LEMMA StutterKeepsInv ==
  ASSUME Inv, UNCHANGED vars
  PROVE  Inv' /\ Quiet
<1>1. /\ UNCHANGED <<barrier, pending, owner, awaitingLocker, sleepPrepared,
                     published, lockStatus, client>>
      /\ UNCHANGED <<seatActive, dev, invalidated, lockGeneration, scene, kms,
                     glass, events>>
  BY DEF vars, lockVars, backendVars
<1>2. TypeOK'
  BY <1>1 DEF Inv, TypeOK, LockTypeOK
<1>3. Base'
  BY <1>1 DEF Inv, Base, Tags, Counted, CountedAt, Topology, SessionLocked
<1>4. Sealed' = Sealed /\ SessionLocked' = SessionLocked
  BY <1>1 DEF Sealed, SessionLocked
<1>5. Protocol' /\ Quiet
  BY <1>1, <1>4 DEF Inv, Protocol, Quiet
<1> QED BY <1>2, <1>3, <1>5 DEF Inv

LEMMA NextInv == Inv /\ [Next]_vars => Inv'
<1> SUFFICES ASSUME Inv, [Next]_vars PROVE Inv'
  OBVIOUS
<1>1. CASE LockRequests /\ UNCHANGED backendVars
  BY <1>1, LockRefusedKeepsInv, LockAcceptedKeepsInv, UnlockAndDestroyKeepsInv,
     DisconnectKeepsInv, ShieldKeepsInv DEF LockRequests
<1>2. CASE DeviceEvents
  BY <1>2, DeviceEventsKeepInv
<1>3. CASE SeatEvents
  BY <1>3, SeatEventsKeepInv
<1>4. CASE Presentation
  BY <1>4, PresentationKeepsInv
<1>5. CASE UNCHANGED vars
  BY <1>5, StutterKeepsInv
<1> QED BY <1>1, <1>2, <1>3, <1>4, <1>5 DEF Next

\* Every reachable state of the native session satisfies the invariant.
THEOREM Invariance == Spec => []Inv
BY InitInv, NextInv, PTL DEF Spec

\* The variables keep their types: no handler leaves a page flip, an event or
\* a device state the presenters do not know.
THEOREM TypeCorrect == Spec => []TypeOK
<1>1. Inv => TypeOK
  BY DEF Inv
<1> QED BY <1>1, Invariance, PTL

\* The lock is reported confirmed only while every connected screen shows a
\* frame of its current generation, for any number of screens and lockers.
THEOREM ConfirmedOnScreen == Spec => []ConfirmedMeansPresented
<1>1. Inv => ConfirmedMeansPresented
  BY ReadyMeansShown DEF Inv, ConfirmedMeansPresented, LockConfirmed
<1> QED BY <1>1, Invariance, PTL

\* A locker told `locked` is the only one, owns the lock, and the desktop is
\* neither on a screen nor on its way to one.
THEOREM AcknowledgedIsSealed == Spec => []AcknowledgedMeansSealed
<1>1. Inv => AcknowledgedMeansSealed
  <2> SUFFICES ASSUME Inv, NEW c \in Clients, client[c] = "locked"
               PROVE  Sealed /\ owner = c /\ lockStatus = c /\ pending = None
    BY DEF AcknowledgedMeansSealed
  <2>1. lockStatus = c /\ owner = c /\ c # None
    BY NoneAssumption DEF Inv, Protocol
  <2> QED BY <2>1 DEF Inv, Protocol
<1> QED BY <1>1, Invariance, PTL

\* The armed shield waits for exactly the advertised outputs, and a prepared
\* sleep finds it up.
THEOREM ShieldFollowsOutputs == Spec => []ShieldConsistent
<1>1. Inv => ShieldConsistent
  BY DEF Inv, Base, Topology, Protocol, ShieldConsistent
<1> QED BY <1>1, Invariance, PTL

-----------------------------------------------------------------------------
(***************************************************************************)
(* Steps.                                                                  *)
(***************************************************************************)

\* Only a lock request can do more than answer the pending locker.
LEMMA StepKinds ==
  ASSUME Inv, [Next]_vars
  PROVE  \/ Quiet
         \/ \E c \in Clients : LockAccepted(c) /\ UNCHANGED backendVars
         \/ \E c \in Clients : UnlockAndDestroy(c) /\ UNCHANGED backendVars
         \/ (LockShield \/ PrepareSleep) /\ UNCHANGED backendVars
<1>1. CASE LockRequests /\ UNCHANGED backendVars
  BY <1>1, LockRefusedKeepsInv, DisconnectKeepsInv DEF LockRequests
<1>2. CASE DeviceEvents
  BY <1>2, DeviceEventsKeepInv
<1>3. CASE SeatEvents
  BY <1>3, SeatEventsKeepInv
<1>4. CASE Presentation
  BY <1>4, PresentationKeepsInv
<1>5. CASE UNCHANGED vars
  BY <1>5, StutterKeepsInv
<1> QED BY <1>1, <1>2, <1>3, <1>4, <1>5 DEF Next

\* What an accepted lock request does to the promise.
LEMMA AcceptedFacts ==
  ASSUME Inv, NEW c \in Clients, LockAccepted(c), UNCHANGED backendVars
  PROVE  /\ owner = None /\ lockStatus = None
         /\ SessionLocked' /\ owner' = c /\ ~awaitingLocker'
         /\ sleepPrepared' = sleepPrepared
         /\ Sealed => Sealed'
         /\ lockStatus' # None => Sealed'
<1>1. /\ ~SessionLocked \/ awaitingLocker
      /\ barrier' = Armed /\ awaitingLocker' = FALSE /\ owner' = c
      /\ UNCHANGED <<sleepPrepared, published>>
  BY DEF LockAccepted
<1>2. owner = None /\ lockStatus = None
  BY <1>1 DEF Inv, Protocol
<1>3. SessionLocked' /\ (Sealed => Sealed')
  BY <1>1, ArmedKeepsBase DEF Inv
<1>4. lockStatus' # None => Sealed'
  BY LockAcceptedKeepsInv DEF Inv, Protocol
<1> QED BY <1>1, <1>2, <1>3, <1>4

LEMMA UnlockedFacts ==
  ASSUME Inv, NEW c \in Clients, UnlockAndDestroy(c), UNCHANGED backendVars
  PROVE  /\ SessionLocked /\ owner = c /\ client[c] = "locked" /\ ~awaitingLocker
         /\ Alive(client, c)
         /\ lockStatus # None /\ lockStatus' = None /\ owner' = None
         /\ client'[c] = "gone"
         /\ sleepPrepared' = sleepPrepared
         /\ awaitingLocker' = sleepPrepared
         /\ SessionLocked' = sleepPrepared
         /\ sleepPrepared => Sealed' = Sealed
<1>1. /\ lockStatus = c /\ lockStatus' = None /\ owner' = None
      /\ client' = [client EXCEPT ![c] = "gone"]
      /\ barrier' = IF sleepPrepared THEN barrier ELSE Unlock(barrier)
      /\ awaitingLocker' = sleepPrepared
      /\ UNCHANGED <<sleepPrepared, published>>
      /\ UNCHANGED <<seatActive, dev, invalidated, lockGeneration, scene, kms, glass, events>>
  BY DEF UnlockAndDestroy, backendVars
<1>2. owner = c /\ client[c] = "locked" /\ c # None /\ Sealed
  BY <1>1, NoneAssumption DEF Inv, Protocol
<1>3. SessionLocked /\ ~awaitingLocker
  BY <1>2 DEF Sealed, Inv, Protocol
<1>4. client'[c] = "gone"
  BY <1>1 DEF Inv, TypeOK, LockTypeOK
<1>5. SessionLocked' = sleepPrepared
  <2>1. sleepPrepared \in BOOLEAN /\ GoodBarrier(barrier)
    BY DEF Inv, Base, TypeOK, LockTypeOK
  <2>2. CASE sleepPrepared
    BY <1>1, <1>3, <2>1, <2>2 DEF SessionLocked, GoodBarrier, Barriers
  <2>3. CASE ~sleepPrepared
    <3>1. Unlock(barrier).active = FALSE
      BY <2>1, UnlockFacts DEF GoodBarrier, Barriers
    <3> QED BY <1>1, <2>1, <2>3, <3>1 DEF SessionLocked
  <2> QED BY <2>2, <2>3
<1>6. sleepPrepared => Sealed' = Sealed
  BY <1>1 DEF Sealed, SessionLocked
<1> QED BY <1>1, <1>2, <1>3, <1>4, <1>5, <1>6 DEF Alive

LEMMA ShieldFacts ==
  ASSUME Inv, LockShield \/ PrepareSleep, UNCHANGED backendVars
  PROVE  /\ SessionLocked'
         /\ awaitingLocker' = (awaitingLocker \/ ~SessionLocked)
         /\ UNCHANGED <<owner, lockStatus>>
         /\ Sealed => Sealed'
         /\ SessionLocked => Sealed' = Sealed
         /\ sleepPrepared' \in {sleepPrepared, TRUE}
<1>1. /\ barrier' = Armed
      /\ awaitingLocker' = (awaitingLocker \/ ~SessionLocked)
      /\ sleepPrepared' \in {sleepPrepared, TRUE}
      /\ UNCHANGED <<pending, owner, published, lockStatus, client>>
      /\ UNCHANGED <<seatActive, dev, invalidated, lockGeneration, scene, kms, glass, events>>
  BY DEF LockShield, PrepareSleep, backendVars
<1>2. SessionLocked' /\ (Sealed => Sealed')
  BY <1>1, ArmedKeepsBase DEF Inv
<1>3. SessionLocked => Sealed' = Sealed
  BY <1>1 DEF Armed, Sealed, SessionLocked
<1> QED BY <1>1, <1>2, <1>3

\* The shield drops only when the acknowledged owner unlocks with no sleep
\* prepared, and a vanished owner is never replaced.
THEOREM OwnerReveals == Spec => OnlyOwnerReveals
<1> DEFINE A == /\ (SessionLocked /\ ~SessionLocked')
                     => /\ ~sleepPrepared
                        /\ \E c \in Clients : /\ client[c] = "locked" /\ owner = c
                                              /\ client'[c] = "gone"
                /\ (owner # None /\ ~Alive(client, owner))
                     => UNCHANGED owner /\ SessionLocked'
<1>1. ASSUME Inv, [Next]_vars PROVE A
  <2>1. owner # None => SessionLocked
    BY <1>1 DEF Inv, Protocol
  <2>2. CASE Quiet
    BY <2>1, <2>2 DEF Quiet
  <2>3. ASSUME NEW c \in Clients, LockAccepted(c), UNCHANGED backendVars PROVE A
    BY <1>1, <2>3, AcceptedFacts
  <2>4. ASSUME NEW c \in Clients, UnlockAndDestroy(c), UNCHANGED backendVars PROVE A
    BY <1>1, <2>4, UnlockedFacts
  <2>5. CASE (LockShield \/ PrepareSleep) /\ UNCHANGED backendVars
    BY <1>1, <2>5, ShieldFacts
  <2> QED BY <1>1, <2>2, <2>3, <2>4, <2>5, StepKinds
<1>2. Inv /\ [Next]_vars => [A]_vars
  BY <1>1
<1> QED BY <1>2, Invariance, PTL DEF Spec, OnlyOwnerReveals

\* The native session keeps the abstract promise of the session lock: each of
\* its steps is a step of LockPromise or invisible to it.
THEOREM KeepsPromise == Spec => PromiseSpec
<1>1. Init => Promise!Init
  <2> SUFFICES ASSUME Init PROVE Promise!Init
    OBVIOUS
  <2>1. ~SessionLocked
    <3>1. NativeOutputsReady(TRUE, dev) \in BOOLEAN
      BY DEF NativeOutputsReady
    <3> QED BY <3>1, NewBarrierGood, AvailabilityFades DEF Init, Fades, SessionLocked
  <2> QED BY <2>1 DEF Init, LockInit, Promise!Init, Sealed
<1>2. ASSUME Inv, [Next]_vars PROVE [Promise!Next]_(Promise!vars)
  <2>1. /\ Sealed \in BOOLEAN /\ Sealed' \in BOOLEAN
        /\ sleepPrepared \in BOOLEAN
        /\ Sealed => SessionLocked
        /\ lockStatus # None => Sealed
        /\ pending # None => owner # None
        /\ sleepPrepared => SessionLocked
        /\ ~SessionLocked => owner = None /\ ~awaitingLocker
        /\ owner = None => lockStatus = None
        /\ awaitingLocker => owner = None
    BY <1>2 DEF Inv, Protocol, Sealed, SessionLocked, TypeOK, LockTypeOK
  <2>2. CASE Quiet
    <3>1. /\ SessionLocked' = SessionLocked /\ UNCHANGED <<owner, awaitingLocker>>
          /\ sleepPrepared' \in {sleepPrepared, FALSE}
          /\ Sealed => Sealed'
      BY <2>2 DEF Quiet
    <3>2. CASE pending # None /\ lockStatus = None /\ lockStatus' # None /\ Sealed'
      <4>1. Promise!Acknowledge
        BY <2>1, <3>1, <3>2 DEF Promise!Acknowledge, Promise!Sealing
      <4> QED BY <4>1 DEF Promise!Next
    <3>3. CASE (lockStatus' = None <=> lockStatus = None) /\ ~Sealed /\ Sealed'
      <4>1. SessionLocked /\ SessionLocked'
        BY <3>1, <3>3 DEF Sealed
      <4>2. Promise!Seal
        BY <2>1, <3>1, <3>3, <4>1 DEF Promise!Seal, Promise!Sealing
      <4> QED BY <4>2 DEF Promise!Next
    <3>4. CASE (lockStatus' = None <=> lockStatus = None) /\ (Sealed \/ ~Sealed')
      <4>1. Sealed' = Sealed
        BY <2>1, <3>1, <3>4
      <4>2. CASE sleepPrepared' = sleepPrepared
        BY <3>1, <3>4, <4>1, <4>2 DEF Promise!vars
      <4>3. CASE sleepPrepared' = FALSE
        <5>1. Promise!Resume
          BY <3>1, <3>4, <4>1, <4>3 DEF Promise!Resume
        <5> QED BY <5>1 DEF Promise!Next
      <4> QED BY <3>1, <4>2, <4>3
    <3> QED BY <2>2, <3>2, <3>3, <3>4 DEF Quiet
  <2>3. ASSUME NEW c \in Clients, LockAccepted(c), UNCHANGED backendVars
        PROVE  Promise!Next
    <3>1. /\ owner = None /\ lockStatus = None
          /\ SessionLocked' /\ owner' = c /\ ~awaitingLocker'
          /\ sleepPrepared' = sleepPrepared
          /\ Sealed => Sealed'
          /\ lockStatus' # None => Sealed'
      BY <1>2, <2>3, AcceptedFacts
    <3>2. ~SessionLocked \/ awaitingLocker
      BY <2>3 DEF LockAccepted
    <3>3. (lockStatus' # None) \in {FALSE, Sealed'}
      BY <2>1, <3>1
    <3>4. Promise!Claim(c)
      BY <2>1, <3>1, <3>2, <3>3 DEF Promise!Claim, Promise!Sealing
    <3> QED BY <3>4 DEF Promise!Next
  <2>4. ASSUME NEW c \in Clients, UnlockAndDestroy(c), UNCHANGED backendVars
        PROVE  Promise!Next
    <3>1. /\ SessionLocked /\ owner = c /\ ~awaitingLocker
          /\ lockStatus # None /\ lockStatus' = None /\ owner' = None
          /\ sleepPrepared' = sleepPrepared
          /\ awaitingLocker' = sleepPrepared
          /\ SessionLocked' = sleepPrepared
          /\ sleepPrepared => Sealed' = Sealed
      BY <1>2, <2>4, UnlockedFacts
    <3>2. CASE sleepPrepared
      BY <2>1, <3>1, <3>2 DEF Promise!Next, Promise!Release, Promise!Sealing
    <3>3. CASE ~sleepPrepared
      <4>1. ~SessionLocked' /\ Sealed' = FALSE
        BY <2>1, <3>1, <3>3 DEF Sealed
      <4>2. Promise!Release
        BY <2>1, <3>1, <3>3, <4>1 DEF Promise!Release
      <4> QED BY <4>2 DEF Promise!Next
    <3> QED BY <3>2, <3>3
  <2>5. CASE (LockShield \/ PrepareSleep) /\ UNCHANGED backendVars
    <3>1. /\ SessionLocked'
          /\ awaitingLocker' = (awaitingLocker \/ ~SessionLocked)
          /\ UNCHANGED <<owner, lockStatus>>
          /\ Sealed => Sealed'
          /\ SessionLocked => Sealed' = Sealed
          /\ sleepPrepared' \in {sleepPrepared, TRUE}
      BY <1>2, <2>5, ShieldFacts
    <3>2. CASE ~SessionLocked
      <4>1. Promise!Shield
        BY <2>1, <3>1, <3>2 DEF Promise!Shield, Promise!Sealing
      <4> QED BY <4>1 DEF Promise!Next
    <3>3. CASE SessionLocked /\ sleepPrepared' = sleepPrepared
      BY <2>1, <3>1, <3>3 DEF Promise!vars
    <3>4. CASE SessionLocked /\ sleepPrepared' = TRUE
      <4>1. Promise!PrepareSleep
        BY <2>1, <3>1, <3>4 DEF Promise!PrepareSleep
      <4> QED BY <4>1 DEF Promise!Next
    <3> QED BY <3>1, <3>2, <3>3, <3>4
  <2> QED BY <1>2, <2>2, <2>3, <2>4, <2>5, StepKinds
<1> QED BY <1>1, <1>2, Invariance, PTL DEF Spec, PromiseSpec, Promise!Spec
-----------------------------------------------------------------------------
(***************************************************************************)
(* The headless backend, whose state MCSessionLock keeps beside that of    *)
(* the native one.  It has one output, so what is shown needs no list of   *)
(* screens: the barrier has counted a frame only if one was rendered.      *)
(***************************************************************************)
HeadlessLocked == headlessBarrier.active
HeadlessSealed == HeadlessLocked /\ headlessGlass # NoLock

HeadlessInv ==
  /\ GoodBarrier(headlessBarrier)
  /\ headlessAwaiting \in BOOLEAN /\ headlessPrepared \in BOOLEAN
  /\ headlessPublished = Outputs
  /\ HeadlessLocked => headlessBarrier.outputs = Outputs
  /\ HeadlessLocked /\ headlessBarrier.presented # {} => headlessGlass # NoLock
  /\ headlessPrepared => HeadlessLocked
  /\ ~HeadlessLocked => headlessOwner = None /\ ~headlessAwaiting
  /\ headlessAwaiting => headlessOwner = None
  /\ headlessOwner = None => headlessPending = None /\ headlessStatus = None
  /\ headlessPending # None => headlessStatus = None
  /\ headlessStatus # None => HeadlessSealed

HeadlessStep == [Headless!Promise!Next]_(Headless!Promise!vars)

\* The instance has operators of its own; they are those of PresentationBarrier.
LEMMA HeadlessOperators ==
  /\ \A b, o : Headless!Begin(b, o) = Begin(b, o)
  /\ \A b : /\ Headless!Invalidate(b) = Invalidate(b)
            /\ Headless!Unlock(b) = Unlock(b)
            /\ Headless!Ready(b) = Ready(b)
            /\ Headless!Generation(b) = Generation(b)
  /\ Headless!SessionLocked = HeadlessLocked
  /\ (Headless!SessionLocked)' = HeadlessLocked'
  /\ Headless!Desktop = NoLock
<1>1. \A b, o : Headless!Begin(b, o) = Begin(b, o)
  BY DEF Headless!Begin, Begin
<1>2. \A b : Headless!Invalidate(b) = Invalidate(b)
  BY DEF Headless!Invalidate, Invalidate
<1>3. \A b : Headless!Unlock(b) = Unlock(b)
  BY DEF Headless!Unlock, Unlock
<1>4. \A b : Headless!Ready(b) = Ready(b)
  BY DEF Headless!Ready, Ready
<1>5. \A b : Headless!Generation(b) = Generation(b)
  BY DEF Headless!Generation, Generation, Headless!NoLock, NoLock
<1>6. Headless!SessionLocked = HeadlessLocked /\ (Headless!SessionLocked)' = HeadlessLocked'
  BY DEF Headless!SessionLocked, HeadlessLocked
<1>7. Headless!Desktop = NoLock
  BY DEF Headless!Desktop, Headless!NoLock, NoLock
<1> QED BY <1>1, <1>2, <1>3, <1>4, <1>5, <1>6, <1>7

\* A locker is told only when the barrier is ready.
LEMMA HeadlessConfirms ==
  ASSUME NEW b, NEW waiting, NEW told, Headless!ConfirmIfPresented(b, waiting, told)
  PROVE  /\ headlessPending' \in {waiting, None}
         /\ \/ headlessStatus' = headlessStatus
            \/ /\ Ready(b) /\ waiting # None
               /\ headlessStatus' = waiting /\ headlessPending' = None
BY HeadlessOperators DEF Headless!ConfirmIfPresented

LEMMA ReadyHasPresented ==
  ASSUME NEW b, GoodBarrier(b), b.outputs = Outputs, Outputs # {}, Ready(b)
  PROVE  b.presented # {}
BY DEF Ready

LEMMA HeadlessArmed ==
  ASSUME HeadlessInv, Outputs # {}
  PROVE  /\ GoodBarrier(Headless!Armed)
         /\ (Headless!Armed).active
         /\ (Headless!Armed).outputs = Outputs
         /\ (Headless!Armed).presented # {} => HeadlessSealed
         /\ HeadlessLocked => Headless!Armed = headlessBarrier
<1>1. CASE HeadlessLocked
  <2>1. Headless!Armed = headlessBarrier
    BY <1>1, HeadlessOperators DEF Headless!Armed
  <2> QED BY <1>1, <2>1 DEF HeadlessInv, HeadlessLocked, HeadlessSealed
<1>2. CASE ~HeadlessLocked
  <2>1. Headless!Armed = Begin(headlessBarrier, Outputs)
    BY <1>2, HeadlessOperators DEF Headless!Armed, HeadlessInv
  <2> QED BY <1>2, <2>1, BeginFacts DEF HeadlessInv
<1> QED BY <1>1, <1>2

LEMMA HeadlessAccepts ==
  ASSUME HeadlessInv, Outputs # {}, NEW c \in Clients,
         Headless!LockAccepted(c), UNCHANGED headlessGlass
  PROVE  HeadlessInv' /\ HeadlessStep
<1>1. /\ ~HeadlessLocked \/ headlessAwaiting
      /\ headlessBarrier' = Headless!Armed
      /\ headlessAwaiting' = FALSE /\ headlessOwner' = c
      /\ UNCHANGED <<headlessPrepared, headlessPublished>>
      /\ Headless!ConfirmIfPresented(headlessBarrier', c,
                                     [headlessClient EXCEPT ![c] = "waiting"])
  BY HeadlessOperators DEF Headless!LockAccepted
<1>2. headlessOwner = None /\ headlessStatus = None /\ c # None
  BY <1>1, NoneAssumption DEF HeadlessInv
<1>3. /\ headlessPending' \in {c, None}
      /\ \/ headlessStatus' = None
         \/ Ready(headlessBarrier') /\ headlessStatus' = c /\ headlessPending' = None
  BY <1>1, <1>2, HeadlessConfirms
<1>4. /\ GoodBarrier(headlessBarrier') /\ HeadlessLocked' /\ headlessBarrier'.outputs = Outputs
      /\ headlessBarrier'.presented # {} => HeadlessSealed
  BY <1>1, HeadlessArmed DEF HeadlessLocked
<1>5. HeadlessSealed => HeadlessSealed'
  BY <1>4 DEF HeadlessSealed
<1>6. headlessStatus' # None => HeadlessSealed'
  BY <1>3, <1>4, <1>5, ReadyHasPresented
<1>7. HeadlessInv'
  BY <1>1, <1>2, <1>3, <1>4, <1>5, <1>6 DEF HeadlessInv, HeadlessSealed
<1>8. Headless!Promise!Claim(c)
  BY <1>1, <1>2, <1>4, <1>5, <1>6, HeadlessOperators
  DEF Headless!Promise!Claim, Headless!Promise!Sealing, HeadlessSealed, HeadlessInv
<1> QED BY <1>7, <1>8 DEF HeadlessStep, Headless!Promise!Next

LEMMA HeadlessUnlocks ==
  ASSUME HeadlessInv, NEW c \in Clients, Headless!UnlockAndDestroy(c), UNCHANGED headlessGlass
  PROVE  HeadlessInv' /\ HeadlessStep
<1>1. /\ headlessStatus = c /\ headlessStatus' = None
      /\ headlessPending' = None /\ headlessOwner' = None
      /\ headlessBarrier' = IF headlessPrepared THEN headlessBarrier ELSE Unlock(headlessBarrier)
      /\ headlessAwaiting' = headlessPrepared
      /\ UNCHANGED <<headlessPrepared, headlessPublished>>
  BY HeadlessOperators DEF Headless!UnlockAndDestroy
<1>2. headlessStatus # None /\ HeadlessSealed /\ HeadlessLocked /\ ~headlessAwaiting
  BY <1>1, NoneAssumption DEF HeadlessInv, HeadlessSealed
<1>3. CASE headlessPrepared
  <2>1. HeadlessInv' /\ HeadlessLocked' /\ HeadlessSealed'
    BY <1>1, <1>2, <1>3 DEF HeadlessInv, HeadlessSealed, HeadlessLocked
  <2>2. Headless!Promise!Release
    BY <1>1, <1>2, <1>3, <2>1, HeadlessOperators
    DEF Headless!Promise!Release, Headless!Promise!Sealing, HeadlessSealed
  <2> QED BY <2>1, <2>2 DEF HeadlessStep, Headless!Promise!Next
<1>4. CASE ~headlessPrepared
  <2>1. GoodBarrier(headlessBarrier') /\ ~HeadlessLocked'
    BY <1>1, <1>4, UnlockFacts DEF HeadlessInv, HeadlessLocked
  <2>2. HeadlessInv'
    BY <1>1, <1>4, <2>1 DEF HeadlessInv
  <2>3. Headless!Promise!Release
    BY <1>1, <1>2, <1>4, <2>1, HeadlessOperators DEF Headless!Promise!Release
  <2> QED BY <2>2, <2>3 DEF HeadlessStep, Headless!Promise!Next
<1> QED BY <1>3, <1>4

\* A refused request and a vanished locker change nothing that was promised.
LEMMA HeadlessLosesLocker ==
  ASSUME HeadlessInv, NEW c \in Clients,
         Headless!LockRefused(c) \/ Headless!Disconnect(c), UNCHANGED headlessGlass
  PROVE  HeadlessInv' /\ HeadlessStep
<1>1. /\ UNCHANGED <<headlessBarrier, headlessPending, headlessOwner, headlessAwaiting,
                     headlessPrepared, headlessPublished>>
      /\ headlessStatus' = headlessStatus \/ (headlessStatus = c /\ headlessStatus' = Defunct)
  BY DEF Headless!LockRefused, Headless!Disconnect
<1>2. headlessStatus' = None <=> headlessStatus = None
  BY <1>1, NoneAssumption
<1>3. HeadlessInv'
  BY <1>1, <1>2 DEF HeadlessInv, HeadlessSealed, HeadlessLocked
<1>4. UNCHANGED Headless!Promise!vars
  BY <1>1, <1>2, HeadlessOperators DEF Headless!Promise!vars, HeadlessLocked
<1> QED BY <1>3, <1>4 DEF HeadlessStep

LEMMA HeadlessShields ==
  ASSUME HeadlessInv, Outputs # {},
         Headless!LockShield \/ Headless!PrepareSleep, UNCHANGED headlessGlass
  PROVE  HeadlessInv' /\ HeadlessStep
<1>1. /\ headlessBarrier' = Headless!Armed
      /\ headlessAwaiting' = (headlessAwaiting \/ ~HeadlessLocked)
      /\ headlessPrepared' \in {headlessPrepared, TRUE}
      /\ UNCHANGED <<headlessPending, headlessOwner, headlessPublished, headlessStatus>>
  BY HeadlessOperators DEF Headless!LockShield, Headless!PrepareSleep
<1>2. /\ GoodBarrier(headlessBarrier') /\ HeadlessLocked' /\ headlessBarrier'.outputs = Outputs
      /\ headlessBarrier'.presented # {} => HeadlessSealed
      /\ HeadlessLocked => headlessBarrier' = headlessBarrier
  BY <1>1, HeadlessArmed DEF HeadlessLocked
<1>3. (HeadlessSealed => HeadlessSealed') /\ (HeadlessLocked => HeadlessSealed' = HeadlessSealed)
  BY <1>2 DEF HeadlessSealed
<1>4. HeadlessInv'
  BY <1>1, <1>2, <1>3 DEF HeadlessInv, HeadlessSealed
<1>5. CASE ~HeadlessLocked
  <2>1. Headless!Promise!Shield
    BY <1>1, <1>2, <1>5, HeadlessOperators
    DEF Headless!Promise!Shield, Headless!Promise!Sealing, HeadlessInv, HeadlessSealed
  <2> QED BY <1>4, <2>1 DEF HeadlessStep, Headless!Promise!Next
<1>6. CASE HeadlessLocked /\ headlessPrepared' = headlessPrepared
  <2>1. UNCHANGED Headless!Promise!vars
    BY <1>1, <1>2, <1>6, HeadlessOperators DEF Headless!Promise!vars, HeadlessInv
  <2> QED BY <1>4, <2>1 DEF HeadlessStep
<1>7. CASE HeadlessLocked /\ headlessPrepared' = TRUE
  <2>1. Headless!Promise!PrepareSleep
    BY <1>1, <1>2, <1>7, HeadlessOperators DEF Headless!Promise!PrepareSleep, HeadlessInv
  <2> QED BY <1>4, <2>1 DEF HeadlessStep, Headless!Promise!Next
<1> QED BY <1>1, <1>5, <1>6, <1>7

LEMMA HeadlessRenders ==
  ASSUME HeadlessInv, Outputs # {}, Headless!Render
  PROVE  HeadlessInv' /\ HeadlessStep
<1>1. CASE HeadlessLocked
  <2> DEFINE b == [headlessBarrier EXCEPT
                     !.presented = @ \cup (headlessPublished \cap headlessBarrier.outputs)]
  <2>1. /\ headlessGlass' = headlessBarrier.generation
        /\ headlessBarrier' = b
        /\ Headless!ConfirmIfPresented(headlessBarrier', headlessPending, headlessClient)
        /\ UNCHANGED <<headlessOwner, headlessAwaiting, headlessPrepared, headlessPublished>>
    BY <1>1, HeadlessOperators DEF Headless!Render, Generation, HeadlessLocked
  <2>2. /\ b \in Barriers /\ b.active /\ b.outputs = Outputs
        /\ b.generation = headlessBarrier.generation /\ b.generation > 0
        /\ b.presented \subseteq b.outputs
    <3>1. /\ headlessBarrier \in Barriers /\ headlessBarrier.presented \subseteq Outputs
          /\ headlessBarrier.generation > 0 /\ headlessBarrier.outputs = Outputs
      BY <1>1 DEF HeadlessInv, GoodBarrier, HeadlessLocked
    <3>2. b \in Barriers
      BY <3>1, SetPresented DEF Barriers
    <3> QED BY <1>1, <3>1, <3>2 DEF Barriers, HeadlessLocked
  <2> HIDE DEF b
  <2>3. GoodBarrier(headlessBarrier') /\ HeadlessLocked' /\ headlessBarrier'.outputs = Outputs
    BY <2>1, <2>2 DEF GoodBarrier, HeadlessLocked
  <2>4. headlessGlass' # NoLock /\ HeadlessSealed'
    BY <2>1, <2>2, <2>3 DEF HeadlessSealed, NoLock
  <2>5. /\ headlessPending' \in {headlessPending, None}
        /\ \/ headlessStatus' = headlessStatus
           \/ /\ headlessPending # None
              /\ headlessStatus' = headlessPending /\ headlessPending' = None
    BY <2>1, HeadlessConfirms
  <2>6. HeadlessInv'
    BY <2>1, <2>3, <2>4, <2>5 DEF HeadlessInv
  <2>7. CASE headlessStatus' = headlessStatus
    <3>1. Headless!Promise!Seal
      BY <1>1, <2>1, <2>3, <2>4, <2>7, HeadlessOperators
      DEF Headless!Promise!Seal, Headless!Promise!Sealing, HeadlessInv
    <3> QED BY <2>6, <3>1 DEF HeadlessStep, Headless!Promise!Next
  <2>8. CASE headlessPending # None /\ headlessStatus' = headlessPending
    <3>1. headlessStatus = None /\ headlessStatus' # None /\ ~headlessAwaiting
      BY <2>8 DEF HeadlessInv
    <3>2. Headless!Promise!Acknowledge
      BY <1>1, <2>1, <2>3, <2>4, <3>1, HeadlessOperators
      DEF Headless!Promise!Acknowledge, Headless!Promise!Sealing, HeadlessInv
    <3> QED BY <2>6, <3>2 DEF HeadlessStep, Headless!Promise!Next
  <2> QED BY <2>5, <2>7, <2>8
<1>2. CASE ~HeadlessLocked
  <2>1. UNCHANGED <<headlessBarrier, headlessPending, headlessOwner, headlessAwaiting,
                    headlessPrepared, headlessPublished, headlessStatus>>
    BY <1>2, HeadlessOperators DEF Headless!Render, Headless!lockVars
  <2>2. HeadlessInv'
    BY <1>2, <2>1 DEF HeadlessInv, HeadlessLocked, HeadlessSealed
  <2>3. UNCHANGED Headless!Promise!vars
    BY <1>2, <2>1, HeadlessOperators DEF Headless!Promise!vars, HeadlessLocked
  <2> QED BY <2>2, <2>3 DEF HeadlessStep
<1> QED BY <1>1, <1>2

LEMMA HeadlessResumes ==
  ASSUME HeadlessInv, Headless!ResumeSession
  PROVE  HeadlessInv' /\ HeadlessStep
<1>1. /\ headlessPrepared' = FALSE /\ headlessBarrier' = Invalidate(headlessBarrier)
      /\ UNCHANGED <<headlessPending, headlessOwner, headlessAwaiting, headlessPublished,
                     headlessStatus, headlessGlass>>
  BY HeadlessOperators DEF Headless!ResumeSession, Headless!FinishSleepPreparation
<1>2. /\ GoodBarrier(headlessBarrier') /\ Fades(headlessBarrier, headlessBarrier')
      /\ headlessBarrier'.outputs = headlessBarrier.outputs
  BY <1>1, InvalidateFades DEF HeadlessInv
<1>3. HeadlessLocked' = HeadlessLocked /\ headlessBarrier'.presented \subseteq headlessBarrier.presented
  BY <1>2 DEF Fades, HeadlessLocked
<1>4. HeadlessSealed' = HeadlessSealed
  BY <1>1, <1>3 DEF HeadlessSealed
<1>5. HeadlessInv'
  BY <1>1, <1>2, <1>3, <1>4 DEF HeadlessInv
<1>6. Headless!Promise!Resume
  BY <1>1, <1>3, HeadlessOperators DEF Headless!Promise!Resume
<1> QED BY <1>5, <1>6 DEF HeadlessStep, Headless!Promise!Next

\* The headless session keeps the promise of LockPromise as well, with the one output it has.
THEOREM HeadlessKeepsPromise ==
  ASSUME Outputs # {}
  PROVE  Headless!Spec => HeadlessPromise
<1>1. Headless!Init => HeadlessInv /\ Headless!Promise!Init
  <2> SUFFICES ASSUME Headless!Init PROVE HeadlessInv /\ Headless!Promise!Init
    OBVIOUS
  <2>1. headlessBarrier = NewBarrier /\ headlessPublished = Outputs
    BY DEF Headless!Init, Headless!NewBarrier, NewBarrier
  <2>2. GoodBarrier(headlessBarrier) /\ ~HeadlessLocked
    BY <2>1, NewBarrierGood DEF HeadlessLocked
  <2>3. /\ headlessPending = None /\ headlessOwner = None /\ headlessAwaiting = FALSE
        /\ headlessPrepared = FALSE /\ headlessStatus = None
    BY DEF Headless!Init, Headless!LockInit
  <2> QED BY <2>1, <2>2, <2>3, HeadlessOperators DEF HeadlessInv, Headless!Promise!Init
<1>2. HeadlessInv /\ [Headless!Next]_(Headless!vars) => HeadlessInv' /\ HeadlessStep
  <2> SUFFICES ASSUME HeadlessInv, [Headless!Next]_(Headless!vars)
               PROVE  HeadlessInv' /\ HeadlessStep
    OBVIOUS
  <2>1. CASE Headless!LockRequests /\ UNCHANGED headlessGlass
    BY <2>1, HeadlessAccepts, HeadlessUnlocks, HeadlessLosesLocker, HeadlessShields
    DEF Headless!LockRequests
  <2>2. CASE Headless!Render
    BY <2>2, HeadlessRenders
  <2>3. CASE Headless!ResumeSession
    BY <2>3, HeadlessResumes
  <2>4. CASE UNCHANGED Headless!vars
    <3>1. UNCHANGED <<headlessBarrier, headlessPending, headlessOwner, headlessAwaiting,
                      headlessPrepared, headlessPublished, headlessStatus, headlessGlass>>
      BY <2>4 DEF Headless!vars, Headless!lockVars
    <3>2. HeadlessInv'
      BY <3>1 DEF HeadlessInv, HeadlessLocked, HeadlessSealed
    <3>3. UNCHANGED Headless!Promise!vars
      BY <3>1, HeadlessOperators DEF Headless!Promise!vars, HeadlessLocked
    <3> QED BY <3>2, <3>3 DEF HeadlessStep
  <2> QED BY <2>1, <2>2, <2>3, <2>4 DEF Headless!Next
<1> QED
  BY <1>1, <1>2, PTL
  DEF Headless!Spec, HeadlessStep, HeadlessPromise, Headless!PromiseSpec, Headless!Promise!Spec
=============================================================================

---------------------------- MODULE NativeSession ----------------------------
(***************************************************************************)
(* The session lock on the native backend (udev + KMS).                    *)
(*                                                                         *)
(* Two kinds of thread share this state.  The event loop thread runs the   *)
(* handlers: lock requests, libseat pause and activate, udev hotplug, the  *)
(* recovery timer, presenter events, and, after each batch of them, the    *)
(* tail of the loop (EventLoopTurn).  One presenter thread per GPU queues  *)
(* frames to KMS and takes their page flips (QueueFrame, PageFlip); its    *)
(* mailbox, which may queue less than this does, is left out.              *)
(*                                                                         *)
(* A GPU drives one output here, so `dev` is indexed by output:            *)
(*   absent        not in the seat's device list                           *)
(*   down          listed, but closed, inactive or without surfaces        *)
(*   pending       active, waiting for its presenter's Configured          *)
(*   live          scanning out                                            *)
(*   faulty        scanning out, but a render or its presenter failed      *)
(*   undiscovered  scanning out, but its connectors could not be read      *)
(***************************************************************************)
EXTENDS SessionLock, FiniteSets

CONSTANTS
  Unsteady,        \* bound: the outputs whose devices come, go and fail
  MaxInFlight      \* bound: presented events of one screen on their way

ASSUME UnsteadyAssumption == Unsteady \subseteq Outputs

VARIABLES
  seatActive,      \* session_active and session.is_active()
  dev,             \* opened_devices and devices, per output (above)
  invalidated,     \* PublishedOutputs.invalidated
  lockGeneration,  \* backend.lock_generation: the tag the presenters hold
  scene,           \* the presenter of o holds a scene made under lockGeneration
  kms,             \* the frame queued to KMS and not flipped yet
  glass,           \* what the screen shows
  events           \* Presented events on their way to the event loop

backendVars == <<seatActive, dev, invalidated, lockGeneration,
                 scene, kms, glass, events>>
vars == <<lockVars, backendVars>>

DeviceStates == {"absent", "down", "pending", "live", "faulty", "undiscovered"}
Scanout == {"live", "faulty", "undiscovered"}   \* output_surfaces is not empty

(***************************************************************************)
(* Frames are identified by what they show: Desktop (composed with the     *)
(* shield down), Blank (black, or another session's picture), or the lock  *)
(* generation n > 0 they were composed for.  A queued frame also needs     *)
(* "no frame".                                                             *)
(***************************************************************************)
Desktop == NoLock
Blank == -1
NoFrame == -2

TypeOK ==
  /\ LockTypeOK
  /\ seatActive \in BOOLEAN
  /\ dev \in [Outputs -> DeviceStates]
  /\ invalidated \in SUBSET Outputs
  /\ lockGeneration \in Nat
  /\ scene \in [Outputs -> BOOLEAN]
  /\ kms \in [Outputs -> Nat \cup {Blank, NoFrame}]
  /\ glass \in [Outputs -> Nat \cup {Blank}]
  /\ events \in SUBSET (Outputs \X Nat)

\* native_outputs_ready
NativeOutputsReady(active, d) ==
  active /\ \A o \in Outputs : d[o] \in {"absent", "live"}

(***************************************************************************)
(* Startup: the GPUs found are being configured, nothing is published yet. *)
(***************************************************************************)
Init ==
  /\ LockInit
  /\ published = {}
  /\ seatActive = TRUE
  /\ dev \in [Outputs -> {"absent", "down", "pending"}]
  /\ \A o \in Outputs \ Unsteady : dev[o] = "pending"
  /\ invalidated = {}
  /\ lockGeneration = NoLock
  /\ scene = [o \in Outputs |-> FALSE]
  /\ kms = [o \in Outputs |-> NoFrame]
  /\ glass = [o \in Outputs |-> Blank]
  /\ events = {}
  /\ barrier = SetOutputsAvailable(NewBarrier, NativeOutputsReady(TRUE, dev))

-----------------------------------------------------------------------------
(***************************************************************************)
(* Publishing a topology change: connector_sync, PublishedOutputs.update   *)
(* and apply_connector_sync.  An output being reconfigured stays published *)
(* if it was; a new one is published when it scans out.                    *)
(***************************************************************************)
NextPublished(d) ==
  {o \in Outputs : d[o] \in Scanout \/ (d[o] = "pending" /\ o \in published)}

Synced(b, ready, changed) ==
  LET b1 == SetOutputsAvailable(b, ready)
  IN  IF changed THEN Invalidate(b1) ELSE b1

ApplyWithoutReconfigure(b, ready, replaced) ==
  LET changed == published' # published \/ replaced # {}
      synced == Synced(b, ready, changed)
  IN  /\ invalidated' = {}
      /\ synced.generation =< MaxGeneration
      /\ \/ changed /\ ReconfigureLockOutputs(synced)
         \/ ~changed /\ barrier' = synced
            /\ UNCHANGED <<pending, lockStatus, client>>

ApplyConnectorSync(b, ready, replaced) ==
  LET changed == published' # published \/ replaced # {}
      synced == Synced(b, ready, changed)
  IN  /\ invalidated' = {}
      /\ synced.generation =< MaxGeneration
      /\ \/ (changed \/ ready) /\ ReconfigureLockOutputs(synced)
         \/ ~(changed \/ ready) /\ barrier' = synced
            /\ UNCHANGED <<pending, lockStatus, client>>

\* With the seat active.
PublishDevices(b, replaced) ==
  /\ published' = NextPublished(dev')
  /\ ApplyConnectorSync(b, NativeOutputsReady(TRUE, dev'), replaced)

\* Outputs whose scanout is replaced or lost: their presenter drops its scene.
Replaced == {o \in Outputs : dev[o] \in Scanout /\ dev'[o] \notin Scanout}

DropScenes ==
  scene' = [o \in Outputs |-> scene[o] /\ dev'[o] \in Scanout]

(***************************************************************************)
(* refresh_device: the outcomes of rediscovering a device's connectors     *)
(* and rebuilding its surfaces when they changed or did not recover.       *)
(***************************************************************************)
RefreshOutcomes(s) ==
  CASE s = "absent"       -> {"absent"}
    [] s = "down"         -> {"down", "pending"}
    [] s = "pending"      -> {"pending"}
    [] s = "live"         -> {"live", "pending", "undiscovered"}
    [] s = "faulty"       -> {"faulty", "pending"}
    [] s = "undiscovered" -> {"undiscovered", "live", "pending"}

-----------------------------------------------------------------------------
(***************************************************************************)
(* udev events.                                                            *)
(***************************************************************************)
DeviceAdded(o) ==
  /\ dev[o] = "absent"
  /\ seatActive
  /\ \E s \in {"down", "pending"} : dev' = [dev EXCEPT ![o] = s]
  /\ PublishDevices(barrier, invalidated)
  /\ UNCHANGED <<owner, awaitingLocker, sleepPrepared, seatActive,
                 lockGeneration, scene, kms, glass, events>>

\* While the seat is away the rescan is deferred to its activation.
DeviceAddedAway(o) ==
  /\ dev[o] = "absent"
  /\ ~seatActive
  /\ dev' = [dev EXCEPT ![o] = "down"]
  /\ barrier' = SetOutputsAvailable(barrier, FALSE)
  /\ GenerationBounded
  /\ UNCHANGED <<pending, owner, awaitingLocker, sleepPrepared, published,
                 lockStatus, client, seatActive, invalidated,
                 lockGeneration, scene, kms, glass, events>>

DeviceChanged(o) ==
  /\ seatActive
  /\ dev[o] # "absent"
  /\ \E s \in RefreshOutcomes(dev[o]) : dev' = [dev EXCEPT ![o] = s]
  /\ PublishDevices(barrier, invalidated \cup Replaced)
  /\ DropScenes
  /\ UNCHANGED <<owner, awaitingLocker, sleepPrepared, seatActive,
                 lockGeneration, kms, glass, events>>

DeviceRemoved(o) ==
  /\ dev[o] # "absent"
  /\ dev' = [dev EXCEPT ![o] = "absent"]
  /\ published' = NextPublished(dev')
  /\ ApplyConnectorSync(barrier, NativeOutputsReady(seatActive, dev'),
                        invalidated \cup Replaced)
  /\ DropScenes
  /\ kms' = [kms EXCEPT ![o] = NoFrame]
  /\ glass' = [glass EXCEPT ![o] = Blank]
  /\ UNCHANGED <<owner, awaitingLocker, sleepPrepared, seatActive,
                 lockGeneration, events>>

(***************************************************************************)
(* libseat: the session loses its seat (VT switch, system sleep) and gets  *)
(* it back.                                                                *)
(***************************************************************************)
\* Every scanout is about to be rebuilt: nothing presented so far counts.
Withdrawn == Invalidate(SetOutputsAvailable(barrier, FALSE))

PausedDevice(s) == IF s = "absent" THEN s ELSE "down"

PauseSession ==
  /\ seatActive
  /\ seatActive' = FALSE
  /\ dev' = [o \in Outputs |-> PausedDevice(dev[o])]
  /\ invalidated' = invalidated \cup Replaced
  /\ barrier' = Withdrawn
  /\ GenerationBounded
  /\ DropScenes
  /\ glass' = [o \in Outputs |-> Blank]      \* another session's picture
  /\ UNCHANGED <<pending, owner, awaitingLocker, sleepPrepared, published,
                 lockStatus, client, lockGeneration, kms, events>>

ActivateSession ==
  /\ ~seatActive
  /\ seatActive' = TRUE
  /\ dev' \in {d \in [Outputs -> DeviceStates] :
                 \A o \in Outputs : d[o] \in RefreshOutcomes(dev[o])}
  /\ PublishDevices(Withdrawn, invalidated)
  /\ UNCHANGED <<owner, awaitingLocker, sleepPrepared,
                 lockGeneration, scene, kms, glass, events>>

(***************************************************************************)
(* session-resume: end the sleep preparation, then rebuild every scanout   *)
(* surface, or leave that to the activation when the seat is away.         *)
(***************************************************************************)
ResumeSessionAway ==
  /\ ~seatActive
  /\ FinishSleepPreparation
  /\ barrier' = Withdrawn
  /\ GenerationBounded
  /\ UNCHANGED <<pending, published, lockStatus, client, backendVars>>

ResumeSessionHere ==
  /\ seatActive
  /\ FinishSleepPreparation
  /\ dev' \in {d \in [Outputs -> DeviceStates] :
                 \A o \in Outputs : d[o] \in RefreshOutcomes(PausedDevice(dev[o]))}
  /\ PublishDevices(Withdrawn, invalidated \cup Replaced)
  /\ DropScenes
  /\ UNCHANGED <<seatActive, lockGeneration, kms, glass, events>>

(***************************************************************************)
(* The recovery timer: retry until everything scans out and has presented. *)
(* Its budget (attempts, five seconds) is left open.                       *)
(***************************************************************************)
RecoveryComplete ==
  /\ NativeOutputsReady(seatActive, dev)
  /\ SessionLocked => published \subseteq barrier.presented

RecoveryTimer ==
  /\ seatActive
  /\ ~RecoveryComplete
  /\ dev' \in {d \in [Outputs -> DeviceStates] :
                 \A o \in Outputs : d[o] \in RefreshOutcomes(dev[o])}
  /\ PublishDevices(Withdrawn, invalidated \cup Replaced)
  /\ DropScenes
  /\ UNCHANGED <<owner, awaitingLocker, sleepPrepared, seatActive,
                 lockGeneration, kms, glass, events>>

-----------------------------------------------------------------------------
(***************************************************************************)
(* Presenter events.                                                       *)
(***************************************************************************)

\* Configured: the presenter has drained its old frames and set the mode.
Configured(o) ==
  /\ seatActive
  /\ dev[o] = "pending"
  /\ kms[o] = NoFrame
  /\ dev' = [dev EXCEPT ![o] = "live"]
  /\ PublishDevices(barrier, invalidated)
  /\ UNCHANGED <<owner, awaitingLocker, sleepPrepared, seatActive,
                 lockGeneration, scene, kms, glass, events>>

\* Failed: of one output, or (the presenter itself) of the whole device.
PresenterFailed(o) ==
  /\ seatActive
  /\ \/ dev[o] = "pending" /\ dev' = [dev EXCEPT ![o] = "down"]
     \/ dev[o] \in Scanout /\ dev' = [dev EXCEPT ![o] = "faulty"]
     \/ dev[o] \in Scanout /\ dev' = [dev EXCEPT ![o] = "down"]
  /\ published' = NextPublished(dev')
  /\ invalidated' = {}
  /\ LET changed == published' # published \/ invalidated \cup Replaced # {}
         synced == Synced(barrier, FALSE, changed)
     IN  barrier' = Invalidate(IF changed THEN Reconfigured(synced) ELSE synced)
  /\ GenerationBounded
  /\ DropScenes
  /\ UNCHANGED <<pending, owner, awaitingLocker, sleepPrepared, lockStatus,
                 client, seatActive, lockGeneration, kms, glass, events>>

(***************************************************************************)
(* Presented: counted only if the backend holds the tag the lock has now.  *)
(* (The check of the output's key and of the security epoch is modelled in *)
(* Presenter: without it this module accepts more events than the code.)   *)
(***************************************************************************)
Accepted(o, generation) ==
  /\ seatActive
  /\ dev[o] \in Scanout
  /\ Generation(barrier) = lockGeneration
  /\ generation = lockGeneration

PresentedEvent(o, generation) ==
  /\ <<o, generation>> \in events
  /\ events' = events \ {<<o, generation>>}
  /\ IF Accepted(o, generation)
     THEN LockFramePresented(o, generation)
     ELSE UNCHANGED lockVars
  /\ UNCHANGED <<seatActive, dev, invalidated, lockGeneration, scene, kms, glass>>

(***************************************************************************)
(* The tail of every turn of the event loop: sync_security gives the       *)
(* presenters the lock's generation and takes back every scene made under  *)
(* another one, then render_frame submits scenes of the damaged outputs.   *)
(* A scene that fails to render makes its device unavailable.              *)
(***************************************************************************)
EventLoopTurn(rendered, failed) ==
  /\ rendered \subseteq {o \in Outputs : dev[o] \in {"live", "undiscovered"}}
  /\ failed \subseteq {o \in Outputs : dev[o] \in {"live", "undiscovered"}}
  /\ failed \cap rendered = {}
  /\ lockGeneration' = Generation(barrier)
  /\ scene' = [o \in Outputs |->
                 o \in rendered \/ (scene[o] /\ lockGeneration' = lockGeneration)]
  /\ dev' = [o \in Outputs |-> IF o \in failed THEN "faulty" ELSE dev[o]]
  /\ barrier' = SetOutputsAvailable(barrier, NativeOutputsReady(seatActive, dev'))
  /\ failed # {} => GenerationBounded
  /\ UNCHANGED <<pending, owner, awaitingLocker, sleepPrepared, published,
                 lockStatus, client, seatActive, invalidated, kms, glass, events>>

-----------------------------------------------------------------------------
(***************************************************************************)
(* The presenter thread.  A frame carries the tag of the security state    *)
(* it was composed under; without a scene it is opaque black.              *)
(***************************************************************************)
QueueFrame(o) ==
  /\ dev[o] \in Scanout
  /\ kms[o] = NoFrame
  /\ kms' = [kms EXCEPT ![o] =
               IF scene[o] \/ lockGeneration # NoLock THEN lockGeneration ELSE Blank]
  /\ UNCHANGED <<lockVars, seatActive, dev, invalidated, lockGeneration,
                 scene, glass, events>>

\* The flip is reported only if the presenter may still present that frame.
PageFlip(o) ==
  /\ kms[o] # NoFrame
  /\ Cardinality({e \in events : e[1] = o}) < MaxInFlight
  /\ kms' = [kms EXCEPT ![o] = NoFrame]
  /\ glass' = [glass EXCEPT ![o] = IF seatActive THEN kms[o] ELSE @]
  /\ events' = IF kms[o] # Desktop /\ kms[o] = lockGeneration /\ dev[o] \in Scanout
               THEN events \cup {<<o, kms[o]>>} ELSE events
  /\ UNCHANGED <<lockVars, seatActive, dev, invalidated, lockGeneration, scene>>

-----------------------------------------------------------------------------
DeviceEvents ==
  \E o \in Unsteady : DeviceAdded(o) \/ DeviceAddedAway(o) \/ DeviceChanged(o)
                      \/ DeviceRemoved(o) \/ PresenterFailed(o)

SeatEvents ==
  \/ PauseSession \/ ActivateSession
  \/ ResumeSessionAway \/ ResumeSessionHere
  \/ RecoveryTimer

Presentation ==
  \/ \E rendered \in SUBSET Outputs, failed \in SUBSET Unsteady :
       EventLoopTurn(rendered, failed)
  \/ \E o \in Outputs : Configured(o) \/ QueueFrame(o) \/ PageFlip(o)
  \/ \E e \in events : PresentedEvent(e[1], e[2])

Next ==
  \/ LockRequests /\ UNCHANGED backendVars
  \/ DeviceEvents
  \/ SeatEvents
  \/ Presentation

Spec == Init /\ [][Next]_vars

(***************************************************************************)
(* Fairness.  The event loop dispatches every ready source and runs its    *)
(* tail after each batch; a vblank completes what KMS holds; and after     *)
(* every change of its security state a presenter owes a frame             *)
(* (force_commit) until one has been shown under it.  No fairness for      *)
(* clients, devices, the seat or the recovery timer.                       *)
(***************************************************************************)
OwedFrame(o) == glass[o] # lockGeneration /\ QueueFrame(o)

Turn == \E rendered \in SUBSET Outputs : EventLoopTurn(rendered, {})

Fairness ==
  /\ WF_vars(Turn)
  /\ \A o \in Outputs : WF_vars(OwedFrame(o)) /\ WF_vars(PageFlip(o))
  /\ \A o \in Outputs : WF_vars(\E e \in events : e[1] = o /\ PresentedEvent(o, e[2]))

FairSpec == Spec /\ Fairness

-----------------------------------------------------------------------------
(***************************************************************************)
(* Safety.                                                                 *)
(***************************************************************************)

\* Nothing of the desktop is on a screen, queued for one, or held by a
\* presenter as a scene it may still queue.
Sealed ==
  /\ SessionLocked
  /\ \A o \in Outputs :
       /\ glass[o] # Desktop
       /\ kms[o] # Desktop
       /\ ~(scene[o] /\ lockGeneration = NoLock)

\* When the compositor reports the lock confirmed (automation status, and
\* through it the power coordinator before it lets the machine sleep), every
\* connected screen shows a frame of the lock's current generation and nothing
\* of the desktop is left anywhere on the way, although flips, replugs, VT
\* switches and late events interleave freely.
ConfirmedMeansPresented ==
  LockConfirmed =>
    /\ Sealed
    /\ \A o \in Outputs : dev[o] # "absent" => glass[o] = barrier.generation

\* A locker that has been told `locked` holds the lock of a sealed session,
\* from that moment until it unlocks or vanishes: whatever is unplugged,
\* rebuilt, paused or failing meanwhile, and there is never a second one.
AcknowledgedMeansSealed ==
  \A c \in Clients :
    client[c] = "locked" => Sealed /\ owner = c /\ lockStatus = c /\ pending = None

\* A prepared sleep always finds the shield up, and an armed shield always
\* waits for exactly the outputs now advertised.
ShieldConsistent ==
  /\ sleepPrepared => SessionLocked
  /\ awaitingLocker => SessionLocked /\ owner = None
  /\ SessionLocked => barrier.outputs = published
  /\ barrier.outputsUnavailable = ~NativeOutputsReady(seatActive, dev)

(***************************************************************************)
(* Action properties.                                                      *)
(***************************************************************************)

\* The shield drops only in a step in which the acknowledged owner leaves
\* by unlocking, with no sleep prepared; a vanished owner keeps the session
\* locked, and is never replaced.
OnlyOwnerReveals ==
  [][ /\ (SessionLocked /\ ~SessionLocked')
           => /\ ~sleepPrepared
              /\ \E c \in Clients : /\ client[c] = "locked" /\ owner = c
                                    /\ client'[c] = "gone"
      /\ (owner # None /\ ~Alive(client, owner)) => UNCHANGED owner /\ SessionLocked'
    ]_vars

(***************************************************************************)
(* Refinement: the native session keeps the promise of LockPromise.        *)
(***************************************************************************)
Promise == INSTANCE LockPromise WITH
  phase        <- IF ~SessionLocked THEN "open"
                  ELSE IF awaitingLocker THEN "shielded" ELSE "held",
  holder       <- owner,
  acknowledged <- lockStatus # None,
  sealed       <- Sealed,
  latch        <- sleepPrepared

PromiseSpec == Promise!Spec

(***************************************************************************)
(* Liveness.                                                               *)
(***************************************************************************)

\* If every connected output eventually scans out for good, a locker that
\* waits is answered: no invalidation, lost flip or ignored event leaves it
\* waiting for a presentation that already happened or never will.
Answered(c) ==
  (<>[]NativeOutputsReady(seatActive, dev)) => ((pending = c) ~> (pending # c))

LockerAnswered == \A c \in Clients : Answered(c)
==============================================================================

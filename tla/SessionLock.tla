----------------------------- MODULE SessionLock -----------------------------
(***************************************************************************)
(* The compositor's session lock: LockState and its handlers               *)
(* (session_lock.rs, session_lock/power.rs), with the ext-session-lock-v1  *)
(* protocol object they answer (the vendored smithay, external).           *)
(*                                                                         *)
(* Every operator below is one handler run by the single event loop        *)
(* thread, so each is one atomic step.  How frames reach a screen is the   *)
(* backend's business: HeadlessSession and NativeSession extend this       *)
(* module with one backend each and give the next-state relation.          *)
(*                                                                         *)
(* Left out here: lock surfaces, input focus, grabs and the cursor, which  *)
(* no decision below reads; starting the locker process, whose failure     *)
(* changes no state of LockState (the shield stays and the error is        *)
(* reported); the redraw request, which EventLoopTurn of the backends is.  *)
(* `supported` is TRUE: a nested session refuses every operation.          *)
(***************************************************************************)
EXTENDS PresentationBarrier

CONSTANTS Clients,        \* lock objects: each asks for the lock at most once
          None,           \* no lock object
          Defunct,        \* protocol status: the locker vanished while locked
          MaxGeneration   \* bound on the barrier's generation

ASSUME NoneAssumption ==
  None \notin Clients /\ Defunct \notin Clients /\ None # Defunct
ASSUME MaxGenerationAssumption == MaxGeneration \in Nat

VARIABLES
  barrier,         \* LockState.barrier
  pending,         \* LockState.pending: the SessionLocker not yet confirmed
  owner,           \* LockState.owner
  awaitingLocker,  \* LockState.awaiting_locker
  sleepPrepared,   \* LockState.sleep_prepared
  published,       \* capture_outputs(): the outputs the compositor advertises
  lockStatus,      \* smithay LockStatus: None, the locking object, Defunct
  client           \* what each lock object has been told

lockVars == <<barrier, pending, owner, awaitingLocker, sleepPrepared,
              published, lockStatus, client>>

ClientStates == {"idle", "waiting", "locked", "finished", "gone"}

LockTypeOK ==
  /\ barrier \in Barriers
  /\ pending \in Clients \cup {None}
  /\ owner \in Clients \cup {None}
  /\ awaitingLocker \in BOOLEAN
  /\ sleepPrepared \in BOOLEAN
  /\ published \in SUBSET Outputs
  /\ lockStatus \in Clients \cup {None, Defunct}
  /\ client \in [Clients -> ClientStates]

\* LockState::new
LockInit ==
  /\ pending = None
  /\ owner = None
  /\ awaitingLocker = FALSE
  /\ sleepPrepared = FALSE
  /\ lockStatus = None
  /\ client = [c \in Clients |-> "idle"]

SessionLocked == barrier.active
LockConfirmed == Ready(barrier) /\ pending = None

\* ExtSessionLockV1::is_alive: the object exists and its client is connected.
Alive(told, c) == told[c] \in {"waiting", "locked", "finished"}

\* Bound on every step that may begin or invalidate a generation.
GenerationBounded == barrier'.generation =< MaxGeneration

(***************************************************************************)
(* confirm_session_lock_if_presented, with the barrier, the pending locker *)
(* and the clients as the calling handler has left them.  A dead locker is *)
(* taken too, and the shield stays.                                        *)
(***************************************************************************)

ConfirmIfPresented(b, waiting, told) ==
  \/ /\ Ready(b) /\ waiting # None
     /\ pending' = None
     /\ \/ /\ Alive(told, waiting)
           /\ client' = [told EXCEPT ![waiting] = "locked"]
           /\ lockStatus' = waiting
        \/ /\ ~Alive(told, waiting)
           /\ client' = told
           /\ UNCHANGED lockStatus
  \/ /\ ~(Ready(b) /\ waiting # None)
     /\ pending' = waiting
     /\ client' = told
     /\ UNCHANGED lockStatus

\* arm_session_shield, called by each handler that finds the session unlocked.
Armed == IF SessionLocked THEN barrier ELSE Begin(barrier, published)

(***************************************************************************)
(* lock: a client asks for the lock.                                       *)
(***************************************************************************)

\* Refused: dropping the SessionLocker tells the client `finished`.
LockRefused(c) ==
  /\ client[c] = "idle"
  /\ SessionLocked /\ ~awaitingLocker
  /\ client' = [client EXCEPT ![c] = "finished"]
  /\ UNCHANGED <<barrier, pending, owner, awaitingLocker, sleepPrepared,
                 published, lockStatus>>

LockAcceptedAfterCrash(c) ==
  /\ client[c] = "idle"
  /\ (SessionLocked /\ owner # None) => ~Alive(client, owner)
  /\ barrier' = Armed
  /\ GenerationBounded
  /\ awaitingLocker' = FALSE
  /\ owner' = c
  /\ ConfirmIfPresented(barrier', c, [client EXCEPT ![c] = "waiting"])
  /\ UNCHANGED <<sleepPrepared, published>>

LockAccepted(c) ==
  /\ client[c] = "idle"
  /\ ~SessionLocked \/ awaitingLocker
  /\ barrier' = Armed
  /\ GenerationBounded
  /\ awaitingLocker' = FALSE
  /\ owner' = c
  /\ ConfirmIfPresented(barrier', c, [client EXCEPT ![c] = "waiting"])
  /\ UNCHANGED <<sleepPrepared, published>>

(***************************************************************************)
(* unlock_and_destroy by the object that holds the lock, then unlock().    *)
(* With a sleep prepared the shield outlives the owner.  (An object that   *)
(* does not hold the lock gets a protocol error: Disconnect.)              *)
(***************************************************************************)
UnlockIgnoringSleep(c) ==
  /\ lockStatus = c
  /\ lockStatus' = None
  /\ client' = [client EXCEPT ![c] = "gone"]
  /\ pending' = None
  /\ owner' = None
  /\ barrier' = Unlock(barrier)
  /\ awaitingLocker' = FALSE
  /\ UNCHANGED <<sleepPrepared, published>>

UnlockAndDestroy(c) ==
  /\ lockStatus = c
  /\ lockStatus' = None
  /\ client' = [client EXCEPT ![c] = "gone"]
  /\ pending' = None
  /\ owner' = None
  /\ barrier' = IF sleepPrepared THEN barrier ELSE Unlock(barrier)
  /\ awaitingLocker' = sleepPrepared
  /\ UNCHANGED <<sleepPrepared, published>>

(***************************************************************************)
(* The object is destroyed without unlocking: the client crashed, lost its *)
(* connection, was killed by a protocol error, or gave up.                 *)
(***************************************************************************)
DisconnectUnlocks(c) ==
  /\ Alive(client, c)
  /\ client' = [client EXCEPT ![c] = "gone"]
  /\ lockStatus' = IF lockStatus = c THEN None ELSE lockStatus
  /\ owner' = IF owner = c THEN None ELSE owner
  /\ awaitingLocker' = (awaitingLocker \/ owner = c)
  /\ UNCHANGED <<barrier, pending, sleepPrepared, published>>

Disconnect(c) ==
  /\ Alive(client, c)
  /\ client' = [client EXCEPT ![c] = "gone"]
  /\ lockStatus' = IF lockStatus = c THEN Defunct ELSE lockStatus
  /\ UNCHANGED <<barrier, pending, owner, awaitingLocker, sleepPrepared, published>>

(***************************************************************************)
(* lock_shield and prepare_for_sleep (control socket, shell).              *)
(***************************************************************************)
LockShield ==
  /\ barrier' = Armed
  /\ GenerationBounded
  /\ awaitingLocker' = (awaitingLocker \/ ~SessionLocked)
  /\ UNCHANGED <<pending, owner, sleepPrepared, published, lockStatus, client>>

PrepareSleep ==
  /\ sleepPrepared' = TRUE
  /\ barrier' = Armed
  /\ GenerationBounded
  /\ awaitingLocker' = (awaitingLocker \/ ~SessionLocked)
  /\ UNCHANGED <<pending, owner, published, lockStatus, client>>

\* finish_sleep_preparation, the first step of session-resume.
FinishSleepPreparation ==
  /\ sleepPrepared' = FALSE
  /\ UNCHANGED <<owner, awaitingLocker>>

(***************************************************************************)
(* reconfigure_lock_outputs once the advertised outputs are `published'`,  *)
(* from the barrier the calling handler has left.                          *)
(***************************************************************************)

Reconfigured(b) == IF b.active THEN UpdateOutputs(b, published') ELSE b

ReconfigureLockOutputs(b) ==
  /\ barrier' = Reconfigured(b)
  /\ \/ b.active /\ ConfirmIfPresented(barrier', pending, client)
     \/ ~b.active /\ UNCHANGED <<pending, lockStatus, client>>

\* lock_frame_presented
LockFramePresented(output, generation) ==
  /\ barrier' = Presented(barrier, output, generation)
  /\ ConfirmIfPresented(barrier', pending, client)
  /\ UNCHANGED <<owner, awaitingLocker, sleepPrepared, published>>

\* The requests of clients and of the control socket that need no backend.
LockRequests ==
  \/ \E c \in Clients :
       LockRefused(c) \/ LockAccepted(c) \/ UnlockAndDestroy(c) \/ Disconnect(c)
  \/ LockShield
  \/ PrepareSleep
==============================================================================

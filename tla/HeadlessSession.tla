--------------------------- MODULE HeadlessSession ---------------------------
(***************************************************************************)
(* The session lock on the headless backend (Backend::Headless): virtual   *)
(* outputs that never change, and a render that is its own presentation.   *)
(* The event loop is the only thread.                                      *)
(***************************************************************************)
EXTENDS SessionLock

VARIABLE glass     \* the generation the last frame was composed for

vars == <<lockVars, glass>>

Desktop == NoLock

Init ==
  /\ LockInit
  /\ published = Outputs
  /\ barrier = NewBarrier
  /\ glass = Desktop

-----------------------------------------------------------------------------
(***************************************************************************)
(* render: compose one frame for all outputs, and report it to the barrier *)
(* for every one of them.  (A render that fails is retried next turn.)     *)
(***************************************************************************)

Render ==
  /\ glass' = Generation(barrier)
  /\ \/ /\ SessionLocked
        /\ barrier' = [barrier EXCEPT !.presented = @ \cup (published \cap barrier.outputs)]
        /\ ConfirmIfPresented(barrier', pending, client)
        /\ UNCHANGED <<owner, awaitingLocker, sleepPrepared, published>>
     \/ ~SessionLocked /\ UNCHANGED lockVars

\* session-resume on this backend.
ResumeSession ==
  /\ FinishSleepPreparation
  /\ barrier' = Invalidate(barrier)
  /\ GenerationBounded
  /\ UNCHANGED <<pending, published, lockStatus, client, glass>>

Next ==
  \/ LockRequests /\ UNCHANGED glass
  \/ Render
  \/ ResumeSession

Spec == Init /\ [][Next]_vars

\* Every accepted request asks for a redraw, which the loop performs.
Fairness == WF_vars(Render)

FairSpec == Spec /\ Fairness

-----------------------------------------------------------------------------

Promise == INSTANCE LockPromise WITH
  phase        <- IF ~SessionLocked THEN "open"
                  ELSE IF awaitingLocker THEN "shielded" ELSE "held",
  holder       <- owner,
  acknowledged <- lockStatus # None,
  sealed       <- SessionLocked /\ glass # Desktop,
  latch        <- sleepPrepared

\* The headless session keeps the promise of LockPromise.
PromiseSpec == Promise!Spec

\* A locker that waits is told the session is locked, unless it vanishes
\* first: the adoption of a shield left by an earlier owner included.
Locked(c) == (client[c] = "waiting") ~> (client[c] \in {"locked", "gone"})

WaitingLockerLocked == \A c \in Clients : Locked(c)
==============================================================================

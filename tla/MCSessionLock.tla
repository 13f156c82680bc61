---------------------------- MODULE MCSessionLock ----------------------------
(* The session lock on both backends.  A behaviour moves one of them, a      *)
(* native session or a headless one, while the other rests in its initial    *)
(* state: their states add up, not multiply.                                 *)
EXTENDS NativeSession

CONSTANTS o1, c1, c2
Screens == {o1}
Lockers == {c1, c2}

VARIABLES headlessBarrier, headlessPending, headlessOwner, headlessAwaiting,
          headlessPrepared, headlessPublished, headlessStatus, headlessClient,
          headlessGlass
headless == <<headlessBarrier, headlessPending, headlessOwner, headlessAwaiting,
              headlessPrepared, headlessPublished, headlessStatus, headlessClient,
              headlessGlass>>

Headless == INSTANCE HeadlessSession WITH
  barrier <- headlessBarrier, pending <- headlessPending,
  owner <- headlessOwner, awaitingLocker <- headlessAwaiting,
  sleepPrepared <- headlessPrepared, published <- headlessPublished,
  lockStatus <- headlessStatus, client <- headlessClient, glass <- headlessGlass

VARIABLE backend
BackendInit == Init /\ Headless!Init /\ backend \in {"native", "headless"}
BackendNext ==
  \/ backend = "native" /\ Next /\ UNCHANGED <<headless, backend>>
  \/ backend = "headless" /\ Headless!Next /\ UNCHANGED <<vars, backend>>

\* Nothing that either fairness is about is enabled in the initial state of the other.
BackendSpec ==
  /\ BackendInit /\ [][BackendNext]_<<vars, headless, backend>>
  /\ Fairness /\ Headless!Fairness

HeadlessPromise == Headless!PromiseSpec

\* A locker of a native session that goes on asking is answered, and one of a headless
\* session whose outputs are available gets the lock: LockerAnswered and
\* WaitingLockerLocked, for one of two lockers that nothing in the code, and nothing in
\* either module, tells apart.
FirstLockerSettled == Answered(c1) /\ Headless!Locked(c1)
==============================================================================

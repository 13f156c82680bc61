------------------------- MODULE PresentationBarrier -------------------------
(***************************************************************************)
(* The lock acknowledgement barrier of the compositor                      *)
(* (hearthspace-compositor, session_lock/barrier.rs).                      *)
(*                                                                         *)
(* A lock is acknowledged only once every output has PRESENTED a frame     *)
(* composed for it.  The barrier is a value owned by the event loop        *)
(* thread: a record, and one operator per method.  `generation` is a u64   *)
(* that wraps in the code; the models bound it far below 2^64, so it is a  *)
(* natural number here.                                                    *)
(***************************************************************************)
EXTENDS Integers

CONSTANT Outputs        \* connector names

Barriers == [ generation         : Nat,
              active             : BOOLEAN,
              outputsUnavailable : BOOLEAN,
              outputs            : SUBSET Outputs,
              presented          : SUBSET Outputs ]

\* #[derive(Default)]
NewBarrier == [ generation |-> 0, active |-> FALSE, outputsUnavailable |-> FALSE,
                outputs |-> {}, presented |-> {} ]

\* The tag of frames composed while the shield is down.  A first lock has
\* generation 1, so 0 never tags a lock frame.
NoLock == 0

\* generation(): what frames composed now are tagged with.
Generation(b) == IF b.active THEN b.generation ELSE NoLock

(***************************************************************************)
(* begin                                                                   *)
(***************************************************************************)
Begin(b, outs) ==
  [b EXCEPT !.generation = @ + 1, !.active = TRUE,
            !.outputs = outs, !.presented = {}]

(***************************************************************************)
(* invalidate: keep the lock, demand fresh presentations.                  *)
(***************************************************************************)
InvalidateKeepsGeneration(b) ==
  IF b.active THEN [b EXCEPT !.presented = {}] ELSE b

Invalidate(b) ==
  IF b.active THEN [b EXCEPT !.generation = @ + 1, !.presented = {}] ELSE b

UpdateOutputs(b, outs) ==
  [b EXCEPT !.outputs = outs, !.presented = @ \cap outs]

\* An unavailable backend cannot certify a lock; becoming unavailable also
\* invalidates whatever had been presented.
SetOutputsAvailable(b, available) ==
  LET kept == IF ~available /\ ~b.outputsUnavailable THEN Invalidate(b) ELSE b
  IN  [kept EXCEPT !.outputsUnavailable = ~available]

(***************************************************************************)
(* presented: the page flip of a frame tagged `generation`.                *)
(***************************************************************************)
Presented(b, output, generation) ==
  IF b.active /\ b.generation = generation /\ output \in b.outputs
  THEN [b EXCEPT !.presented = @ \cup {output}] ELSE b

Ready(b) == b.active /\ ~b.outputsUnavailable /\ b.outputs \subseteq b.presented

Unlock(b) == [b EXCEPT !.active = FALSE, !.outputs = {}, !.presented = {}]
==============================================================================

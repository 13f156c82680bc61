----------------------------- MODULE LockPromise -----------------------------
(***************************************************************************)
(* What the session lock promises, without barriers, generations, outputs  *)
(* or frames (docs/SESSION_LOCK.md, docs/POWER.md):                        *)
(*                                                                         *)
(*  - a locker is told the session is locked only once the desktop is      *)
(*    sealed: no screen shows it and no frame of it is on its way to one;  *)
(*  - once sealed the desktop stays sealed until the session opens;        *)
(*  - the session opens only when the acknowledged holder unlocks it, and  *)
(*    never while a sleep is prepared: the shield then waits for another   *)
(*    holder;                                                              *)
(*  - a holder is replaced only after it has unlocked: if it vanishes, the *)
(*    session stays locked and nobody else may take it.                    *)
(***************************************************************************)
CONSTANTS Clients, None

VARIABLES
  phase,         \* "open", "shielded" (a locker may claim it), "held"
  holder,        \* who holds the lock
  acknowledged,  \* the holder has been told so
  sealed,        \* nothing of the desktop can be seen any more
  latch          \* a sleep is prepared

vars == <<phase, holder, acknowledged, sealed, latch>>

TypeOK ==
  /\ phase \in {"open", "shielded", "held"}
  /\ holder \in Clients \cup {None}
  /\ acknowledged \in BOOLEAN
  /\ sealed \in BOOLEAN
  /\ latch \in BOOLEAN

Init ==
  /\ phase = "open" /\ holder = None
  /\ acknowledged = FALSE /\ sealed = FALSE /\ latch = FALSE

\* While locked, the desktop can only become sealed.
Sealing == sealed' \in BOOLEAN /\ (sealed => sealed')

Shield ==
  /\ phase = "open" /\ phase' = "shielded"
  /\ latch' \in BOOLEAN /\ (latch => latch')
  /\ Sealing
  /\ UNCHANGED <<holder, acknowledged>>

Claim(c) ==
  /\ phase \in {"open", "shielded"} /\ phase' = "held"
  /\ holder' = c
  /\ Sealing
  /\ acknowledged' \in {FALSE, sealed'}
  /\ UNCHANGED latch

Acknowledge ==
  /\ phase = "held" /\ ~acknowledged
  /\ Sealing /\ sealed'
  /\ acknowledged' = TRUE
  /\ UNCHANGED <<phase, holder>> /\ latch' \in {latch, FALSE}

Seal ==
  /\ phase # "open"
  /\ Sealing
  /\ UNCHANGED <<phase, holder, acknowledged>> /\ latch' \in {latch, FALSE}

Release ==
  /\ phase = "held" /\ acknowledged
  /\ holder' = None /\ acknowledged' = FALSE
  /\ \/ ~latch /\ phase' = "open" /\ sealed' = FALSE
     \/ latch /\ phase' = "shielded" /\ Sealing
  /\ UNCHANGED latch

PrepareSleep ==
  /\ phase # "open" /\ latch' = TRUE
  /\ UNCHANGED <<phase, holder, acknowledged, sealed>>

Resume ==
  /\ latch' = FALSE
  /\ UNCHANGED <<phase, holder, acknowledged, sealed>>

Next ==
  \/ Shield \/ Acknowledge \/ Seal \/ Release \/ PrepareSleep \/ Resume
  \/ \E c \in Clients : Claim(c)

Spec == Init /\ [][Next]_vars
==============================================================================

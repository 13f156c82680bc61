----------------------------- MODULE IdleTracker -----------------------------
(***************************************************************************)
(* The thread that tells for how long each window has been idle            *)
(* (hearthspace-compositor/src/compositor/idle.rs).                        *)
(*                                                                         *)
(* Deadlines that are no longer wanted stay in its heap until they are due *)
(* or the heap is rebuilt.  A command is a register, an unregister or an   *)
(* activity of a window; the clock may advance at any moment.  Levels are  *)
(* numbered from 1; the level of an active window is 0.                    *)
(***************************************************************************)
EXTENDS Integers, Sequences, FiniteSets

CONSTANTS Windows,
          Thresholds,      \* how long each level lasts before the next
          SlackPerWindow, MinSlack,  \* 4 and 64: the heap is rebuilt beyond
          MaxTime, MaxGeneration     \* bounds

ASSUME ThresholdsAssumption == Thresholds \in Seq(Nat \ {0})
ASSUME WindowsAssumption == IsFiniteSet(Windows)
ASSUME SlackAssumption == SlackPerWindow \in Nat \ {0} /\ MinSlack \in Nat
ASSUME BoundAssumption == MaxTime \in Nat /\ MaxGeneration \in Nat

Levels == 0..Len(Thresholds)
None == <<>>
Deadlines == [at : Nat, window : Windows, generation : Nat, level : Levels \ {0}]
Records == [level : Levels, generation : Nat, pending : Deadlines \cup {None}]

VARIABLES
  step,      \* the thread reads the clock, fires deadlines, or waits for a command
  windows,   \* the records of the registered windows
  heap,
  now,
  seen,      \* the time it has read
  quiet      \* history: when each window was last active
vars == <<step, windows, heap, now, seen, quiet>>

Registered == DOMAIN windows

TypeOK ==
  /\ step \in {"look", "fire", "wait"}
  /\ Registered \subseteq Windows /\ windows \in [Registered -> Records]
  /\ heap \in SUBSET Deadlines
  /\ now \in 0..MaxTime /\ seen \in 0..MaxTime
  /\ quiet \in [Windows -> 0..MaxTime]

Init ==
  /\ step = "look" /\ windows = <<>> /\ heap = {}
  /\ now = 0 /\ seen = 0 /\ quiet = [w \in Windows |-> 0]

\* None beyond the last level.
DeadlineFor(w, generation, level, from) ==
  IF level > Len(Thresholds) THEN None
  ELSE [at |-> from + Thresholds[level], window |-> w, generation |-> generation,
        level |-> level]

Fresh(w, generation) ==
  [level |-> 0, generation |-> generation, pending |-> DeadlineFor(w, generation, 1, now)]

With(w, record) == [v \in Registered \cup {w} |-> IF v = w THEN record ELSE windows[v]]
Pushed(deadlines, d) == IF d = None THEN deadlines ELSE deadlines \cup {d}
Pending(ws) == {ws[w].pending : w \in DOMAIN ws} \ {None}

\* Beyond the larger of the two limits the heap is rebuilt from the records.
Compacted(deadlines, ws) ==
  IF Cardinality(deadlines) <= SlackPerWindow * Cardinality(DOMAIN ws)
       \/ Cardinality(deadlines) <= MinSlack
  THEN deadlines
  ELSE Pending(ws)

(***************************************************************************)
(* Commands.                                                               *)
(***************************************************************************)
Restarted(w, generation) ==
  /\ windows' = With(w, Fresh(w, generation))
  /\ heap' = Compacted(Pushed(heap, Fresh(w, generation).pending), windows')
  /\ quiet' = [quiet EXCEPT ![w] = now]
  /\ step' = "look" /\ UNCHANGED <<now, seen>>

RegisterWindow(w) ==
  /\ step = "wait"
  /\ w \in Registered => windows[w].generation < MaxGeneration
  /\ Restarted(w, IF w \in Registered THEN windows[w].generation + 1 ELSE 0)

UnregisterWindow(w) ==
  /\ step = "wait"
  /\ windows' = [v \in Registered \ {w} |-> windows[v]]
  /\ step' = "look" /\ UNCHANGED <<heap, now, seen, quiet>>

RecordActivity(w) ==
  /\ step = "wait" /\ w \in Registered
  /\ windows[w].generation < MaxGeneration
  /\ Restarted(w, windows[w].generation + 1)

\* Activity of a window that is not registered is ignored.
IgnoreActivity(w) ==
  /\ step = "wait" /\ w \notin Registered
  /\ step' = "look" /\ UNCHANGED <<windows, heap, now, seen, quiet>>

(***************************************************************************)
(* Deadlines.                                                              *)
(***************************************************************************)
Wanted(d) ==
  /\ d.window \in Registered
  /\ windows[d.window].generation = d.generation
  /\ windows[d.window].pending = d
  /\ windows[d.window].level + 1 = d.level

\* The next level counts from the deadline, not from when it was noticed.
FireFromNow(d) ==
  LET next == DeadlineFor(d.window, d.generation, d.level + 1, seen)
  IN IF Wanted(d)
     THEN /\ windows' = With(d.window, [windows[d.window] EXCEPT !.level = d.level,
                                                                 !.pending = next])
          /\ heap' = Pushed(heap \ {d}, next)
     ELSE heap' = heap \ {d} /\ UNCHANGED windows

Fire(d) ==
  LET next == DeadlineFor(d.window, d.generation, d.level + 1, d.at)
  IN IF Wanted(d)
     THEN /\ windows' = With(d.window, [windows[d.window] EXCEPT !.level = d.level,
                                                                 !.pending = next])
          /\ heap' = Pushed(heap \ {d}, next)
     ELSE heap' = heap \ {d} /\ UNCHANGED windows

Look ==
  /\ step = "look" /\ step' = "fire" /\ seen' = now
  /\ UNCHANGED <<windows, heap, now, quiet>>

\* The earliest first; between equals the order does not matter.
FireDue ==
  /\ step = "fire"
  /\ \E d \in heap : d.at <= seen /\ (\A e \in heap : d.at <= e.at) /\ Fire(d)
  /\ UNCHANGED <<step, now, seen, quiet>>

NothingDue ==
  /\ step = "fire" /\ \A d \in heap : d.at > seen
  /\ step' = "wait"
  /\ UNCHANGED <<windows, heap, now, seen, quiet>>

\* recv_timeout ends with the earliest deadline.
Timeout ==
  /\ step = "wait" /\ (\E d \in heap : d.at <= now)
  /\ step' = "look"
  /\ UNCHANGED <<windows, heap, now, seen, quiet>>

Tick ==
  /\ now < MaxTime /\ now' = now + 1
  /\ UNCHANGED <<step, windows, heap, seen, quiet>>

Next ==
  \/ Look \/ FireDue \/ NothingDue \/ Timeout \/ Tick
  \/ \E w \in Windows :
       RegisterWindow(w) \/ UnregisterWindow(w) \/ RecordActivity(w) \/ IgnoreActivity(w)

Spec == Init /\ [][Next]_vars
-----------------------------------------------------------------------------
\* The level a window has reached after a quiet time of t: every threshold in turn.
Until[level \in Levels] == IF level = 0 THEN 0 ELSE Until[level - 1] + Thresholds[level]
LevelAfter(t) == CHOOSE k \in Levels : Until[k] <= t /\ \A l \in Levels : l > k => Until[l] > t

\* Whenever the thread waits, every window is at the level of its quiet time when the
\* clock was read: however late the thread was, whatever stale deadlines it found, and
\* whether or not the heap has been rebuilt.
Settled ==
  step = "wait" =>
    \A w \in Registered : windows[w].level = LevelAfter(seen - quiet[w])

\* What a window waits for is in the heap, so no window is forgotten.
PendingInHeap == \A w \in Registered : windows[w].pending \in heap \cup {None}

\* Activity at every frame does not make the heap grow.
HeapBounded ==
  \/ Cardinality(heap) <= SlackPerWindow * Cardinality(Windows)
  \/ Cardinality(heap) <= MinSlack

\* Lateness, stale deadlines and rebuilt heaps neither lose a level nor use up memory.
DeadlinesSound == TypeOK /\ PendingInHeap /\ Settled /\ HeapBounded
==============================================================================

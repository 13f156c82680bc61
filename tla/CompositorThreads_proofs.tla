----------------------- MODULE CompositorThreads_proofs -----------------------
(***************************************************************************)
(* Proofs about threads and tasks that answer an event loop, for any       *)
(* windows, requests, launches and bounds: the deadlines of idle windows,  *)
(* the windows that join a group, the captures that are held and sent, the *)
(* applications that are started, the devices that are adjusted, and what  *)
(* the five keep together.                                                 *)
(***************************************************************************)
EXTENDS MCCompositorThreads, FiniteSetTheorems, SequenceTheorems, WellFoundedInduction, TLAPS

-----------------------------------------------------------------------------
(***************************************************************************)
(* Induction.  The library's theorems about it take an operator, so it is  *)
(* stated of a set; what is computed step by step follows.                 *)
(***************************************************************************)
\* Induction over the natural numbers, of a set: the least number that is missing.
LEMMA Induction ==
  ASSUME NEW S, 0 \in S, \A n \in Nat : n \in S => n + 1 \in S
  PROVE  Nat \subseteq S
<1> DEFINE R == {p \in Nat \X Nat : p[1] < p[2]}
           T == Nat \ S
<1> SUFFICES ASSUME T # {} PROVE FALSE
  OBVIOUS
<1>1. IsWellFoundedOn(R, Nat)
  BY NatLessThanWellFounded DEF OpToRel
<1>2. T \subseteq Nat
  OBVIOUS
<1>3. \E x \in T : \A y \in T : ~(<<y, x>> \in R)
  <2> HIDE DEF R, T
  <2> QED BY <1>1, <1>2, WFMin
<1>4. PICK x \in T : \A y \in T : ~(<<y, x>> \in R)
  BY <1>3
<1>5. x \in Nat /\ x # 0
  OBVIOUS
<1>6. x - 1 \in Nat /\ x - 1 < x /\ x - 1 + 1 = x
  BY <1>5
<1>7. x - 1 \in T
  BY <1>5, <1>6
<1>8. <<x - 1, x>> \in R
  BY <1>5, <1>6
<1> QED BY <1>4, <1>7, <1>8

\* What is computed step by step: n steps of F from base.
Iterates(g, F, base, n) == g[0] = base /\ \A i \in 1..n : g[i] = F[<<i, g[i-1]>>]

LEMMA Iteration ==
  ASSUME NEW S, NEW base \in S, NEW n \in Nat, NEW F \in [(1..n) \X S -> S]
  PROVE  \E g \in [0..n -> S] : Iterates(g, F, base, n)
<1> USE DEF Iterates
<1> DEFINE Steps(k) == \E g \in [0..k -> S] : g[0] = base /\ \A i \in 1..k : g[i] = F[<<i, g[i-1]>>]
           T == {k \in Nat : k <= n => Steps(k)}
<1>1. 0 \in T
  <2>1. [i \in 0..0 |-> base] \in [0..0 -> S]
    OBVIOUS
  <2>2. [i \in 0..0 |-> base][0] = base
    OBVIOUS
  <2>3. 1..0 = {}
    OBVIOUS
  <2> QED BY <2>1, <2>2, <2>3
<1>2. ASSUME NEW k \in Nat, k \in T
      PROVE  k + 1 \in T
  <2> SUFFICES ASSUME k + 1 <= n PROVE Steps(k + 1)
    OBVIOUS
  <2>1. PICK g \in [0..k -> S] : g[0] = base /\ \A i \in 1..k : g[i] = F[<<i, g[i-1]>>]
    BY <1>2
  <2> DEFINE h == [i \in 0..(k+1) |-> IF i <= k THEN g[i] ELSE F[<<k+1, g[k]>>]]
  <2>2. g[k] \in S /\ k + 1 \in 1..n
    BY <2>1
  <2>3. F[<<k+1, g[k]>>] \in S
    BY <2>2
  <2>4. h \in [0..(k+1) -> S]
    BY <2>1, <2>3
  <2>5. h[0] = base
    BY <2>1
  <2>6. ASSUME NEW i \in 1..(k+1)
        PROVE  h[i] = F[<<i, h[i-1]>>]
    <3>1. i - 1 \in 0..k /\ h[i-1] = g[i-1]
      OBVIOUS
    <3>2. CASE i <= k
      BY <3>1, <3>2, <2>1
    <3>3. CASE i = k + 1
      <4>1. i \in 0..(k+1) /\ ~(i <= k) /\ i - 1 = k
        BY <3>3
      <4>2. h[i] = F[<<k+1, g[k]>>] /\ h[i-1] = g[k]
        BY <4>1
      <4> QED BY <4>2, <3>3
    <3> QED BY <3>2, <3>3
  <2> QED BY <2>4, <2>5, <2>6
<1>3. Nat \subseteq T
  <2> HIDE DEF T
  <2> QED BY <1>1, <1>2, Induction
<1> QED BY <1>3

-----------------------------------------------------------------------------
\* The recursion that defines Until has a solution, so Until is one.
LEMMA UntilSums ==
  /\ Until \in [Levels -> Nat]
  /\ Until[0] = 0
  /\ \A k \in Levels \ {0} : Until[k] = Until[k-1] + Thresholds[k]
<1> DEFINE N == Len(Thresholds)
           F == [p \in (1..N) \X Nat |-> p[2] + Thresholds[p[1]]]
<1>1. N \in Nat /\ Thresholds \in [1..N -> Nat \ {0}]
  BY ThresholdsAssumption DEF ThresholdsAssumption
<1>2. F \in [(1..N) \X Nat -> Nat]
  BY <1>1
<1>a. \E g \in [0..N -> Nat] : Iterates(g, F, 0, N)
  <2>1. 0 \in Nat
    OBVIOUS
  <2> HIDE DEF F, N
  <2> QED BY <1>1, <1>2, <2>1, Iteration
<1>3. PICK g \in [0..N -> Nat] : g[0] = 0 /\ \A i \in 1..N : g[i] = F[<<i, g[i-1]>>]
  BY <1>a DEF Iterates
<1>4. \A i \in 1..N : g[i] = g[i-1] + Thresholds[i]
  <2> SUFFICES ASSUME NEW i \in 1..N PROVE g[i] = g[i-1] + Thresholds[i]
    OBVIOUS
  <2>1. g[i-1] \in Nat
    BY <1>1, <1>3
  <2> QED BY <2>1, <1>3
<1> DEFINE Solves(f) == f = [k \in Levels |-> IF k = 0 THEN 0 ELSE f[k-1] + Thresholds[k]]
<1>5. Solves(g)
  BY <1>1, <1>3, <1>4 DEF Levels
<1>6. Solves(Until)
  BY <1>5 DEF Until
<1>7. Until[0] = 0 /\ \A k \in Levels \ {0} : Until[k] = Until[k-1] + Thresholds[k]
  BY <1>6, <1>1 DEF Levels
<1> DEFINE T == {k \in Nat : k <= N => Until[k] \in Nat}
<1>8. 0 \in T
  BY <1>7
<1>9. ASSUME NEW k \in Nat, k \in T
      PROVE  k + 1 \in T
  BY <1>7, <1>9, <1>1 DEF Levels
<1>10. Nat \subseteq T
  <2> HIDE DEF T
  <2> QED BY <1>8, <1>9, Induction
<1>11. Until \in [Levels -> Nat]
  BY <1>10, <1>6, <1>1 DEF Levels
<1> QED BY <1>7, <1>11

LEMMA UntilNext ==
  ASSUME NEW k \in Levels, NEW j \in Levels, j = k + 1
  PROVE  Until[j] = Until[k] + Thresholds[j]
<1>1. j \in Levels \ {0} /\ j - 1 = k
  BY DEF Levels
<1>2. Until[j] = Until[j - 1] + Thresholds[j]
  BY <1>1, UntilSums
<1> QED BY <1>1, <1>2

LEMMA UntilGrows ==
  ASSUME NEW k \in Levels, NEW l \in Levels, k < l
  PROVE  Until[k] < Until[l]
<1> DEFINE N == Len(Thresholds)
           T == {n \in Nat : k < n /\ n <= N => Until[k] < Until[n]}
<1>1. N \in Nat /\ Thresholds \in [1..N -> Nat \ {0}]
  BY ThresholdsAssumption DEF ThresholdsAssumption
<1>2. 0 \in T
  BY DEF Levels
<1>3. ASSUME NEW n \in Nat, n \in T
      PROVE  n + 1 \in T
  <2> SUFFICES ASSUME k < n + 1, n + 1 <= N PROVE Until[k] < Until[n + 1]
    OBVIOUS
  <2>1. n \in Levels /\ n + 1 \in Levels \ {0} /\ n + 1 - 1 = n /\ n + 1 \in 1..N
    BY <1>1 DEF Levels
  <2>2. Until[n + 1] = Until[n] + Thresholds[n + 1]
    BY <2>1, UntilSums
  <2>3. Until[n] \in Nat /\ Until[k] \in Nat /\ Thresholds[n + 1] \in Nat \ {0}
    BY <2>1, UntilSums, <1>1
  <2>4. CASE k = n
    BY <2>2, <2>3, <2>4
  <2>5. CASE k < n
    <3>1. Until[k] < Until[n]
      BY <1>3, <2>5, <2>1, <1>1
    <3> QED BY <3>1, <2>2, <2>3
  <2> QED BY <2>4, <2>5 DEF Levels
<1>4. Nat \subseteq T
  <2> HIDE DEF T
  <2> QED BY <1>2, <1>3, Induction
<1> QED BY <1>4, <1>1 DEF Levels

(***************************************************************************)
(* IdleTracker.  What a window waits for is the time at which it reaches   *)
(* its next level, counted from its last activity however late it was      *)
(* noticed, so every level that has been reached was due.                  *)
(***************************************************************************)
Due(w) == quiet[w] + Until[windows[w].level]
WindowSound(w) ==
  /\ quiet[w] <= now
  /\ windows[w].level # 0 => Due(w) <= seen
  /\ windows[w].pending = DeadlineFor(w, windows[w].generation, windows[w].level + 1, Due(w))
  /\ windows[w].pending \in heap \cup {None}
  /\ step \in {"fire", "wait"} => quiet[w] <= seen
  /\ step = "wait" /\ windows[w].pending # None => windows[w].pending.at > seen
IdleInv ==
  /\ TypeOK /\ HeapBounded /\ IsFiniteSet(heap) /\ seen <= now
  /\ \A w \in Registered : WindowSound(w)

LEMMA NoDeadline == None \notin Deadlines
BY DEF None, Deadlines

LEMMA DeadlineTyped ==
  ASSUME NEW w \in Windows, NEW g \in Nat, NEW l \in Levels, NEW from \in Nat
  PROVE  /\ DeadlineFor(w, g, l + 1, from) \in Deadlines \cup {None}
         /\ l + 1 \in Levels => DeadlineFor(w, g, l + 1, from) =
              [at |-> from + Thresholds[l + 1], window |-> w, generation |-> g, level |-> l + 1]
         /\ l + 1 \notin Levels => DeadlineFor(w, g, l + 1, from) = None
<1> DEFINE d == [at |-> from + Thresholds[l + 1], window |-> w, generation |-> g, level |-> l + 1]
<1>1. Len(Thresholds) \in Nat /\ Thresholds \in [1..Len(Thresholds) -> Nat \ {0}]
  BY ThresholdsAssumption DEF ThresholdsAssumption
<1>2. ASSUME l + 1 \in Levels
      PROVE  DeadlineFor(w, g, l + 1, from) = d
  BY <1>1, <1>2 DEF DeadlineFor, Levels
<1>3. ASSUME l + 1 \notin Levels
      PROVE  DeadlineFor(w, g, l + 1, from) = None
  BY <1>1, <1>3 DEF DeadlineFor, Levels
<1>4. ASSUME l + 1 \in Levels
      PROVE  d \in Deadlines
  <2>1. l + 1 \in Levels \ {0} /\ Thresholds[l + 1] \in Nat
    BY <1>1, <1>4 DEF Levels
  <2>2. from + Thresholds[l + 1] \in Nat
    BY <2>1
  <2> QED BY <2>1, <2>2 DEF Deadlines
<1> QED BY <1>2, <1>3, <1>4

\* A window that nothing is due for any more is at the level of its quiet time.
LEMMA LevelReached ==
  ASSUME NEW l \in Levels, NEW t \in Int, Until[l] <= t,
         l + 1 \in Levels => Until[l + 1] > t
  PROVE  LevelAfter(t) = l
<1> DEFINE Reached(k) == Until[k] <= t /\ \A m \in Levels : m > k => Until[m] > t
<1>1. Len(Thresholds) \in Nat
  BY ThresholdsAssumption DEF ThresholdsAssumption
<1>2. \A k \in Levels : Until[k] \in Nat /\ k \in Nat
  BY UntilSums DEF Levels
<1>3. Reached(l)
  <2> SUFFICES ASSUME NEW m \in Levels, m > l PROVE Until[m] > t
    OBVIOUS
  <2>1. l + 1 \in Levels
    BY <1>1 DEF Levels
  <2>2. CASE m = l + 1
    BY <2>1, <2>2
  <2>3. CASE m > l + 1
    BY <2>1, <2>3, UntilGrows, <1>2
  <2> QED BY <2>2, <2>3, <1>2
<1>4. ASSUME NEW k \in Levels, Reached(k)
      PROVE  k = l
  BY <1>2, <1>3, <1>4
<1> QED BY <1>3, <1>4 DEF LevelAfter

LEMMA IdleIsSound == IdleInv => DeadlinesSound
<1> SUFFICES ASSUME IdleInv PROVE DeadlinesSound
  OBVIOUS
<1>1. TypeOK /\ HeapBounded /\ PendingInHeap
  BY DEF IdleInv, WindowSound, PendingInHeap
<1>2. ASSUME step = "wait", NEW w \in Registered
      PROVE  windows[w].level = LevelAfter(seen - quiet[w])
  <2> DEFINE l == windows[w].level
  <2>1. l \in Levels /\ windows[w].generation \in Nat /\ w \in Windows
    BY <1>1 DEF TypeOK, Records
  <2>2. quiet[w] \in Nat /\ seen \in Nat /\ l \in Nat
    BY <2>1, <1>1, BoundAssumption DEF TypeOK, Levels, BoundAssumption
  <2>3. Until[l] \in Nat /\ Until[0] = 0 /\ quiet[w] <= seen
    BY <2>1, <1>2, UntilSums DEF IdleInv, WindowSound
  <2>4. Until[l] <= seen - quiet[w]
    <3>1. CASE l = 0
      BY <3>1, <2>3, <2>2
    <3>2. CASE l # 0
      BY <3>2, <2>3, <2>2 DEF IdleInv, WindowSound, Due
    <3> QED BY <3>1, <3>2
  <2>5. ASSUME l + 1 \in Levels
        PROVE  Until[l + 1] > seen - quiet[w]
    <3> DEFINE d == windows[w].pending
    <3>1. Due(w) \in Nat
      BY <2>2, <2>3 DEF Due
    <3>2. d = [at |-> Due(w) + Thresholds[l + 1], window |-> w,
               generation |-> windows[w].generation, level |-> l + 1]
      BY <2>1, <2>5, <3>1, DeadlineTyped DEF IdleInv, WindowSound
    <3>3. d # None
      BY <3>1, <2>1, <2>5, DeadlineTyped, NoDeadline, <3>2 DEF None
    <3>4. d.at > seen
      BY <1>2, <3>3 DEF IdleInv, WindowSound
    <3>5. d.at = Due(w) + Thresholds[l + 1]
      BY <3>2
    <3>6. l + 1 \in Levels \ {0} /\ l + 1 - 1 = l
      BY <2>5, <2>2
    <3>7. Until[l + 1] = Until[l] + Thresholds[l + 1]
      BY <2>1, <2>5, UntilNext
    <3>8. Thresholds[l + 1] \in Nat
      BY <3>6, ThresholdsAssumption DEF ThresholdsAssumption, Levels
    <3> QED BY <3>4, <3>5, <3>7, <3>8, <2>2, <2>3 DEF Due
  <2>6. seen - quiet[w] \in Int
    BY <2>2
  <2> QED BY <2>1, <2>4, <2>5, <2>6, LevelReached
<1> QED BY <1>1, <1>2 DEF DeadlinesSound, Settled

LEMMA Multiples ==
  ASSUME NEW s \in Nat \ {0}, NEW c \in Nat, NEW n \in Nat, c <= n
  PROVE  s * c <= s * n /\ n <= s * n /\ s * n \in Nat
<1>1. s * n = s * c + s * (n - c) /\ s * (n - c) >= 0
  OBVIOUS
<1>2. s * n = (s - 1) * n + n /\ (s - 1) * n >= 0
  OBVIOUS
<1> QED BY <1>1, <1>2

\* The heap as it is after a command: rebuilt when it is too large.
Bounded(deadlines) ==
  \/ Cardinality(deadlines) <= SlackPerWindow * Cardinality(Windows)
  \/ Cardinality(deadlines) <= MinSlack

LEMMA PendingFew ==
  ASSUME NEW ws, DOMAIN ws \subseteq Windows
  PROVE  IsFiniteSet(Pending(ws)) /\ Cardinality(Pending(ws)) <= Cardinality(Windows)
<1> DEFINE R == DOMAIN ws
           All == {ws[w].pending : w \in R}
           f == [w \in R |-> ws[w].pending]
<1>1. IsFiniteSet(R) /\ Cardinality(R) <= Cardinality(Windows)
  BY WindowsAssumption, FS_Subset DEF WindowsAssumption
<1>2. f \in Surjection(R, All)
  BY DEF Surjection
<1>3. IsFiniteSet(All) /\ Cardinality(All) <= Cardinality(R)
  <2> HIDE DEF f, All, R
  <2> QED BY <1>1, <1>2, FS_Surjection
<1>4. Pending(ws) \subseteq All
  BY DEF Pending
<1>5. IsFiniteSet(Pending(ws)) /\ Cardinality(Pending(ws)) <= Cardinality(All)
  <2> HIDE DEF All
  <2> QED BY <1>3, <1>4, FS_Subset
<1>6. /\ Cardinality(Pending(ws)) \in Nat /\ Cardinality(All) \in Nat
      /\ Cardinality(R) \in Nat /\ Cardinality(Windows) \in Nat
  <2> HIDE DEF All, R
  <2> QED BY <1>1, <1>3, <1>5, FS_CardinalityType, WindowsAssumption DEF WindowsAssumption
<1> QED
  <2> HIDE DEF All, R
  <2> QED BY <1>1, <1>3, <1>5, <1>6

LEMMA Compacting ==
  ASSUME NEW deadlines, IsFiniteSet(deadlines), NEW ws, DOMAIN ws \subseteq Windows
  PROVE  /\ IsFiniteSet(Compacted(deadlines, ws)) /\ Bounded(Compacted(deadlines, ws))
         /\ Compacted(deadlines, ws) \in {deadlines, Pending(ws)}
<1> DEFINE n == Cardinality(DOMAIN ws)
<1>1. IsFiniteSet(DOMAIN ws) /\ n <= Cardinality(Windows)
  BY WindowsAssumption, FS_Subset DEF WindowsAssumption
<1>2. n \in Nat /\ Cardinality(Windows) \in Nat
  BY <1>1, FS_CardinalityType, WindowsAssumption DEF WindowsAssumption
<1>3. Cardinality(deadlines) \in Nat
  BY FS_CardinalityType
<1>4. IsFiniteSet(Pending(ws)) /\ Cardinality(Pending(ws)) <= Cardinality(Windows)
  BY PendingFew
<1>5. Cardinality(Pending(ws)) \in Nat
  BY <1>4, FS_CardinalityType
<1>6. SlackPerWindow \in Nat \ {0}
  BY SlackAssumption DEF SlackAssumption
<1> HIDE DEF n
<1>7. /\ SlackPerWindow * n <= SlackPerWindow * Cardinality(Windows)
      /\ Cardinality(Windows) <= SlackPerWindow * Cardinality(Windows)
      /\ SlackPerWindow * Cardinality(Windows) \in Nat
  BY <1>1, <1>2, <1>6, Multiples
<1>8. SlackPerWindow * n \in Nat
  BY <1>2, <1>6, Multiples
<1>9. CASE Cardinality(deadlines) <= SlackPerWindow * n \/ Cardinality(deadlines) <= MinSlack
  <2>1. Compacted(deadlines, ws) = deadlines
    BY <1>9 DEF Compacted, n
  <2>2. Bounded(deadlines)
    BY <1>3, <1>7, <1>8, <1>9 DEF Bounded
  <2> QED BY <2>1, <2>2
<1>10. CASE ~(Cardinality(deadlines) <= SlackPerWindow * n \/ Cardinality(deadlines) <= MinSlack)
  <2>1. Compacted(deadlines, ws) = Pending(ws)
    BY <1>10 DEF Compacted, n
  <2>2. Bounded(Pending(ws))
    BY <1>4, <1>5, <1>7, <1>2 DEF Bounded
  <2> QED BY <2>1, <2>2, <1>4
<1> QED BY <1>9, <1>10

\* Every window waits for something that is in the heap.
LEMMA RecordTyped ==
  ASSUME TypeOK, NEW w \in Registered
  PROVE  /\ w \in Windows /\ windows[w].level \in Levels /\ windows[w].level \in Nat
         /\ windows[w].generation \in Nat
         /\ windows[w].pending \in Deadlines \cup {None}
         /\ quiet[w] \in Nat /\ now \in Nat /\ seen \in Nat
         /\ Due(w) \in Nat
<1>1. /\ w \in Windows /\ windows[w].level \in Levels /\ windows[w].generation \in Nat
      /\ windows[w].pending \in Deadlines \cup {None}
  BY DEF TypeOK, Records
<1>2. windows[w].level \in Nat
  BY <1>1 DEF Levels
<1>3. quiet[w] \in Nat /\ now \in Nat /\ seen \in Nat
  BY <1>1, BoundAssumption DEF TypeOK, BoundAssumption
<1>4. Until[windows[w].level] \in Nat
  BY <1>1, UntilSums
<1> QED BY <1>1, <1>2, <1>3, <1>4 DEF Due

LEMMA Keeps ==
  ASSUME IdleInv, NEW w \in Registered,
         windows'[w] = windows[w], quiet'[w] = quiet[w],
         now' \in Nat, seen' \in Nat, now <= now', seen <= seen',
         windows[w].pending \in heap => windows[w].pending \in heap',
         step' \in {"fire", "wait"} => quiet[w] <= seen',
         step' = "wait" /\ windows[w].pending # None => windows[w].pending.at > seen'
  PROVE  WindowSound(w)'
<1>1. /\ quiet[w] \in Nat /\ now \in Nat /\ seen \in Nat /\ Due(w) \in Nat
  BY RecordTyped DEF IdleInv
<1>2. WindowSound(w)
  BY DEF IdleInv
<1>3. Due(w)' = Due(w)
  BY DEF Due
<1>4. quiet'[w] <= now'
  BY <1>1, <1>2 DEF WindowSound
<1>5. windows'[w].level # 0 => Due(w)' <= seen'
  BY <1>1, <1>2, <1>3 DEF WindowSound
<1>6. windows'[w].pending = DeadlineFor(w, windows'[w].generation, windows'[w].level + 1, Due(w)')
  BY <1>2, <1>3 DEF WindowSound
<1>7. windows'[w].pending \in heap' \cup {None}
  BY <1>2 DEF WindowSound
<1> QED BY <1>4, <1>5, <1>6, <1>7 DEF WindowSound

LEMMA RestartStep ==
  ASSUME IdleInv, NEW w \in Windows, NEW g \in Nat, Restarted(w, g)
  PROVE  IdleInv'
<1> DEFINE fresh == Fresh(w, g)
           h == Pushed(heap, fresh.pending)
<1>1. TypeOK /\ now \in Nat /\ seen \in Nat
  BY BoundAssumption DEF IdleInv, TypeOK, BoundAssumption
<1>2. fresh.pending \in Deadlines \cup {None} /\ fresh \in Records
  <2>1. 0 \in Levels
    BY ThresholdsAssumption DEF ThresholdsAssumption, Levels
  <2>2. DeadlineFor(w, g, 0 + 1, now) \in Deadlines \cup {None}
    BY <1>1, <2>1, DeadlineTyped
  <2> QED BY <2>1, <2>2 DEF Fresh, Records
<1>3. /\ windows' = With(w, fresh) /\ heap' = Compacted(h, windows')
      /\ quiet' = [quiet EXCEPT ![w] = now] /\ step' = "look" /\ now' = now /\ seen' = seen
  BY DEF Restarted
<1> HIDE DEF fresh
<1>4. DOMAIN windows' = Registered \cup {w} /\ windows'[w] = fresh
      /\ \A v \in Registered \ {w} : windows'[v] = windows[v]
  BY <1>3 DEF With, Registered
<1>5. windows' \in [Registered' -> Records] /\ Registered' \subseteq Windows
  <2>1. \A v \in Registered : windows[v] \in Records
    BY <1>1 DEF TypeOK
  <2> QED BY <1>2, <1>3, <1>1, <2>1 DEF With, Registered, TypeOK
<1>6. h \in SUBSET Deadlines /\ IsFiniteSet(h) /\ heap \subseteq h /\ fresh.pending \in h \cup {None}
  <2>1. IsFiniteSet(heap) /\ heap \subseteq Deadlines
    BY DEF IdleInv, TypeOK
  <2>2. CASE fresh.pending = None
    BY <2>1, <2>2 DEF Pushed
  <2>3. CASE fresh.pending # None
    <3>1. h = heap \cup {fresh.pending}
      BY <2>3 DEF Pushed
    <3> QED BY <3>1, <2>1, <2>3, <1>2, FS_AddElement
  <2> QED BY <2>2, <2>3
<1>7. Pending(windows') \subseteq h
  <2> SUFFICES ASSUME NEW v \in DOMAIN windows', windows'[v].pending # None
               PROVE  windows'[v].pending \in h
    BY DEF Pending
  <2>1. CASE v = w
    BY <2>1, <1>4, <1>6
  <2>2. CASE v # w
    BY <2>2, <1>4, <1>6 DEF IdleInv, WindowSound, Registered
  <2> QED BY <2>1, <2>2
<1> HIDE DEF h
<1>8. IsFiniteSet(heap') /\ Bounded(heap') /\ heap' \in {h, Pending(windows')}
  BY <1>3, <1>4, <1>5, <1>6, Compacting DEF Registered
<1>9. heap' \subseteq Deadlines /\ Pending(windows') \subseteq heap'
  BY <1>6, <1>7, <1>8
<1>10. TypeOK'
  BY <1>1, <1>3, <1>5, <1>9 DEF TypeOK
<1>11. HeapBounded'
  BY <1>8 DEF HeapBounded, Bounded
<1>12. ASSUME NEW v \in Registered'
       PROVE  WindowSound(v)'
  <2>1. CASE v # w
    <3>1. v \in Registered /\ windows'[v] = windows[v] /\ quiet'[v] = quiet[v]
      BY <2>1, <1>3, <1>4, <1>1 DEF Registered, TypeOK
    <3>2. windows[v].pending \in heap => windows[v].pending \in heap'
      <4>1. windows[v].pending \in heap => windows'[v].pending \in Pending(windows')
        BY <3>1, <1>1, NoDeadline DEF Pending, TypeOK, Registered
      <4> QED BY <4>1, <3>1, <1>9
    <3> QED BY <3>1, <3>2, <1>1, <1>3, Keeps
  <2>2. CASE v = w
    <3>1. windows'[w].level = 0 /\ windows'[w].generation = g
          /\ windows'[w].pending = DeadlineFor(w, g, 1, now)
      BY <1>4 DEF Fresh, fresh
    <3>2. quiet'[w] = now
      BY <1>1, <1>3 DEF TypeOK
    <3>3. Due(w)' = now
      <4>1. Until[0] = 0
        BY UntilSums
      <4> QED BY <3>1, <3>2, <4>1, <1>1 DEF Due
    <3>4. windows'[w].pending \in heap' \cup {None}
      BY <1>9, <1>4 DEF Pending
    <3>5. windows'[w].level + 1 = 1
      BY <3>1
    <3> QED BY <2>2, <3>1, <3>2, <3>3, <3>4, <3>5, <1>1, <1>3 DEF WindowSound
  <2> QED BY <2>1, <2>2
<1>13. IsFiniteSet(heap') /\ seen' <= now'
  BY <1>3, <1>8 DEF IdleInv
<1> QED BY <1>10, <1>11, <1>12, <1>13 DEF IdleInv

LEMMA FireStep ==
  ASSUME IdleInv, FireDue
  PROVE  IdleInv'
<1> PICK d \in heap : d.at <= seen /\ Fire(d)
  BY DEF FireDue
<1>1. /\ step = "fire" /\ step' = step /\ now' = now /\ seen' = seen /\ quiet' = quiet
  BY DEF FireDue
<1>2. TypeOK /\ now \in Nat /\ seen \in Nat
  BY BoundAssumption DEF IdleInv, TypeOK, BoundAssumption
<1>3. d \in Deadlines /\ heap \subseteq Deadlines /\ IsFiniteSet(heap) /\ Bounded(heap)
  BY <1>2 DEF IdleInv, TypeOK, HeapBounded, Bounded
<1>4. IsFiniteSet(heap \ {d}) /\ Cardinality(heap \ {d}) = Cardinality(heap) - 1
      /\ Cardinality(heap) \in Nat
  BY <1>3, FS_RemoveElement, FS_CardinalityType
<1>5. CASE ~Wanted(d)
  <2>1. heap' = heap \ {d} /\ windows' = windows
    BY <1>5 DEF Fire
  <2>2. ASSUME NEW w \in Registered
        PROVE  WindowSound(w)'
    <3>1. windows[w].pending # d
      <4>1. WindowSound(w)
        BY DEF IdleInv
      <4>2. w \in Windows /\ windows[w].level \in Levels /\ windows[w].generation \in Nat
            /\ Due(w) \in Nat
        BY <1>2, RecordTyped
      <4>3. windows[w].pending # None => windows[w].pending =
              [at |-> Due(w) + Thresholds[windows[w].level + 1], window |-> w,
               generation |-> windows[w].generation, level |-> windows[w].level + 1]
        BY <4>1, <4>2, DeadlineTyped DEF WindowSound
      <4>4. d # None
        BY <1>3, NoDeadline
      <4> QED BY <4>3, <4>4, <1>5 DEF Wanted
    <3>2. windows[w].pending \in heap => windows[w].pending \in heap'
      BY <3>1, <2>1
    <3>3. quiet[w] <= seen
      BY <1>1 DEF IdleInv, WindowSound
    <3> QED BY <3>2, <3>3, <1>1, <1>2, <2>1, Keeps
  <2>3. TypeOK'
    BY <1>1, <1>2, <2>1 DEF TypeOK, Registered
  <2>4. HeapBounded'
    <3>1. Cardinality(heap') <= Cardinality(heap) /\ Cardinality(heap') \in Nat
      BY <2>1, <1>4, FS_CardinalityType
    <3>2. SlackPerWindow * Cardinality(Windows) \in Nat
      BY SlackAssumption, WindowsAssumption, FS_CardinalityType, Multiples
         DEF SlackAssumption, WindowsAssumption
    <3>3. MinSlack \in Nat
      BY SlackAssumption DEF SlackAssumption
    <3> QED BY <3>1, <3>2, <3>3, <1>3, <1>4 DEF HeapBounded, Bounded
  <2> QED BY <2>1, <2>2, <2>3, <2>4, <1>1, <1>4 DEF IdleInv, Registered
<1>6. CASE Wanted(d)
  <2> DEFINE w == d.window
             r == windows[w]
             next == DeadlineFor(w, d.generation, d.level + 1, d.at)
             new == [r EXCEPT !.level = d.level, !.pending = next]
  <2>1. /\ w \in Registered /\ r.generation = d.generation /\ r.pending = d /\ r.level + 1 = d.level
    BY <1>6 DEF Wanted
  <2>2. windows' = With(w, new) /\ heap' = Pushed(heap \ {d}, next)
    BY <1>6 DEF Fire
  <2>3. d.at \in Nat /\ d.level \in Levels \ {0} /\ d.generation \in Nat /\ w \in Windows
    BY <1>3 DEF Deadlines
  <2>4. next \in Deadlines \cup {None}
    BY <2>3, DeadlineTyped
  <2>5. r \in Records
    BY <1>2, <2>1 DEF TypeOK
  <2>6. new \in Records /\ new.level = d.level /\ new.pending = next /\ new.generation = d.generation
    <3> HIDE DEF next
    <3> QED BY <2>1, <2>3, <2>4, <2>5 DEF Records
  <2> HIDE DEF new, next
  <2>7. DOMAIN windows' = Registered /\ windows'[w] = new
        /\ \A v \in Registered \ {w} : windows'[v] = windows[v]
    BY <2>1, <2>2 DEF With, Registered
  <2>8. windows' \in [Registered' -> Records] /\ Registered' \subseteq Windows
    <3>1. \A v \in Registered : windows[v] \in Records
      BY <1>2 DEF TypeOK
    <3> QED BY <2>1, <2>2, <2>6, <1>2, <3>1 DEF With, Registered, TypeOK
  <2>9. /\ heap' \subseteq Deadlines /\ IsFiniteSet(heap') /\ Cardinality(heap') <= Cardinality(heap)
        /\ Cardinality(heap') \in Nat /\ heap \ {d} \subseteq heap' /\ next \in heap' \cup {None}
    <3>1. CASE next = None
      <4>1. heap' = heap \ {d}
        BY <3>1, <2>2 DEF Pushed
      <4> QED BY <4>1, <3>1, <1>3, <1>4, FS_CardinalityType
    <3>2. CASE next # None
      <4>1. heap' = (heap \ {d}) \cup {next}
        BY <3>2, <2>2 DEF Pushed
      <4>2. IsFiniteSet(heap') /\ Cardinality(heap') <= Cardinality(heap \ {d}) + 1
            /\ Cardinality(heap') \in Nat
        <5>1. IsFiniteSet(heap')
          BY <4>1, <1>4, FS_AddElement
        <5>2. Cardinality(heap') = IF next \in heap \ {d} THEN Cardinality(heap \ {d})
                                   ELSE Cardinality(heap \ {d}) + 1
          BY <4>1, <1>4, FS_AddElement
        <5>3. Cardinality(heap \ {d}) \in Nat /\ Cardinality(heap') \in Nat
          BY <5>1, <1>4, FS_CardinalityType
        <5> QED BY <5>1, <5>2, <5>3
      <4> QED BY <4>1, <4>2, <3>2, <2>4, <1>3, <1>4
    <3> QED BY <3>1, <3>2
  <2>10. TypeOK'
    BY <1>1, <1>2, <2>8, <2>9 DEF TypeOK
  <2>11. HeapBounded'
    <3>2. SlackPerWindow * Cardinality(Windows) \in Nat
      BY SlackAssumption, WindowsAssumption, FS_CardinalityType, Multiples
         DEF SlackAssumption, WindowsAssumption
    <3>3. MinSlack \in Nat
      BY SlackAssumption DEF SlackAssumption
    <3> QED BY <2>9, <3>2, <3>3, <1>3, <1>4 DEF HeapBounded, Bounded
  <2>12. ASSUME NEW v \in Registered, v # w
         PROVE  WindowSound(v)'
    <3>1. WindowSound(v)
      BY DEF IdleInv
    <3>2. v \in Windows /\ windows[v].level \in Levels /\ windows[v].generation \in Nat
          /\ Due(v) \in Nat
      BY <1>2, RecordTyped
    <3>3. windows[v].pending # None => windows[v].pending =
            [at |-> Due(v) + Thresholds[windows[v].level + 1], window |-> v,
             generation |-> windows[v].generation, level |-> windows[v].level + 1]
      BY <3>1, <3>2, DeadlineTyped DEF WindowSound
    <3>4. windows[v].pending # d
      BY <3>3, <2>12, <1>3, NoDeadline
    <3>5. windows[v].pending \in heap => windows[v].pending \in heap'
      BY <3>4, <2>9
    <3>6. quiet[v] <= seen
      BY <3>1, <1>1 DEF WindowSound
    <3>7. windows'[v] = windows[v] /\ quiet'[v] = quiet[v]
      BY <2>7, <2>12, <1>1
    <3> QED BY <3>5, <3>6, <3>7, <1>1, <1>2, Keeps
  <2>13. WindowSound(w)'
    <3>1. WindowSound(w)
      BY <2>1 DEF IdleInv
    <3>2. /\ r.level \in Levels /\ r.level \in Nat /\ Due(w) \in Nat /\ quiet[w] \in Nat
      BY <1>2, <2>1, RecordTyped
    <3>3. d = DeadlineFor(w, d.generation, r.level + 1, Due(w))
      BY <2>1, <3>1 DEF WindowSound
    <3>4. d.level \in Levels /\ d.level = r.level + 1
      BY <2>1, <2>3
    <3>5. d = [at |-> Due(w) + Thresholds[d.level], window |-> w, generation |-> d.generation,
               level |-> d.level]
      <4>1. r.level + 1 \in Levels
        BY <3>4
      <4>2. DeadlineFor(w, d.generation, r.level + 1, Due(w)) =
              [at |-> Due(w) + Thresholds[r.level + 1], window |-> w,
               generation |-> d.generation, level |-> r.level + 1]
        BY <3>2, <2>3, <4>1, DeadlineTyped
      <4> QED BY <4>2, <3>3, <3>4
    <3>6. d.at = Due(w) + Thresholds[d.level]
      BY <3>5
    <3>7. Until[d.level] = Until[r.level] + Thresholds[d.level]
      BY <3>2, <3>4, UntilNext
    <3>8. Until[r.level] \in Nat /\ Thresholds[d.level] \in Nat
      BY <3>2, <2>3, UntilSums, ThresholdsAssumption DEF ThresholdsAssumption, Levels
    <3>9. d.at = quiet[w] + Until[d.level]
      BY <3>2, <3>6, <3>7, <3>8 DEF Due
    <3>10. Due(w)' = d.at
      BY <3>9, <2>6, <2>7, <1>1 DEF Due
    <3>11. windows'[w].pending = DeadlineFor(w, windows'[w].generation, windows'[w].level + 1, Due(w)')
      BY <3>10, <2>6, <2>7 DEF next
    <3>12. quiet'[w] <= now' /\ quiet'[w] <= seen'
      BY <3>1, <1>1 DEF WindowSound
    <3>13. Due(w)' <= seen'
      BY <3>10, <1>1
    <3>14. windows'[w].pending \in heap' \cup {None}
      BY <2>6, <2>7, <2>9
    <3> QED BY <3>11, <3>12, <3>13, <3>14, <1>1 DEF WindowSound
  <2> QED BY <2>7, <2>9, <2>10, <2>11, <2>12, <2>13, <1>1 DEF IdleInv, Registered
<1> QED BY <1>5, <1>6

LEMMA IdleSteps == IdleInv /\ [Next]_vars => IdleInv'
<1> SUFFICES ASSUME IdleInv, [Next]_vars PROVE IdleInv'
  OBVIOUS
<1>1. TypeOK /\ now \in Nat /\ seen \in Nat /\ seen <= now /\ now <= MaxTime
  BY BoundAssumption DEF IdleInv, TypeOK, BoundAssumption
<1>2. ASSUME TypeOK', windows' = windows \/ (\E w \in Windows : windows' = [v \in Registered \ {w} |-> windows[v]]),
             heap' = heap, quiet' = quiet, now' \in Nat, seen' \in Nat, now <= now',
             seen <= seen', seen' <= now',
             \A w \in Registered :
               /\ step' \in {"fire", "wait"} => quiet[w] <= seen'
               /\ step' = "wait" /\ windows[w].pending # None => windows[w].pending.at > seen'
      PROVE  IdleInv'
  <2>1. Registered' \subseteq Registered /\ \A w \in Registered' : windows'[w] = windows[w]
    BY <1>2 DEF Registered
  <2>2. \A w \in Registered' : WindowSound(w)'
    BY <1>2, <2>1, Keeps
  <2> QED BY <1>2, <2>2 DEF IdleInv, HeapBounded
<1>3. \A w \in Registered : WindowSound(w) /\ w \in Windows /\ quiet[w] \in Nat
  BY <1>1, RecordTyped DEF IdleInv
<1>4. CASE Look
  <2>1. TypeOK'
    BY <1>4, <1>1 DEF Look, TypeOK, Registered
  <2>2. \A w \in Registered : quiet[w] <= now
    BY <1>3 DEF WindowSound
  <2> QED BY <2>1, <2>2, <1>1, <1>2, <1>4 DEF Look
<1>5. CASE FireDue
  BY <1>5, FireStep
<1>6. CASE NothingDue
  <2>1. TypeOK'
    BY <1>6, <1>1 DEF NothingDue, TypeOK, Registered
  <2>2. \A w \in Registered : quiet[w] <= seen /\ (windows[w].pending # None => windows[w].pending.at > seen)
    BY <1>3, <1>6 DEF WindowSound, NothingDue
  <2> QED BY <2>1, <2>2, <1>1, <1>2, <1>6 DEF NothingDue
<1>7. CASE Timeout
  <2>1. TypeOK'
    BY <1>7, <1>1 DEF Timeout, TypeOK, Registered
  <2> QED BY <2>1, <1>1, <1>2, <1>7 DEF Timeout
<1>8. CASE Tick
  <2>1. now' \in 0..MaxTime
    BY <1>8, <1>1, BoundAssumption DEF Tick, BoundAssumption
  <2>2. TypeOK'
    BY <1>8, <1>1, <2>1 DEF Tick, TypeOK, Registered
  <2>3. \A w \in Registered :
          /\ step \in {"fire", "wait"} => quiet[w] <= seen
          /\ step = "wait" /\ windows[w].pending # None => windows[w].pending.at > seen
    BY <1>3 DEF WindowSound
  <2>4. now' \in Nat /\ now <= now' /\ seen' = seen /\ seen <= now'
    BY <1>8, <1>1 DEF Tick
  <2> QED BY <2>2, <2>3, <2>4, <1>1, <1>2, <1>8 DEF Tick
<1>9. ASSUME NEW w \in Windows, RegisterWindow(w)
      PROVE  IdleInv'
  <2>1. (IF w \in Registered THEN windows[w].generation + 1 ELSE 0) \in Nat
    BY <1>1, RecordTyped
  <2> QED BY <1>9, <2>1, RestartStep DEF RegisterWindow
<1>10. ASSUME NEW w \in Windows, UnregisterWindow(w)
       PROVE  IdleInv'
  <2>1. \A v \in Registered : windows[v] \in Records
    BY <1>1 DEF TypeOK
  <2>2. TypeOK'
    BY <1>10, <1>1, <2>1 DEF UnregisterWindow, TypeOK, Registered
  <2> QED BY <2>2, <1>1, <1>2, <1>10 DEF UnregisterWindow
<1>11. ASSUME NEW w \in Windows, RecordActivity(w)
       PROVE  IdleInv'
  <2>1. windows[w].generation + 1 \in Nat
    BY <1>1, <1>11, RecordTyped DEF RecordActivity
  <2> QED BY <1>11, <2>1, RestartStep DEF RecordActivity
<1>12. ASSUME NEW w \in Windows, IgnoreActivity(w)
       PROVE  IdleInv'
  <2>1. TypeOK'
    BY <1>12, <1>1 DEF IgnoreActivity, TypeOK, Registered
  <2> QED BY <2>1, <1>1, <1>2, <1>12 DEF IgnoreActivity
<1>13. CASE UNCHANGED vars
  <2>1. TypeOK'
    BY <1>13, <1>1 DEF vars, TypeOK, Registered
  <2>2. \A w \in Registered :
          /\ step \in {"fire", "wait"} => quiet[w] <= seen
          /\ step = "wait" /\ windows[w].pending # None => windows[w].pending.at > seen
    BY <1>3 DEF WindowSound
  <2> QED BY <2>1, <2>2, <1>1, <1>2, <1>13 DEF vars
<1> QED
  BY <1>4, <1>5, <1>6, <1>7, <1>8, <1>9, <1>10, <1>11, <1>12, <1>13 DEF Next

LEMMA IdleStarts == Init => IdleInv
<1> SUFFICES ASSUME Init PROVE IdleInv
  OBVIOUS
<1>1. 0 \in 0..MaxTime
  BY BoundAssumption DEF BoundAssumption
<1>2. DOMAIN windows = {}
  BY DEF Init
<1>3. windows \in [{} -> Records]
  BY <1>2 DEF Init
<1>4. TypeOK
  BY <1>1, <1>2, <1>3 DEF Init, TypeOK, Registered
<1>5. IsFiniteSet(heap) /\ Cardinality(heap) = 0
  BY FS_EmptySet DEF Init
<1>6. HeapBounded
  BY <1>5, SlackAssumption DEF HeapBounded, SlackAssumption
<1> QED BY <1>2, <1>4, <1>5, <1>6 DEF IdleInv, Init, Registered

\* Whatever the windows and the thresholds, however late the thread is and however many stale
\* deadlines it finds: a window that it waits with is at the level of its quiet time, and the
\* heap stays small.
THEOREM DeadlinesAreSound == Spec => []DeadlinesSound
<1>1. IdleInv /\ [Next]_vars => IdleInv'
  BY IdleSteps
<1> QED BY <1>1, IdleStarts, IdleIsSound, PTL DEF Spec

-----------------------------------------------------------------------------
(***************************************************************************)
(* WindowGroup.  A generation is never used again, so an answer to the     *)
(* request with the identifier of the one that is pending is an answer to  *)
(* that request (Known), whatever the worker was asked before.             *)
(***************************************************************************)
Known(g, r) ==
  /\ r.id =< g.generation
  /\ g.pending # NoRequest /\ g.pending.id = r.id => g.pending = r

PendingSound(g) ==
  /\ g.pending # NoRequest => g.pending.id =< g.generation
  /\ g.selecting => g.pending = NoRequest
  /\ g.deferred # NoRequest => g.pending # NoRequest /\ g.deferred.request = g.pending

WorkKnown(g, w, c) ==
  /\ w.queued # NoRequest => Known(g, w.queued)
  /\ w.active # NoRequest => Known(g, w.active)
  /\ \A i \in 1..Len(c) : c[i] # Group!Closed => Known(g, c[i].request)

GroupInv ==
  /\ Group!TypeOK
  /\ PendingSound(group) /\ WorkKnown(group, worker, channel)
  /\ scene.locked => group.pending = NoRequest
  /\ \A c \in cancelled : c =< group.generation
  /\ Group!GatherKept

\* h is g, or g after its request was withdrawn.
Withdrawn(g, h) ==
  /\ h \in Group!Groups /\ h.worker = g.worker
  /\ h.generation > g.generation
  /\ h.pending = NoRequest /\ h.deferred = NoRequest

LEMMA Invalidation ==
  ASSUME NEW g \in Group!Groups
  PROVE  /\ Withdrawn(g, Group!Invalidated(g))
         /\ Group!Invalidated(g).selected = g.selected
         /\ Group!Invalidated(g).selecting = g.selecting
<1> DEFINE h == Group!Invalidated(g)
<1>1. h = [g EXCEPT !.deferred = NoRequest, !.pending = NoRequest, !.generation = g.generation + 1]
  BY DEF Group!Invalidated
<1>2. g.generation \in Nat /\ g.generation + 1 \in Nat
  BY DEF Group!Groups
<1>3. h \in Group!Groups
  BY <1>1, <1>2 DEF Group!Groups
<1>4. /\ h.generation = g.generation + 1 /\ h.pending = NoRequest /\ h.deferred = NoRequest
      /\ h.worker = g.worker /\ h.selected = g.selected /\ h.selecting = g.selecting
  BY <1>1 DEF Group!Groups
<1> QED BY <1>2, <1>3, <1>4 DEF Withdrawn

LEMMA Selecting ==
  ASSUME NEW g \in Group!Groups, NEW s \in SUBSET Windows
  PROVE  /\ Group!Selection(g, s).selected = s
         /\ Group!Selection(g, s).selecting = g.selecting
         /\ g.selected = s => Group!Selection(g, s) = g
         /\ g.selected # s => Withdrawn(g, Group!Selection(g, s))
BY Invalidation DEF Group!Selection, Group!Groups, Withdrawn

LEMMA Clearing ==
  ASSUME NEW g \in Group!Groups
  PROVE  /\ Withdrawn(g, Group!Cleared(g))
         /\ Group!Cleared(g).selected = {} /\ ~Group!Cleared(g).selecting
BY Invalidation DEF Group!Cleared, Group!Groups, Withdrawn

\* What is still pending after maintenance was asked of the selection as it is.
LEMMA Maintenance ==
  ASSUME Group!TypeOK, NEW g \in Group!Groups
  PROVE  /\ \/ Group!Maintained(g) = g
            \/ /\ Withdrawn(g, Group!Maintained(g))
               /\ Group!Maintained(g).selected \subseteq g.selected
               /\ Group!Maintained(g).selecting => g.selecting
         /\ Group!Maintained(g).pending # NoRequest /\ ~scene.locked =>
              /\ Group!Maintained(g) = g
              /\ g.pending.titles = Group!Snapshot(g.selected)
         /\ ~scene.locked => Group!Maintained(g).selected \subseteq Group!Open
<1> DEFINE kept == Group!Selection(g, g.selected \cap Group!Open)
           Obsolete == Group!Stale(kept) \/ (scene.switching /\ kept.pending # NoRequest)
<1>1. CASE scene.locked
  BY <1>1, Clearing DEF Group!Maintained
<1>2. CASE ~scene.locked
  <2>1. Group!Maintained(g) = IF Obsolete THEN Group!Invalidated(kept) ELSE kept
    BY <1>2 DEF Group!Maintained
  <2>2. g.selected \cap Group!Open \in SUBSET Windows
    BY DEF Group!Groups
  <2>3. /\ kept.selected = g.selected \cap Group!Open /\ kept.selecting = g.selecting
        /\ kept = g \/ Withdrawn(g, kept)
    BY <2>2, Selecting
  <2>4. kept \in Group!Groups
    BY <2>3 DEF Withdrawn
  <2>5. CASE Obsolete
    <3>1. kept = g
      BY <2>3, <2>5 DEF Group!Stale, Withdrawn
    <3>2. /\ Withdrawn(kept, Group!Invalidated(kept))
          /\ Group!Invalidated(kept).selected = kept.selected
          /\ Group!Invalidated(kept).selecting = kept.selecting
      BY <2>4, Invalidation
    <3> HIDE DEF kept
    <3> QED BY <1>2, <2>1, <2>3, <2>5, <3>1, <3>2 DEF Withdrawn
  <2>6. CASE ~Obsolete
    <3>1. kept.pending # NoRequest => kept = g
      BY <2>3 DEF Withdrawn
    <3> QED BY <2>1, <2>3, <2>6, <3>1 DEF Group!Stale
  <2> QED BY <2>5, <2>6
<1> QED BY <1>1, <1>2

\* h is g after its request was completed with this answer, in the scene s.
Finished(g, h, s, answer) ==
  /\ h \in Group!Groups /\ h.worker = g.worker
  /\ h.generation = g.generation /\ h.selecting = g.selecting
  /\ h.pending = NoRequest /\ h.selected = g.selected \cup Group!Joining(g, answer)
  /\ ~scene.locked /\ ~Group!Busy(s)

LEMMA Completion ==
  ASSUME Group!TypeOK, NEW g \in Group!Groups, NEW s, NEW answer \in Group!Answers
  PROVE  LET h == Group!Completed(g, s, answer)
         IN IF scene.locked \/ ~Group!Belongs(g, answer) THEN h = g
            ELSE \/ Group!Busy(s) /\ h = [g EXCEPT !.deferred = answer] /\ h \in Group!Groups
                 \/ Finished(g, h, s, answer) /\ h.deferred = g.deferred
<1> DEFINE h == Group!Completed(g, s, answer)
<1>1. CASE scene.locked \/ ~Group!Belongs(g, answer)
  BY <1>1 DEF Group!Completed
<1>2. CASE ~scene.locked /\ Group!Belongs(g, answer) /\ Group!Busy(s)
  <2>1. h = [g EXCEPT !.deferred = answer]
    BY <1>2 DEF Group!Completed
  <2> QED BY <1>2, <2>1 DEF Group!Groups
<1>3. CASE ~scene.locked /\ Group!Belongs(g, answer) /\ ~Group!Busy(s)
  <2>1. h = [g EXCEPT !.pending = NoRequest, !.selected = g.selected \cup Group!Joining(g, answer)]
    BY <1>3 DEF Group!Completed
  <2>2. Group!Joining(g, answer) \subseteq Windows
    BY DEF Group!Joining, Group!Open
  <2>3. h \in Group!Groups
    BY <2>1, <2>2 DEF Group!Groups
  <2>4. /\ h.worker = g.worker /\ h.generation = g.generation /\ h.selecting = g.selecting
        /\ h.pending = NoRequest /\ h.selected = g.selected \cup Group!Joining(g, answer)
        /\ h.deferred = g.deferred
    BY <2>1 DEF Group!Groups
  <2> QED BY <1>3, <2>3, <2>4 DEF Finished
<1> QED BY <1>1, <1>2, <1>3

\* The windows that an answer adds are those it names and that kept their titles.
LEMMA JoinedAreJudged ==
  ASSUME Group!TypeOK, NEW g \in Group!Groups, NEW answer \in Group!Answers,
         g.pending = answer.request
  PROVE  /\ Group!Joining(g, answer) # {} => Group!Joining(g, answer) \subseteq answer.result
         /\ \A w \in Group!Joining(g, answer) : answer.request.candidates[w] = titles[w]
BY DEF Group!Joining

\* maintain_window_group leaves the group, withdraws its request, or completes it
\* with the answer that waited.
LEMMA Settling ==
  ASSUME GroupInv
  PROVE  LET h == Group!Settled(group)
         IN /\ h \in Group!Groups
            /\ \/ h = group
               \/ /\ Withdrawn(group, h) /\ h.selected \subseteq group.selected
                  /\ h.selecting => group.selecting
               \/ /\ group.deferred # NoRequest /\ h.deferred = NoRequest
                  /\ group.pending.titles = Group!Snapshot(group.selected)
                  /\ Finished(group, h, Group!SceneAfter, group.deferred)
            /\ h.pending # NoRequest /\ ~scene.locked =>
                 /\ h = group
                 /\ group.pending.titles = Group!Snapshot(group.selected)
                 /\ h.deferred # NoRequest => Group!Busy(Group!SceneAfter)
            /\ ~scene.locked => h.selected \subseteq Group!Open
<1> DEFINE kept == Group!Maintained(group)
           h == Group!Settled(group)
           ripe == kept.deferred # NoRequest /\ ~Group!Busy(Group!SceneAfter) /\ ~scene.locked
<1>1. group \in Group!Groups
  BY DEF GroupInv, Group!TypeOK
<1>2. /\ \/ kept = group
         \/ /\ Withdrawn(group, kept) /\ kept.selected \subseteq group.selected
            /\ kept.selecting => group.selecting
      /\ kept.pending # NoRequest /\ ~scene.locked =>
           kept = group /\ group.pending.titles = Group!Snapshot(group.selected)
      /\ ~scene.locked => kept.selected \subseteq Group!Open
  BY <1>1, Maintenance DEF GroupInv
<1>3. kept \in Group!Groups
  BY <1>1, <1>2 DEF Withdrawn
<1>4. CASE ~ripe
  <2>1. h = kept
    BY <1>4 DEF Group!Settled
  <2> QED BY <1>2, <1>3, <1>4, <2>1
<1>5. CASE ripe
  <2> DEFINE c == Group!Completed(kept, Group!SceneAfter, kept.deferred)
  <2>1. h = [c EXCEPT !.deferred = NoRequest]
    BY <1>5 DEF Group!Settled
  <2>2. kept = group /\ group.deferred # NoRequest
    BY <1>2, <1>5 DEF Withdrawn
  <2>3. /\ group.deferred \in Group!Answers
        /\ group.pending # NoRequest /\ group.deferred.request = group.pending
    BY <1>1, <2>2 DEF GroupInv, PendingSound, Group!Groups
  <2>4. ~(scene.locked \/ ~Group!Belongs(group, group.deferred))
    BY <1>5, <2>3 DEF Group!Belongs
  <2>5. Finished(group, c, Group!SceneAfter, group.deferred)
    BY <1>1, <1>5, <2>2, <2>3, <2>4, Completion DEF GroupInv
  <2>6. h \in Group!Groups /\ h.deferred = NoRequest
    BY <2>1, <2>5 DEF Finished, Group!Groups
  <2>7. Finished(group, h, Group!SceneAfter, group.deferred)
    BY <2>1, <2>5, <2>6 DEF Finished, Group!Groups
  <2>8. group.pending.titles = Group!Snapshot(group.selected)
    BY <1>2, <1>5, <2>2, <2>3
  <2>9. h.pending = NoRequest /\ h.selected \subseteq Group!Open
    BY <1>2, <1>5, <2>2, <2>7 DEF Finished, Group!Joining
  <2> QED BY <2>2, <2>6, <2>7, <2>8, <2>9
<1> QED BY <1>4, <1>5

-----------------------------------------------------------------------------
(* The steps. *)

\* h is g with the request it had, with none, or with a new one.
Descends(g, h) ==
  /\ h \in Group!Groups /\ h.generation >= g.generation
  /\ \/ h.pending = NoRequest \/ h.pending = g.pending
     \/ h.pending \in Group!Requests /\ h.pending.id > g.generation

LEMMA WorkKept ==
  ASSUME NEW g \in Group!Groups, NEW h, Descends(g, h), NEW w, NEW c, WorkKnown(g, w, c),
         w.queued \in Group!Requests \cup {NoRequest}, w.active \in Group!Requests \cup {NoRequest},
         c \in Seq(Group!Answers \cup {Group!Closed})
  PROVE  WorkKnown(h, w, c)
<1>1. ASSUME NEW r \in Group!Requests, Known(g, r)
      PROVE  Known(h, r)
  BY <1>1 DEF Known, Descends, Group!Groups, Group!Requests
<1>2. ASSUME NEW i \in 1..Len(c), c[i] # Group!Closed
      PROVE  c[i].request \in Group!Requests
  BY <1>2 DEF Group!Answers
<1> QED BY <1>1, <1>2 DEF WorkKnown

\* A step that keeps the request that is pending, or withdraws it.
LEMMA Becoming ==
  ASSUME GroupInv, NEW h \in Group!Groups, Group!GroupBecomes(h), Descends(group, h),
         PendingSound(h), h.pending \in {group.pending, NoRequest},
         h.pending # NoRequest /\ h.deferred = NoRequest => group.deferred = NoRequest,
         UNCHANGED <<worker, channel>>, Group!TypeOK',
         scene'.locked => h.pending = NoRequest
  PROVE  GroupInv'
<1>1. group' = h /\ cancelled' = cancelled \cup (Group!Ids(group.pending) \ Group!Ids(h.pending))
  BY DEF Group!GroupBecomes
<1>2. group \in Group!Groups /\ worker.queued \in Group!Requests \cup {NoRequest}
      /\ worker.active \in Group!Requests \cup {NoRequest}
      /\ channel \in Seq(Group!Answers \cup {Group!Closed})
  BY DEF GroupInv, Group!TypeOK
<1>3. WorkKnown(group', worker', channel')
  BY <1>1, <1>2, WorkKept DEF GroupInv
<1>4. \A c \in cancelled' : c =< group'.generation
  BY <1>1, <1>2 DEF GroupInv, PendingSound, Group!Ids, Descends, Group!Groups, Group!TypeOK
<1>6. Group!GatherKept
  BY DEF GroupInv
<1>7. group.pending # NoRequest => group.pending.id \in Nat
  BY <1>2 DEF Group!Groups, Group!Requests
<1>8. Group!GatherKept'
  <2>1. CASE h.pending = NoRequest
    <3>1. h.deferred = NoRequest
      BY <2>1 DEF PendingSound
    <3> QED BY <1>1, <1>6, <2>1, <3>1 DEF Group!GatherKept, Group!Ids
  <2>2. CASE h.pending # NoRequest
    <3>1. h.pending = group.pending /\ cancelled' = cancelled
      BY <1>1, <2>2
    <3> QED
      BY <1>1, <1>6, <2>2, <3>1 DEF Group!GatherKept, Group!Messages, PendingSound
  <2> QED BY <2>1, <2>2
<1> QED BY <1>1, <1>3, <1>4, <1>8 DEF GroupInv

\* The group after steps that leave the request alone or withdraw it.
LEMMA GroupUnchanged ==
  ASSUME GroupInv
  PROVE  /\ group \in Group!Groups /\ Descends(group, group) /\ PendingSound(group)
         /\ cancelled' = cancelled => cancelled' = cancelled \cup (Group!Ids(group.pending) \ Group!Ids(group.pending))
BY DEF GroupInv, Group!TypeOK, Descends, Group!Groups

LEMMA GroupWithdrawn ==
  ASSUME GroupInv, NEW h, Withdrawn(group, h)
  PROVE  h \in Group!Groups /\ Descends(group, h) /\ PendingSound(h)
BY DEF GroupInv, Group!TypeOK, Group!Groups, Withdrawn, Descends, PendingSound

CancelledInNat ==
  \A h \in Group!Groups : GroupInv /\ Group!GroupBecomes(h) => cancelled' \subseteq Nat

LEMMA CancelledTyped == CancelledInNat
BY DEF CancelledInNat, GroupInv, Group!TypeOK, Group!GroupBecomes, Group!Ids, Group!Groups, Group!Requests

\* What the session, the clients and the pointer do.
LEMMA SurroundingsStep ==
  ASSUME GroupInv,
         \/ Group!Lock \/ Group!Drag \/ Group!DragGroup \/ (Group!Switch /\ scene.switching)
         \/ \E w \in Windows, t \in Titles \cup {Hidden} : Group!Change(w, t)
  PROVE  GroupInv' /\ group'.selected \subseteq group.selected
<1>1. group \in Group!Groups
  BY DEF GroupInv, Group!TypeOK
<1>2. CASE Group!Lock /\ ~scene.locked
  <2> DEFINE h == Group!Cleared(group)
  <2>1. Withdrawn(group, h) /\ h.selected = {}
    BY <1>1, Clearing
  <2>2. Group!GroupBecomes(h) /\ group' = h
    BY <1>2 DEF Group!Lock, Group!GroupBecomes
  <2>3. h \in Group!Groups /\ Descends(group, h) /\ PendingSound(h)
    BY <2>1, GroupWithdrawn
  <2>4. cancelled' \subseteq Nat
    BY <2>2, <2>3, CancelledTyped DEF CancelledInNat
  <2>5. Group!TypeOK'
    <3>1. scene' = [locked |-> ~scene.locked, dragging |-> FALSE, gesture |-> FALSE,
                    switching |-> FALSE]
      BY <1>2 DEF Group!Lock, Group!Idle
    <3>2. (~scene.locked) \in BOOLEAN
      OBVIOUS
    <3>3. scene' \in [locked : BOOLEAN, dragging : BOOLEAN, gesture : BOOLEAN, switching : BOOLEAN]
      BY <3>1, <3>2
    <3> QED BY <1>2, <2>2, <2>3, <2>4, <3>3 DEF Group!Lock, GroupInv, Group!TypeOK
  <2> QED BY <1>2, <2>1, <2>2, <2>3, <2>5, Becoming DEF Group!Lock, Group!Idle, Withdrawn
<1>3. CASE ~(Group!Lock /\ ~scene.locked)
  <2>1. group' = group /\ cancelled' = cancelled /\ UNCHANGED <<worker, channel>>
    BY <1>3 DEF Group!Lock, Group!Drag, Group!DragGroup, Group!Switch, Group!Change,
       Group!Navigable, Group!GroupBecomes
  <2>2. Group!GroupBecomes(group)
    BY <2>1, GroupUnchanged DEF Group!GroupBecomes
  <2>3. Group!TypeOK'
    <3>1. scene' \in [locked : BOOLEAN, dragging : BOOLEAN, gesture : BOOLEAN, switching : BOOLEAN]
      <4>1. scene \in [locked : BOOLEAN, dragging : BOOLEAN, gesture : BOOLEAN, switching : BOOLEAN]
        BY DEF GroupInv, Group!TypeOK
      <4>2. CASE Group!Lock
        <5>1. scene' = [locked |-> ~scene.locked, dragging |-> FALSE, gesture |-> FALSE,
                        switching |-> FALSE]
          BY <4>2 DEF Group!Lock, Group!Idle
        <5>2. (~scene.locked) \in BOOLEAN
          OBVIOUS
        <5> QED BY <5>1, <5>2
      <4>3. CASE Group!Drag
        <5>1. scene' = [scene EXCEPT !.dragging = ~scene.dragging]
          BY <4>3 DEF Group!Drag
        <5> QED BY <4>1, <5>1
      <4>4. CASE Group!DragGroup
        <5>1. scene' = [scene EXCEPT !.gesture = ~scene.gesture]
          BY <4>4 DEF Group!DragGroup
        <5> QED BY <4>1, <5>1
      <4>5. CASE \E w \in Windows, t \in Titles \cup {Hidden} : Group!Change(w, t)
        BY <4>1, <4>5 DEF Group!Change
      <4>6. CASE Group!Switch
        <5>1. scene' = [scene EXCEPT !.switching = ~scene.switching]
          BY <4>6 DEF Group!Switch
        <5> QED BY <4>1, <5>1
      <4> QED BY <4>2, <4>3, <4>4, <4>5, <4>6
    <3>2. titles' \in [Windows -> Titles \cup {Hidden}]
      BY DEF Group!Lock, Group!Drag, Group!DragGroup, Group!Switch, Group!Change,
       Group!Navigable, GroupInv, Group!TypeOK
    <3>3. counters' \in [changes : Nat, deaths : Nat]
      BY DEF Group!Lock, Group!Drag, Group!DragGroup, Group!Switch, Group!Change,
       Group!Navigable, GroupInv, Group!TypeOK
    <3> QED BY <2>1, <3>1, <3>2, <3>3 DEF GroupInv, Group!TypeOK
  <2>4. scene'.locked => scene.locked
    BY <1>3 DEF Group!Lock, Group!Idle, Group!Drag, Group!DragGroup, Group!Switch, Group!Change,
       Group!Navigable, GroupInv, Group!TypeOK
  <2>5. scene'.locked => group.pending = NoRequest
    BY <2>4 DEF GroupInv
  <2> QED BY <2>1, <2>2, <2>3, <2>5, GroupUnchanged, Becoming
<1> QED BY <1>2, <1>3

\* The selection is another, or none.
LEMMA SelectionStep ==
  ASSUME GroupInv, \/ Group!SelectTool \/ Group!Disarm \/ Group!Select \/ Group!Clear
                   \/ Group!Switch /\ ~scene.switching
  PROVE  GroupInv' /\ (group'.selected \subseteq group.selected \/ group.pending = NoRequest)
<1>1. group \in Group!Groups
  BY DEF GroupInv, Group!TypeOK
<1>2. PICK h : /\ Group!GroupBecomes(h) /\ group' = h
               /\ h \in Group!Groups /\ Descends(group, h) /\ PendingSound(h)
               /\ h.pending = NoRequest
               /\ h.selected \subseteq group.selected \/ group.pending = NoRequest
  <2>1. CASE Group!SelectTool
    <3> DEFINE g == Group!Invalidated(group)
               h == [g EXCEPT !.selecting = TRUE]
    <3>1. Withdrawn(group, g) /\ g.selected = group.selected
      BY <1>1, Invalidation
    <3>2. Withdrawn(group, h) /\ h.selected = group.selected
      BY <3>1 DEF Withdrawn, Group!Groups
    <3>3. Group!GroupBecomes(h) /\ group' = h
      BY <2>1 DEF Group!SelectTool, Group!GroupBecomes
    <3>4. h.pending = NoRequest
      BY <3>2 DEF Withdrawn
    <3> QED BY <3>2, <3>3, <3>4, GroupWithdrawn
  <2>2. CASE Group!Select
    <3>1. PICK s \in SUBSET Group!Open :
            Group!GroupBecomes([Group!Selection(group, s) EXCEPT !.selecting = FALSE])
      BY <2>2 DEF Group!Select
    <3> DEFINE g == Group!Selection(group, s)
               h == [g EXCEPT !.selecting = FALSE]
    <3>2. group.pending = NoRequest
      BY <2>2 DEF Group!Select, GroupInv, PendingSound
    <3>3. group.deferred = NoRequest
      BY <3>2 DEF GroupInv, PendingSound
    <3>4. g = group \/ Withdrawn(group, g)
      BY <1>1, Selecting DEF Group!Open
    <3>5. /\ g \in Group!Groups /\ g.pending = NoRequest /\ g.deferred = NoRequest
          /\ g.generation >= group.generation
      BY <1>1, <3>2, <3>3, <3>4 DEF Withdrawn, Group!Groups
    <3>6. /\ h \in Group!Groups /\ h.pending = NoRequest /\ h.deferred = NoRequest
          /\ h.generation >= group.generation
      BY <3>5 DEF Group!Groups
    <3> QED BY <3>1, <3>2, <3>6 DEF Group!GroupBecomes, Descends, PendingSound
  <2>4. CASE Group!Disarm
    <3> DEFINE g == Group!Invalidated(group)
               h == Group!Disarmed(group)
    <3>1. Withdrawn(group, g) /\ g.selected = group.selected
      BY <1>1, Invalidation
    <3>2. Withdrawn(group, h) /\ h.selected = group.selected
      BY <3>1 DEF Withdrawn, Group!Disarmed, Group!Groups
    <3>3. Group!GroupBecomes(h) /\ group' = h
      BY <2>4 DEF Group!Disarm, Group!GroupBecomes
    <3>4. h.pending = NoRequest
      BY <3>2 DEF Withdrawn
    <3> QED BY <3>2, <3>3, <3>4, GroupWithdrawn
  <2>3. CASE Group!Clear \/ (Group!Switch /\ ~scene.switching)
    <3> DEFINE h == Group!Cleared(group)
    <3>1. Withdrawn(group, h) /\ h.selected = {}
      BY <1>1, Clearing
    <3>2. Group!GroupBecomes(h) /\ group' = h
      BY <2>3 DEF Group!Clear, Group!Switch, Group!GroupBecomes
    <3> QED BY <3>1, <3>2, GroupWithdrawn DEF Withdrawn
  <2> QED BY <2>1, <2>2, <2>3, <2>4
<1>3. cancelled' \subseteq Nat
  BY <1>2, CancelledTyped DEF CancelledInNat
<1>4. Group!TypeOK' /\ UNCHANGED <<worker, channel>>
  <2>1. UNCHANGED <<worker, channel, titles, counters>>
    BY DEF Group!SelectTool, Group!Disarm, Group!Select, Group!Clear, Group!Switch
  <2>2. scene' \in [locked : BOOLEAN, dragging : BOOLEAN, gesture : BOOLEAN, switching : BOOLEAN]
    <3>1. scene \in [locked : BOOLEAN, dragging : BOOLEAN, gesture : BOOLEAN, switching : BOOLEAN]
      BY DEF GroupInv, Group!TypeOK
    <3>2. \/ scene' = scene \/ scene' = [scene EXCEPT !.gesture = FALSE]
          \/ scene' = [scene EXCEPT !.switching = ~scene.switching]
      BY DEF Group!SelectTool, Group!Disarm, Group!Select, Group!Clear, Group!Switch
    <3> QED BY <3>1, <3>2
  <2> QED BY <1>2, <1>3, <2>1, <2>2 DEF GroupInv, Group!TypeOK
<1>5. h.deferred = NoRequest
  BY <1>2 DEF PendingSound
<1>6. h.pending # NoRequest /\ h.deferred = NoRequest => group.deferred = NoRequest
  BY <1>2
<1> QED BY <1>2, <1>4, <1>6, Becoming

\* What JoinsAsJudged says of one step.
Judged ==
  group.pending # NoRequest /\ Group!Joined # {} =>
    /\ ~scene.locked /\ ~Group!Busy(scene')
    /\ \E answer \in (Group!Messages \ {Group!Closed}) \cup ({group.deferred} \ {NoRequest}) :
         /\ Group!Joined \subseteq answer.result
         /\ answer.request.titles = Group!Snapshot(group.selected)
         /\ \A w \in Group!Joined : answer.request.candidates[w] = titles[w]

\* The answer that waited is judged when the group settles.
LEMMA SettledJudged ==
  ASSUME GroupInv, group'.selected = Group!Settled(group).selected,
         Group!Busy(scene') => Group!Busy(Group!SceneAfter)
  PROVE  Judged
<1> DEFINE h == Group!Settled(group)
<1> SUFFICES ASSUME group.pending # NoRequest, Group!Joined # {}
             PROVE  /\ ~scene.locked /\ ~Group!Busy(scene')
                    /\ group.deferred # NoRequest
                    /\ Group!Joined \subseteq group.deferred.result
                    /\ group.deferred.request.titles = Group!Snapshot(group.selected)
                    /\ \A w \in Group!Joined : group.deferred.request.candidates[w] = titles[w]
  BY DEF Judged
<1>1. group \in Group!Groups
  BY DEF GroupInv, Group!TypeOK
<1>2. ~(h.selected \subseteq group.selected)
  BY DEF Group!Joined
<1>3. /\ group.deferred # NoRequest
      /\ group.pending.titles = Group!Snapshot(group.selected)
      /\ Finished(group, h, Group!SceneAfter, group.deferred)
  BY <1>2, Settling
<1>4. group.deferred \in Group!Answers /\ group.deferred.request = group.pending
  BY <1>1, <1>3 DEF GroupInv, PendingSound, Group!Groups
<1>5. Group!Joined = Group!Joining(group, group.deferred) \ group.selected
  BY <1>3 DEF Group!Joined, Finished
<1>6. /\ Group!Joining(group, group.deferred) # {} =>
           Group!Joining(group, group.deferred) \subseteq group.deferred.result
      /\ \A w \in Group!Joining(group, group.deferred) :
           group.deferred.request.candidates[w] = titles[w]
  BY <1>1, <1>4, JoinedAreJudged DEF GroupInv
<1> QED BY <1>3, <1>4, <1>5, <1>6 DEF Finished

\* The request that a settled group still has is the one it had.
LEMMA SettledSound ==
  ASSUME GroupInv
  PROVE  LET h == Group!Settled(group)
         IN /\ h \in Group!Groups /\ Descends(group, h) /\ PendingSound(h)
            /\ h.pending # NoRequest => ~scene.locked /\ h = group
            /\ h.worker = group.worker
            /\ Group!SceneAfter \in [locked : BOOLEAN, dragging : BOOLEAN, gesture : BOOLEAN, switching : BOOLEAN]
            /\ Group!SceneAfter.locked = scene.locked
<1> DEFINE h == Group!Settled(group)
<1>1. group \in Group!Groups
  BY DEF GroupInv, Group!TypeOK
<1>2. /\ Group!SceneAfter \in [locked : BOOLEAN, dragging : BOOLEAN, gesture : BOOLEAN, switching : BOOLEAN]
      /\ Group!SceneAfter.locked = scene.locked
  <2>1. scene \in [locked : BOOLEAN, dragging : BOOLEAN, gesture : BOOLEAN, switching : BOOLEAN]
    BY DEF GroupInv, Group!TypeOK
  <2>2. (scene.gesture /\ Group!GestureKept(group)) \in BOOLEAN
    OBVIOUS
  <2>3. Group!SceneAfter = [scene EXCEPT !.gesture = scene.gesture /\ Group!GestureKept(group)]
    BY DEF Group!SceneAfter
  <2> QED BY <2>1, <2>2, <2>3
<1>3. CASE h = group
  BY <1>1, <1>2, <1>3, Settling, GroupUnchanged DEF GroupInv
<1>4. CASE Withdrawn(group, h)
  BY <1>2, <1>4, GroupWithdrawn DEF Withdrawn
<1>5. CASE h.deferred = NoRequest /\ Finished(group, h, Group!SceneAfter, group.deferred)
  <2>1. h.pending = NoRequest /\ h.worker = group.worker /\ h.generation = group.generation
        /\ h \in Group!Groups
    BY <1>5 DEF Finished
  <2> QED BY <1>1, <1>2, <1>5, <2>1 DEF Descends, PendingSound, Group!Groups
<1> QED BY <1>3, <1>4, <1>5, Settling

LEMMA MaintainStep ==
  ASSUME GroupInv, Group!Maintain
  PROVE  GroupInv' /\ Judged
<1> DEFINE h == Group!Settled(group)
<1>1. /\ Group!GroupBecomes(h) /\ group' = h /\ scene' = Group!SceneAfter
      /\ UNCHANGED <<titles, worker, channel, counters>>
  BY DEF Group!Maintain, Group!GroupBecomes
<1>2. Group!TypeOK'
  <2>1. cancelled' \subseteq Nat
    BY <1>1, SettledSound, CancelledTyped DEF CancelledInNat
  <2> QED BY <1>1, <2>1, SettledSound DEF GroupInv, Group!TypeOK
<1>3. h.pending # NoRequest /\ h.deferred = NoRequest => group.deferred = NoRequest
  BY SettledSound
<1>4. scene'.locked => h.pending = NoRequest
  BY <1>1, SettledSound
<1>5. h.pending \in {group.pending, NoRequest}
  BY SettledSound
<1>6. GroupInv'
  BY <1>1, <1>2, <1>3, <1>4, <1>5, SettledSound, Becoming
<1>7. Judged
  BY <1>1, SettledJudged
<1> QED BY <1>6, <1>7

\* A message that is sent stays behind those before it.
LEMMA Sent ==
  ASSUME GroupInv, NEW m \in Group!Answers \cup {Group!Closed}, channel' = Append(channel, m)
  PROVE  /\ channel' \in Seq(Group!Answers \cup {Group!Closed})
         /\ Group!Messages' = Group!Messages \cup {m}
         /\ \A i \in 1..Len(channel') : channel'[i] = m \/ (i \in 1..Len(channel) /\ channel'[i] = channel[i])
<1>1. channel \in Seq(Group!Answers \cup {Group!Closed})
  BY DEF GroupInv, Group!TypeOK
<1>2. /\ channel' \in Seq(Group!Answers \cup {Group!Closed}) /\ Len(channel') = Len(channel) + 1
      /\ \A i \in 1..Len(channel) : channel'[i] = channel[i]
      /\ channel'[Len(channel) + 1] = m
  BY <1>1
<1>3. Len(channel) \in Nat
  BY <1>1
<1>4. \A i \in 1..Len(channel') : i \in 1..Len(channel) \/ i = Len(channel) + 1
  BY <1>2, <1>3
<1>5. \A i \in 1..Len(channel) : i \in 1..Len(channel')
  BY <1>2, <1>3
<1>6. Len(channel) + 1 \in 1..Len(channel')
  BY <1>2, <1>3
<1>7. \A x : x \in Group!Messages <=> \E i \in 1..Len(channel) : x = channel[i]
  BY DEF Group!Messages
<1>8. \A x : x \in Group!Messages' <=> \E i \in 1..Len(channel') : x = channel'[i]
  BY DEF Group!Messages
<1>9. Group!Messages' \subseteq Group!Messages \cup {m}
  BY <1>2, <1>4, <1>7, <1>8
<1>10. Group!Messages \cup {m} \subseteq Group!Messages'
  BY <1>2, <1>5, <1>6, <1>7, <1>8
<1> QED BY <1>2, <1>4, <1>9, <1>10

LEMMA TakeStep ==
  ASSUME GroupInv, Group!Take
  PROVE  GroupInv'
<1>1. /\ worker.thread = "waiting" /\ worker.queued # NoRequest
      /\ worker' = [queued |-> NoRequest, active |-> worker.queued,
                    thread |-> IF worker.queued.id \in cancelled THEN "waiting" ELSE "asking"]
      /\ UNCHANGED <<titles, scene, group, channel, cancelled, counters>>
  BY DEF Group!Take
<1>2. worker.queued \in Group!Requests
  BY <1>1 DEF GroupInv, Group!TypeOK
<1>3. Group!TypeOK'
  BY <1>1, <1>2 DEF GroupInv, Group!TypeOK
<1>4. WorkKnown(group', worker', channel')
  BY <1>1 DEF GroupInv, WorkKnown
<1>5. Group!GatherKept'
  BY <1>1, <1>2 DEF GroupInv, Group!GatherKept, Group!Messages, Group!Ids
<1> QED BY <1>1, <1>3, <1>4, <1>5 DEF GroupInv

LEMMA AnswerStep ==
  ASSUME GroupInv, Group!AnswerRequest
  PROVE  GroupInv'
<1>1. /\ worker.thread = "asking" /\ worker' = [worker EXCEPT !.thread = "waiting"]
      /\ UNCHANGED <<titles, scene, group, cancelled, counters>>
  BY DEF Group!AnswerRequest
<1>2. worker.active \in Group!Requests
  BY <1>1 DEF GroupInv, Group!TypeOK
<1>3. PICK result \in (SUBSET DOMAIN worker.active.candidates) \cup {Group!Error} :
        channel' = Append(channel, [request |-> worker.active, result |-> result])
  BY DEF Group!AnswerRequest
<1> DEFINE m == [request |-> worker.active, result |-> result]
<1>4. DOMAIN worker.active.candidates \subseteq Windows
  BY <1>2 DEF Group!Requests, Group!Snapshots
<1>5. m \in Group!Answers
  BY <1>2, <1>3, <1>4 DEF Group!Answers
<1>6. worker.active # NoRequest
  BY <1>2, NoRequestAssumption DEF NoRequestAssumption
<1>7. m # Group!Closed
  BY <1>6 DEF Group!Closed
<1>8. /\ worker'.queued = worker.queued /\ worker'.active = worker.active
      /\ worker'.thread = "waiting"
      /\ worker' \in [queued : Group!Requests \cup {NoRequest}, active : Group!Requests \cup {NoRequest},
                      thread : {"none", "waiting", "asking"}]
  BY <1>1 DEF GroupInv, Group!TypeOK
<1>9. Group!TypeOK'
  BY <1>1, <1>3, <1>5, <1>8, Sent DEF GroupInv, Group!TypeOK
<1>10. WorkKnown(group', worker', channel')
  BY <1>1, <1>3, <1>5, <1>6, <1>8, Sent DEF GroupInv, WorkKnown
<1>11. Group!GatherKept'
  BY <1>1, <1>3, <1>5, <1>7, <1>8, Sent DEF GroupInv, Group!GatherKept
<1> QED BY <1>1, <1>9, <1>10, <1>11 DEF GroupInv

LEMMA DieStep ==
  ASSUME GroupInv, Group!Die
  PROVE  GroupInv'
<1>1. /\ channel' = Append(channel, Group!Closed)
      /\ worker' = [worker EXCEPT !.thread = "none"]
      /\ counters' = [counters EXCEPT !.deaths = counters.deaths + 1]
      /\ UNCHANGED <<titles, scene, group, cancelled>>
  BY DEF Group!Die
<1>2. /\ worker'.queued = worker.queued /\ worker'.active = worker.active
      /\ worker'.thread = "none"
      /\ worker' \in [queued : Group!Requests \cup {NoRequest}, active : Group!Requests \cup {NoRequest},
                      thread : {"none", "waiting", "asking"}]
  BY <1>1 DEF GroupInv, Group!TypeOK
<1>3. counters' \in [changes : Nat, deaths : Nat]
  BY <1>1 DEF GroupInv, Group!TypeOK
<1>4. Group!TypeOK'
  BY <1>1, <1>2, <1>3, Sent DEF GroupInv, Group!TypeOK
<1>5. WorkKnown(group', worker', channel')
  BY <1>1, <1>2, Sent DEF GroupInv, WorkKnown
<1>6. Group!GatherKept'
  BY <1>1, <1>2, Sent DEF GroupInv, Group!GatherKept
<1> QED BY <1>1, <1>4, <1>5, <1>6 DEF GroupInv

\* A message that is read leaves those behind it.
LEMMA Read ==
  ASSUME GroupInv, channel # <<>>, channel' = Tail(channel)
  PROVE  /\ channel' \in Seq(Group!Answers \cup {Group!Closed})
         /\ Head(channel) \in Group!Messages /\ Head(channel) \in Group!Answers \cup {Group!Closed}
         /\ Group!Messages \subseteq Group!Messages' \cup {Head(channel)}
         /\ \A i \in 1..Len(channel') : i + 1 \in 1..Len(channel) /\ channel'[i] = channel[i + 1]
<1>1. channel \in Seq(Group!Answers \cup {Group!Closed})
  BY DEF GroupInv, Group!TypeOK
<1>2. /\ channel' \in Seq(Group!Answers \cup {Group!Closed}) /\ Len(channel') = Len(channel) - 1
      /\ \A i \in 1..Len(channel') : channel'[i] = channel[i + 1]
      /\ Head(channel) = channel[1] /\ Len(channel) \in Nat \ {0}
  BY <1>1
<1>3. 1 \in 1..Len(channel) /\ channel[1] \in Group!Answers \cup {Group!Closed}
  BY <1>1, <1>2
<1>4. \A i \in 1..Len(channel') : i + 1 \in 1..Len(channel)
  BY <1>2
<1>5. \A i \in 1..Len(channel) : i = 1 \/ i - 1 \in 1..Len(channel')
  BY <1>2
<1>6. \A i \in 1..Len(channel) : i = 1 \/ channel'[i - 1] = channel[i]
  BY <1>2, <1>5
<1>7. \A x : x \in Group!Messages <=> \E i \in 1..Len(channel) : x = channel[i]
  BY DEF Group!Messages
<1>8. \A x : x \in Group!Messages' <=> \E i \in 1..Len(channel') : x = channel'[i]
  BY DEF Group!Messages
<1>9. Group!Messages \subseteq Group!Messages' \cup {Head(channel)}
  <2>1. ASSUME NEW i \in 1..Len(channel)
        PROVE  channel[i] \in Group!Messages' \cup {Head(channel)}
    <3>1. CASE i = 1
      BY <1>2, <3>1
    <3>2. CASE i # 1
      BY <1>5, <1>6, <1>8, <3>2
    <3> QED BY <3>1, <3>2
  <2> QED BY <2>1, <1>7
<1> QED BY <1>2, <1>3, <1>4, <1>7, <1>9

\* An answer belongs to the request that is pending, or changes nothing.
LEMMA ReceiveAnswer ==
  ASSUME GroupInv, Group!Receive, Head(channel) # Group!Closed
  PROVE  GroupInv' /\ Judged
<1> DEFINE g == Group!Settled(group)
           answer == Head(channel)
           h == Group!Completed(g, scene', answer)
<1>1. /\ channel # <<>> /\ channel' = Tail(channel) /\ scene' = Group!SceneAfter
      /\ Group!GroupBecomes(h) /\ group' = h /\ UNCHANGED <<titles, worker, counters>>
  BY DEF Group!Receive, Group!GroupBecomes
<1>2. answer \in Group!Answers /\ answer \in Group!Messages
  BY <1>1, Read
<1>3. Group!TypeOK
  BY DEF GroupInv
<1>4. /\ g \in Group!Groups /\ Descends(group, g) /\ PendingSound(g)
      /\ g.pending # NoRequest => ~scene.locked /\ g = group
      /\ scene' \in [locked : BOOLEAN, dragging : BOOLEAN, gesture : BOOLEAN, switching : BOOLEAN]
      /\ scene'.locked = scene.locked
  BY <1>1, SettledSound
<1>5. Known(group, answer.request)
  <2>1. PICK i \in 1..Len(channel) : answer = channel[i]
    BY <1>2 DEF Group!Messages
  <2> QED BY <2>1 DEF GroupInv, WorkKnown
<1>6. Group!Belongs(g, answer) =>
        g = group /\ group.pending # NoRequest /\ group.pending = answer.request /\ ~scene.locked
  BY <1>4, <1>5 DEF Group!Belongs, Known
<1>7. \/ h = g /\ ~Group!Belongs(g, answer)
      \/ /\ Group!Belongs(g, answer) /\ h = [group EXCEPT !.deferred = answer]
         /\ h \in Group!Groups
      \/ Group!Belongs(g, answer) /\ Finished(group, h, scene', answer) /\ h.deferred = group.deferred
  <2>1. CASE Group!Belongs(g, answer)
    BY <1>2, <1>3, <1>4, <1>6, <2>1, Completion
  <2>2. CASE ~Group!Belongs(g, answer)
    BY <1>2, <1>3, <1>4, <2>2, Completion
  <2> QED BY <2>1, <2>2
<1>8. /\ h \in Group!Groups /\ Descends(group, h) /\ PendingSound(h)
      /\ h.pending \in {group.pending, NoRequest}
      /\ h.pending # NoRequest =>
           /\ ~scene.locked
           /\ h.deferred # NoRequest \/ (h = group /\ group.pending # answer.request)
  <2>1. CASE h = g /\ ~Group!Belongs(g, answer)
    BY <1>4, <2>1 DEF Group!Belongs
  <2>2. CASE /\ Group!Belongs(g, answer) /\ h = [group EXCEPT !.deferred = answer]
             /\ h \in Group!Groups
    <3>1. /\ h.pending = group.pending /\ h.generation = group.generation
          /\ h.selecting = group.selecting /\ h.deferred = answer
      BY <2>2, <1>3 DEF Group!TypeOK, Group!Groups
    <3>2. answer # NoRequest
      BY <1>2, NoRequestAssumption DEF NoRequestAssumption
    <3> QED BY <1>4, <1>6, <2>2, <3>1, <3>2 DEF Descends, PendingSound
  <2>3. CASE /\ Group!Belongs(g, answer) /\ Finished(group, h, scene', answer)
             /\ h.deferred = group.deferred
    <3>1. /\ h.pending = NoRequest /\ h.generation = group.generation /\ h \in Group!Groups
          /\ ~Group!Busy(scene')
      BY <2>3 DEF Finished
    <3>2. h.deferred = NoRequest
      BY <1>1, <1>4, <1>6, <2>3, <3>1, Settling
    <3>3. group.generation >= group.generation
      BY <1>3 DEF Group!TypeOK, Group!Groups
    <3> QED BY <3>1, <3>2, <3>3 DEF Descends, PendingSound
  <2> QED BY <1>7, <2>1, <2>2, <2>3
<1>9. Group!TypeOK'
  <2>1. cancelled' \subseteq Nat
    BY <1>1, <1>8, CancelledTyped DEF CancelledInNat
  <2> QED BY <1>1, <1>4, <1>8, <2>1, Read DEF GroupInv, Group!TypeOK
<1>10. WorkKnown(group', worker', channel')
  <2>1. WorkKnown(group, worker, channel')
    BY <1>1, Read DEF GroupInv, WorkKnown
  <2> QED BY <1>1, <1>3, <1>8, <2>1, Read, WorkKept DEF Group!TypeOK
<1>11. cancelled' = cancelled \cup (Group!Ids(group.pending) \ Group!Ids(h.pending))
  BY <1>1 DEF Group!GroupBecomes
<1>12. \A c \in cancelled' : c =< group'.generation
  <2>1. /\ group.generation \in Nat /\ h.generation \in Nat /\ h.generation >= group.generation
        /\ cancelled \subseteq Nat
    BY <1>3, <1>8 DEF Descends, Group!Groups, Group!TypeOK
  <2>2. \A c \in Group!Ids(group.pending) : c \in Nat /\ c =< group.generation
    BY <1>3 DEF GroupInv, PendingSound, Group!Ids, Group!Groups, Group!Requests, Group!TypeOK
  <2>3. \A c \in cancelled' : c \in Nat /\ c =< group.generation
    BY <1>11, <2>1, <2>2 DEF GroupInv
  <2> QED BY <1>1, <2>1, <2>3
<1>13. Group!GatherKept'
  <2>1. Group!GatherKept
    BY DEF GroupInv
  <2>2. CASE h.pending = NoRequest
    <3>1. h.deferred = NoRequest
      BY <1>8, <2>2 DEF PendingSound
    <3> QED BY <1>1, <1>11, <2>1, <2>2, <3>1 DEF Group!GatherKept, Group!Ids
  <2>3. CASE h.pending # NoRequest
    <3>1. h.pending = group.pending /\ cancelled' = cancelled
      BY <1>8, <1>11, <2>3
    <3>2. /\ group.pending.id \notin cancelled'
          /\ Group!Ids(worker'.queued) \subseteq cancelled' \cup Group!Ids(group'.pending)
          /\ worker'.thread = "asking" =>
               Group!Ids(worker'.active) \subseteq cancelled' \cup Group!Ids(group'.pending)
      BY <1>1, <2>1, <2>3, <3>1 DEF Group!GatherKept
    <3>3. CASE h.deferred # NoRequest
      BY <1>1, <1>8, <3>1, <3>2, <3>3 DEF Group!GatherKept, PendingSound
    <3>4. CASE h = group /\ group.pending # answer.request /\ h.deferred = NoRequest
      <4>1. Group!Messages \subseteq Group!Messages' \cup {answer}
        BY <1>1, Read
      <4>2. \/ worker.queued = group.pending
            \/ worker.thread = "asking" /\ worker.active = group.pending
            \/ Group!Closed \in Group!Messages
            \/ \E m \in Group!Messages : m # Group!Closed /\ m.request = group.pending
        BY <2>1, <2>3, <3>1, <3>4 DEF Group!GatherKept
      <4>3. \/ worker'.queued = group'.pending
            \/ worker'.thread = "asking" /\ worker'.active = group'.pending
            \/ Group!Closed \in Group!Messages'
            \/ \E m \in Group!Messages' : m # Group!Closed /\ m.request = group'.pending
        BY <1>1, <3>1, <3>4, <4>1, <4>2
      <4> QED BY <1>1, <3>1, <3>2, <3>4, <4>3 DEF Group!GatherKept, PendingSound
    <3> QED BY <1>8, <2>3, <3>3, <3>4
  <2> QED BY <2>2, <2>3
<1>14. GroupInv'
  BY <1>1, <1>4, <1>8, <1>9, <1>10, <1>12, <1>13 DEF GroupInv
<1>15. Judged
  <2>1. CASE h.selected = g.selected
    BY <1>1, <2>1, SettledJudged
  <2>2. CASE Group!Belongs(g, answer) /\ Finished(group, h, scene', answer)
    <3>1. group.pending.titles = Group!Snapshot(group.selected)
      BY <1>4, <1>6, <2>2, Settling
    <3>2. Group!Joined = Group!Joining(group, answer) \ group.selected
      BY <1>1, <2>2 DEF Group!Joined, Finished
    <3>3. /\ Group!Joining(group, answer) # {} => Group!Joining(group, answer) \subseteq answer.result
          /\ \A w \in Group!Joining(group, answer) : answer.request.candidates[w] = titles[w]
      BY <1>2, <1>3, <1>6, <2>2, JoinedAreJudged DEF Group!TypeOK
    <3> QED BY <1>2, <1>6, <2>2, <3>1, <3>2, <3>3 DEF Judged, Finished
  <2>3. h = [group EXCEPT !.deferred = answer] /\ g = group => h.selected = g.selected
    BY <1>3 DEF Group!TypeOK, Group!Groups
  <2> QED BY <1>6, <1>7, <2>1, <2>2, <2>3
<1> QED BY <1>14, <1>15

\* When the worker is gone, the request ends with an error.
LEMMA ReceiveClosed ==
  ASSUME GroupInv, Group!Receive, Head(channel) = Group!Closed
  PROVE  GroupInv' /\ Judged
<1> DEFINE g == Group!Settled(group)
           failed == Group!Failed
           k == IF group.pending = NoRequest THEN group ELSE Group!Completed(g, scene', failed)
           h == [k EXCEPT !.worker = FALSE]
<1>1. /\ channel # <<>> /\ channel' = Tail(channel) /\ scene' = Group!SceneAfter
      /\ Group!GroupBecomes(h) /\ group' = h /\ UNCHANGED <<titles, counters>>
      /\ worker' = [queued |-> NoRequest, active |-> NoRequest, thread |-> "none"]
  BY DEF Group!Receive, Group!GroupBecomes
<1>2. Group!TypeOK /\ group \in Group!Groups
  BY DEF GroupInv, Group!TypeOK
<1>3. /\ g \in Group!Groups /\ Descends(group, g) /\ PendingSound(g)
      /\ g.pending # NoRequest => ~scene.locked /\ g = group
      /\ scene' \in [locked : BOOLEAN, dragging : BOOLEAN, gesture : BOOLEAN, switching : BOOLEAN]
      /\ scene'.locked = scene.locked
  BY <1>1, SettledSound
<1>4. /\ k \in Group!Groups /\ Descends(group, k) /\ PendingSound(k)
      /\ k.pending \in {group.pending, NoRequest}
      /\ k.pending # NoRequest => ~scene.locked /\ k.deferred # NoRequest
      /\ k.selected = group.selected \/ k.selected = g.selected
  <2>1. CASE group.pending = NoRequest
    BY <1>2, <2>1, GroupUnchanged
  <2>2. CASE group.pending # NoRequest
    <3>1. failed \in Group!Answers /\ failed.request = group.pending /\ failed.result = Group!Error
      <4>1. group.pending \in Group!Requests
        BY <1>2, <2>2 DEF Group!Groups
      <4> QED BY <4>1 DEF Group!Failed, Group!Answers
    <3>2. CASE g.pending = NoRequest
      <4>1. k = g
        BY <1>2, <1>3, <2>2, <3>1, <3>2, Completion DEF Group!Belongs
      <4> QED BY <1>3, <3>2, <4>1
    <3>3. CASE g.pending # NoRequest
      <4>1. g = group /\ ~scene.locked /\ Group!Belongs(g, failed)
        BY <1>3, <3>1, <3>3 DEF Group!Belongs
      <4>2. CASE Group!Busy(scene') /\ k = [group EXCEPT !.deferred = failed] /\ k \in Group!Groups
        <5>1. /\ k.pending = group.pending /\ k.generation = group.generation
              /\ k.selecting = group.selecting /\ k.deferred = failed
              /\ k.selected = group.selected
          BY <1>2, <4>2 DEF Group!Groups
        <5>2. failed # NoRequest
          BY <3>1, NoRequestAssumption DEF NoRequestAssumption
        <5> QED BY <1>3, <3>1, <4>1, <4>2, <5>1, <5>2 DEF Descends, PendingSound
      <4>3. CASE Finished(group, k, scene', failed) /\ k.deferred = group.deferred
        <5>1. /\ k.pending = NoRequest /\ k.generation = group.generation /\ k \in Group!Groups
              /\ ~Group!Busy(scene')
          BY <4>3 DEF Finished
        <5>2. k.deferred = NoRequest
          BY <1>1, <3>3, <4>1, <4>3, <5>1, Settling
        <5>3. k.selected = group.selected
          BY <3>1, <4>3 DEF Finished, Group!Joining
        <5>4. group.generation >= group.generation
          BY <1>2 DEF Group!Groups
        <5> QED BY <5>1, <5>2, <5>3, <5>4 DEF Descends, PendingSound
      <4> QED BY <1>2, <2>2, <3>1, <4>1, <4>2, <4>3, Completion
    <3> QED BY <3>2, <3>3
  <2> QED BY <2>1, <2>2
<1>5. /\ h \in Group!Groups /\ h.pending = k.pending /\ h.deferred = k.deferred
      /\ h.selected = k.selected /\ h.generation = k.generation /\ h.selecting = k.selecting
  <2>1. k \in Group!Groups
    BY <1>4
  <2> HIDE DEF k
  <2> QED BY <2>1 DEF Group!Groups
<1>6. Descends(group, h) /\ PendingSound(h)
  BY <1>4, <1>5 DEF Descends, PendingSound
<1>7. Group!TypeOK'
  <2>1. cancelled' \subseteq Nat
    BY <1>1, <1>5, CancelledTyped DEF CancelledInNat
  <2> QED BY <1>1, <1>3, <1>5, <2>1, Read DEF GroupInv, Group!TypeOK
<1>8. WorkKnown(group', worker', channel')
  <2>1. WorkKnown(group, worker', channel')
    BY <1>1, Read DEF GroupInv, WorkKnown
  <2>2. /\ worker'.queued \in Group!Requests \cup {NoRequest}
        /\ worker'.active \in Group!Requests \cup {NoRequest}
    BY <1>1
  <2>3. channel' \in Seq(Group!Answers \cup {Group!Closed})
    BY <1>1, Read
  <2>4. WorkKnown(h, worker', channel')
    <3> HIDE DEF h
    <3> QED BY <1>2, <1>6, <2>1, <2>2, <2>3, WorkKept
  <2> QED BY <1>1, <2>4
<1>9. cancelled' = cancelled \cup (Group!Ids(group.pending) \ Group!Ids(h.pending))
  BY <1>1 DEF Group!GroupBecomes
<1>10. \A c \in cancelled' : c =< group'.generation
  <2>1. /\ group.generation \in Nat /\ h.generation \in Nat /\ h.generation >= group.generation
        /\ cancelled \subseteq Nat
    BY <1>2, <1>5, <1>6 DEF Descends, Group!Groups, Group!TypeOK
  <2>2. \A c \in Group!Ids(group.pending) : c \in Nat /\ c =< group.generation
    BY <1>2 DEF GroupInv, PendingSound, Group!Ids, Group!Groups, Group!Requests
  <2>3. \A c \in cancelled' : c \in Nat /\ c =< group.generation
    BY <1>9, <2>1, <2>2 DEF GroupInv
  <2> QED BY <1>1, <2>1, <2>3
<1>11. Group!GatherKept'
  <2>1. Group!GatherKept
    BY DEF GroupInv
  <2>2. Group!Ids(NoRequest) = {}
    BY DEF Group!Ids
  <2>3. h.pending # NoRequest => h.pending = group.pending /\ cancelled' = cancelled
    BY <1>4, <1>5, <1>9
  <2> QED
    BY <1>1, <1>4, <1>5, <1>6, <2>1, <2>2, <2>3 DEF Group!GatherKept, PendingSound
<1>12. GroupInv'
  BY <1>1, <1>3, <1>4, <1>5, <1>6, <1>7, <1>8, <1>10, <1>11 DEF GroupInv
<1>13. Judged
  <2>1. CASE k.selected = group.selected
    BY <1>1, <1>5, <2>1 DEF Judged, Group!Joined
  <2>2. CASE k.selected = g.selected
    BY <1>1, <1>5, <2>2, SettledJudged
  <2> QED BY <1>4, <2>1, <2>2
<1> QED BY <1>12, <1>13

\* A new request has a new identifier, and everything asked before is cancelled.
LEMMA GatherStep ==
  ASSUME GroupInv, Group!StartGather
  PROVE  GroupInv' /\ Judged
<1> DEFINE g == Group!Settled(group)
           asked == Group!Disarmed(g)
           request == [id |-> asked.generation, titles |-> Group!Snapshot(asked.selected),
                       candidates |-> Group!Snapshot(Group!Open \ asked.selected)]
           pending == [asked EXCEPT !.pending = request]
           answer == [request |-> request, result |-> Group!Error]
           old == cancelled \cup Group!Ids(group.pending)
           begun == /\ group' = [pending EXCEPT !.worker = TRUE]
                    /\ worker' = [worker EXCEPT !.queued = request,
                                    !.thread = IF group.worker THEN worker.thread ELSE "waiting"]
                    /\ cancelled' = old \cup Group!Superseded(worker.queued, worker.active)
                    /\ UNCHANGED counters
           failed == /\ group' = Group!Completed(pending, scene', answer)
                     /\ cancelled' = old
                     /\ counters' = [counters EXCEPT !.deaths = counters.deaths + 1]
                     /\ UNCHANGED worker
<1>1. /\ ~scene.locked /\ g.pending = NoRequest
      /\ scene' = [scene EXCEPT !.gesture = FALSE]
      /\ begun \/ failed
      /\ UNCHANGED <<titles, channel>>
  BY DEF Group!StartGather, Group!Navigable
<1>2. /\ Group!TypeOK /\ group \in Group!Groups /\ group.generation \in Nat
      /\ scene \in [locked : BOOLEAN, dragging : BOOLEAN, gesture : BOOLEAN, switching : BOOLEAN]
      /\ worker.queued \in Group!Requests \cup {NoRequest}
      /\ worker.active \in Group!Requests \cup {NoRequest}
      /\ channel \in Seq(Group!Answers \cup {Group!Closed}) /\ cancelled \subseteq Nat
  BY DEF GroupInv, Group!TypeOK, Group!Groups
<1>3. /\ g \in Group!Groups /\ g.generation >= group.generation /\ g.generation \in Nat
      /\ g.selected \subseteq Group!Open
  BY <1>1, SettledSound, Settling DEF Descends, Group!Groups
<1>4. /\ asked \in Group!Groups /\ asked.generation \in Nat
      /\ asked.generation > group.generation /\ asked.selected = g.selected
      /\ ~asked.selecting /\ asked.deferred = NoRequest
  <2> DEFINE i == Group!Invalidated(g)
  <2>1. /\ i \in Group!Groups /\ i.generation > g.generation /\ i.deferred = NoRequest
        /\ i.selected = g.selected /\ i.generation \in Nat
    BY <1>3, Invalidation DEF Withdrawn, Group!Groups
  <2>2. asked = [i EXCEPT !.selecting = FALSE]
    BY DEF Group!Disarmed
  <2> HIDE DEF i
  <2>3. /\ asked \in Group!Groups /\ asked.generation = i.generation /\ ~asked.selecting
        /\ asked.selected = i.selected /\ asked.deferred = i.deferred
    BY <2>1, <2>2 DEF Group!Groups
  <2>4. i.generation > group.generation
    BY <1>2, <1>3, <2>1
  <2> QED BY <2>1, <2>3, <2>4
<1> HIDE DEF asked
<1>5. request \in Group!Requests /\ request.id = asked.generation
  <2>1. \A t \in SUBSET Group!Open : Group!Snapshot(t) \in Group!Snapshots
    <3> SUFFICES ASSUME NEW t \in SUBSET Group!Open
                 PROVE  Group!Snapshot(t) \in [t -> Titles] /\ t \in SUBSET Windows
      BY DEF Group!Snapshots
    <3> QED BY <1>2 DEF Group!Snapshot, Group!Open, Group!TypeOK
  <2>2. /\ Group!Snapshot(asked.selected) \in Group!Snapshots
        /\ Group!Snapshot(Group!Open \ asked.selected) \in Group!Snapshots
    BY <1>3, <1>4, <2>1
  <2> QED BY <1>4, <2>2 DEF Group!Requests
<1> HIDE DEF request
<1>6. /\ pending \in Group!Groups /\ pending.pending = request
      /\ pending.generation = asked.generation /\ pending.selected = g.selected
      /\ ~pending.selecting /\ pending.deferred = NoRequest
  BY <1>4, <1>5 DEF Group!Groups
<1> HIDE DEF pending
<1>7. answer \in Group!Answers /\ answer.request = request
  BY <1>5 DEF Group!Answers
<1>8. request # NoRequest /\ answer # NoRequest
  BY <1>5, <1>7, NoRequestAssumption DEF NoRequestAssumption
<1>9. /\ group' \in Group!Groups /\ group'.generation = asked.generation
      /\ group'.selected = g.selected /\ ~group'.selecting
      /\ \/ begun /\ group'.pending = request /\ group'.deferred = NoRequest
         \/ failed /\ group'.pending = request /\ group'.deferred = answer
         \/ failed /\ group'.pending = NoRequest /\ group'.deferred = NoRequest
  <2>1. CASE begun
    BY <1>6, <2>1 DEF Group!Groups
  <2>2. CASE failed
    <3> DEFINE h == Group!Completed(pending, scene', answer)
    <3>1. ~(scene.locked \/ ~Group!Belongs(pending, answer))
      BY <1>1, <1>6, <1>7, <1>8 DEF Group!Belongs
    <3>2. CASE h = [pending EXCEPT !.deferred = answer] /\ h \in Group!Groups
      <4>1. /\ h.pending = pending.pending /\ h.generation = pending.generation
            /\ h.selecting = pending.selecting /\ h.selected = pending.selected
            /\ h.deferred = answer
        BY <1>6, <3>2 DEF Group!Groups
      <4> QED BY <1>6, <2>2, <3>2, <4>1
    <3>3. CASE Finished(pending, h, scene', answer) /\ h.deferred = pending.deferred
      <4>1. Group!Joining(pending, answer) = {}
        BY DEF Group!Joining
      <4> QED BY <1>6, <2>2, <3>3, <4>1 DEF Finished
    <3> QED BY <1>2, <1>6, <1>7, <3>1, <3>2, <3>3, Completion
  <2> QED BY <1>1, <2>1, <2>2
<1>10. \A c \in cancelled' : c \in Nat /\ c =< group.generation
  <2>1. \A r \in {group.pending, worker.queued, worker.active} :
          \A c \in Group!Ids(r) : c \in Nat /\ c =< group.generation
    BY <1>2 DEF GroupInv, PendingSound, WorkKnown, Known, Group!Ids, Group!Groups, Group!Requests
  <2>2. \A c \in old : c \in Nat /\ c =< group.generation
    BY <1>2, <2>1 DEF GroupInv
  <2> QED BY <1>9, <2>1, <2>2 DEF Group!Superseded
<1>11. /\ worker' \in [queued : Group!Requests \cup {NoRequest}, active : Group!Requests \cup {NoRequest},
                       thread : {"none", "waiting", "asking"}]
       /\ worker'.active = worker.active
       /\ worker'.thread = "asking" => worker.thread = "asking"
       /\ begun => worker'.queued = request
       /\ failed => worker' = worker
  BY <1>2, <1>5, <1>9 DEF Group!TypeOK
<1>12. Group!TypeOK'
  <2>1. counters' \in [changes : Nat, deaths : Nat]
    BY <1>9 DEF GroupInv, Group!TypeOK
  <2>2. scene' \in [locked : BOOLEAN, dragging : BOOLEAN, gesture : BOOLEAN, switching : BOOLEAN]
    BY <1>1, <1>2
  <2> QED BY <1>1, <1>2, <1>9, <1>10, <1>11, <2>1, <2>2 DEF Group!TypeOK
<1>13. PendingSound(group')
  BY <1>4, <1>5, <1>7, <1>8, <1>9 DEF PendingSound
<1>14. WorkKnown(group', worker', channel')
  <2>1. Descends(group, group')
    BY <1>2, <1>4, <1>5, <1>9 DEF Descends
  <2>2. WorkKnown(group', worker, channel)
    BY <1>2, <2>1, WorkKept DEF GroupInv
  <2>3. begun => Known(group', request)
    BY <1>4, <1>5, <1>8, <1>9 DEF Known
  <2> QED BY <1>1, <1>9, <1>11, <2>2, <2>3 DEF WorkKnown
<1>15. \A c \in cancelled' : c =< group'.generation
  BY <1>2, <1>4, <1>9, <1>10
<1>16. Group!GatherKept'
  <2>1. Group!GatherKept
    BY DEF GroupInv
  <2>2. request.id \notin cancelled'
    BY <1>2, <1>4, <1>5, <1>10
  <2>3. CASE begun /\ group'.pending = request /\ group'.deferred = NoRequest
    BY <1>8, <1>11, <2>2, <2>3 DEF Group!GatherKept, Group!Ids, Group!Superseded
  <2>4. failed => /\ Group!Ids(worker'.queued) \subseteq cancelled'
                  /\ worker'.thread = "asking" => Group!Ids(worker'.active) \subseteq cancelled'
    BY <1>11, <2>1 DEF Group!GatherKept
  <2> HIDE DEF answer, failed
  <2>5. CASE failed /\ group'.pending = request /\ group'.deferred = answer
    BY <1>7, <1>8, <2>2, <2>4, <2>5 DEF Group!GatherKept
  <2>6. CASE failed /\ group'.pending = NoRequest /\ group'.deferred = NoRequest
    BY <2>4, <2>6 DEF Group!GatherKept
  <2> QED BY <1>9, <2>3, <2>5, <2>6
<1>17. Judged
  <2>1. Group!Busy(scene') => Group!Busy(Group!SceneAfter)
    BY <1>1, <1>2 DEF Group!Busy, Group!SceneAfter
  <2> QED BY <1>9, <2>1, SettledJudged
<1>18. scene'.locked = scene.locked
  BY <1>1, <1>2
<1> QED BY <1>1, <1>12, <1>13, <1>14, <1>15, <1>16, <1>17, <1>18 DEF GroupInv

LEMMA GroupStarts == Group!Init => GroupInv
<1> SUFFICES ASSUME Group!Init PROVE GroupInv
  OBVIOUS
<1>1. Group!TypeOK
  BY DEF Group!Init, Group!Idle, Group!TypeOK, Group!Groups
<1> QED BY <1>1
  DEF Group!Init, Group!Idle, GroupInv, PendingSound, WorkKnown, Group!GatherKept, Group!Ids

LEMMA GroupSteps ==
  ASSUME GroupInv, [Group!Next]_(Group!vars)
  PROVE  GroupInv' /\ Judged
<1>1. ASSUME group'.selected \subseteq group.selected \/ group.pending = NoRequest
      PROVE  Judged
  BY <1>1 DEF Judged, Group!Joined
<1>2. CASE UNCHANGED Group!vars
  <2>1. GroupInv'
    BY <1>2 DEF Group!vars, GroupInv, Group!TypeOK, PendingSound, WorkKnown, Known,
                Group!GatherKept, Group!Messages, Group!Ids
  <2> QED BY <1>1, <1>2, <2>1 DEF Group!vars
<1>3. CASE \/ Group!Lock \/ Group!Drag \/ Group!DragGroup \/ (Group!Switch /\ scene.switching)
           \/ \E w \in Windows, t \in Titles \cup {Hidden} : Group!Change(w, t)
  BY <1>1, <1>3, SurroundingsStep
<1>4. CASE \/ Group!SelectTool \/ Group!Disarm \/ Group!Select \/ Group!Clear
           \/ Group!Switch /\ ~scene.switching
  BY <1>1, <1>4, SelectionStep
<1>5. CASE Group!StartGather
  BY <1>5, GatherStep
<1>6. CASE Group!Take
  BY <1>1, <1>6, TakeStep DEF Group!Take
<1>7. CASE Group!AnswerRequest
  BY <1>1, <1>7, AnswerStep DEF Group!AnswerRequest
<1>8. CASE Group!Die
  BY <1>1, <1>8, DieStep DEF Group!Die
<1>9. CASE Group!Receive
  BY <1>9, ReceiveAnswer, ReceiveClosed
<1>10. CASE Group!Maintain
  BY <1>10, MaintainStep
<1> QED
  BY <1>2, <1>3, <1>4, <1>5, <1>6, <1>7, <1>8, <1>9, <1>10 DEF Group!Next, Group!User, Group!Thread

\* The request that is pending is never cancelled by those before it and is on its way
\* to an answer; all others that the worker has are cancelled, or over.
THEOREM GatheringSound == Group!Spec => [](Group!TypeOK /\ Group!GatherKept)
<1>1. GroupInv => Group!TypeOK /\ Group!GatherKept
  BY DEF GroupInv
<1>2. GroupInv /\ [Group!Next]_(Group!vars) => GroupInv'
  BY GroupSteps
<1> QED BY <1>1, <1>2, GroupStarts, PTL DEF Group!Spec

\* Windows join the group only as the model was asked about them, whatever windows,
\* titles, answers and bounds there are.
THEOREM JoinsJudged == Group!Spec => JoinsAsJudged
<1>1. GroupInv /\ [Group!Next]_(Group!vars) => GroupInv'
  BY GroupSteps
<1>2. GroupInv /\ [Group!Next]_(Group!vars) => [Judged]_(Group!vars)
  BY GroupSteps
<1> QED BY <1>1, <1>2, GroupStarts, PTL DEF Group!Spec, JoinsAsJudged, Group!JoinsAsJudged, Judged

-----------------------------------------------------------------------------
(***************************************************************************)
(* ScreenCapture.  A request that waits was made in this session; once the *)
(* event loop has told the presenter of a lock, none waits at all.  What   *)
(* the presenter reports of the present state of the lock was on the       *)
(* screen in it, so what is staged was too.                                *)
(***************************************************************************)
Frames == [requests : SUBSET CaptureRequests, seq : Nat, presented : BOOLEAN]
Shown == [seq : Nat, epoch : Nat, wanted : BOOLEAN, taken : BOOLEAN, submitted : BOOLEAN]
Events ==
  [kind : {"presented"}, seq : Nat, epoch : Nat, capture : {"pixels", "none", "error"}]
    \cup [kind : {"discarded"}, seq : Nat]
Presentations ==
  [pending : Nat, last : Nat, dirty : BOOLEAN, redraw : BOOLEAN, capture : Nat, epoch : Nat,
   lock : Nat]

CaptureTyped ==
  /\ locked \in BOOLEAN /\ lockGeneration \in Nat
  /\ requested \subseteq CaptureRequests
  /\ staged \in Frames \cup {Capture!None}
  /\ presentation \in Presentations
  /\ presenting \in Shown \cup {Capture!None}
  /\ events \in Seq(Events)
  /\ began \in [CaptureRequests -> {<<>>} \cup (Nat \X Nat)]
  /\ captureCounters \in [scenes : Nat, faults : Nat]

RequestsTimely ==
  /\ \A r \in requested \cup Capture!Staged :
       began[r] # <<>> /\ (~locked => began[r][2] = lockGeneration)
  /\ \A r \in Capture!Staged : began[r][1] < staged.seq
  /\ locked /\ presentation.lock = lockGeneration => requested = {} /\ staged = Capture!None
  /\ ~locked /\ staged # Capture!None => <<staged.seq, lockGeneration>> \in flipped

\* What e says, in the state p of the event loop and the generation g of the lock.
EventTrue(e, p, g, screen) ==
  e.kind = "presented" =>
    /\ e.epoch =< p.epoch
    /\ e.epoch = p.epoch /\ g = p.lock => <<e.seq, g>> \in screen
EventsTrue ==
  /\ presenting # Capture!None => presenting.epoch =< presentation.epoch
  /\ \A i \in 1..Len(events) : EventTrue(events[i], presentation, lockGeneration, flipped)

CaptureInv == CaptureTyped /\ RequestsTimely /\ EventsTrue

\* What CapturesPresented says of one step.
Truthful ==
  \A r \in CaptureRequests : answers[r][1] = "none" /\ answers'[r][1] = "payload" =>
    /\ ~locked /\ lockGeneration = began[r][2]
    /\ answers'[r][2] > began[r][1]
    /\ <<answers'[r][2], lockGeneration>> \in flipped

\* CaptureRequests leave, and what is staged stays what it was.
Fewer ==
  /\ requested' \subseteq requested /\ Capture!Staged' \subseteq Capture!Staged
  /\ staged' \in Frames \cup {Capture!None}
  /\ staged' # Capture!None => staged # Capture!None /\ staged'.seq = staged.seq

LEMMA Failing ==
  ASSUME CaptureInv, Capture!Fail
  PROVE  Fewer /\ Truthful /\ requested' = {} /\ staged' = Capture!None
BY DEF Capture!Fail, Capture!Answer, Capture!Staged, Fewer, Truthful

LEMMA Finishing ==
  ASSUME CaptureInv, ~locked, NEW waiting \in SUBSET requested,
         NEW frame \in Frames \cup {Capture!None}, NEW lost,
         frame # Capture!None =>
           /\ staged # Capture!None
           /\ frame.seq = staged.seq /\ frame.requests \subseteq staged.requests,
         Capture!Finish(waiting, frame, lost)
  PROVE  Fewer /\ Truthful
<1>1. Fewer
  BY DEF Capture!Finish, Fewer, Capture!Staged
<1>2. Truthful
  <2>1. CASE frame = Capture!None \/ answers' = [r \in CaptureRequests |->
                IF r \in lost THEN <<"failed", 0>> ELSE answers[r]]
    BY <2>1 DEF Capture!Finish, Capture!Answer, Truthful
  <2>2. CASE frame # Capture!None /\ answers' = [r \in CaptureRequests |->
                IF r \in lost \cup frame.requests THEN <<"failed", 0>> ELSE answers[r]]
    BY <2>2 DEF Truthful
  <2>3. CASE frame # Capture!None /\ answers' = [r \in CaptureRequests |->
                IF r \in lost THEN <<"failed", 0>>
                ELSE IF r \in frame.requests THEN <<"payload", frame.seq>> ELSE answers[r]]
    <3>1. \A r \in frame.requests :
            /\ began[r][2] = lockGeneration /\ began[r][1] < frame.seq
            /\ r \in CaptureRequests /\ began[r] # <<>>
      BY <2>3 DEF CaptureInv, RequestsTimely, Capture!Staged, CaptureTyped, Frames
    <3>2. \A r \in frame.requests : began[r][1] \in Nat
      BY <3>1 DEF CaptureInv, CaptureTyped
    <3>3. frame.seq \in Nat
      BY <2>3 DEF Frames
    <3>4. <<frame.seq, lockGeneration>> \in flipped
      BY <2>3 DEF CaptureInv, RequestsTimely
    <3>5. \A r \in frame.requests : frame.seq > began[r][1]
      BY <3>1, <3>2, <3>3
    <3> QED BY <2>3, <3>1, <3>4, <3>5 DEF Truthful
  <2> QED BY <2>1, <2>2, <2>3 DEF Capture!Finish, Capture!Answer
<1> QED BY <1>1, <1>2

\* The requests in a step that makes none.
LEMMA StillTimely ==
  ASSUME CaptureInv, Fewer, UNCHANGED <<locked, lockGeneration, began>>,
         flipped \subseteq flipped',
         \/ presentation'.lock = presentation.lock
         \/ requested' = {} /\ staged' = Capture!None
         \/ ~locked
  PROVE  RequestsTimely' /\ requested' \subseteq CaptureRequests /\ staged' \in Frames \cup {Capture!None}
<1>1. ASSUME NEW r \in Capture!Staged'
      PROVE  began'[r][1] < staged'.seq
  <2>1. r \in Capture!Staged /\ staged' # Capture!None
    BY DEF Fewer, Capture!Staged
  <2> QED BY <2>1 DEF CaptureInv, RequestsTimely, Fewer
<1> QED BY <1>1 DEF CaptureInv, RequestsTimely, CaptureTyped, Fewer

LEMMA EventStays ==
  ASSUME NEW e \in Events, NEW p \in Presentations, NEW q \in Presentations,
         NEW g, NEW h, NEW screen, NEW later, screen \subseteq later,
         EventTrue(e, p, g, screen),
         \/ q.epoch = p.epoch /\ q.lock = p.lock /\ h \in {g} \cup (Nat \ {p.lock})
         \/ q.epoch > p.epoch
  PROVE  EventTrue(e, q, h, later)
<1>1. CASE e.kind = "presented"
  <2>1. e.epoch \in Nat /\ p.epoch \in Nat /\ q.epoch \in Nat
    BY <1>1 DEF Events, Presentations
  <2>2. e.epoch =< p.epoch
    BY <1>1 DEF EventTrue
  <2>3. CASE q.epoch > p.epoch
    BY <2>1, <2>2, <2>3 DEF EventTrue
  <2>4. CASE q.epoch = p.epoch /\ q.lock = p.lock /\ h = g
    BY <1>1, <2>4 DEF EventTrue
  <2>5. CASE q.epoch = p.epoch /\ q.lock = p.lock /\ h # p.lock
    BY <1>1, <2>5 DEF EventTrue
  <2> QED BY <2>3, <2>4, <2>5
<1> QED BY <1>1 DEF EventTrue

\* Events are read, sent or forgotten.
Follows(s, t, new) ==
  \/ t = s \/ t = <<>>
  \/ s # <<>> /\ t = Tail(s)
  \/ \E e \in new : t = Append(s, e) \/ t = s \o <<e>>

LEMMA EventsAfter ==
  ASSUME NEW s \in Seq(Events), NEW t, NEW new \in SUBSET Events, Follows(s, t, new)
  PROVE  /\ t \in Seq(Events)
         /\ \A i \in 1..Len(t) : t[i] \in new \/ \E j \in 1..Len(s) : t[i] = s[j]
<1>1. CASE t = s \/ t = <<>>
  <2>1. CASE t = s
    BY <2>1
  <2>2. CASE t = <<>>
    <3>1. t \in Seq(Events) /\ Len(t) = 0
      BY <2>2
    <3> QED BY <3>1
  <2> QED BY <1>1, <2>1, <2>2
<1>2. CASE s # <<>> /\ t = Tail(s)
  BY <1>2
<1>3. ASSUME NEW e \in new, t = Append(s, e) \/ t = s \o <<e>>
      PROVE  /\ t \in Seq(Events)
             /\ \A i \in 1..Len(t) : t[i] \in new \/ \E j \in 1..Len(s) : t[i] = s[j]
  <2>1. t = Append(s, e)
    BY <1>3, AppendIsConcat
  <2> QED BY <2>1
<1> QED BY <1>1, <1>2, <1>3 DEF Follows

\* The presenter and its events in a step that shows nothing.
LEMMA StillTrue ==
  ASSUME CaptureInv, presentation' \in Presentations, lockGeneration' \in Nat,
         flipped \subseteq flipped',
         presenting' \in Shown \cup {Capture!None},
         presenting' # Capture!None => presenting'.epoch =< presentation'.epoch,
         NEW new \in SUBSET Events,
         \A e \in new : EventTrue(e, presentation', lockGeneration', flipped'),
         Follows(events, events', new),
         \/ /\ presentation'.epoch = presentation.epoch /\ presentation'.lock = presentation.lock
            /\ lockGeneration' \in {lockGeneration} \cup (Nat \ {presentation.lock})
         \/ presentation'.epoch > presentation.epoch
  PROVE  EventsTrue' /\ events' \in Seq(Events)
<1>1. events \in Seq(Events) /\ presentation \in Presentations
  BY DEF CaptureInv, CaptureTyped
<1>2. /\ events' \in Seq(Events)
      /\ \A i \in 1..Len(events') : events'[i] \in new \/ \E j \in 1..Len(events) : events'[i] = events[j]
  BY <1>1, EventsAfter
<1>3. \A j \in 1..Len(events) :
        events[j] \in Events /\ EventTrue(events[j], presentation, lockGeneration, flipped)
  BY <1>1 DEF CaptureInv, EventsTrue
<1>4. \A j \in 1..Len(events) : EventTrue(events[j], presentation', lockGeneration', flipped')
  BY <1>1, <1>3, EventStays
<1> QED BY <1>2, <1>4 DEF EventsTrue

LEMMA RequestStep ==
  ASSUME CaptureInv, NEW r \in CaptureRequests, Capture!Request(r)
  PROVE  CaptureInv' /\ Truthful
<1>1. /\ began[r] = <<>> /\ began' = [began EXCEPT ![r] = <<captureCounters.scenes, lockGeneration>>]
      /\ UNCHANGED <<locked, lockGeneration, staged, encoder, presenting, events, flipped, captureCounters>>
  BY DEF Capture!Request
<1>2. /\ captureCounters.scenes \in Nat /\ lockGeneration \in Nat
      /\ began \in [CaptureRequests -> {<<>>} \cup (Nat \X Nat)] /\ presentation \in Presentations
  BY DEF CaptureInv, CaptureTyped
<1>3. r \notin requested \cup Capture!Staged
  BY <1>1 DEF CaptureInv, RequestsTimely
<1>4. /\ began' \in [CaptureRequests -> {<<>>} \cup (Nat \X Nat)]
      /\ began'[r] = <<captureCounters.scenes, lockGeneration>>
      /\ \A q \in CaptureRequests \ {r} : began'[q] = began[q]
  BY <1>1, <1>2
<1>5. \/ requested' = requested /\ presentation' = presentation
      \/ /\ ~locked /\ requested' = requested \cup {r} /\ answers' = answers
         /\ presentation' = [presentation EXCEPT !.redraw = TRUE]
  BY DEF Capture!Request
<1>6. Truthful
  BY DEF Capture!Request, Capture!Answer, Truthful
<1>7. /\ presentation' \in Presentations /\ presentation'.lock = presentation.lock
      /\ presentation'.epoch = presentation.epoch
  BY <1>2, <1>5 DEF Presentations
<1>8. CaptureTyped'
  BY <1>1, <1>4, <1>5, <1>7 DEF CaptureInv, CaptureTyped
<1>9. RequestsTimely'
  <2>1. Capture!Staged' = Capture!Staged
    BY <1>1 DEF Capture!Staged
  <2>2. requested \cup Capture!Staged \subseteq CaptureRequests
    BY DEF CaptureInv, CaptureTyped, Capture!Staged, Frames
  <2>3. \A q \in requested \cup Capture!Staged : began'[q] = began[q]
    BY <1>3, <1>4, <2>2
  <2>4. began'[r] # <<>> /\ began'[r][2] = lockGeneration
    BY <1>4
  <2> QED BY <1>1, <1>5, <1>7, <2>1, <2>3, <2>4 DEF CaptureInv, RequestsTimely
<1>10. EventsTrue'
  BY <1>1, <1>7 DEF CaptureInv, EventsTrue, EventTrue
<1> QED BY <1>6, <1>8, <1>9, <1>10 DEF CaptureInv

LEMMA LocksStep ==
  ASSUME CaptureInv, Capture!Locks
  PROVE  CaptureInv' /\ Truthful
<1>1. /\ lockGeneration = presentation.lock
      /\ locked' = ~locked /\ lockGeneration' = lockGeneration + 1
      /\ presentation' = [presentation EXCEPT !.redraw = TRUE]
      /\ UNCHANGED <<requested, staged, encoder, answers, presenting, events, began, flipped,
                     captureCounters>>
  BY DEF Capture!Locks, Capture!captures
<1>2. lockGeneration \in Nat /\ presentation \in Presentations
  BY DEF CaptureInv, CaptureTyped
<1>3. /\ presentation' \in Presentations /\ presentation'.lock = presentation.lock
      /\ presentation'.epoch = presentation.epoch
  BY <1>1, <1>2 DEF Presentations
<1>4. lockGeneration' \in Nat /\ lockGeneration' # presentation'.lock
  BY <1>1, <1>2, <1>3
<1>5. locked' \in BOOLEAN
  BY <1>1
<1>6. CaptureTyped'
  BY <1>1, <1>3, <1>4, <1>5 DEF CaptureInv, CaptureTyped
<1>7. RequestsTimely'
  <2>1. Capture!Staged' = Capture!Staged
    BY <1>1 DEF Capture!Staged
  <2>2. ~locked' => requested' = {} /\ staged' = Capture!None /\ Capture!Staged' = {}
    BY <1>1, <2>1 DEF CaptureInv, RequestsTimely, Capture!Staged
  <2> QED BY <1>1, <1>4, <2>1, <2>2 DEF CaptureInv, RequestsTimely
<1>8. EventsTrue'
  BY <1>1, <1>3, <1>4 DEF CaptureInv, EventsTrue, EventTrue
<1>9. Truthful
  BY <1>1 DEF Truthful
<1> QED BY <1>6, <1>7, <1>8, <1>9 DEF CaptureInv

LEMMA ReplacedStep ==
  ASSUME CaptureInv, Capture!Replaced
  PROVE  CaptureInv' /\ Truthful
<1>1. /\ presentation' = [presentation EXCEPT !.pending = 0, !.last = 0, !.capture = 0,
                                              !.dirty = TRUE]
      /\ presenting' = Capture!None /\ events' = <<>> /\ Capture!Fail
      /\ captureCounters' = [captureCounters EXCEPT !.faults = captureCounters.faults + 1]
      /\ UNCHANGED <<locked, lockGeneration, began, flipped>>
  BY DEF Capture!Replaced, Capture!Fault, Capture!NoScene
<1>2. /\ presentation' \in Presentations /\ presentation'.lock = presentation.lock
      /\ presentation'.epoch = presentation.epoch
  BY <1>1 DEF CaptureInv, CaptureTyped, Presentations
<1>3. captureCounters' \in [scenes : Nat, faults : Nat]
  BY <1>1 DEF CaptureInv, CaptureTyped
<1>4. Fewer /\ Truthful
  BY <1>1, Failing
<1>5. RequestsTimely' /\ requested' \subseteq CaptureRequests /\ staged' \in Frames \cup {Capture!None}
  BY <1>1, <1>2, <1>4, StillTimely
<1>6. events' \in Seq(Events) /\ Len(events') = 0
  BY <1>1
<1>7. EventsTrue'
  BY <1>1, <1>6 DEF EventsTrue
<1>8. CaptureTyped'
  BY <1>1, <1>2, <1>3, <1>5, <1>6 DEF CaptureInv, CaptureTyped
<1> QED BY <1>4, <1>5, <1>7, <1>8 DEF CaptureInv

\* A step of the event loop that reads the first event.
LEMMA EventRead ==
  ASSUME CaptureInv, events # <<>>, events' = Tail(events),
         UNCHANGED <<locked, lockGeneration, presenting, began, flipped, captureCounters>>,
         presentation' \in Presentations, presentation'.lock = presentation.lock,
         presentation'.epoch = presentation.epoch,
         requested' \subseteq CaptureRequests, staged' \in Frames \cup {Capture!None}
  PROVE  CaptureTyped' /\ EventsTrue'
<1>1. Follows(events, events', {})
  BY DEF Follows
<1>2. EventsTrue' /\ events' \in Seq(Events)
  BY <1>1, StillTrue DEF CaptureInv, CaptureTyped, EventsTrue
<1> QED BY <1>2 DEF CaptureInv, CaptureTyped

LEMMA PresentedStep ==
  ASSUME CaptureInv, Capture!Presented
  PROVE  CaptureInv' /\ Truthful
<1> DEFINE e == Head(events)
           mine == e.capture # "none" /\ presentation.capture = e.seq /\ ~locked
<1>1. /\ events # <<>> /\ e.kind = "presented" /\ events' = Tail(events)
      /\ UNCHANGED <<locked, lockGeneration, presenting, began, flipped, captureCounters>>
  BY DEF Capture!Presented
<1>2. e \in Events /\ EventTrue(e, presentation, lockGeneration, flipped)
  <2>1. events \in Seq(Events) /\ events # <<>>
    BY <1>1 DEF CaptureInv, CaptureTyped
  <2>2. 1 \in 1..Len(events) /\ e = events[1] /\ e \in Events
    BY <2>1
  <2> QED BY <2>2 DEF CaptureInv, EventsTrue
<1>3. e.seq \in Nat
  BY <1>2 DEF Events
<1> HIDE DEF e
<1>4. CASE ~Capture!Accepted(e)
  <2>1. UNCHANGED <<requested, staged, answers, presentation>>
    BY <1>4 DEF Capture!Presented, Capture!captures, e
  <2>2. Fewer /\ Truthful
    BY <2>1 DEF Fewer, Truthful, Capture!Staged, CaptureInv, CaptureTyped
  <2>3. presentation' \in Presentations
    BY <2>1 DEF CaptureInv, CaptureTyped
  <2>4. RequestsTimely' /\ requested' \subseteq CaptureRequests /\ staged' \in Frames \cup {Capture!None}
    BY <1>1, <2>1, <2>2, StillTimely
  <2> QED BY <1>1, <2>1, <2>2, <2>3, <2>4, EventRead DEF CaptureInv
<1>5. CASE Capture!Accepted(e)
  <2>1. /\ presentation' = [presentation EXCEPT !.last = e.seq,
               !.pending = IF presentation.pending = e.seq THEN 0 ELSE presentation.pending,
               !.capture = IF mine THEN 0 ELSE presentation.capture]
        /\ IF locked \/ (mine /\ e.capture = "error") THEN Capture!Fail
           ELSE IF mine /\ Capture!Wanted(requested, staged)
                THEN Capture!Stage(e.seq, presentation.capture)
           ELSE Capture!OnlyPresented
    BY <1>5 DEF Capture!Presented, Capture!NoScene, e
  <2>2. /\ presentation' \in Presentations /\ presentation'.lock = presentation.lock
        /\ presentation'.epoch = presentation.epoch
    BY <1>3, <2>1 DEF CaptureInv, CaptureTyped, Presentations
  <2>3. CASE Capture!Fail \/ (~locked /\ Capture!OnlyPresented)
    <3>1. Fewer /\ Truthful
      BY <2>3, Failing, Finishing DEF Capture!OnlyPresented, CaptureInv, CaptureTyped
    <3>2. RequestsTimely' /\ requested' \subseteq CaptureRequests /\ staged' \in Frames \cup {Capture!None}
      BY <1>1, <2>2, <3>1, StillTimely
    <3> QED BY <1>1, <2>2, <3>1, <3>2, EventRead DEF CaptureInv
  <2>4. CASE ~locked /\ mine /\ Capture!Stage(e.seq, presentation.capture)
    <3> DEFINE ours == Capture!Served(presentation.capture)
    <3>1. /\ requested' = requested \ ours /\ answers' = answers
          /\ staged' = [requests |-> ours, seq |-> e.seq, presented |-> TRUE]
      BY <2>4 DEF Capture!Stage
    <3>2. ours \subseteq requested /\ \A r \in ours : began[r][1] < e.seq
      BY <2>4 DEF Capture!Served
    <3>3. requested \subseteq CaptureRequests
      BY DEF CaptureInv, CaptureTyped
    <3>4. staged' \in Frames /\ staged'.seq = e.seq /\ staged'.requests = ours
      BY <1>3, <3>1, <3>2, <3>3 DEF Frames
    <3>5. Capture!Staged' \subseteq ours
      BY <3>4 DEF Capture!Staged
    <3>6. <<e.seq, lockGeneration>> \in flipped
      BY <1>1, <1>2, <1>5 DEF EventTrue, Capture!Accepted
    <3> HIDE DEF ours
    <3>7. RequestsTimely'
      BY <1>1, <2>2, <2>4, <3>1, <3>2, <3>4, <3>5, <3>6 DEF CaptureInv, RequestsTimely
    <3>8. Truthful
      BY <3>1 DEF Truthful
    <3> QED BY <1>1, <2>2, <3>1, <3>3, <3>4, <3>7, <3>8, EventRead DEF CaptureInv
  <2> QED BY <2>1, <2>3, <2>4
<1> QED BY <1>4, <1>5

LEMMA DiscardedStep ==
  ASSUME CaptureInv, Capture!Discarded
  PROVE  CaptureInv' /\ Truthful
<1>1. /\ events # <<>> /\ events' = Tail(events)
      /\ UNCHANGED <<locked, lockGeneration, presenting, began, flipped, captureCounters>>
      /\ \/ /\ presentation' = [presentation EXCEPT !.pending = 0, !.dirty = TRUE, !.capture = 0]
            /\ Capture!Fail
         \/ UNCHANGED <<presentation, requested, staged, answers>>
  BY DEF Capture!Discarded, Capture!NoScene, Capture!captures
<1>2. /\ presentation' \in Presentations /\ presentation'.lock = presentation.lock
      /\ presentation'.epoch = presentation.epoch
  <2>1. presentation \in Presentations
    BY DEF CaptureInv, CaptureTyped
  <2>2. CASE presentation' = presentation
    BY <2>1, <2>2
  <2>3. CASE presentation' = [presentation EXCEPT !.pending = 0, !.dirty = TRUE, !.capture = 0]
    BY <2>1, <2>3 DEF Presentations
  <2> QED BY <1>1, <2>2, <2>3
<1>3. Fewer /\ Truthful
  <2>1. CASE Capture!Fail
    BY <2>1, Failing
  <2>2. CASE UNCHANGED <<presentation, requested, staged, answers>>
    BY <2>2 DEF Fewer, Truthful, Capture!Staged, CaptureInv, CaptureTyped
  <2> QED BY <1>1, <2>1, <2>2
<1>4. RequestsTimely' /\ requested' \subseteq CaptureRequests /\ staged' \in Frames \cup {Capture!None}
  BY <1>1, <1>2, <1>3, StillTimely
<1> QED BY <1>1, <1>2, <1>3, <1>4, EventRead DEF CaptureInv

LEMMA Maintaining ==
  ASSUME CaptureInv, NEW lost, Capture!Maintain(lost)
  PROVE  Fewer /\ Truthful /\ (locked => requested' = {} /\ staged' = Capture!None)
<1>1. CASE locked
  BY <1>1, Failing DEF Capture!Maintain
<1>2. CASE ~locked
  <2> DEFINE frame == IF Capture!Staged \ lost = {} THEN Capture!None
                      ELSE [staged EXCEPT !.requests = staged.requests \ lost]
  <2>1. Capture!Finish(requested \ lost, frame, lost)
    BY <1>2 DEF Capture!Maintain
  <2>2. /\ frame \in Frames \cup {Capture!None}
        /\ frame # Capture!None =>
             /\ staged # Capture!None
             /\ frame.seq = staged.seq /\ frame.requests \subseteq staged.requests
    <3>1. CASE Capture!Staged \ lost = {}
      BY <3>1
    <3>2. CASE Capture!Staged \ lost # {}
      <4>1. staged # Capture!None /\ staged \in Frames
        BY <3>2 DEF CaptureInv, CaptureTyped, Capture!Staged
      <4>2. frame = [staged EXCEPT !.requests = staged.requests \ lost]
        BY <3>2
      <4> QED BY <4>1, <4>2 DEF Frames
    <3> QED BY <3>1, <3>2
  <2> HIDE DEF frame
  <2> QED BY <1>2, <2>1, <2>2, Finishing
<1> QED BY <1>1, <1>2

\* Only the presentation of a new security state changes the epoch, and it empties
\* the presenter.
LEMMA Rendering ==
  ASSUME CaptureInv, Capture!Render
  PROVE  /\ presentation' \in Presentations
         /\ captureCounters' \in [scenes : Nat, faults : Nat]
         /\ IF lockGeneration = presentation.lock
            THEN presentation'.epoch = presentation.epoch /\ presentation'.lock = presentation.lock
            ELSE presentation'.epoch = presentation.epoch + 1 /\ presentation'.lock = lockGeneration
         /\ presenting' \in Shown \cup {Capture!None}
         /\ presenting' # Capture!None => presenting'.epoch =< presentation'.epoch
         /\ Follows(events, events', [kind : {"discarded"}, seq : Nat])
<1> DEFINE redraw == presentation.redraw \/ (~locked /\ Capture!Wanted(requested', staged'))
           synced == [Capture!SyncedLoop EXCEPT !.redraw = FALSE,
                                                !.dirty = Capture!SyncedLoop.dirty \/ redraw]
           held == IF Capture!Secured THEN Capture!None ELSE presenting
           wanted == Capture!Wanted(requested', staged')
           seq == captureCounters.scenes + 1
           drawn == /\ captureCounters' = [captureCounters EXCEPT !.scenes = seq]
                    /\ presentation' = [synced EXCEPT !.pending = seq, !.dirty = FALSE,
                                                      !.capture = IF wanted THEN seq ELSE 0]
                    /\ presenting' = [seq |-> seq, epoch |-> synced.epoch, wanted |-> wanted,
                                      taken |-> FALSE, submitted |-> FALSE]
                    /\ events' = events \o Capture!Unsubmitted(presenting)
           idle == /\ presentation' = synced /\ presenting' = held
                   /\ events' = events \o (IF Capture!Secured THEN Capture!Unsubmitted(presenting) ELSE <<>>)
                   /\ UNCHANGED captureCounters
<1>1. drawn \/ idle
  BY DEF Capture!Render, Capture!NoScene
<1>2. /\ presentation \in Presentations /\ lockGeneration \in Nat
      /\ presenting \in Shown \cup {Capture!None}
      /\ captureCounters \in [scenes : Nat, faults : Nat] /\ events \in Seq(Events)
  BY DEF CaptureInv, CaptureTyped
<1>3. seq \in Nat
  BY <1>2
<1>4. /\ synced \in Presentations
      /\ IF lockGeneration = presentation.lock
         THEN synced.epoch = presentation.epoch /\ synced.lock = presentation.lock
         ELSE synced.epoch = presentation.epoch + 1 /\ synced.lock = lockGeneration
  <2> DEFINE l == Capture!SyncedLoop
  <2>1. /\ l \in Presentations
        /\ IF lockGeneration = presentation.lock
           THEN l.epoch = presentation.epoch /\ l.lock = presentation.lock
           ELSE l.epoch = presentation.epoch + 1 /\ l.lock = lockGeneration
    <3>1. CASE Capture!Secured
      <4>1. l = [presentation EXCEPT !.lock = lockGeneration, !.epoch = presentation.epoch + 1,
                    !.pending = 0, !.last = 0, !.dirty = TRUE, !.capture = 0]
        BY <3>1 DEF Capture!SyncedLoop, Capture!NoScene
      <4>2. presentation.epoch + 1 \in Nat
        BY <1>2 DEF Presentations
      <4>3. /\ l \in Presentations /\ l.lock = lockGeneration
            /\ l.epoch = presentation.epoch + 1
        BY <1>2, <4>1, <4>2 DEF Presentations
      <4> QED BY <3>1, <4>3 DEF Capture!Secured
    <3>2. CASE ~Capture!Secured
      BY <1>2, <3>2 DEF Capture!SyncedLoop, Capture!Secured
    <3> QED BY <3>1, <3>2
  <2>2. (l.dirty \/ redraw) \in BOOLEAN
    OBVIOUS
  <2>3. synced = [l EXCEPT !.redraw = FALSE, !.dirty = l.dirty \/ redraw]
    OBVIOUS
  <2> HIDE DEF l, redraw, synced
  <2>4. synced \in Presentations /\ synced.epoch = l.epoch /\ synced.lock = l.lock
    BY <2>1, <2>2, <2>3 DEF Presentations
  <2> QED BY <2>1, <2>4
<1>5. Follows(events, events', [kind : {"discarded"}, seq : Nat])
  <2>1. events \o <<>> = events
    BY <1>2, ConcatEmptySeq
  <2>2. \/ Capture!Unsubmitted(presenting) = <<>>
        \/ /\ presenting.seq \in Nat
           /\ Capture!Unsubmitted(presenting) = <<[kind |-> "discarded", seq |-> presenting.seq]>>
    BY <1>2 DEF Capture!Unsubmitted, Shown
  <2>3. events' = events \o <<>> \/ events' = events \o Capture!Unsubmitted(presenting)
    BY <1>1
  <2> QED BY <2>1, <2>2, <2>3 DEF Follows
<1> HIDE DEF synced
<1>6. CASE drawn
  <2>1. wanted \in BOOLEAN
    BY DEF Capture!Wanted
  <2> HIDE DEF seq, wanted
  <2>2. presenting' \in Shown /\ presenting'.epoch = synced.epoch
    BY <1>3, <1>4, <1>6, <2>1 DEF Shown, Presentations
  <2>3. /\ presentation' \in Presentations /\ presentation'.epoch = synced.epoch
        /\ presentation'.lock = synced.lock
    BY <1>3, <1>4, <1>6 DEF Presentations
  <2>4. captureCounters' \in [scenes : Nat, faults : Nat]
    BY <1>2, <1>3, <1>6
  <2>5. synced.epoch \in Nat
    BY <1>4 DEF Presentations
  <2> QED BY <1>4, <1>5, <2>2, <2>3, <2>4, <2>5
<1>7. CASE idle
  <2>1. held # Capture!None => lockGeneration = presentation.lock /\ held = presenting
    BY DEF Capture!Secured
  <2>2. held # Capture!None => held.epoch =< synced.epoch
    BY <1>4, <2>1 DEF CaptureInv, EventsTrue
  <2>3. held \in Shown \cup {Capture!None}
    BY <1>2
  <2> HIDE DEF held
  <2> QED BY <1>2, <1>4, <1>5, <1>7, <2>2, <2>3
<1> QED BY <1>1, <1>6, <1>7

LEMMA TurnStep ==
  ASSUME CaptureInv, Capture!Turn
  PROVE  CaptureInv' /\ Truthful
<1>1. /\ Capture!Maintain({}) /\ Capture!Render
      /\ UNCHANGED <<locked, lockGeneration, began, flipped>>
  BY DEF Capture!Turn
<1>2. Fewer /\ Truthful /\ (locked => requested' = {} /\ staged' = Capture!None)
  BY <1>1, Maintaining
<1>3. /\ presentation' \in Presentations
      /\ captureCounters' \in [scenes : Nat, faults : Nat]
      /\ \/ presentation'.epoch = presentation.epoch /\ presentation'.lock = presentation.lock
         \/ presentation'.epoch = presentation.epoch + 1
      /\ presenting' \in Shown \cup {Capture!None}
      /\ presenting' # Capture!None => presenting'.epoch =< presentation'.epoch
      /\ Follows(events, events', [kind : {"discarded"}, seq : Nat])
  BY <1>1, Rendering
<1>4. RequestsTimely' /\ requested' \subseteq CaptureRequests /\ staged' \in Frames \cup {Capture!None}
  BY <1>1, <1>2, StillTimely
<1>5. EventsTrue' /\ events' \in Seq(Events)
  <2> DEFINE new == [kind : {"discarded"}, seq : Nat]
  <2>1. new \in SUBSET Events
    BY DEF Events
  <2>2. \A e \in new : EventTrue(e, presentation', lockGeneration', flipped')
    BY DEF EventTrue
  <2>3. lockGeneration \in Nat /\ presentation.epoch \in Nat
    BY DEF CaptureInv, CaptureTyped, Presentations
  <2>4. presentation'.epoch = presentation.epoch + 1 => presentation'.epoch > presentation.epoch
    BY <2>3
  <2> QED BY <1>1, <1>3, <2>1, <2>2, <2>3, <2>4, StillTrue
<1>6. CaptureTyped'
  BY <1>1, <1>3, <1>4, <1>5 DEF CaptureInv, CaptureTyped
<1> QED BY <1>2, <1>4, <1>5, <1>6 DEF CaptureInv

LEMMA ExpiresStep ==
  ASSUME CaptureInv, Capture!Expires
  PROVE  CaptureInv' /\ Truthful
<1>1. PICK lost : Capture!Maintain(lost)
  BY DEF Capture!Expires
<1>2. /\ captureCounters' = [captureCounters EXCEPT !.faults = captureCounters.faults + 1]
      /\ UNCHANGED <<locked, lockGeneration, presentation, presenting, events, began, flipped>>
  BY DEF Capture!Expires, Capture!Fault
<1>3. Fewer /\ Truthful
  BY <1>1, Maintaining
<1>4. RequestsTimely' /\ requested' \subseteq CaptureRequests /\ staged' \in Frames \cup {Capture!None}
  BY <1>2, <1>3, StillTimely
<1>5. captureCounters' \in [scenes : Nat, faults : Nat]
  BY <1>2 DEF CaptureInv, CaptureTyped
<1>6. CaptureTyped' /\ EventsTrue'
  BY <1>2, <1>4, <1>5 DEF CaptureInv, CaptureTyped, EventsTrue
<1> QED BY <1>3, <1>4, <1>6 DEF CaptureInv

LEMMA PresentStep ==
  ASSUME CaptureInv, Capture!Present
  PROVE  CaptureInv' /\ Truthful
<1> DEFINE presented(capture) == [kind |-> "presented", seq |-> presenting.seq,
                                  epoch |-> presenting.epoch, capture |-> capture]
<1>1. /\ presenting # Capture!None
      /\ presenting' = [presenting EXCEPT !.taken = presenting.taken \/ presenting.wanted,
                                          !.submitted = TRUE]
      /\ flipped' = flipped \cup {<<presenting.seq, lockGeneration>>}
      /\ UNCHANGED <<locked, lockGeneration, requested, staged, encoder, answers, presentation, began>>
      /\ \E capture \in {"pixels", "none", "error"} : events' = Append(events, presented(capture))
  BY DEF Capture!Present, Capture!captures
<1>2. captureCounters' \in [scenes : Nat, faults : Nat]
  BY DEF Capture!Present, Capture!Fault, CaptureInv, CaptureTyped
<1>3. presenting \in Shown /\ presenting.epoch =< presentation.epoch
  BY <1>1 DEF CaptureInv, CaptureTyped, EventsTrue
<1>4. presenting' \in Shown /\ presenting'.epoch = presenting.epoch
  <2>1. (presenting.taken \/ presenting.wanted) \in BOOLEAN
    OBVIOUS
  <2> QED BY <1>1, <1>3, <2>1 DEF Shown
<1>5. PICK capture \in {"pixels", "none", "error"} : events' = Append(events, presented(capture))
  BY <1>1
<1>6. presented(capture) \in Events
  BY <1>3 DEF Events, Shown
<1>7. EventTrue(presented(capture), presentation, lockGeneration, flipped')
  BY <1>1, <1>3 DEF EventTrue
<1>8. Fewer /\ Truthful
  BY <1>1 DEF Fewer, Truthful, Capture!Staged, CaptureInv, CaptureTyped
<1>9. RequestsTimely' /\ requested' \subseteq CaptureRequests /\ staged' \in Frames \cup {Capture!None}
  BY <1>1, <1>8, StillTimely
<1>10. EventsTrue' /\ events' \in Seq(Events)
  <2>1. Follows(events, events', {presented(capture)})
    BY <1>5 DEF Follows
  <2>2. /\ presentation' \in Presentations /\ lockGeneration' \in Nat
        /\ presentation' = presentation /\ lockGeneration' = lockGeneration
    BY <1>1 DEF CaptureInv, CaptureTyped
  <2> DEFINE new == {presented(capture)}
  <2>3. /\ new \in SUBSET Events
        /\ \A e \in new : EventTrue(e, presentation', lockGeneration', flipped')
    BY <1>6, <1>7, <2>2
  <2>4. /\ presenting' \in Shown \cup {Capture!None} /\ presenting'.epoch =< presentation'.epoch
        /\ flipped \subseteq flipped'
        /\ presentation'.epoch = presentation.epoch /\ presentation'.lock = presentation.lock
        /\ lockGeneration' \in {lockGeneration} \cup (Nat \ {presentation.lock})
    BY <1>1, <1>3, <1>4, <2>2
  <2> HIDE DEF presented, new
  <2>5. Follows(events, events', new)
    BY <2>1 DEF new
  <2> QED BY <2>2, <2>3, <2>4, <2>5, StillTrue
<1>11. CaptureTyped'
  BY <1>1, <1>2, <1>4, <1>9, <1>10 DEF CaptureInv, CaptureTyped
<1> QED BY <1>8, <1>9, <1>10, <1>11 DEF CaptureInv

LEMMA EncodeStep ==
  ASSUME CaptureInv, Capture!Encode \/ UNCHANGED Capture!vars
  PROVE  CaptureInv' /\ Truthful
<1>1. /\ UNCHANGED <<locked, lockGeneration, requested, staged, answers, presentation, presenting,
                     events, began, flipped>>
      /\ captureCounters' \in [scenes : Nat, faults : Nat]
  BY DEF Capture!Encode, Capture!Fault, Capture!vars, Capture!captures, CaptureInv, CaptureTyped
<1> QED
  BY <1>1 DEF CaptureInv, CaptureTyped, RequestsTimely, EventsTrue, Truthful, Capture!Staged

LEMMA CaptureSteps ==
  ASSUME CaptureInv, [Capture!Next]_(Capture!vars)
  PROVE  CaptureInv' /\ Truthful
BY RequestStep, LocksStep, ReplacedStep, PresentedStep, DiscardedStep, TurnStep, ExpiresStep,
   PresentStep, EncodeStep DEF Capture!Next

LEMMA CaptureStarts == Capture!Init => CaptureInv
<1> SUFFICES ASSUME Capture!Init PROVE CaptureInv
  OBVIOUS
<1>1. CaptureTyped
  <2>1. presentation \in Presentations /\ captureCounters \in [scenes : Nat, faults : Nat]
    BY DEF Capture!Init, Presentations, Capture!NoScene
  <2>2. events \in Seq(Events) /\ began \in [CaptureRequests -> {<<>>} \cup (Nat \X Nat)]
    BY DEF Capture!Init
  <2>3. /\ locked \in BOOLEAN /\ lockGeneration \in Nat /\ requested \subseteq CaptureRequests
        /\ staged \in Frames \cup {Capture!None} /\ presenting \in Shown \cup {Capture!None}
    BY DEF Capture!Init
  <2> QED BY <2>1, <2>2, <2>3 DEF CaptureTyped
<1> QED BY <1>1 DEF Capture!Init, CaptureInv, RequestsTimely, EventsTrue, Capture!Staged, Capture!NoScene

\* Pixels that are sent are of a scene begun after the request, that was on the screen in
\* the same state of the lock, which is still in force.
THEOREM CapturesTruthful == Capture!Spec => CapturesPresented
<1>1. CaptureInv /\ [Capture!Next]_(Capture!vars) => CaptureInv'
  BY CaptureSteps
<1>2. CaptureInv /\ [Capture!Next]_(Capture!vars) => [Truthful]_(Capture!vars)
  BY CaptureSteps
<1> QED
  BY <1>1, <1>2, CaptureStarts, PTL DEF Capture!Spec, CapturesPresented, Capture!CapturesPresented, Truthful

(***************************************************************************)
(* HeldOnce.  What leaves the requests that are held is answered in the    *)
(* same step; whoever gives up a frame gives its finished job up too.      *)
(***************************************************************************)
Answers == {"none", "failed"} \X {0} \cup {"payload"} \X (1..MaxScenes)
Jobs == [waiting : Seq(Nat), done : SUBSET Nat, failed : SUBSET Nat]
HeldNow == requested \cup Capture!Staged
Counted ==
  \A r \in CaptureRequests :
    /\ (r \in HeldNow) <=> (began[r] # <<>> /\ answers[r][1] = "none")
    /\ began[r] = <<>> => answers[r][1] = "none"
JobsHeld ==
  /\ encoder \in Jobs /\ IsFiniteSet(encoder.done)
  /\ Capture!Permits <= MaxJobs
  /\ encoder.done \cup encoder.failed \subseteq
       (IF staged = Capture!None THEN {} ELSE {staged.seq})
RequestsHeld ==
  /\ answers \in [CaptureRequests -> Answers]
  /\ requested \cap Capture!Staged = {} /\ IsFiniteSet(HeldNow)
  /\ Cardinality(HeldNow) <= MaxRequests /\ Counted
  /\ staged # Capture!None => staged.seq \in 1..MaxScenes

\* Scenes and epochs in their order.
Numbered ==
  /\ lockGeneration <= MaxEpoch /\ captureCounters.scenes <= MaxScenes
  /\ presentation.epoch <= presentation.lock /\ presentation.lock <= lockGeneration
  /\ presentation.pending <= MaxScenes /\ presentation.last <= MaxScenes
  /\ presentation.capture <= MaxScenes
  /\ presenting # Capture!None => presenting.seq \in 1..MaxScenes
  /\ \A i \in 1..Len(events) : events[i].seq >= 1

HeldInv == JobsHeld /\ RequestsHeld /\ Numbered

LEMMA HeldIsHeldOnce == CaptureInv /\ HeldInv => Capture!HeldOnce
<1> SUFFICES ASSUME CaptureInv, HeldInv PROVE Capture!HeldOnce
  OBVIOUS
<1>1. /\ locked \in BOOLEAN /\ lockGeneration \in 0..MaxEpoch /\ requested \subseteq CaptureRequests
  BY CaptureAssumption DEF CaptureInv, CaptureTyped, HeldInv, Numbered, CaptureAssumption
<1>2. \/ staged = Capture!None
      \/ /\ staged.requests \subseteq CaptureRequests /\ staged.seq \in 1..MaxScenes
         /\ staged.presented \in BOOLEAN
  BY DEF CaptureInv, CaptureTyped, Frames, HeldInv, RequestsHeld
<1>3. encoder.waiting \in Seq(Nat) /\ encoder.done \subseteq Nat /\ encoder.failed \subseteq Nat
  BY DEF HeldInv, JobsHeld, Jobs
<1>4. presentation \in [pending : 0..MaxScenes, last : 0..MaxScenes, dirty : BOOLEAN,
                        redraw : BOOLEAN, capture : 0..MaxScenes, epoch : 0..MaxEpoch,
                        lock : 0..MaxEpoch]
  <2>1. presentation \in Presentations /\ lockGeneration \in Nat
    BY DEF CaptureInv, CaptureTyped
  <2>2. /\ presentation.pending \in Nat /\ presentation.last \in Nat /\ presentation.capture \in Nat
        /\ presentation.epoch \in Nat /\ presentation.lock \in Nat
    BY <2>1 DEF Presentations
  <2>3. /\ presentation.pending \in 0..MaxScenes /\ presentation.last \in 0..MaxScenes
        /\ presentation.capture \in 0..MaxScenes
        /\ presentation.epoch \in 0..MaxEpoch /\ presentation.lock \in 0..MaxEpoch
    BY <2>1, <2>2, CaptureAssumption DEF HeldInv, Numbered, CaptureAssumption
  <2> QED BY <2>1, <2>3 DEF Presentations
<1>5. presenting \in Capture!Scenes \cup {Capture!None}
  BY DEF CaptureInv, CaptureTyped, Shown, HeldInv, Numbered, Capture!Scenes
<1>6. answers \in [CaptureRequests -> {"none", "failed"} \X {0} \cup {"payload"} \X (1..MaxScenes)]
  BY DEF HeldInv, RequestsHeld, Answers
<1>7. Capture!TypeOK
  BY <1>1, <1>2, <1>3, <1>4, <1>5, <1>6 DEF Capture!TypeOK
<1>8. /\ requested \cap Capture!Staged = {} /\ Capture!Permits <= MaxJobs
      /\ encoder.done \cup encoder.failed \subseteq (IF staged = Capture!None THEN {} ELSE {staged.seq})
  BY DEF HeldInv, RequestsHeld, JobsHeld
<1>9. \A r \in CaptureRequests :
        (r \in requested \cup Capture!Staged) = (began[r] # <<>> /\ answers[r][1] = "none")
  BY DEF HeldInv, RequestsHeld, Counted, HeldNow
<1>10. Capture!Cardinality(requested \cup Capture!Staged) <= MaxRequests
  BY DEF HeldInv, RequestsHeld, HeldNow, Cardinality, Capture!Cardinality
<1> QED BY <1>7, <1>8, <1>9, <1>10 DEF Capture!HeldOnce

\* The requests of gone are answered, and nothing else happens to what is held.
Leaves(gone) ==
  /\ HeldNow' = HeldNow \ gone /\ requested' \cap Capture!Staged' = {}
  /\ answers' \in [CaptureRequests -> Answers]
  /\ \A r \in CaptureRequests :
       IF r \in gone THEN answers'[r][1] # "none" ELSE answers'[r] = answers[r]
  /\ \/ staged' = Capture!None /\ encoder' = Capture!Dropped
     \/ staged' = Capture!None /\ staged = Capture!None /\ encoder' = encoder
     \/ staged' # Capture!None /\ staged # Capture!None /\ staged'.seq = staged.seq /\ encoder' = encoder

LEMMA SameCount ==
  ASSUME NEW S
  PROVE  Capture!Cardinality(S) = Cardinality(S)
BY DEF Capture!Cardinality, Cardinality

LEMMA LeavesHeld ==
  ASSUME JobsHeld, RequestsHeld, NEW gone \in SUBSET HeldNow, Leaves(gone), began' = began
  PROVE  JobsHeld' /\ RequestsHeld'
<1>1. JobsHeld'
  <2>1. CASE staged' = Capture!None /\ encoder' = Capture!Dropped
    <3>1. encoder'.waiting = encoder.waiting /\ encoder'.done = {} /\ encoder'.failed = {}
          /\ encoder' \in Jobs
      BY <2>1 DEF Capture!Dropped, JobsHeld, Jobs
    <3>2. Len(encoder.waiting) \in Nat /\ Cardinality(encoder.done) \in Nat
      BY FS_CardinalityType DEF JobsHeld, Jobs
    <3>3. Cardinality({}) = 0 /\ IsFiniteSet({})
      BY FS_EmptySet
    <3>4. Capture!Permits' <= MaxJobs
      BY <3>1, <3>2, <3>3, SameCount, CaptureAssumption
         DEF JobsHeld, Capture!Permits, CaptureAssumption
    <3> QED BY <3>1, <3>3, <3>4, <2>1 DEF JobsHeld
  <2>2. CASE encoder' = encoder /\ (staged' = Capture!None <=> staged = Capture!None)
             /\ (staged' # Capture!None => staged'.seq = staged.seq)
    BY <2>2 DEF JobsHeld, Capture!Permits
  <2> QED BY <2>1, <2>2 DEF Leaves
<1>2. IsFiniteSet(HeldNow') /\ Cardinality(HeldNow') <= MaxRequests
  <2>1. HeldNow' \subseteq HeldNow
    BY DEF Leaves
  <2>2. IsFiniteSet(HeldNow') /\ Cardinality(HeldNow') <= Cardinality(HeldNow)
    BY <2>1, FS_Subset DEF RequestsHeld
  <2>3. Cardinality(HeldNow') \in Nat /\ Cardinality(HeldNow) \in Nat
    BY <2>2, FS_CardinalityType DEF RequestsHeld
  <2> QED BY <2>2, <2>3, CaptureAssumption DEF RequestsHeld, CaptureAssumption
<1>3. Counted'
  BY DEF Leaves, RequestsHeld, Counted
<1>4. staged' # Capture!None => staged'.seq \in 1..MaxScenes
  BY DEF Leaves, RequestsHeld
<1> QED BY <1>1, <1>2, <1>3, <1>4 DEF Leaves, RequestsHeld

LEMMA FailLeaves ==
  ASSUME CaptureInv, RequestsHeld, Capture!Fail
  PROVE  Leaves(HeldNow)
<1>1. requested' = {} /\ staged' = Capture!None /\ encoder' = Capture!Dropped
      /\ answers' = [r \in CaptureRequests |-> IF r \in HeldNow THEN <<"failed", 0>> ELSE answers[r]]
  BY DEF Capture!Fail, Capture!Answer, HeldNow
<1>2. HeldNow' = {} /\ requested' \cap Capture!Staged' = {}
  BY <1>1 DEF HeldNow, Capture!Staged
<1>3. <<"failed", 0>> \in Answers
  BY DEF Answers
<1> HIDE DEF HeldNow
<1>4. answers' \in [CaptureRequests -> Answers]
  BY <1>1, <1>3 DEF RequestsHeld
<1> QED BY <1>1, <1>2, <1>4 DEF Leaves

\* Whatever becomes of the frame, without the requests of lost.
LEMMA FinishLeaves ==
  ASSUME CaptureInv, RequestsHeld, NEW lost \in SUBSET HeldNow,
         NEW frame \in Frames \cup {Capture!None},
         IF frame = Capture!None THEN Capture!Staged \subseteq lost
         ELSE /\ staged # Capture!None
              /\ frame.seq = staged.seq /\ frame.requests = staged.requests \ lost,
         Capture!Finish(requested \ lost, frame, lost)
  PROVE  \E gone \in SUBSET HeldNow : Leaves(gone)
<1>1. requested' = requested \ lost
  BY DEF Capture!Finish
<1>2. <<"failed", 0>> \in Answers
  BY DEF Answers
<1>3. answers \in [CaptureRequests -> Answers] /\ requested \cap Capture!Staged = {}
  BY DEF RequestsHeld
<1>4. CASE frame = Capture!None
  <2>1. staged' = Capture!None /\ encoder' = Capture!Dropped
        /\ answers' = [r \in CaptureRequests |-> IF r \in lost THEN <<"failed", 0>> ELSE answers[r]]
    BY <1>4 DEF Capture!Finish, Capture!Answer
  <2>2. HeldNow' = HeldNow \ lost /\ requested' \cap Capture!Staged' = {}
    BY <1>1, <1>4, <2>1 DEF HeldNow, Capture!Staged
  <2>3. answers' \in [CaptureRequests -> Answers]
    BY <1>2, <1>3, <2>1
  <2>4. Leaves(lost)
    BY <2>1, <2>2, <2>3 DEF Leaves
  <2> QED BY <2>4
<1>5. CASE frame # Capture!None
  <2> DEFINE gone == lost \cup frame.requests
  <2>0. /\ staged # Capture!None /\ Capture!Staged = staged.requests
        /\ frame.seq = staged.seq /\ frame.requests = staged.requests \ lost
    BY <1>5 DEF Capture!Staged
  <2>1. gone \in SUBSET HeldNow /\ requested \ lost = HeldNow \ gone
    BY <1>3, <2>0 DEF HeldNow
  <2>2. CASE staged' = Capture!None /\ encoder' = Capture!Dropped
             /\ answers' = [r \in CaptureRequests |->
                              IF r \in lost \cup frame.requests THEN <<"failed", 0>> ELSE answers[r]]
    <3>1. HeldNow' = HeldNow \ gone /\ requested' \cap Capture!Staged' = {}
      BY <1>1, <2>1, <2>2 DEF HeldNow, Capture!Staged
    <3>2. answers' \in [CaptureRequests -> Answers]
      BY <1>2, <1>3, <2>2
    <3>3. Leaves(gone)
      BY <2>2, <3>1, <3>2 DEF Leaves
    <3> QED BY <2>1, <3>3
  <2>3. CASE staged' = Capture!None /\ encoder' = Capture!Dropped
             /\ answers' = [r \in CaptureRequests |->
                              IF r \in lost THEN <<"failed", 0>>
                              ELSE IF r \in frame.requests THEN <<"payload", frame.seq>>
                              ELSE answers[r]]
    <3>1. HeldNow' = HeldNow \ gone /\ requested' \cap Capture!Staged' = {}
      BY <1>1, <2>1, <2>3 DEF HeldNow, Capture!Staged
    <3>2. <<"payload", frame.seq>> \in Answers
      BY <2>0 DEF Answers, RequestsHeld
    <3>3. answers' \in [CaptureRequests -> Answers]
      BY <1>2, <1>3, <2>3, <3>2
    <3>4. \A r \in CaptureRequests :
            IF r \in gone THEN answers'[r][1] # "none" ELSE answers'[r] = answers[r]
      BY <2>3
    <3>5. Leaves(gone)
      BY <2>3, <3>1, <3>3, <3>4 DEF Leaves
    <3> QED BY <2>1, <3>5
  <2>4. CASE staged' = frame /\ encoder' = encoder
             /\ answers' = [r \in CaptureRequests |-> IF r \in lost THEN <<"failed", 0>> ELSE answers[r]]
    <3>1. Capture!Staged' = frame.requests
      BY <1>5, <2>4 DEF Capture!Staged
    <3>2. HeldNow' = HeldNow \ lost /\ requested' \cap Capture!Staged' = {}
      BY <1>1, <1>3, <2>0, <3>1 DEF HeldNow
    <3>3. answers' \in [CaptureRequests -> Answers]
      BY <1>2, <1>3, <2>4
    <3>4. Leaves(lost)
      BY <1>5, <2>0, <2>4, <3>2, <3>3 DEF Leaves
    <3> QED BY <3>4
  <2> QED BY <1>5, <2>2, <2>3, <2>4 DEF Capture!Finish, Capture!Answer
<1> QED BY <1>4, <1>5

LEMMA MaintainLeaves ==
  ASSUME CaptureInv, RequestsHeld, NEW lost \in SUBSET HeldNow, Capture!Maintain(lost)
  PROVE  \E gone \in SUBSET HeldNow : Leaves(gone)
<1>1. CASE locked
  BY <1>1, FailLeaves DEF Capture!Maintain
<1>2. CASE ~locked
  <2> DEFINE frame == IF Capture!Staged \ lost = {} THEN Capture!None
                      ELSE [staged EXCEPT !.requests = staged.requests \ lost]
  <2>1. Capture!Finish(requested \ lost, frame, lost)
    BY <1>2 DEF Capture!Maintain
  <2>2. /\ frame \in Frames \cup {Capture!None}
        /\ IF frame = Capture!None THEN Capture!Staged \subseteq lost
           ELSE /\ staged # Capture!None
                /\ frame.seq = staged.seq /\ frame.requests = staged.requests \ lost
    <3>1. CASE Capture!Staged \ lost = {}
      BY <3>1
    <3>2. CASE Capture!Staged \ lost # {}
      <4>1. staged # Capture!None /\ staged \in Frames
        BY <3>2 DEF CaptureInv, CaptureTyped, Capture!Staged
      <4>2. frame = [staged EXCEPT !.requests = staged.requests \ lost]
        BY <3>2
      <4>3. frame \in Frames /\ frame.seq = staged.seq /\ frame.requests = staged.requests \ lost
        BY <4>1, <4>2 DEF Frames
      <4>4. frame # Capture!None
        BY <4>3 DEF Frames, Capture!None
      <4> QED BY <4>1, <4>3, <4>4
    <3> QED BY <3>1, <3>2
  <2> HIDE DEF frame
  <2> QED BY <1>2, <2>1, <2>2, FinishLeaves
<1> QED BY <1>1, <1>2

\* A frame is staged only when there is none, and room for one more job.
LEMMA StageHeld ==
  ASSUME CaptureInv, JobsHeld, RequestsHeld, NEW seq \in 1..MaxScenes, NEW cutoff,
         Capture!Wanted(requested, staged), Capture!Stage(seq, cutoff), began' = began
  PROVE  JobsHeld' /\ RequestsHeld'
<1> DEFINE ours == Capture!Served(cutoff)
<1>1. /\ requested' = requested \ ours
      /\ staged' = [requests |-> ours, seq |-> seq, presented |-> TRUE]
      /\ encoder' = [encoder EXCEPT !.waiting = Append(encoder.waiting, seq)]
      /\ answers' = answers
  BY DEF Capture!Stage
<1>2. staged = Capture!None /\ Capture!Permits < MaxJobs
  BY DEF Capture!Wanted, Capture!Available
<1>3. ours \subseteq requested
  BY DEF Capture!Served
<1> HIDE DEF ours
<1>4. staged' # Capture!None /\ Capture!Staged' = ours /\ Capture!Staged = {}
  BY <1>1, <1>2 DEF Capture!Staged, Capture!None
<1>5. HeldNow' = HeldNow /\ requested' \cap Capture!Staged' = {}
  BY <1>1, <1>3, <1>4 DEF HeldNow
<1>6. RequestsHeld'
  <2>1. staged'.seq = seq
    BY <1>1
  <2> QED BY <1>1, <1>5, <2>1 DEF RequestsHeld, Counted
<1>7. JobsHeld'
  <2>1. encoder \in Jobs /\ IsFiniteSet(encoder.done) /\ encoder.done = {} /\ encoder.failed = {}
    BY <1>2 DEF JobsHeld
  <2>2. encoder.waiting \in Seq(Nat) /\ seq \in Nat
    BY <2>1 DEF Jobs
  <2>3. Append(encoder.waiting, seq) \in Seq(Nat)
        /\ Len(Append(encoder.waiting, seq)) = Len(encoder.waiting) + 1 /\ Len(encoder.waiting) \in Nat
    BY <2>2
  <2>4. /\ encoder' \in Jobs /\ encoder'.waiting = Append(encoder.waiting, seq)
        /\ encoder'.done = {} /\ encoder'.failed = {}
    BY <1>1, <2>1, <2>3 DEF Jobs
  <2>5. Cardinality({}) = 0 /\ IsFiniteSet({})
    BY FS_EmptySet
  <2>6. Capture!Permits = Len(encoder.waiting) /\ Capture!Permits' = Len(encoder.waiting) + 1
    BY <2>1, <2>3, <2>4, <2>5, SameCount DEF Capture!Permits
  <2>7. Capture!Permits' <= MaxJobs
    BY <1>2, <2>3, <2>6, CaptureAssumption DEF CaptureAssumption
  <2> QED BY <2>4, <2>5, <2>7 DEF JobsHeld
<1> QED BY <1>6, <1>7

LEMMA RequestHeld ==
  ASSUME CaptureInv, JobsHeld, RequestsHeld, NEW r \in CaptureRequests, Capture!Request(r)
  PROVE  JobsHeld' /\ RequestsHeld'
<1>1. /\ began[r] = <<>> /\ began' = [began EXCEPT ![r] = <<captureCounters.scenes, lockGeneration>>]
      /\ staged' = staged /\ encoder' = encoder
  BY DEF Capture!Request
<1>2. /\ began'[r] # <<>> /\ \A q \in CaptureRequests \ {r} : began'[q] = began[q]
  BY <1>1 DEF CaptureInv, CaptureTyped
<1>3. JobsHeld'
  BY <1>1 DEF JobsHeld, Capture!Permits
<1>4. r \notin HeldNow /\ Capture!Staged' = Capture!Staged
  BY <1>1 DEF RequestsHeld, Counted, Capture!Staged
<1>5. CASE requested' = requested /\ answers' = [q \in CaptureRequests |->
             IF q \in {r} THEN <<"failed", 0>> ELSE answers[q]]
  <2>1. <<"failed", 0>> \in Answers
    BY DEF Answers
  <2>2. answers' \in [CaptureRequests -> Answers]
    BY <1>5, <2>1 DEF RequestsHeld
  <2>3. HeldNow' = HeldNow
    BY <1>4, <1>5 DEF HeldNow
  <2>4. Counted'
    BY <1>2, <1>4, <1>5, <2>3 DEF RequestsHeld, Counted
  <2> QED BY <1>1, <1>3, <1>4, <1>5, <2>2, <2>3, <2>4 DEF RequestsHeld
<1>6. CASE /\ ~(Capture!Cardinality(HeldNow) >= MaxRequests)
           /\ requested' = requested \cup {r} /\ answers' = answers
  <2>1. HeldNow' = HeldNow \cup {r} /\ requested' \cap Capture!Staged' = {}
    BY <1>4, <1>6 DEF HeldNow, RequestsHeld
  <2>2. IsFiniteSet(HeldNow') /\ Cardinality(HeldNow') = Cardinality(HeldNow) + 1
        /\ Cardinality(HeldNow) \in Nat
    BY <2>1, <1>4, FS_AddElement, FS_CardinalityType DEF RequestsHeld
  <2>3. Cardinality(HeldNow') <= MaxRequests
    BY <1>6, <2>2, SameCount, CaptureAssumption DEF CaptureAssumption
  <2>4. answers[r][1] = "none"
    <3>1. Counted /\ r \notin HeldNow
      BY <1>4 DEF RequestsHeld
    <3> QED BY <3>1, <1>1, <1>6 DEF Counted
  <2>5. Counted'
    BY <1>2, <1>6, <2>1, <2>4 DEF RequestsHeld, Counted
  <2> QED BY <1>1, <1>3, <1>6, <2>1, <2>2, <2>3, <2>5 DEF RequestsHeld
<1> QED BY <1>5, <1>6 DEF Capture!Request, Capture!Answer, HeldNow

\* A job that ends keeps its place only while somebody waits for it.
LEMMA EncodeHeld ==
  ASSUME CaptureInv, JobsHeld, RequestsHeld, Capture!Encode
  PROVE  JobsHeld' /\ RequestsHeld'
<1> DEFINE first == Head(encoder.waiting)
           kept == staged # Capture!None /\ staged.seq = first
           rest == [encoder EXCEPT !.waiting = Tail(encoder.waiting)]
<1>1. /\ encoder.waiting # <<>>
      /\ requested' = requested /\ staged' = staged /\ answers' = answers /\ began' = began
      /\ \/ encoder' = IF kept THEN [rest EXCEPT !.done = rest.done \cup {first}] ELSE rest
         \/ encoder' = IF kept THEN [rest EXCEPT !.failed = rest.failed \cup {first}] ELSE rest
  BY DEF Capture!Encode
<1>2. RequestsHeld'
  BY <1>1 DEF RequestsHeld, Counted, HeldNow, Capture!Staged
<1>3. /\ encoder \in Jobs /\ IsFiniteSet(encoder.done) /\ encoder.waiting \in Seq(Nat)
      /\ encoder.done \subseteq Nat /\ encoder.failed \subseteq Nat
  BY DEF JobsHeld, Jobs
<1>4. /\ first \in Nat /\ Tail(encoder.waiting) \in Seq(Nat)
      /\ Len(Tail(encoder.waiting)) = Len(encoder.waiting) - 1 /\ Len(encoder.waiting) \in Nat
  BY <1>1, <1>3
<1>5. rest \in Jobs /\ rest.waiting = Tail(encoder.waiting) /\ rest.done = encoder.done
      /\ rest.failed = encoder.failed
  BY <1>3, <1>4 DEF Jobs
<1> HIDE DEF first, rest
<1>6. /\ encoder' \in Jobs /\ encoder'.waiting = Tail(encoder.waiting)
      /\ \/ encoder'.done = encoder.done /\ encoder'.failed = encoder.failed
         \/ kept /\ encoder'.done = encoder.done \cup {first} /\ encoder'.failed = encoder.failed
         \/ kept /\ encoder'.done = encoder.done /\ encoder'.failed = encoder.failed \cup {first}
  <2>1. CASE encoder' = rest
    BY <2>1, <1>5
  <2>2. CASE kept /\ encoder' = [rest EXCEPT !.done = rest.done \cup {first}]
    BY <2>2, <1>3, <1>4, <1>5 DEF Jobs
  <2>3. CASE kept /\ encoder' = [rest EXCEPT !.failed = rest.failed \cup {first}]
    BY <2>3, <1>3, <1>4, <1>5 DEF Jobs
  <2> QED BY <2>1, <2>2, <2>3, <1>1
<1>7. /\ IsFiniteSet(encoder'.done) /\ Cardinality(encoder'.done) <= Cardinality(encoder.done) + 1
      /\ Cardinality(encoder'.done) \in Nat /\ Cardinality(encoder.done) \in Nat
  <2>1. IsFiniteSet(encoder.done \cup {first})
        /\ Cardinality(encoder.done \cup {first}) <= Cardinality(encoder.done) + 1
        /\ Cardinality(encoder.done) \in Nat
    <3>1. Cardinality(encoder.done \cup {first}) =
            IF first \in encoder.done THEN Cardinality(encoder.done) ELSE Cardinality(encoder.done) + 1
      BY <1>3, FS_AddElement
    <3>2. Cardinality(encoder.done) \in Nat
      BY <1>3, FS_CardinalityType
    <3>3. IsFiniteSet(encoder.done \cup {first})
      BY <1>3, FS_AddElement
    <3> QED BY <3>1, <3>2, <3>3
  <2>2. encoder'.done = encoder.done \/ encoder'.done = encoder.done \cup {first}
    BY <1>6
  <2>3. IsFiniteSet(encoder'.done) /\ Cardinality(encoder'.done) <= Cardinality(encoder.done) + 1
    <3>1. CASE encoder'.done = encoder.done
      BY <3>1, <2>1, <1>3
    <3>2. CASE encoder'.done = encoder.done \cup {first}
      BY <3>2, <2>1
    <3> QED BY <3>1, <3>2, <2>2
  <2> QED BY <2>1, <2>3, FS_CardinalityType
<1>8. Capture!Permits' <= MaxJobs
  <2>1. Capture!Permits = Len(encoder.waiting) + Cardinality(encoder.done)
    BY SameCount DEF Capture!Permits
  <2>2. Capture!Permits' = Len(encoder.waiting) - 1 + Cardinality(encoder'.done)
    BY <1>6, <1>4, SameCount DEF Capture!Permits
  <2>3. Len(encoder.waiting) + Cardinality(encoder.done) <= MaxJobs
    BY <2>1 DEF JobsHeld
  <2> QED BY <2>2, <2>3, <1>4, <1>7, CaptureAssumption DEF CaptureAssumption
<1>9. encoder'.done \cup encoder'.failed \subseteq
        (IF staged' = Capture!None THEN {} ELSE {staged'.seq})
  BY <1>1, <1>6 DEF JobsHeld
<1> QED BY <1>2, <1>6, <1>7, <1>8, <1>9 DEF JobsHeld

\* Events that are read carry the number of a scene.
LEMMA EventNumbered ==
  ASSUME CaptureInv, Numbered, events # <<>>
  PROVE  /\ Head(events) \in Events /\ Head(events).seq >= 1
         /\ \A i \in 1..Len(Tail(events)) : Tail(events)[i].seq >= 1
<1>1. events \in Seq(Events) /\ Len(events) \in Nat /\ Len(events) >= 1
  BY DEF CaptureInv, CaptureTyped
<1>2. Head(events) = events[1] /\ 1 \in 1..Len(events)
  BY <1>1
<1>3. \A i \in 1..Len(Tail(events)) : Tail(events)[i] = events[i + 1] /\ i + 1 \in 1..Len(events)
  BY <1>1
<1> QED BY <1>1, <1>2, <1>3 DEF Numbered

LEMMA PresentedHeld ==
  ASSUME CaptureInv, HeldInv, Capture!Presented
  PROVE  HeldInv'
<1> DEFINE e == Head(events)
           mine == e.capture # "none" /\ presentation.capture = e.seq /\ ~locked
<1>1. /\ events # <<>> /\ events' = Tail(events) /\ e.kind = "presented"
      /\ UNCHANGED <<locked, lockGeneration, presenting, began, flipped, captureCounters>>
  BY DEF Capture!Presented
<1>2. e \in Events /\ e.seq >= 1 /\ \A i \in 1..Len(events') : events'[i].seq >= 1
  BY <1>1, EventNumbered DEF HeldInv
<1>3. e.seq \in Nat
  BY <1>2 DEF Events
<1>4. JobsHeld /\ RequestsHeld /\ Numbered
  BY DEF HeldInv
<1>5. CASE ~Capture!Accepted(e)
  <2>1. UNCHANGED <<requested, staged, encoder, answers, presentation>>
    BY <1>5 DEF Capture!Presented, Capture!captures
  <2> QED BY <2>1, <1>1, <1>2, <1>4
          DEF HeldInv, JobsHeld, RequestsHeld, Counted, HeldNow, Numbered, Capture!Staged,
              Capture!Permits
<1>6. CASE Capture!Accepted(e)
  <2>1. e.seq <= captureCounters.scenes
    BY <1>6 DEF Capture!Accepted
  <2>2. captureCounters.scenes \in Nat /\ captureCounters.scenes <= MaxScenes
    BY <1>4 DEF Numbered, CaptureInv, CaptureTyped
  <2>3. e.seq \in 1..MaxScenes /\ e.seq <= MaxScenes
    BY <1>2, <1>3, <2>1, <2>2, CaptureAssumption DEF CaptureAssumption
  <2> HIDE DEF e
  <2>4. Numbered'
    <3>1. presentation' = [presentation EXCEPT !.last = e.seq,
                             !.pending = IF presentation.pending = e.seq THEN 0 ELSE presentation.pending,
                             !.capture = IF mine THEN 0 ELSE presentation.capture]
      BY <1>6 DEF Capture!Presented, Capture!NoScene, e
    <3>2. presentation \in Presentations
      BY DEF CaptureInv, CaptureTyped
    <3>3. /\ presentation'.epoch = presentation.epoch /\ presentation'.lock = presentation.lock
          /\ presentation'.last = e.seq
          /\ presentation'.pending \in {0, presentation.pending}
          /\ presentation'.capture \in {0, presentation.capture}
      <4> HIDE DEF mine
      <4> QED BY <3>1, <3>2 DEF Presentations
    <3>4. 0 <= MaxScenes
      BY CaptureAssumption DEF CaptureAssumption
    <3>5. presentation'.pending <= MaxScenes /\ presentation'.capture <= MaxScenes
      BY <3>3, <3>4, <1>4 DEF Numbered
    <3> QED BY <3>3, <3>5, <2>3, <1>1, <1>2, <1>4 DEF Numbered
  <2>5. \/ Capture!Fail
        \/ Capture!Wanted(requested, staged) /\ Capture!Stage(e.seq, presentation.capture)
        \/ ~locked /\ Capture!OnlyPresented
    BY <1>6 DEF Capture!Presented, e
  <2>6. CASE Capture!Fail
    BY <2>6, <2>4, <1>1, <1>4, FailLeaves, LeavesHeld DEF HeldInv
  <2>7. CASE Capture!Wanted(requested, staged) /\ Capture!Stage(e.seq, presentation.capture)
    BY <2>7, <2>3, <2>4, <1>1, <1>4, StageHeld DEF HeldInv
  <2>8. CASE ~locked /\ Capture!OnlyPresented
    <3>1. Capture!Finish(requested \ {}, staged, {})
      BY <2>8 DEF Capture!OnlyPresented
    <3>2. /\ staged \in Frames \cup {Capture!None} /\ {} \in SUBSET HeldNow
          /\ IF staged = Capture!None THEN Capture!Staged \subseteq {}
             ELSE /\ staged # Capture!None
                  /\ staged.seq = staged.seq /\ staged.requests = staged.requests \ {}
      BY DEF CaptureInv, CaptureTyped, Capture!Staged
    <3>3. PICK gone \in SUBSET HeldNow : Leaves(gone)
      BY <3>1, <3>2, <1>4, FinishLeaves
    <3> QED BY <3>3, <2>4, <1>1, <1>4, LeavesHeld DEF HeldInv
  <2> QED BY <2>5, <2>6, <2>7, <2>8
<1> QED BY <1>5, <1>6

\* What is held does not change.
LEMMA StillHeld ==
  ASSUME HeldInv, UNCHANGED <<requested, staged, encoder, answers, began>>
  PROVE  JobsHeld' /\ RequestsHeld'
BY DEF HeldInv, JobsHeld, RequestsHeld, Counted, HeldNow, Capture!Staged, Capture!Permits

LEMMA GoneHeld ==
  ASSUME HeldInv, began' = began, \E gone \in SUBSET HeldNow : Leaves(gone)
  PROVE  JobsHeld' /\ RequestsHeld'
BY LeavesHeld DEF HeldInv

LEMMA LocksHeld ==
  ASSUME CaptureInv, HeldInv, Capture!Locks
  PROVE  HeldInv'
<1>1. /\ lockGeneration < MaxEpoch /\ lockGeneration = presentation.lock
      /\ lockGeneration' = lockGeneration + 1
      /\ presentation' = [presentation EXCEPT !.redraw = TRUE]
      /\ UNCHANGED <<requested, staged, encoder, answers, presenting, events, began, captureCounters>>
  BY DEF Capture!Locks, Capture!captures
<1>2. presentation \in Presentations /\ lockGeneration \in Nat
  BY DEF CaptureInv, CaptureTyped
<1>3. Numbered'
  <2>1. /\ presentation'.epoch = presentation.epoch /\ presentation'.lock = presentation.lock
        /\ presentation'.pending = presentation.pending /\ presentation'.last = presentation.last
        /\ presentation'.capture = presentation.capture
    BY <1>1, <1>2 DEF Presentations
  <2>2. lockGeneration' <= MaxEpoch /\ presentation.lock <= lockGeneration'
    BY <1>1, <1>2, CaptureAssumption DEF CaptureAssumption
  <2> QED BY <1>1, <2>1, <2>2 DEF HeldInv, Numbered
<1> QED BY <1>1, <1>3, StillHeld DEF HeldInv

LEMMA ReplacedHeld ==
  ASSUME CaptureInv, HeldInv, Capture!Replaced
  PROVE  HeldInv'
<1>1. /\ presentation' = [presentation EXCEPT !.pending = 0, !.last = 0, !.capture = 0,
                                              !.dirty = TRUE]
      /\ presenting' = Capture!None /\ events' = <<>> /\ Capture!Fail
      /\ captureCounters' = [captureCounters EXCEPT !.faults = captureCounters.faults + 1]
      /\ UNCHANGED <<locked, lockGeneration, began, flipped>>
  BY DEF Capture!Replaced, Capture!Fault, Capture!NoScene
<1>2. presentation \in Presentations /\ captureCounters \in [scenes : Nat, faults : Nat]
  BY DEF CaptureInv, CaptureTyped
<1>3. /\ presentation'.epoch = presentation.epoch /\ presentation'.lock = presentation.lock
      /\ presentation'.pending = 0 /\ presentation'.last = 0 /\ presentation'.capture = 0
      /\ captureCounters'.scenes = captureCounters.scenes
  BY <1>1, <1>2 DEF Presentations
<1>4. 0 <= MaxScenes /\ Len(events') = 0
  BY <1>1, CaptureAssumption DEF CaptureAssumption
<1>5. Numbered'
  BY <1>1, <1>3, <1>4 DEF HeldInv, Numbered
<1> QED BY <1>1, <1>5, FailLeaves, GoneHeld DEF HeldInv

LEMMA DiscardedHeld ==
  ASSUME CaptureInv, HeldInv, Capture!Discarded
  PROVE  HeldInv'
<1>1. /\ events # <<>> /\ events' = Tail(events)
      /\ UNCHANGED <<locked, lockGeneration, presenting, began, flipped, captureCounters>>
  BY DEF Capture!Discarded
<1>2. \A i \in 1..Len(events') : events'[i].seq >= 1
  BY <1>1, EventNumbered DEF HeldInv
<1>3. CASE UNCHANGED <<presentation, requested, staged, encoder, answers>>
  <2>1. Numbered'
    BY <1>1, <1>2, <1>3 DEF HeldInv, Numbered
  <2> QED BY <1>1, <1>3, <2>1, StillHeld DEF HeldInv
<1>4. CASE /\ presentation' = [presentation EXCEPT !.pending = 0, !.dirty = TRUE, !.capture = 0]
           /\ Capture!Fail
  <2>1. presentation \in Presentations
    BY DEF CaptureInv, CaptureTyped
  <2>2. /\ presentation'.epoch = presentation.epoch /\ presentation'.lock = presentation.lock
        /\ presentation'.pending = 0 /\ presentation'.last = presentation.last
        /\ presentation'.capture = 0
    BY <1>4, <2>1 DEF Presentations
  <2>3. 0 <= MaxScenes
    BY CaptureAssumption DEF CaptureAssumption
  <2>4. Numbered'
    BY <1>1, <1>2, <2>2, <2>3 DEF HeldInv, Numbered
  <2> QED BY <1>1, <1>4, <2>4, FailLeaves, GoneHeld DEF HeldInv
<1> QED BY <1>3, <1>4 DEF Capture!Discarded, Capture!captures, Capture!NoScene

LEMMA RenderNumbered ==
  ASSUME CaptureInv, Numbered, Capture!Render, lockGeneration' = lockGeneration
  PROVE  Numbered'
<1> DEFINE redraw == presentation.redraw \/ (~locked /\ Capture!Wanted(requested', staged'))
           l == Capture!SyncedLoop
           synced == [l EXCEPT !.redraw = FALSE, !.dirty = l.dirty \/ redraw]
           wanted == Capture!Wanted(requested', staged')
           seq == captureCounters.scenes + 1
           sent == Capture!Unsubmitted(presenting)
           drawn == /\ seq <= MaxScenes
                    /\ captureCounters' = [captureCounters EXCEPT !.scenes = seq]
                    /\ presentation' = [synced EXCEPT !.pending = seq, !.dirty = FALSE,
                                                      !.capture = IF wanted THEN seq ELSE 0]
                    /\ presenting' = [seq |-> seq, epoch |-> synced.epoch, wanted |-> wanted,
                                      taken |-> FALSE, submitted |-> FALSE]
           idle == presentation' = synced /\ captureCounters' = captureCounters
                   /\ presenting' \in {Capture!None, presenting}
<1>1. drawn \/ idle
  BY DEF Capture!Render, Capture!NoScene
<1>2. events' \in {events \o <<>>, events \o sent}
  BY DEF Capture!Render
<1>3. /\ presentation \in Presentations /\ lockGeneration \in Nat
      /\ presenting \in Shown \cup {Capture!None}
      /\ captureCounters \in [scenes : Nat, faults : Nat] /\ events \in Seq(Events)
  BY DEF CaptureInv, CaptureTyped
<1>4. /\ l \in Presentations /\ l.epoch <= l.lock /\ l.lock <= lockGeneration
      /\ l.pending <= MaxScenes /\ l.last <= MaxScenes /\ l.capture <= MaxScenes
  <2>1. CASE Capture!Secured
    <3>1. l = [presentation EXCEPT !.lock = lockGeneration, !.epoch = presentation.epoch + 1,
                  !.pending = 0, !.last = 0, !.dirty = TRUE, !.capture = 0]
      BY <2>1 DEF Capture!SyncedLoop, Capture!NoScene
    <3>2. presentation.epoch \in Nat /\ presentation.epoch + 1 \in Nat /\ presentation.lock \in Nat
      BY <1>3 DEF Presentations
    <3>3. /\ l \in Presentations /\ l.lock = lockGeneration /\ l.epoch = presentation.epoch + 1
          /\ l.pending = 0 /\ l.last = 0 /\ l.capture = 0
      BY <1>3, <3>1, <3>2 DEF Presentations
    <3>4. lockGeneration # presentation.lock
      BY <2>1 DEF Capture!Secured
    <3>5. presentation.epoch + 1 <= lockGeneration
      BY <1>3, <3>2, <3>4 DEF Numbered
    <3> QED BY <1>3, <3>3, <3>5, CaptureAssumption DEF CaptureAssumption
  <2>2. CASE ~Capture!Secured
    BY <2>2, <1>3 DEF Capture!SyncedLoop, Numbered
  <2> QED BY <2>1, <2>2
<1>5. (l.dirty \/ redraw) \in BOOLEAN
  OBVIOUS
<1> HIDE DEF l, redraw
<1>6. /\ synced \in Presentations
      /\ synced.epoch = l.epoch /\ synced.lock = l.lock /\ synced.pending = l.pending
      /\ synced.last = l.last /\ synced.capture = l.capture
  BY <1>4, <1>5 DEF Presentations
<1> HIDE DEF synced
<1>7. \A i \in 1..Len(events') : events'[i].seq >= 1
  <2>1. events \o <<>> = events
    BY <1>3, ConcatEmptySeq
  <2>2. \/ sent = <<>>
        \/ /\ presenting.seq \in 1..MaxScenes
           /\ sent = <<[kind |-> "discarded", seq |-> presenting.seq]>>
    BY <1>3 DEF Capture!Unsubmitted, Numbered
  <2>3. CASE events' = events
    BY <2>3 DEF Numbered
  <2>4. CASE /\ presenting.seq \in 1..MaxScenes
             /\ events' = events \o <<[kind |-> "discarded", seq |-> presenting.seq]>>
    <3> DEFINE new == [kind |-> "discarded", seq |-> presenting.seq]
    <3>1. new \in Events /\ new.seq >= 1
      BY <2>4 DEF Events
    <3> HIDE DEF new
    <3>2. /\ Len(events \o <<new>>) = Len(events) + 1 /\ Len(events) \in Nat
          /\ \A i \in 1..Len(events) + 1 :
               (events \o <<new>>)[i] = IF i <= Len(events) THEN events[i] ELSE new
      BY <1>3, <3>1
    <3>3. events' = events \o <<new>>
      BY <2>4 DEF new
    <3> QED BY <3>1, <3>2, <3>3 DEF Numbered
  <2> HIDE DEF sent
  <2> QED BY <1>2, <2>1, <2>2, <2>3, <2>4
<1> HIDE DEF sent
<1>8. CASE drawn
  <2>1. seq \in 1..MaxScenes /\ seq \in Nat
    BY <1>3, <1>8, CaptureAssumption DEF CaptureAssumption
  <2>2. wanted \in BOOLEAN
    BY DEF Capture!Wanted
  <2> HIDE DEF seq, wanted
  <2>3. /\ presentation'.epoch = synced.epoch /\ presentation'.lock = synced.lock
        /\ presentation'.last = synced.last /\ presentation'.pending = seq
        /\ presentation'.capture \in {seq, 0}
    BY <1>6, <1>8, <2>1 DEF Presentations
  <2>4. presenting'.seq = seq /\ captureCounters'.scenes = seq
    BY <1>3, <1>8
  <2>5. 0 <= MaxScenes /\ seq <= MaxScenes
    BY <2>1, CaptureAssumption DEF CaptureAssumption
  <2>6. presentation'.capture <= MaxScenes
    BY <2>3, <2>5
  <2> QED BY <1>4, <1>6, <1>7, <2>1, <2>3, <2>4, <2>5, <2>6 DEF Numbered
<1>9. CASE idle
  BY <1>4, <1>6, <1>7, <1>9 DEF Numbered
<1> QED BY <1>1, <1>8, <1>9

LEMMA TurnHeld ==
  ASSUME CaptureInv, HeldInv, Capture!Turn
  PROVE  HeldInv'
<1>1. Capture!Maintain({}) /\ Capture!Render /\ began' = began /\ lockGeneration' = lockGeneration
  BY DEF Capture!Turn
<1> QED BY <1>1, MaintainLeaves, GoneHeld, RenderNumbered DEF HeldInv

LEMMA ExpiresHeld ==
  ASSUME CaptureInv, HeldInv, Capture!Expires
  PROVE  HeldInv'
<1>1. PICK r \in HeldNow : Capture!Maintain({r})
  BY DEF Capture!Expires, HeldNow
<1>2. /\ captureCounters' = [captureCounters EXCEPT !.faults = captureCounters.faults + 1]
      /\ UNCHANGED <<lockGeneration, presentation, presenting, events, began>>
  BY DEF Capture!Expires, Capture!Fault
<1>3. captureCounters'.scenes = captureCounters.scenes
  BY <1>2 DEF CaptureInv, CaptureTyped
<1>4. Numbered'
  BY <1>2, <1>3 DEF HeldInv, Numbered
<1> QED BY <1>1, <1>2, <1>4, MaintainLeaves, GoneHeld DEF HeldInv

LEMMA PresentHeld ==
  ASSUME CaptureInv, HeldInv, Capture!Present
  PROVE  HeldInv'
<1> DEFINE presented(capture) == [kind |-> "presented", seq |-> presenting.seq,
                                  epoch |-> presenting.epoch, capture |-> capture]
<1>1. /\ presenting # Capture!None
      /\ presenting' = [presenting EXCEPT !.taken = presenting.taken \/ presenting.wanted,
                                          !.submitted = TRUE]
      /\ UNCHANGED <<lockGeneration, requested, staged, encoder, answers, presentation, began>>
      /\ \E capture \in {"pixels", "none", "error"} : events' = Append(events, presented(capture))
  BY DEF Capture!Present, Capture!captures
<1>2. captureCounters'.scenes = captureCounters.scenes
  BY DEF Capture!Present, Capture!Fault, CaptureInv, CaptureTyped
<1>3. presenting \in Shown /\ presenting.seq \in 1..MaxScenes
  BY <1>1 DEF CaptureInv, CaptureTyped, HeldInv, Numbered
<1>4. presenting'.seq = presenting.seq
  BY <1>1, <1>3 DEF Shown
<1>5. PICK capture \in {"pixels", "none", "error"} : events' = Append(events, presented(capture))
  BY <1>1
<1>6. presented(capture) \in Events /\ presented(capture).seq >= 1
  BY <1>3 DEF Events, Shown
<1> HIDE DEF presented
<1>7. \A i \in 1..Len(events') : events'[i].seq >= 1
  <2>1. events \in Seq(Events) /\ Len(events) \in Nat
    BY DEF CaptureInv, CaptureTyped
  <2>2. /\ Len(events') = Len(events) + 1
        /\ \A i \in 1..Len(events) + 1 :
             events'[i] = IF i <= Len(events) THEN events[i] ELSE presented(capture)
    BY <1>5, <1>6, <2>1
  <2> QED BY <1>6, <2>1, <2>2 DEF HeldInv, Numbered
<1>8. Numbered'
  BY <1>1, <1>2, <1>3, <1>4, <1>7 DEF HeldInv, Numbered
<1> QED BY <1>1, <1>8, StillHeld DEF HeldInv

LEMMA HeldSteps == CaptureInv /\ HeldInv /\ [Capture!Next]_(Capture!vars) => HeldInv'
<1> SUFFICES ASSUME CaptureInv, HeldInv, [Capture!Next]_(Capture!vars) PROVE HeldInv'
  OBVIOUS
<1>1. ASSUME NEW r \in CaptureRequests, Capture!Request(r)
      PROVE  HeldInv'
  <2>1. presentation \in Presentations
    BY DEF CaptureInv, CaptureTyped
  <2>2. /\ UNCHANGED <<lockGeneration, presenting, events, captureCounters>>
        /\ presentation' = presentation \/ presentation' = [presentation EXCEPT !.redraw = TRUE]
    BY <1>1 DEF Capture!Request
  <2>3. /\ presentation'.epoch = presentation.epoch /\ presentation'.lock = presentation.lock
        /\ presentation'.pending = presentation.pending /\ presentation'.last = presentation.last
        /\ presentation'.capture = presentation.capture
    BY <2>1, <2>2 DEF Presentations
  <2>4. Numbered'
    BY <2>2, <2>3 DEF HeldInv, Numbered
  <2> QED BY <1>1, <2>4, RequestHeld DEF HeldInv
<1>2. CASE Capture!Encode
  <2>1. /\ UNCHANGED <<lockGeneration, presentation, presenting, events>>
        /\ captureCounters'.scenes = captureCounters.scenes
    BY <1>2 DEF Capture!Encode, Capture!Fault, CaptureInv, CaptureTyped
  <2>2. Numbered'
    BY <2>1 DEF HeldInv, Numbered
  <2> QED BY <1>2, <2>2, EncodeHeld DEF HeldInv
<1>3. CASE UNCHANGED Capture!vars
  <2>1. Numbered'
    BY <1>3 DEF HeldInv, Numbered, Capture!vars
  <2> QED BY <1>3, <2>1, StillHeld DEF HeldInv, Capture!vars, Capture!captures
<1> QED
  BY <1>1, <1>2, <1>3, LocksHeld, ReplacedHeld, PresentedHeld, DiscardedHeld, TurnHeld,
     ExpiresHeld, PresentHeld DEF Capture!Next

LEMMA HeldStarts == Capture!Init => HeldInv
<1> SUFFICES ASSUME Capture!Init PROVE HeldInv
  OBVIOUS
<1>1. /\ lockGeneration = 0 /\ requested = {} /\ staged = Capture!None
      /\ encoder = [waiting |-> <<>>, done |-> {}, failed |-> {}]
      /\ presentation = [pending |-> 0, last |-> 0, dirty |-> TRUE, redraw |-> TRUE,
                         capture |-> 0, epoch |-> 0, lock |-> 0]
      /\ presenting = Capture!None /\ events = <<>>
      /\ began = [r \in CaptureRequests |-> <<>>]
      /\ answers = [r \in CaptureRequests |-> <<"none", 0>>]
      /\ captureCounters = [scenes |-> 0, faults |-> 0]
  BY DEF Capture!Init, Capture!NoScene
<1>2. HeldNow = {} /\ Capture!Staged = {} /\ Cardinality({}) = 0 /\ IsFiniteSet({})
  BY <1>1, FS_EmptySet DEF HeldNow, Capture!Staged
<1>3. JobsHeld
  <2>1. encoder \in Jobs /\ encoder.waiting = <<>> /\ encoder.done = {} /\ encoder.failed = {}
    <3>1. <<>> \in Seq(Nat)
      OBVIOUS
    <3> QED BY <1>1, <3>1 DEF Jobs
  <2>2. Capture!Permits = 0
    BY <1>2, <2>1, SameCount DEF Capture!Permits
  <2> QED BY <1>2, <2>1, <2>2, CaptureAssumption DEF JobsHeld, CaptureAssumption
<1>4. RequestsHeld
  <2>1. answers \in [CaptureRequests -> Answers]
    BY <1>1 DEF Answers
  <2>2. Counted
    BY <1>1, <1>2 DEF Counted
  <2> QED BY <1>1, <1>2, <2>1, <2>2, CaptureAssumption DEF RequestsHeld, CaptureAssumption
<1>5. Numbered
  BY <1>1, CaptureAssumption DEF Numbered, CaptureAssumption
<1> QED BY <1>3, <1>4, <1>5 DEF HeldInv

\* Whatever requests, jobs and scenes there may be: every request that was made is waiting,
\* staged or answered, in one of these only, and the encoder's places are never exceeded.
THEOREM RequestsHeldOnce == Capture!Spec => []Capture!HeldOnce
<1>1. CaptureInv /\ [Capture!Next]_(Capture!vars) => CaptureInv'
  BY CaptureSteps
<1>2. CaptureInv /\ HeldInv /\ [Capture!Next]_(Capture!vars) => HeldInv'
  BY HeldSteps
<1>3. Capture!Init => CaptureInv /\ HeldInv
  BY CaptureStarts, HeldStarts
<1> QED
  BY <1>1, <1>2, <1>3, HeldIsHeldOnce, PTL DEF Capture!Spec

-----------------------------------------------------------------------------
(***************************************************************************)
(* PendingLaunch.  Whoever tells a caller of a failure has cancelled its   *)
(* launch before (Standing), and the last look sees it; success is told    *)
(* on the word of a worker that has started its child.                     *)
(***************************************************************************)
Words == {"prepared", "ready", "closed"} \cup Launching!Results
Begun == {"started", "opened"}
Told(c, m, w) == c = "ok" \/ m = "ok" \/ (\E i \in 1..Len(w) : w[i] = "ok")

StandingAt(l) ==
  /\ caller[l] = "idle" => launcher[l] = "none"
  /\ caller[l] \in {"error", "dropped"} => revoked[l] \/ launcher[l] = "none"
  /\ mail[l] # "none" => revoked[l]
  /\ child[l] \in Begun => launcher[l] \in {"done", "gone"}
  /\ Told(caller[l], mail[l], messages[l]) => child[l] \in Begun
Standing == \A l \in Launches : StandingAt(l)

LaunchInv == Launching!TypeOK /\ Launching!SlotsHeld /\ Standing

NotLateAt(l) ==
  /\ caller[l] \in {"error", "dropped"} /\ launcher'[l] = "start" => launcher[l] = "start"
  /\ caller[l] = "left" /\ launcher'[l] = "last look" => launcher[l] = "last look"
NotLate == \A l \in Launches : NotLateAt(l)

\* A message is told, or none is, and none is made up.
LEMMA Telling ==
  ASSUME NEW w \in Seq(Words)
  PROVE  /\ \A x \in Words : Append(w, x) \in Seq(Words)
         /\ w # <<>> => Tail(w) \in Seq(Words) /\ Head(w) \in Words
         /\ \A c, m : \A x \in Words \ {"ok"} : Told(c, m, Append(w, x)) => Told(c, m, w)
         /\ \A c, m : w # <<>> /\ Told(c, m, Tail(w)) => Told(c, m, w)
         /\ \A c, m : w # <<>> /\ Head(w) = "ok" => Told(c, m, w)
         /\ \A c, m : Told(c, m, <<>>) => c = "ok" \/ m = "ok"
<1>1. \A x \in Words : Append(w, x) \in Seq(Words) /\ Len(Append(w, x)) = Len(w) + 1
        /\ \A i \in 1..Len(w) + 1 : Append(w, x)[i] = IF i = Len(w) + 1 THEN x ELSE w[i]
  OBVIOUS
<1>2. Len(w) \in Nat
  OBVIOUS
<1>3. ASSUME w # <<>>
      PROVE  /\ Tail(w) \in Seq(Words) /\ Head(w) \in Words /\ Head(w) = w[1] /\ Len(w) >= 1
             /\ Len(Tail(w)) = Len(w) - 1 /\ \A i \in 1..Len(Tail(w)) : Tail(w)[i] = w[i + 1]
  BY <1>3
<1>4. ASSUME NEW c, NEW m, NEW x \in Words \ {"ok"}, Told(c, m, Append(w, x)) PROVE Told(c, m, w)
  BY <1>1, <1>2, <1>4 DEF Told
<1>5. ASSUME NEW c, NEW m, w # <<>>, Told(c, m, Tail(w)) PROVE Told(c, m, w)
  BY <1>2, <1>3, <1>5 DEF Told
<1>6. ASSUME NEW c, NEW m, w # <<>>, Head(w) = "ok" PROVE Told(c, m, w)
  BY <1>2, <1>3, <1>6 DEF Told
<1>7. \A c, m : Told(c, m, <<>>) => c = "ok" \/ m = "ok"
  BY DEF Told
<1> QED BY <1>1, <1>3, <1>4, <1>5, <1>6, <1>7

-----------------------------------------------------------------------------
(* The slots. *)

LEMMA SameCardinality ==
  ASSUME NEW S
  PROVE  Launching!Cardinality(S) = Cardinality(S)
BY DEF Launching!Cardinality, Cardinality

Holding == {l \in Launches : launcher[l] \notin {"none", "gone"}}

LEMMA HeldByThreads ==
  /\ Launching!SlotsHeld <=> slots = Cardinality(Holding)
  /\ Launching!SlotsHeld' <=> slots' = Cardinality(Holding')
<1>1. Launching!SlotsHeld <=> slots = Launching!Cardinality(Holding)
  BY DEF Launching!SlotsHeld, Holding
<1>2. Launching!SlotsHeld' <=> slots' = Launching!Cardinality(Holding')
  BY DEF Launching!SlotsHeld, Holding, Launching!Cardinality
<1> QED BY <1>1, <1>2, SameCardinality

LEMMA Counting ==
  ASSUME LaunchInv
  PROVE  IsFiniteSet(Holding) /\ slots = Cardinality(Holding) /\ slots \in Nat
<1>1. IsFiniteSet(Holding)
  BY LaunchAssumption, FS_Subset DEF LaunchAssumption, Holding
<1> QED BY <1>1, FS_CardinalityType, HeldByThreads DEF LaunchInv

LEMMA SlotTaken ==
  ASSUME LaunchInv, NEW l \in Launches, NEW k, launcher[l] = "none", Launching!Started(l, k)
  PROVE  Launching!SlotsHeld' /\ slots' \in 0..MaxWorkers
<1>1. Holding' = Holding \cup {l} /\ l \notin Holding
  BY DEF Launching!Started, Holding, LaunchInv, Launching!TypeOK
<1>2. slots' = Cardinality(Holding')
  BY <1>1, Counting, FS_AddElement DEF Launching!Started
<1> QED BY <1>2, Counting, HeldByThreads, LaunchAssumption DEF LaunchAssumption, Launching!Started

LEMMA SlotGivenUp ==
  ASSUME LaunchInv, NEW l \in Launches, l \in Holding,
         launcher' = [launcher EXCEPT ![l] = "gone"], slots' = slots - 1
  PROVE  Launching!SlotsHeld' /\ slots' \in 0..MaxWorkers
<1>1. Holding' = Holding \ {l}
  BY DEF Holding, LaunchInv, Launching!TypeOK
<1>2. slots' = Cardinality(Holding') /\ Cardinality(Holding') \in Nat
  BY <1>1, Counting, FS_RemoveElement, FS_CardinalityType
<1>3. slots \in 0..MaxWorkers /\ MaxWorkers \in Nat
  BY LaunchAssumption DEF LaunchAssumption, LaunchInv, Launching!TypeOK
<1>4. slots' \in 0..MaxWorkers
  BY <1>2, <1>3
<1> QED BY <1>2, <1>4, HeldByThreads

LEMMA SlotKept ==
  ASSUME LaunchInv, slots' = slots,
         \A l \in Launches : launcher'[l] \in {"none", "gone"} <=> launcher[l] \in {"none", "gone"}
  PROVE  Launching!SlotsHeld' /\ slots' \in 0..MaxWorkers
<1>1. Holding' = Holding
  BY DEF Holding
<1> QED BY <1>1, Counting, HeldByThreads DEF LaunchInv, Launching!TypeOK
-----------------------------------------------------------------------------
(* One launch at a time. *)

Apart(l) ==
  \A n \in Launches \ {l} :
    /\ caller'[n] = caller[n] /\ mail'[n] = mail[n] /\ messages'[n] = messages[n]
    /\ revoked'[n] = revoked[n] /\ launcher'[n] = launcher[n] /\ child'[n] = child[n]

LEMMA Locally ==
  ASSUME LaunchInv, NEW l \in Launches, Apart(l),
         Launching!TypeOK', Launching!SlotsHeld', StandingAt(l)', NotLateAt(l)
  PROVE  LaunchInv' /\ NotLate
<1>1. ASSUME NEW n \in Launches \ {l} PROVE StandingAt(n)' /\ NotLateAt(n)
  BY <1>1 DEF Apart, StandingAt, NotLateAt, LaunchInv, Standing
<1> QED BY <1>1 DEF LaunchInv, Standing, NotLate

LEMMA Faulting ==
  ASSUME LaunchInv, UNCHANGED faultsOfLaunches \/ Launching!Fault
  PROVE  faultsOfLaunches' \in 0..MaxFaults
<1>1. faultsOfLaunches \in 0..MaxFaults /\ MaxFaults \in Nat
  BY LaunchAssumption DEF LaunchAssumption, LaunchInv, Launching!TypeOK
<1>2. \/ faultsOfLaunches' = faultsOfLaunches
      \/ faultsOfLaunches < MaxFaults /\ faultsOfLaunches' = faultsOfLaunches + 1
  BY DEF Launching!Fault
<1> HIDE DEF LaunchInv
<1> QED BY <1>1, <1>2

Steps == Launching!Early \cup {"last look", "start", "helper"}
Ends == {"none", "running", "failed", "killed"}

\* A worker that has not started its child moves on, or gives up.
Moves(l, t) ==
  /\ launcher[l] \in Steps /\ t \in Steps \cup {"done"}
  /\ launcher' = [launcher EXCEPT ![l] = t]
  /\ revoked' = revoked \/ Launching!Look(l)
  /\ messages' = messages \/ \E x \in Words \ {"ok"} : Launching!Post(l, x)
  /\ child' = child \/ \E c \in Ends : child' = [child EXCEPT ![l] = c]
  /\ t = "start" => launcher[l] = "last look" /\ ~revoked[l]
  /\ t = "last look" => caller[l] # "left"
  /\ UNCHANGED <<caller, connection, mail, source, display, command, accepted, late, kind,
                 slots, admissible, sessionChanges, faultsOfLaunches>>

LEMMA Posting ==
  ASSUME LaunchInv, NEW l \in Launches, NEW x \in Words, Launching!Post(l, x)
  PROVE  /\ messages' \in [Launches -> Seq(Words)]
         /\ \A n \in Launches \ {l} : messages'[n] = messages[n]
         /\ messages'[l] = messages[l] \/ messages'[l] = Append(messages[l], x)
<1>1. messages \in [Launches -> Seq(Words)]
  BY DEF LaunchInv, Launching!TypeOK, Words, Launching!Results
<1>2. messages[l] \in Seq(Words) /\ Append(messages[l], x) \in Seq(Words)
  BY <1>1, Telling
<1> QED BY <1>1, <1>2 DEF Launching!Post

LEMMA MovesStep ==
  ASSUME LaunchInv, NEW l \in Launches, NEW t, Moves(l, t)
  PROVE  LaunchInv' /\ NotLate
<1>1. messages \in [Launches -> Seq(Words)]
  BY DEF LaunchInv, Launching!TypeOK, Words, Launching!Results
<1>2. /\ messages' \in [Launches -> Seq(Words)]
      /\ \A n \in Launches \ {l} : messages'[n] = messages[n]
      /\ Told(caller[l], mail[l], messages'[l]) => Told(caller[l], mail[l], messages[l])
  <2>1. CASE messages' = messages
    BY <1>1, <2>1
  <2>2. ASSUME NEW x \in Words \ {"ok"}, Launching!Post(l, x)
        PROVE  <1>2!1 /\ <1>2!2 /\ <1>2!3
    <3>1. messages[l] \in Seq(Words)
      BY <1>1
    <3>2. Told(caller[l], mail[l], Append(messages[l], x)) => Told(caller[l], mail[l], messages[l])
      BY <3>1, Telling
    <3> QED BY <2>2, <3>2, Posting
  <2> QED BY <2>1, <2>2 DEF Moves
<1>3. /\ revoked' \in [Launches -> BOOLEAN]
      /\ \A n \in Launches \ {l} : revoked'[n] = revoked[n]
      /\ revoked[l] => revoked'[l]
  <2>1. CASE revoked' = revoked
    BY <2>1 DEF LaunchInv, Launching!TypeOK
  <2>2. CASE Launching!Look(l)
    <3>1. (revoked[l] \/ Launching!Expired(l)) \in BOOLEAN
      BY DEF Launching!Expired
    <3> QED BY <2>2, <3>1 DEF Launching!Look, LaunchInv, Launching!TypeOK
  <2> QED BY <2>1, <2>2 DEF Moves
<1>4. launcher[l] \in Steps
  BY DEF Moves
<1>5. child[l] \notin Begun /\ ~Told(caller[l], mail[l], messages[l])
  BY <1>4 DEF LaunchInv, Standing, StandingAt, Steps, Launching!Early
<1>6. /\ child' \in [Launches -> Ends \cup Begun]
      /\ \A n \in Launches \ {l} : child'[n] = child[n]
      /\ child'[l] \notin Begun
  <2>1. child \in [Launches -> Ends \cup Begun]
    BY DEF LaunchInv, Launching!TypeOK, Ends, Begun
  <2>2. \A c \in Ends : c \notin Begun
    BY DEF Ends, Begun
  <2>3. child' = child \/ \E c \in Ends : child' = [child EXCEPT ![l] = c]
    BY DEF Moves
  <2> QED BY <1>5, <2>1, <2>2, <2>3
<1>7. /\ launcher' \in [Launches -> Steps \cup {"none", "done", "gone"}]
      /\ \A n \in Launches \ {l} : launcher'[n] = launcher[n]
      /\ launcher'[l] = t /\ launcher'[l] \in Steps \cup {"done"}
  BY DEF Moves, LaunchInv, Launching!TypeOK, Steps
<1>8. Launching!TypeOK'
  <2>1. messages' \in [Launches -> Seq({"prepared", "ready", "closed"} \cup Launching!Results)]
    BY <1>2 DEF Words
  <2>2. child' \in [Launches -> {"none", "running", "started", "opened", "failed", "killed"}]
    BY <1>6 DEF Ends, Begun
  <2>3. launcher' \in [Launches -> Launching!Early \cup
                                   {"none", "last look", "start", "helper", "done", "gone"}]
    BY <1>7 DEF Steps
  <2> QED BY <1>3, <2>1, <2>2, <2>3 DEF Moves, LaunchInv, Launching!TypeOK
<1>9. Launching!SlotsHeld'
  BY <1>4, <1>7, SlotKept DEF Moves, Steps, Launching!Early
<1>10. StandingAt(l)'
  <2>1. UNCHANGED <<caller, mail>>
    BY DEF Moves
  <2> QED BY <1>2, <1>3, <1>4, <1>5, <1>6, <2>1
          DEF StandingAt, LaunchInv, Standing, Steps, Launching!Early
<1>11. NotLateAt(l)
  BY <1>7 DEF Moves, NotLateAt, LaunchInv, Standing, StandingAt
<1>12. Apart(l)
  BY <1>2, <1>3, <1>6, <1>7 DEF Moves, Apart
<1> QED BY <1>8, <1>9, <1>10, <1>11, <1>12, Locally
LEMMA WorkerSteps ==
  ASSUME LaunchInv, NEW l \in Launches,
         \/ Launching!Prepare(l) \/ Launching!TakeCommand(l) \/ Launching!Synchronize(l)
         \/ Launching!TakeAdmission(l) \/ Launching!CheckPending(l) \/ Launching!HelperKilled(l)
  PROVE  LaunchInv' /\ NotLate
<1> USE DEF Launching!loopVars, Launching!worldVars, Launching!At, Launching!Goto, Launching!Done,
            Words, Launching!Results, Steps, Launching!Early
<1>1. CASE Launching!Prepare(l)
  <2>1. PICK t \in {"done", "command"} : Moves(l, t)
    BY <1>1 DEF Launching!Prepare, Moves
  <2> QED BY <2>1, MovesStep
<1>2. CASE Launching!TakeCommand(l)
  <2>1. PICK t \in {"done", "display"} : Moves(l, t)
    BY <1>2 DEF Launching!TakeCommand, Moves
  <2> QED BY <2>1, MovesStep
<1>3. CASE Launching!Synchronize(l)
  <2>1. PICK t \in {"done", "admission"} : Moves(l, t)
    BY <1>3 DEF Launching!Synchronize, Moves
  <2> QED BY <2>1, MovesStep
<1>4. CASE Launching!TakeAdmission(l)
  <2>1. PICK t \in {"done", "last look"} : Moves(l, t)
    BY <1>4 DEF Launching!TakeAdmission, Launching!Expired, Moves
  <2> QED BY <2>1, MovesStep
<1>5. CASE Launching!CheckPending(l)
  <2>1. PICK t \in {"done", "start"} : Moves(l, t)
    BY <1>5 DEF Launching!CheckPending, Moves
  <2> QED BY <2>1, MovesStep
<1>6. CASE Launching!HelperKilled(l)
  <2>1. Moves(l, "done")
    BY <1>6 DEF Launching!HelperKilled, Moves, Ends
  <2> QED BY <2>1, MovesStep
<1> QED BY <1>1, <1>2, <1>3, <1>4, <1>5, <1>6

\* The child is there: the worker says so.
LEMMA Success ==
  ASSUME LaunchInv, NEW l \in Launches, NEW c \in Begun, launcher[l] \in Steps,
         Launching!Done(l, "ok"), child' = [child EXCEPT ![l] = c],
         UNCHANGED <<caller, Launching!loopVars, command, accepted, revoked, late, kind, slots,
                     Launching!worldVars>>
  PROVE  LaunchInv' /\ NotLate
<1>1. /\ messages' \in [Launches -> Seq(Words)]
      /\ \A n \in Launches \ {l} : messages'[n] = messages[n]
  BY Posting DEF Launching!Done, Words, Launching!Results
<1>2. /\ child' \in [Launches -> Ends \cup Begun]
      /\ \A n \in Launches \ {l} : child'[n] = child[n]
      /\ child'[l] \in Begun
  <2>1. child \in [Launches -> Ends \cup Begun]
    BY DEF LaunchInv, Launching!TypeOK, Ends, Begun
  <2> QED BY <2>1
<1>3. /\ launcher' \in [Launches -> Steps \cup {"none", "done", "gone"}]
      /\ \A n \in Launches \ {l} : launcher'[n] = launcher[n]
      /\ launcher'[l] = "done"
  BY DEF Launching!Done, Launching!Goto, LaunchInv, Launching!TypeOK, Steps
<1>4. Launching!TypeOK'
  <2>1. messages' \in [Launches -> Seq({"prepared", "ready", "closed"} \cup Launching!Results)]
    BY <1>1 DEF Words
  <2>2. child' \in [Launches -> {"none", "running", "started", "opened", "failed", "killed"}]
    BY <1>2 DEF Ends, Begun
  <2>3. launcher' \in [Launches -> Launching!Early \cup
                                   {"none", "last look", "start", "helper", "done", "gone"}]
    BY <1>3 DEF Steps
  <2> QED BY <2>1, <2>2, <2>3 DEF Launching!loopVars, Launching!worldVars, LaunchInv, Launching!TypeOK
<1>5. Launching!SlotsHeld'
  BY <1>3, SlotKept DEF Steps, Launching!Early
<1>6. StandingAt(l)'
  <2>1. UNCHANGED <<caller, mail, revoked>>
    BY DEF Launching!loopVars
  <2> QED BY <1>2, <1>3, <2>1 DEF StandingAt, LaunchInv, Standing, Steps, Launching!Early
<1>7. NotLateAt(l) /\ Apart(l)
  BY <1>1, <1>2, <1>3 DEF NotLateAt, Apart, Launching!loopVars
<1> QED BY <1>4, <1>5, <1>6, <1>7, Locally

LEMMA ChildSteps ==
  ASSUME LaunchInv, NEW l \in Launches, Launching!Spawn(l) \/ Launching!HelperExits(l)
  PROVE  LaunchInv' /\ NotLate
<1> USE DEF Launching!loopVars, Launching!worldVars, Launching!At, Launching!Goto,
            Words, Launching!Results, Steps, Launching!Early, Begun, Ends
<1>1. CASE Launching!Spawn(l)
  <2>1. CASE Launching!Done(l, "error") /\ UNCHANGED child
    <3>1. Moves(l, "done")
      BY <1>1, <2>1 DEF Launching!Spawn, Launching!Done, Moves
    <3> QED BY <3>1, MovesStep
  <2>2. CASE Launching!Done(l, "ok") /\ child' = [child EXCEPT ![l] = "started"]
    BY <1>1, <2>2, Success DEF Launching!Spawn
  <2>3. CASE launcher' = [launcher EXCEPT ![l] = "helper"] /\ UNCHANGED messages
             /\ child' = [child EXCEPT ![l] = "running"]
    <3>1. Moves(l, "helper")
      BY <1>1, <2>3 DEF Launching!Spawn, Moves
    <3> QED BY <3>1, MovesStep
  <2> QED BY <1>1, <2>1, <2>2, <2>3 DEF Launching!Spawn
<1>2. CASE Launching!HelperExits(l)
  <2>1. CASE Launching!Done(l, "ok") /\ child' = [child EXCEPT ![l] = "opened"]
    BY <1>2, <2>1, Success DEF Launching!HelperExits
  <2>2. CASE Launching!Done(l, "error") /\ child' = [child EXCEPT ![l] = "failed"]
    <3>1. Moves(l, "done")
      BY <1>2, <2>2 DEF Launching!HelperExits, Launching!Done, Moves
    <3> QED BY <3>1, MovesStep
  <2> QED BY <1>2, <2>1, <2>2 DEF Launching!HelperExits
<1> QED BY <1>1, <1>2

\* The thread ends, or unwinds.
LEMMA EndSteps ==
  ASSUME LaunchInv, NEW l \in Launches, Launching!Release(l) \/ Launching!Panic(l)
  PROVE  LaunchInv' /\ NotLate
<1>1. /\ launcher' = [launcher EXCEPT ![l] = "gone"] /\ slots' = slots - 1
      /\ launcher[l] \in Launching!Early \cup {"done"}
      /\ messages' = messages \/ Launching!Post(l, "closed")
      /\ UNCHANGED faultsOfLaunches \/ Launching!Fault
      /\ UNCHANGED <<caller, connection, mail, source, display, command, accepted, revoked, late,
                     kind, child, admissible, sessionChanges>>
  <2>1. CASE Launching!Release(l)
    BY <2>1 DEF Launching!Release, Launching!At, Launching!Goto, Launching!loopVars,
                Launching!worldVars
  <2>2. CASE Launching!Panic(l)
    BY <2>2 DEF Launching!Panic, Launching!At, Launching!Goto, Launching!loopVars
  <2> QED BY <2>1, <2>2
<1>2. messages \in [Launches -> Seq(Words)]
  BY DEF LaunchInv, Launching!TypeOK, Words, Launching!Results
<1>3. /\ messages' \in [Launches -> Seq(Words)]
      /\ \A n \in Launches \ {l} : messages'[n] = messages[n]
      /\ Told(caller[l], mail[l], messages'[l]) => Told(caller[l], mail[l], messages[l])
  <2>1. CASE messages' = messages
    BY <1>2, <2>1
  <2>2. CASE Launching!Post(l, "closed")
    <3>1. "closed" \in Words \ {"ok"}
      BY DEF Words
    <3>2. messages'[l] \in {messages[l], Append(messages[l], "closed")}
      BY <2>2, <3>1, Posting
    <3>3. messages[l] \in Seq(Words)
      BY <1>2
    <3>4. Told(caller[l], mail[l], Append(messages[l], "closed")) => Told(caller[l], mail[l], messages[l])
      BY <3>1, <3>3, Telling
    <3> QED BY <2>2, <3>1, <3>2, <3>4, Posting
  <2> QED BY <1>1, <2>1, <2>2
<1>4. /\ launcher' \in [Launches -> Steps \cup {"none", "done", "gone"}]
      /\ \A n \in Launches \ {l} : launcher'[n] = launcher[n]
      /\ launcher'[l] = "gone" /\ l \in Holding
  BY <1>1 DEF LaunchInv, Launching!TypeOK, Steps, Holding, Launching!Early
<1>5. Launching!SlotsHeld' /\ slots' \in 0..MaxWorkers
  BY <1>1, <1>4, SlotGivenUp
<1>6. Launching!TypeOK'
  <2>1. messages' \in [Launches -> Seq({"prepared", "ready", "closed"} \cup Launching!Results)]
    BY <1>3 DEF Words
  <2>2. launcher' \in [Launches -> Launching!Early \cup
                                   {"none", "last look", "start", "helper", "done", "gone"}]
    BY <1>4 DEF Steps
  <2>3. faultsOfLaunches' \in 0..MaxFaults
    BY <1>1, Faulting
  <2> QED BY <1>1, <1>5, <2>1, <2>2, <2>3 DEF LaunchInv, Launching!TypeOK
<1>7. StandingAt(l)'
  BY <1>1, <1>3, <1>4 DEF StandingAt, LaunchInv, Standing, Launching!Early
<1>8. NotLateAt(l) /\ Apart(l)
  BY <1>1, <1>3, <1>4 DEF NotLateAt, Apart
<1> QED BY <1>5, <1>6, <1>7, <1>8, Locally
\* The event loop asks for a worker.
LEMMA RequestSteps ==
  ASSUME LaunchInv, NEW l \in Launches,
         \/ \E k \in {"detached", "helper"} : Launching!Request(l, k)
         \/ Launching!RequestInternally(l)
  PROVE  LaunchInv' /\ NotLate
<1>1. /\ caller[l] = "idle" /\ \E c \in {"waiting", "internal"} : caller' = [caller EXCEPT ![l] = c]
      /\ connection' \in {connection, [connection EXCEPT ![l] = "pending"]}
      /\ \E k \in {"detached", "helper"} : Launching!Started(l, k)
  BY DEF Launching!Request, Launching!RequestInternally
<1>2. PICK k \in {"detached", "helper"} : Launching!Started(l, k)
  BY <1>1
<1>3. /\ source' = [source EXCEPT ![l] = TRUE]
      /\ launcher' = [launcher EXCEPT ![l] = "prepare"] /\ kind' = [kind EXCEPT ![l] = k]
      /\ UNCHANGED <<mail, messages, command, accepted, display, revoked, late, child, admissible,
                     sessionChanges, faultsOfLaunches>>
  BY <1>2 DEF Launching!Started, Launching!worldVars
<1>4. launcher[l] = "none" /\ child[l] \notin Begun /\ ~Told(caller[l], mail[l], messages[l])
  BY <1>1 DEF LaunchInv, Standing, StandingAt
<1>5. Launching!SlotsHeld' /\ slots' \in 0..MaxWorkers
  BY <1>2, <1>4, SlotTaken
<1>6. /\ caller' \in [Launches -> {"idle", "internal", "waiting", "left", "dropped"} \cup Launching!Results]
      /\ \A n \in Launches \ {l} : caller'[n] = caller[n]
      /\ caller'[l] \in {"waiting", "internal"}
  <2>1. PICK c \in {"waiting", "internal"} : caller' = [caller EXCEPT ![l] = c]
    BY <1>1
  <2> QED BY <2>1 DEF LaunchInv, Launching!TypeOK
<1>7. /\ launcher' \in [Launches -> Launching!Early \cup
                                   {"none", "last look", "start", "helper", "done", "gone"}]
      /\ \A n \in Launches \ {l} : launcher'[n] = launcher[n]
      /\ launcher'[l] = "prepare"
  BY <1>3 DEF LaunchInv, Launching!TypeOK, Launching!Early
<1>8. Launching!TypeOK'
  <2>1. connection' \in [Launches -> {"none", "pending", "closed"}]
    <3>1. connection \in [Launches -> {"none", "pending", "closed"}]
      BY DEF LaunchInv, Launching!TypeOK
    <3> QED BY <1>1, <3>1
  <2>2. kind' \in [Launches -> {"detached", "helper"}] /\ source' \in [Launches -> BOOLEAN]
    BY <1>3 DEF LaunchInv, Launching!TypeOK
  <2> QED BY <1>3, <1>5, <1>6, <1>7, <2>1, <2>2 DEF LaunchInv, Launching!TypeOK
<1>9. StandingAt(l)'
  BY <1>3, <1>4, <1>6, <1>7 DEF StandingAt, Told, LaunchInv, Standing
<1>10. NotLateAt(l) /\ Apart(l)
  BY <1>3, <1>6, <1>7 DEF NotLateAt, Apart
<1> QED BY <1>5, <1>8, <1>9, <1>10, Locally

\* What a caller learns while its worker does not move.
LEMMA CallerSteps ==
  ASSUME LaunchInv, NEW l \in Launches,
         \/ Launching!CallerLeaves(l) \/ Launching!Busy(l)
         \/ Launching!Advance(l) \/ Launching!ConnectionBreaks(l)
  PROVE  LaunchInv' /\ NotLate
<1> DEFINE Callers == {"idle", "internal", "waiting", "left", "dropped"} \cup Launching!Results
<1>1. /\ UNCHANGED <<mail, messages, source, display, command, accepted, late, launcher, kind,
                     child, slots, admissible, sessionChanges>>
      /\ UNCHANGED faultsOfLaunches \/ Launching!Fault
  <2> USE DEF Launching!loopVars, Launching!workerVars, Launching!worldVars
  <2>1. CASE Launching!CallerLeaves(l)
    BY <2>1 DEF Launching!CallerLeaves
  <2>2. CASE Launching!Busy(l)
    BY <2>2 DEF Launching!Busy
  <2>3. CASE Launching!Advance(l)
    BY <2>3 DEF Launching!Advance
  <2>4. CASE Launching!ConnectionBreaks(l)
    BY <2>4 DEF Launching!ConnectionBreaks
  <2> QED BY <2>1, <2>2, <2>3, <2>4
<1>2. connection' = connection \/ connection' = [connection EXCEPT ![l] = "closed"]
  BY DEF Launching!CallerLeaves, Launching!Busy, Launching!Advance, Launching!ConnectionBreaks,
         Launching!Tell, Launching!loopVars
<1>3. revoked' = revoked \/ revoked' = [revoked EXCEPT ![l] = TRUE]
  BY DEF Launching!CallerLeaves, Launching!Busy, Launching!Advance, Launching!ConnectionBreaks
<1>4. /\ revoked' \in [Launches -> BOOLEAN]
      /\ \A n \in Launches \ {l} : revoked'[n] = revoked[n]
      /\ revoked[l] => revoked'[l]
  BY <1>3 DEF LaunchInv, Launching!TypeOK
<1>5. PICK c \in Callers :
        /\ caller' = [caller EXCEPT ![l] = c]
        /\ c \in {caller[l], "left", mail[l]} \/ (c = "error" /\ (revoked'[l] \/ launcher[l] = "none"))
             \/ (c = "dropped" /\ revoked'[l])
        /\ c = "idle" => caller[l] = "idle"
        /\ c = mail[l] => mail[l] # "none" \/ c = caller[l]
  <2>1. /\ caller \in [Launches -> Callers] /\ mail \in [Launches -> {"none"} \cup Launching!Results]
        /\ revoked \in [Launches -> BOOLEAN]
    BY DEF LaunchInv, Launching!TypeOK
  <2>2. CASE Launching!CallerLeaves(l)
    <3>1. "left" \in Callers /\ "left" # mail[l]
      BY <2>1 DEF Launching!Results
    <3> QED BY <2>2, <3>1 DEF Launching!CallerLeaves
  <2>3. CASE Launching!Busy(l)
    <3>1. "error" \in Callers /\ launcher[l] = "none"
      BY <2>3 DEF Launching!Results, Launching!Busy, LaunchInv, Standing, StandingAt
    <3>2. caller' = [caller EXCEPT ![l] = "error"]
      BY <2>3 DEF Launching!Busy
    <3> QED BY <3>1, <3>2
  <2>4. CASE Launching!ConnectionBreaks(l)
    <3>1. "dropped" \in Callers /\ "dropped" # mail[l] /\ revoked'[l]
      BY <2>1, <2>4 DEF Launching!Results, Launching!ConnectionBreaks
    <3> QED BY <2>4, <3>1 DEF Launching!ConnectionBreaks
  <2>5. CASE Launching!Advance(l) /\ mail[l] # "none"
    <3>1. mail[l] \in Launching!Results /\ mail[l] \in Callers /\ mail[l] # "idle"
      BY <2>1, <2>5 DEF Launching!Results
    <3>2. caller' = [caller EXCEPT ![l] = IF caller[l] = "waiting" THEN mail[l] ELSE caller[l]]
      BY <2>5 DEF Launching!Advance, Launching!Tell
    <3>3. CASE caller[l] = "waiting"
      BY <2>5, <3>1, <3>2, <3>3
    <3>4. CASE caller[l] # "waiting"
      BY <2>1, <2>5, <3>2, <3>4
    <3> QED BY <3>3, <3>4
  <2>6. CASE Launching!Advance(l) /\ mail[l] = "none"
    <3>1. caller' = [caller EXCEPT ![l] = IF caller[l] = "waiting" THEN "error" ELSE caller[l]]
      BY <2>6 DEF Launching!Advance, Launching!Tell
    <3>2. revoked'[l] /\ "error" \in Callers /\ mail[l] \notin Callers
      BY <2>1, <2>6 DEF Launching!Advance, Launching!Results
    <3>3. CASE caller[l] = "waiting"
      BY <3>1, <3>2, <3>3
    <3>4. CASE caller[l] # "waiting"
      BY <2>1, <3>1, <3>2, <3>4
    <3> QED BY <3>3, <3>4
  <2> QED BY <2>2, <2>3, <2>4, <2>5, <2>6
<1>6. /\ caller' \in [Launches -> Callers]
      /\ \A n \in Launches \ {l} : caller'[n] = caller[n]
      /\ caller'[l] = c
  BY <1>5 DEF LaunchInv, Launching!TypeOK
<1>7. Launching!TypeOK'
  <2>1. connection' \in [Launches -> {"none", "pending", "closed"}]
    BY <1>2 DEF LaunchInv, Launching!TypeOK
  <2>2. faultsOfLaunches' \in 0..MaxFaults
    BY <1>1, Faulting
  <2> QED BY <1>1, <1>4, <1>6, <2>1, <2>2 DEF LaunchInv, Launching!TypeOK
<1>8. Launching!SlotsHeld'
  BY <1>1, SlotKept
<1>9. StandingAt(l)'
  <2>1. StandingAt(l)
    BY DEF LaunchInv, Standing
  <2>2. c \in {"error", "dropped"} => revoked'[l] \/ launcher[l] = "none"
    BY <1>4, <1>5, <2>1 DEF StandingAt
  <2>3. Told(c, mail[l], messages[l]) => Told(caller[l], mail[l], messages[l])
    BY <1>5 DEF Told
  <2> QED BY <1>1, <1>4, <1>5, <1>6, <2>1, <2>2, <2>3 DEF StandingAt
<1>10. NotLateAt(l) /\ Apart(l)
  BY <1>1, <1>4, <1>6 DEF NotLateAt, Apart
<1> QED BY <1>7, <1>8, <1>9, <1>10, Locally
\* The source takes a message, or answers and leaves the loop.
LEMMA SourceStep ==
  ASSUME LaunchInv, NEW l \in Launches, Launching!SourceFires(l)
  PROVE  LaunchInv' /\ NotLate
<1> DEFINE Took == /\ messages[l] # <<>>
                   /\ messages' = [messages EXCEPT ![l] = Tail(messages[l])]
                   /\ UNCHANGED <<mail, source, revoked>>
           Answered(r) == /\ r = "ok" => messages[l] # <<>> /\ Head(messages[l]) = "ok"
                          /\ Launching!Answer(l, r)
<1>1. UNCHANGED <<caller, connection, late, launcher, kind, child, slots, admissible,
                  sessionChanges, faultsOfLaunches>>
  BY DEF Launching!SourceFires, Launching!workerVars, Launching!worldVars
<1>2. messages[l] \in Seq(Words) /\ messages \in [Launches -> Seq(Words)]
  BY DEF LaunchInv, Launching!TypeOK, Words, Launching!Results
<1>3. /\ \/ Took \/ \E r \in Launching!Results : Answered(r)
      /\ command' = command \/ command' = [command EXCEPT ![l] = TRUE]
      /\ accepted' = accepted \/ accepted' = [accepted EXCEPT ![l] = TRUE]
      /\ display' = display \/ \E d \in {"none", "current"} : display' = [display EXCEPT ![l] = d]
  <2> USE DEF Launching!Taken
  <2>1. CASE Launching!Answer(l, "error") /\ UNCHANGED <<command, accepted, display>>
    <3>1. Answered("error") /\ "error" \in Launching!Results
      BY <2>1 DEF Launching!Results
    <3> QED BY <2>1, <3>1
  <2>2. CASE messages[l] # <<>> /\ Launching!Configure(l)
    <3>1. CASE Launching!Answer(l, "error") /\ UNCHANGED <<command, display>>
      BY <2>1, <2>2, <3>1 DEF Launching!Configure
    <3>2. CASE Launching!Taken(l)
      BY <2>1, <2>2, <3>2 DEF Launching!Configure
    <3> QED BY <2>2, <3>1, <3>2 DEF Launching!Configure
  <2>3. CASE messages[l] # <<>> /\ Launching!Admit(l)
    BY <2>1, <2>3 DEF Launching!Admit
  <2>4. CASE messages[l] # <<>> /\ Launching!Finished(l)
    <3>1. CASE Head(messages[l]) \in Launching!Results /\ Launching!Answer(l, Head(messages[l]))
      <4>1. Answered(Head(messages[l]))
        BY <2>4, <3>1
      <4> QED BY <2>4, <3>1, <4>1 DEF Launching!Finished
    <3>2. CASE Launching!Answer(l, "error")
      BY <2>1, <2>4, <3>2 DEF Launching!Finished
    <3> QED BY <2>4, <3>1, <3>2 DEF Launching!Finished
  <2> QED BY <2>1, <2>2, <2>3, <2>4 DEF Launching!SourceFires
<1>4. /\ command' \in [Launches -> BOOLEAN] /\ accepted' \in [Launches -> BOOLEAN]
      /\ display' \in [Launches -> {"none", "current", "stale"}]
  <2>1. /\ command \in [Launches -> BOOLEAN] /\ accepted \in [Launches -> BOOLEAN]
        /\ display \in [Launches -> {"none", "current", "stale"}]
    BY DEF LaunchInv, Launching!TypeOK
  <2> QED BY <1>3, <2>1
<1>5. /\ messages' \in [Launches -> Seq(Words)] /\ source' \in [Launches -> BOOLEAN]
      /\ mail' \in [Launches -> {"none"} \cup Launching!Results] /\ revoked' \in [Launches -> BOOLEAN]
      /\ \A n \in Launches \ {l} :
           messages'[n] = messages[n] /\ mail'[n] = mail[n] /\ revoked'[n] = revoked[n]
      /\ revoked[l] => revoked'[l]
      /\ mail'[l] # "none" => mail'[l] = mail[l] \/ revoked'[l]
      /\ Told(caller[l], mail'[l], messages'[l]) => Told(caller[l], mail[l], messages[l])
  <2>1. /\ source \in [Launches -> BOOLEAN] /\ revoked \in [Launches -> BOOLEAN]
        /\ mail \in [Launches -> {"none"} \cup Launching!Results]
    BY DEF LaunchInv, Launching!TypeOK
  <2>2. CASE Took
    <3>1. Tail(messages[l]) \in Seq(Words) /\ messages'[l] = Tail(messages[l])
      BY <1>2, <2>2, Telling
    <3>2. Told(caller[l], mail[l], Tail(messages[l])) => Told(caller[l], mail[l], messages[l])
      BY <1>2, <2>2, Telling
    <3> QED BY <1>2, <2>1, <2>2, <3>1, <3>2
  <2>3. ASSUME NEW r \in Launching!Results, Answered(r)
        PROVE  <1>5!1 /\ <1>5!2 /\ <1>5!3 /\ <1>5!4 /\ <1>5!5 /\ <1>5!6
    <3>1. /\ source' = [source EXCEPT ![l] = FALSE]
          /\ messages' = [messages EXCEPT ![l] = <<>>]
          /\ revoked' = [revoked EXCEPT ![l] = TRUE]
          /\ mail' = [mail EXCEPT ![l] = IF connection[l] = "pending" THEN r ELSE mail[l]]
      BY <2>3 DEF Launching!Answer
    <3>2. (IF connection[l] = "pending" THEN r ELSE mail[l]) \in {r, mail[l]}
      OBVIOUS
    <3>3. <<>> \in Seq(Words) /\ messages'[l] = <<>> /\ mail'[l] \in {r, mail[l]}
      BY <1>2, <2>1, <3>1, <3>2
    <3>4. mail'[l] = "ok" => mail[l] = "ok" \/ (messages[l] # <<>> /\ Head(messages[l]) = "ok")
      BY <2>3, <3>3
    <3>5. Told(caller[l], mail'[l], messages'[l]) => caller[l] = "ok" \/ mail'[l] = "ok"
      BY <1>2, <3>3, Telling
    <3>6. Told(caller[l], mail'[l], messages'[l]) => Told(caller[l], mail[l], messages[l])
      <4>1. messages[l] # <<>> /\ Head(messages[l]) = "ok" => Told(caller[l], mail[l], messages[l])
        BY <1>2, Telling
      <4> QED BY <3>4, <3>5, <4>1 DEF Told
    <3> HIDE DEF Answered
    <3> QED BY <1>2, <2>1, <3>1, <3>2, <3>3, <3>6
  <2> QED BY <1>3, <2>2, <2>3
<1>6. Launching!TypeOK'
  <2>1. messages' \in [Launches -> Seq({"prepared", "ready", "closed"} \cup Launching!Results)]
    BY <1>5 DEF Words
  <2> QED BY <1>1, <1>4, <1>5, <2>1 DEF LaunchInv, Launching!TypeOK
<1>7. Launching!SlotsHeld'
  BY <1>1, SlotKept
<1>8. StandingAt(l)'
  BY <1>1, <1>5 DEF StandingAt, LaunchInv, Standing
<1>9. NotLateAt(l) /\ Apart(l)
  BY <1>1, <1>5 DEF NotLateAt, Apart
<1> QED BY <1>6, <1>7, <1>8, <1>9, Locally

\* The world, and time.
LEMMA WorldSteps ==
  ASSUME LaunchInv,
         \/ Launching!Admissibility \/ Launching!DisplayChanges
         \/ \E l \in Launches : Launching!DeadlinePasses(l)
         \/ UNCHANGED Launching!vars
  PROVE  LaunchInv' /\ NotLate
<1>1. /\ UNCHANGED <<caller, connection, mail, source, messages, command, accepted, revoked,
                     launcher, kind, child, slots, faultsOfLaunches>>
      /\ late' = late \/ \E l \in Launches : late' = [late EXCEPT ![l] = TRUE]
      /\ admissible' = admissible \/ admissible' = ~admissible
      /\ \/ display' = display
         \/ display' = [l \in Launches |-> IF display[l] = "current" THEN "stale" ELSE display[l]]
      /\ \/ sessionChanges' = sessionChanges
         \/ sessionChanges < MaxSessionChanges /\ sessionChanges' = sessionChanges + 1
  <2> USE DEF Launching!loopVars, Launching!workerVars, Launching!worldVars
  <2>1. CASE Launching!Admissibility
    BY <2>1 DEF Launching!Admissibility
  <2>2. CASE Launching!DisplayChanges
    BY <2>2 DEF Launching!DisplayChanges
  <2>3. ASSUME NEW l \in Launches, Launching!DeadlinePasses(l)
        PROVE  <1>1!1 /\ <1>1!2 /\ <1>1!3 /\ <1>1!4 /\ <1>1!5
    BY <2>3 DEF Launching!DeadlinePasses
  <2>4. CASE UNCHANGED Launching!vars
    BY <2>4 DEF Launching!vars
  <2> QED BY <2>1, <2>2, <2>3, <2>4
<1>2. Launching!TypeOK'
  <2>1. late' \in [Launches -> BOOLEAN]
    BY <1>1 DEF LaunchInv, Launching!TypeOK
  <2>2. display' \in [Launches -> {"none", "current", "stale"}]
    <3>1. display \in [Launches -> {"none", "current", "stale"}]
      BY DEF LaunchInv, Launching!TypeOK
    <3> QED BY <1>1, <3>1
  <2>3. sessionChanges' \in 0..MaxSessionChanges
    <3>1. sessionChanges \in 0..MaxSessionChanges /\ MaxSessionChanges \in Nat
      BY LaunchAssumption DEF LaunchAssumption, LaunchInv, Launching!TypeOK
    <3>2. \/ sessionChanges' = sessionChanges
          \/ sessionChanges < MaxSessionChanges /\ sessionChanges' = sessionChanges + 1
      BY <1>1
    <3> HIDE <1>1
    <3> QED BY <3>1, <3>2
  <2>4. admissible' \in BOOLEAN
    BY <1>1 DEF LaunchInv, Launching!TypeOK
  <2> QED BY <1>1, <2>1, <2>2, <2>3, <2>4 DEF LaunchInv, Launching!TypeOK
<1>3. Launching!SlotsHeld'
  BY <1>1, SlotKept
<1>4. Standing' /\ NotLate
  BY <1>1 DEF LaunchInv, Standing, StandingAt, NotLate, NotLateAt
<1> QED BY <1>2, <1>3, <1>4 DEF LaunchInv

LEMMA LaunchSteps ==
  ASSUME LaunchInv, [Launching!Next]_(Launching!vars)
  PROVE  LaunchInv' /\ NotLate
BY WorkerSteps, ChildSteps, EndSteps, RequestSteps, CallerSteps, SourceStep, WorldSteps
   DEF Launching!Next, Launching!Onward

LEMMA LaunchStarts == Launching!Init => LaunchInv
<1> SUFFICES ASSUME Launching!Init PROVE LaunchInv
  OBVIOUS
<1>1. Holding = {} /\ slots = 0
  BY DEF Launching!Init, Holding
<1>2. Launching!SlotsHeld
  BY <1>1, HeldByThreads, FS_EmptySet
<1>3. Launching!TypeOK
  <2>1. 0 \in 0..MaxWorkers /\ 0 \in 0..MaxSessionChanges /\ 0 \in 0..MaxFaults
    BY LaunchAssumption DEF LaunchAssumption
  <2> QED BY <2>1 DEF Launching!Init, Launching!TypeOK, Launching!Early
<1>4. Standing
  BY DEF Launching!Init, Standing, StandingAt, Told, Begun
<1> QED BY <1>2, <1>3, <1>4 DEF LaunchInv

\* A place is held by one launch, and no more than there are; and success is told only of
\* what has been started, and by the helper, opened.
THEOREM LaunchesAreSound == Launching!Spec => []Launching!LaunchesSound
<1>1. LaunchInv => Launching!LaunchesSound
  BY DEF LaunchInv, Launching!LaunchesSound, Launching!SuccessTruthful, Standing, StandingAt, Told, Begun
<1>2. LaunchInv /\ [Launching!Next]_(Launching!vars) => LaunchInv'
  BY LaunchSteps
<1> QED
  BY <1>1, <1>2, LaunchStarts, PTL DEF Launching!Spec

\* Nothing is launched late: no worker starts the child of a caller that was refused or
\* dropped, nor passes the look at the socket once the caller has hung up.
THEOREM NothingLaunchedLate == Launching!Spec => RefusedNeverStarts
<1>1. LaunchInv /\ [Launching!Next]_(Launching!vars) => LaunchInv'
  BY LaunchSteps
<1>2. LaunchInv /\ [Launching!Next]_(Launching!vars) => [NotLate]_(Launching!vars)
  BY LaunchSteps
<1> QED
  BY <1>1, <1>2, LaunchStarts, PTL
     DEF Launching!Spec, RefusedNeverStarts, Launching!RefusedNeverStarts, NotLate, NotLateAt

-----------------------------------------------------------------------------
(***************************************************************************)
(* DeviceControls.  A token is valid only while the session lasts in which *)
(* its key was pressed, and the first guard of a job takes it, so a job    *)
(* for a key is accepted in that session or never.  Ids grow along the     *)
(* queue and the channel.                                                  *)
(***************************************************************************)
ControlledDevices == {"volume", "brightness"}
Valid(t) == t \in Controls!ToSet(tokens)

SoundRequest(r) ==
  /\ r \in Controls!Requests /\ r.id \in 1..nextId
  /\ r.key => r.token \in 1..sequence /\ (Valid(r.token) => r.born = locks)
  /\ ~r.key => r.token = 0 /\ r.value \in Controls!Levels
SoundPress(e) ==
  /\ e \in [device : ControlledDevices, step : {-1, 1}, token : Nat, born : Nat]
  /\ e.token \in 1..sequence /\ (Valid(e.token) => e.born = locks)
Unwritten == {"guard", "token", "write"}
SoundJob(j) ==
  /\ j \in Controls!Jobs /\ SoundRequest(j.request)
  /\ j.pc \in Unwritten => j.left # 0
  /\ j.token \in {0, j.request.token}
  /\ j.pc = "token" => j.token # 0
  /\ j.request.key /\ (j.pc = "write" \/ (j.pc = "guard" /\ j.token = 0)) => j.accepted
  /\ j.request.key /\ j.accepted => j.at = j.request.born
Updates ==
  [request : Controls!Requests, ok : BOOLEAN, active : BOOLEAN,
   reading : [ControlledDevices -> Controls!Levels]]
  \cup [request : {Controls!Nothing}, active : BOOLEAN,
        reading : [ControlledDevices -> Controls!Levels]]

Ordered(s) == \A i, j \in 1..Len(s) : i < j => s[i].id < s[j].id
Below(s, t) == \A i \in 1..Len(s), j \in 1..Len(t) : s[i].id < t[j].id
Line(q, c) ==
  /\ q \in Seq(Controls!Requests) /\ c \in Seq(Controls!Requests)
  /\ Len(q) <= MaxQueue /\ Len(c) <= MaxQueue
  /\ (\A i \in 1..Len(q) : SoundRequest(q[i])) /\ (\A i \in 1..Len(c) : SoundRequest(c[i]))
  /\ Ordered(q) /\ Ordered(c) /\ Below(q, c)

Covers(r, d, n) == r # Controls!Nothing /\ r.device = d /\ r.id >= n
Within(s, d, n) == \E i \in 1..Len(s) : Covers(s[i], d, n)

Seat == listening \in BOOLEAN /\ available \in BOOLEAN /\ (available => listening)
ControlTyped ==
  /\ Seat
  /\ tokens \in Seq(Nat \ {0}) /\ Len(tokens) <= MaxPending
  /\ nextId \in Nat /\ locks \in Nat /\ sequence \in Nat
  /\ spent \in [ControlledDevices -> [keys : Nat, sliders : Nat]]
  /\ unanswered \in [ControlledDevices -> Nat]
  /\ levels \in [ControlledDevices -> Controls!Levels]
  /\ level \in [ControlledDevices -> Controls!Levels]
  /\ osd \in ControlledDevices \cup {"none"}
  /\ polling \in {"idle", "read"} \X BOOLEAN
TokensIssued == \A i \in 1..Len(tokens) : tokens[i] <= sequence
PressesSound ==
  /\ presses \in Seq([device : ControlledDevices, step : {-1, 1}, token : Nat, born : Nat])
  /\ \A i \in 1..Len(presses) : SoundPress(presses[i])
LineSound == Line(queue, requests)
JobSound ==
  job # Controls!Nothing =>
    /\ SoundJob(job)
    /\ \A i \in 1..Len(queue) : job.request.id < queue[i].id
    /\ \A i \in 1..Len(requests) : job.request.id < requests[i].id
UpdatesSound == updates \in Seq(Updates)
Hides(d) ==
  unanswered[d] # 0 =>
    \/ job # Controls!Nothing /\ Covers(job.request, d, unanswered[d])
    \/ Within(queue, d, unanswered[d]) \/ Within(requests, d, unanswered[d])
    \/ \E i \in 1..Len(updates) : Covers(updates[i].request, d, unanswered[d])
HidingSound == \A d \in ControlledDevices : Hides(d)

ControlInv ==
  /\ ControlTyped /\ TokensIssued /\ PressesSound /\ LineSound /\ JobSound
  /\ UpdatesSound /\ HidingSound

-----------------------------------------------------------------------------
\* q with r at its end, in place of a last element of the same device or after it.
Extends(p, q, r) ==
  /\ Len(p) \in {Len(q), Len(q) + 1} /\ Len(p) # 0 /\ p[Len(p)] = r
  /\ \A i \in 1..Len(p) : i # Len(p) => i \in 1..Len(q) /\ p[i] = q[i]
  /\ Len(p) = Len(q) => q[Len(q)].device = r.device

LEMMA RequestsAreSome ==
  ASSUME NEW r \in Controls!Requests PROVE r # Controls!Nothing /\ r.id \in Nat
BY DEF Controls!Requests, Controls!Nothing

LEMMA Appended ==
  ASSUME NEW S, NEW q \in Seq(S), NEW r \in S
  PROVE  Append(q, r) \in Seq(S) /\ Len(Append(q, r)) = Len(q) + 1 /\ Extends(Append(q, r), q, r)
BY DEF Extends

LEMMA Coalesced ==
  ASSUME NEW q \in Seq(Controls!Requests), NEW r \in Controls!Requests
  PROVE  /\ Controls!Coalesce(q, r) \in Seq(Controls!Requests)
         /\ Extends(Controls!Coalesce(q, r), q, r)
<1>1. CASE q # <<>> /\ ~Controls!Last(q).key /\ ~r.key /\ Controls!Last(q).device = r.device
  <2>1. Len(q) \in Nat /\ Len(q) # 0 /\ Controls!Last(q) = q[Len(q)]
    BY <1>1 DEF Controls!Last
  <2>2. Controls!Front(q) \in Seq(Controls!Requests) /\ Len(Controls!Front(q)) = Len(q) - 1
        /\ \A i \in 1..(Len(q) - 1) : Controls!Front(q)[i] = q[i]
    <3>1. \A i \in 1..(Len(q) - 1) : q[i] \in Controls!Requests
      OBVIOUS
    <3>2. /\ SubSeq(q, 1, Len(q) - 1) \in Seq(Controls!Requests)
          /\ Len(SubSeq(q, 1, Len(q) - 1)) = IF 1 <= Len(q) - 1 THEN Len(q) - 1 - 1 + 1 ELSE 0
          /\ \A i \in 1..(Len(q) - 1 - 1 + 1) : SubSeq(q, 1, Len(q) - 1)[i] = q[1 + i - 1]
      BY <2>1, <3>1, SubSeqProperties
    <3>3. Controls!Front(q) = SubSeq(q, 1, Len(q) - 1)
      BY DEF Controls!Front
    <3>4. Len(SubSeq(q, 1, Len(q) - 1)) = Len(q) - 1
      <4>1. CASE Len(q) = 1
        BY <4>1, <3>2
      <4>2. CASE Len(q) # 1
        <5> \A n \in Nat : n # 0 /\ n # 1 => 1 <= n - 1 /\ n - 1 - 1 + 1 = n - 1
          OBVIOUS
        <5>1. 1 <= Len(q) - 1 /\ Len(q) - 1 - 1 + 1 = Len(q) - 1
          BY <2>1, <4>2
        <5> QED BY <5>1, <3>2
      <4> QED BY <4>1, <4>2
    <3>5. \A i \in 1..(Len(q) - 1) : 1 + i - 1 = i /\ i \in 1..(Len(q) - 1 - 1 + 1)
      BY <2>1
    <3>6. \A i \in 1..(Len(q) - 1) : SubSeq(q, 1, Len(q) - 1)[i] = q[i]
      BY <3>2, <3>5
    <3> QED BY <3>2, <3>3, <3>4, <3>6
  <2>3. Controls!Coalesce(q, r) = Append(Controls!Front(q), r)
    BY <1>1 DEF Controls!Coalesce
  <2> QED BY <1>1, <2>1, <2>2, <2>3 DEF Extends
<1>2. CASE ~(q # <<>> /\ ~Controls!Last(q).key /\ ~r.key /\ Controls!Last(q).device = r.device)
  <2>1. Controls!Coalesce(q, r) = Append(q, r)
    BY <1>2 DEF Controls!Coalesce
  <2> QED BY <2>1, Appended
<1> QED BY <1>1, <1>2

\* What is added to the end of a line.
LEMMA ExtendedLine ==
  ASSUME NEW S, \A x \in S : x.id \in Nat, NEW p \in Seq(S), NEW q \in Seq(S), NEW r \in S,
         Extends(p, q, r)
  PROVE  /\ Ordered(q) /\ (\A i \in 1..Len(q) : q[i].id < r.id) => Ordered(p)
         /\ \A c \in Seq(S) :
              Below(q, c) /\ (\A i \in 1..Len(c) : r.id < c[i].id) => Below(p, c)
         /\ \A c \in Seq(S) :
              Below(c, q) /\ (\A i \in 1..Len(c) : c[i].id < r.id) => Below(c, p)
<1>1. Len(p) \in Nat /\ Len(q) \in Nat /\ Len(p) # 0
  BY DEF Extends
<1>2. \A i \in 1..Len(p) : p[i] \in S
  OBVIOUS
<1>3. p[Len(p)] = r /\ \A i \in 1..Len(p) : i # Len(p) => i \in 1..Len(q) /\ p[i] = q[i]
  BY DEF Extends
<1>4. ASSUME Ordered(q), \A i \in 1..Len(q) : q[i].id < r.id
      PROVE  Ordered(p)
  <2> SUFFICES ASSUME NEW i \in 1..Len(p), NEW j \in 1..Len(p), i < j
               PROVE  p[i].id < p[j].id
    BY DEF Ordered
  <2>1. i # Len(p) /\ i \in 1..Len(q) /\ p[i] = q[i]
    BY <1>1, <1>3
  <2>2. CASE j = Len(p)
    BY <1>3, <1>4, <2>1, <2>2
  <2>3. CASE j # Len(p)
    <3>1. j \in 1..Len(q) /\ p[j] = q[j]
      BY <1>3, <2>3
    <3> QED BY <1>4, <2>1, <3>1 DEF Ordered
  <2> QED BY <2>2, <2>3
<1>5. ASSUME NEW c \in Seq(S), Below(q, c), \A i \in 1..Len(c) : r.id < c[i].id
      PROVE  Below(p, c)
  <2> SUFFICES ASSUME NEW i \in 1..Len(p), NEW j \in 1..Len(c)
               PROVE  p[i].id < c[j].id
    BY DEF Below
  <2>1. CASE i = Len(p)
    BY <1>3, <1>5, <2>1
  <2>2. CASE i # Len(p)
    <3>1. i \in 1..Len(q) /\ p[i] = q[i]
      BY <1>3, <2>2
    <3> QED BY <1>5, <3>1 DEF Below
  <2> QED BY <2>1, <2>2
<1>6. ASSUME NEW c \in Seq(S), Below(c, q), \A i \in 1..Len(c) : c[i].id < r.id
      PROVE  Below(c, p)
  <2> SUFFICES ASSUME NEW i \in 1..Len(c), NEW j \in 1..Len(p)
               PROVE  c[i].id < p[j].id
    BY DEF Below
  <2>1. CASE j = Len(p)
    BY <1>3, <1>6, <2>1
  <2>2. CASE j # Len(p)
    <3>1. j \in 1..Len(q) /\ p[j] = q[j]
      BY <1>3, <2>2
    <3> QED BY <1>6, <3>1 DEF Below
  <2> QED BY <2>1, <2>2
<1> QED BY <1>4, <1>5, <1>6

LEMMA ExtendedWithin ==
  ASSUME NEW q \in Seq(Controls!Requests), NEW r \in Controls!Requests,
         NEW p \in Seq(Controls!Requests), Extends(p, q, r),
         \A i \in 1..Len(q) : q[i].id < r.id,
         NEW d, NEW n \in Nat
  PROVE  /\ Covers(r, d, n) => Within(p, d, n)
         /\ Within(q, d, n) => Within(p, d, n)
<1>1. Len(p) \in Nat /\ Len(q) \in Nat /\ Len(p) # 0 /\ Len(p) \in 1..Len(p)
  BY DEF Extends
<1>2. p[Len(p)] = r /\ Len(p) \in {Len(q), Len(q) + 1}
  BY DEF Extends
<1>3. Covers(r, d, n) => Within(p, d, n)
  BY <1>1, <1>2 DEF Within
<1>4. ASSUME NEW i \in 1..Len(q), Covers(q[i], d, n)
      PROVE  Within(p, d, n)
  <2>1. q[i] \in Controls!Requests /\ q[i].id < r.id /\ q[i].id \in Nat /\ r.id \in Nat
        /\ r # Controls!Nothing
    BY RequestsAreSome
  <2>2. i \in 1..Len(p)
    BY <1>1, <1>2
  <2>3. CASE i # Len(p)
    <3>1. p[i] = q[i]
      BY <2>2, <2>3 DEF Extends
    <3> QED BY <3>1, <2>2, <1>4 DEF Within
  <2>4. CASE i = Len(p)
    <3>1. Len(p) = Len(q)
      BY <1>1, <1>2, <2>4
    <3>2. q[i].device = r.device
      BY <3>1, <2>4 DEF Extends
    <3>3. Covers(r, d, n)
      BY <2>1, <3>2, <1>4 DEF Covers
    <3> QED BY <3>3, <1>3
  <2> QED BY <2>3, <2>4
<1> QED BY <1>3, <1>4 DEF Within

LEMMA Shortened ==
  ASSUME NEW S, \A x \in S : x.id \in Nat, NEW q \in Seq(S), q # <<>>
  PROVE  /\ Head(q) \in S /\ Tail(q) \in Seq(S) /\ Len(Tail(q)) = Len(q) - 1
         /\ Head(q) = q[1] /\ 1 \in 1..Len(q)
         /\ \A i \in 1..Len(Tail(q)) : Tail(q)[i] = q[i + 1] /\ i + 1 \in 1..Len(q)
         /\ Ordered(q) => Ordered(Tail(q)) /\ \A i \in 1..Len(Tail(q)) : Head(q).id < Tail(q)[i].id
         /\ \A c \in Seq(S) : Below(q, c) => Below(Tail(q), c)
                                             /\ \A i \in 1..Len(c) : Head(q).id < c[i].id
         /\ \A c \in Seq(S) : Below(c, q) => Below(c, Tail(q))
                                             /\ \A i \in 1..Len(c) : c[i].id < Head(q).id
<1>1. /\ Head(q) \in S /\ Tail(q) \in Seq(S) /\ Len(Tail(q)) = Len(q) - 1
      /\ \A i \in 1..Len(Tail(q)) : Tail(q)[i] = q[i + 1]
  BY HeadTailProperties
<1>2. Head(q) = q[1] /\ Len(q) \in Nat /\ Len(q) # 0
  OBVIOUS
<1>3. 1 \in 1..Len(q) /\ \A i \in 1..Len(Tail(q)) : i + 1 \in 1..Len(q)
  BY <1>1, <1>2
<1>4. ASSUME Ordered(q)
      PROVE  Ordered(Tail(q)) /\ \A i \in 1..Len(Tail(q)) : Head(q).id < Tail(q)[i].id
  <2>1. ASSUME NEW i \in 1..Len(Tail(q)), NEW j \in 1..Len(Tail(q)), i < j
        PROVE  Tail(q)[i].id < Tail(q)[j].id
    <3>1. i + 1 \in 1..Len(q) /\ j + 1 \in 1..Len(q) /\ i + 1 < j + 1
      BY <1>3, <2>1
    <3> QED BY <1>1, <1>4, <3>1 DEF Ordered
  <2>2. ASSUME NEW i \in 1..Len(Tail(q))
        PROVE  Head(q).id < Tail(q)[i].id
    <3>1. i + 1 \in 1..Len(q) /\ 1 < i + 1
      BY <1>3
    <3> QED BY <1>1, <1>2, <1>3, <1>4, <3>1 DEF Ordered
  <2> QED BY <2>1, <2>2 DEF Ordered
<1>5. ASSUME NEW c \in Seq(S), Below(q, c)
      PROVE  Below(Tail(q), c) /\ \A i \in 1..Len(c) : Head(q).id < c[i].id
  BY <1>1, <1>2, <1>3, <1>5 DEF Below
<1>6. ASSUME NEW c \in Seq(S), Below(c, q)
      PROVE  Below(c, Tail(q)) /\ \A i \in 1..Len(c) : c[i].id < Head(q).id
  BY <1>1, <1>2, <1>3, <1>6 DEF Below
<1> QED BY <1>1, <1>2, <1>3, <1>4, <1>5, <1>6

LEMMA ShortenedWithin ==
  ASSUME NEW S, NEW q \in Seq(S), q # <<>>, NEW d, NEW n
  PROVE  Within(q, d, n) => Covers(Head(q), d, n) \/ Within(Tail(q), d, n)
<1>1. /\ Tail(q) \in Seq(S) /\ Len(Tail(q)) = Len(q) - 1 /\ Len(q) \in Nat
      /\ \A i \in 1..Len(Tail(q)) : Tail(q)[i] = q[i + 1]
      /\ Head(q) = q[1]
  BY HeadTailProperties
<1>2. ASSUME NEW i \in 1..Len(q), Covers(q[i], d, n), i # 1
      PROVE  Within(Tail(q), d, n)
  <2>1. i - 1 \in 1..Len(Tail(q)) /\ i - 1 + 1 = i
    BY <1>1, <1>2
  <2>2. Tail(q)[i - 1] = q[i]
    BY <1>1, <2>1
  <2> QED BY <2>1, <2>2, <1>2 DEF Within
<1> QED BY <1>1, <1>2 DEF Within

-----------------------------------------------------------------------------
\* The loop that fills the queue from the channel.
Lines == [queue : Seq(Controls!Requests), channel : Seq(Controls!Requests)]
Turned(s) ==
  IF Len(s.queue) < MaxQueue /\ s.channel # <<>>
  THEN [queue |-> Controls!Coalesce(s.queue, Head(s.channel)), channel |-> Tail(s.channel)]
  ELSE s

LEMMA TurnedTyped ==
  ASSUME NEW s \in Lines PROVE Turned(s) \in Lines
<1>1. s.queue \in Seq(Controls!Requests) /\ s.channel \in Seq(Controls!Requests)
  BY DEF Lines
<1>2. CASE Len(s.queue) < MaxQueue /\ s.channel # <<>>
  <2>1. Head(s.channel) \in Controls!Requests /\ Tail(s.channel) \in Seq(Controls!Requests)
    BY <1>1, <1>2
  <2>2. Controls!Coalesce(s.queue, Head(s.channel)) \in Seq(Controls!Requests)
    BY <1>1, <2>1, Coalesced
  <2> QED BY <1>2, <2>1, <2>2 DEF Turned, Lines
<1>3. CASE ~(Len(s.queue) < MaxQueue /\ s.channel # <<>>)
  BY <1>3 DEF Turned
<1> QED BY <1>2, <1>3

\* The recursion that defines After has a solution.
LEMMA AfterTurns ==
  ASSUME queue \in Seq(Controls!Requests), requests \in Seq(Controls!Requests)
  PROVE  /\ Controls!After[0] = [queue |-> queue, channel |-> requests]
         /\ \A i \in 1..Len(requests) : Controls!After[i] = Turned(Controls!After[i - 1])
<1> DEFINE N == Len(requests)
           base == [queue |-> queue, channel |-> requests]
           F == [p \in (1..N) \X Lines |-> Turned(p[2])]
<1>1. N \in Nat /\ base \in Lines
  BY DEF Lines
<1>2. F \in [(1..N) \X Lines -> Lines]
  BY TurnedTyped
<1>3. \E g \in [0..N -> Lines] : Iterates(g, F, base, N)
  <2> HIDE DEF F, N, base
  <2> QED BY <1>1, <1>2, Iteration
<1>4. PICK g \in [0..N -> Lines] : g[0] = base /\ \A i \in 1..N : g[i] = F[<<i, g[i-1]>>]
  BY <1>3 DEF Iterates
<1>5. \A i \in 1..N : g[i] = Turned(g[i-1])
  <2> SUFFICES ASSUME NEW i \in 1..N PROVE g[i] = Turned(g[i-1])
    OBVIOUS
  <2>1. g[i-1] \in Lines
    BY <1>1, <1>4
  <2>2. F[<<i, g[i-1]>>] = Turned(g[i-1])
    BY <2>1
  <2> QED BY <2>2, <1>4
<1> DEFINE Solves(f) == f = [i \in 0..N |-> IF i = 0 THEN base ELSE Turned(f[i-1])]
<1>6. Solves(g)
  <2> HIDE DEF Turned, base
  <2>1. \A i \in 0..N : g[i] = IF i = 0 THEN base ELSE Turned(g[i-1])
    <3> SUFFICES ASSUME NEW i \in 0..N PROVE g[i] = IF i = 0 THEN base ELSE Turned(g[i-1])
      OBVIOUS
    <3>1. CASE i = 0
      BY <1>4, <3>1
    <3>2. CASE i # 0
      <4>1. i \in 1..N
        BY <3>2, <1>1
      <4> QED BY <4>1, <3>2, <1>5
    <3> QED BY <3>1, <3>2
  <2> HIDE DEF N
  <2> QED BY <2>1, <1>4
<1>7. Controls!After = CHOOSE f : Solves(f)
  BY DEF Controls!After, Turned
<1>8. Solves(Controls!After)
  <2> HIDE DEF Solves
  <2> QED BY <1>6, <1>7
<1>9. ASSUME NEW f, Solves(f)
      PROVE  f[0] = base /\ \A i \in 1..N : f[i] = Turned(f[i - 1])
  <2> HIDE DEF base
  <2>1. 0 \in 0..N /\ f[0] = base
    BY <1>9, <1>1
  <2>2. ASSUME NEW i \in 1..N
        PROVE  f[i] = Turned(f[i - 1])
    <3>1. i \in 0..N /\ i # 0
      BY <1>1
    <3> HIDE DEF N
    <3> QED BY <3>1, <1>9
  <2> QED BY <2>1, <2>2
<1> HIDE DEF Solves
<1> QED BY <1>8, <1>9

\* What a turn keeps: the order, and that a value which hides the measured one is answered.
LEMMA TurnKeeps ==
  ASSUME NEW s \in Lines, Line(s.queue, s.channel), s.channel # <<>>, Len(s.queue) < MaxQueue
  PROVE  /\ Line(Turned(s).queue, Turned(s).channel)
         /\ Turned(s).queue # <<>> /\ Len(Turned(s).channel) = Len(s.channel) - 1
         /\ \A d \in ControlledDevices, n \in Nat :
              Within(s.queue, d, n) \/ Within(s.channel, d, n) =>
                Within(Turned(s).queue, d, n) \/ Within(Turned(s).channel, d, n)
<1> DEFINE q == s.queue
           c == s.channel
           r == Head(c)
           p == Controls!Coalesce(q, r)
           R == Controls!Requests
<1>0. \A x \in R : x.id \in Nat
  BY RequestsAreSome
<1>1. q \in Seq(R) /\ c \in Seq(R) /\ c # <<>>
  BY DEF Lines
<1>2. Turned(s).queue = p /\ Turned(s).channel = Tail(c)
  BY DEF Turned
<1>3. /\ r \in R /\ Tail(c) \in Seq(R) /\ Len(Tail(c)) = Len(c) - 1
      /\ r = c[1] /\ 1 \in 1..Len(c)
      /\ \A i \in 1..Len(Tail(c)) : Tail(c)[i] = c[i + 1] /\ i + 1 \in 1..Len(c)
      /\ Ordered(c) => Ordered(Tail(c)) /\ \A i \in 1..Len(Tail(c)) : r.id < Tail(c)[i].id
      /\ Below(q, c) => Below(q, Tail(c)) /\ \A i \in 1..Len(q) : q[i].id < r.id
  <2> HIDE DEF q, c, R
  <2> QED BY <1>0, <1>1, Shortened
<1>4. p \in Seq(R) /\ Extends(p, q, r)
  BY <1>1, <1>3, Coalesced
<1>5. Len(p) \in {Len(q), Len(q) + 1} /\ Len(p) # 0 /\ Len(q) \in Nat /\ Len(c) \in Nat /\ Len(p) \in Nat
  BY <1>1, <1>4 DEF Extends
<1>6. /\ Ordered(q) /\ Ordered(c) /\ Below(q, c) /\ Len(q) <= MaxQueue /\ Len(c) <= MaxQueue
      /\ (\A i \in 1..Len(q) : SoundRequest(q[i])) /\ (\A i \in 1..Len(c) : SoundRequest(c[i]))
  BY DEF Line
<1>7. Ordered(p) /\ Below(p, Tail(c)) /\ Ordered(Tail(c))
  <2> HIDE DEF q, c, R, p, r
  <2>1. \A i \in 1..Len(q) : q[i].id < r.id
    BY <1>3, <1>6
  <2>2. Below(q, Tail(c)) /\ \A i \in 1..Len(Tail(c)) : r.id < Tail(c)[i].id
    BY <1>3, <1>6
  <2> QED BY <1>0, <1>1, <1>3, <1>4, <1>6, <2>1, <2>2, ExtendedLine
<1>8. \A i \in 1..Len(p) : SoundRequest(p[i])
  <2> HIDE DEF q, c, R, p, r
  <2> SUFFICES ASSUME NEW i \in 1..Len(p) PROVE SoundRequest(p[i])
    OBVIOUS
  <2>1. CASE i = Len(p)
    BY <2>1, <1>4, <1>3, <1>6 DEF Extends
  <2>2. CASE i # Len(p)
    BY <2>2, <1>4, <1>6 DEF Extends
  <2> QED BY <2>1, <2>2
<1>9. \A i \in 1..Len(Tail(c)) : SoundRequest(Tail(c)[i])
  <2> HIDE DEF q, c, R, p, r
  <2> QED BY <1>3, <1>6
<1>10. Len(p) <= MaxQueue /\ Len(Tail(c)) <= MaxQueue /\ p # <<>>
  <2> HIDE DEF c, R, p, r
  <2> QED BY <1>3, <1>4, <1>5, <1>6, ControlAssumption DEF ControlAssumption
<1>11. Line(p, Tail(c))
  BY <1>3, <1>4, <1>7, <1>8, <1>9, <1>10 DEF Line
<1>12. ASSUME NEW d \in ControlledDevices, NEW n \in Nat, Within(q, d, n) \/ Within(c, d, n)
       PROVE  Within(p, d, n) \/ Within(Tail(c), d, n)
  <2> HIDE DEF q, c, p, r
  <2>1. \A i \in 1..Len(q) : q[i].id < r.id
    BY <1>3, <1>6
  <2>2. CASE Within(q, d, n)
    BY <2>1, <2>2, <1>1, <1>3, <1>4, ExtendedWithin
  <2>3. CASE Within(c, d, n)
    <3>1. Covers(r, d, n) \/ Within(Tail(c), d, n)
      BY <2>3, <1>1, ShortenedWithin DEF r
    <3> QED BY <2>1, <3>1, <1>1, <1>3, <1>4, ExtendedWithin
  <2> QED BY <2>2, <2>3, <1>12
<1> HIDE DEF p, r
<1> QED BY <1>2, <1>3, <1>10, <1>11, <1>12

LEMMA DrainedSound ==
  ASSUME Line(queue, requests)
  PROVE  /\ Line(Controls!Drained.queue, Controls!Drained.channel)
         /\ queue # <<>> \/ requests # <<>> => Controls!Drained.queue # <<>>
         /\ \A d \in ControlledDevices, n \in Nat :
              Within(queue, d, n) \/ Within(requests, d, n) =>
                Within(Controls!Drained.queue, d, n) \/ Within(Controls!Drained.channel, d, n)
<1> DEFINE N == Len(requests)
           A == Controls!After
           Kept(s) == \A d \in ControlledDevices, n \in Nat :
                        Within(queue, d, n) \/ Within(requests, d, n) =>
                          Within(s.queue, d, n) \/ Within(s.channel, d, n)
           P(k, s) == /\ s \in Lines /\ Line(s.queue, s.channel)
                      /\ queue # <<>> \/ k # 0 => s.queue # <<>>
                      /\ Kept(s)
           T == {k \in Nat : k <= N => P(k, A[k])}
<1>1. queue \in Seq(Controls!Requests) /\ requests \in Seq(Controls!Requests) /\ N \in Nat
  BY DEF Line
<1>2. A[0] = [queue |-> queue, channel |-> requests] /\ \A i \in 1..N : A[i] = Turned(A[i - 1])
  BY <1>1, AfterTurns
<1>3. 0 \in T
  <2>1. A[0].queue = queue /\ A[0].channel = requests
    BY <1>2
  <2>2. A[0] \in Lines
    BY <1>1, <1>2 DEF Lines
  <2> QED BY <2>1, <2>2
<1>4. ASSUME NEW k \in Nat, k \in T
      PROVE  k + 1 \in T
  <2> SUFFICES ASSUME k + 1 <= N PROVE P(k + 1, A[k + 1])
    OBVIOUS
  <2>1. k <= N /\ k + 1 \in 1..N /\ k + 1 - 1 = k
    BY <1>1
  <2>2. P(k, A[k])
    BY <2>1, <1>4
  <2>3. A[k + 1] = Turned(A[k])
    BY <2>1, <1>2
  <2> DEFINE s == A[k]
             t == Turned(s)
  <2>4. s \in Lines /\ Line(s.queue, s.channel) /\ (queue # <<>> \/ k # 0 => s.queue # <<>>) /\ Kept(s)
    BY <2>2
  <2>5. P(k + 1, t)
    <3> HIDE DEF s, A, Kept
    <3>1. t \in Lines
      BY <2>4, TurnedTyped
    <3>2. CASE s.channel # <<>> /\ Len(s.queue) < MaxQueue
      <4>1. /\ Line(t.queue, t.channel) /\ t.queue # <<>>
            /\ \A d \in ControlledDevices, n \in Nat :
                 Within(s.queue, d, n) \/ Within(s.channel, d, n) =>
                   Within(t.queue, d, n) \/ Within(t.channel, d, n)
        BY <2>4, <3>2, TurnKeeps
      <4> HIDE DEF t
      <4>2. Kept(t)
        BY <2>4, <4>1 DEF Kept
      <4> QED BY <3>1, <4>1, <4>2
    <3>3. CASE ~(Len(s.queue) < MaxQueue)
      <4>1. t = s
        BY <3>3 DEF Turned
      <4>2. s.queue \in Seq(Controls!Requests)
        BY <2>4 DEF Lines
      <4>3. s.queue # <<>>
        BY <3>3, <4>2, ControlAssumption DEF ControlAssumption
      <4> QED BY <4>1, <4>3, <2>4
    <3>4. CASE s.channel = <<>> /\ Len(s.queue) < MaxQueue
      <4>1. t = s
        BY <3>4 DEF Turned
      <4>2. s.queue # <<>>
        <5>1. CASE k = 0
          <6>1. s.channel = requests
            BY <5>1, <1>2 DEF s, A
          <6> QED BY <6>1, <3>4, <2>1, <5>1
        <5>2. CASE k # 0
          BY <5>2, <2>4
        <5> QED BY <5>1, <5>2
      <4> QED BY <4>1, <4>2, <2>4
    <3> QED BY <3>2, <3>3, <3>4
  <2> QED BY <2>3, <2>5
<1>5. Nat \subseteq T
  <2> HIDE DEF T
  <2> QED BY <1>3, <1>4, Induction
<1>6. P(N, A[N])
  <2> HIDE DEF P
  <2> QED BY <1>5, <1>1
<1>7. Controls!Drained = A[N]
  BY DEF Controls!Drained
<1>8. requests # <<>> => N # 0
  BY <1>1
<1> QED BY <1>6, <1>7, <1>8

\* What the invariant says.
LEMMA ToSetIs ==
  ASSUME NEW S, NEW s \in Seq(S)
  PROVE  /\ \A x : x \in Controls!ToSet(s) <=> \E i \in 1..Len(s) : s[i] = x
BY DEF Controls!ToSet

LEMMA Chained ==
  ASSUME NEW S, \A x \in S : x.id \in Nat, NEW s \in Seq(S), NEW t \in Seq(S),
         Ordered(s), Ordered(t), Below(s, t)
  PROVE  /\ s \o t \in Seq(S) /\ Ordered(s \o t)
         /\ \A u \in Seq(S) : Below(s, u) /\ Below(t, u) => Below(s \o t, u)
<1>1. /\ s \o t \in Seq(S) /\ Len(s \o t) = Len(s) + Len(t)
      /\ Len(s) \in Nat /\ Len(t) \in Nat
      /\ \A i \in 1..(Len(s) + Len(t)) : (s \o t)[i] = IF i <= Len(s) THEN s[i] ELSE t[i - Len(s)]
  OBVIOUS
<1> DEFINE c == s \o t
<1> HIDE DEF c
<1>2. \A i \in 1..Len(c) : \/ (i \in 1..Len(s) /\ c[i] = s[i])
                            \/ (i - Len(s) \in 1..Len(t) /\ c[i] = t[i - Len(s)] /\ i > Len(s))
  <2> SUFFICES ASSUME NEW i \in 1..Len(c)
               PROVE  \/ (i \in 1..Len(s) /\ c[i] = s[i])
                      \/ (i - Len(s) \in 1..Len(t) /\ c[i] = t[i - Len(s)] /\ i > Len(s))
    OBVIOUS
  <2>1. i \in 1..(Len(s) + Len(t)) /\ c[i] = IF i <= Len(s) THEN s[i] ELSE t[i - Len(s)]
    BY <1>1 DEF c
  <2>2. CASE i <= Len(s)
    BY <1>1, <2>1, <2>2
  <2>3. CASE ~(i <= Len(s))
    <3>1. i > Len(s) /\ i - Len(s) \in 1..Len(t)
      BY <1>1, <2>1, <2>3
    <3> QED BY <2>1, <2>3, <3>1
  <2> QED BY <2>2, <2>3
<1>3. Ordered(c)
  <2> SUFFICES ASSUME NEW i \in 1..Len(c), NEW j \in 1..Len(c), i < j
               PROVE  c[i].id < c[j].id
    BY DEF Ordered
  <2>1. CASE i \in 1..Len(s) /\ j \in 1..Len(s)
    <3>1. c[i] = s[i] /\ c[j] = s[j]
      BY <1>1, <1>2, <2>1
    <3> QED BY <3>1, <2>1 DEF Ordered
  <2>2. CASE i \in 1..Len(s) /\ j \notin 1..Len(s)
    <3>1. c[i] = s[i] /\ c[j] = t[j - Len(s)] /\ j - Len(s) \in 1..Len(t)
      BY <1>1, <1>2, <2>2
    <3> QED BY <3>1, <2>2 DEF Below
  <2>3. CASE i \notin 1..Len(s)
    <3>1. c[i] = t[i - Len(s)] /\ i - Len(s) \in 1..Len(t) /\ i > Len(s)
      BY <1>2, <2>3
    <3>2. j \notin 1..Len(s)
      BY <3>1, <1>1
    <3>3. c[j] = t[j - Len(s)] /\ j - Len(s) \in 1..Len(t) /\ i - Len(s) < j - Len(s)
      BY <3>2, <1>2, <1>1
    <3> QED BY <3>1, <3>3 DEF Ordered
  <2> QED BY <2>1, <2>2, <2>3
<1>4. ASSUME NEW u \in Seq(S), Below(s, u), Below(t, u)
      PROVE  Below(c, u)
  <2> SUFFICES ASSUME NEW i \in 1..Len(c), NEW j \in 1..Len(u)
               PROVE  c[i].id < u[j].id
    BY DEF Below
  <2> QED BY <1>2, <1>4 DEF Below
<1> QED BY <1>1, <1>3, <1>4 DEF c

LEMMA ControlsInOrder ==
  ASSUME LineSound, JobSound PROVE Controls!InOrder
<1> DEFINE R == Controls!Requests
           first == IF job = Controls!Nothing THEN <<>> ELSE <<job.request>>
<1>0. \A x \in R : x.id \in Nat
  BY RequestsAreSome
<1>1. /\ queue \in Seq(R) /\ requests \in Seq(R)
      /\ Ordered(queue) /\ Ordered(requests) /\ Below(queue, requests)
  BY DEF LineSound, Line
<1>2. first \in Seq(R) /\ Ordered(first) /\ Below(first, queue) /\ Below(first, requests)
  <2>1. CASE job = Controls!Nothing
    BY <2>1 DEF Ordered, Below
  <2>2. CASE job # Controls!Nothing
    <3>1. /\ job.request \in R
          /\ \A i \in 1..Len(queue) : job.request.id < queue[i].id
          /\ \A i \in 1..Len(requests) : job.request.id < requests[i].id
      BY <2>2 DEF JobSound, SoundJob, SoundRequest
    <3>2. first = <<job.request>>
      BY <2>2
    <3>3. first \in Seq(R) /\ Len(first) = 1 /\ first[1] = job.request
      BY <3>1, <3>2
    <3> HIDE DEF first
    <3>4. Ordered(first)
      BY <3>3 DEF Ordered
    <3> QED BY <3>1, <3>3, <3>4 DEF Below
  <2> QED BY <2>1, <2>2
<1> HIDE DEF first
<1>3. first \o queue \in Seq(R) /\ Ordered(first \o queue) /\ Below(first \o queue, requests)
  BY <1>0, <1>1, <1>2, Chained
<1>4. (first \o queue) \o requests \in Seq(R) /\ Ordered((first \o queue) \o requests)
  BY <1>0, <1>1, <1>3, Chained
<1> DEFINE all == (first \o queue) \o requests
<1>5. \A i, j \in DOMAIN all : i < j => all[i].id < all[j].id
  <2> HIDE DEF all
  <2> QED BY <1>4 DEF Ordered, all
<1>6. Controls!InOrder = \A i, j \in DOMAIN all : i < j => all[i].id < all[j].id
  BY DEF Controls!InOrder, first
<1> QED BY <1>5, <1>6

LEMMA ControlsCovered ==
  ASSUME ControlTyped, LineSound, UpdatesSound, HidingSound PROVE Controls!PendingCovered
<1> SUFFICES ASSUME NEW d \in ControlledDevices, unanswered[d] # 0
             PROVE  \/ job # Controls!Nothing /\ Covers(job.request, d, unanswered[d])
                    \/ \E r \in Controls!ToSet(queue) \cup Controls!ToSet(requests) :
                         Covers(r, d, unanswered[d])
                    \/ \E u \in Controls!ToSet(updates) : Covers(u.request, d, unanswered[d])
  BY DEF Controls!PendingCovered, Covers, ControlledDevices, Controls!None
<1>1. Hides(d)
  BY DEF HidingSound
<1>2. CASE Within(queue, d, unanswered[d])
  BY <1>2, ToSetIs DEF Within, LineSound, Line
<1>3. CASE Within(requests, d, unanswered[d])
  BY <1>3, ToSetIs DEF Within, LineSound, Line
<1>4. CASE \E i \in 1..Len(updates) : Covers(updates[i].request, d, unanswered[d])
  BY <1>4, ToSetIs DEF UpdatesSound
<1> QED BY <1>1, <1>2, <1>3, <1>4 DEF Hides

LEMMA ControlIsSound ==
  ASSUME ControlInv PROVE Controls!TypeOK /\ Controls!ControlsSound
<1> USE DEF ControlInv
<1>1. Controls!TypeOK
  <2>1. job \in Controls!Jobs \cup {Controls!Nothing}
    BY DEF JobSound, SoundJob
  <2>2. \A i \in DOMAIN updates :
          updates[i].request \in Controls!Requests \cup {Controls!Nothing} /\ updates[i].active \in BOOLEAN
    <3>1. ASSUME NEW u \in Updates
          PROVE  u.request \in Controls!Requests \cup {Controls!Nothing} /\ u.active \in BOOLEAN
      BY DEF Updates
    <3>2. \A i \in DOMAIN updates : updates[i] \in Updates
      BY DEF UpdatesSound
    <3> QED BY <3>1, <3>2
  <2>3. /\ queue \in Seq(Controls!Requests) /\ requests \in Seq(Controls!Requests)
        /\ Len(requests) <= MaxQueue /\ Len(queue) <= MaxQueue + 1
    BY ControlAssumption DEF ControlAssumption, LineSound, Line
  <2>4. presses \in Seq([device : {"volume", "brightness"}, step : {-1, 1}, token : Nat, born : Nat])
    BY DEF PressesSound, ControlledDevices
  <2>5. ControlTyped
    OBVIOUS
  <2> HIDE DEF ControlInv
  <2> QED BY <2>1, <2>2, <2>3, <2>4, <2>5
          DEF ControlTyped, Seat, Controls!TypeOK, ControlledDevices, Controls!NoToken
<1>2. Controls!KeysOfThisSession
  BY DEF Controls!KeysOfThisSession, JobSound, SoundJob
<1>3. Controls!InOrder
  BY ControlsInOrder
<1>4. Controls!PendingCovered
  BY ControlsCovered
<1> QED BY <1>1, <1>2, <1>3, <1>4 DEF Controls!ControlsSound

LEMMA ControlStarts ==
  ASSUME Controls!Init PROVE ControlInv
<1> USE DEF Controls!Init
<1>1. ControlTyped
  <2>1. 0 \in Controls!Levels
    BY ControlAssumption DEF ControlAssumption, Controls!Levels
  <2>2. unanswered \in [ControlledDevices -> Nat] /\ unanswered = [d \in ControlledDevices |-> 0]
    BY DEF ControlledDevices, Controls!None
  <2>3. levels \in [ControlledDevices -> Controls!Levels] /\ level \in [ControlledDevices -> Controls!Levels]
    BY <2>1 DEF ControlledDevices
  <2>4. spent \in [ControlledDevices -> [keys : Nat, sliders : Nat]]
    BY DEF ControlledDevices
  <2>5. Len(tokens) <= MaxPending /\ tokens \in Seq(Nat \ {0})
    BY ControlAssumption DEF ControlAssumption
  <2> QED BY <2>2, <2>3, <2>4, <2>5 DEF ControlTyped, Seat, Controls!NoToken
<1>2. TokensIssued /\ PressesSound /\ UpdatesSound
  BY DEF TokensIssued, PressesSound, UpdatesSound
<1>3. LineSound
  BY ControlAssumption DEF ControlAssumption, LineSound, Line, Ordered, Below
<1>4. JobSound /\ HidingSound
  BY DEF JobSound, HidingSound, Hides, ControlledDevices, Controls!None
<1> QED BY <1>1, <1>2, <1>3, <1>4 DEF ControlInv

\* Tokens are issued in their order, and none becomes valid again.
TokensOnlyGo ==
  /\ nextId \in Nat /\ nextId' \in Nat /\ nextId <= nextId'
  /\ sequence \in Nat /\ sequence' \in Nat /\ sequence <= sequence'
  /\ \A t \in 1..sequence : Valid(t)' => Valid(t) /\ locks' = locks

LEMMA StillSound ==
  ASSUME TokensOnlyGo
  PROVE  /\ \A r : SoundRequest(r) => SoundRequest(r)'
         /\ \A e : SoundPress(e) => SoundPress(e)'
         /\ \A j : SoundJob(j) => SoundJob(j)'
<1>1. ASSUME NEW r, SoundRequest(r)
      PROVE  SoundRequest(r)'
  <2>1. r \in Controls!Requests /\ r.id \in 1..nextId /\ r.id \in 1..nextId'
    BY <1>1 DEF SoundRequest, TokensOnlyGo
  <2>2. r.key => r.token \in 1..sequence' /\ (Valid(r.token)' => r.born = locks')
    BY <1>1 DEF SoundRequest, TokensOnlyGo
  <2> QED BY <1>1, <2>1, <2>2 DEF SoundRequest
<1>2. ASSUME NEW e, SoundPress(e)
      PROVE  SoundPress(e)'
  BY <1>2 DEF SoundPress, TokensOnlyGo
<1>3. ASSUME NEW j, SoundJob(j)
      PROVE  SoundJob(j)'
  BY <1>1, <1>3 DEF SoundJob
<1> QED BY <1>1, <1>2, <1>3

LEMMA LineStays ==
  ASSUME LineSound, TokensOnlyGo, queue' = queue, requests' = requests PROVE LineSound'
BY StillSound DEF LineSound, Line, Ordered, Below

LEMMA JobStays ==
  ASSUME JobSound, TokensOnlyGo, queue' = queue, requests' = requests, job' = job PROVE JobSound'
BY StillSound DEF JobSound

LEMMA PressesStay ==
  ASSUME PressesSound, TokensOnlyGo, presses' = presses PROVE PressesSound'
BY StillSound DEF PressesSound

LEMMA HidingStays ==
  ASSUME HidingSound, unanswered' = unanswered, queue' = queue, requests' = requests,
         job' = job, updates' = updates
  PROVE  HidingSound'
BY DEF HidingSound, Hides, Within, Covers

LEMMA TokensStay ==
  ASSUME tokens' = tokens, locks' = locks, sequence' = sequence, nextId' = nextId, ControlTyped
  PROVE  TokensOnlyGo
BY DEF TokensOnlyGo, Valid, ControlTyped, Seat

LEMMA KeyPressedSound ==
  ASSUME ControlInv, NEW d \in ControlledDevices, NEW s \in {-1, 1}, Controls!KeyPressed(d, s)
  PROVE  ControlInv'
<1> DEFINE T == IF Len(tokens) = MaxPending THEN Tail(tokens) ELSE tokens
           e == [device |-> d, step |-> s, token |-> sequence + 1, born |-> locks]
<1>1. /\ sequence' = sequence + 1
      /\ tokens' = IF ~available THEN <<>> ELSE Append(T, sequence + 1)
      /\ presses' = Append(presses, e)
      /\ spent' = [spent EXCEPT ![d].keys = @ + 1]
      /\ UNCHANGED <<listening, available, nextId, unanswered, levels, osd, requests, queue, job, polling,
                     updates, level, locks>>
  BY DEF Controls!KeyPressed, Controls!interface, Controls!work
<1>2. ControlTyped /\ TokensIssued /\ PressesSound /\ LineSound /\ JobSound /\ UpdatesSound /\ HidingSound
  BY DEF ControlInv
<1>3. tokens \in Seq(Nat \ {0}) /\ Len(tokens) <= MaxPending /\ sequence \in Nat /\ nextId \in Nat /\ locks \in Nat
  BY <1>2 DEF ControlTyped, Seat
<1>4. /\ T \in Seq(Nat \ {0}) /\ Len(T) < MaxPending /\ Len(T) \in Nat
      /\ \A i \in 1..Len(T) : \E k \in 1..Len(tokens) : T[i] = tokens[k]
  <2>1. CASE Len(tokens) = MaxPending
    <3>1. tokens # <<>>
      BY <2>1, ControlAssumption DEF ControlAssumption
    <3>2. /\ Tail(tokens) \in Seq(Nat \ {0}) /\ Len(Tail(tokens)) = Len(tokens) - 1
          /\ \A i \in 1..Len(Tail(tokens)) : Tail(tokens)[i] = tokens[i + 1] /\ i + 1 \in 1..Len(tokens)
      BY <1>3, <3>1, HeadTailProperties
    <3>3. T = Tail(tokens) /\ Len(tokens) \in Nat
      BY <2>1, <1>3
    <3>4. Len(T) < MaxPending /\ Len(T) \in Nat
      BY <3>2, <3>3, <2>1
    <3> HIDE DEF T
    <3>5. \A i \in 1..Len(T) : \E k \in 1..Len(tokens) : T[i] = tokens[k]
      BY <3>2, <3>3
    <3> QED BY <3>2, <3>3, <3>4, <3>5
  <2>2. CASE Len(tokens) # MaxPending
    <3>1. T = tokens /\ Len(tokens) \in Nat
      BY <2>2, <1>3
    <3>2. Len(T) < MaxPending /\ Len(T) \in Nat
      BY <2>2, <3>1, <1>3, ControlAssumption DEF ControlAssumption
    <3> HIDE DEF T
    <3> QED BY <3>1, <3>2, <1>3
  <2> QED BY <2>1, <2>2
<1> HIDE DEF T
<1>5. /\ tokens' \in Seq(Nat \ {0}) /\ Len(tokens') <= MaxPending
      /\ \A i \in 1..Len(tokens') : tokens'[i] = sequence + 1
                                    \/ (i \in 1..Len(T) /\ tokens'[i] = T[i])
  <2>1. sequence + 1 \in Nat \ {0}
    BY <1>3
  <2>2. CASE available
    <3>1. /\ tokens' \in Seq(Nat \ {0}) /\ Len(tokens') <= MaxPending /\ Len(tokens') = Len(T) + 1
          /\ \A i \in 1..Len(tokens') : IF i = Len(T) + 1 THEN tokens'[i] = sequence + 1
                                        ELSE i \in 1..Len(T) /\ tokens'[i] = T[i]
      BY <1>1, <1>3, <1>4, <2>1, <2>2, ControlAssumption DEF ControlAssumption
    <3> QED BY <3>1
  <2>3. CASE ~available
    <3>1. tokens' = <<>>
      BY <1>1, <2>3
    <3> QED BY <3>1, ControlAssumption DEF ControlAssumption
  <2> QED BY <2>2, <2>3
<1>6. \A i \in 1..Len(tokens') : tokens'[i] = sequence + 1 \/ \E k \in 1..Len(tokens) : tokens'[i] = tokens[k]
  BY <1>4, <1>5
<1>7. \A t : Valid(t)' => t = sequence + 1 \/ Valid(t)
  <2> SUFFICES ASSUME NEW t, Valid(t)' PROVE t = sequence + 1 \/ Valid(t)
    OBVIOUS
  <2>1. PICK i \in 1..Len(tokens') : tokens'[i] = t
    BY <1>5, ToSetIs DEF Valid
  <2> QED BY <2>1, <1>3, <1>6, ToSetIs DEF Valid
<1>8. TokensOnlyGo
  <2>1. \A t \in 1..sequence : t # sequence + 1
    BY <1>3
  <2> QED BY <1>1, <1>3, <1>7, <2>1 DEF TokensOnlyGo
<1>9. ControlTyped'
  <2>1. spent' \in [ControlledDevices -> [keys : Nat, sliders : Nat]]
    <3>1. spent \in [ControlledDevices -> [keys : Nat, sliders : Nat]]
      BY <1>2 DEF ControlTyped, Seat
    <3>2. spent' = [spent EXCEPT ![d] = [spent[d] EXCEPT !.keys = spent[d].keys + 1]]
      BY <1>1
    <3>3. [spent[d] EXCEPT !.keys = spent[d].keys + 1] \in [keys : Nat, sliders : Nat]
      BY <3>1
    <3> QED BY <3>1, <3>2, <3>3
  <2>2. sequence' \in Nat
    BY <1>1, <1>3
  <2> QED BY <1>1, <1>2, <1>5, <2>1, <2>2 DEF ControlTyped, Seat
<1>10. TokensIssued'
  <2> SUFFICES ASSUME NEW i \in 1..Len(tokens') PROVE tokens'[i] <= sequence'
    BY DEF TokensIssued
  <2>1. CASE tokens'[i] = sequence + 1
    BY <2>1, <1>1, <1>3
  <2>2. ASSUME NEW k \in 1..Len(tokens), tokens'[i] = tokens[k]
        PROVE  tokens'[i] <= sequence'
    <3>1. tokens[k] \in Nat /\ tokens[k] <= sequence
      BY <1>2, <1>3 DEF TokensIssued
    <3> QED BY <2>2, <3>1, <1>1, <1>3
  <2> QED BY <1>6, <2>1, <2>2
<1>11. PressesSound'
  <2>1. PICK x : x = e
    OBVIOUS
  <2>2. x \in [device : ControlledDevices, step : {-1, 1}, token : Nat, born : Nat]
        /\ x.token = sequence' /\ x.born = locks' /\ sequence' \in 1..sequence'
    BY <1>1, <1>3, <2>1
  <2>3. SoundPress(x)'
    BY <2>2 DEF SoundPress
  <2> HIDE DEF e
  <2>4. /\ presses' \in Seq([device : ControlledDevices, step : {-1, 1}, token : Nat, born : Nat])
        /\ \A i \in 1..Len(presses') : presses'[i] = x \/ (i \in 1..Len(presses) /\ presses'[i] = presses[i])
    BY <1>1, <1>2, <2>1, <2>2 DEF PressesSound
  <2>5. ASSUME NEW i \in 1..Len(presses')
        PROVE  SoundPress(presses[i])'
    <3>1. CASE presses'[i] = x
      BY <2>3, <3>1 DEF SoundPress
    <3>2. CASE i \in 1..Len(presses) /\ presses'[i] = presses[i]
      <4>1. PICK y : y = presses[i]
        OBVIOUS
      <4>2. SoundPress(y)
        BY <3>2, <4>1, <1>2 DEF PressesSound
      <4>3. SoundPress(y)'
        BY <4>2, <1>8, StillSound
      <4> QED BY <3>2, <4>1, <4>3 DEF SoundPress
    <3> QED BY <3>1, <3>2, <2>4
  <2> QED BY <2>4, <2>5 DEF PressesSound
<1>12. UpdatesSound'
  BY <1>1, <1>2 DEF UpdatesSound
<1>13. LineSound' /\ JobSound' /\ HidingSound'
  BY <1>1, <1>2, <1>8, LineStays, JobStays, HidingStays
<1> QED BY <1>9, <1>10, <1>11, <1>12, <1>13 DEF ControlInv

LEMMA LocksSound ==
  ASSUME ControlInv, Controls!Locks \/ Controls!Recovers PROVE ControlInv'
<1>1. /\ tokens' = <<>> /\ locks' \in {locks, locks + 1} /\ Seat'
      /\ UNCHANGED <<presses, nextId, unanswered, levels, osd, requests, queue, job, polling,
                     updates, level, sequence, spent>>
  <2>1. CASE Controls!Locks
    <3>1. listening' = FALSE /\ available' = FALSE
      BY <2>1 DEF Controls!Locks
    <3>2. Seat'
      BY <3>1 DEF Seat
    <3> QED BY <2>1, <3>2 DEF Controls!Locks, Controls!interface, Controls!work
  <2>2. CASE Controls!Recovers
    <3>1. listening /\ listening' = listening /\ available' = ~available
      BY <2>2 DEF Controls!Recovers
    <3>2. Seat
      BY DEF ControlInv, ControlTyped
    <3>3. Seat'
      BY <3>1, <3>2, Zenon DEF Seat
    <3> QED BY <2>2, <3>3 DEF Controls!Recovers, Controls!interface, Controls!work
  <2> QED BY <2>1, <2>2
<1>2. ControlTyped /\ TokensIssued /\ PressesSound /\ LineSound /\ JobSound /\ UpdatesSound /\ HidingSound
  BY DEF ControlInv
<1>3. TokensOnlyGo
  <2>1. \A t : ~Valid(t)'
    BY <1>1 DEF Valid, Controls!ToSet
  <2> QED BY <1>1, <1>2, <2>1 DEF TokensOnlyGo, ControlTyped
<1>4. ControlTyped'
  <2>1. locks' \in Nat /\ tokens' \in Seq(Nat \ {0}) /\ Len(tokens') <= MaxPending
    BY <1>1, <1>2, ControlAssumption DEF ControlTyped, ControlAssumption
  <2> QED BY <1>1, <1>2, <2>1 DEF ControlTyped
<1>5. TokensIssued' /\ UpdatesSound'
  BY <1>1, <1>2 DEF TokensIssued, UpdatesSound
<1>6. LineSound' /\ JobSound' /\ HidingSound' /\ PressesSound'
  BY <1>1, <1>2, <1>3, LineStays, JobStays, HidingStays, PressesStay
<1> QED BY <1>4, <1>5, <1>6 DEF ControlInv

LEMMA UnlocksSound ==
  ASSUME ControlInv, Controls!Unlocks \/ Controls!OsdExpires PROVE ControlInv'
<1>1. /\ Seat' /\ osd' \in {osd, "none"}
      /\ UNCHANGED <<tokens, presses, nextId, unanswered, levels, requests, queue, job, polling,
                     updates, level, locks, sequence, spent>>
  <2>1. CASE Controls!Unlocks
    <3>1. listening' = TRUE /\ available' \in BOOLEAN
      BY <2>1 DEF Controls!Unlocks
    <3>2. Seat'
      BY <3>1, Zenon DEF Seat
    <3> QED BY <2>1, <3>2 DEF Controls!Unlocks, Controls!interface, Controls!work
  <2>2. CASE Controls!OsdExpires
    <3>1. Seat
      BY DEF ControlInv, ControlTyped
    <3>2. listening' = listening /\ available' = available
      BY <2>2 DEF Controls!OsdExpires, Controls!compositor
    <3>3. Seat'
      BY <3>1, <3>2 DEF Seat
    <3> QED BY <2>2, <3>3 DEF Controls!OsdExpires, Controls!work, Controls!compositor
  <2> QED BY <2>1, <2>2
<1>2. ControlTyped /\ TokensIssued /\ PressesSound /\ LineSound /\ JobSound /\ UpdatesSound /\ HidingSound
  BY DEF ControlInv
<1>3. TokensOnlyGo
  BY <1>1, <1>2, TokensStay
<1>4. ControlTyped'
  BY <1>1, <1>2 DEF ControlTyped
<1>5. TokensIssued' /\ UpdatesSound'
  BY <1>1, <1>2 DEF TokensIssued, UpdatesSound
<1>6. LineSound' /\ JobSound' /\ HidingSound' /\ PressesSound'
  BY <1>1, <1>2, <1>3, LineStays, JobStays, HidingStays, PressesStay
<1> QED BY <1>4, <1>5, <1>6 DEF ControlInv

\* The interface.
LEMMA SubmittedSound ==
  ASSUME ControlInv, NEW x \in Controls!Requests, x.id = nextId + 1,
         x.key => x.token \in 1..sequence /\ (Valid(x.token) => x.born = locks),
         ~x.key => x.token = 0 /\ x.value \in Controls!Levels,
         nextId' = nextId + 1,
         \/ /\ Len(requests) < MaxQueue /\ requests' = Append(requests, x)
            /\ unanswered' = IF x.key THEN unanswered ELSE [unanswered EXCEPT ![x.device] = x.id]
         \/ UNCHANGED <<requests, unanswered>>,
         UNCHANGED <<listening, available, tokens, locks, sequence, levels, osd, queue, job, polling,
                     updates, level>>,
         spent' \in [ControlledDevices -> [keys : Nat, sliders : Nat]]
  PROVE  /\ TokensOnlyGo /\ ControlTyped' /\ TokensIssued'
         /\ LineSound' /\ JobSound' /\ UpdatesSound' /\ HidingSound'
<1>1. ControlTyped /\ TokensIssued /\ LineSound /\ JobSound /\ UpdatesSound /\ HidingSound
  BY DEF ControlInv
<1>2. nextId \in Nat /\ sequence \in Nat /\ unanswered \in [ControlledDevices -> Nat]
  BY <1>1 DEF ControlTyped, Seat
<1>3. TokensOnlyGo
  BY <1>1, <1>2 DEF TokensOnlyGo, Valid
<1>4. x.device \in ControlledDevices /\ x.id \in Nat
  BY DEF Controls!Requests, ControlledDevices
<1>5. ControlTyped'
  <2>1. unanswered' \in [ControlledDevices -> Nat]
    BY <1>2, <1>4
  <2> QED BY <1>1, <1>2, <2>1 DEF ControlTyped, Seat
<1>6. TokensIssued' /\ UpdatesSound'
  BY <1>1 DEF TokensIssued, UpdatesSound
<1>7. CASE UNCHANGED <<requests, unanswered>>
  BY <1>1, <1>3, <1>5, <1>6, <1>7, LineStays, JobStays, HidingStays
<1>8. CASE /\ Len(requests) < MaxQueue /\ requests' = Append(requests, x)
           /\ unanswered' = IF x.key THEN unanswered ELSE [unanswered EXCEPT ![x.device] = x.id]
  <2> DEFINE R == Controls!Requests
  <2>0. \A y \in R : y.id \in Nat
    BY RequestsAreSome
  <2>1. /\ queue \in Seq(R) /\ requests \in Seq(R) /\ Len(queue) <= MaxQueue
        /\ Ordered(queue) /\ Ordered(requests) /\ Below(queue, requests)
        /\ (\A i \in 1..Len(queue) : SoundRequest(queue[i]))
        /\ (\A i \in 1..Len(requests) : SoundRequest(requests[i]))
    BY <1>1 DEF LineSound, Line
  <2>2. /\ (\A i \in 1..Len(queue) : queue[i].id < x.id)
        /\ (\A i \in 1..Len(requests) : requests[i].id < x.id)
    BY <1>2, <2>1 DEF SoundRequest
  <2>3. /\ requests' \in Seq(R) /\ Len(requests') = Len(requests) + 1
        /\ Extends(requests', requests, x)
    BY <1>8, <2>1, Appended
  <2>4. Ordered(requests') /\ Below(queue, requests')
    <3> HIDE DEF R
    <3>0. requests' \in Seq(R) /\ requests \in Seq(R) /\ queue \in Seq(R) /\ x \in R
          /\ Extends(requests', requests, x)
      BY <2>1, <2>3 DEF R
    <3>1. /\ Ordered(requests) /\ (\A i \in 1..Len(requests) : requests[i].id < x.id)
             => Ordered(requests')
          /\ \A c \in Seq(R) : Below(c, requests) /\ (\A i \in 1..Len(c) : c[i].id < x.id)
                                => Below(c, requests')
      BY <2>0, <3>0, ExtendedLine
    <3>2. Ordered(requests')
      BY <2>1, <2>2, <3>1
    <3>3. Below(queue, requests')
      BY <2>1, <2>2, <3>1
    <3> QED BY <3>2, <3>3
  <2>5. SoundRequest(x)'
    <3>1. x.id \in 1..nextId'
      BY <1>2
    <3>2. x.key => x.token \in 1..sequence' /\ (Valid(x.token)' => x.born = locks')
      BY DEF Valid
    <3> QED BY <3>1, <3>2 DEF SoundRequest
  <2>6. \A i \in 1..Len(requests') : requests'[i] = x \/ (i \in 1..Len(requests) /\ requests'[i] = requests[i])
    BY <2>3 DEF Extends
  <2>7. ASSUME NEW i \in 1..Len(requests')
        PROVE  SoundRequest(requests[i])'
    <3>1. PICK y : y = requests'[i]
      OBVIOUS
    <3>2. CASE y = x
      BY <2>5, <3>1, <3>2 DEF SoundRequest
    <3>3. CASE i \in 1..Len(requests) /\ y = requests[i]
      <4>1. SoundRequest(y)
        BY <2>1, <3>3
      <4>2. SoundRequest(y)'
        BY <4>1, <1>3, StillSound
      <4> QED BY <4>2, <3>1 DEF SoundRequest
    <3> QED BY <2>6, <3>1, <3>2, <3>3
  <2>8. \A i \in 1..Len(queue) : SoundRequest(queue[i])'
    <3> SUFFICES ASSUME NEW i \in 1..Len(queue) PROVE SoundRequest(queue[i])'
      OBVIOUS
    <3>1. PICK y : y = queue[i]
      OBVIOUS
    <3>2. SoundRequest(y)'
      BY <3>1, <2>1, <1>3, StillSound
    <3>3. queue' = queue
      OBVIOUS
    <3> QED BY <3>1, <3>2, <3>3 DEF SoundRequest
  <2>9. LineSound'
    <3>1. Len(requests') <= MaxQueue /\ queue' = queue
      BY <1>8, <2>1, <2>3, ControlAssumption DEF ControlAssumption
    <3>2. Ordered(queue)' /\ Ordered(requests)' /\ Below(queue, requests)'
      BY <2>1, <2>4, <3>1 DEF Ordered, Below
    <3> QED BY <2>1, <2>3, <2>7, <2>8, <3>1, <3>2 DEF LineSound, Line
  <2>10. JobSound'
    <3> SUFFICES ASSUME job # Controls!Nothing
                 PROVE  /\ SoundJob(job)'
                        /\ \A i \in 1..Len(queue) : job.request.id < queue[i].id
                        /\ \A i \in 1..Len(requests') : job.request.id < requests'[i].id
      BY DEF JobSound
    <3>1. PICK j : j = job
      OBVIOUS
    <3>2. /\ SoundJob(j) /\ \A i \in 1..Len(queue) : j.request.id < queue[i].id
          /\ \A i \in 1..Len(requests) : j.request.id < requests[i].id
      BY <1>1, <3>1 DEF JobSound
    <3>3. SoundJob(j)'
      BY <3>2, <1>3, StillSound
    <3>4. j.request.id < x.id
      BY <3>2, <1>2 DEF SoundJob, SoundRequest
    <3>5. SoundJob(job)'
      BY <3>1, <3>3 DEF SoundJob, SoundRequest
    <3>6. \A i \in 1..Len(requests') : j.request.id < requests'[i].id
      BY <2>6, <3>2, <3>4
    <3> QED BY <3>1, <3>2, <3>5, <3>6
  <2>11. HidingSound'
    <3> SUFFICES ASSUME NEW d \in ControlledDevices, unanswered'[d] # 0
                 PROVE  \/ job # Controls!Nothing /\ Covers(job.request, d, unanswered'[d])
                        \/ Within(queue, d, unanswered'[d]) \/ Within(requests', d, unanswered'[d])
                        \/ \E i \in 1..Len(updates) : Covers(updates[i].request, d, unanswered'[d])
      BY DEF HidingSound, Hides, Within, Covers
    <3>1. CASE ~x.key /\ d = x.device
      <4>1. unanswered'[d] = x.id /\ x.id \in Nat
        BY <1>8, <3>1, <1>2, <1>4
      <4>2. Covers(x, d, x.id)
        BY <3>1, <1>4, RequestsAreSome DEF Covers
      <4> QED BY <4>1, <4>2, <2>1, <2>2, <2>3, ExtendedWithin
    <3>2. CASE x.key \/ d # x.device
      <4>1. unanswered'[d] = unanswered[d] /\ unanswered[d] \in Nat
        BY <1>8, <3>2, <1>2, <1>4
      <4>2. Hides(d)
        BY <1>1 DEF HidingSound
      <4>3. Within(requests, d, unanswered[d]) => Within(requests', d, unanswered[d])
        BY <4>1, <2>1, <2>2, <2>3, ExtendedWithin
      <4> QED BY <4>1, <4>2, <4>3 DEF Hides
    <3> QED BY <3>1, <3>2
  <2> QED BY <1>3, <1>5, <1>6, <2>9, <2>10, <2>11
<1> QED BY <1>7, <1>8

LEMMA SliderMovedSound ==
  ASSUME ControlInv, NEW d \in ControlledDevices, NEW v \in Controls!Levels,
         Controls!SliderMoved(d, v)
  PROVE  ControlInv'
<1> DEFINE r == [id |-> nextId + 1, device |-> d, value |-> v, key |-> FALSE, token |-> 0,
                 born |-> locks]
<1>1. /\ presses' = presses /\ nextId' = nextId + 1
      /\ spent' = [spent EXCEPT ![d].sliders = @ + 1]
      /\ \/ /\ Len(requests) < MaxQueue /\ requests' = Append(requests, r)
            /\ unanswered' = [unanswered EXCEPT ![d] = nextId + 1]
         \/ UNCHANGED <<requests, unanswered>>
      /\ UNCHANGED <<listening, available, tokens, locks, sequence, levels, osd, queue, job, polling,
                     updates, level>>
  BY DEF Controls!SliderMoved, Controls!Submit, Controls!compositor, Controls!NoToken
<1>2. nextId \in Nat /\ locks \in Nat /\ sequence \in Nat
  BY DEF ControlInv, ControlTyped, Seat
<1>3. PICK x : x = r
  OBVIOUS
<1>4. x \in Controls!Requests /\ x.id = nextId + 1 /\ ~x.key /\ x.token = 0 /\ x.value = v /\ x.device = d
  BY <1>2, <1>3, ControlAssumption
     DEF ControlAssumption, Controls!Requests, Controls!Levels, ControlledDevices
<1>5. spent' \in [ControlledDevices -> [keys : Nat, sliders : Nat]]
  <2>1. spent \in [ControlledDevices -> [keys : Nat, sliders : Nat]]
    BY DEF ControlInv, ControlTyped, Seat
  <2>2. spent' = [spent EXCEPT ![d] = [spent[d] EXCEPT !.sliders = spent[d].sliders + 1]]
    BY <1>1
  <2>3. [spent[d] EXCEPT !.sliders = spent[d].sliders + 1] \in [keys : Nat, sliders : Nat]
    BY <2>1
  <2> QED BY <2>1, <2>2, <2>3
<1> HIDE DEF r
<1>6. /\ TokensOnlyGo /\ ControlTyped' /\ TokensIssued'
      /\ LineSound' /\ JobSound' /\ UpdatesSound' /\ HidingSound'
  BY <1>1, <1>3, <1>4, <1>5, SubmittedSound
<1>7. PressesSound'
  BY <1>1, <1>6, PressesStay DEF ControlInv
<1> QED BY <1>6, <1>7 DEF ControlInv

LEMMA KeyEventSound ==
  ASSUME ControlInv, Controls!KeyEvent PROVE ControlInv'
<1> DEFINE S == [device : ControlledDevices, step : {-1, 1}, token : Nat, born : Nat]
           h == Head(presses)
           r == [id |-> nextId + 1, device |-> h.device, value |-> h.step, key |-> TRUE,
                 token |-> h.token, born |-> h.born]
<1>1. /\ presses # <<>> /\ presses' = Tail(presses) /\ nextId' = nextId + 1 /\ spent' = spent
      /\ \/ /\ Len(requests) < MaxQueue /\ requests' = Append(requests, r)
            /\ unanswered' = unanswered
         \/ UNCHANGED <<requests, unanswered>>
      /\ UNCHANGED <<listening, available, tokens, locks, sequence, levels, osd, queue, job, polling,
                     updates, level>>
  BY DEF Controls!KeyEvent, Controls!Submit, Controls!compositor
<1>2. nextId \in Nat /\ locks \in Nat /\ sequence \in Nat
      /\ spent \in [ControlledDevices -> [keys : Nat, sliders : Nat]]
  BY DEF ControlInv, ControlTyped, Seat
<1>3. presses \in Seq(S) /\ \A i \in 1..Len(presses) : SoundPress(presses[i])
  BY DEF ControlInv, PressesSound
<1>4. /\ h \in S /\ h = presses[1] /\ 1 \in 1..Len(presses)
      /\ Tail(presses) \in Seq(S)
      /\ \A i \in 1..Len(Tail(presses)) : Tail(presses)[i] = presses[i + 1] /\ i + 1 \in 1..Len(presses)
  <2>1. h = presses[1] /\ Len(presses) \in Nat /\ Len(presses) # 0
    BY <1>1, <1>3
  <2> HIDE DEF S, h
  <2>2. /\ Head(presses) \in S /\ Tail(presses) \in Seq(S) /\ Len(Tail(presses)) = Len(presses) - 1
        /\ \A i \in 1..Len(Tail(presses)) : Tail(presses)[i] = presses[i + 1]
    BY <1>1, <1>3, HeadTailProperties
  <2> QED BY <2>1, <2>2 DEF h
<1>5. SoundPress(h)
  BY <1>3, <1>4
<1>6. PICK x : x = r
  OBVIOUS
<1>7. /\ x \in Controls!Requests /\ x.id = nextId + 1 /\ x.key
      /\ x.token = h.token /\ x.born = h.born
  BY <1>2, <1>4, <1>6 DEF Controls!Requests, ControlledDevices
<1> HIDE DEF r
<1>8. x.token \in 1..sequence /\ (Valid(x.token) => x.born = locks)
  BY <1>5, <1>7 DEF SoundPress
<1>9. /\ TokensOnlyGo /\ ControlTyped' /\ TokensIssued'
      /\ LineSound' /\ JobSound' /\ UpdatesSound' /\ HidingSound'
  <2> HIDE DEF S, h
  <2> QED BY <1>1, <1>2, <1>6, <1>7, <1>8, SubmittedSound
<1>10. PressesSound'
  <2> HIDE DEF h
  <2>1. ASSUME NEW i \in 1..Len(presses')
        PROVE  SoundPress(presses[i])'
    <3>1. PICK y : y = presses'[i]
      OBVIOUS
    <3>2. y = presses[i + 1] /\ i + 1 \in 1..Len(presses)
      BY <1>1, <1>4, <3>1
    <3>3. SoundPress(y)'
      BY <3>2, <1>3, <1>9, StillSound
    <3> QED BY <3>1, <3>3 DEF SoundPress
  <2> QED BY <1>1, <1>4, <2>1 DEF PressesSound
<1> QED BY <1>9, <1>10 DEF ControlInv

\* A pending update is of a request, or of none.
LEMMA UpdateKinds ==
  ASSUME NEW u \in Updates
  PROVE  /\ u.active \in BOOLEAN /\ u.reading \in [ControlledDevices -> Controls!Levels]
         /\ u.request # Controls!Nothing => u.request \in Controls!Requests /\ u.ok \in BOOLEAN
BY DEF Updates

\* The state of the task, when it has nothing to do with the compositor's.
LEMMA UpdateSound ==
  ASSUME ControlInv, Controls!Update PROVE ControlInv'
<1> DEFINE h == Head(updates)
           e == h.request.device
<1>1. /\ updates # <<>> /\ updates' = Tail(updates)
      /\ UNCHANGED <<listening, available, tokens, locks, sequence, presses, nextId, requests, queue, job,
                     polling, level, spent>>
  BY DEF Controls!Update, Controls!compositor, Controls!work
<1>2. ControlTyped /\ TokensIssued /\ PressesSound /\ LineSound /\ JobSound /\ UpdatesSound /\ HidingSound
  BY DEF ControlInv
<1>3. TokensOnlyGo
  BY <1>1, <1>2, TokensStay
<1>4. TokensIssued' /\ LineSound' /\ JobSound' /\ PressesSound'
  BY <1>1, <1>2, <1>3, LineStays, JobStays, PressesStay DEF TokensIssued
<1>5. updates \in Seq(Updates)
  BY <1>2 DEF UpdatesSound, Updates
<1>6. /\ h \in Updates /\ h = updates[1] /\ Len(updates) \in Nat
      /\ updates' \in Seq(Updates) /\ Len(updates') = Len(updates) - 1
      /\ \A i \in 1..Len(updates') : updates'[i] = updates[i + 1]
  <2>1. h = updates[1] /\ Len(updates) \in Nat
    BY <1>1, <1>5
  <2> HIDE DEF h
  <2>2. /\ Head(updates) \in Updates /\ Tail(updates) \in Seq(Updates)
        /\ Len(Tail(updates)) = Len(updates) - 1
        /\ \A i \in 1..Len(Tail(updates)) : Tail(updates)[i] = updates[i + 1]
    BY <1>1, <1>5, HeadTailProperties
  <2> QED BY <2>1, <2>2, <1>1 DEF h
<1>7. UpdatesSound'
  BY <1>6 DEF UpdatesSound, Updates
<1>8. unanswered \in [ControlledDevices -> Nat] /\ levels \in [ControlledDevices -> Controls!Levels]
  BY <1>2 DEF ControlTyped, Seat
<1>9. /\ unanswered' \in [ControlledDevices -> Nat] /\ levels' \in [ControlledDevices -> Controls!Levels]
      /\ osd' \in ControlledDevices \cup {"none"}
      /\ \A d \in ControlledDevices : unanswered'[d] # 0 =>
           unanswered'[d] = unanswered[d] /\ ~Covers(h.request, d, unanswered[d])
  <2>1. CASE h.request = Controls!Nothing
    <3>1. /\ levels' = h.reading /\ osd' = (IF h.active THEN osd ELSE "none")
          /\ unanswered' = unanswered
      BY <2>1 DEF Controls!Update
    <3>2. levels' \in [ControlledDevices -> Controls!Levels]
      BY <3>1, <1>6, UpdateKinds
    <3>3. osd' \in ControlledDevices \cup {"none"}
      BY <3>1, <1>2 DEF ControlTyped, Seat
    <3> QED BY <2>1, <3>1, <3>2, <3>3, <1>8 DEF Covers
  <2>2. CASE h.request # Controls!Nothing
    <3>1. /\ unanswered' = Controls!Unhidden(h.request)
          /\ levels' = IF h.ok THEN [levels EXCEPT ![e] = h.reading[e]] ELSE levels
          /\ osd' = IF h.active /\ h.request.key THEN e ELSE osd
      BY <2>2 DEF Controls!Update
    <3>2. h.request \in Controls!Requests /\ h.reading \in [ControlledDevices -> Controls!Levels]
      BY <2>2, <1>6, UpdateKinds
    <3>3. e \in ControlledDevices /\ h.request.id \in Nat
      BY <3>2 DEF Controls!Requests, ControlledDevices
    <3> HIDE DEF e, h
    <3>4. levels' \in [ControlledDevices -> Controls!Levels]
      <4>1. h.reading[e] \in Controls!Levels
        BY <3>2, <3>3
      <4> QED BY <3>1, <3>3, <4>1, <1>8
    <3>5. osd' \in ControlledDevices \cup {"none"}
      BY <3>1, <3>3, <1>2 DEF ControlTyped, Seat
    <3>6. /\ unanswered' \in [ControlledDevices -> Nat]
          /\ unanswered' = IF unanswered[e] # 0 /\ unanswered[e] <= h.request.id
                           THEN [unanswered EXCEPT ![e] = 0] ELSE unanswered
      BY <3>1, <3>3, <1>8 DEF Controls!Unhidden, Controls!None, e
    <3>7. ASSUME NEW d \in ControlledDevices, unanswered'[d] # 0
          PROVE  unanswered'[d] = unanswered[d] /\ ~Covers(h.request, d, unanswered[d])
      <4>1. CASE unanswered[e] # 0 /\ unanswered[e] <= h.request.id
        <5>1. d # e /\ unanswered'[d] = unanswered[d]
          BY <3>6, <3>7, <4>1, <1>8
        <5> QED BY <5>1 DEF Covers, e
      <4>2. CASE ~(unanswered[e] # 0 /\ unanswered[e] <= h.request.id)
        <5>1. unanswered'[d] = unanswered[d]
          BY <3>6, <4>2
        <5>2. d = e => ~(h.request.id >= unanswered[d])
          BY <5>1, <3>3, <3>7, <4>2, <1>8
        <5> QED BY <5>1, <5>2 DEF Covers, e
      <4> QED BY <4>1, <4>2
    <3> QED BY <3>4, <3>5, <3>6, <3>7
  <2> QED BY <2>1, <2>2
<1>10. ControlTyped'
  BY <1>1, <1>2, <1>9 DEF ControlTyped, Seat
<1>11. HidingSound'
  <2> SUFFICES ASSUME NEW d \in ControlledDevices, unanswered'[d] # 0
               PROVE  \/ job # Controls!Nothing /\ Covers(job.request, d, unanswered[d])
                      \/ Within(queue, d, unanswered[d]) \/ Within(requests, d, unanswered[d])
                      \/ \E i \in 1..Len(updates') : Covers(updates'[i].request, d, unanswered[d])
    BY <1>1, <1>9 DEF HidingSound, Hides, Within, Covers
  <2>1. unanswered[d] # 0 /\ ~Covers(h.request, d, unanswered[d]) /\ Hides(d)
    BY <1>2, <1>9 DEF HidingSound
  <2>2. ASSUME NEW i \in 1..Len(updates), Covers(updates[i].request, d, unanswered[d])
        PROVE  \E k \in 1..Len(updates') : Covers(updates'[k].request, d, unanswered[d])
    <3>1. i # 1
      BY <1>6, <2>1, <2>2
    <3>2. i - 1 \in 1..Len(updates') /\ i - 1 + 1 = i
      BY <1>6, <3>1
    <3>3. updates'[i - 1] = updates[i]
      BY <1>6, <3>2
    <3> QED BY <2>2, <3>2, <3>3
  <2> HIDE DEF h
  <2> QED BY <2>1, <2>2 DEF Hides
<1> QED BY <1>4, <1>7, <1>10, <1>11 DEF ControlInv

LEMMA PollStepSound ==
  ASSUME ControlInv, Controls!PollStep PROVE ControlInv'
<1> DEFINE u == [request |-> Controls!Nothing, reading |-> level, active |-> polling[2]]
<1>1. /\ updates = <<>> /\ updates' \in {updates, <<u>>}
      /\ polling' \in {<<"read", available>>, <<"idle", FALSE>>}
      /\ UNCHANGED <<listening, available, tokens, locks, sequence, presses, nextId, unanswered, levels, osd,
                     requests, queue, job, level, spent>>
  <2>1. polling \in {"idle", "read"} \X BOOLEAN
    BY DEF ControlInv, ControlTyped, Seat
  <2>2. polling[1] \in {"idle", "read"}
    BY <2>1
  <2>3. CASE polling[1] = "idle"
    BY <2>3 DEF Controls!PollStep, Controls!compositor, Controls!interface
  <2>4. CASE polling[1] = "read"
    BY <2>4 DEF Controls!PollStep, Controls!compositor, Controls!interface
  <2> QED BY <2>2, <2>3, <2>4
<1>2. ControlTyped /\ TokensIssued /\ PressesSound /\ LineSound /\ JobSound /\ UpdatesSound /\ HidingSound
  BY DEF ControlInv
<1>3. TokensOnlyGo
  BY <1>1, <1>2, TokensStay
<1>4. TokensIssued' /\ LineSound' /\ JobSound' /\ PressesSound'
  BY <1>1, <1>2, <1>3, LineStays, JobStays, PressesStay DEF TokensIssued
<1>5. ControlTyped'
  <2>1. polling' \in {"idle", "read"} \X BOOLEAN
    <3>1. available \in BOOLEAN
      <4>1. Seat
        BY <1>2 DEF ControlTyped, Seat
      <4> QED BY <4>1, Zenon DEF Seat
    <3>2. <<"read", available>> \in {"idle", "read"} \X BOOLEAN
      BY <3>1
    <3>3. <<"idle", FALSE>> \in {"idle", "read"} \X BOOLEAN
      OBVIOUS
    <3> QED BY <1>1, <3>2, <3>3
  <2> QED BY <1>1, <1>2, <2>1 DEF ControlTyped, Seat
<1>6. UpdatesSound'
  <2>1. level \in [ControlledDevices -> Controls!Levels] /\ polling[2] \in BOOLEAN
    BY <1>2 DEF ControlTyped, Seat
  <2>2. u \in Updates
    BY <2>1 DEF Updates
  <2>3. <<u>> \in Seq(Updates) /\ updates \in Seq(Updates)
    BY <2>2, <1>1
  <2> HIDE DEF u
  <2> QED BY <2>3, <1>1 DEF UpdatesSound, Updates
<1>7. HidingSound'
  <2> SUFFICES ASSUME NEW d \in ControlledDevices, unanswered[d] # 0
               PROVE  \/ job # Controls!Nothing /\ Covers(job.request, d, unanswered[d])
                      \/ Within(queue, d, unanswered[d]) \/ Within(requests, d, unanswered[d])
    BY <1>1 DEF HidingSound, Hides, Within, Covers
  <2>1. Hides(d) /\ Len(updates) = 0
    BY <1>1, <1>2 DEF HidingSound
  <2> QED BY <2>1 DEF Hides
<1> QED BY <1>4, <1>5, <1>6, <1>7 DEF ControlInv

\* The task: what becomes of a job.
LEMMA AgedSound ==
  ASSUME NEW i, SoundJob(i), NEW j \in Controls!Ages(i)
  PROVE  SoundJob(j) /\ j.request = i.request /\ j.pc = i.pc /\ j.target = i.target
<1>1. PICK e \in BOOLEAN : j = [i EXCEPT !.expired = e]
  BY DEF Controls!Ages, SoundJob, Controls!Jobs
<1>2. i \in Controls!Jobs
  BY DEF SoundJob
<1>3. /\ j \in Controls!Jobs /\ j.request = i.request /\ j.pc = i.pc /\ j.token = i.token
      /\ j.target = i.target /\ j.left = i.left /\ j.accepted = i.accepted /\ j.at = i.at
  BY <1>1, <1>2 DEF Controls!Jobs
<1> QED BY <1>3 DEF SoundJob

LEMMA FailedSound ==
  ASSUME NEW j \in Controls!Jobs, SoundRequest(j.request), j.token \in {0, j.request.token},
         j.request.key /\ j.accepted => j.at = j.request.born
  PROVE  SoundJob(Controls!Failed(j)) /\ Controls!Failed(j).request = j.request
<1> DEFINE f == Controls!Failed(j)
<1>1. /\ f \in Controls!Jobs /\ f.request = j.request /\ f.pc \in {"session", "reguard"}
      /\ f.token = j.token /\ f.accepted = j.accepted /\ f.at = j.at
  BY DEF Controls!Failed, Controls!Jobs
<1> QED BY <1>1 DEF SoundJob, Unwritten

LEMMA TakesOne ==
  ASSUME NEW i \in 1..Len(tokens), tokens \in Seq(Nat \ {0}), tokens' = Controls!RemoveAt(tokens, i)
  PROVE  /\ tokens' \in Seq(Nat \ {0}) /\ Len(tokens') = Len(tokens) - 1
         /\ \A k \in 1..Len(tokens') : \E n \in 1..Len(tokens) : tokens'[k] = tokens[n]
<1> DEFINE S == Nat \ {0}
           x == SubSeq(tokens, 1, i - 1)
           y == SubSeq(tokens, i + 1, Len(tokens))
<1>1. Len(tokens) \in Nat /\ \A k \in 1..Len(tokens) : tokens[k] \in S
  OBVIOUS
<1>2. x \in Seq(S) /\ Len(x) = i - 1 /\ \A k \in 1..(i - 1) : x[k] = tokens[k]
  <2>1. \A k \in 1..(i - 1) : tokens[k] \in S
    BY <1>1
  <2> HIDE DEF S
  <2> QED BY <1>1, <2>1, SubSeqProperties
<1>3. y \in Seq(S) /\ Len(y) = Len(tokens) - i
      /\ \A k \in 1..(Len(tokens) - i) : y[k] = tokens[i + k]
  <2>1. \A k \in (i + 1)..Len(tokens) : tokens[k] \in S
    BY <1>1
  <2> HIDE DEF S
  <2>2. /\ y \in Seq(S)
        /\ Len(y) = IF i + 1 <= Len(tokens) THEN Len(tokens) - (i + 1) + 1 ELSE 0
        /\ \A k \in 1..(Len(tokens) - (i + 1) + 1) : y[k] = tokens[(i + 1) + k - 1]
    BY <1>1, <2>1, SubSeqProperties
  <2> QED BY <1>1, <2>2
<1>4. tokens' = x \o y
  BY DEF Controls!RemoveAt
<1> HIDE DEF x, y, S
<1>5. /\ x \o y \in Seq(S) /\ Len(x \o y) = Len(x) + Len(y)
      /\ \A k \in 1..(Len(x) + Len(y)) : (x \o y)[k] = IF k <= Len(x) THEN x[k] ELSE y[k - Len(x)]
  BY <1>2, <1>3, ConcatProperties
<1>6. Len(tokens') = Len(tokens) - 1
  BY <1>1, <1>2, <1>3, <1>4, <1>5
<1>7. ASSUME NEW k \in 1..Len(tokens')
      PROVE  \E n \in 1..Len(tokens) : tokens'[k] = tokens[n]
  <2>1. CASE k <= Len(x)
    BY <2>1, <1>1, <1>2, <1>4, <1>5
  <2>2. CASE ~(k <= Len(x))
    <3>1. k - Len(x) \in 1..(Len(tokens) - i) /\ i + (k - Len(x)) \in 1..Len(tokens)
      BY <2>2, <1>1, <1>2, <1>6
    <3>2. tokens'[k] = y[k - Len(x)]
      BY <2>2, <3>1, <1>2, <1>3, <1>4, <1>5
    <3> QED BY <3>1, <3>2, <1>3
  <2> QED BY <2>1, <2>2
<1> QED BY <1>4, <1>5, <1>6, <1>7 DEF S

\* Only a token that is valid is taken, and the others stay as they are.
LEMMA AcceptsSound ==
  ASSUME ControlTyped, TokensIssued, NEW t, Controls!Accepts(t),
         nextId' = nextId, locks' = locks, sequence' = sequence
  PROVE  /\ Valid(t) /\ TokensOnlyGo
         /\ tokens' \in Seq(Nat \ {0}) /\ Len(tokens') <= MaxPending /\ TokensIssued'
<1>1. tokens \in Seq(Nat \ {0}) /\ Len(tokens) <= MaxPending /\ nextId \in Nat /\ sequence \in Nat
  BY DEF ControlTyped, Seat
<1>2. PICK i \in 1..Len(tokens) : tokens[i] = t /\ tokens' = Controls!RemoveAt(tokens, i)
  BY <1>1 DEF Controls!Accepts
<1>3. Valid(t)
  BY <1>1, <1>2, ToSetIs DEF Valid
<1>4. /\ tokens' \in Seq(Nat \ {0}) /\ Len(tokens') = Len(tokens) - 1
      /\ \A k \in 1..Len(tokens') : \E n \in 1..Len(tokens) : tokens'[k] = tokens[n]
  BY <1>1, <1>2, TakesOne
<1>5. \A u : Valid(u)' => Valid(u)
  <2> SUFFICES ASSUME NEW u, Valid(u)' PROVE Valid(u)
    OBVIOUS
  <2>1. PICK k \in 1..Len(tokens') : tokens'[k] = u
    BY <1>4, ToSetIs DEF Valid
  <2> QED BY <2>1, <1>1, <1>4, ToSetIs DEF Valid
<1>6. TokensOnlyGo
  BY <1>1, <1>5 DEF TokensOnlyGo
<1>7. TokensIssued'
  BY <1>4 DEF TokensIssued
<1>8. Len(tokens') <= MaxPending
  BY <1>1, <1>4, ControlAssumption DEF ControlAssumption
<1> QED BY <1>3, <1>4, <1>6, <1>7, <1>8

\* A step of a job that goes on.
LEMMA JobGoesOn ==
  ASSUME ControlInv, TokensOnlyGo, job # Controls!Nothing,
         NEW y, SoundJob(y), y.request = job.request, job' = y,
         queue' = queue, requests' = requests, unanswered' = unanswered, updates' = updates
  PROVE  LineSound' /\ JobSound' /\ HidingSound'
<1>1. LineSound /\ JobSound /\ HidingSound
  BY DEF ControlInv
<1>2. LineSound'
  BY <1>1, LineStays
<1>3. SoundJob(y)'
  BY StillSound
<1>4. SoundJob(job)'
  BY <1>3 DEF SoundJob, SoundRequest
<1>5. JobSound'
  BY <1>1, <1>4 DEF JobSound
<1>6. y # Controls!Nothing
  BY DEF SoundJob, Controls!Jobs, Controls!Nothing
<1>7. HidingSound'
  <2> SUFFICES ASSUME NEW d \in ControlledDevices, unanswered[d] # 0
               PROVE  \/ job' # Controls!Nothing /\ Covers(y.request, d, unanswered[d])
                      \/ Within(queue, d, unanswered[d]) \/ Within(requests, d, unanswered[d])
                      \/ \E i \in 1..Len(updates) : Covers(updates[i].request, d, unanswered[d])
    BY DEF HidingSound, Hides, Within, Covers
  <2>1. Hides(d)
    BY <1>1 DEF HidingSound
  <2> QED BY <2>1, <1>6 DEF Hides
<1> QED BY <1>2, <1>5, <1>7

\* Steps of a job, one by one: what they change, and that the job stays sound.
JobMoved(y) ==
  /\ SoundJob(y) /\ y.request = job.request /\ job' = y
  /\ tokens' \in Seq(Nat \ {0}) /\ Len(tokens') <= MaxPending
  /\ TokensOnlyGo /\ TokensIssued'
  /\ level' \in [ControlledDevices -> Controls!Levels] /\ updates' = updates
Rest == <<listening, available, locks, sequence, presses, nextId, unanswered, levels, osd, requests, queue,
          polling, spent>>

LEMMA Movable ==
  ASSUME ControlInv, job # Controls!Nothing, UNCHANGED Rest, NEW y, JobMoved(y)
  PROVE  ControlInv'
<1>1. ControlTyped /\ TokensIssued /\ PressesSound /\ LineSound /\ JobSound /\ UpdatesSound /\ HidingSound
  BY DEF ControlInv
<1>2. TokensOnlyGo /\ TokensIssued' /\ updates' = updates
  BY DEF JobMoved
<1>3. LineSound' /\ JobSound' /\ HidingSound'
  BY <1>2, JobGoesOn DEF JobMoved, Rest
<1>4. PressesSound' /\ UpdatesSound'
  BY <1>1, <1>2, PressesStay DEF Rest, UpdatesSound
<1>5. ControlTyped'
  BY <1>1 DEF ControlTyped, Seat, JobMoved, Rest
<1> QED BY <1>2, <1>3, <1>4, <1>5 DEF ControlInv

\* The tokens and the devices as they were.
LEMMA NothingElse ==
  ASSUME ControlInv, UNCHANGED Rest, UNCHANGED <<tokens, level, updates>>,
         NEW y, SoundJob(y), y.request = job.request, job' = y
  PROVE  JobMoved(y)
<1>1. ControlTyped /\ TokensIssued
  BY DEF ControlInv
<1>2. TokensOnlyGo
  BY <1>1, TokensStay DEF Rest
<1> QED BY <1>1, <1>2 DEF JobMoved, ControlTyped, Seat, TokensIssued, Rest

LEMMA GuardMoves ==
  ASSUME ControlInv, UNCHANGED Rest, NEW j, SoundJob(j), j.request = job.request, Controls!GuardStep(j)
  PROVE  \E y : JobMoved(y)
<1>1. PICK y : y = job'
  OBVIOUS
<1>2. j \in Controls!Jobs /\ SoundRequest(j.request) /\ j.token \in {0, j.request.token}
      /\ (j.request.key /\ j.accepted => j.at = j.request.born) /\ j.pc = "guard"
      /\ j.left # 0 /\ (j.request.key /\ j.token = 0 => j.accepted)
  BY DEF SoundJob, Unwritten, Controls!GuardStep
<1>3. SoundJob(y) /\ y.request = j.request
  <2>1. CASE j.expired \/ ~available
    <3>1. y = Controls!Failed(j)
      BY <1>1, <2>1 DEF Controls!GuardStep
    <3> QED BY <1>2, <3>1, FailedSound
  <2>2. CASE ~(j.expired \/ ~available) /\ j.token = 0
    <3>1. y = [j EXCEPT !.pc = "write", !.accepted = TRUE]
      BY <1>1, <2>2 DEF Controls!GuardStep, Controls!NoToken
    <3>2. /\ y \in Controls!Jobs /\ y.request = j.request /\ y.pc = "write" /\ y.token = 0
          /\ y.accepted /\ y.at = j.at /\ y.left = j.left
      BY <1>2, <2>2, <3>1 DEF Controls!Jobs
    <3> QED BY <1>2, <2>2, <3>2 DEF SoundJob, Unwritten
  <2>3. CASE ~(j.expired \/ ~available) /\ j.token # 0
    <3>1. y = [j EXCEPT !.pc = "token"]
      BY <1>1, <2>3 DEF Controls!GuardStep, Controls!NoToken
    <3>2. /\ y \in Controls!Jobs /\ y.request = j.request /\ y.pc = "token" /\ y.token = j.token
          /\ y.accepted = j.accepted /\ y.at = j.at /\ y.left = j.left
      BY <1>2, <2>3, <3>1 DEF Controls!Jobs
    <3> QED BY <1>2, <2>3, <3>2 DEF SoundJob, Unwritten
  <2> QED BY <2>1, <2>2, <2>3
<1>4. UNCHANGED <<tokens, level, updates>>
  BY DEF Controls!GuardStep
<1> QED BY <1>1, <1>3, <1>4, NothingElse

LEMMA TokenMoves ==
  ASSUME ControlInv, UNCHANGED Rest, NEW j, SoundJob(j), j.request = job.request, Controls!TokenStep(j)
  PROVE  \E y : JobMoved(y)
<1>1. PICK y : y = job'
  OBVIOUS
<1>2. j \in Controls!Jobs /\ SoundRequest(j.request) /\ j.token \in {0, j.request.token}
      /\ (j.request.key /\ j.accepted => j.at = j.request.born) /\ j.pc = "token"
      /\ j.left # 0 /\ j.token # 0
  BY DEF SoundJob, Unwritten, Controls!TokenStep
<1>3. ControlTyped /\ TokensIssued /\ UNCHANGED <<level, updates>>
  BY DEF ControlInv, Controls!TokenStep
<1>4. PICK f : f = Controls!Failed([j EXCEPT !.token = 0])
  OBVIOUS
<1>5. SoundJob(f) /\ f.request = j.request
  <2> DEFINE k == [j EXCEPT !.token = 0]
  <2>1. k \in Controls!Jobs /\ k.request = j.request /\ k.token = 0 /\ k.accepted = j.accepted /\ k.at = j.at
    BY <1>2 DEF Controls!Jobs
  <2> HIDE DEF k
  <2>2. SoundJob(Controls!Failed(k)) /\ Controls!Failed(k).request = k.request
    BY <1>2, <2>1, FailedSound
  <2> QED BY <2>1, <2>2, <1>4 DEF k
<1>6. CASE j.token \notin Controls!ToSet(tokens) /\ UNCHANGED tokens /\ job' = f
  BY <1>3, <1>5, <1>6, NothingElse
<1>7. CASE Controls!Accepts(j.token) /\ (\E taken \in BOOLEAN :
             job' = IF taken /\ ~j.expired
                    THEN [j EXCEPT !.pc = "write", !.accepted = TRUE, !.token = 0, !.at = locks]
                    ELSE f)
  <2>1. /\ Valid(j.token) /\ TokensOnlyGo
        /\ tokens' \in Seq(Nat \ {0}) /\ Len(tokens') <= MaxPending /\ TokensIssued'
    BY <1>3, <1>7, AcceptsSound DEF Rest
  <2>2. CASE y = f
    BY <1>1, <1>3, <1>5, <2>1, <2>2 DEF JobMoved, ControlTyped, Seat
  <2>3. CASE y = [j EXCEPT !.pc = "write", !.accepted = TRUE, !.token = 0, !.at = locks]
    <3>0. PICK at \in Int : at = locks
      BY <1>3 DEF ControlTyped, Seat
    <3>a. y = [j EXCEPT !.pc = "write", !.accepted = TRUE, !.token = 0, !.at = at]
      BY <2>3, <3>0
    <3>1. /\ y \in Controls!Jobs /\ y.request = j.request /\ y.pc = "write" /\ y.token = 0
          /\ y.accepted /\ y.at = at /\ y.left = j.left
      BY <1>2, <3>a DEF Controls!Jobs
    <3>2. j.request.key => j.request.born = locks
      BY <1>2, <2>1 DEF SoundRequest
    <3>3. SoundJob(y)
      BY <1>2, <3>0, <3>1, <3>2 DEF SoundJob, Unwritten
    <3> QED BY <1>1, <1>3, <2>1, <3>1, <3>3 DEF JobMoved, ControlTyped, Seat
  <2> QED BY <1>1, <1>7, <2>2, <2>3
<1>8. \/ Controls!Accepts(j.token) /\ (\E taken \in BOOLEAN :
             job' = IF taken /\ ~j.expired
                    THEN [j EXCEPT !.pc = "write", !.accepted = TRUE, !.token = 0, !.at = locks]
                    ELSE f)
      \/ j.token \notin Controls!ToSet(tokens) /\ UNCHANGED tokens /\ job' = f
  BY <1>4 DEF Controls!TokenStep, Controls!NoToken
<1> QED BY <1>6, <1>7, <1>8

LEMMA WriteMoves ==
  ASSUME ControlInv, UNCHANGED Rest, NEW j, SoundJob(j), j.request = job.request, Controls!WriteStep(j)
  PROVE  \E y : JobMoved(y)
<1>1. PICK y : y = job'
  OBVIOUS
<1>2. j \in Controls!Jobs /\ SoundRequest(j.request) /\ j.token \in {0, j.request.token}
      /\ (j.request.key => j.accepted /\ j.at = j.request.born) /\ j.pc = "write" /\ j.left # 0
  BY DEF SoundJob, Unwritten, Controls!WriteStep
<1>3. ControlTyped /\ TokensIssued /\ UNCHANGED <<tokens, updates>>
  BY DEF ControlInv, Controls!WriteStep
<1>4. y = [j EXCEPT !.left = j.left - 1, !.pc = IF j.left = 1 THEN "read" ELSE "guard"]
  BY <1>1 DEF Controls!WriteStep
<1>5. j.left \in 0..2 /\ j.left - 1 \in 0..2 /\ (j.left # 1 => j.left - 1 # 0)
  BY <1>2 DEF Controls!Jobs
<1>6. /\ y \in Controls!Jobs /\ y.request = j.request /\ y.token = j.token
      /\ y.accepted = j.accepted /\ y.at = j.at /\ y.left = j.left - 1
      /\ y.pc = IF j.left = 1 THEN "read" ELSE "guard"
  BY <1>2, <1>4, <1>5 DEF Controls!Jobs
<1>7. SoundJob(y)
  BY <1>2, <1>5, <1>6 DEF SoundJob, Unwritten
<1>8. level' \in [ControlledDevices -> Controls!Levels]
  <2>1. j.request.device \in ControlledDevices /\ j.target \in Controls!Levels
    BY <1>2 DEF Controls!Jobs, Controls!Requests, ControlledDevices
  <2>2. level' = [level EXCEPT ![j.request.device] = j.target]
    BY DEF Controls!WriteStep
  <2> QED BY <1>3, <2>1, <2>2 DEF ControlTyped, Seat
<1>9. TokensOnlyGo
  BY <1>3, TokensStay DEF Rest
<1> QED BY <1>1, <1>3, <1>6, <1>7, <1>8, <1>9 DEF JobMoved, ControlTyped, Seat, TokensIssued, Rest

LEMMA ReadMoves ==
  ASSUME ControlInv, UNCHANGED Rest, NEW j, SoundJob(j), j.request = job.request,
         Controls!ReadStep(j) \/ Controls!ReguardStep(j)
  PROVE  \E y : JobMoved(y)
<1>1. PICK y : y = job'
  OBVIOUS
<1>2. j \in Controls!Jobs /\ SoundRequest(j.request) /\ j.token \in {0, j.request.token}
      /\ (j.request.key /\ j.accepted => j.at = j.request.born)
  BY DEF SoundJob
<1>3. \/ y = [j EXCEPT !.pc = "session", !.ok = TRUE]
      \/ y = [j EXCEPT !.pc = "session"]
      \/ y = [j EXCEPT !.pc = "session", !.accepted = TRUE] /\ j.request.token = 0
      \/ y = [j EXCEPT !.pc = "retoken"]
  BY <1>1 DEF Controls!ReadStep, Controls!ReguardStep, Controls!NoToken
<1>4. j.request.key => j.request.token # 0
  BY <1>2 DEF SoundRequest
<1>5. /\ y \in Controls!Jobs /\ y.request = j.request /\ y.token = j.token /\ y.at = j.at
      /\ y.pc \in {"session", "retoken"} /\ (j.request.key => y.accepted = j.accepted)
  <2>1. CASE y = [j EXCEPT !.pc = "session", !.ok = TRUE]
    BY <1>2, <2>1 DEF Controls!Jobs
  <2>2. CASE y = [j EXCEPT !.pc = "session"]
    BY <1>2, <2>2 DEF Controls!Jobs
  <2>3. CASE y = [j EXCEPT !.pc = "session", !.accepted = TRUE] /\ j.request.token = 0
    BY <1>2, <1>4, <2>3 DEF Controls!Jobs
  <2>4. CASE y = [j EXCEPT !.pc = "retoken"]
    BY <1>2, <2>4 DEF Controls!Jobs
  <2> QED BY <1>3, <2>1, <2>2, <2>3, <2>4
<1>6. SoundJob(y)
  BY <1>2, <1>5 DEF SoundJob, Unwritten
<1>7. UNCHANGED <<tokens, level, updates>>
  BY DEF Controls!ReadStep, Controls!ReguardStep
<1> QED BY <1>1, <1>5, <1>6, <1>7, NothingElse

LEMMA RetokenMoves ==
  ASSUME ControlInv, UNCHANGED Rest, NEW j, SoundJob(j), j.request = job.request, Controls!RetokenStep(j)
  PROVE  \E y : JobMoved(y)
<1>1. PICK y : y = job'
  OBVIOUS
<1>2. j \in Controls!Jobs /\ SoundRequest(j.request) /\ j.token \in {0, j.request.token}
      /\ (j.request.key /\ j.accepted => j.at = j.request.born)
  BY DEF SoundJob
<1>3. ControlTyped /\ TokensIssued /\ UNCHANGED <<level, updates>>
  BY DEF ControlInv, Controls!RetokenStep
<1>4. CASE UNCHANGED tokens /\ y = [j EXCEPT !.pc = "session"]
  <2>1. /\ y \in Controls!Jobs /\ y.request = j.request /\ y.token = j.token /\ y.at = j.at
        /\ y.pc = "session" /\ y.accepted = j.accepted
    BY <1>2, <1>4 DEF Controls!Jobs
  <2>2. SoundJob(y)
    BY <1>2, <2>1 DEF SoundJob, Unwritten
  <2> QED BY <1>1, <1>3, <1>4, <2>1, <2>2, NothingElse
<1>5. ASSUME NEW taken \in BOOLEAN, Controls!Accepts(j.request.token),
             y = [j EXCEPT !.pc = "session", !.accepted = taken /\ ~j.expired,
                           !.at = IF taken THEN locks ELSE -1]
      PROVE  JobMoved(y)
  <2>1. /\ Valid(j.request.token) /\ TokensOnlyGo
        /\ tokens' \in Seq(Nat \ {0}) /\ Len(tokens') <= MaxPending /\ TokensIssued'
    BY <1>3, <1>5, AcceptsSound DEF Rest
  <2>2. j.request.key => j.request.born = locks
    BY <1>2, <2>1 DEF SoundRequest
  <2>3. PICK at \in Int : at = (IF taken THEN locks ELSE -1)
    <3>1. locks \in Int
      BY <1>3 DEF ControlTyped, Seat
    <3> QED BY <3>1
  <2>4. PICK ok \in BOOLEAN : ok = (taken /\ ~j.expired)
    OBVIOUS
  <2>5. y = [j EXCEPT !.pc = "session", !.accepted = ok, !.at = at]
    BY <1>5, <2>3, <2>4
  <2>6. /\ y \in Controls!Jobs /\ y.request = j.request /\ y.token = j.token /\ y.at = at
        /\ y.pc = "session" /\ y.accepted = ok
    BY <1>2, <2>5 DEF Controls!Jobs
  <2>7. ok => at = locks
    BY <2>3, <2>4
  <2>8. SoundJob(y)
    BY <1>2, <2>2, <2>6, <2>7 DEF SoundJob, Unwritten
  <2> QED BY <1>1, <1>3, <2>1, <2>6, <2>8 DEF JobMoved, ControlTyped, Seat
<1>6. \/ UNCHANGED tokens /\ y = [j EXCEPT !.pc = "session"]
      \/ \E taken \in BOOLEAN :
           /\ Controls!Accepts(j.request.token)
           /\ y = [j EXCEPT !.pc = "session", !.accepted = taken /\ ~j.expired,
                            !.at = IF taken THEN locks ELSE -1]
  BY <1>1 DEF Controls!RetokenStep
<1> QED BY <1>4, <1>5, <1>6

LEMMA SessionStepSound ==
  ASSUME ControlInv, job # Controls!Nothing, UNCHANGED Rest,
         NEW j, SoundJob(j), j.request = job.request, Controls!SessionStep(j)
  PROVE  ControlInv'
<1>1. ControlTyped /\ TokensIssued /\ PressesSound /\ LineSound /\ JobSound /\ UpdatesSound /\ HidingSound
  BY DEF ControlInv
<1>2. TokensOnlyGo
  BY <1>1, TokensStay DEF Rest, Controls!SessionStep
<1>3. PICK u : u = [request |-> j.request, ok |-> j.ok, reading |-> level,
                    active |-> j.accepted /\ available]
  OBVIOUS
<1>4. updates' = Append(updates, u) /\ job' = Controls!Nothing /\ UNCHANGED <<tokens, level>>
  BY <1>3 DEF Controls!SessionStep
<1>5. u \in Updates /\ u.request = job.request
  <2>1. j.request \in Controls!Requests /\ j.ok \in BOOLEAN
    BY DEF SoundJob, Controls!Jobs
  <2>2. level \in [ControlledDevices -> Controls!Levels]
    BY <1>1 DEF ControlTyped, Seat
  <2>3. (j.accepted /\ available) \in BOOLEAN
    OBVIOUS
  <2> QED BY <1>3, <2>1, <2>2, <2>3 DEF Updates
<1>6. /\ updates \in Seq(Updates) /\ updates' \in Seq(Updates)
      /\ Len(updates) \in Nat /\ Len(updates') = Len(updates) + 1
      /\ updates'[Len(updates) + 1] = u
      /\ \A i \in 1..Len(updates) : updates'[i] = updates[i]
  <2>1. updates \in Seq(Updates)
    BY <1>1 DEF UpdatesSound, Updates
  <2> QED BY <2>1, <1>4, <1>5
<1>7. ControlTyped' /\ TokensIssued'
  BY <1>1, <1>4 DEF ControlTyped, Seat, TokensIssued, Rest
<1>8. PressesSound' /\ LineSound'
  BY <1>1, <1>2, PressesStay, LineStays DEF Rest
<1>9. JobSound' /\ UpdatesSound'
  BY <1>4, <1>6 DEF JobSound, UpdatesSound, Updates
<1>10. HidingSound'
  <2> SUFFICES ASSUME NEW d \in ControlledDevices, unanswered[d] # 0
               PROVE  \/ Within(queue, d, unanswered[d]) \/ Within(requests, d, unanswered[d])
                      \/ \E i \in 1..Len(updates') : Covers(updates'[i].request, d, unanswered[d])
    BY DEF HidingSound, Hides, Within, Covers, Rest
  <2>1. Hides(d)
    BY <1>1 DEF HidingSound
  <2>2. CASE Covers(job.request, d, unanswered[d])
    <3>1. Len(updates) + 1 \in 1..Len(updates')
      BY <1>6
    <3> QED BY <2>2, <3>1, <1>5, <1>6
  <2>3. CASE \E i \in 1..Len(updates) : Covers(updates[i].request, d, unanswered[d])
    <3>1. PICK i \in 1..Len(updates) : Covers(updates[i].request, d, unanswered[d])
      BY <2>3
    <3>2. i \in 1..Len(updates')
      BY <1>6
    <3> QED BY <3>1, <3>2, <1>6
  <2> QED BY <2>1, <2>2, <2>3 DEF Hides
<1> QED BY <1>7, <1>8, <1>9, <1>10 DEF ControlInv

LEMMA JobStepSound ==
  ASSUME ControlInv, Controls!JobStep PROVE ControlInv'
<1>1. job # Controls!Nothing /\ UNCHANGED Rest
  BY DEF Controls!JobStep, Rest, Controls!interface
<1>2. SoundJob(job)
  BY <1>1 DEF ControlInv, JobSound
<1>3. PICK j \in Controls!Ages(job) :
        \/ Controls!GuardStep(j) \/ Controls!TokenStep(j) \/ Controls!WriteStep(j)
        \/ Controls!ReadStep(j) \/ Controls!ReguardStep(j) \/ Controls!RetokenStep(j)
        \/ Controls!SessionStep(j)
  BY DEF Controls!JobStep
<1>4. SoundJob(j) /\ j.request = job.request
  <2>1. PICK i : i = job
    OBVIOUS
  <2>2. SoundJob(i) /\ j \in Controls!Ages(i)
    BY <1>2, <1>3, <2>1
  <2> QED BY <2>1, <2>2, AgedSound
<1>5. CASE Controls!SessionStep(j)
  BY <1>1, <1>4, <1>5, SessionStepSound
<1>6. ASSUME ~Controls!SessionStep(j)
      PROVE  \E y : JobMoved(y)
  BY <1>1, <1>3, <1>4, <1>6, GuardMoves, TokenMoves, WriteMoves, ReadMoves, RetokenMoves
<1>7. CASE ~Controls!SessionStep(j)
  BY <1>1, <1>6, <1>7, Movable
<1> QED BY <1>5, <1>7

LEMMA JobFailsSound ==
  ASSUME ControlInv, Controls!JobFails PROVE ControlInv'
<1>1. /\ job # Controls!Nothing /\ UNCHANGED Rest /\ UNCHANGED <<tokens, updates>>
      /\ job' = Controls!Failed(job)
      /\ level' = level \/ level' = [level EXCEPT ![job.request.device] = job.target]
  BY DEF Controls!JobFails, Rest, Controls!interface, Controls!compositor
<1>2. PICK j : j = job
  OBVIOUS
<1>3. SoundJob(j)
  BY <1>1, <1>2 DEF ControlInv, JobSound
<1>4. PICK y : y = Controls!Failed(j)
  OBVIOUS
<1>5. SoundJob(y) /\ y.request = j.request
  BY <1>3, <1>4, FailedSound DEF SoundJob
<1>6. ControlTyped /\ TokensIssued
  BY DEF ControlInv
<1>7. TokensOnlyGo
  BY <1>1, <1>6, TokensStay DEF Rest
<1>8. level' \in [ControlledDevices -> Controls!Levels]
  <2>1. j.request.device \in ControlledDevices /\ j.target \in Controls!Levels
    BY <1>3 DEF SoundJob, Controls!Jobs, Controls!Requests, ControlledDevices
  <2>2. level \in [ControlledDevices -> Controls!Levels]
    BY <1>6 DEF ControlTyped, Seat
  <2> QED BY <1>1, <1>2, <2>1, <2>2
<1>9. JobMoved(y)
  BY <1>1, <1>2, <1>4, <1>5, <1>6, <1>7, <1>8 DEF JobMoved, ControlTyped, Seat, TokensIssued, Rest
<1> QED BY <1>1, <1>9, Movable

\* The task takes the first of what it has drained.
LEMMA TakeRequestSound ==
  ASSUME ControlInv, Controls!TakeRequest PROVE ControlInv'
<1>1. ControlTyped /\ TokensIssued /\ PressesSound /\ LineSound /\ JobSound /\ UpdatesSound /\ HidingSound
  BY DEF ControlInv
<1>2. /\ job = Controls!Nothing /\ (requests # <<>> \/ queue # <<>>)
      /\ polling' = <<"idle", FALSE>>
      /\ UNCHANGED <<listening, available, tokens, locks, sequence, presses, nextId, unanswered, levels, osd,
                     updates, level, spent>>
  BY DEF Controls!TakeRequest, Controls!compositor, Controls!interface
<1>3. TokensOnlyGo
  BY <1>1, <1>2, TokensStay
<1> DEFINE R == Controls!Requests
<1>4. PICK p, c : p = Controls!Drained.queue /\ c = Controls!Drained.channel
  OBVIOUS
<1>5. /\ Line(p, c) /\ p # <<>>
      /\ \A d \in ControlledDevices, n \in Nat :
           Within(queue, d, n) \/ Within(requests, d, n) => Within(p, d, n) \/ Within(c, d, n)
  BY <1>1, <1>2, <1>4, DrainedSound DEF LineSound
<1>6. p \in Seq(R) /\ c \in Seq(R) /\ Ordered(p) /\ Ordered(c) /\ Below(p, c)
      /\ Len(p) <= MaxQueue /\ Len(c) <= MaxQueue
      /\ (\A i \in 1..Len(p) : SoundRequest(p[i])) /\ (\A i \in 1..Len(c) : SoundRequest(c[i]))
  BY <1>5 DEF Line
<1>7. PICK r : r = Head(p)
  OBVIOUS
<1>8. PICK t : t = Tail(p)
  OBVIOUS
<1>9. /\ r \in R /\ t \in Seq(R) /\ Len(t) = Len(p) - 1 /\ r = p[1] /\ 1 \in 1..Len(p)
      /\ \A i \in 1..Len(t) : t[i] = p[i + 1] /\ i + 1 \in 1..Len(p)
      /\ Ordered(t) /\ (\A i \in 1..Len(t) : r.id < t[i].id)
      /\ Below(t, c) /\ (\A i \in 1..Len(c) : r.id < c[i].id)
  <2>1. \A x \in R : x.id \in Nat
    BY RequestsAreSome
  <2> HIDE DEF R
  <2>2. /\ Head(p) \in R /\ Tail(p) \in Seq(R) /\ Len(Tail(p)) = Len(p) - 1
        /\ Head(p) = p[1] /\ 1 \in 1..Len(p)
        /\ \A i \in 1..Len(Tail(p)) : Tail(p)[i] = p[i + 1] /\ i + 1 \in 1..Len(p)
        /\ Ordered(p) => Ordered(Tail(p)) /\ \A i \in 1..Len(Tail(p)) : Head(p).id < Tail(p)[i].id
        /\ \A x \in Seq(R) : Below(p, x) => Below(Tail(p), x)
                                            /\ \A i \in 1..Len(x) : Head(p).id < x[i].id
    BY <2>1, <1>5, <1>6, Shortened
  <2> QED BY <2>2, <1>6, <1>7, <1>8
<1>10. queue' = t /\ requests' = c
  BY <1>4, <1>8 DEF Controls!TakeRequest
<1>11. SoundRequest(r)
  BY <1>6, <1>9
<1>12. \E y : job' = y /\ SoundJob(y) /\ y.request = r
  <2> DEFINE target == IF r.key THEN Controls!Clamp(level[r.device] + r.value) ELSE r.value
             new == [request |-> r, pc |-> "guard", token |-> r.token, target |-> target,
                     left |-> Controls!Writes(r, target), accepted |-> FALSE, at |-> -1,
                     ok |-> FALSE, expired |-> FALSE]
  <2>1. \E j \in Controls!Ages(new) :
          job' = IF j.expired \/ ~available THEN Controls!Failed(j) ELSE j
    BY <1>4, <1>7 DEF Controls!TakeRequest
  <2>2. r.device \in ControlledDevices /\ r.value \in Int /\ r.token \in Nat /\ r.key \in BOOLEAN
    BY <1>9 DEF Controls!Requests, ControlledDevices
  <2>3. target \in Controls!Levels
    <3>1. CASE r.key
      <4>1. level[r.device] \in Controls!Levels
        BY <2>2, <1>1 DEF ControlTyped, Seat
      <4>2. level[r.device] + r.value \in Int
        BY <4>1, <2>2, ControlAssumption DEF Controls!Levels, ControlAssumption
      <4>3. \A n \in Int : Controls!Clamp(n) \in Controls!Levels
        BY ControlAssumption DEF Controls!Levels, Controls!Clamp, ControlAssumption
      <4> QED BY <3>1, <4>2, <4>3
    <3>2. CASE ~r.key
      BY <3>2, <1>11 DEF SoundRequest
    <3> QED BY <3>1, <3>2
  <2>4. PICK n : n = new
    OBVIOUS
  <2>5. Controls!Writes(r, target) \in {1, 2}
    BY DEF Controls!Writes
  <2>6. /\ n \in Controls!Jobs /\ n.request = r /\ n.pc = "guard" /\ n.token = r.token
        /\ n.left \in {1, 2} /\ ~n.accepted
    <3> HIDE DEF target
    <3> QED BY <1>9, <2>2, <2>3, <2>4, <2>5 DEF Controls!Jobs
  <2>7. SoundJob(n)
    BY <1>11, <2>6 DEF SoundJob, Unwritten, SoundRequest
  <2> HIDE DEF new
  <2>8. PICK j \in Controls!Ages(n) :
          job' = IF j.expired \/ ~available THEN Controls!Failed(j) ELSE j
    BY <2>1, <2>4
  <2>9. SoundJob(j) /\ j.request = r
    BY <2>6, <2>7, <2>8, AgedSound
  <2>10. SoundJob(Controls!Failed(j)) /\ Controls!Failed(j).request = r
    BY <2>9, FailedSound DEF SoundJob
  <2> QED BY <2>8, <2>9, <2>10
<1>13. PICK y : job' = y /\ SoundJob(y) /\ y.request = r
  BY <1>12
<1>14. ControlTyped'
  <2>1. polling' \in {"idle", "read"} \X BOOLEAN
    BY <1>2
  <2> QED BY <1>1, <1>2, <2>1 DEF ControlTyped, Seat
<1>15. TokensIssued' /\ PressesSound' /\ UpdatesSound'
  BY <1>1, <1>2, <1>3, PressesStay DEF TokensIssued, UpdatesSound
<1>16. LineSound'
  <2>1. \A i \in 1..Len(t) : SoundRequest(t[i])'
    BY <1>3, <1>6, <1>9, StillSound
  <2>2. \A i \in 1..Len(c) : SoundRequest(c[i])'
    BY <1>3, <1>6, StillSound
  <2>3. Len(t) <= MaxQueue
    BY <1>6, <1>9, ControlAssumption DEF ControlAssumption
  <2>4. Line(t, c)'
    BY <1>6, <1>9, <2>1, <2>2, <2>3 DEF Line, Ordered, Below
  <2> QED BY <1>10, <2>4 DEF LineSound, Line, SoundRequest, Ordered, Below
<1>17. JobSound'
  <2>1. SoundJob(y)'
    BY <1>3, <1>13, StillSound
  <2>2. SoundJob(job)'
    BY <1>13, <2>1 DEF SoundJob, SoundRequest
  <2> QED BY <1>9, <1>10, <1>13, <2>2 DEF JobSound
<1>18. HidingSound'
  <2> SUFFICES ASSUME NEW d \in ControlledDevices, unanswered[d] # 0
               PROVE  \/ job' # Controls!Nothing /\ Covers(r, d, unanswered[d])
                      \/ Within(t, d, unanswered[d]) \/ Within(c, d, unanswered[d])
                      \/ \E i \in 1..Len(updates) : Covers(updates[i].request, d, unanswered[d])
    BY <1>2, <1>10, <1>13 DEF HidingSound, Hides, Within, Covers
  <2>1. Hides(d) /\ unanswered[d] \in Nat
    BY <1>1 DEF HidingSound, ControlTyped, Seat
  <2>2. job' # Controls!Nothing
    BY <1>13 DEF SoundJob, Controls!Jobs, Controls!Nothing
  <2>3. Within(p, d, unanswered[d]) => Covers(r, d, unanswered[d]) \/ Within(t, d, unanswered[d])
    BY <1>5, <1>6, <1>7, <1>8, ShortenedWithin
  <2> QED BY <1>2, <1>5, <2>1, <2>2, <2>3 DEF Hides
<1> QED BY <1>14, <1>15, <1>16, <1>17, <1>18 DEF ControlInv

LEMMA ControlSteps ==
  ASSUME ControlInv, Controls!Next PROVE ControlInv'
<1>1. CASE \E d \in ControlledDevices, s \in {-1, 1} : Controls!KeyPressed(d, s)
  BY <1>1, KeyPressedSound
<1>2. CASE \E d \in ControlledDevices, v \in Controls!Levels : Controls!SliderMoved(d, v)
  BY <1>2, SliderMovedSound
<1>3. CASE Controls!Locks \/ Controls!Recovers \/ Controls!Unlocks \/ Controls!OsdExpires
  BY <1>3, LocksSound, UnlocksSound
<1>4. CASE Controls!KeyEvent \/ Controls!Update
  BY <1>4, KeyEventSound, UpdateSound
<1>5. CASE Controls!Task \/ Controls!JobFails
  BY <1>5, TakeRequestSound, JobStepSound, PollStepSound, JobFailsSound DEF Controls!Task
<1> QED BY <1>1, <1>2, <1>3, <1>4, <1>5 DEF Controls!Next, ControlledDevices

LEMMA ControlStays ==
  ASSUME ControlInv, UNCHANGED controlVars PROVE ControlInv'
<1>1. ControlTyped' /\ TokensIssued' /\ UpdatesSound'
  BY DEF ControlInv, ControlTyped, Seat, TokensIssued, UpdatesSound, controlVars
<1>2. TokensOnlyGo
  BY TokensStay DEF controlVars, ControlInv
<1> QED BY <1>1, <1>2, LineStays, JobStays, PressesStay, HidingStays DEF ControlInv, controlVars

\* The token of a key is accepted only in the session in which it was pressed, requests are
\* adjusted in the order in which they were made, and a value hides the measured one only
\* while its request is unanswered, whatever levels, queues and bounds there are.
THEOREM ControlsAreSound == Controls!Spec => [](Controls!TypeOK /\ Controls!ControlsSound)
<1>1. ControlInv /\ [Controls!Next]_(Controls!vars) => ControlInv'
  BY ControlSteps, ControlStays DEF Controls!vars, Controls!compositor, Controls!interface,
                                    Controls!work, controlVars
<1> QED BY <1>1, ControlStarts, ControlIsSound, PTL DEF Controls!Spec

-----------------------------------------------------------------------------
(***************************************************************************)
(* The five together.  They share no state, so a step of one leaves the    *)
(* invariants of the others as they are.                                   *)
(***************************************************************************)
ThreadsInv == IdleInv /\ GroupInv /\ CaptureInv /\ HeldInv /\ LaunchInv /\ ControlInv
ThreadsVars == <<vars, groupVars, captureVars, controlVars, launchVars, side>>

\* Each component makes a step of its own, or none.
LEMMA OneAtATime ==
  ASSUME [ThreadsNext]_ThreadsVars
  PROVE  /\ [Next]_vars /\ [Group!Next]_(Group!vars) /\ [Capture!Next]_(Capture!vars)
         /\ [Launching!Next]_(Launching!vars) /\ (Controls!Next \/ UNCHANGED controlVars)
<1>0. /\ UNCHANGED groupVars <=> UNCHANGED Group!vars
      /\ UNCHANGED captureVars <=> UNCHANGED Capture!vars
      /\ UNCHANGED launchVars <=> UNCHANGED Launching!vars
  BY DEF groupVars, captureVars, launchVars, Group!vars, Capture!vars, Capture!captures,
         Launching!vars, Launching!loopVars, Launching!workerVars, Launching!worldVars
<1>1. CASE UNCHANGED ThreadsVars
  BY <1>0, <1>1 DEF ThreadsVars
<1>2. CASE side = "idle" /\ Next /\ UNCHANGED <<groupVars, captureVars, controlVars, launchVars, side>>
  BY <1>0, <1>2
<1>3. CASE /\ Group!User \/ Group!Thread \/ Group!Receive \/ Group!Maintain
           /\ UNCHANGED <<vars, captureVars, controlVars, launchVars, side>>
  BY <1>0, <1>3 DEF Group!Next
<1>4. CASE Capture!Next /\ UNCHANGED <<vars, groupVars, controlVars, launchVars, side>>
  BY <1>0, <1>4
<1>5. CASE Controls!Next /\ UNCHANGED <<vars, groupVars, captureVars, launchVars, side>>
  BY <1>0, <1>5
<1>6. CASE Launching!Next /\ UNCHANGED <<vars, groupVars, captureVars, controlVars, side>>
  BY <1>0, <1>6
<1> QED BY <1>1, <1>2, <1>3, <1>4, <1>5, <1>6 DEF ThreadsNext

LEMMA ThreadsStart == ThreadsInit => ThreadsInv
BY IdleStarts, GroupStarts, CaptureStarts, HeldStarts, LaunchStarts, ControlStarts
   DEF ThreadsInit, ThreadsInv

LEMMA ThreadsStep == ThreadsInv /\ [ThreadsNext]_ThreadsVars => ThreadsInv'
<1> SUFFICES ASSUME ThreadsInv, [ThreadsNext]_ThreadsVars PROVE ThreadsInv'
  OBVIOUS
<1>1. /\ [Next]_vars /\ [Group!Next]_(Group!vars) /\ [Capture!Next]_(Capture!vars)
      /\ [Launching!Next]_(Launching!vars) /\ (Controls!Next \/ UNCHANGED controlVars)
  BY OneAtATime
<1>2. IdleInv /\ GroupInv /\ CaptureInv /\ HeldInv /\ LaunchInv /\ ControlInv
  BY DEF ThreadsInv
<1>3. IdleInv' /\ GroupInv'
  BY <1>1, <1>2, IdleSteps, GroupSteps
<1>4. CaptureInv' /\ HeldInv'
  BY <1>1, <1>2, CaptureSteps, HeldSteps
<1>5. LaunchInv' /\ ControlInv'
  BY <1>1, <1>2, LaunchSteps, ControlSteps, ControlStays
<1> QED BY <1>3, <1>4, <1>5 DEF ThreadsInv

LEMMA ThreadsInvSound == ThreadsInv => ThreadsSound
<1> SUFFICES ASSUME ThreadsInv PROVE ThreadsSound
  OBVIOUS
<1>1. IdleInv /\ GroupInv /\ CaptureInv /\ HeldInv /\ LaunchInv /\ ControlInv
  BY DEF ThreadsInv
<1>2. DeadlinesSound /\ Capture!HeldOnce
  BY <1>1, IdleIsSound, HeldIsHeldOnce
<1>3. Group!TypeOK /\ Group!GatherKept
  BY <1>1 DEF GroupInv
<1>4. Launching!LaunchesSound
  BY <1>1 DEF LaunchInv, Launching!LaunchesSound, Launching!SuccessTruthful, Standing, StandingAt, Told, Begun
<1>5. Controls!TypeOK /\ Controls!ControlsSound
  BY <1>1, ControlIsSound
<1> QED BY <1>2, <1>3, <1>4, <1>5 DEF ThreadsSound

\* The deadlines that are pending are those of the idle windows, the request for a group
\* is the one its thread works for, every capture is held in one place, a slot in one
\* launch, and the token of a key is accepted in the session of its press.
THEOREM ThreadsAreSound == ThreadsSpec => []ThreadsSound
<1> QED BY ThreadsStart, ThreadsStep, ThreadsInvSound, PTL DEF ThreadsSpec, ThreadsVars

\* Side by side as alone, windows join as judged, pixels are sent as they were presented,
\* and what was refused is not started.
THEOREM ThreadsActRightly == ThreadsSpec => JoinsAsJudged /\ CapturesPresented /\ RefusedNeverStarts
<1>1. ThreadsInv /\ [ThreadsNext]_ThreadsVars => [Judged]_(Group!vars)
  BY OneAtATime, GroupSteps DEF ThreadsInv
<1>2. ThreadsInv /\ [ThreadsNext]_ThreadsVars => [Truthful]_(Capture!vars)
  BY OneAtATime, CaptureSteps DEF ThreadsInv
<1>3. ThreadsInv /\ [ThreadsNext]_ThreadsVars => [NotLate]_(Launching!vars)
  BY OneAtATime, LaunchSteps DEF ThreadsInv
<1> QED
  BY <1>1, <1>2, <1>3, ThreadsStart, ThreadsStep, PTL
     DEF ThreadsSpec, ThreadsVars, JoinsAsJudged, Group!JoinsAsJudged, Judged, CapturesPresented,
         Capture!CapturesPresented, Truthful, RefusedNeverStarts, Launching!RefusedNeverStarts,
         NotLate, NotLateAt
=============================================================================

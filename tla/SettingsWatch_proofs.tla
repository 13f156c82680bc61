------------------------- MODULE SettingsWatch_proofs -------------------------
(***************************************************************************)
(* Proofs about the watches of the settings file, for any consumers,       *)
(* settings and bounds.                                                    *)
(*                                                                         *)
(* No wakeup is lost because a change leaves an event wherever the watch   *)
(* is held, and a watch that lost its directory has left one (Alert): so   *)
(* what the visits of a round have seen is what the file holds (Sighted).  *)
(* A refresh is acknowledged truthfully because a consumer has one open    *)
(* connection at a time (SoleFor), and what the daemon answers on it was   *)
(* read after everything was asked that the consumer has not acknowledged  *)
(* (TimelyFor).                                                            *)
(***************************************************************************)
EXTENDS SettingsWatch, FiniteSetTheorems, SequenceTheorems, TLAPS

\* The events tell of a lost directory, and the daemon knows whether it holds a watch.
Alert ==
  /\ gone => events
  /\ held /\ ~watched => gone
  /\ step \in {"accept", "visit", "wait"} /\ ~events => watched

Watching(k) == k.stage \in {"watching", "due"}
SilentlyOpen(k) == k.stage = "silent" /\ k.open

\* The clients that this round of visits has passed.
Visited(i) == i \in 1..Len(clients) /\ (step = "wait" \/ (step = "visit" /\ i < position))

Sighted == ~events => \A i \in 1..Len(clients) :
                         Visited(i) /\ Watching(clients[i]) => Loaded(file) = clients[i].after

\* The counters of a round count what it leaves in its places.
Counted ==
  /\ watchers < position /\ unfinished < position
  /\ step \in {"visit", "wait"} =>
       LET watching == {i \in 1..Len(clients) : Visited(i) /\ Watching(clients[i])}
           silent == {i \in 1..Len(clients) : Visited(i) /\ SilentlyOpen(clients[i])}
       IN /\ Cardinality(watching) <= watchers /\ Cardinality(watching) <= MaxWatchers
          /\ Cardinality(silent) <= unfinished /\ Cardinality(silent) <= MaxUnfinished

\* A worker that has ended its exchange has handed over what it took.
Rested == \A c \in Consumers : worker[c] \in {"ready", "parked"} => taken[c] = <<>>

WatchInv == TypeOK /\ Alert /\ Sighted /\ Counted /\ RefreshesCounted /\ Rested

\* A worker that has not got its answer waits on one connection.
Waits(c) == worker[c] \in {"connected", "sent"} /\ answer[c] = Nothing
Among(s, c) == \E i \in 1..Len(s) : Current(s[i], c)
AtMostOne(s, c) ==
  \A i, j \in 1..Len(s) : Current(s[i], c) /\ Current(s[j], c) => i = j
SoleFor(c) ==
  /\ AtMostOne(clients, c) /\ AtMostOne(backlog, c) /\ ~(Among(clients, c) /\ Among(backlog, c))
  /\ Among(clients, c) \/ Among(backlog, c) => Waits(c)

\* The snapshot s was in the file at or after the moment t of the history h, and at or
\* after everything in ts, asked of the worker, and in cs, completed and not acknowledged.
Since(h, s, t) == \E v \in t..Len(h) : h[v] # Broken /\ s = Loaded(h[v])
Serves(h, s, ts, cs) ==
  /\ \A i \in 1..Len(ts) : Since(h, s, ts[i])
  /\ \A i \in 1..Len(cs) : Since(h, s, cs[i].since)

\* The answer a serves them, and so will the response on the connection k.
Keeps(h, a, ts, cs) ==
  /\ a \in Snapshots => Serves(h, a, ts, cs)
  /\ a = Unchanged => ts = <<>>
KeepsOn(h, k, ts, cs) ==
  /\ ts # <<>> => k.after = Nothing
  /\ k.response = Unchanged => k.after # Nothing
  /\ k.response \in Snapshots => Serves(h, k.response, ts, cs)
AllKeep(h, s, c, ts, cs) ==
  \A i \in 1..Len(s) : Current(s[i], c) => KeepsOn(h, s[i], ts, cs)

\* The mailbox s holds what the completions promise.
Promised(h, s, cs) ==
  \A i \in 1..Len(cs) : cs[i].ok => s # Nothing /\ Since(h, s, cs[i].since)

Dated(h, ts) == \A i \in 1..Len(ts) : ts[i] <= Len(h)
Recalled(h, cs) == \A i \in 1..Len(cs) : cs[i].since <= Len(h)

TimelyFor(c) ==
  /\ Dated(history, queued[c]) /\ Dated(history, taken[c]) /\ Recalled(history, completed[c])
  /\ Keeps(history, answer[c], taken[c], completed[c])
  /\ AllKeep(history, clients, c, taken[c], completed[c])
  /\ AllKeep(history, backlog, c, taken[c], completed[c])
  /\ Promised(history, latest[c], completed[c])

TruthFor(c) == SoleFor(c) /\ TimelyFor(c)
Written == file = history[Len(history)]
TruthInv == WatchInv /\ Written /\ \A c \in Consumers : TruthFor(c)

-----------------------------------------------------------------------------
(* Sequences. *)

LEMMA Removed ==
  ASSUME NEW S, NEW s \in Seq(S), NEW p \in 1..Len(s)
  PROVE  /\ RemoveAt(s, p) \in Seq(S) /\ Len(RemoveAt(s, p)) = Len(s) - 1
         /\ \A i \in 1..(Len(s) - 1) : RemoveAt(s, p)[i] = IF i < p THEN s[i] ELSE s[i + 1]
<1> DEFINE a == SubSeq(s, 1, p - 1)
           b == SubSeq(s, p + 1, Len(s))
<1>0. Len(s) \in Nat /\ \A i \in 1..Len(s) : s[i] \in S
  OBVIOUS
<1>1. a \in Seq(S) /\ Len(a) = p - 1 /\ \A i \in 1..(p - 1) : a[i] = s[i]
  <2>1. \A i \in 1..(p - 1) : s[i] \in S
    BY <1>0
  <2> QED
    BY <1>0, <2>1, SubSeqProperties
<1>2. b \in Seq(S) /\ Len(b) = Len(s) - p /\ \A i \in 1..(Len(s) - p) : b[i] = s[p + i]
  <2>1. \A i \in (p + 1)..Len(s) : s[i] \in S
    BY <1>0
  <2>2. /\ SubSeq(s, p + 1, Len(s)) \in Seq(S)
        /\ Len(SubSeq(s, p + 1, Len(s))) = IF p + 1 <= Len(s) THEN Len(s) - (p + 1) + 1 ELSE 0
        /\ \A i \in 1..(Len(s) - (p + 1) + 1) : SubSeq(s, p + 1, Len(s))[i] = s[(p + 1) + i - 1]
    BY <1>0, <2>1, SubSeqProperties
  <2> QED
    BY <1>0, <2>2
<1> HIDE DEF a, b
<1>3. /\ a \o b \in Seq(S) /\ Len(a \o b) = Len(a) + Len(b)
      /\ \A i \in 1..(Len(a) + Len(b)) : (a \o b)[i] = IF i <= Len(a) THEN a[i] ELSE b[i - Len(a)]
  BY <1>1, <1>2, ConcatProperties
<1>4. RemoveAt(s, p) = a \o b
  BY DEF RemoveAt, a, b
<1>5. Len(a) = p - 1 /\ Len(b) = Len(s) - p
  BY <1>1, <1>2
<1>6. ASSUME NEW i \in 1..(Len(s) - 1)
      PROVE  (a \o b)[i] = IF i < p THEN s[i] ELSE s[i + 1]
  <2>1. i \in 1..(Len(a) + Len(b)) /\ (i < p <=> i <= Len(a))
    BY <1>0, <1>5
  <2>2. CASE i < p
    BY <1>1, <1>3, <2>1, <2>2
  <2>3. CASE ~(i < p)
    <3>1. i - Len(a) \in 1..(Len(s) - p) /\ p + (i - Len(a)) = i + 1
      BY <1>0, <1>5, <2>3
    <3> QED
      BY <1>2, <1>3, <2>1, <2>3, <3>1
  <2> QED
    BY <2>2, <2>3
<1>7. Len(a) + Len(b) = Len(s) - 1
  BY <1>0, <1>5
<1>8. a \o b \in Seq(S) /\ Len(a \o b) = Len(s) - 1
  BY <1>3, <1>7
<1> QED
  BY <1>4, <1>6, <1>8, Zenon

LEMMA Mapped ==
  ASSUME NEW S, NEW s \in Seq(S), NEW t, t \in [1..Len(s) -> S]
  PROVE  t \in Seq(S) /\ Len(t) = Len(s)
<1>1. Len(s) \in Nat
  OBVIOUS
<1> QED
  BY <1>1, SeqDef

-----------------------------------------------------------------------------
(* The types, and the operators on snapshots and connections. *)

HistoryOK == history \in Seq(Register!Files) /\ Len(history) \in Moments
FlagsOK ==
  /\ events \in BOOLEAN /\ gone \in BOOLEAN /\ held \in BOOLEAN /\ watched \in BOOLEAN
  /\ step \in {"drain", "rewatch", "accept", "visit", "wait", "down"}
PeersOK == clients \in Seq(Connections) /\ Len(clients) <= MaxClients /\ backlog \in Seq(Connections)
RoundOK ==
  /\ position \in 1..(MaxClients + 1)
  /\ watchers \in 0..MaxClients /\ unfinished \in 0..MaxClients
WorkersOK ==
  /\ worker \in [Consumers -> {"ready", "connected", "sent", "parked"}]
  /\ cursor \in [Consumers -> Snapshots \cup {Nothing}]
  /\ answer \in [Consumers -> Answers \cup {Nothing}]
AskedOK == queued \in [Consumers -> Seq(Moments)] /\ taken \in [Consumers -> Seq(Moments)]
MailOK ==
  /\ latest \in [Consumers -> Snapshots \cup {Nothing}]
  /\ completed \in [Consumers -> Seq(Completions)]
  /\ pending \in [Consumers -> 0..MaxPending]
  /\ applied \in [Consumers -> Snapshots \cup {Nothing}]
BoundsOK == refreshes \in 0..MaxRefreshes /\ faults \in 0..MaxFaults

LEMMA Types ==
  TypeOK <=> /\ Register!TypeOK /\ HistoryOK /\ FlagsOK /\ PeersOK /\ RoundOK
             /\ WorkersOK /\ AskedOK /\ MailOK /\ BoundsOK
BY DEF TypeOK, HistoryOK, FlagsOK, PeersOK, RoundOK, WorkersOK, AskedOK, MailOK, BoundsOK

LEMMA TypesNext ==
  ASSUME Register!TypeOK', HistoryOK', FlagsOK', PeersOK', RoundOK', WorkersOK', AskedOK', MailOK',
         BoundsOK'
  PROVE  TypeOK'
BY DEF TypeOK, HistoryOK, FlagsOK, PeersOK, RoundOK, WorkersOK, AskedOK, MailOK, BoundsOK

LEMMA LoadedIs ==
  ASSUME NEW f \in Register!Files, f # Broken
  PROVE  Loaded(f) \in Snapshots
BY DefaultAssumption, BoundAssumption
DEF Loaded, Snapshots, Register!Files, Register!Snapshots, BoundAssumption, DefaultAssumption

\* The changes of a connection.
LEMMA Closings ==
  ASSUME NEW k \in Connections
  PROVE  /\ [k EXCEPT !.open = FALSE] \in Connections
         /\ [k EXCEPT !.open = FALSE].who = k.who /\ [k EXCEPT !.open = FALSE].after = k.after
         /\ [k EXCEPT !.open = FALSE].stage = k.stage /\ ~[k EXCEPT !.open = FALSE].open
         /\ [k EXCEPT !.open = FALSE].response = k.response
BY DEF Connections

LEMMA Responses ==
  ASSUME NEW k \in Connections, NEW r \in Answers \cup {Nothing}
  PROVE  /\ Respond(k, r) \in Connections
         /\ Respond(k, r).who = k.who /\ Respond(k, r).after = k.after
         /\ Respond(k, r).stage = "answered" /\ Respond(k, r).response = r
         /\ Respond(k, r).open = k.open
BY DEF Connections, Respond

\* A visit reads the request, looks at the file and answers.
LEMMA Looks ==
  ASSUME NEW k \in Connections, Register!TypeOK
  PROVE  LET w == Watched(Dispatched(k))
         IN /\ w \in Connections /\ w.who = k.who /\ w.after = k.after /\ w.open = k.open
            /\ Watching(w) => Loaded(file) = k.after
            /\ w.stage = "silent" => w = k
            /\ \/ w.response = k.response
               \/ w.response = Refused
               \/ w.response = Unchanged /\ k.after \in Snapshots
               \/ w.response \in Snapshots /\ file # Broken /\ w.response = Loaded(file)
<1> DEFINE d == Dispatched(k)
           w == Watched(d)
<1>0. file \in Register!Files /\ (file # Broken => Loaded(file) \in Snapshots)
  BY LoadedIs DEF Register!TypeOK
<1>1. /\ d \in Connections /\ d.who = k.who /\ d.after = k.after /\ d.open = k.open
      /\ d.stage = "silent" => d = k
      /\ \/ d.response = k.response
         \/ d.response = Refused
         \/ d.response \in Snapshots /\ file # Broken /\ d.response = Loaded(file)
  <2>1. CASE k.stage = "unread" /\ k.after # Nothing
    <3>1. d = [k EXCEPT !.stage = "watching"]
      BY <2>1 DEF Dispatched
    <3>2. d \in Connections /\ d.who = k.who /\ d.after = k.after /\ d.stage = "watching"
          /\ d.response = k.response /\ d.open = k.open
      BY <3>1 DEF Connections
    <3> QED
      BY <3>2
  <2>2. CASE k.stage = "unread" /\ k.after = Nothing
    <3>1. d = Respond(k, IF file = Broken THEN Refused ELSE Loaded(file))
      BY <2>2 DEF Dispatched
    <3> QED
      BY <1>0, <3>1, Responses DEF Answers
  <2>3. CASE k.stage # "unread"
    <3>1. d = k
      BY <2>3 DEF Dispatched
    <3> QED
      BY <3>1
  <2> QED
    BY <2>1, <2>2, <2>3
<1> HIDE DEF d
<1>2. CASE d.stage \in {"watching", "due"} /\ file = Broken
  <2>1. Loaded(file) # d.after
    BY <1>1, <1>2, NameAssumption, NoValueAssumption
    DEF Loaded, Connections, NameAssumption, NoValueAssumption
  <2>2. w = Respond(d, Refused)
    BY <1>2, <2>1 DEF Watched
  <2> QED
    BY <1>1, <2>2, Responses DEF Answers, Watching, d
<1>3. CASE d.stage \in {"watching", "due"} /\ file # Broken /\ Loaded(file) # d.after
  <2>1. w = Respond(d, Loaded(file))
    BY <1>3 DEF Watched
  <2> QED
    BY <1>0, <1>1, <1>3, <2>1, Responses DEF Answers, Watching, d
<1>4. CASE d.stage = "due" /\ file # Broken /\ Loaded(file) = d.after
  <2>1. w = Respond(d, Unchanged)
    BY <1>4 DEF Watched
  <2> QED
    BY <1>0, <1>1, <1>4, <2>1, Responses DEF Answers, Watching, d
<1>5. CASE ~(d.stage \in {"watching", "due"}) \/ (d.stage = "watching" /\ file # Broken /\ Loaded(file) = d.after)
  <2>1. w = d
    BY <1>5 DEF Watched
  <2> QED
    BY <1>1, <1>5, <2>1 DEF Watching, d
<1> QED
  BY <1>2, <1>3, <1>4, <1>5

-----------------------------------------------------------------------------
(* The rounds of visits. *)

LEMMA Fewer ==
  ASSUME NEW n \in Nat, NEW S, S \subseteq 1..n, NEW T, T \subseteq S
  PROVE  /\ Cardinality(S) \in Nat /\ Cardinality(T) \in Nat
         /\ Cardinality(T) <= Cardinality(S)
<1>1. IsFiniteSet(1..n)
  BY FS_Interval
<1>2. IsFiniteSet(S) /\ IsFiniteSet(T)
  BY <1>1, FS_Subset
<1> QED
  BY <1>2, FS_Subset, FS_CardinalityType

LEMMA OneMore ==
  ASSUME NEW n \in Nat, NEW S, S \subseteq 1..n, NEW T, NEW x, T \subseteq S \cup {x}
  PROVE  /\ Cardinality(S) \in Nat /\ Cardinality(T) \in Nat
         /\ Cardinality(T) <= Cardinality(S) + 1
<1>1. IsFiniteSet(1..n)
  BY FS_Interval
<1>2. IsFiniteSet(S)
  BY <1>1, FS_Subset
<1>3. IsFiniteSet(S \cup {x}) /\ Cardinality(S \cup {x}) <= Cardinality(S) + 1
  <2>1. /\ IsFiniteSet(S \cup {x})
        /\ Cardinality(S \cup {x}) = IF x \in S THEN Cardinality(S) ELSE Cardinality(S) + 1
    BY <1>2, FS_AddElement
  <2>2. Cardinality(S) \in Nat
    BY <1>2, FS_CardinalityType
  <2> QED BY <2>1, <2>2
<1>4. IsFiniteSet(T) /\ Cardinality(T) <= Cardinality(S \cup {x})
  BY <1>3, FS_Subset
<1>5. Cardinality(S) \in Nat /\ Cardinality(T) \in Nat /\ Cardinality(S \cup {x}) \in Nat
  BY <1>2, <1>3, <1>4, FS_CardinalityType
<1> QED
  BY <1>3, <1>4, <1>5

\* The clients of this round that watch, and those that are silent.
WatchingNow == {i \in 1..Len(clients) : Visited(i) /\ Watching(clients[i])}
SilentNow == {i \in 1..Len(clients) : Visited(i) /\ SilentlyOpen(clients[i])}

LEMMA CountedIs ==
  Counted <=>
    /\ watchers < position /\ unfinished < position
    /\ step \in {"visit", "wait"} =>
         /\ Cardinality(WatchingNow) <= watchers /\ Cardinality(WatchingNow) <= MaxWatchers
         /\ Cardinality(SilentNow) <= unfinished /\ Cardinality(SilentNow) <= MaxUnfinished
BY DEF Counted, WatchingNow, SilentNow

LEMMA CountedNext ==
  ASSUME watchers' < position', unfinished' < position',
         step' \in {"visit", "wait"} =>
           /\ Cardinality(WatchingNow') <= watchers' /\ Cardinality(WatchingNow') <= MaxWatchers
           /\ Cardinality(SilentNow') <= unfinished' /\ Cardinality(SilentNow') <= MaxUnfinished
  PROVE  Counted'
BY DEF Counted, WatchingNow, SilentNow

LEMMA OffDuty ==
  ASSUME step' \notin {"visit", "wait"}, watchers' < position', unfinished' < position'
  PROVE  Sighted' /\ Counted'
<1>1. Sighted'
  BY DEF Sighted, Visited
<1> QED
  BY <1>1, CountedNext

\* What the sets of a round are when the daemon has as few in them as before.
LEMMA NoMore ==
  ASSUME WatchInv, WatchingNow' \subseteq WatchingNow, SilentNow' \subseteq SilentNow,
         step \in {"visit", "wait"},
         UNCHANGED <<watchers, unfinished>>, watchers' < position', unfinished' < position'
  PROVE  Counted'
<1>1. Len(clients) \in Nat /\ watchers \in Nat /\ unfinished \in Nat
      /\ MaxWatchers \in Nat /\ MaxUnfinished \in Nat
  BY Types, BoundAssumption DEF WatchInv, PeersOK, RoundOK, BoundAssumption
<1>2. WatchingNow \subseteq 1..Len(clients) /\ SilentNow \subseteq 1..Len(clients)
  BY DEF WatchingNow, SilentNow
<1>3. Cardinality(WatchingNow) \in Nat /\ Cardinality(WatchingNow') \in Nat
      /\ Cardinality(WatchingNow') <= Cardinality(WatchingNow)
  BY <1>1, <1>2, Fewer
<1>4. Cardinality(SilentNow) \in Nat /\ Cardinality(SilentNow') \in Nat
      /\ Cardinality(SilentNow') <= Cardinality(SilentNow)
  BY <1>1, <1>2, Fewer
<1>5. /\ Cardinality(WatchingNow) <= watchers /\ Cardinality(WatchingNow) <= MaxWatchers
      /\ Cardinality(SilentNow) <= unfinished /\ Cardinality(SilentNow) <= MaxUnfinished
  BY CountedIs DEF WatchInv
<1>6. /\ Cardinality(WatchingNow') <= watchers' /\ Cardinality(WatchingNow') <= MaxWatchers
      /\ Cardinality(SilentNow') <= unfinished' /\ Cardinality(SilentNow') <= MaxUnfinished
  BY <1>1, <1>3, <1>4, <1>5
<1> QED
  BY <1>6, CountedNext

\* A change of the clients that makes none of them watch or fall silent.
LEMMA Calmer ==
  ASSUME WatchInv, UNCHANGED <<file, events, step, position, watchers, unfinished>>,
         Len(clients') = Len(clients),
         \A i \in 1..Len(clients) :
           /\ clients'[i].after = clients[i].after
           /\ Watching(clients[i])' => Watching(clients[i])
           /\ SilentlyOpen(clients[i])' => SilentlyOpen(clients[i])
  PROVE  Sighted' /\ Counted'
<1>1. \A i \in 1..Len(clients) : Visited(i)' <=> Visited(i)
  BY DEF Visited
<1>2. Sighted'
  BY <1>1 DEF Sighted, WatchInv, Loaded
<1>3. WatchingNow' \subseteq WatchingNow /\ SilentNow' \subseteq SilentNow
  BY <1>1 DEF WatchingNow, SilentNow
<1>4. watchers' < position' /\ unfinished' < position'
  BY DEF WatchInv, Counted
<1>5. CASE step \in {"visit", "wait"}
  <2>1. Counted'
    BY <1>3, <1>4, <1>5, NoMore
  <2> QED
    BY <1>2, <2>1
<1>6. CASE step \notin {"visit", "wait"}
  BY <1>4, <1>6, OffDuty
<1> QED
  BY <1>2, <1>5, <1>6

\* A client leaves: the next one takes its place.
LEMMA Departs ==
  ASSUME WatchInv, step = "visit", position <= Len(clients),
         clients' = RemoveAt(clients, position),
         UNCHANGED <<file, events, step, position, watchers, unfinished, backlog>>
  PROVE  PeersOK' /\ RoundOK' /\ Sighted' /\ Counted'
<1>1. /\ clients \in Seq(Connections) /\ Len(clients) \in Nat /\ Len(clients) <= MaxClients
      /\ position \in 1..Len(clients) /\ backlog \in Seq(Connections) /\ MaxClients \in Nat
  BY Types, BoundAssumption DEF WatchInv, PeersOK, RoundOK, BoundAssumption
<1>2. /\ clients' \in Seq(Connections) /\ Len(clients') = Len(clients) - 1
      /\ \A i \in 1..(Len(clients) - 1) : i < position => clients'[i] = clients[i]
  BY <1>1, Removed
<1>3. PeersOK'
  BY <1>1, <1>2 DEF PeersOK
<1>4. RoundOK'
  BY Types DEF WatchInv, RoundOK
<1>5. \A i \in 1..Len(clients') : Visited(i)' => i \in 1..Len(clients) /\ Visited(i) /\ clients'[i] = clients[i]
  BY <1>1, <1>2 DEF Visited
<1>6. Sighted'
  BY <1>5 DEF Sighted, WatchInv, Loaded, Watching
<1>7. WatchingNow' \subseteq WatchingNow /\ SilentNow' \subseteq SilentNow
  BY <1>5 DEF WatchingNow, SilentNow, Watching, SilentlyOpen
<1>8. watchers' < position' /\ unfinished' < position'
  BY DEF WatchInv, Counted
<1> QED
  BY <1>3, <1>4, <1>6, <1>7, <1>8, NoMore

\* A client stays, counted where it takes a place.
LEMMA Remains ==
  ASSUME WatchInv, step = "visit", position <= Len(clients),
         NEW k \in Connections, clients' = [clients EXCEPT ![position] = k],
         position' = position + 1,
         watchers' \in {watchers, watchers + 1}, unfinished' \in {unfinished, unfinished + 1},
         Watching(k) => /\ Loaded(file) = k.after
                        /\ watchers' = watchers + 1 /\ watchers' <= MaxWatchers,
         SilentlyOpen(k) => unfinished' = unfinished + 1 /\ unfinished' <= MaxUnfinished,
         UNCHANGED <<file, events, step, backlog>>
  PROVE  PeersOK' /\ RoundOK' /\ Sighted' /\ Counted'
<1>1. /\ clients \in Seq(Connections) /\ Len(clients) \in Nat /\ Len(clients) <= MaxClients
      /\ position \in 1..Len(clients) /\ backlog \in Seq(Connections) /\ MaxClients \in Nat
      /\ watchers \in Nat /\ unfinished \in Nat /\ watchers < position /\ unfinished < position
      /\ MaxWatchers \in Nat /\ MaxUnfinished \in Nat
  BY Types, BoundAssumption DEF WatchInv, PeersOK, RoundOK, BoundAssumption, Counted
<1>2. /\ clients' \in Seq(Connections) /\ Len(clients') = Len(clients)
      /\ \A i \in 1..Len(clients) : clients'[i] = IF i = position THEN k ELSE clients[i]
  BY <1>1, ExceptSeq
<1>3. PeersOK'
  BY <1>1, <1>2 DEF PeersOK
<1>4. watchers' < position' /\ unfinished' < position' /\ watchers' \in Nat /\ unfinished' \in Nat
      /\ position' \in 1..(MaxClients + 1)
  BY <1>1
<1>5. RoundOK'
  BY <1>1, <1>4 DEF RoundOK
<1>6. \A i \in 1..Len(clients) : Visited(i)' => i = position \/ Visited(i)
  BY <1>1, <1>2 DEF Visited
<1>7. Sighted'
  BY <1>2, <1>6 DEF Sighted, WatchInv, Loaded, Watching
<1>8. /\ WatchingNow \subseteq 1..Len(clients) /\ SilentNow \subseteq 1..Len(clients)
      /\ Cardinality(WatchingNow) <= watchers /\ Cardinality(WatchingNow) <= MaxWatchers
      /\ Cardinality(SilentNow) <= unfinished /\ Cardinality(SilentNow) <= MaxUnfinished
  BY CountedIs DEF WatchInv, WatchingNow, SilentNow
<1>9. Cardinality(WatchingNow') <= watchers' /\ Cardinality(WatchingNow') <= MaxWatchers
  <2>1. CASE Watching(k)
    <3>1. WatchingNow' \subseteq WatchingNow \cup {position}
      BY <1>2, <1>6 DEF WatchingNow, Watching
    <3>2. /\ Cardinality(WatchingNow) \in Nat /\ Cardinality(WatchingNow') \in Nat
          /\ Cardinality(WatchingNow') <= Cardinality(WatchingNow) + 1
      BY <1>1, <1>8, <3>1, OneMore
    <3> QED
      BY <1>1, <1>8, <2>1, <3>2
  <2>2. CASE ~Watching(k)
    <3>1. WatchingNow' \subseteq WatchingNow
      BY <1>2, <1>6, <2>2 DEF WatchingNow, Watching
    <3>2. /\ Cardinality(WatchingNow) \in Nat /\ Cardinality(WatchingNow') \in Nat
          /\ Cardinality(WatchingNow') <= Cardinality(WatchingNow)
      BY <1>1, <1>8, <3>1, Fewer
    <3> QED
      BY <1>1, <1>8, <3>2
  <2> QED
    BY <2>1, <2>2
<1>10. Cardinality(SilentNow') <= unfinished' /\ Cardinality(SilentNow') <= MaxUnfinished
  <2>1. CASE SilentlyOpen(k)
    <3>1. SilentNow' \subseteq SilentNow \cup {position}
      BY <1>2, <1>6 DEF SilentNow, SilentlyOpen
    <3>2. /\ Cardinality(SilentNow) \in Nat /\ Cardinality(SilentNow') \in Nat
          /\ Cardinality(SilentNow') <= Cardinality(SilentNow) + 1
      BY <1>1, <1>8, <3>1, OneMore
    <3> QED
      BY <1>1, <1>8, <2>1, <3>2
  <2>2. CASE ~SilentlyOpen(k)
    <3>1. SilentNow' \subseteq SilentNow
      BY <1>2, <1>6, <2>2 DEF SilentNow, SilentlyOpen
    <3>2. /\ Cardinality(SilentNow) \in Nat /\ Cardinality(SilentNow') \in Nat
          /\ Cardinality(SilentNow') <= Cardinality(SilentNow)
      BY <1>1, <1>8, <3>1, Fewer
    <3> QED
      BY <1>1, <1>8, <3>2
  <2> QED
    BY <2>1, <2>2
<1>11. Counted'
  BY <1>4, <1>9, <1>10, CountedNext
<1> QED
  BY <1>3, <1>5, <1>7, <1>11

-----------------------------------------------------------------------------
(* The steps: wakeups, places and refreshes. *)

\* What a step leaves alone keeps its type.
LEMMA Same ==
  ASSUME WatchInv
  PROVE  /\ UNCHANGED <<file, highest>> => Register!TypeOK'
         /\ UNCHANGED history => HistoryOK'
         /\ UNCHANGED <<changeVars, step>> => FlagsOK' /\ Alert'
         /\ UNCHANGED <<clients, backlog>> => PeersOK'
         /\ UNCHANGED <<position, watchers, unfinished>> => RoundOK'
         /\ UNCHANGED <<worker, cursor, answer>> => WorkersOK'
         /\ UNCHANGED <<queued, taken>> => AskedOK'
         /\ UNCHANGED <<latest, completed, pending, applied>> => MailOK'
         /\ UNCHANGED <<refreshes, faults>> => BoundsOK'
         /\ UNCHANGED <<queued, taken, completed, pending>> => RefreshesCounted'
         /\ UNCHANGED <<worker, taken>> => Rested'
<1>1. UNCHANGED <<file, highest>> => Register!TypeOK'
  BY Types DEF WatchInv, Register!TypeOK
<1>2. UNCHANGED history => HistoryOK'
  BY Types DEF WatchInv, HistoryOK
<1>3. UNCHANGED <<changeVars, step>> => FlagsOK' /\ Alert'
  BY Types DEF WatchInv, FlagsOK, Alert, changeVars
<1>4. UNCHANGED <<clients, backlog>> => PeersOK'
  BY Types DEF WatchInv, PeersOK
<1>5. UNCHANGED <<position, watchers, unfinished>> => RoundOK'
  BY Types DEF WatchInv, RoundOK
<1>6. UNCHANGED <<worker, cursor, answer>> => WorkersOK'
  BY Types DEF WatchInv, WorkersOK
<1>7. UNCHANGED <<queued, taken>> => AskedOK'
  BY Types DEF WatchInv, AskedOK
<1>8. UNCHANGED <<latest, completed, pending, applied>> => MailOK'
  BY Types DEF WatchInv, MailOK
<1>9. UNCHANGED <<refreshes, faults>> => BoundsOK'
  BY Types DEF WatchInv, BoundsOK
<1>10. UNCHANGED <<queued, taken, completed, pending>> => RefreshesCounted'
  BY DEF WatchInv, RefreshesCounted
<1>11. UNCHANGED <<worker, taken>> => Rested'
  BY DEF WatchInv, Rested
<1> QED
  BY <1>1, <1>2, <1>3, <1>4, <1>5, <1>6, <1>7, <1>8, <1>9, <1>10, <1>11

LEMMA FaultCounted ==
  ASSUME WatchInv, Fault, UNCHANGED refreshes
  PROVE  BoundsOK'
<1>1. MaxFaults \in Nat
  BY BoundAssumption DEF BoundAssumption
<1> QED
  BY <1>1, Types DEF WatchInv, BoundsOK, Fault

\* The daemon's side rests.
LEMMA ServerRests ==
  ASSUME WatchInv, UNCHANGED <<file, changeVars, step, position, clients, watchers, unfinished>>
  PROVE  FlagsOK' /\ Alert' /\ RoundOK' /\ Sighted' /\ Counted'
<1>1. FlagsOK' /\ Alert' /\ RoundOK'
  BY Same
<1>2. \A i \in 1..Len(clients) :
           /\ clients'[i].after = clients[i].after
           /\ Watching(clients[i])' => Watching(clients[i])
           /\ SilentlyOpen(clients[i])' => SilentlyOpen(clients[i])
  BY DEF Watching, SilentlyOpen
<1>3. UNCHANGED <<file, events, step, position, watchers, unfinished>> /\ Len(clients') = Len(clients)
  BY DEF changeVars
<1> QED
  BY <1>1, <1>2, <1>3, Calmer

LEMMA WatchInvNext ==
  ASSUME TypeOK', Alert', Sighted', Counted', RefreshesCounted', Rested'
  PROVE  WatchInv'
BY DEF WatchInv

\* A change leaves an event, or finds the daemon before its next round.
LEMMA FileStep ==
  ASSUME WatchInv, Change \/ Replace
  PROVE  WatchInv'
<1>1. UNCHANGED <<held, serverVars, workerVars, mailboxVars, refreshes, faults>>
      /\ events' = (events \/ watched)
      /\ \/ UNCHANGED <<gone, watched>>
         \/ gone' = (gone \/ watched) /\ watched' = FALSE
  BY DEF Change, Replace
<1>2. Register!TypeOK'
  <2>1. MaxRevision \in Nat
    BY BoundAssumption DEF BoundAssumption
  <2>2. CASE Register!Outside
    BY <2>2, Types DEF WatchInv, Register!TypeOK, Register!Outside
  <2>3. CASE Register!Commit
    <3>1. PICK t \in Settings, r \in 1..MaxRevision :
            file' = [revision |-> r, settings |-> t] /\ highest' = r
      BY <2>3 DEF Register!Commit
    <3> QED
      BY <2>1, <3>1 DEF Register!TypeOK, Register!Files, Register!Snapshots
  <2> QED
    BY <2>2, <2>3 DEF Change, Replace, Register!Next
<1>3. HistoryOK'
  <2>1. Len(history) <= MaxChanges /\ history' = Append(history, file')
    BY DEF Change, Replace, Recorded
  <2>2. MaxChanges \in Nat
    BY BoundAssumption DEF BoundAssumption
  <2>3. history \in Seq(Register!Files) /\ file' \in Register!Files /\ Len(history) \in Nat
    BY <1>2, Types DEF WatchInv, HistoryOK, Register!TypeOK
  <2>4. history' \in Seq(Register!Files) /\ Len(history') = Len(history) + 1
    BY <2>1, <2>3
  <2> QED
    BY <2>1, <2>2, <2>3, <2>4 DEF HistoryOK, Moments
<1>4. FlagsOK' /\ Alert'
  <2>1. FlagsOK /\ Alert /\ step' = step /\ held' = held
    BY <1>1, Types DEF WatchInv, serverVars
  <2>2. FlagsOK'
    <3>1. (events \/ watched) \in BOOLEAN /\ (gone \/ watched) \in BOOLEAN
      OBVIOUS
    <3> QED
      BY <1>1, <2>1, <3>1 DEF FlagsOK
  <2>3. Alert'
    BY <1>1, <2>1 DEF FlagsOK, Alert
  <2> QED
    BY <2>2, <2>3
<1>5. /\ PeersOK' /\ RoundOK' /\ WorkersOK' /\ AskedOK' /\ MailOK' /\ BoundsOK'
      /\ RefreshesCounted' /\ Rested'
  BY <1>1, Same DEF serverVars, workerVars, mailboxVars
<1>6. Sighted'
  <2>1. CASE step \in {"visit", "wait"}
    BY <1>1, <2>1 DEF WatchInv, Alert, Sighted
  <2>2. CASE step \notin {"visit", "wait"}
    BY <1>1, <2>2 DEF Sighted, Visited, serverVars
  <2> QED
    BY <2>1, <2>2
<1>7. Counted'
  <2>1. WatchingNow' = WatchingNow /\ SilentNow' = SilentNow
    BY <1>1 DEF WatchingNow, SilentNow, Visited, Watching, SilentlyOpen, serverVars
  <2> QED
    BY <1>1, <2>1, CountedIs, CountedNext DEF WatchInv, serverVars
<1>8. TypeOK'
  BY <1>2, <1>3, <1>4, <1>5, TypesNext
<1> QED
  BY <1>4, <1>5, <1>6, <1>7, <1>8, WatchInvNext

\* The daemon goes to its next step.
LEMMA ControlStep ==
  ASSUME WatchInv, Drain \/ Rewatch \/ EndRound \/ Wake \/ Restart
  PROVE  WatchInv'
<1>1. UNCHANGED <<fileVars, position, clients, backlog, watchers, unfinished, workerVars, mailboxVars,
                  refreshes, faults>>
  BY DEF Drain, Rewatch, EndRound, Wake, Restart
<1>2. FlagsOK' /\ Alert'
  <2>1. FlagsOK /\ Alert
    BY Types DEF WatchInv
  <2>2. CASE Drain
    BY <2>1, <2>2 DEF FlagsOK, Alert, Drain
  <2>3. CASE Rewatch
    BY <2>1, <2>3 DEF FlagsOK, Alert, Rewatch
  <2>4. CASE EndRound \/ Wake
    BY <2>1, <2>4 DEF FlagsOK, Alert, EndRound, Wake, changeVars
  <2>5. CASE Restart
    BY <2>1, <2>5 DEF FlagsOK, Alert, Restart
  <2> QED
    BY <2>2, <2>3, <2>4, <2>5
<1>3. /\ Register!TypeOK' /\ HistoryOK' /\ PeersOK' /\ RoundOK' /\ WorkersOK' /\ AskedOK' /\ MailOK'
      /\ BoundsOK' /\ RefreshesCounted' /\ Rested'
  BY <1>1, Same DEF fileVars, workerVars, mailboxVars
<1>4. watchers' < position' /\ unfinished' < position'
  BY <1>1 DEF WatchInv, Counted
<1>5. Sighted' /\ Counted'
  <2>1. CASE EndRound
    <3>1. /\ step = "visit" /\ step' = "wait" /\ position > Len(clients)
          /\ UNCHANGED <<file, events, clients, watchers, unfinished>>
      BY <2>1 DEF EndRound, fileVars, changeVars
    <3>2. Len(clients) \in Nat /\ position \in Nat
      BY Types DEF WatchInv, PeersOK, RoundOK
    <3>3. \A i \in 1..Len(clients) : Visited(i)' <=> Visited(i)
      BY <3>1, <3>2 DEF Visited
    <3>4. Sighted'
      BY <3>1, <3>3 DEF WatchInv, Sighted, Watching, Loaded
    <3>5. WatchingNow' \subseteq WatchingNow /\ SilentNow' \subseteq SilentNow
      BY <3>1, <3>3 DEF WatchingNow, SilentNow, Watching, SilentlyOpen
    <3> QED
      BY <1>4, <3>1, <3>4, <3>5, NoMore
  <2>2. CASE ~EndRound
    <3>1. step' \notin {"visit", "wait"}
      BY <2>2 DEF Drain, Rewatch, Wake, Restart
    <3> QED
      BY <1>4, <3>1, OffDuty
  <2> QED
    BY <2>1, <2>2
<1>6. TypeOK'
  BY <1>2, <1>3, TypesNext
<1> QED
  BY <1>2, <1>3, <1>5, <1>6, WatchInvNext

LEMMA AcceptStep ==
  ASSUME WatchInv, Accept
  PROVE  WatchInv'
<1>1. UNCHANGED <<fileVars, changeVars, workerVars, mailboxVars, refreshes, faults>> /\ step = "accept"
  BY DEF Accept
<1>2. /\ Register!TypeOK' /\ HistoryOK' /\ WorkersOK' /\ AskedOK' /\ MailOK' /\ BoundsOK'
      /\ RefreshesCounted' /\ Rested'
  BY <1>1, Same DEF fileVars, workerVars, mailboxVars
<1>3. /\ clients \in Seq(Connections) /\ Len(clients) \in Nat /\ Len(clients) <= MaxClients
      /\ backlog \in Seq(Connections) /\ MaxClients \in Nat
  BY Types, BoundAssumption DEF WatchInv, PeersOK, BoundAssumption
<1>4. CASE backlog # <<>> /\ Len(clients) < MaxClients
  <2>1. /\ clients' = Append(clients, Head(backlog)) /\ backlog' = Tail(backlog)
        /\ UNCHANGED <<step, position, watchers, unfinished>>
    BY <1>4 DEF Accept
  <2>2. Head(backlog) \in Connections /\ Tail(backlog) \in Seq(Connections)
    BY <1>3, <1>4, HeadTailProperties
  <2>3. PeersOK'
    BY <1>3, <1>4, <2>1, <2>2 DEF PeersOK
  <2>4. FlagsOK' /\ Alert' /\ RoundOK'
    BY <1>1, <2>1, Same
  <2>5. Sighted' /\ Counted'
    BY <1>1, <2>1, OffDuty DEF WatchInv, Counted
  <2> QED
    BY <1>2, <2>3, <2>4, <2>5, TypesNext, WatchInvNext
<1>5. CASE ~(backlog # <<>> /\ Len(clients) < MaxClients)
  <2>1. /\ step' = "visit" /\ position' = 1 /\ watchers' = 0 /\ unfinished' = 0
        /\ UNCHANGED <<clients, backlog>>
    BY <1>5 DEF Accept
  <2>2. PeersOK'
    BY <2>1, Same
  <2>3. FlagsOK' /\ Alert'
    BY <1>1, <2>1, Types DEF WatchInv, FlagsOK, Alert, changeVars
  <2>4. RoundOK'
    <3>1. 1 \in 1..(MaxClients + 1) /\ 0 \in 0..MaxClients
      BY <1>3
    <3> QED
      BY <2>1, <3>1 DEF RoundOK
  <2>5. \A i \in 1..Len(clients) : ~Visited(i)'
    BY <2>1 DEF Visited
  <2>6. Sighted'
    BY <2>1, <2>5 DEF Sighted
  <2>7. WatchingNow' = {} /\ SilentNow' = {}
    BY <2>1, <2>5 DEF WatchingNow, SilentNow
  <2>8. Cardinality({}) = 0
    BY FS_EmptySet
  <2>9. MaxWatchers \in Nat /\ MaxUnfinished \in Nat
    BY BoundAssumption DEF BoundAssumption
  <2>10. watchers' < position' /\ unfinished' < position'
    BY <2>1
  <2>11. /\ Cardinality(WatchingNow') <= watchers' /\ Cardinality(WatchingNow') <= MaxWatchers
         /\ Cardinality(SilentNow') <= unfinished' /\ Cardinality(SilentNow') <= MaxUnfinished
    BY <2>1, <2>7, <2>8, <2>9
  <2>12. Counted'
    BY <2>10, <2>11, CountedNext
  <2> QED
    BY <1>2, <2>2, <2>3, <2>4, <2>6, <2>12, TypesNext, WatchInvNext
<1> QED
  BY <1>4, <1>5

\* A visited client leaves or stays.
LEMMA VisitStep ==
  ASSUME WatchInv, Visit \/ DropLate
  PROVE  WatchInv'
<1>1. /\ step = "visit" /\ position <= Len(clients)
      /\ UNCHANGED <<fileVars, changeVars, step, backlog, worker, cursor, taken, mailboxVars, refreshes>>
  BY DEF Visit, DropLate
<1>2. /\ Register!TypeOK' /\ HistoryOK' /\ FlagsOK' /\ Alert' /\ AskedOK' /\ MailOK' /\ RefreshesCounted' /\ Rested'
  BY <1>1, Same DEF fileVars, mailboxVars
<1>3. BoundsOK'
  BY <1>1, Same, FaultCounted DEF Visit, DropLate
<1>4. /\ clients \in Seq(Connections) /\ Len(clients) \in Nat /\ position \in 1..Len(clients)
      /\ clients[position] \in Connections /\ WorkersOK /\ Register!TypeOK
  <2>1. clients \in Seq(Connections) /\ Len(clients) \in Nat /\ position \in 1..Len(clients)
        /\ WorkersOK /\ Register!TypeOK
    BY <1>1, Types DEF WatchInv, PeersOK, RoundOK
  <2> QED
    BY <2>1, ElementOfSeq
<1>5. ASSUME NEW k \in Connections, NEW r \in Answers \cup {Nothing}, Leave(k, r)
      PROVE  WorkersOK' /\ PeersOK' /\ RoundOK' /\ Sighted' /\ Counted'
  <2>1. WorkersOK'
    BY <1>1, <1>4, <1>5 DEF Leave, WorkersOK
  <2>2. clients' = RemoveAt(clients, position) /\ UNCHANGED <<position, watchers, unfinished>>
    BY <1>5 DEF Leave
  <2>3. UNCHANGED <<file, events, step, position, watchers, unfinished, backlog>>
    BY <1>1, <2>2 DEF fileVars, changeVars
  <2>4. PeersOK' /\ RoundOK' /\ Sighted' /\ Counted'
    BY <1>1, <2>2, <2>3, Departs
  <2> QED
    BY <2>1, <2>4
<1>6. ASSUME NEW k \in Connections, Stay(k),
             watchers' \in {watchers, watchers + 1}, unfinished' \in {unfinished, unfinished + 1},
             Watching(k) => /\ Loaded(file) = k.after
                            /\ watchers' = watchers + 1 /\ watchers' <= MaxWatchers,
             SilentlyOpen(k) => unfinished' = unfinished + 1 /\ unfinished' <= MaxUnfinished
      PROVE  WorkersOK' /\ PeersOK' /\ RoundOK' /\ Sighted' /\ Counted'
  <2>1. WorkersOK'
    BY <1>1, <1>6, Same DEF Stay
  <2>2. clients' = [clients EXCEPT ![position] = k] /\ position' = position + 1
        /\ UNCHANGED <<file, events, step, backlog>>
    BY <1>1, <1>6 DEF Stay, fileVars, changeVars
  <2>3. PeersOK' /\ RoundOK' /\ Sighted' /\ Counted'
    BY <1>1, <1>6, <2>2, Remains
  <2> QED
    BY <2>1, <2>3
<1>7. WorkersOK' /\ PeersOK' /\ RoundOK' /\ Sighted' /\ Counted'
  <2>1. CASE DropLate
    <3>1. Leave(clients[position], Refused)
      BY <2>1 DEF DropLate
    <3> QED
      BY <1>4, <1>5, <3>1 DEF Answers
  <2>2. CASE Visit
    <3> DEFINE k == Watched(Dispatched(clients[position]))
    <3>1. /\ k \in Connections /\ (Watching(k) => Loaded(file) = k.after)
      BY <1>4, Looks
    <3>2. k.response \in Answers \cup {Nothing} /\ Refused \in Answers
      BY <3>1 DEF Connections, Answers
    <3> HIDE DEF k
    <3>3. CASE k.stage = "answered" /\ Leave(k, k.response)
      BY <1>5, <3>1, <3>2, <3>3
    <3>4. CASE Leave(k, Refused)
      BY <1>5, <3>1, <3>2, <3>4
    <3>5. CASE /\ Watching(k) /\ watchers' = watchers + 1 /\ UNCHANGED unfinished
               /\ Stay(IF WithinLimit(watchers', MaxWatchers) THEN k ELSE Respond(k, Refused))
      <4>1. CASE watchers' <= MaxWatchers
        BY <1>6, <3>1, <3>5, <4>1 DEF WithinLimit, Watching, SilentlyOpen
      <4>2. CASE ~(watchers' <= MaxWatchers)
        <5>1. Stay(Respond(k, Refused))
          BY <3>5, <4>2 DEF WithinLimit
        <5>2. Respond(k, Refused) \in Connections /\ Respond(k, Refused).stage = "answered"
          BY <3>1, <3>2, Responses
        <5> QED
          BY <1>6, <3>5, <5>1, <5>2 DEF Watching, SilentlyOpen
      <4> QED
        BY <4>1, <4>2
    <3>6. CASE /\ k.stage = "silent" /\ WithinLimit(unfinished + 1, MaxUnfinished)
               /\ Stay(k) /\ unfinished' = unfinished + 1 /\ UNCHANGED watchers
      BY <1>6, <3>1, <3>6 DEF WithinLimit, Watching
    <3> QED
      BY <2>2, <3>3, <3>4, <3>5, <3>6 DEF Visit, Watching, k
  <2> QED
    BY <2>1, <2>2
<1>8. TypeOK'
  BY <1>2, <1>3, <1>7, TypesNext
<1> QED
  BY <1>2, <1>7, <1>8, WatchInvNext

LEMMA CrashStep ==
  ASSUME WatchInv, Crash
  PROVE  WatchInv'
<1>1. /\ step' = "down" /\ clients' = <<>> /\ backlog' = <<>>
      /\ position' = 1 /\ watchers' = 0 /\ unfinished' = 0
      /\ events' = FALSE /\ gone' = FALSE /\ held' = FALSE /\ watched' = FALSE
      /\ UNCHANGED <<fileVars, worker, cursor, taken, mailboxVars, refreshes>>
  BY DEF Crash
<1>2. /\ Register!TypeOK' /\ HistoryOK' /\ AskedOK' /\ MailOK' /\ RefreshesCounted' /\ Rested'
  BY <1>1, Same DEF fileVars, mailboxVars
<1>3. BoundsOK'
  BY <1>1, FaultCounted DEF Crash
<1>4. FlagsOK' /\ Alert'
  BY <1>1 DEF FlagsOK, Alert
<1>5. MaxClients \in Nat
  BY BoundAssumption DEF BoundAssumption
<1>6. PeersOK'
  <2>1. <<>> \in Seq(Connections) /\ Len(<<>>) = 0
    BY EmptySeq
  <2> QED
    BY <1>1, <1>5, <2>1 DEF PeersOK
<1>7. RoundOK'
  <2>1. 1 \in 1..(MaxClients + 1) /\ 0 \in 0..MaxClients
    BY <1>5
  <2> QED
    BY <1>1, <2>1 DEF RoundOK
<1>8. WorkersOK'
  BY <1>1, Types DEF WatchInv, WorkersOK, Crash, Answers
<1>9. Sighted' /\ Counted'
  BY <1>1, OffDuty
<1>10. TypeOK'
  BY <1>2, <1>3, <1>4, <1>6, <1>7, <1>8, TypesNext
<1> QED
  BY <1>2, <1>4, <1>9, <1>10, WatchInvNext

LEMMA DueStep ==
  ASSUME WatchInv, NEW n \in 1..MaxClients, Due(n)
  PROVE  WatchInv'
<1>1. UNCHANGED <<fileVars, changeVars, step, position, backlog, watchers, unfinished,
                  workerVars, mailboxVars, refreshes, faults>>
  BY DEF Due
<1>2. clients \in Seq(Connections) /\ Len(clients) \in Nat /\ Len(clients) <= MaxClients
      /\ backlog \in Seq(Connections)
  BY Types DEF WatchInv, PeersOK
<1>3. n \in 1..Len(clients) /\ clients[n] \in Connections
  <2>1. n \in 1..Len(clients)
    BY <1>2, LenProperties DEF Due
  <2> QED
    BY <1>2, <2>1, ElementOfSeq
<1>4. PICK g \in {"due", "late"} : /\ clients' = [clients EXCEPT ![n] = [clients[n] EXCEPT !.stage = g]]
                                   /\ g = "due" => clients[n].stage = "watching"
  BY DEF Due
<1>5. /\ [clients[n] EXCEPT !.stage = g] \in Connections
      /\ [clients[n] EXCEPT !.stage = g].stage = g
      /\ [clients[n] EXCEPT !.stage = g].after = clients[n].after
  BY <1>3 DEF Connections
<1>6. /\ clients' \in Seq(Connections) /\ Len(clients') = Len(clients)
      /\ \A i \in 1..Len(clients) :
           clients'[i] = IF i = n THEN [clients[n] EXCEPT !.stage = g] ELSE clients[i]
  BY <1>2, <1>3, <1>4, <1>5, ExceptSeq
<1>7. PeersOK'
  BY <1>1, <1>2, <1>6 DEF PeersOK
<1>8. \A i \in 1..Len(clients) :
        /\ clients'[i].after = clients[i].after
        /\ Watching(clients[i])' => Watching(clients[i])
        /\ SilentlyOpen(clients[i])' => SilentlyOpen(clients[i])
  BY <1>4, <1>5, <1>6 DEF Watching, SilentlyOpen
<1>9. Sighted' /\ Counted'
  BY <1>1, <1>6, <1>8, Calmer DEF fileVars, changeVars
<1>10. /\ Register!TypeOK' /\ HistoryOK' /\ FlagsOK' /\ Alert' /\ RoundOK' /\ WorkersOK' /\ AskedOK'
       /\ MailOK' /\ BoundsOK' /\ RefreshesCounted' /\ Rested'
  BY <1>1, Same DEF fileVars, workerVars, mailboxVars
<1>11. TypeOK'
  BY <1>7, <1>10, TypesNext
<1> QED
  BY <1>9, <1>10, <1>11, WatchInvNext

\* The connections of c with their stage or their client's end changed.
SentOn(k) == [k EXCEPT !.stage = "unread"]
ClosedOn(k) == [k EXCEPT !.open = FALSE]

AsSent(s, c, t) ==
  /\ t \in Seq(Connections) /\ Len(t) = Len(s)
  /\ \A i \in 1..Len(s) :
       /\ s[i] \in Connections
       /\ ~Current(s[i], c) => t[i] = s[i]
       /\ t[i].who = s[i].who /\ t[i].open = s[i].open /\ t[i].after = s[i].after
       /\ t[i].response = s[i].response
       /\ t[i].stage \in {s[i].stage, "unread"}

LEMMA RevisedSent ==
  ASSUME NEW s \in Seq(Connections), NEW c,
         NEW t, t = [i \in DOMAIN s |-> IF Current(s[i], c) THEN SentOn(s[i]) ELSE s[i]]
  PROVE  AsSent(s, c, t)
<1>1. DOMAIN s = 1..Len(s) /\ Len(s) \in Nat /\ \A i \in 1..Len(s) : s[i] \in Connections
  BY LenProperties, ElementOfSeq
<1>2. t = [i \in 1..Len(s) |-> IF Current(s[i], c) THEN SentOn(s[i]) ELSE s[i]]
  BY <1>1
<1>3. ASSUME NEW i \in 1..Len(s)
      PROVE  /\ t[i] \in Connections
             /\ ~Current(s[i], c) => t[i] = s[i]
             /\ t[i].who = s[i].who /\ t[i].open = s[i].open /\ t[i].after = s[i].after
             /\ t[i].response = s[i].response
             /\ t[i].stage \in {s[i].stage, "unread"}
  <2>1. s[i] \in Connections
    BY <1>1
  <2>2. t[i] = IF Current(s[i], c) THEN SentOn(s[i]) ELSE s[i]
    BY <1>2
  <2>3. CASE Current(s[i], c)
    BY <2>1, <2>2, <2>3 DEF Connections, SentOn
  <2>4. CASE ~Current(s[i], c)
    BY <2>1, <2>2, <2>4
  <2> QED
    BY <2>3, <2>4
<1>4. t \in [1..Len(s) -> Connections]
  BY <1>2, <1>3
<1> QED
  BY <1>1, <1>3, <1>4, Mapped DEF AsSent

AsClosed(s, c, t) ==
  /\ t \in Seq(Connections) /\ Len(t) = Len(s)
  /\ \A i \in 1..Len(s) :
       /\ s[i] \in Connections
       /\ ~Current(t[i], c)
       /\ t[i].who = s[i].who /\ t[i].after = s[i].after /\ t[i].stage = s[i].stage
       /\ t[i].response = s[i].response
       /\ t[i].open => s[i].open

LEMMA RevisedClosed ==
  ASSUME NEW s \in Seq(Connections), NEW c,
         NEW t, t = [i \in DOMAIN s |-> IF Current(s[i], c) THEN ClosedOn(s[i]) ELSE s[i]]
  PROVE  AsClosed(s, c, t)
<1>1. DOMAIN s = 1..Len(s) /\ Len(s) \in Nat /\ \A i \in 1..Len(s) : s[i] \in Connections
  BY LenProperties, ElementOfSeq
<1>2. t = [i \in 1..Len(s) |-> IF Current(s[i], c) THEN ClosedOn(s[i]) ELSE s[i]]
  BY <1>1
<1>3. ASSUME NEW i \in 1..Len(s)
      PROVE  /\ t[i] \in Connections
             /\ ~Current(t[i], c)
             /\ t[i].who = s[i].who /\ t[i].after = s[i].after /\ t[i].stage = s[i].stage
             /\ t[i].response = s[i].response
             /\ t[i].open => s[i].open
  <2>1. s[i] \in Connections
    BY <1>1
  <2>2. t[i] = IF Current(s[i], c) THEN ClosedOn(s[i]) ELSE s[i]
    BY <1>2
  <2>3. CASE Current(s[i], c)
    <3>1. t[i] = [s[i] EXCEPT !.open = FALSE]
      BY <2>2, <2>3 DEF ClosedOn
    <3>2. t[i] \in Connections
      BY <2>1, <3>1, Closings
    <3>3. t[i].who = s[i].who /\ t[i].after = s[i].after /\ t[i].stage = s[i].stage
          /\ t[i].response = s[i].response /\ ~t[i].open
      BY <2>1, <3>1 DEF Connections
    <3> QED
      BY <3>2, <3>3 DEF Current
  <2>4. CASE ~Current(s[i], c)
    BY <2>1, <2>2, <2>4
  <2> QED
    BY <2>3, <2>4
<1>4. t \in [1..Len(s) -> Connections]
  BY <1>2, <1>3
<1> QED
  BY <1>1, <1>3, <1>4, Mapped DEF AsClosed

LEMMA Beyond ==
  ASSUME NEW m \in Nat, NEW n \in Nat, NEW i \in 1..n
  PROVE  m + i \in 1..(m + n) /\ ~(m + i <= m) /\ (m + i) - m = i
OBVIOUS

LEMMA Moved ==
  ASSUME NEW l \in Nat, NEW m \in Nat, NEW n \in Nat
  PROVE  /\ l + m + n = l + 0 + (n + m)
         /\ l + 0 + n = 0 + l + n
         /\ (l + m + n) + 1 = (l + 1) + m + n
OBVIOUS

LEMMA Acknowledged ==
  ASSUME NEW l \in Nat, NEW m \in Nat, NEW n \in Nat, NEW top \in Nat, l + m + n \in 0..top
  PROVE  (l + m + n) - n \in 0..top /\ (l + m + n) - n = l + m + 0
OBVIOUS

\* The end of an exchange moves what was taken to the mailbox.
LEMMA Finished ==
  ASSUME WatchInv, NEW c \in Consumers, NEW result \in Answers,
         Finish(c, result, taken[c], queued[c]), UNCHANGED <<pending, applied>>
  PROVE  /\ WorkersOK' /\ AskedOK' /\ MailOK' /\ RefreshesCounted' /\ Rested'
         /\ queued' = queued /\ taken' = [taken EXCEPT ![c] = <<>>]
         /\ answer' = [answer EXCEPT ![c] = Nothing]
         /\ latest' = [latest EXCEPT ![c] = IF result \in Snapshots THEN result ELSE latest[c]]
         /\ \A d \in Consumers \ {c} : completed'[d] = completed[d] /\ worker'[d] = worker[d]
         /\ Len(completed'[c]) = Len(completed[c]) + Len(taken[c])
         /\ \A i \in 1..Len(completed[c]) : completed'[c][i] = completed[c][i]
         /\ \A i \in 1..Len(taken[c]) :
              completed'[c][Len(completed[c]) + i] = [since |-> taken[c][i], ok |-> result # Refused]
<1> DEFINE new == [i \in DOMAIN taken[c] |-> [since |-> taken[c][i], ok |-> result # Refused]]
<1>1. WorkersOK /\ AskedOK /\ MailOK
  BY Types DEF WatchInv
<1>2. /\ cursor' = [cursor EXCEPT ![c] = CASE result \in Snapshots -> result
                                           [] result = Unchanged -> cursor[c]
                                           [] result = Refused -> Nothing]
      /\ latest' = [latest EXCEPT ![c] = IF result \in Snapshots THEN result ELSE latest[c]]
      /\ completed' = [completed EXCEPT ![c] = completed[c] \o new]
      /\ worker' = [worker EXCEPT ![c] = IF result = Refused THEN "parked" ELSE "ready"]
      /\ taken' = [taken EXCEPT ![c] = <<>>]
      /\ queued' = [queued EXCEPT ![c] = queued[c]]
      /\ answer' = [answer EXCEPT ![c] = Nothing]
  BY DEF Finish
<1>3. WorkersOK'
  <2>1. (CASE result \in Snapshots -> result
           [] result = Unchanged -> cursor[c]
           [] result = Refused -> Nothing) \in Snapshots \cup {Nothing}
    BY <1>1, NoValueAssumption DEF WorkersOK, Answers, NoValueAssumption
  <2> QED
    BY <1>1, <1>2, <2>1 DEF WorkersOK
<1>4. queued' = queued
  BY <1>1, <1>2 DEF AskedOK
<1>5. taken[c] \in Seq(Moments) /\ completed[c] \in Seq(Completions) /\ queued[c] \in Seq(Moments)
      /\ <<>> \in Seq(Moments) /\ Len(<<>>) = 0
  BY <1>1, EmptySeq DEF AskedOK, MailOK
<1>6. AskedOK'
  BY <1>1, <1>2, <1>4, <1>5 DEF AskedOK
<1>7. new \in Seq(Completions) /\ Len(new) = Len(taken[c])
  <2>1. DOMAIN taken[c] = 1..Len(taken[c]) /\ Len(taken[c]) \in Nat
        /\ \A i \in 1..Len(taken[c]) : taken[c][i] \in Moments
    BY <1>5, LenProperties, ElementOfSeq
  <2>2. (result # Refused) \in BOOLEAN
    OBVIOUS
  <2>3. \A i \in 1..Len(taken[c]) :
          [since |-> taken[c][i], ok |-> result # Refused] \in Completions
    BY <2>1, <2>2, Zenon DEF Completions
  <2>4. new \in [1..Len(taken[c]) -> Completions]
    BY <2>1, <2>3
  <2> QED
    BY <2>1, <2>4, SeqDef
<1>12. \A i \in 1..Len(taken[c]) : new[i] = [since |-> taken[c][i], ok |-> result # Refused]
  <2>1. DOMAIN taken[c] = 1..Len(taken[c])
    BY <1>5, LenProperties
  <2> QED
    BY <2>1, Zenon
<1> HIDE DEF new
<1>8. /\ completed[c] \o new \in Seq(Completions)
      /\ Len(completed[c] \o new) = Len(completed[c]) + Len(taken[c])
      /\ \A i \in 1..Len(completed[c]) : (completed[c] \o new)[i] = completed[c][i]
      /\ \A i \in 1..Len(taken[c]) : (completed[c] \o new)[Len(completed[c]) + i] = new[i]
  <2>1. /\ completed[c] \o new \in Seq(Completions)
        /\ Len(completed[c] \o new) = Len(completed[c]) + Len(new)
        /\ \A i \in 1..(Len(completed[c]) + Len(new)) :
             (completed[c] \o new)[i] = IF i <= Len(completed[c]) THEN completed[c][i]
                                       ELSE new[i - Len(completed[c])]
    BY <1>5, <1>7, ConcatProperties
  <2>2. Len(completed[c]) \in Nat /\ Len(taken[c]) \in Nat
    BY <1>5
  <2>3. \A i \in 1..Len(completed[c]) : (completed[c] \o new)[i] = completed[c][i]
    BY <1>7, <2>1, <2>2
  <2>4. ASSUME NEW i \in 1..Len(taken[c])
        PROVE  (completed[c] \o new)[Len(completed[c]) + i] = new[i]
    <3>1. /\ Len(completed[c]) + i \in 1..(Len(completed[c]) + Len(new))
          /\ ~(Len(completed[c]) + i <= Len(completed[c]))
          /\ (Len(completed[c]) + i) - Len(completed[c]) = i
      BY <1>7, <2>2, Beyond
    <3> QED
      BY <2>1, <3>1
  <2> QED
    BY <1>7, <2>1, <2>3, <2>4
<1>9. completed'[c] = completed[c] \o new /\ taken'[c] = <<>>
      /\ \A d \in Consumers \ {c} :
           completed'[d] = completed[d] /\ taken'[d] = taken[d] /\ worker'[d] = worker[d]
  BY <1>1, <1>2 DEF MailOK, AskedOK, WorkersOK
<1>10. MailOK'
  <2>1. completed' \in [Consumers -> Seq(Completions)]
    BY <1>1, <1>2, <1>8 DEF MailOK
  <2>2. latest' \in [Consumers -> Snapshots \cup {Nothing}]
    BY <1>1, <1>2 DEF MailOK
  <2> QED
    BY <1>1, <2>1, <2>2 DEF MailOK
<1>11. RefreshesCounted'
  <2> SUFFICES ASSUME NEW d \in Consumers
               PROVE  pending'[d] = Len(queued'[d]) + Len(taken'[d]) + Len(completed'[d])
    BY DEF RefreshesCounted
  <2>1. pending[d] = Len(queued[d]) + Len(taken[d]) + Len(completed[d])
    BY DEF WatchInv, RefreshesCounted
  <2>2. CASE d = c
    <3>1. Len(queued[c]) \in Nat /\ Len(taken[c]) \in Nat /\ Len(completed[c]) \in Nat
      BY <1>5
    <3>2. Len(completed'[c]) = Len(completed[c]) + Len(taken[c]) /\ Len(taken'[c]) = 0
      BY <1>5, <1>8, <1>9
    <3>3. pending' = pending /\ queued' = queued
      BY <1>4
    <3>4. pending'[c] = Len(queued'[c]) + Len(taken'[c]) + Len(completed'[c])
      <4>1. Len(queued[c]) + Len(taken[c]) + Len(completed[c])
              = Len(queued[c]) + 0 + (Len(completed[c]) + Len(taken[c]))
        BY <3>1, Moved
      <4> QED
        BY <2>1, <2>2, <3>2, <3>3, <4>1, Zenon
    <3> QED
      BY <2>2, <3>4
  <2>3. CASE d # c
    BY <1>4, <1>9, <2>1, <2>3
  <2> QED
    BY <2>2, <2>3
<1>13. Rested'
  BY <1>9 DEF WatchInv, Rested
<1> QED
  BY <1>2, <1>3, <1>4, <1>6, <1>7, <1>8, <1>9, <1>10, <1>11, <1>12, <1>13, Zenon

LEMMA ReceiveStep ==
  ASSUME WatchInv, NEW c \in Consumers, Receive(c)
  PROVE  WatchInv'
<1>1. UNCHANGED <<fileVars, changeVars, serverVars, pending, applied, refreshes, faults>>
      /\ answer[c] # Nothing /\ Finish(c, answer[c], taken[c], queued[c])
  BY DEF Receive
<1>2. answer[c] \in Answers
  BY <1>1, Types DEF WatchInv, WorkersOK
<1>3. WorkersOK' /\ AskedOK' /\ MailOK' /\ RefreshesCounted' /\ Rested'
  BY <1>1, <1>2, Finished
<1>4. Register!TypeOK' /\ HistoryOK' /\ PeersOK' /\ BoundsOK'
  BY <1>1, Same DEF fileVars, serverVars
<1>5. FlagsOK' /\ Alert' /\ RoundOK' /\ Sighted' /\ Counted'
  BY <1>1, ServerRests DEF fileVars, serverVars
<1> QED
  BY <1>3, <1>4, <1>5, TypesNext, WatchInvNext

\* The two actions that change connections on both sides of the daemon's door.
LEMMA ConnectionsStep ==
  ASSUME WatchInv, NEW c \in Consumers, Send(c) \/ GiveUp(c)
  PROVE  WatchInv'
<1>1. /\ UNCHANGED <<fileVars, changeVars, step, position, watchers, unfinished, pending, applied,
                     refreshes>>
      /\ Fault \/ UNCHANGED faults
  BY DEF Send, GiveUp, mailboxVars
<1>2. clients \in Seq(Connections) /\ backlog \in Seq(Connections) /\ Len(clients) <= MaxClients
  BY Types DEF WatchInv, PeersOK
<1>3. Register!TypeOK' /\ HistoryOK' /\ FlagsOK' /\ Alert' /\ RoundOK'
  BY <1>1, Same DEF fileVars
<1>4. BoundsOK'
  BY <1>1, Same, FaultCounted
<1>5. WorkersOK' /\ AskedOK' /\ MailOK' /\ RefreshesCounted' /\ Rested'
  <2>1. CASE Send(c)
    <3>1. WorkersOK'
      BY <2>1, Types DEF WatchInv, WorkersOK, Send
    <3>2. Rested'
      BY <2>1, Types DEF WatchInv, WorkersOK, Rested, Send
    <3> QED
      BY <2>1, <3>1, <3>2, Same DEF Send, mailboxVars
  <2>2. CASE GiveUp(c)
    <3>1. Finish(c, Refused, taken[c], queued[c]) /\ Refused \in Answers
      BY <2>2 DEF GiveUp, Answers
    <3> QED
      BY <1>1, <3>1, Finished
  <2> QED
    BY <2>1, <2>2
<1>6. /\ clients' \in Seq(Connections) /\ Len(clients') = Len(clients) /\ backlog' \in Seq(Connections)
      /\ \A i \in 1..Len(clients) :
           /\ clients'[i].after = clients[i].after
           /\ Watching(clients[i])' => Watching(clients[i])
           /\ SilentlyOpen(clients[i])' => SilentlyOpen(clients[i])
  <2>1. CASE Send(c)
    <3>1. /\ clients' = [i \in DOMAIN clients |->
                          IF Current(clients[i], c) THEN SentOn(clients[i]) ELSE clients[i]]
          /\ backlog' = [i \in DOMAIN backlog |->
                          IF Current(backlog[i], c) THEN SentOn(backlog[i]) ELSE backlog[i]]
      BY <2>1 DEF Send, Revise, SentOn
    <3>2. AsSent(clients, c, clients') /\ AsSent(backlog, c, backlog')
      BY <1>2, <3>1, RevisedSent
    <3> QED
      BY <3>2 DEF AsSent, Watching, SilentlyOpen
  <2>2. CASE GiveUp(c)
    <3>1. /\ clients' = [i \in DOMAIN clients |->
                          IF Current(clients[i], c) THEN ClosedOn(clients[i]) ELSE clients[i]]
          /\ backlog' = [i \in DOMAIN backlog |->
                          IF Current(backlog[i], c) THEN ClosedOn(backlog[i]) ELSE backlog[i]]
      BY <2>2 DEF GiveUp, Revise, ClosedOn
    <3>2. AsClosed(clients, c, clients') /\ AsClosed(backlog, c, backlog')
      BY <1>2, <3>1, RevisedClosed
    <3> QED
      BY <3>2 DEF AsClosed, Watching, SilentlyOpen
  <2> QED
    BY <2>1, <2>2
<1>7. PeersOK'
  BY <1>2, <1>6 DEF PeersOK
<1>8. Sighted' /\ Counted'
  BY <1>1, <1>6, Calmer DEF fileVars, changeVars
<1> QED
  BY <1>3, <1>4, <1>5, <1>7, <1>8, TypesNext, WatchInvNext

\* What a connection is when its client has just asked for it.
LEMMA NewConnection ==
  ASSUME NEW w \in Consumers \cup {Stranger}, NEW a \in Snapshots \cup {Nothing}
  PROVE  [who |-> w, after |-> a, stage |-> "silent", response |-> Nothing, open |-> TRUE]
           \in Connections
BY DEF Connections

LEMMA ConsumerStep ==
  ASSUME WatchInv, Strange \/ \E c \in Consumers : Begin(c) \/ Refresh(c) \/ Unpark(c) \/ Ping(c)
  PROVE  WatchInv'
<1>1. UNCHANGED <<fileVars, changeVars, step, position, clients, watchers, unfinished, cursor>>
  BY DEF Strange, Begin, Refresh, Unpark, Ping, serverVars, workerVars
<1>2. FlagsOK' /\ Alert' /\ RoundOK' /\ Sighted' /\ Counted'
  BY <1>1, ServerRests DEF fileVars
<1>3. Register!TypeOK' /\ HistoryOK'
  BY <1>1, Same DEF fileVars
<1>4. /\ clients \in Seq(Connections) /\ Len(clients) <= MaxClients /\ backlog \in Seq(Connections)
      /\ WorkersOK /\ AskedOK /\ MailOK /\ RefreshesCounted
  BY Types DEF WatchInv, PeersOK
<1>5. CASE Strange
  <2>1. Nothing \in Snapshots \cup {Nothing} /\ Stranger \in Consumers \cup {Stranger}
    OBVIOUS
  <2> DEFINE new == [who |-> Stranger, after |-> Nothing, stage |-> "silent", response |-> Nothing,
                     open |-> TRUE]
  <2>6. new \in Connections
    BY <2>1, NewConnection
  <2>7. backlog' = Append(backlog, new)
    BY <1>5 DEF Strange
  <2> HIDE DEF new
  <2>2. backlog' \in Seq(Connections)
    BY <1>4, <2>6, <2>7, AppendProperties
  <2>3. PeersOK'
    BY <1>1, <1>4, <2>2 DEF PeersOK
  <2>4. BoundsOK'
    BY <1>5, FaultCounted DEF Strange
  <2>5. WorkersOK' /\ AskedOK' /\ MailOK' /\ RefreshesCounted' /\ Rested'
    BY <1>5, Same DEF Strange, workerVars, mailboxVars
  <2> QED
    BY <1>2, <1>3, <2>3, <2>4, <2>5, TypesNext, WatchInvNext
<1>6. ASSUME NEW c \in Consumers, Begin(c)
      PROVE  WatchInv'
  <2>1. PeersOK'
    <3>1. CASE step = "down"
      BY <1>1, <1>6, <3>1, Same DEF Begin
    <3>2. CASE step # "down"
      <4>1. (IF queued[c] = <<>> THEN cursor[c] ELSE Nothing) \in Snapshots \cup {Nothing}
        BY <1>4 DEF WorkersOK
      <4> DEFINE new == [who |-> c, after |-> IF queued[c] = <<>> THEN cursor[c] ELSE Nothing,
                         stage |-> "silent", response |-> Nothing, open |-> TRUE]
      <4>3. new \in Connections
        BY <4>1, NewConnection
      <4>4. backlog' = Append(backlog, new)
        BY <1>6, <3>2 DEF Begin
      <4> HIDE DEF new
      <4>2. backlog' \in Seq(Connections)
        BY <1>4, <4>3, <4>4, AppendProperties
      <4> QED
        BY <1>1, <1>4, <4>2 DEF PeersOK
    <3> QED
      BY <3>1, <3>2
  <2>2. WorkersOK'
    BY <1>1, <1>4, <1>6 DEF Begin, WorkersOK, Answers
  <2>3. taken' = [taken EXCEPT ![c] = queued[c]] /\ queued' = [queued EXCEPT ![c] = <<>>]
        /\ UNCHANGED <<latest, completed, pending, applied, refreshes, faults>>
    BY <1>6 DEF Begin
  <2>4. <<>> \in Seq(Moments) /\ Len(<<>>) = 0
    BY EmptySeq
  <2>5. AskedOK'
    BY <1>4, <2>3, <2>4 DEF AskedOK
  <2>6. MailOK' /\ BoundsOK'
    BY <2>3, Same
  <2>7. taken[c] = <<>>
    BY <1>6 DEF Begin, WatchInv, Rested
  <2>8. RefreshesCounted'
    <3> SUFFICES ASSUME NEW d \in Consumers
                 PROVE  pending'[d] = Len(queued'[d]) + Len(taken'[d]) + Len(completed'[d])
      BY DEF RefreshesCounted
    <3>1. /\ Len(queued[d]) \in Nat /\ Len(completed[d]) \in Nat
          /\ pending[d] = Len(queued[d]) + Len(taken[d]) + Len(completed[d])
      BY <1>4 DEF RefreshesCounted, AskedOK, MailOK
    <3>2. CASE d = c
      <4>1. queued'[d] = <<>> /\ taken'[d] = queued[d] /\ taken[d] = <<>>
            /\ completed'[d] = completed[d] /\ pending'[d] = pending[d]
        BY <1>4, <2>3, <2>7, <3>2 DEF AskedOK
      <4>2. Len(queued[d]) + 0 + Len(completed[d]) = 0 + Len(queued[d]) + Len(completed[d])
        BY <3>1, Moved
      <4> QED
        BY <2>4, <3>1, <4>1, <4>2, Zenon
    <3>3. CASE d # c
      BY <1>4, <2>3, <3>1, <3>3 DEF AskedOK
    <3> QED
      BY <3>2, <3>3
  <2>9. Rested'
    BY <1>4, <1>6 DEF Begin, WatchInv, Rested, WorkersOK, AskedOK
  <2> QED
    BY <1>2, <1>3, <2>1, <2>2, <2>5, <2>6, <2>8, <2>9, TypesNext, WatchInvNext
<1>7. ASSUME NEW c \in Consumers, Refresh(c)
      PROVE  WatchInv'
  <2>1. /\ pending[c] < MaxPending /\ refreshes < MaxRefreshes /\ refreshes' = refreshes + 1
        /\ queued' = [queued EXCEPT ![c] = Append(queued[c], Len(history))]
        /\ pending' = [pending EXCEPT ![c] = pending[c] + 1]
        /\ UNCHANGED <<clients, backlog, worker, cursor, taken, answer, latest, completed, applied, faults>>
    BY <1>7 DEF Refresh, serverVars, workerVars
  <2>2. PeersOK' /\ WorkersOK' /\ Rested'
    BY <2>1, Same
  <2>3. Len(history) \in Moments /\ queued[c] \in Seq(Moments) /\ MaxPending \in Nat
        /\ MaxRefreshes \in Nat /\ BoundsOK
    BY <1>4, Types, BoundAssumption DEF WatchInv, HistoryOK, AskedOK, BoundAssumption
  <2>4. /\ Append(queued[c], Len(history)) \in Seq(Moments)
        /\ Len(Append(queued[c], Len(history))) = Len(queued[c]) + 1
    BY <2>3, AppendProperties
  <2>5. AskedOK'
    BY <1>4, <2>1, <2>4 DEF AskedOK
  <2>6. BoundsOK'
    BY <2>1, <2>3 DEF BoundsOK
  <2>7. MailOK'
    <3>1. pending' \in [Consumers -> 0..MaxPending]
      BY <1>4, <2>1, <2>3 DEF MailOK
    <3> QED
      BY <1>4, <2>1, <3>1 DEF MailOK
  <2>8. RefreshesCounted'
    <3> SUFFICES ASSUME NEW d \in Consumers
                 PROVE  pending'[d] = Len(queued'[d]) + Len(taken'[d]) + Len(completed'[d])
      BY DEF RefreshesCounted
    <3>1. /\ Len(queued[d]) \in Nat /\ Len(completed[d]) \in Nat /\ Len(taken[d]) \in Nat
          /\ pending[d] = Len(queued[d]) + Len(taken[d]) + Len(completed[d])
      BY <1>4 DEF RefreshesCounted, AskedOK, MailOK
    <3>2. taken'[d] = taken[d] /\ completed'[d] = completed[d]
      BY <2>1
    <3>3. CASE d = c
      <4>1. pending'[d] = pending[d] + 1 /\ Len(queued'[d]) = Len(queued[d]) + 1
        BY <1>4, <2>1, <2>4, <3>3 DEF AskedOK, MailOK
      <4>2. (Len(queued[d]) + Len(taken[d]) + Len(completed[d])) + 1
              = (Len(queued[d]) + 1) + Len(taken[d]) + Len(completed[d])
        BY <3>1, Moved
      <4> QED
        BY <3>1, <3>2, <4>1, <4>2, Zenon
    <3>4. CASE d # c
      BY <1>4, <2>1, <3>1, <3>4 DEF AskedOK, MailOK
    <3> QED
      BY <3>3, <3>4
  <2> QED
    BY <1>2, <1>3, <2>2, <2>5, <2>6, <2>7, <2>8, TypesNext, WatchInvNext
<1>8. ASSUME NEW c \in Consumers, Unpark(c)
      PROVE  WatchInv'
  <2>1. /\ worker[c] = "parked" /\ worker' = [worker EXCEPT ![c] = "ready"]
        /\ UNCHANGED <<serverVars, cursor, taken, answer, mailboxVars, refreshes, faults>>
    BY <1>8 DEF Unpark
  <2>2. WorkersOK' /\ Rested'
    BY <1>4, <2>1 DEF WorkersOK, WatchInv, Rested
  <2>3. PeersOK' /\ AskedOK' /\ MailOK' /\ BoundsOK' /\ RefreshesCounted'
    BY <2>1, Same DEF serverVars, mailboxVars
  <2> QED
    BY <1>2, <1>3, <2>2, <2>3, TypesNext, WatchInvNext
<1>9. ASSUME NEW c \in Consumers, Ping(c)
      PROVE  WatchInv'
  <2>1. /\ applied' = [applied EXCEPT ![c] = IF latest[c] = Nothing THEN applied[c] ELSE latest[c]]
        /\ latest' = [latest EXCEPT ![c] = Nothing]
        /\ pending' = [pending EXCEPT ![c] = pending[c] - Len(completed[c])]
        /\ completed' = [completed EXCEPT ![c] = <<>>]
        /\ UNCHANGED <<serverVars, workerVars, queued, refreshes, faults>>
    BY <1>9 DEF Ping
  <2>2. PeersOK' /\ WorkersOK' /\ AskedOK' /\ BoundsOK' /\ Rested'
    BY <2>1, Same DEF serverVars, workerVars
  <2>3. <<>> \in Seq(Completions) /\ Len(<<>>) = 0 /\ MaxPending \in Nat
    BY EmptySeq, BoundAssumption DEF BoundAssumption
  <2>4. ASSUME NEW d \in Consumers
        PROVE  /\ Len(queued[d]) \in Nat /\ Len(completed[d]) \in Nat /\ Len(taken[d]) \in Nat
               /\ pending[d] = Len(queued[d]) + Len(taken[d]) + Len(completed[d])
               /\ pending[d] \in 0..MaxPending
    BY <1>4 DEF RefreshesCounted, AskedOK, MailOK
  <2>5. /\ pending[c] - Len(completed[c]) \in 0..MaxPending
        /\ pending[c] - Len(completed[c]) = Len(queued[c]) + Len(taken[c]) + 0
    <3>1. /\ (Len(queued[c]) + Len(taken[c]) + Len(completed[c])) - Len(completed[c]) \in 0..MaxPending
          /\ (Len(queued[c]) + Len(taken[c]) + Len(completed[c])) - Len(completed[c])
               = Len(queued[c]) + Len(taken[c]) + 0
      <4>1. Len(queued[c]) + Len(taken[c]) + Len(completed[c]) \in 0..MaxPending
        BY <2>4, Zenon
      <4>2. Len(queued[c]) \in Nat /\ Len(taken[c]) \in Nat /\ Len(completed[c]) \in Nat
        BY <2>4
      <4> QED
        BY <2>3, <4>1, <4>2, Acknowledged
    <3> QED
      BY <2>4, <3>1, Zenon
  <2>6. MailOK'
    <3>1. latest' \in [Consumers -> Snapshots \cup {Nothing}]
          /\ applied' \in [Consumers -> Snapshots \cup {Nothing}]
      BY <1>4, <2>1 DEF MailOK
    <3>2. completed' \in [Consumers -> Seq(Completions)]
      BY <1>4, <2>1, <2>3 DEF MailOK
    <3>3. pending' \in [Consumers -> 0..MaxPending]
      BY <1>4, <2>1, <2>5 DEF MailOK
    <3> QED
      BY <3>1, <3>2, <3>3 DEF MailOK
  <2>7. RefreshesCounted'
    <3> SUFFICES ASSUME NEW d \in Consumers
                 PROVE  pending'[d] = Len(queued'[d]) + Len(taken'[d]) + Len(completed'[d])
      BY DEF RefreshesCounted
    <3>1. taken'[d] = taken[d] /\ queued'[d] = queued[d]
      BY <2>1 DEF workerVars
    <3>2. CASE d = c
      <4>1. pending'[d] = pending[d] - Len(completed[d]) /\ completed'[d] = <<>>
        BY <1>4, <2>1, <3>2 DEF MailOK
      <4> QED
        BY <2>3, <2>5, <3>1, <3>2, <4>1, Zenon
    <3>3. CASE d # c
      BY <1>4, <2>1, <2>4, <3>1, <3>3 DEF MailOK
    <3> QED
      BY <3>2, <3>3
  <2> QED
    BY <1>2, <1>3, <2>2, <2>6, <2>7, TypesNext, WatchInvNext
<1> QED
  BY <1>5, <1>6, <1>7, <1>8, <1>9

LEMMA WatchInit == Init => WatchInv
<1> SUFFICES ASSUME Init PROVE WatchInv
  OBVIOUS
<1>1. /\ MaxRevision \in Nat /\ MaxChanges \in Nat /\ MaxRefreshes \in Nat /\ MaxFaults \in Nat
      /\ MaxClients \in Nat /\ MaxPending \in Nat
  BY BoundAssumption DEF BoundAssumption
<1>2. /\ \A S : <<>> \in Seq(S)
      /\ Len(<<>>) = 0
  BY EmptySeq
<1>3. Register!TypeOK
  BY <1>1 DEF Init, Register!TypeOK, Register!Files
<1>4. HistoryOK
  <2>1. history = <<Absent>> /\ Absent \in Register!Files
    BY DEF Init, Register!Files
  <2>2. history \in Seq(Register!Files) /\ Len(history) = 1
    BY <2>1
  <2> QED
    BY <1>1, <2>2 DEF HistoryOK, Moments
<1>5. FlagsOK /\ Alert
  BY DEF Init, FlagsOK, Alert
<1>6. PeersOK
  BY <1>1, <1>2 DEF Init, PeersOK
<1>7. RoundOK
  BY <1>1 DEF Init, RoundOK
<1>8. WorkersOK /\ AskedOK /\ Rested
  BY <1>2 DEF Init, WorkersOK, AskedOK, Rested
<1>9. MailOK
  <2>1. 0 \in 0..MaxPending
    BY <1>1
  <2> QED
    BY <1>2, <2>1 DEF Init, MailOK
<1>10. BoundsOK
  BY <1>1 DEF Init, BoundsOK
<1>11. Sighted /\ Counted
  BY DEF Init, Sighted, Counted, Visited
<1>12. RefreshesCounted
  BY <1>2 DEF Init, RefreshesCounted
<1> QED
  BY <1>3, <1>4, <1>5, <1>6, <1>7, <1>8, <1>9, <1>10, <1>11, <1>12, Types DEF WatchInv

LEMMA WatchStutter ==
  ASSUME WatchInv, UNCHANGED vars
  PROVE  WatchInv'
<1>1. /\ Register!TypeOK' /\ HistoryOK' /\ PeersOK' /\ WorkersOK' /\ AskedOK' /\ MailOK' /\ BoundsOK'
      /\ RefreshesCounted' /\ Rested'
  BY Same DEF vars, fileVars, serverVars, workerVars, mailboxVars
<1>2. FlagsOK' /\ Alert' /\ RoundOK' /\ Sighted' /\ Counted'
  BY ServerRests DEF vars, fileVars, serverVars
<1> QED
  BY <1>1, <1>2, TypesNext, WatchInvNext

LEMMA WatchNext == WatchInv /\ [Next]_vars => WatchInv'
<1> SUFFICES ASSUME WatchInv, [Next]_vars PROVE WatchInv'
  OBVIOUS
<1>1. CASE Change \/ Replace
  BY <1>1, FileStep
<1>2. CASE Drain \/ Rewatch \/ EndRound \/ Wake \/ Restart
  BY <1>2, ControlStep
<1>3. CASE Accept
  BY <1>3, AcceptStep
<1>4. CASE Visit \/ DropLate
  BY <1>4, VisitStep
<1>5. CASE Crash
  BY <1>5, CrashStep
<1>6. CASE \E i \in 1..MaxClients : Due(i)
  BY <1>6, DueStep
<1>7. CASE \E c \in Consumers : Receive(c)
  BY <1>7, ReceiveStep
<1>8. CASE \E c \in Consumers : Send(c) \/ GiveUp(c)
  BY <1>8, ConnectionsStep
<1>9. CASE Strange \/ \E c \in Consumers : Begin(c) \/ Refresh(c) \/ Unpark(c) \/ Ping(c)
  BY <1>9, ConsumerStep
<1>10. CASE UNCHANGED vars
  BY <1>10, WatchStutter
<1> QED
  BY <1>1, <1>2, <1>3, <1>4, <1>5, <1>6, <1>7, <1>8, <1>9, <1>10 DEF Next, ServerStep, WorkerStep

LEMMA WatchInvariance == Spec => []WatchInv
<1> QED
  BY WatchInit, WatchNext, PTL DEF Spec

LEMMA WatchInvSound == WatchInv => WatchSound
<1> SUFFICES ASSUME WatchInv PROVE WatchSound
  OBVIOUS
<1>1. DOMAIN clients = 1..Len(clients)
  BY Types, LenProperties DEF WatchInv, PeersOK
<1>2. step = "wait" => \A i \in 1..Len(clients) : Visited(i)
  BY DEF Visited
<1>3. NoLostWakeup
  BY <1>1, <1>2 DEF NoLostWakeup, WatchInv, Sighted, Watching
<1>4. PlacesReserved
  <2> SUFFICES ASSUME step = "wait"
               PROVE  /\ Cardinality({i \in DOMAIN clients : clients[i].stage \in {"watching", "due"}})
                           <= MaxWatchers
                      /\ Cardinality({i \in DOMAIN clients : clients[i].stage = "silent" /\ clients[i].open})
                           <= MaxUnfinished
    BY DEF PlacesReserved
  <2>1. /\ WatchingNow = {i \in DOMAIN clients : clients[i].stage \in {"watching", "due"}}
        /\ SilentNow = {i \in DOMAIN clients : clients[i].stage = "silent" /\ clients[i].open}
    BY <1>1, <1>2 DEF WatchingNow, SilentNow, Watching, SilentlyOpen
  <2> QED
    BY <2>1, CountedIs DEF WatchInv
<1> QED
  BY <1>3, <1>4 DEF WatchSound, PlacesKept, WatchInv

\* For any consumers, limits and changes of the file: the daemon never sleeps on a change
\* that a watch has not seen, quiet connections never take every place, and no refresh is
\* lost between the channel, the worker and the mailbox.
THEOREM WatchesSound == Spec => []WatchSound
<1> QED
  BY WatchInvariance, WatchInvSound, PTL

-----------------------------------------------------------------------------
(* Refreshes are acknowledged truthfully. *)

\* The history only grows.
Grows(h, g) ==
  /\ h \in Seq(Register!Files) /\ g \in Seq(Register!Files)
  /\ Len(h) <= Len(g) /\ \A v \in 1..Len(h) : g[v] = h[v]

LEMMA Growth ==
  ASSUME NEW h \in Seq(Register!Files), NEW f \in Register!Files
  PROVE  Grows(h, h) /\ Grows(h, Append(h, f))
<1>1. Len(h) \in Nat
  OBVIOUS
<1>2. /\ Append(h, f) \in Seq(Register!Files) /\ Len(Append(h, f)) = Len(h) + 1
      /\ \A v \in 1..Len(h) : Append(h, f)[v] = h[v]
  BY AppendProperties
<1> QED
  BY <1>1, <1>2 DEF Grows

LEMMA SinceGrows ==
  ASSUME NEW h, NEW g, Grows(h, g), NEW s, NEW t \in Moments, Since(h, s, t)
  PROVE  Since(g, s, t)
<1>1. PICK v \in t..Len(h) : h[v] # Broken /\ s = Loaded(h[v])
  BY DEF Since
<1>2. Len(h) \in Nat /\ Len(g) \in Nat /\ Len(h) <= Len(g) /\ \A u \in 1..Len(h) : g[u] = h[u]
  BY DEF Grows
<1>3. t \in Nat /\ 1 <= t
  BY BoundAssumption DEF Moments, BoundAssumption
<1>4. v \in 1..Len(h) /\ v \in t..Len(g)
  BY <1>1, <1>2, <1>3
<1> QED
  BY <1>1, <1>2, <1>4 DEF Since

LEMMA SnapshotNames ==
  /\ Nothing \notin Snapshots /\ Unchanged \notin Snapshots /\ Refused \notin Snapshots
  /\ Nothing # Unchanged /\ Nothing # Refused /\ Unchanged # Refused
BY NoValueAssumption DEF NoValueAssumption

LEMMA SinceIs ==
  ASSUME NEW cs \in Seq(Completions), NEW i \in 1..Len(cs)
  PROVE  cs[i].since \in Moments /\ cs[i].since \in Nat
<1>1. cs[i] \in Completions
  BY ElementOfSeq
<1>2. cs[i].since \in Moments
  BY <1>1 DEF Completions
<1> QED
  BY <1>2, BoundAssumption DEF Moments, BoundAssumption

\* What has been served stays served.
LEMMA ServesGrows ==
  ASSUME NEW h, NEW g, Grows(h, g), NEW s, NEW ts \in Seq(Moments), NEW cs \in Seq(Completions),
         Serves(h, s, ts, cs)
  PROVE  Serves(g, s, ts, cs)
<1>1. \A i \in 1..Len(ts) : ts[i] \in Moments
  BY ElementOfSeq
<1>2. \A i \in 1..Len(cs) : cs[i].since \in Moments
  BY SinceIs
<1> QED
  BY <1>1, <1>2, SinceGrows DEF Serves

LEMMA TimesGrow ==
  ASSUME NEW h, NEW g, Grows(h, g), NEW ts \in Seq(Moments), NEW cs \in Seq(Completions)
  PROVE  /\ Dated(h, ts) => Dated(g, ts)
         /\ Recalled(h, cs) => Recalled(g, cs)
         /\ \A s : Promised(h, s, cs) => Promised(g, s, cs)
         /\ \A a : Keeps(h, a, ts, cs) => Keeps(g, a, ts, cs)
         /\ \A k : KeepsOn(h, k, ts, cs) => KeepsOn(g, k, ts, cs)
<1>1. \A i \in 1..Len(ts) : ts[i] \in Nat
  BY ElementOfSeq, BoundAssumption DEF Moments, BoundAssumption
<1>2. \A i \in 1..Len(cs) : cs[i].since \in Moments /\ cs[i].since \in Nat
  BY SinceIs
<1>3. Len(h) \in Nat /\ Len(g) \in Nat /\ Len(h) <= Len(g)
  BY DEF Grows
<1>4. Dated(h, ts) => Dated(g, ts)
  BY <1>1, <1>3 DEF Dated
<1>5. Recalled(h, cs) => Recalled(g, cs)
  BY <1>2, <1>3 DEF Recalled
<1>6. \A s : Promised(h, s, cs) => Promised(g, s, cs)
  BY <1>2, SinceGrows DEF Promised
<1>7. \A a : Keeps(h, a, ts, cs) => Keeps(g, a, ts, cs)
  BY ServesGrows DEF Keeps
<1>8. \A k : KeepsOn(h, k, ts, cs) => KeepsOn(g, k, ts, cs)
  BY ServesGrows DEF KeepsOn
<1> QED
  BY <1>4, <1>5, <1>6, <1>7, <1>8

\* Every open connection of c in t is one of s, in the same place.
Alike(t, s, c) ==
  \A i \in 1..Len(t) : Current(t[i], c) => i \in 1..Len(s) /\ Current(s[i], c)
AlikeInAll(t, s, c) ==
  \A i \in 1..Len(t) : Current(t[i], c) =>
    /\ i \in 1..Len(s) /\ Current(s[i], c)
    /\ t[i].after = s[i].after /\ t[i].response = s[i].response

LEMMA AlikeSole ==
  ASSUME NEW t, NEW s, NEW c, Alike(t, s, c)
  PROVE  /\ AtMostOne(s, c) => AtMostOne(t, c)
         /\ Among(t, c) => Among(s, c)
BY DEF Alike, AtMostOne, Among

LEMMA AlikeKeeps ==
  ASSUME NEW t, NEW s, NEW c, AlikeInAll(t, s, c),
         NEW h, NEW g, Grows(h, g), NEW ts \in Seq(Moments), NEW cs \in Seq(Completions),
         AllKeep(h, s, c, ts, cs)
  PROVE  Alike(t, s, c) /\ AllKeep(g, t, c, ts, cs)
<1>1. Alike(t, s, c)
  BY DEF Alike, AlikeInAll
<1>2. ASSUME NEW i \in 1..Len(t), Current(t[i], c)
      PROVE  KeepsOn(g, t[i], ts, cs)
  <2>1. /\ i \in 1..Len(s) /\ Current(s[i], c)
        /\ t[i].after = s[i].after /\ t[i].response = s[i].response
    BY <1>2 DEF AlikeInAll
  <2>2. KeepsOn(g, s[i], ts, cs)
    BY <2>1, TimesGrow DEF AllKeep
  <2> QED
    BY <2>1, <2>2 DEF KeepsOn
<1> QED
  BY <1>1, <1>2 DEF AllKeep

\* A consumer whose exchange goes on.
LEMMA GoesOn ==
  ASSUME WatchInv, NEW d \in Consumers, TruthFor(d), Grows(history, history'),
         taken'[d] = taken[d], completed'[d] = completed[d], latest'[d] = latest[d],
         answer'[d] = answer[d], Dated(history', queued'[d]),
         worker[d] \in {"connected", "sent"} => worker'[d] \in {"connected", "sent"},
         AlikeInAll(clients', clients, d), AlikeInAll(backlog', backlog, d)
  PROVE  TruthFor(d)'
<1>1. taken[d] \in Seq(Moments) /\ completed[d] \in Seq(Completions)
  BY Types DEF WatchInv, AskedOK, MailOK
<1>2. /\ Alike(clients', clients, d) /\ AllKeep(history', clients', d, taken[d], completed[d])
      /\ Alike(backlog', backlog, d) /\ AllKeep(history', backlog', d, taken[d], completed[d])
  BY <1>1, AlikeKeeps DEF TruthFor, TimelyFor
<1>3. Waits(d) => Waits(d)'
  BY DEF Waits
<1>4. /\ AtMostOne(clients', d) /\ AtMostOne(backlog', d)
      /\ Among(clients', d) => Among(clients, d)
      /\ Among(backlog', d) => Among(backlog, d)
  BY <1>2, AlikeSole DEF TruthFor, SoleFor
<1>5. SoleFor(d)'
  BY <1>3, <1>4 DEF TruthFor, SoleFor
<1>6. TimelyFor(d)'
  BY <1>1, <1>2, TimesGrow DEF TruthFor, TimelyFor
<1> QED
  BY <1>5, <1>6 DEF TruthFor

LEMMA AlikeItself ==
  ASSUME NEW s, NEW c
  PROVE  AlikeInAll(s, s, c)
BY DEF AlikeInAll

LEMMA FileTruth ==
  ASSUME TruthInv, WatchInv', Change \/ Replace
  PROVE  TruthInv'
<1>1. /\ UNCHANGED <<serverVars, workerVars, mailboxVars>>
      /\ history' = Append(history, file')
  BY DEF Change, Replace, Recorded
<1>2. history \in Seq(Register!Files) /\ file' \in Register!Files
  BY Types DEF TruthInv, WatchInv, HistoryOK, TypeOK, Register!TypeOK
<1>3. Grows(history, history')
  BY <1>1, <1>2, Growth
<1>4. Written'
  BY <1>1, <1>2, AppendProperties DEF Written
<1>5. ASSUME NEW d \in Consumers
      PROVE  TruthFor(d)'
  <2>1. /\ worker' = worker /\ queued' = queued /\ taken' = taken /\ completed' = completed
        /\ latest' = latest /\ answer' = answer /\ clients' = clients /\ backlog' = backlog
    BY <1>1 DEF serverVars, workerVars, mailboxVars
  <2>2. taken[d] \in Seq(Moments) /\ queued[d] \in Seq(Moments) /\ completed[d] \in Seq(Completions)
    BY Types DEF TruthInv, WatchInv, AskedOK, MailOK
  <2>3. Dated(history', queued'[d])
    BY <1>3, <2>1, <2>2, TimesGrow DEF TruthInv, TruthFor, TimelyFor
  <2> QED
    BY <1>3, <2>1, <2>3, AlikeItself, GoesOn DEF TruthInv
<1> QED
  BY <1>4, <1>5 DEF TruthInv

\* Where the file and its history stay.
LEMMA TruthRests ==
  ASSUME TruthInv, WatchInv', UNCHANGED <<file, history>>, \A d \in Consumers : TruthFor(d)'
  PROVE  TruthInv'
BY DEF TruthInv, Written

\* Nothing happens to what was asked of d, nor to its answers.
Undisturbed(d) ==
  /\ queued'[d] = queued[d] /\ taken'[d] = taken[d] /\ completed'[d] = completed[d]
  /\ latest'[d] = latest[d] /\ answer'[d] = answer[d]
  /\ worker[d] \in {"connected", "sent"} => worker'[d] \in {"connected", "sent"}

LEMMA GoesOnUndisturbed ==
  ASSUME TruthInv, UNCHANGED history, NEW d \in Consumers, Undisturbed(d),
         AlikeInAll(clients', clients, d), AlikeInAll(backlog', backlog, d)
  PROVE  TruthFor(d)'
<1>1. Grows(history, history')
  BY Growth, Types DEF TruthInv, WatchInv, HistoryOK, Register!TypeOK
<1>2. Dated(history', queued'[d])
  BY DEF TruthInv, TruthFor, TimelyFor, Undisturbed
<1> QED
  BY <1>1, <1>2, GoesOn DEF TruthInv, Undisturbed

LEMMA QuietTruth ==
  ASSUME TruthInv, WatchInv',
         \/ Drain \/ Rewatch \/ EndRound \/ Wake \/ Restart \/ Strange
         \/ \E n \in 1..MaxClients : Due(n)
         \/ \E c \in Consumers : Unpark(c) \/ Send(c)
         \/ UNCHANGED vars
  PROVE  TruthInv'
<1>1. /\ UNCHANGED <<file, history, queued, taken, completed, latest, answer>>
      /\ \A d \in Consumers :
           worker[d] \in {"connected", "sent"} => worker'[d] \in {"connected", "sent"}
  <2>1. UNCHANGED <<fileVars, mailboxVars, taken, answer>>
    BY DEF Drain, Rewatch, EndRound, Wake, Restart, Strange, Due, Unpark, Send, vars, workerVars
  <2>2. CASE UNCHANGED worker
    BY <2>1, <2>2 DEF fileVars, mailboxVars
  <2>3. CASE \E c \in Consumers : Unpark(c) \/ Send(c)
    <3>1. PICK c \in Consumers : Unpark(c) \/ Send(c)
      BY <2>3
    <3>2. worker \in [Consumers -> {"ready", "connected", "sent", "parked"}]
      BY Types DEF TruthInv, WatchInv, WorkersOK
    <3>3. \/ worker[c] = "parked" /\ worker' = [worker EXCEPT ![c] = "ready"]
          \/ worker' = [worker EXCEPT ![c] = "sent"]
      BY <3>1 DEF Unpark, Send
    <3>4. \A d \in Consumers :
            worker[d] \in {"connected", "sent"} => worker'[d] \in {"connected", "sent"}
      BY <3>2, <3>3
    <3> QED
      BY <2>1, <3>4 DEF fileVars, mailboxVars
  <2> QED
    BY <2>2, <2>3 DEF Drain, Rewatch, EndRound, Wake, Restart, Strange, Due, vars, workerVars
<1>2. clients \in Seq(Connections) /\ backlog \in Seq(Connections)
      /\ Len(clients) \in Nat /\ Len(backlog) \in Nat
  BY Types DEF TruthInv, WatchInv, PeersOK
<1>3. ASSUME NEW d \in Consumers
      PROVE  AlikeInAll(clients', clients, d) /\ AlikeInAll(backlog', backlog, d)
  <2>1. CASE UNCHANGED <<clients, backlog>>
    BY <2>1, AlikeItself
  <2>2. CASE Strange
    <3> DEFINE new == [who |-> Stranger, after |-> Nothing, stage |-> "silent",
                       response |-> Nothing, open |-> TRUE]
    <3>1. new \in Connections
      BY NewConnection
    <3>2. ~Current(new, d)
      BY NameAssumption DEF Current, NameAssumption
    <3>3. clients' = clients /\ backlog' = Append(backlog, new)
      BY <2>2 DEF Strange
    <3> HIDE DEF new
    <3>4. /\ Len(backlog') = Len(backlog) + 1 /\ backlog'[Len(backlog) + 1] = new
          /\ \A i \in 1..Len(backlog) : backlog'[i] = backlog[i]
      BY <1>2, <3>1, <3>3, AppendProperties
    <3>5. AlikeInAll(backlog', backlog, d)
      BY <1>2, <3>2, <3>4 DEF AlikeInAll
    <3> QED
      BY <3>3, <3>5, AlikeItself
  <2>3. CASE \E n \in 1..MaxClients : Due(n)
    <3>1. PICK n \in 1..MaxClients : Due(n)
      BY <2>3
    <3>2. n \in 1..Len(clients) /\ clients[n] \in Connections /\ backlog' = backlog
      BY <1>2, <3>1, LenProperties, ElementOfSeq DEF Due
    <3>3. PICK g \in {"due", "late"} :
            clients' = [clients EXCEPT ![n] = [clients[n] EXCEPT !.stage = g]]
      BY <3>1 DEF Due
    <3>4. /\ [clients[n] EXCEPT !.stage = g] \in Connections
          /\ [clients[n] EXCEPT !.stage = g].who = clients[n].who
          /\ [clients[n] EXCEPT !.stage = g].open = clients[n].open
          /\ [clients[n] EXCEPT !.stage = g].after = clients[n].after
          /\ [clients[n] EXCEPT !.stage = g].response = clients[n].response
      BY <3>2 DEF Connections
    <3>5. /\ Len(clients') = Len(clients)
          /\ \A i \in 1..Len(clients) :
               clients'[i] = IF i = n THEN [clients[n] EXCEPT !.stage = g] ELSE clients[i]
      BY <1>2, <3>2, <3>3, <3>4, ExceptSeq
    <3>6. AlikeInAll(clients', clients, d)
      BY <3>4, <3>5 DEF AlikeInAll, Current
    <3> QED
      BY <3>2, <3>6, AlikeItself
  <2>4. CASE \E c \in Consumers : Send(c)
    <3>1. PICK c \in Consumers : Send(c)
      BY <2>4
    <3>2. /\ clients' = [i \in DOMAIN clients |->
                          IF Current(clients[i], c) THEN SentOn(clients[i]) ELSE clients[i]]
          /\ backlog' = [i \in DOMAIN backlog |->
                          IF Current(backlog[i], c) THEN SentOn(backlog[i]) ELSE backlog[i]]
      BY <3>1 DEF Send, Revise, SentOn
    <3>3. AsSent(clients, c, clients') /\ AsSent(backlog, c, backlog')
      BY <1>2, <3>2, RevisedSent
    <3> QED
      BY <3>3 DEF AsSent, AlikeInAll, Current
  <2> QED
    BY <2>1, <2>2, <2>3, <2>4
    DEF Drain, Rewatch, EndRound, Wake, Restart, Unpark, vars, serverVars
<1>4. \A d \in Consumers : TruthFor(d)'
  BY <1>1, <1>3, GoesOnUndisturbed DEF Undisturbed
<1> QED
  BY <1>1, <1>4, TruthRests

LEMMA RefreshTruth ==
  ASSUME TruthInv, WatchInv', NEW c \in Consumers, Refresh(c)
  PROVE  TruthInv'
<1>1. /\ queued' = [queued EXCEPT ![c] = Append(queued[c], Len(history))]
      /\ UNCHANGED <<fileVars, serverVars, workerVars, latest, completed>>
  BY DEF Refresh
<1>2. /\ history \in Seq(Register!Files) /\ Len(history) \in Moments /\ Len(history) \in Nat
      /\ queued \in [Consumers -> Seq(Moments)] /\ queued[c] \in Seq(Moments)
  BY Types DEF TruthInv, WatchInv, HistoryOK, AskedOK
<1>3. Grows(history, history')
  BY <1>1, <1>2, Growth DEF fileVars, Register!Files
<1>4. ASSUME NEW d \in Consumers
      PROVE  TruthFor(d)'
  <2>1. Dated(history, queued[d])
    BY DEF TruthInv, TruthFor, TimelyFor
  <2>2. Dated(history', queued'[d])
    <3>1. CASE d = c
      <4>1. queued'[d] = Append(queued[c], Len(history)) /\ history' = history
        BY <1>1, <1>2, <3>1 DEF fileVars
      <4>2. /\ Len(Append(queued[c], Len(history))) = Len(queued[c]) + 1
            /\ Append(queued[c], Len(history))[Len(queued[c]) + 1] = Len(history)
            /\ \A i \in 1..Len(queued[c]) : Append(queued[c], Len(history))[i] = queued[c][i]
            /\ Len(queued[c]) \in Nat
        BY <1>2, AppendProperties
      <4>3. \A i \in 1..(Len(queued[c]) + 1) : Append(queued[c], Len(history))[i] <= Len(history)
        BY <1>2, <2>1, <3>1, <4>2 DEF Dated
      <4> QED
        BY <4>1, <4>2, <4>3 DEF Dated
    <3>2. CASE d # c
      BY <1>1, <1>2, <2>1, <3>2 DEF Dated, fileVars
    <3> QED
      BY <3>1, <3>2
  <2>3. /\ taken' = taken /\ completed' = completed /\ latest' = latest /\ answer' = answer
        /\ worker' = worker /\ clients' = clients /\ backlog' = backlog
    BY <1>1 DEF serverVars, workerVars
  <2> QED
    BY <1>3, <2>2, <2>3, AlikeItself, GoesOn DEF TruthInv
<1> QED
  BY <1>1, <1>4, TruthRests DEF fileVars

\* A worker that takes what was asked opens its only connection.
LEMMA BeginTruth ==
  ASSUME TruthInv, WatchInv', NEW c \in Consumers, Begin(c)
  PROVE  TruthInv'
<1>1. /\ worker[c] = "ready" /\ worker' = [worker EXCEPT ![c] = "connected"]
      /\ taken' = [taken EXCEPT ![c] = queued[c]] /\ queued' = [queued EXCEPT ![c] = <<>>]
      /\ UNCHANGED <<fileVars, clients, latest, completed>>
  BY DEF Begin
<1>2. /\ worker \in [Consumers -> {"ready", "connected", "sent", "parked"}]
      /\ answer \in [Consumers -> Answers \cup {Nothing}]
      /\ cursor[c] \in Snapshots \cup {Nothing}
      /\ queued \in [Consumers -> Seq(Moments)] /\ taken \in [Consumers -> Seq(Moments)]
      /\ backlog \in Seq(Connections) /\ Len(backlog) \in Nat
  BY Types DEF TruthInv, WatchInv, WorkersOK, AskedOK, PeersOK
<1> DEFINE new == [who |-> c, after |-> IF queued[c] = <<>> THEN cursor[c] ELSE Nothing,
                   stage |-> "silent", response |-> Nothing, open |-> TRUE]
<1>3. /\ new \in Connections /\ new.who = c /\ new.response = Nothing
      /\ queued[c] # <<>> => new.after = Nothing
  <2>1. (IF queued[c] = <<>> THEN cursor[c] ELSE Nothing) \in Snapshots \cup {Nothing}
    BY <1>2
  <2>2. new \in Connections
    BY <2>1, NewConnection
  <2> QED
    BY <2>2
<1>4. \/ backlog' = backlog /\ answer' = [answer EXCEPT ![c] = Refused]
      \/ backlog' = Append(backlog, new) /\ answer' = [answer EXCEPT ![c] = Nothing]
  BY DEF Begin
<1> HIDE DEF new
<1>5. \/ backlog' = backlog
      \/ /\ Len(backlog') = Len(backlog) + 1 /\ backlog'[Len(backlog) + 1] = new
         /\ \A i \in 1..Len(backlog) : backlog'[i] = backlog[i]
  <2>1. /\ Len(Append(backlog, new)) = Len(backlog) + 1
        /\ Append(backlog, new)[Len(backlog) + 1] = new
        /\ \A i \in 1..Len(backlog) : Append(backlog, new)[i] = backlog[i]
    BY <1>2, <1>3, AppendProperties
  <2>2. backlog' = backlog \/ backlog' = Append(backlog, new)
    BY <1>4
  <2> QED
    BY <2>1, <2>2
<1>6. ASSUME NEW d \in Consumers \ {c}
      PROVE  TruthFor(d)'
  <2>1. Undisturbed(d)
    BY <1>1, <1>2, <1>4 DEF Undisturbed
  <2>2. AlikeInAll(backlog', backlog, d)
    <3>1. CASE backlog' = backlog
      BY <3>1, AlikeItself
    <3>2. CASE backlog' # backlog
      BY <1>2, <1>3, <1>5, <3>2 DEF AlikeInAll, Current
    <3> QED
      BY <3>1, <3>2
  <2> QED
    BY <1>1, <2>1, <2>2, AlikeItself, GoesOnUndisturbed DEF fileVars
<1>7. TruthFor(c)'
  <2>1. TruthFor(c) /\ ~Among(clients, c) /\ ~Among(backlog, c)
    BY <1>1 DEF TruthInv, TruthFor, SoleFor, Waits
  <2>2. queued'[c] = <<>> /\ taken'[c] = queued[c] /\ worker'[c] = "connected"
    BY <1>1, <1>2
  <2>3. \A i \in 1..Len(backlog') : Current(backlog'[i], c) =>
          backlog' # backlog /\ i = Len(backlog) + 1 /\ backlog'[i] = new
    <3>1. CASE backlog' = backlog
      BY <2>1, <3>1 DEF Among
    <3>2. CASE backlog' # backlog
      <4>1. /\ Len(backlog') = Len(backlog) + 1 /\ backlog'[Len(backlog) + 1] = new
            /\ \A i \in 1..Len(backlog) : backlog'[i] = backlog[i]
        BY <1>5, <3>2
      <4>2. \A i \in 1..(Len(backlog) + 1) : i \in 1..Len(backlog) \/ i = Len(backlog) + 1
        BY <1>2
      <4> QED
        BY <2>1, <3>2, <4>1, <4>2 DEF Among
    <3> QED
      BY <3>1, <3>2
  <2>4. answer'[c] \in {Nothing, Refused} /\ (backlog' # backlog => answer'[c] = Nothing)
    BY <1>2, <1>4
  <2>5. SoleFor(c)'
    BY <1>1, <2>1, <2>2, <2>3, <2>4 DEF SoleFor, Among, AtMostOne, Waits
  <2>6. Dated(history', queued'[c]) /\ Dated(history', taken'[c]) /\ Recalled(history', completed'[c])
    BY <1>1, <2>1, <2>2, EmptySeq DEF TruthFor, TimelyFor, Dated, fileVars
  <2>7. Keeps(history', answer'[c], taken'[c], completed'[c])
    BY <2>4, SnapshotNames DEF Keeps
  <2>8. AllKeep(history', clients', c, taken'[c], completed'[c])
    BY <1>1, <2>1 DEF AllKeep, Among
  <2>9. AllKeep(history', backlog', c, taken'[c], completed'[c])
    BY <1>3, <2>2, <2>3, SnapshotNames DEF AllKeep, KeepsOn
  <2>10. Promised(history', latest'[c], completed'[c])
    BY <1>1, <2>1 DEF TruthFor, TimelyFor, fileVars
  <2> QED
    BY <2>5, <2>6, <2>7, <2>8, <2>9, <2>10 DEF TruthFor, TimelyFor
<1> QED
  BY <1>1, <1>6, <1>7, TruthRests DEF fileVars

LEMMA Completing ==
  ASSUME NEW t, NEW b, NEW r, r = [since |-> t, ok |-> b]
  PROVE  r.since = t /\ r.ok = b
OBVIOUS

LEMMA CompletingWell ==
  ASSUME NEW t, NEW x, NEW y, NEW r, r = [since |-> t, ok |-> x # y], r.ok
  PROVE  x # y
<1>1. ASSUME x = y PROVE FALSE
  <2>1. (x # y) = FALSE
    BY <1>1
  <2>2. r = [since |-> t, ok |-> FALSE]
    BY <2>1, Zenon
  <2>3. r.ok = FALSE
    BY <2>2, Completing
  <2> QED BY <2>3
<1> QED BY <1>1

\* The end of an exchange completes what was taken as its result deserves.
LEMMA FinishTruth ==
  ASSUME TruthInv, UNCHANGED history, NEW c \in Consumers, NEW result \in Answers,
         Finish(c, result, taken[c], queued[c]), UNCHANGED <<pending, applied>>,
         Keeps(history, result, taken[c], completed[c]),
         ~Among(clients', c), ~Among(backlog', c)
  PROVE  TruthFor(c)'
<1>1. /\ queued' = queued /\ taken' = [taken EXCEPT ![c] = <<>>]
      /\ answer' = [answer EXCEPT ![c] = Nothing]
      /\ latest' = [latest EXCEPT ![c] = IF result \in Snapshots THEN result ELSE latest[c]]
      /\ Len(completed'[c]) = Len(completed[c]) + Len(taken[c])
      /\ \A i \in 1..Len(completed[c]) : completed'[c][i] = completed[c][i]
      /\ \A i \in 1..Len(taken[c]) :
           completed'[c][Len(completed[c]) + i] = [since |-> taken[c][i], ok |-> result # Refused]
  BY Finished DEF TruthInv
<1>2. /\ taken \in [Consumers -> Seq(Moments)] /\ answer \in [Consumers -> Answers \cup {Nothing}]
      /\ latest \in [Consumers -> Snapshots \cup {Nothing}]
      /\ Len(completed[c]) \in Nat /\ Len(taken[c]) \in Nat
  BY Types DEF TruthInv, WatchInv, AskedOK, WorkersOK, MailOK
<1>3. /\ taken'[c] = <<>> /\ answer'[c] = Nothing
      /\ latest'[c] = IF result \in Snapshots THEN result ELSE latest[c]
  BY <1>1, <1>2
<1>4. SoleFor(c)'
  BY DEF SoleFor, Among, AtMostOne
<1>5. TimelyFor(c)
  BY DEF TruthInv, TruthFor
\* What the mailbox completes now was completed before or taken.
<1>6. ASSUME NEW i \in 1..Len(completed'[c])
      PROVE  \/ i \in 1..Len(completed[c]) /\ completed'[c][i] = completed[c][i]
             \/ \E j \in 1..Len(taken[c]) :
                  completed'[c][i] = [since |-> taken[c][j], ok |-> result # Refused]
  <2>1. i \in 1..(Len(completed[c]) + Len(taken[c]))
    BY <1>1
  <2>2. CASE i \in 1..Len(completed[c])
    BY <1>1, <2>2
  <2>3. CASE i \notin 1..Len(completed[c])
    <3>1. i - Len(completed[c]) \in 1..Len(taken[c]) /\ Len(completed[c]) + (i - Len(completed[c])) = i
      BY <1>2, <2>1, <2>3
    <3> QED
      BY <1>1, <3>1, Zenon
  <2> QED
    BY <2>2, <2>3
<1>7. Dated(history', queued'[c]) /\ Dated(history', taken'[c])
  BY <1>1, <1>3, <1>5, EmptySeq DEF TimelyFor, Dated
<1>8. Recalled(history', completed'[c])
  <2> SUFFICES ASSUME NEW i \in 1..Len(completed'[c])
               PROVE  completed'[c][i].since <= Len(history)
    BY DEF Recalled
  <2>1. CASE i \in 1..Len(completed[c]) /\ completed'[c][i] = completed[c][i]
    BY <1>5, <2>1 DEF TimelyFor, Recalled
  <2>2. CASE \E j \in 1..Len(taken[c]) :
               completed'[c][i] = [since |-> taken[c][j], ok |-> result # Refused]
    <3>1. PICK j \in 1..Len(taken[c]) :
                 completed'[c][i] = [since |-> taken[c][j], ok |-> result # Refused]
      BY <2>2
    <3>2. completed'[c][i].since = taken[c][j]
      BY <3>1, Completing, Zenon
    <3> QED
      BY <1>5, <3>2 DEF TimelyFor, Dated
  <2> QED
    BY <1>6, <2>1, <2>2
<1>9. Keeps(history', answer'[c], taken'[c], completed'[c])
  BY <1>3, SnapshotNames DEF Keeps
<1>10. /\ AllKeep(history', clients', c, taken'[c], completed'[c])
       /\ AllKeep(history', backlog', c, taken'[c], completed'[c])
  BY DEF AllKeep, Among
<1>11. Promised(history', latest'[c], completed'[c])
  <2> SUFFICES ASSUME NEW i \in 1..Len(completed'[c]), completed'[c][i].ok
               PROVE  latest'[c] # Nothing /\ Since(history, latest'[c], completed'[c][i].since)
    BY DEF Promised
  <2>1. CASE i \in 1..Len(completed[c]) /\ completed'[c][i] = completed[c][i]
    <3>1. CASE result \in Snapshots
      BY <1>3, <2>1, <3>1, SnapshotNames DEF Keeps, Serves
    <3>2. CASE result \notin Snapshots
      BY <1>3, <1>5, <2>1, <3>2 DEF TimelyFor, Promised
    <3> QED
      BY <3>1, <3>2
  <2>2. CASE \E j \in 1..Len(taken[c]) :
               completed'[c][i] = [since |-> taken[c][j], ok |-> result # Refused]
    <3>1. PICK j \in 1..Len(taken[c]) :
                 completed'[c][i] = [since |-> taken[c][j], ok |-> result # Refused]
      BY <2>2
    <3>2. completed'[c][i].since = taken[c][j] /\ result # Refused
      <4>1. completed'[c][i].since = taken[c][j]
        BY <3>1, Completing, Zenon
      <4>2. completed'[c][i].ok
        OBVIOUS
      <4>3. result # Refused
        BY <3>1, <4>2, CompletingWell, Zenon
      <4> QED
        BY <4>1, <4>3
    <3>3. taken[c] # <<>>
      BY <3>1, EmptySeq
    <3>4. result \in Snapshots
      BY <3>2, <3>3 DEF Answers, Keeps
    <3> QED
      BY <1>3, <3>2, <3>4, SnapshotNames DEF Keeps, Serves
  <2> QED
    BY <1>6, <2>1, <2>2
<1> QED
  BY <1>4, <1>7, <1>8, <1>9, <1>10, <1>11 DEF TruthFor, TimelyFor

\* The others go on while the exchange of c ends.
LEMMA FinishOthers ==
  ASSUME TruthInv, NEW c \in Consumers, NEW result \in Answers,
         Finish(c, result, taken[c], queued[c]), UNCHANGED <<pending, applied>>,
         NEW d \in Consumers \ {c}
  PROVE  Undisturbed(d)
<1>1. /\ queued' = queued /\ taken' = [taken EXCEPT ![c] = <<>>]
      /\ answer' = [answer EXCEPT ![c] = Nothing]
      /\ latest' = [latest EXCEPT ![c] = IF result \in Snapshots THEN result ELSE latest[c]]
      /\ completed'[d] = completed[d] /\ worker'[d] = worker[d]
  BY Finished DEF TruthInv
<1>2. /\ taken \in [Consumers -> Seq(Moments)] /\ answer \in [Consumers -> Answers \cup {Nothing}]
      /\ latest \in [Consumers -> Snapshots \cup {Nothing}]
  BY Types DEF TruthInv, WatchInv, AskedOK, WorkersOK, MailOK
<1> QED
  BY <1>1, <1>2 DEF Undisturbed

LEMMA ReceiveTruth ==
  ASSUME TruthInv, WatchInv', NEW c \in Consumers, Receive(c)
  PROVE  TruthInv'
<1>1. /\ UNCHANGED <<fileVars, serverVars, pending, applied>>
      /\ answer[c] # Nothing /\ Finish(c, answer[c], taken[c], queued[c])
  BY DEF Receive
<1>2. answer[c] \in Answers
  BY <1>1, Types DEF TruthInv, WatchInv, WorkersOK
<1>3. UNCHANGED <<file, history, clients, backlog>>
  BY <1>1 DEF fileVars, serverVars
<1>4. ~Among(clients, c) /\ ~Among(backlog, c) /\ Keeps(history, answer[c], taken[c], completed[c])
  BY <1>1 DEF TruthInv, TruthFor, SoleFor, TimelyFor, Waits
<1>5. TruthFor(c)'
  <2>1. ~Among(clients', c) /\ ~Among(backlog', c)
    BY <1>3, <1>4
  <2> QED
    BY <1>1, <1>2, <1>3, <1>4, <2>1, FinishTruth
<1>6. ASSUME NEW d \in Consumers \ {c}
      PROVE  TruthFor(d)'
  <2>1. Undisturbed(d)
    BY <1>1, <1>2, FinishOthers
  <2> QED
    BY <1>3, <2>1, AlikeItself, GoesOnUndisturbed
<1> QED
  BY <1>3, <1>5, <1>6, TruthRests

LEMMA GiveUpTruth ==
  ASSUME TruthInv, WatchInv', NEW c \in Consumers, GiveUp(c)
  PROVE  TruthInv'
<1>1. /\ UNCHANGED <<fileVars, pending, applied>>
      /\ Finish(c, Refused, taken[c], queued[c])
  BY DEF GiveUp
<1>2. Refused \in Answers /\ UNCHANGED <<file, history>>
  BY <1>1 DEF Answers, fileVars
<1>3. AsClosed(clients, c, clients') /\ AsClosed(backlog, c, backlog')
  <2>1. clients \in Seq(Connections) /\ backlog \in Seq(Connections)
    BY Types DEF TruthInv, WatchInv, PeersOK
  <2>2. /\ clients' = [i \in DOMAIN clients |->
                        IF Current(clients[i], c) THEN ClosedOn(clients[i]) ELSE clients[i]]
        /\ backlog' = [i \in DOMAIN backlog |->
                        IF Current(backlog[i], c) THEN ClosedOn(backlog[i]) ELSE backlog[i]]
    BY DEF GiveUp, Revise, ClosedOn
  <2> QED
    BY <2>1, <2>2, RevisedClosed
<1>4. TruthFor(c)'
  <2>1. ~Among(clients', c) /\ ~Among(backlog', c)
    BY <1>3 DEF AsClosed, Among
  <2>2. Keeps(history, Refused, taken[c], completed[c])
    BY SnapshotNames DEF Keeps
  <2> QED
    BY <1>1, <1>2, <2>1, <2>2, FinishTruth
<1>5. ASSUME NEW d \in Consumers \ {c}
      PROVE  TruthFor(d)'
  <2>1. Undisturbed(d)
    BY <1>1, <1>2, FinishOthers
  <2>2. AlikeInAll(clients', clients, d) /\ AlikeInAll(backlog', backlog, d)
    BY <1>3 DEF AsClosed, AlikeInAll, Current
  <2> QED
    BY <1>2, <2>1, <2>2, GoesOnUndisturbed
<1> QED
  BY <1>2, <1>4, <1>5, TruthRests

LEMMA PingTruth ==
  ASSUME TruthInv, WatchInv', NEW c \in Consumers, Ping(c)
  PROVE  TruthInv'
<1>1. /\ latest' = [latest EXCEPT ![c] = Nothing]
      /\ completed' = [completed EXCEPT ![c] = <<>>]
      /\ UNCHANGED <<file, history, clients, backlog, worker, queued, taken, answer>>
  BY DEF Ping, fileVars, serverVars, workerVars
<1>2. latest \in [Consumers -> Snapshots \cup {Nothing}] /\ completed \in [Consumers -> Seq(Completions)]
  BY Types DEF TruthInv, WatchInv, MailOK
<1>3. TruthFor(c)'
  <2>1. completed'[c] = <<>> /\ Len(<<>>) = 0
    BY <1>1, <1>2, EmptySeq
  <2>2. SoleFor(c)'
    BY <1>1 DEF TruthInv, TruthFor, SoleFor, Waits
  <2>3. TimelyFor(c)
    BY DEF TruthInv, TruthFor
  <2>4. Recalled(history', completed'[c]) /\ Promised(history', latest'[c], completed'[c])
    BY <2>1 DEF Recalled, Promised
  <2>5. \A s : Serves(history, s, taken[c], completed[c]) => Serves(history', s, taken'[c], completed'[c])
    BY <1>1, <2>1 DEF Serves
  <2>6. /\ Dated(history', queued'[c]) /\ Dated(history', taken'[c])
        /\ Keeps(history', answer'[c], taken'[c], completed'[c])
    BY <1>1, <2>3, <2>5 DEF TimelyFor, Keeps
  <2>7. /\ AllKeep(history', clients', c, taken'[c], completed'[c])
        /\ AllKeep(history', backlog', c, taken'[c], completed'[c])
    <3>1. \A k : KeepsOn(history, k, taken[c], completed[c])
                   => KeepsOn(history', k, taken'[c], completed'[c])
      BY <1>1, <2>5 DEF KeepsOn
    <3> QED
      BY <1>1, <2>3, <3>1 DEF TimelyFor, AllKeep
  <2> QED
    BY <2>2, <2>4, <2>6, <2>7 DEF TruthFor, TimelyFor
<1>4. ASSUME NEW d \in Consumers \ {c}
      PROVE  TruthFor(d)'
  <2>1. Undisturbed(d)
    BY <1>1, <1>2 DEF Undisturbed
  <2> QED
    BY <1>1, <2>1, AlikeItself, GoesOnUndisturbed
<1> QED
  BY <1>1, <1>3, <1>4, TruthRests

\* A consumer of whom only the connections and the answer change.
LEMMA GoesOnWith ==
  ASSUME TruthInv, NEW d \in Consumers, UNCHANGED <<history, queued, taken, completed, latest>>,
         SoleFor(d)', Keeps(history, answer'[d], taken[d], completed[d]),
         AllKeep(history, clients', d, taken[d], completed[d]),
         AllKeep(history, backlog', d, taken[d], completed[d])
  PROVE  TruthFor(d)'
<1>1. TimelyFor(d)
  BY DEF TruthInv, TruthFor
<1>2. TimelyFor(d)'
  BY <1>1 DEF TimelyFor
<1> QED
  BY <1>2 DEF TruthFor

LEMMA CrashTruth ==
  ASSUME TruthInv, WatchInv', Crash
  PROVE  TruthInv'
<1>1. /\ clients' = <<>> /\ backlog' = <<>> /\ Len(<<>>) = 0
      /\ UNCHANGED <<file, history, queued, taken, completed, latest>>
  BY EmptySeq DEF Crash, fileVars, mailboxVars
<1>2. ASSUME NEW d \in Consumers
      PROVE  TruthFor(d)'
  <2>1. SoleFor(d)' /\ AllKeep(history, clients', d, taken[d], completed[d])
        /\ AllKeep(history, backlog', d, taken[d], completed[d])
    BY <1>1 DEF SoleFor, AtMostOne, Among, AllKeep
  <2>2. answer'[d] \in {Refused, answer[d]}
    BY DEF Crash
  <2>3. Keeps(history, answer'[d], taken[d], completed[d])
    BY <2>2, SnapshotNames DEF TruthInv, TruthFor, TimelyFor, Keeps
  <2> QED
    BY <1>1, <2>1, <2>3, GoesOnWith
<1> QED
  BY <1>1, <1>2, TruthRests

\* A connection that the daemon accepts is the same connection.
LEMMA AcceptTruth ==
  ASSUME TruthInv, WatchInv', Accept
  PROVE  TruthInv'
<1>1. UNCHANGED <<file, history, queued, taken, completed, latest, worker, answer>>
  BY DEF Accept, fileVars, workerVars, mailboxVars
<1>2. CASE UNCHANGED <<clients, backlog>>
  <2>1. \A d \in Consumers : Undisturbed(d)
    BY <1>1 DEF Undisturbed
  <2> QED
    BY <1>1, <1>2, <2>1, AlikeItself, GoesOnUndisturbed, TruthRests
<1>3. CASE backlog # <<>> /\ clients' = Append(clients, Head(backlog)) /\ backlog' = Tail(backlog)
  <2>1. clients \in Seq(Connections) /\ backlog \in Seq(Connections) /\ Head(backlog) \in Connections
    BY <1>3, Types, HeadTailProperties DEF TruthInv, WatchInv, PeersOK
  <2>2. /\ Len(clients) \in Nat /\ Len(backlog) \in Nat /\ Len(backlog) > 0
        /\ Head(backlog) = backlog[1]
        /\ Len(backlog') = Len(backlog) - 1
        /\ \A i \in 1..Len(backlog') : backlog'[i] = backlog[i + 1]
    BY <1>3, <2>1, HeadTailProperties, EmptySeq
  <2>3. /\ Len(clients') = Len(clients) + 1 /\ clients'[Len(clients) + 1] = backlog[1]
        /\ \A i \in 1..Len(clients) : clients'[i] = clients[i]
    BY <1>3, <2>1, <2>2, AppendProperties
  <2>4. /\ \A i \in 1..Len(clients') : i \in 1..Len(clients) \/ i = Len(clients) + 1
        /\ \A i \in 1..Len(backlog') : i + 1 \in 1..Len(backlog) /\ i + 1 # 1
        /\ \A i, j \in 1..Len(backlog') : i + 1 = j + 1 => i = j
        /\ 1 \in 1..Len(backlog)
    BY <2>2, <2>3
  <2>5. ASSUME NEW d \in Consumers
        PROVE  TruthFor(d)'
    <3>1. SoleFor(d) /\ TimelyFor(d)
      BY DEF TruthInv, TruthFor
    <3>2. AtMostOne(clients', d)
      BY <2>3, <2>4, <3>1 DEF SoleFor, AtMostOne, Among
    <3>3. AtMostOne(backlog', d)
      BY <2>2, <2>4, <3>1 DEF SoleFor, AtMostOne
    <3>4. Among(backlog', d) => \E i \in 1..Len(backlog) : i # 1 /\ Current(backlog[i], d)
      BY <2>2, <2>4 DEF Among
    <3>5. Among(clients', d) => Among(clients, d) \/ Current(backlog[1], d)
      BY <2>3, <2>4 DEF Among
    <3>6. ~(Among(clients', d) /\ Among(backlog', d))
          /\ (Among(clients', d) \/ Among(backlog', d) => Among(clients, d) \/ Among(backlog, d))
      BY <2>4, <3>1, <3>4, <3>5 DEF SoleFor, AtMostOne, Among
    <3>7. SoleFor(d)'
      BY <1>1, <3>1, <3>2, <3>3, <3>6 DEF SoleFor, Waits
    <3>8. /\ AllKeep(history, clients', d, taken[d], completed[d])
          /\ AllKeep(history, backlog', d, taken[d], completed[d])
      BY <2>2, <2>3, <2>4, <3>1 DEF TimelyFor, AllKeep
    <3> QED
      BY <1>1, <3>1, <3>7, <3>8, GoesOnWith DEF TimelyFor
  <2> QED
    BY <1>1, <2>5, TruthRests
<1> QED
  BY <1>2, <1>3 DEF Accept

\* The visited client k leaves with the response r.
LEMMA LeaveTruth ==
  ASSUME TruthInv, UNCHANGED <<file, history, queued, taken, completed, latest, worker, backlog>>,
         position \in 1..Len(clients), NEW k, NEW r, Leave(k, r),
         k.who = clients[position].who, k.open = clients[position].open,
         NEW d \in Consumers,
         Current(clients[position], d) => Keeps(history, r, taken[d], completed[d])
  PROVE  TruthFor(d)'
<1>1. SoleFor(d) /\ TimelyFor(d)
  BY DEF TruthInv, TruthFor
<1>2. clients \in Seq(Connections) /\ Len(clients) \in Nat
      /\ answer \in [Consumers -> Answers \cup {Nothing}]
  BY Types DEF TruthInv, WatchInv, PeersOK, WorkersOK
<1>3. /\ clients' = RemoveAt(clients, position)
      /\ answer' = IF k.open /\ k.who \in Consumers THEN [answer EXCEPT ![k.who] = r] ELSE answer
  BY DEF Leave
<1>4. /\ Len(clients') = Len(clients) - 1
      /\ \A i \in 1..(Len(clients) - 1) :
           clients'[i] = IF i < position THEN clients[i] ELSE clients[i + 1]
  BY <1>2, <1>3, Removed
<1> DEFINE old(i) == IF i < position THEN i ELSE i + 1
<1>5. ASSUME NEW i \in 1..Len(clients')
      PROVE  /\ old(i) \in 1..Len(clients) /\ old(i) # position /\ clients'[i] = clients[old(i)]
             /\ \A j \in 1..Len(clients') : old(i) = old(j) => i = j
  BY <1>2, <1>4
<1> HIDE DEF old
<1>6. /\ AtMostOne(clients', d) /\ (Among(clients', d) => Among(clients, d))
      /\ Current(clients[position], d) => ~Among(clients', d)
  BY <1>1, <1>5 DEF SoleFor, AtMostOne, Among
<1>7. \/ answer'[d] = answer[d]
      \/ answer'[d] = r /\ Current(clients[position], d)
  BY <1>2, <1>3 DEF Current
<1>8. Current(clients[position], d) => ~Among(backlog, d)
  BY <1>1 DEF SoleFor, Among
<1>9. SoleFor(d)'
  BY <1>1, <1>6, <1>7, <1>8 DEF SoleFor, Waits
<1>10. Keeps(history, answer'[d], taken[d], completed[d])
  BY <1>1, <1>7 DEF TimelyFor
<1>11. /\ AllKeep(history, clients', d, taken[d], completed[d])
       /\ AllKeep(history, backlog', d, taken[d], completed[d])
  BY <1>1, <1>5 DEF TimelyFor, AllKeep
<1> QED
  BY <1>9, <1>10, <1>11, GoesOnWith

\* The visited client stays as k.
LEMMA StayTruth ==
  ASSUME TruthInv, UNCHANGED <<file, history, queued, taken, completed, latest, worker, backlog>>,
         position \in 1..Len(clients), NEW k \in Connections, Stay(k),
         k.who = clients[position].who, k.open = clients[position].open,
         NEW d \in Consumers,
         Current(clients[position], d) => KeepsOn(history, k, taken[d], completed[d])
  PROVE  TruthFor(d)'
<1>1. SoleFor(d) /\ TimelyFor(d)
  BY DEF TruthInv, TruthFor
<1>2. clients \in Seq(Connections)
  BY Types DEF TruthInv, WatchInv, PeersOK
<1>3. answer' = answer /\ clients' = [clients EXCEPT ![position] = k]
  BY DEF Stay
<1>4. /\ Len(clients') = Len(clients)
      /\ \A i \in 1..Len(clients) : clients'[i] = IF i = position THEN k ELSE clients[i]
  BY <1>2, <1>3, ExceptSeq
<1>5. Alike(clients', clients, d)
  BY <1>4 DEF Alike, Current
<1>6. SoleFor(d)'
  BY <1>1, <1>3, <1>5, AlikeSole DEF SoleFor, Waits
<1>7. AllKeep(history, clients', d, taken[d], completed[d])
  BY <1>1, <1>4 DEF TimelyFor, AllKeep, Current
<1> QED
  BY <1>1, <1>3, <1>6, <1>7, GoesOnWith DEF TimelyFor

\* What a visit reads is newer than everything that was asked.
LEMMA LooksTruth ==
  ASSUME TruthInv, NEW d \in Consumers, NEW k \in Connections,
         KeepsOn(history, k, taken[d], completed[d])
  PROVE  /\ KeepsOn(history, Watched(Dispatched(k)), taken[d], completed[d])
         /\ Keeps(history, Watched(Dispatched(k)).response, taken[d], completed[d])
<1> DEFINE w == Watched(Dispatched(k))
<1>1. /\ w.after = k.after
      /\ \/ w.response = k.response
         \/ w.response = Refused
         \/ w.response = Unchanged /\ k.after \in Snapshots
         \/ w.response \in Snapshots /\ file # Broken /\ w.response = Loaded(file)
  BY Looks, Types DEF TruthInv, WatchInv
<1>2. file # Broken => Serves(history, Loaded(file), taken[d], completed[d])
  <2> SUFFICES ASSUME file # Broken
               PROVE  Serves(history, Loaded(file), taken[d], completed[d])
    OBVIOUS
  <2>1. file = history[Len(history)] /\ Len(history) \in Nat
    BY Types DEF TruthInv, WatchInv, Written, HistoryOK
  <2>2. TimelyFor(d) /\ taken[d] \in Seq(Moments) /\ completed[d] \in Seq(Completions)
    BY Types DEF TruthInv, TruthFor, WatchInv, AskedOK, MailOK
  <2>3. ASSUME NEW t \in Moments, t <= Len(history)
        PROVE  Since(history, Loaded(file), t)
    <3>1. Len(history) \in t..Len(history)
      BY <2>1, <2>3, BoundAssumption DEF Moments, BoundAssumption
    <3> QED
      BY <2>1, <3>1 DEF Since
  <2>4. \A i \in 1..Len(taken[d]) : taken[d][i] \in Moments /\ taken[d][i] <= Len(history)
    BY <2>2, ElementOfSeq DEF TimelyFor, Dated
  <2>5. \A i \in 1..Len(completed[d]) :
          completed[d][i].since \in Moments /\ completed[d][i].since <= Len(history)
    BY <2>2, SinceIs DEF TimelyFor, Recalled
  <2> QED
    BY <2>3, <2>4, <2>5 DEF Serves
<1>3. KeepsOn(history, w, taken[d], completed[d])
  BY <1>1, <1>2, SnapshotNames DEF KeepsOn
<1>4. Keeps(history, w.response, taken[d], completed[d])
  BY <1>3 DEF KeepsOn, Keeps
<1> QED
  BY <1>3, <1>4

LEMMA VisitTruth ==
  ASSUME TruthInv, WatchInv', Visit \/ DropLate
  PROVE  TruthInv'
<1>1. /\ UNCHANGED <<file, history, queued, taken, completed, latest, worker, backlog>>
  BY DEF Visit, DropLate, fileVars, mailboxVars
<1>2. /\ position \in 1..Len(clients) /\ clients[position] \in Connections /\ Register!TypeOK
  <2>1. clients \in Seq(Connections) /\ position \in 1..Len(clients) /\ Register!TypeOK
    BY Types DEF TruthInv, WatchInv, PeersOK, RoundOK, Visit, DropLate
  <2> QED
    BY <2>1, ElementOfSeq
<1> DEFINE k == clients[position]
           w == Watched(Dispatched(k))
<1>3. w \in Connections /\ w.who = k.who /\ w.open = k.open
  BY <1>2, Looks
<1>4. \A d \in Consumers : Keeps(history, Refused, taken[d], completed[d])
  BY SnapshotNames DEF Keeps
<1>5. ASSUME NEW d \in Consumers, Current(k, d)
      PROVE  /\ KeepsOn(history, k, taken[d], completed[d])
             /\ KeepsOn(history, w, taken[d], completed[d])
             /\ Keeps(history, w.response, taken[d], completed[d])
  <2>1. KeepsOn(history, k, taken[d], completed[d])
    BY <1>2, <1>5 DEF TruthInv, TruthFor, TimelyFor, AllKeep
  <2> QED
    BY <1>2, <2>1, LooksTruth
<1> HIDE DEF w
<1>6. ASSUME NEW d \in Consumers
      PROVE  TruthFor(d)'
  <2>1. CASE DropLate
    <3>1. Leave(k, Refused)
      BY <2>1 DEF DropLate
    <3> QED
      BY <1>1, <1>2, <1>4, <3>1, LeaveTruth
  <2>2. CASE Leave(w, w.response)
    BY <1>1, <1>2, <1>3, <1>5, <2>2, LeaveTruth
  <2>3. CASE Leave(w, Refused)
    BY <1>1, <1>2, <1>3, <1>4, <2>3, LeaveTruth
  <2>4. CASE Stay(w)
    BY <1>1, <1>2, <1>3, <1>5, <2>4, StayTruth
  <2>5. CASE Stay(Respond(w, Refused))
    <3>1. /\ Respond(w, Refused) \in Connections
          /\ Respond(w, Refused).who = k.who /\ Respond(w, Refused).open = k.open
          /\ Respond(w, Refused).after = w.after /\ Respond(w, Refused).response = Refused
      BY <1>3, Responses DEF Answers
    <3>2. Current(k, d) => KeepsOn(history, Respond(w, Refused), taken[d], completed[d])
      BY <1>5, <3>1, SnapshotNames DEF KeepsOn
    <3> QED
      BY <1>1, <1>2, <2>5, <3>1, <3>2, StayTruth
  <2>6. CASE Visit
    <3>1. \/ Leave(w, w.response) \/ Leave(w, Refused)
          \/ Stay(w) \/ Stay(Respond(w, Refused))
      BY <2>6 DEF Visit, w
    <3> QED
      BY <2>2, <2>3, <2>4, <2>5, <3>1
  <2> QED
    BY <2>1, <2>6
<1> QED
  BY <1>1, <1>6, TruthRests

LEMMA TruthInit == Init => TruthInv
<1> SUFFICES ASSUME Init PROVE TruthInv
  OBVIOUS
<1>1. Len(<<>>) = 0 /\ clients = <<>> /\ backlog = <<>> /\ history = <<file>>
  BY EmptySeq DEF Init
<1>2. ASSUME NEW d \in Consumers
      PROVE  /\ queued[d] = <<>> /\ taken[d] = <<>> /\ completed[d] = <<>> /\ answer[d] = Nothing
  BY DEF Init
<1>3. ASSUME NEW d \in Consumers
      PROVE  TruthFor(d)
  <2>1. SoleFor(d)
    BY <1>1 DEF SoleFor, Among, AtMostOne
  <2>2. Keeps(history, answer[d], taken[d], completed[d])
    BY <1>2, SnapshotNames DEF Keeps
  <2>3. TimelyFor(d)
    BY <1>1, <1>2, <2>2 DEF TimelyFor, Dated, Recalled, AllKeep, Promised
  <2> QED
    BY <2>1, <2>3 DEF TruthFor
<1>4. Written
  BY <1>1 DEF Written
<1> QED
  BY <1>3, <1>4, WatchInit DEF TruthInv

LEMMA TruthNext == TruthInv /\ [Next]_vars => TruthInv'
<1> SUFFICES ASSUME TruthInv, [Next]_vars PROVE TruthInv'
  OBVIOUS
<1>1. WatchInv'
  BY WatchNext DEF TruthInv
<1>2. CASE Change \/ Replace
  BY <1>1, <1>2, FileTruth
<1>3. CASE \/ Drain \/ Rewatch \/ EndRound \/ Wake \/ Restart \/ Strange
           \/ \E n \in 1..MaxClients : Due(n)
           \/ \E c \in Consumers : Unpark(c) \/ Send(c)
           \/ UNCHANGED vars
  BY <1>1, <1>3, QuietTruth
<1>4. CASE Accept
  BY <1>1, <1>4, AcceptTruth
<1>5. CASE Visit \/ DropLate
  BY <1>1, <1>5, VisitTruth
<1>6. CASE Crash
  BY <1>1, <1>6, CrashTruth
<1>7. CASE \E c \in Consumers : Begin(c)
  BY <1>1, <1>7, BeginTruth
<1>8. CASE \E c \in Consumers : Receive(c)
  BY <1>1, <1>8, ReceiveTruth
<1>9. CASE \E c \in Consumers : GiveUp(c)
  BY <1>1, <1>9, GiveUpTruth
<1>10. CASE \E c \in Consumers : Refresh(c)
  BY <1>1, <1>10, RefreshTruth
<1>11. CASE \E c \in Consumers : Ping(c)
  BY <1>1, <1>11, PingTruth
<1> QED
  BY <1>2, <1>3, <1>4, <1>5, <1>6, <1>7, <1>8, <1>9, <1>10, <1>11 DEF Next, ServerStep, WorkerStep

\* Only the main loop takes completions out of a mailbox.
LEMMA OnlyPingEmpties ==
  ASSUME TruthInv, [Next]_vars, NEW c \in Consumers, completed[c] # <<>>, completed'[c] = <<>>
  PROVE  Ping(c)
<1>1. completed' # completed
  OBVIOUS
<1>2. completed \in [Consumers -> Seq(Completions)] /\ Len(completed[c]) \in Nat
      /\ Len(completed[c]) # 0 /\ Len(<<>>) = 0
  <2>1. completed \in [Consumers -> Seq(Completions)]
    BY Types DEF TruthInv, WatchInv, MailOK
  <2> QED
    BY <2>1, EmptySeq
<1>3. ASSUME NEW e \in Consumers, NEW result \in Answers, Finish(e, result, taken[e], queued[e]),
             UNCHANGED <<pending, applied>>
      PROVE  FALSE
  <2>1. CASE e = c
    <3>1. Len(completed'[c]) = Len(completed[c]) + Len(taken[c]) /\ Len(taken[c]) \in Nat
      BY <1>3, <2>1, Finished, Types DEF TruthInv, WatchInv, AskedOK
    <3>2. Len(completed'[c]) = 0
      BY <1>2
    <3> QED
      BY <1>2, <3>1, <3>2
  <2>2. CASE e # c
    <3>1. completed'[c] = completed[c]
      BY <1>3, <2>2, Finished DEF TruthInv
    <3> QED
      BY <3>1
  <2> QED
    BY <2>1, <2>2
<1>4. ASSUME NEW e \in Consumers, Receive(e)
      PROVE  FALSE
  <2>1. answer[e] \in Answers
    BY <1>4, Types DEF Receive, TruthInv, WatchInv, WorkersOK
  <2> QED
    BY <1>3, <1>4, <2>1 DEF Receive
<1>5. ASSUME NEW e \in Consumers, GiveUp(e)
      PROVE  FALSE
  BY <1>3, <1>5 DEF GiveUp, Answers
<1>6. ASSUME NEW e \in Consumers, Ping(e)
      PROVE  e = c
  <2>1. completed' = [completed EXCEPT ![e] = <<>>]
    BY <1>6 DEF Ping
  <2> QED
    BY <1>2, <2>1
<1>7. \E e \in Consumers : Receive(e) \/ GiveUp(e) \/ Ping(e)
  <2>1. ~UNCHANGED mailboxVars /\ ~UNCHANGED completed
    BY <1>1 DEF mailboxVars
  <2>2. ~(Change \/ Replace \/ ServerStep \/ DropLate \/ Crash \/ Strange)
    BY <2>1 DEF Change, Replace, ServerStep, Drain, Rewatch, Accept, Visit, EndRound, Wake, Restart,
                DropLate, Crash, Strange
  <2>3. /\ ~\E i \in 1..MaxClients : Due(i)
        /\ ~\E e \in Consumers : Begin(e) \/ Send(e) \/ Unpark(e) \/ Refresh(e)
        /\ ~UNCHANGED vars
    BY <2>1 DEF Due, Begin, Send, Unpark, Refresh, vars
  <2> QED
    BY <2>2, <2>3 DEF Next, WorkerStep
<1> QED
  BY <1>4, <1>5, <1>6, <1>7

\* For any consumers, limits, changes and faults: when a consumer's main loop acknowledges a
\* refresh that succeeded, the settings it uses are those of the file at the request or later.
THEOREM RefreshesTruthful == Spec => RefreshTruthful
<1> DEFINE Truthful ==
      \A c \in Consumers : completed'[c] = <<>> =>
        \A i \in DOMAIN completed[c] : completed[c][i].ok =>
          \E v \in completed[c][i].since..Len(history) :
            history[v] # Broken /\ applied'[c] = Loaded(history[v])
<1>1. ASSUME TruthInv, [Next]_vars
      PROVE  Truthful
  <2> SUFFICES ASSUME NEW c \in Consumers, completed'[c] = <<>>,
                      NEW i \in DOMAIN completed[c], completed[c][i].ok
               PROVE  \E v \in completed[c][i].since..Len(history) :
                        history[v] # Broken /\ applied'[c] = Loaded(history[v])
    OBVIOUS
  <2>1. /\ completed[c] \in Seq(Completions) /\ applied \in [Consumers -> Snapshots \cup {Nothing}]
        /\ i \in 1..Len(completed[c])
    BY <1>1, Types, LenProperties DEF TruthInv, WatchInv, MailOK
  <2>2. Ping(c)
    <3>1. completed[c] # <<>>
      BY <2>1, EmptySeq
    <3> QED
      BY <1>1, <3>1, OnlyPingEmpties
  <2>3. latest[c] # Nothing /\ Since(history, latest[c], completed[c][i].since)
    BY <1>1, <2>1 DEF TruthInv, TruthFor, TimelyFor, Promised
  <2>4. applied'[c] = latest[c]
    BY <2>1, <2>2, <2>3 DEF Ping
  <2> QED
    BY <2>3, <2>4 DEF Since
<1>2. TruthInv /\ [Next]_vars => [Truthful]_vars
  BY <1>1
<1>3. Spec => []TruthInv
  BY TruthInit, TruthNext, PTL DEF Spec
<1> QED
  BY <1>2, <1>3, PTL DEF Spec, RefreshTruthful

=============================================================================

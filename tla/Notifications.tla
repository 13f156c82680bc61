---------------------------- MODULE Notifications ----------------------------
(***************************************************************************)
(* The notification daemon (hearthspace-notifications: model.rs, and the   *)
(* loop of main.rs with the handlers of dbus.rs and control.rs).           *)
(*                                                                         *)
(* Applications call over D-Bus at any moment; the shell's commands are    *)
(* handled where the loop polls its socket.  Each call takes the state's   *)
(* mutex once.  Identifiers end at MaxId (u32::MAX).                       *)
(***************************************************************************)
EXTENDS Integers, Sequences, FiniteSets

CONSTANTS Apps,        \* unique D-Bus connections
          Keys,        \* action keys
          Kinds,       \* the kinds of message: their actions, hints and timeouts
          MaxActive, MaxRetained, MaxEvents,   \* 16, 24 and 128
          MaxId,
          MaxClicks,   \* bound: actions the user invokes
          MaxFailures  \* bound: signals that cannot be sent

ASSUME LimitAssumption ==
  /\ MaxActive \in Nat \ {0} /\ MaxRetained \in Nat /\ MaxActive <= MaxRetained
  /\ MaxEvents \in Nat /\ MaxEvents > 1
ASSUME KindsAssumption ==
  Kinds \subseteq [keys : SUBSET Keys, resident : BOOLEAN, transient : BOOLEAN,
                   due : {"never", "later"}]
ASSUME BoundAssumption == MaxId \in Nat /\ MaxClicks \in Nat /\ MaxFailures \in Nat

Ids == 1..MaxId
Entries == [id : Ids, sender : Apps, keys : SUBSET Keys, resident : BOOLEAN,
            transient : BOOLEAN, active : BOOLEAN, due : {"never", "later", "now"}]
Closed(id, to) == [kind |-> "closed", id |-> id, to |-> to]
Action(id, to) == [kind |-> "action", id |-> id, to |-> to]
Events == [kind : {"closed", "action"}, id : Ids, to : Apps]

VARIABLES
  entries, events, nextId,  \* State: newest entry first
  step,      \* where the loop is
  batch,     \* the events it has taken and not yet sent
  sent,      \* history: the signals sent by this daemon
  author,    \* history: who made each notification
  clicks, failures

state == <<entries, events, nextId>>
history == <<sent, author>>
counters == <<clicks, failures>>
vars == <<state, step, batch, history, counters>>

TypeOK ==
  /\ entries \in Seq(Entries) /\ Len(entries) <= MaxRetained
  /\ Cardinality({i \in DOMAIN entries : entries[i].active}) <= MaxActive
  /\ events \in Seq(Events) /\ Len(events) <= MaxEvents
  /\ nextId \in 0..MaxId
  /\ step \in {"poll", "take", "send"}
  /\ batch \in Seq(Events) /\ sent \in Seq(Events)
  /\ author \in [Ids -> Apps \cup {"nobody"}]
  /\ clicks \in 0..MaxClicks /\ failures \in 0..MaxFailures

Init ==
  /\ entries = <<>> /\ events = <<>> /\ nextId = 0
  /\ step = "poll" /\ batch = <<>> /\ sent = <<>>
  /\ author = [id \in Ids |-> "nobody"]
  /\ clicks = 0 /\ failures = 0

Active(es, id) == {i \in DOMAIN es : es[i].id = id /\ es[i].active}
NumberActive(es) == Cardinality({i \in DOMAIN es : es[i].active})
Without(es, i) == SubSeq(es, 1, i - 1) \o SubSeq(es, i + 1, Len(es))
HasRoom(evs, n) == Len(evs) + n <= MaxEvents

(***************************************************************************)
(* State::notify.                                                          *)
(***************************************************************************)

EvictLast(es) == IF Len(es) >= MaxRetained THEN Without(es, Len(es)) ELSE es

\* The oldest closed entry makes room.
Evict(es) ==
  IF Len(es) >= MaxRetained
  THEN LET closed == {i \in DOMAIN es : ~es[i].active}
       IN Without(es, CHOOSE i \in closed : \A j \in closed : j <= i)
  ELSE es

Added(es, id, app, kind) ==
  entries' = <<[id |-> id, sender |-> app, keys |-> kind.keys, resident |-> kind.resident,
                transient |-> kind.transient, active |-> TRUE, due |-> kind.due]>> \o Evict(es)

\* A number that is no live notification's is ignored, as 0 is.
Notify(app, kind) ==
  /\ NumberActive(entries) < MaxActive /\ nextId < MaxId
  /\ nextId' = nextId + 1
  /\ Added(entries, nextId', app, kind)
  /\ author' = [author EXCEPT ![nextId'] = app]
  /\ UNCHANGED <<events, step, batch, sent, counters>>

Replace(app, id, kind) ==
  /\ \E i \in Active(entries, id) :
       /\ entries[i].sender = app
       /\ Added(Without(entries, i), id, app, kind)
  /\ UNCHANGED <<events, nextId, step, batch, history, counters>>

(***************************************************************************)
(* State::close, invoke and expire, as functions of entries and events.    *)
(***************************************************************************)
CanClose(es, evs, id) == HasRoom(evs, 1) /\ Active(es, id) # {}

EntriesAfterClose(es, id) ==
  LET i == CHOOSE j \in DOMAIN es : es[j].id = id
  IN IF es[i].transient THEN Without(es, i)
     ELSE [es EXCEPT ![i].active = FALSE, ![i].keys = {}]
EventsAfterClose(es, evs, id) ==
  Append(evs, Closed(id, es[CHOOSE j \in DOMAIN es : es[j].id = id].sender))

CloseStep(id) ==
  /\ CanClose(entries, events, id)
  /\ entries' = EntriesAfterClose(entries, id)
  /\ events' = EventsAfterClose(entries, events, id)
  /\ UNCHANGED <<nextId, step, batch, history, counters>>

CloseNotification(app, id) ==
  /\ \E i \in DOMAIN entries : entries[i].id = id /\ entries[i].sender = app
  /\ CloseStep(id)

Dismiss(id) == step = "poll" /\ CloseStep(id)

InvokeReservingOne(id, key) ==
  /\ step = "poll" /\ clicks < MaxClicks /\ clicks' = clicks + 1
  /\ HasRoom(events, 1)
  /\ \E i \in Active(entries, id) :
       /\ key \in entries[i].keys
       /\ LET acted == Append(events, Action(id, entries[i].sender))
          IN IF entries[i].resident \/ ~CanClose(entries, acted, id)
             THEN events' = acted /\ UNCHANGED entries
             ELSE /\ entries' = EntriesAfterClose(entries, id)
                  /\ events' = EventsAfterClose(entries, acted, id)
  /\ UNCHANGED <<nextId, step, batch, history, failures>>

\* Room for both events is needed before the first is queued.
Invoke(id, key) ==
  /\ step = "poll" /\ clicks < MaxClicks /\ clicks' = clicks + 1
  /\ HasRoom(events, 2)
  /\ \E i \in Active(entries, id) :
       /\ key \in entries[i].keys
       /\ LET acted == Append(events, Action(id, entries[i].sender))
          IN IF entries[i].resident THEN events' = acted /\ UNCHANGED entries
             ELSE /\ entries' = EntriesAfterClose(entries, id)
                  /\ events' = EventsAfterClose(entries, acted, id)
  /\ UNCHANGED <<nextId, step, batch, history, failures>>

CloseUnreported(st, id) ==
  [entries |-> EntriesAfterClose(st.entries, id),
   events |-> IF CanClose(st.entries, st.events, id)
              THEN EventsAfterClose(st.entries, st.events, id) ELSE st.events]

\* One that finds no room stays due.
CloseIfRoom(st, id) ==
  IF CanClose(st.entries, st.events, id)
  THEN [entries |-> EntriesAfterClose(st.entries, id),
        events |-> EventsAfterClose(st.entries, st.events, id)]
  ELSE st

\* What is due among the first i entries is closed, in their order.
AfterDue[i \in 0..Len(entries)] ==
  IF i = 0 THEN [entries |-> entries, events |-> events]
  ELSE IF entries[i].active /\ entries[i].due = "now"
  THEN CloseIfRoom(AfterDue[i - 1], entries[i].id)
  ELSE AfterDue[i - 1]
Expired == AfterDue[Len(entries)]

(***************************************************************************)
(* The loop.                                                               *)
(***************************************************************************)
PollDone ==
  /\ step = "poll" /\ step' = "take"
  /\ UNCHANGED <<state, batch, history, counters>>

\* Expiry and the taking of all events are under one lock.
Take ==
  /\ step = "take" /\ step' = "send"
  /\ entries' = Expired.entries /\ batch' = Expired.events /\ events' = <<>>
  /\ UNCHANGED <<nextId, history, counters>>

Send ==
  /\ step = "send"
  /\ IF batch = <<>> THEN step' = "poll" /\ UNCHANGED <<batch, sent>>
     ELSE batch' = Tail(batch) /\ sent' = Append(sent, Head(batch)) /\ UNCHANGED step
  /\ UNCHANGED <<state, author, counters>>

\* A signal that cannot be sent ends the daemon.  The supervisor starts another, which
\* remembers nothing and counts from one.
SendFails ==
  /\ step = "send" /\ batch # <<>> /\ failures < MaxFailures
  /\ failures' = failures + 1
  /\ entries' = <<>> /\ events' = <<>> /\ nextId' = 0
  /\ step' = "poll" /\ batch' = <<>> /\ sent' = <<>>
  /\ author' = [id \in Ids |-> "nobody"]
  /\ UNCHANGED clicks

TimePasses ==
  /\ \E i \in DOMAIN entries :
       entries[i].due = "later" /\ entries' = [entries EXCEPT ![i].due = "now"]
  /\ UNCHANGED <<events, nextId, step, batch, history, counters>>

Call(app) ==
  \/ \E id \in Ids : CloseNotification(app, id)
  \/ \E kind \in Kinds :
       \/ Notify(app, kind)
       \/ \E id \in Ids : Replace(app, id, kind)
Command == \E id \in Ids : Dismiss(id) \/ \E key \in Keys : Invoke(id, key)
Loop == PollDone \/ Take \/ Send

Next == (\E app \in Apps : Call(app)) \/ Command \/ Loop \/ SendFails \/ TimePasses

Spec == Init /\ [][Next]_vars
FairSpec == Spec /\ WF_vars(Loop)
-----------------------------------------------------------------------------
\* All the signals of this daemon, in the order in which they are or will be sent.
Stream == sent \o batch \o events
CloseReports(id) == {i \in DOMAIN Stream : Stream[i] = Closed(id, author[id])}

\* A notification is live until its end is reported to its author, and that happens once:
\* "live items are never silently discarded to make room", whatever is replaced, evicted,
\* dismissed, withdrawn or due at the same time.
LiveUntilReported ==
  \A id \in 1..nextId :
    Cardinality(Active(entries, id)) + Cardinality(CloseReports(id)) = 1

\* Nothing is sent to anybody but the author, nor after the report of the end: "Closed
\* notification IDs cannot be acted on again."
EndsWithReport ==
  \A i \in DOMAIN Stream :
    /\ Stream[i].to = author[Stream[i].id]
    /\ \A j \in CloseReports(Stream[i].id) : i <= j

\* The life of a notification, as its author sees it.
ReportedOnce == TypeOK /\ LiveUntilReported /\ EndsWithReport

\* Whoever has been told of an action has also been told that the notification has ended,
\* unless it is resident: it cannot be invoked again because there was no room to say so.
ActedOnce ==
  [][\A i \in DOMAIN entries :
       /\ entries[i].active /\ ~entries[i].resident
       /\ Len(events') > Len(events)
       /\ events'[Len(events) + 1] = Action(entries[i].id, entries[i].sender)
       => Active(entries', entries[i].id) = {}]_vars

\* What was ever shown and is not to stay is closed and reported in the end, however full
\* the queue was: it cannot for ever be due, or closed without a signal, unless the daemon
\* ends or the application puts a new text in its place.
DueIsReported ==
  \A id \in Ids :
    []<>(\/ \E i \in DOMAIN sent : sent[i] = Closed(id, author[id])
         \/ \E i \in Active(entries, id) : entries[i].due # "now"
         \/ nextId < id)
==============================================================================

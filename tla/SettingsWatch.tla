---------------------------- MODULE SettingsWatch ----------------------------
(***************************************************************************)
(* How a change of the settings file reaches the programs of a session:    *)
(* the loop of hearthspace-settingsd (server.rs, server/client.rs,         *)
(* server/changes.rs) and the subscription of a consumer                   *)
(* (compositor/settings_watch.rs), over the register that SettingsStore    *)
(* implements.                                                             *)
(*                                                                         *)
(* The daemon drains its inotify descriptor, accepts, visits every client  *)
(* in order of acceptance and waits.  The file may change between any two  *)
(* of these steps, and its directory may be replaced, which ends the       *)
(* watch.  A consumer's worker has one connection at a time; when it gives *)
(* up on one, the daemon still holds it.  A cursor is a revision and a     *)
(* fingerprint: here the snapshot itself.  Setters and the stop of the     *)
(* subscription are left out.                                              *)
(***************************************************************************)
EXTENDS Integers, SequencesExt

CONSTANTS Consumers,
          Stranger,               \* a client that connects and says nothing
          Settings, MaxRevision,  \* what the file may hold
          Default,                \* the settings where there is no file
          Absent, Broken,         \* no file, a file that does not parse
          Nothing,                \* no cursor, no snapshot, no answer
          Unchanged, Refused,     \* the answers that carry no snapshot
          MaxClients, MaxWatchers, MaxUnfinished,  \* limits of the daemon
          MaxPending,             \* MAX_REFRESHES of a subscription
          MaxChanges,             \* bound: changes of the file
          MaxRefreshes,           \* bound: refreshes asked for
          MaxFaults               \* bound: crashes, missed deadlines, strangers

ASSUME DefaultAssumption == Default \in Settings
ASSUME NameAssumption == Absent # Broken /\ Stranger \notin Consumers
ASSUME BoundAssumption ==
  /\ {MaxRevision, MaxChanges, MaxRefreshes, MaxFaults} \subseteq Nat
  /\ {MaxClients, MaxWatchers, MaxUnfinished, MaxPending} \subseteq Nat \ {0}

VARIABLES file, highest    \* the register
Register == INSTANCE SettingsRegister

VARIABLES
  history,      \* every file there has been (read by no code)
  events,       \* the inotify descriptor is readable
  gone,         \* one of its events says that the directory is gone
  held,         \* the daemon holds a watch
  watched,      \* that watch is on the directory of the file
  step,         \* the daemon's next step
  position,     \* the client it visits next
  clients,      \* its clients, in order of acceptance
  backlog,      \* connections it has not accepted
  watchers, unfinished,  \* the counters of one round of visits
  worker,       \* what each consumer's worker does
  cursor,       \* its cursor
  queued, taken,  \* refreshes in the channel, and those of this exchange
  answer,       \* the answer in its socket
  latest, completed, pending,  \* the mailbox
  applied,      \* the settings the consumer's main loop uses
  refreshes, faults

fileVars == <<file, highest, history>>
changeVars == <<events, gone, held, watched>>
serverVars == <<step, position, clients, backlog, watchers, unfinished>>
workerVars == <<worker, cursor, taken, answer>>
mailboxVars == <<queued, latest, completed, pending, applied>>
vars == <<fileVars, changeVars, serverVars, workerVars, mailboxVars, refreshes, faults>>

\* storage::load_snapshot of a file that parses.
Loaded(f) == IF f = Absent THEN [revision |-> 0, settings |-> Default] ELSE f

Snapshots == Register!Snapshots
ASSUME NoValueAssumption ==
  Unchanged # Refused /\ Nothing \notin {Unchanged, Refused, Broken}
  /\ {Nothing, Unchanged, Refused, Broken} \cap Snapshots = {}
Answers == Snapshots \cup {Unchanged, Refused}

\* A connection: whose, the cursor of its watch (Nothing asks for the snapshot),
\* how far the daemon is with it, the response, and whether its client still reads.
Connections == [who : Consumers \cup {Stranger}, after : Snapshots \cup {Nothing},
                stage : {"silent", "late", "unread", "watching", "due", "answered"},
                response : Answers \cup {Nothing}, open : BOOLEAN]

\* A completed refresh: when it was asked for, and whether it succeeded.
Moments == 1..(MaxChanges + 1)
Completions == [since : Moments, ok : BOOLEAN]

TypeOK ==
  /\ Register!TypeOK
  /\ history \in Seq(Register!Files) /\ Len(history) \in Moments
  /\ events \in BOOLEAN /\ gone \in BOOLEAN /\ held \in BOOLEAN /\ watched \in BOOLEAN
  /\ step \in {"drain", "rewatch", "accept", "visit", "wait", "down"}
  /\ clients \in Seq(Connections) /\ Len(clients) <= MaxClients
  /\ backlog \in Seq(Connections)
  /\ position \in 1..(MaxClients + 1)
  /\ watchers \in 0..MaxClients /\ unfinished \in 0..MaxClients
  /\ worker \in [Consumers -> {"ready", "connected", "sent", "parked"}]
  /\ cursor \in [Consumers -> Snapshots \cup {Nothing}]
  /\ queued \in [Consumers -> Seq(Moments)]
  /\ taken \in [Consumers -> Seq(Moments)]
  /\ answer \in [Consumers -> Answers \cup {Nothing}]
  /\ latest \in [Consumers -> Snapshots \cup {Nothing}]
  /\ completed \in [Consumers -> Seq(Completions)]
  /\ pending \in [Consumers -> 0..MaxPending]
  /\ applied \in [Consumers -> Snapshots \cup {Nothing}]
  /\ refreshes \in 0..MaxRefreshes /\ faults \in 0..MaxFaults

Init ==
  /\ file = Absent /\ highest = 0 /\ history = <<file>>
  /\ events = FALSE /\ gone = FALSE /\ held = TRUE /\ watched = TRUE
  /\ step = "drain" /\ position = 1 /\ clients = <<>> /\ backlog = <<>>
  /\ watchers = 0 /\ unfinished = 0
  /\ worker = [c \in Consumers |-> "ready"]
  /\ cursor = [c \in Consumers |-> Nothing]
  /\ queued = [c \in Consumers |-> <<>>] /\ taken = [c \in Consumers |-> <<>>]
  /\ answer = [c \in Consumers |-> Nothing]
  /\ latest = [c \in Consumers |-> Nothing]
  /\ completed = [c \in Consumers |-> <<>>]
  /\ pending = [c \in Consumers |-> 0]
  /\ applied = [c \in Consumers |-> Nothing]
  /\ refreshes = 0 /\ faults = 0

Fault == faults < MaxFaults /\ faults' = faults + 1

(***************************************************************************)
(* The file and its directory.                                             *)
(***************************************************************************)
Recorded == Len(history) <= MaxChanges /\ history' = Append(history, file')

Change ==
  /\ Register!Next /\ Recorded
  /\ events' = (events \/ watched)
  /\ UNCHANGED <<gone, held, watched, serverVars, workerVars, mailboxVars, refreshes,
                 faults>>

\* The directory is moved away or removed, and another one takes its name.
Replace ==
  /\ Register!Outside /\ Recorded
  /\ events' = (events \/ watched) /\ gone' = (gone \/ watched) /\ watched' = FALSE
  /\ UNCHANGED <<held, serverVars, workerVars, mailboxVars, refreshes, faults>>

(***************************************************************************)
(* The daemon.                                                             *)
(***************************************************************************)
DrainKeepingTheWatch ==
  /\ step = "drain" /\ step' = "rewatch"
  /\ events' = FALSE /\ gone' = FALSE /\ UNCHANGED held
  /\ UNCHANGED <<fileVars, watched, position, clients, backlog, watchers, unfinished,
                 workerVars, mailboxVars, refreshes, faults>>

\* Changes::drain reads every event; one of a lost directory drops the watch.
Drain ==
  /\ step = "drain" /\ step' = "rewatch"
  /\ events' = FALSE /\ gone' = FALSE /\ held' = (held /\ ~gone)
  /\ UNCHANGED <<fileVars, watched, position, clients, backlog, watchers, unfinished,
                 workerVars, mailboxVars, refreshes, faults>>

\* A missing watch is taken again, before any client is visited.
Rewatch ==
  /\ step = "rewatch" /\ step' = "accept"
  /\ held' = TRUE /\ watched' = (watched \/ ~held)
  /\ UNCHANGED <<fileVars, events, gone, position, clients, backlog, watchers, unfinished,
                 workerVars, mailboxVars, refreshes, faults>>

\* Server::poll accepts while it has room, and begins a round of visits.
Accept ==
  /\ step = "accept"
  /\ IF backlog # <<>> /\ Len(clients) < MaxClients
     THEN /\ clients' = Append(clients, Head(backlog)) /\ backlog' = Tail(backlog)
          /\ UNCHANGED <<step, position, watchers, unfinished>>
     ELSE /\ step' = "visit" /\ position' = 1 /\ watchers' = 0 /\ unfinished' = 0
          /\ UNCHANGED <<clients, backlog>>
  /\ UNCHANGED <<fileVars, changeVars, workerVars, mailboxVars, refreshes, faults>>

Respond(k, response) == [k EXCEPT !.stage = "answered", !.response = response]

\* Client::dispatch: the client as it is once its request has been read.
Dispatched(k) ==
  CASE k.stage = "unread" /\ k.after # Nothing -> [k EXCEPT !.stage = "watching"]
    [] k.stage = "unread" /\ k.after = Nothing ->
         Respond(k, IF file = Broken THEN Refused ELSE Loaded(file))
    [] OTHER -> k

\* Client::poll of a watch: the file is read at every visit.
Watched(k) ==
  CASE k.stage \in {"watching", "due"} /\ file = Broken -> Respond(k, Refused)
    [] k.stage \in {"watching", "due"} /\ file # Broken /\ Loaded(file) # k.after ->
         Respond(k, Loaded(file))
    [] k.stage = "due" /\ Loaded(file) = k.after -> Respond(k, Unchanged)
    [] OTHER -> k

\* The client leaves the daemon; a consumer that still reads finds the end of the
\* stream, or the response.
Leave(k, response) ==
  /\ clients' = RemoveAt(clients, position)
  /\ answer' = IF k.open /\ k.who \in Consumers THEN [answer EXCEPT ![k.who] = response] ELSE answer
  /\ UNCHANGED <<position, watchers, unfinished>>

Stay(k) ==
  /\ clients' = [clients EXCEPT ![position] = k]
  /\ position' = position + 1
  /\ UNCHANGED answer

WithinLimitBeforeCounting(count, limit) == count - 1 <= limit
WithinLimit(count, limit) == count <= limit

\* One visit: read, watch and write, and then the limits of Server::poll, counted in
\* order of acceptance.  A client that hung up before its request, or that said nothing
\* until its deadline, is gone.
Visit ==
  /\ step = "visit" /\ position <= Len(clients)
  /\ LET k == Watched(Dispatched(clients[position]))
     IN \/ k.stage = "answered" /\ Leave(k, k.response)
        \/ /\ k.stage = "late" \/ (k.stage = "silent" /\ ~k.open)
           /\ Leave(k, Refused)
        \/ /\ k.stage \in {"watching", "due"}
           /\ watchers' = watchers + 1
           /\ Stay(IF WithinLimit(watchers', MaxWatchers) THEN k ELSE Respond(k, Refused))
           /\ UNCHANGED unfinished
        \/ /\ k.stage = "silent" /\ k.open /\ WithinLimit(unfinished + 1, MaxUnfinished)
           /\ Stay(k) /\ unfinished' = unfinished + 1 /\ UNCHANGED watchers
        \/ /\ k.stage = "silent" /\ k.open /\ ~WithinLimit(unfinished + 1, MaxUnfinished)
           /\ Leave(k, Refused)
  /\ UNCHANGED <<fileVars, changeVars, step, backlog, worker, cursor, taken, mailboxVars,
                 refreshes, faults>>

\* A client past its deadline that does not watch is dropped.
DropLate ==
  /\ step = "visit" /\ position <= Len(clients) /\ Fault
  /\ clients[position].stage \in {"silent", "unread", "answered"}
  /\ Leave(clients[position], Refused)
  /\ UNCHANGED <<fileVars, changeVars, step, backlog, worker, cursor, taken, mailboxVars,
                 refreshes>>

EndRound ==
  /\ step = "visit" /\ position > Len(clients) /\ step' = "wait"
  /\ UNCHANGED <<fileVars, changeVars, position, clients, backlog, watchers, unfinished,
                 workerVars, mailboxVars, refreshes, faults>>

\* wait_for_work returns for a descriptor, or for the earliest deadline.
Wake ==
  /\ step = "wait" /\ step' = "drain"
  /\ UNCHANGED <<fileVars, changeVars, position, clients, backlog, watchers, unfinished,
                 workerVars, mailboxVars, refreshes, faults>>

\* The deadline of a watch passes, or that of a stranger.
Due(i) ==
  /\ i \in DOMAIN clients
  /\ \/ /\ clients[i].stage = "watching"
        /\ clients' = [clients EXCEPT ![i].stage = "due"]
     \/ /\ clients[i].stage = "silent" /\ clients[i].who = Stranger
        /\ clients' = [clients EXCEPT ![i].stage = "late"]
  /\ UNCHANGED <<fileVars, changeVars, step, position, backlog, watchers, unfinished,
                 workerVars, mailboxVars, refreshes, faults>>

\* The daemon dies with its connections, and the supervisor starts another one.
Crash ==
  /\ step # "down" /\ step' = "down" /\ Fault
  /\ clients' = <<>> /\ backlog' = <<>>
  /\ position' = 1 /\ watchers' = 0 /\ unfinished' = 0
  /\ events' = FALSE /\ gone' = FALSE /\ held' = FALSE /\ watched' = FALSE
  /\ answer' = [c \in Consumers |->
                 IF worker[c] \in {"connected", "sent"} /\ answer[c] = Nothing
                 THEN Refused ELSE answer[c]]
  /\ UNCHANGED <<fileVars, worker, cursor, taken, mailboxVars, refreshes>>

Restart ==
  /\ step = "down" /\ step' = "drain"
  /\ held' = TRUE /\ watched' = TRUE
  /\ UNCHANGED <<fileVars, events, gone, position, clients, backlog, watchers, unfinished,
                 workerVars, mailboxVars, refreshes, faults>>

ServerStep == Drain \/ Rewatch \/ Accept \/ Visit \/ EndRound \/ Wake \/ Restart

(***************************************************************************)
(* A consumer's subscription.                                              *)
(***************************************************************************)
\* Subscription::refresh, called by the main loop; otherwise the answer is "busy".
Refresh(c) ==
  /\ refreshes < MaxRefreshes /\ refreshes' = refreshes + 1
  /\ pending[c] < MaxPending /\ Len(queued[c]) < MaxPending
  /\ queued' = [queued EXCEPT ![c] = Append(@, Len(history))]
  /\ pending' = [pending EXCEPT ![c] = @ + 1]
  /\ UNCHANGED <<fileVars, changeVars, serverVars, workerVars, latest, completed, applied,
                 faults>>

\* One turn of run: the refreshes so far are taken, a worker that owes none and has a
\* cursor watches, any other asks for the snapshot.
Begin(c) ==
  /\ worker[c] = "ready"
  /\ taken' = [taken EXCEPT ![c] = queued[c]] /\ queued' = [queued EXCEPT ![c] = <<>>]
  /\ worker' = [worker EXCEPT ![c] = "connected"]
  /\ IF step = "down"
     THEN answer' = [answer EXCEPT ![c] = Refused] /\ UNCHANGED backlog
     ELSE /\ answer' = [answer EXCEPT ![c] = Nothing]
          /\ backlog' = Append(backlog,
               [who |-> c, after |-> IF queued[c] = <<>> THEN cursor[c] ELSE Nothing,
                stage |-> "silent", response |-> Nothing, open |-> TRUE])
  /\ UNCHANGED <<fileVars, changeVars, step, position, clients, watchers, unfinished, cursor,
                 latest, completed, pending, applied, refreshes, faults>>

\* A stranger takes a place.
Strange ==
  /\ step # "down" /\ Fault
  /\ backlog' = Append(backlog, [who |-> Stranger, after |-> Nothing, stage |-> "silent",
                                 response |-> Nothing, open |-> TRUE])
  /\ UNCHANGED <<fileVars, changeVars, step, position, clients, watchers, unfinished,
                 workerVars, mailboxVars, refreshes>>

\* What becomes of the open connection of c, wherever it is.
Current(k, c) == k.who = c /\ k.open
Revise(connections, c, Changed(_)) ==
  [i \in DOMAIN connections |->
    IF Current(connections[i], c) THEN Changed(connections[i]) ELSE connections[i]]

\* The request is written.
Send(c) ==
  LET Sent(k) == [k EXCEPT !.stage = "unread"]
  IN /\ worker[c] = "connected" /\ answer[c] = Nothing
     /\ worker' = [worker EXCEPT ![c] = "sent"]
     /\ clients' = Revise(clients, c, Sent) /\ backlog' = Revise(backlog, c, Sent)
     /\ UNCHANGED <<fileVars, changeVars, step, position, watchers, unfinished, cursor, taken,
                    answer, mailboxVars, refreshes, faults>>

\* The end of an exchange: the cursor, the mailbox and the ping; after a failure the
\* worker parks.
Finish(c, result, served, left) ==
  LET snapshot == result \in Snapshots
      Completion(since) == [since |-> since, ok |-> result # Refused]
  IN /\ cursor' = [cursor EXCEPT ![c] = CASE snapshot -> result
                                          [] result = Unchanged -> @
                                          [] result = Refused -> Nothing]
     /\ latest' = [latest EXCEPT ![c] = IF snapshot THEN result ELSE @]
     /\ completed' = [completed EXCEPT ![c] =
                       @ \o [i \in DOMAIN served |-> Completion(served[i])]]
     /\ worker' = [worker EXCEPT ![c] = IF result = Refused THEN "parked" ELSE "ready"]
     /\ taken' = [taken EXCEPT ![c] = <<>>]
     /\ queued' = [queued EXCEPT ![c] = left]
     /\ answer' = [answer EXCEPT ![c] = Nothing]

ReceiveForgettingRefused(c) ==
  /\ worker[c] \in {"connected", "sent"} /\ answer[c] # Nothing
  /\ Finish(c, answer[c], IF answer[c] = Refused THEN <<>> ELSE taken[c], queued[c])
  /\ UNCHANGED <<fileVars, changeVars, serverVars, pending, applied, refreshes, faults>>

Receive(c) ==
  /\ worker[c] \in {"connected", "sent"} /\ answer[c] # Nothing
  /\ Finish(c, answer[c], taken[c], queued[c])
  /\ UNCHANGED <<fileVars, changeVars, serverVars, pending, applied, refreshes, faults>>

\* The deadline of the transport: the connection is closed, but the daemon keeps it.
GiveUp(c) ==
  LET Closed(k) == [k EXCEPT !.open = FALSE]
  IN /\ worker[c] \in {"connected", "sent"} /\ answer[c] = Nothing /\ Fault
     /\ Finish(c, Refused, taken[c], queued[c])
     /\ clients' = Revise(clients, c, Closed) /\ backlog' = Revise(backlog, c, Closed)
     /\ UNCHANGED <<fileVars, changeVars, step, position, watchers, unfinished, pending,
                    applied, refreshes>>

UnparkForRefresh(c) ==
  /\ worker[c] = "parked" /\ queued[c] # <<>> /\ worker' = [worker EXCEPT ![c] = "ready"]
  /\ UNCHANGED <<fileVars, changeVars, serverVars, cursor, taken, answer, mailboxVars,
                 refreshes, faults>>

\* park_timeout ends, by itself or by a refresh.
Unpark(c) ==
  /\ worker[c] = "parked" /\ worker' = [worker EXCEPT ![c] = "ready"]
  /\ UNCHANGED <<fileVars, changeVars, serverVars, cursor, taken, answer, mailboxVars,
                 refreshes, faults>>

\* The ping's callback in the main loop: apply the snapshot, then answer.
Ping(c) ==
  /\ latest[c] # Nothing \/ completed[c] # <<>>
  /\ applied' = [applied EXCEPT ![c] = IF latest[c] = Nothing THEN @ ELSE latest[c]]
  /\ latest' = [latest EXCEPT ![c] = Nothing]
  /\ pending' = [pending EXCEPT ![c] = @ - Len(completed[c])]
  /\ completed' = [completed EXCEPT ![c] = <<>>]
  /\ UNCHANGED <<fileVars, changeVars, serverVars, workerVars, queued, refreshes, faults>>

WorkerStep(c) == Begin(c) \/ Send(c) \/ Receive(c) \/ Unpark(c)

Next ==
  \/ Change \/ Replace
  \/ ServerStep \/ DropLate \/ Crash \/ Strange
  \/ \E i \in 1..MaxClients : Due(i)
  \/ \E c \in Consumers : WorkerStep(c) \/ Refresh(c) \/ GiveUp(c) \/ Ping(c)

Spec == Init /\ [][Next]_vars

\* The loops of the daemon, of the workers and of the consumers go on, time passes, and
\* the supervisor starts the daemon again.
Fairness ==
  /\ WF_vars(ServerStep)
  /\ \A i \in 1..MaxClients : WF_vars(Due(i))
  /\ \A c \in Consumers : WF_vars(WorkerStep(c)) /\ WF_vars(Ping(c))

FairSpec == Spec /\ Fairness
-----------------------------------------------------------------------------
\* The daemon never sleeps on a change: while it waits with nothing to read, the file is
\* what every watch has seen.
NoLostWakeup ==
  step = "wait" /\ ~events =>
    \A i \in DOMAIN clients :
      clients[i].stage \in {"watching", "due"} => Loaded(file) = clients[i].after

\* Quiet watches and silent connections never take every place of the daemon: when it
\* waits, those beyond their limits have been refused or dropped.
PlacesReserved ==
  step = "wait" =>
    /\ Cardinality({i \in DOMAIN clients : clients[i].stage \in {"watching", "due"}})
         <= MaxWatchers
    /\ Cardinality({i \in DOMAIN clients : clients[i].stage = "silent" /\ clients[i].open})
         <= MaxUnfinished

\* Every refresh that was let in is in the channel, with the worker or in the mailbox.
\* One that is lost would use up a place of the subscription for good.
RefreshesCounted ==
  \A c \in Consumers :
    pending[c] = Len(queued[c]) + Len(taken[c]) + Len(completed[c])

\* The bookkeeping of daemon and consumers together.
PlacesKept == TypeOK /\ PlacesReserved /\ RefreshesCounted

\* No watcher sleeps while it has not seen the newest value, and no more connections are
\* taken than there are places for.
WatchSound == NoLostWakeup /\ PlacesKept

\* A refresh is acknowledged only once the settings in use are those the file held at
\* the request or later.
RefreshTruthful ==
  [][\A c \in Consumers : completed'[c] = <<>> =>
       \A i \in DOMAIN completed[c] : completed[c][i].ok =>
         \E v \in completed[c][i].since..Len(history) :
           history[v] # Broken /\ applied'[c] = Loaded(history[v])]_vars

\* Every refresh is answered, and truthfully.
RefreshAnswered == RefreshTruthful /\ \A c \in Consumers : pending[c] > 0 ~> pending[c] = 0

\* Once the file has settled, every consumer uses it, also one whose watches the daemon
\* refuses for want of room.
SettlesOnFile ==
  \A c \in Consumers : <>[](file = Broken \/ applied[c] = Loaded(file))
==============================================================================

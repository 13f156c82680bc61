---------------------------- MODULE DeviceControls ----------------------------
(***************************************************************************)
(* The volume and brightness controls: a key is pressed in the compositor, *)
(* which issues a token for it and tells the shell; the shell's interface  *)
(* submits requests, of keys and of its sliders, to a task that asks the   *)
(* compositor again before every write to the hardware, and that polls     *)
(* while there is nothing to do.                                           *)
(*                                                                         *)
(* A request is [id, device, value, key, token, born]: value is what a     *)
(* slider asks for, or the step of a key; a slider has the token NoToken.  *)
(* born is history: how many locks there had been when the key was         *)
(* pressed.  Muting, several outputs, devices that are replaced or cannot  *)
(* be read, and the compositor's own closing of displays are left out.     *)
(***************************************************************************)
EXTENDS Integers, Sequences, FiniteSets, SequencesExt

CONSTANTS Devices,                 \* of "volume" and "brightness"
          MaxLevel,                \* of a device; the others are bounds
          MaxPending,              \* tokens that are valid at once: 16
          MaxQueue,                \* requests in the channel, and in the queue: 32
          MaxKeys, MaxSliders, MaxLocks

Levels == 0..MaxLevel
NoToken == 0
None == 0                  \* of the requests, which are numbered from 1
Nothing == <<>>

VARIABLES
  listening,  \* the session is active and unlocked: the compositor takes keys
  available,  \* and its outputs are recovered: it accepts tokens
  tokens,     \* of the compositor: those it will accept, oldest first
  events,     \* datagrams of key presses on their way to the shell
  nextId, pending, snapshot, osd,    \* the interface
  channel, queue, job, polling,      \* the task
  updates,    \* messages of the task to the interface
  level,      \* the hardware
  locks,      \* history: how many there were
  sequence,   \* of the tokens
  spent       \* bound: the uses of each device

compositor == <<listening, available, tokens, locks, sequence>>
interface == <<nextId, pending, snapshot, osd>>
work == <<channel, queue, job, polling>>
vars == <<compositor, events, interface, work, updates, level, spent>>

Requests == [id : Nat, device : Devices, value : Int, key : BOOLEAN, token : Nat, born : Nat]
Jobs == [request : Requests, pc : {"guard", "token", "write", "read", "reguard",
                                   "retoken", "session"},
         token : Nat,        \* not yet taken
         target : Levels, left : 0..2, accepted : BOOLEAN, at : Int, ok : BOOLEAN,
         expired : BOOLEAN]

TypeOK ==
  /\ listening \in BOOLEAN /\ available \in BOOLEAN /\ available => listening
  /\ tokens \in Seq(Nat \ {NoToken}) /\ Len(tokens) <= MaxPending
  /\ events \in Seq([device : Devices, step : {-1, 1}, token : Nat, born : Nat])
  /\ nextId \in Nat /\ locks \in Nat /\ sequence \in Nat
  /\ spent \in [Devices -> [keys : Nat, sliders : Nat]]
  /\ pending \in [Devices -> Nat]
  /\ snapshot \in [Devices -> Levels] /\ level \in [Devices -> Levels]
  /\ osd \in Devices \cup {"none"}
  /\ channel \in Seq(Requests) /\ queue \in Seq(Requests)
  /\ Len(channel) <= MaxQueue /\ Len(queue) <= MaxQueue + 1
  /\ job \in Jobs \cup {Nothing}
  /\ polling \in {"idle", "read"} \X BOOLEAN
  /\ \A i \in DOMAIN updates :
       updates[i].request \in Requests \cup {Nothing} /\ updates[i].active \in BOOLEAN

Init ==
  /\ listening = TRUE /\ available = TRUE /\ tokens = <<>> /\ events = <<>>
  /\ nextId = 0 /\ pending = [d \in Devices |-> None]
  /\ snapshot = [d \in Devices |-> 0] /\ osd = "none"
  /\ channel = <<>> /\ queue = <<>> /\ job = Nothing /\ polling = <<"idle", FALSE>>
  /\ updates = <<>> /\ level = [d \in Devices |-> 0]
  /\ locks = 0 /\ sequence = 0
  /\ spent = [d \in Devices |-> [keys |-> 0, sliders |-> 0]]

-----------------------------------------------------------------------------
(***************************************************************************)
(* The compositor.                                                         *)
(***************************************************************************)
\* issue: the oldest token gives way.  While outputs are not recovered, the turn of
\* the loop that takes the key ends with no token.
KeyPressed(d, step) ==
  /\ listening /\ spent[d].keys < MaxKeys
  /\ spent' = [spent EXCEPT ![d].keys = @ + 1]
  /\ sequence' = sequence + 1
  /\ tokens' = IF ~available THEN <<>>
               ELSE Append(IF Len(tokens) = MaxPending THEN Tail(tokens) ELSE tokens, sequence')
  /\ events' = Append(events, [device |-> d, step |-> step, token |-> sequence', born |-> locks])
  /\ UNCHANGED <<listening, available, interface, work, updates, level, locks>>

LocksKeepingTokens ==
  /\ listening /\ locks < MaxLocks
  /\ listening' = FALSE /\ available' = FALSE /\ locks' = locks + 1
  /\ UNCHANGED <<tokens, events, interface, work, updates, level, sequence, spent>>

\* A lock or the loss of the VT withdraws every token.
Locks ==
  /\ listening /\ locks < MaxLocks
  /\ listening' = FALSE /\ available' = FALSE /\ locks' = locks + 1 /\ tokens' = <<>>
  /\ UNCHANGED <<events, interface, work, updates, level, sequence, spent>>
Unlocks ==
  /\ ~listening /\ listening' = TRUE /\ available' \in BOOLEAN
  /\ UNCHANGED <<tokens, events, interface, work, updates, level, locks, sequence, spent>>

\* The outputs are lost or recovered in an open session: a turn without them
\* withdraws the tokens.
Recovers ==
  /\ listening /\ available' = ~available /\ tokens' = <<>>
  /\ UNCHANGED <<listening, events, interface, work, updates, level, locks, sequence, spent>>

\* accept, once and for half a second: whoever asks may be told that it is late.
Accepts(token) == \E i \in DOMAIN tokens : tokens[i] = token /\ tokens' = RemoveAt(tokens, i)

-----------------------------------------------------------------------------
(***************************************************************************)
(* The interface of the shell.                                             *)
(***************************************************************************)
Submit(d, value, key, token, born) ==
  /\ nextId' = nextId + 1
  /\ IF Len(channel) < MaxQueue
     THEN /\ channel' = Append(channel, [id |-> nextId', device |-> d, value |-> value, key |-> key,
                                        token |-> token, born |-> born])
          /\ pending' = IF key THEN pending ELSE [pending EXCEPT ![d] = nextId']
     ELSE UNCHANGED <<channel, pending>>
  /\ UNCHANGED <<compositor, snapshot, osd, queue, job, polling, updates, level>>

SliderMoved(d, value) ==
  /\ spent[d].sliders < MaxSliders /\ spent' = [spent EXCEPT ![d].sliders = @ + 1]
  /\ Submit(d, value, FALSE, NoToken, locks)
  /\ UNCHANGED events

KeyEvent ==
  /\ events # <<>> /\ events' = Tail(events)
  /\ LET e == Head(events) IN Submit(e.device, e.step, TRUE, e.token, e.born)
  /\ UNCHANGED spent

UnhiddenEarlier(r) ==
  IF pending[r.device] # None /\ pending[r.device] < r.id
  THEN [pending EXCEPT ![r.device] = None] ELSE pending

\* A result shows the measured value again, unless a later one is on its way.
Unhidden(r) ==
  IF pending[r.device] # None /\ pending[r.device] <= r.id
  THEN [pending EXCEPT ![r.device] = None] ELSE pending

\* apply: only a key opens a display, and only one that is still wanted.
Update ==
  /\ updates # <<>> /\ updates' = Tail(updates)
  /\ LET u == Head(updates)
         d == u.request.device
     IN IF u.request = Nothing
        THEN /\ snapshot' = u.reading
             /\ osd' = IF u.active THEN osd ELSE "none"
             /\ UNCHANGED pending
        ELSE /\ pending' = Unhidden(u.request)
             /\ snapshot' = IF u.ok THEN [snapshot EXCEPT ![d] = u.reading[d]] ELSE snapshot
             /\ osd' = IF u.active /\ u.request.key THEN d ELSE osd
  /\ UNCHANGED <<compositor, events, nextId, work, level, spent>>

OsdExpires ==
  /\ osd # "none" /\ osd' = "none"
  /\ UNCHANGED <<compositor, events, nextId, pending, snapshot, work, updates, level, spent>>

-----------------------------------------------------------------------------
(***************************************************************************)
(* The task.                                                               *)
(***************************************************************************)
\* Only consecutive values of one slider replace each other.
Coalesce(q, r) ==
  IF q # <<>> /\ ~Last(q).key /\ ~r.key /\ Last(q).device = r.device
  THEN Append(Front(q), r) ELSE Append(q, r)

\* What is taken from the channel while the queue has room, and what is left in it:
\* the loop, and all that its turns do.
After[i \in 0..Len(channel)] ==
  IF i = 0 THEN [queue |-> queue, channel |-> channel]
  ELSE LET s == After[i - 1]
       IN IF Len(s.queue) < MaxQueue /\ s.channel # <<>>
          THEN [queue |-> Coalesce(s.queue, Head(s.channel)), channel |-> Tail(s.channel)]
          ELSE s
Drained == After[Len(channel)]

Clamp(n) == IF n < 0 THEN 0 ELSE IF n > MaxLevel THEN MaxLevel ELSE n
\* A volume above zero is unmuted by a second write.
Writes(r, target) == IF r.device = "volume" /\ target > 0 THEN 2 ELSE 1

\* A failure that no guard preceded is worth a display if the request is accepted.
Failed(j) == [j EXCEPT !.pc = IF j.accepted THEN "session" ELSE "reguard", !.ok = FALSE]
\* Two seconds may have passed at any place where the code looks.
Ages(j) == {[j EXCEPT !.expired = e] : e \in {j.expired, TRUE}}

\* A request ends the poll that is waiting or under way.  The level a key steps
\* from is that of the device it changes.
TakeRequest ==
  /\ job = Nothing /\ (channel # <<>> \/ queue # <<>>)
  /\ LET r == Head(Drained.queue)
         target == IF r.key THEN Clamp(level[r.device] + r.value) ELSE r.value
         new == [request |-> r, pc |-> "guard", token |-> r.token, target |-> target,
                 left |-> Writes(r, target), accepted |-> FALSE, at |-> -1, ok |-> FALSE,
                 expired |-> FALSE]
     IN /\ queue' = Tail(Drained.queue)
        /\ \E j \in Ages(new) : job' = IF j.expired \/ ~available THEN Failed(j) ELSE j
  /\ channel' = Drained.channel /\ polling' = <<"idle", FALSE>>
  /\ UNCHANGED <<compositor, events, interface, updates, level, spent>>

\* accept, before each write: the session, and then the token, which only the
\* first guard has.
GuardStep(j) ==
  /\ j.pc = "guard"
  /\ job' = IF j.expired \/ ~available THEN Failed(j)
            ELSE IF j.token = NoToken THEN [j EXCEPT !.pc = "write", !.accepted = TRUE]
            ELSE [j EXCEPT !.pc = "token"]
  /\ UNCHANGED <<tokens, level, updates>>
TokenStep(j) ==
  /\ j.pc = "token"
  /\ \/ /\ \E taken \in BOOLEAN :
             /\ Accepts(j.token)
             /\ job' = IF taken /\ ~j.expired
                       THEN [j EXCEPT !.pc = "write", !.accepted = TRUE, !.token = NoToken, !.at = locks]
                       ELSE Failed([j EXCEPT !.token = NoToken])
     \/ /\ j.token \notin ToSet(tokens) /\ UNCHANGED tokens
        /\ job' = Failed([j EXCEPT !.token = NoToken])
  /\ UNCHANGED <<level, updates>>

WriteStep(j) ==
  /\ j.pc = "write"
  /\ level' = [level EXCEPT ![j.request.device] = j.target]
  /\ job' = [j EXCEPT !.left = @ - 1, !.pc = IF j.left = 1 THEN "read" ELSE "guard"]
  /\ UNCHANGED <<tokens, updates>>
ReadStep(j) ==
  /\ j.pc = "read" /\ job' = [j EXCEPT !.pc = "session", !.ok = TRUE]
  /\ UNCHANGED <<tokens, level, updates>>

\* adjust: an error is shown only for a request that is still accepted.
ReguardStep(j) ==
  /\ j.pc = "reguard"
  /\ job' = IF j.expired \/ ~available THEN [j EXCEPT !.pc = "session"]
            ELSE IF j.request.token = NoToken THEN [j EXCEPT !.pc = "session", !.accepted = TRUE]
            ELSE [j EXCEPT !.pc = "retoken"]
  /\ UNCHANGED <<tokens, level, updates>>
RetokenStep(j) ==
  /\ j.pc = "retoken"
  /\ \/ \E taken \in BOOLEAN :
          /\ Accepts(j.request.token)
          /\ job' = [j EXCEPT !.pc = "session", !.accepted = taken /\ ~j.expired,
                              !.at = IF taken THEN locks ELSE -1]
     \/ /\ j.request.token \notin ToSet(tokens) /\ UNCHANGED tokens
        /\ job' = [j EXCEPT !.pc = "session"]
  /\ UNCHANGED <<level, updates>>

\* Whether the session is still there is asked once more before the interface is told.
SessionStep(j) ==
  /\ j.pc = "session"
  /\ updates' = Append(updates, [request |-> j.request, ok |-> j.ok, reading |-> level,
                                 active |-> j.accepted /\ available])
  /\ job' = Nothing
  /\ UNCHANGED <<tokens, level>>

JobStep ==
  /\ job # Nothing
  /\ \E j \in Ages(job) :
       \/ GuardStep(j) \/ TokenStep(j) \/ WriteStep(j) \/ ReadStep(j)
       \/ ReguardStep(j) \/ RetokenStep(j) \/ SessionStep(j)
  /\ UNCHANGED <<listening, available, locks, sequence, events, interface, channel, queue, polling, spent>>

\* A command fails, or four seconds have passed; what was sent may have been done.
JobFails ==
  /\ job # Nothing /\ job.pc \in {"guard", "token", "write", "read"}
  /\ job' = Failed(job)
  /\ \/ UNCHANGED level
     \/ job.pc = "write" /\ level' = [level EXCEPT ![job.request.device] = job.target]
  /\ UNCHANGED <<compositor, events, interface, channel, queue, polling, updates, spent>>

\* A poll, a second after the one before: the interface has read what that found.
PollStep ==
  /\ job = Nothing /\ channel = <<>> /\ queue = <<>> /\ updates = <<>>
  /\ CASE polling[1] = "idle" -> polling' = <<"read", available>> /\ UNCHANGED updates
       [] polling[1] = "read" ->
            /\ polling' = <<"idle", FALSE>>
            /\ updates' = <<[request |-> Nothing, reading |-> level, active |-> polling[2]]>>
  /\ UNCHANGED <<compositor, events, interface, channel, queue, job, level, spent>>

-----------------------------------------------------------------------------
Task == TakeRequest \/ JobStep \/ PollStep
Next ==
  \/ \E d \in Devices : (\E s \in {-1, 1} : KeyPressed(d, s)) \/ (\E v \in Levels : SliderMoved(d, v))
  \/ Locks \/ Unlocks \/ Recovers
  \/ KeyEvent \/ Update \/ OsdExpires
  \/ Task \/ JobFails

\* The tasks of the shell run; displays expire.
Fairness == WF_vars(KeyEvent) /\ WF_vars(Update) /\ WF_vars(OsdExpires) /\ WF_vars(Task)
Spec == Init /\ [][Next]_vars /\ Fairness

-----------------------------------------------------------------------------
(***************************************************************************)
(* Properties.                                                             *)
(***************************************************************************)
\* The token of a key is accepted only in the session in which the key was pressed,
\* however long the request waited.  What was accepted may be written after a lock:
\* the task asks before it writes, and no token guards a second write.
KeysOfThisSession ==
  job # Nothing /\ job.request.key /\ job.accepted => job.at = job.request.born

\* Requests are adjusted in the order in which they were made.
InOrder ==
  LET all == (IF job = Nothing THEN <<>> ELSE <<job.request>>) \o queue \o channel
  IN \A i, j \in DOMAIN all : i < j => all[i].id < all[j].id

\* A value that hides the measured one belongs to a request of that device that
\* is still to be answered.
PendingCovered ==
  \A d \in Devices : pending[d] # None =>
    LET covers(r) == r # Nothing /\ r.device = d /\ r.id >= pending[d]
    IN \/ job # Nothing /\ covers(job.request)
       \/ \E r \in ToSet(queue) \cup ToSet(channel) : covers(r)
       \/ \E u \in ToSet(updates) : covers(u.request)

ControlsSound == KeysOfThisSession /\ InOrder /\ PendingCovered

\* Nothing hides the measured values for ever, they are those of the hardware, and
\* no display stays.
ControlsSettle ==
  <>[](/\ \A d \in Devices : pending[d] = None
       /\ snapshot = level /\ osd = "none")
=============================================================================

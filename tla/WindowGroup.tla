------------------------------ MODULE WindowGroup ------------------------------
(***************************************************************************)
(* The gathering of windows like those selected, of the compositor         *)
(* (hearthspace-compositor/src/compositor/window_group.rs and              *)
(* window_group/): the group the event loop keeps, the queue of one        *)
(* request, and the worker that asks a model which candidates belong to    *)
(* it.  An answer comes seconds later, when windows may have been closed   *)
(* or renamed, the selection changed, a drag begun or the session locked.  *)
(* What the group looks like and the flights of its windows are left out.  *)
(***************************************************************************)
EXTENDS Naturals, Sequences, FiniteSets

CONSTANTS Windows, Titles,
          Hidden,                       \* a window that is closed or not navigable
          None,
          MaxGeneration, MaxChanges, MaxDeaths   \* bounds

VARIABLES
  titles,    \* the windows
  scene,     \* the session lock, the drags of the pointer, the window switcher
  group,     \* WindowGroup
  worker,    \* the queue and its thread
  channel,   \* the answers on their way to the event loop, and at last Closed
  cancelled, \* the requests whose cancel flag is set
  counters
vars == <<titles, scene, group, worker, channel, cancelled, counters>>

Snapshots == UNION {[s -> Titles] : s \in SUBSET Windows}
Requests == [id : Nat, titles : Snapshots, candidates : Snapshots]
Error == {"error"}
Closed == [request |-> None, result |-> Error]
Answers == [request : Requests, result : (SUBSET Windows) \cup {Error}]

Idle == [locked |-> FALSE, dragging |-> FALSE, gesture |-> FALSE, switching |-> FALSE]
Groups == [selected : SUBSET Windows, selecting : BOOLEAN, generation : Nat,
           pending : Requests \cup {None}, deferred : Answers \cup {None}, worker : BOOLEAN]

TypeOK ==
  /\ titles \in [Windows -> Titles \cup {Hidden}]
  /\ scene \in [locked : BOOLEAN, dragging : BOOLEAN, gesture : BOOLEAN, switching : BOOLEAN]
  /\ group \in Groups
  /\ worker \in [queued : Requests \cup {None}, active : Requests \cup {None},
                 thread : {"none", "waiting", "asking"}]
  /\ worker.thread = "asking" => worker.active \in Requests
  /\ channel \in Seq(Answers \cup {Closed})
  /\ cancelled \subseteq Nat
  /\ counters \in [changes : Nat, deaths : Nat]

Init ==
  /\ titles \in [Windows -> Titles]
  /\ scene = Idle
  /\ group = [selected |-> {}, selecting |-> FALSE, generation |-> 0, pending |-> None,
              deferred |-> None, worker |-> FALSE]
  /\ worker = [queued |-> None, active |-> None, thread |-> "none"]
  /\ channel = <<>> /\ cancelled = {}
  /\ counters = [changes |-> 0, deaths |-> 0]

Open == {w \in Windows : titles[w] # Hidden}
Snapshot(s) == [w \in s |-> titles[w]]
Messages == {channel[i] : i \in 1..Len(channel)}
Ids(request) == IF request = None THEN {} ELSE {request.id}
Busy(s) == s.dragging \/ s.gesture
\* check_navigation_available
Navigable == ~scene.locked /\ ~scene.switching /\ ~Busy(scene)

\* Queue::submit sets the flag of what it has and of what the thread had.
Superseded(queued, active) == Ids(queued) \cup Ids(active)

\* The group after invalidate, replace_selection, clear_window_group and
\* disarm_group_selection.
Invalidated(g) == [g EXCEPT !.deferred = None, !.pending = None, !.generation = @ + 1]
Selection(g, s) == IF g.selected = s THEN g ELSE [Invalidated(g) EXCEPT !.selected = s]
Cleared(g) == [Invalidated(g) EXCEPT !.selecting = FALSE, !.selected = {}]
Disarmed(g) == [Invalidated(g) EXCEPT !.selecting = FALSE]

\* maintain_window_group up to the deferred answer: the windows that are gone leave
\* the selection, and titles that changed make what was asked obsolete, as the window
\* switcher does.
Stale(g) == g.pending # None /\ g.pending.titles # Snapshot(g.selected)
Maintained(g) ==
  IF scene.locked
  THEN IF g.selecting \/ g.selected # {} THEN Cleared(g) ELSE g
  ELSE LET kept == Selection(g, g.selected \cap Open)
       IN IF Stale(kept) \/ (scene.switching /\ kept.pending # None)
          THEN Invalidated(kept) ELSE kept
GestureKept(g) == ~scene.locked /\ ~scene.switching /\ g.selected \subseteq Open

\* complete_group_gather after maintain_window_group.
Belongs(g, answer) == g.pending # None /\ g.pending.id = answer.request.id
JoiningRenamed(g, answer) == IF answer.result = Error THEN {} ELSE answer.result \cap Open
Joining(g, answer) ==
  IF answer.result = Error THEN {}
  ELSE {w \in answer.result \cap Open :
          /\ w \in DOMAIN g.pending.candidates /\ g.pending.candidates[w] = titles[w]}
Completed(g, s, answer) ==
  CASE scene.locked \/ ~Belongs(g, answer) -> g
    [] ~scene.locked /\ Belongs(g, answer) /\ Busy(s) -> [g EXCEPT !.deferred = answer]
    [] OTHER -> [g EXCEPT !.pending = None, !.selected = @ \cup Joining(g, answer)]

\* maintain_window_group: an answer that waited for the drags is looked at.
SceneAfter == [scene EXCEPT !.gesture = @ /\ GestureKept(group)]
SettledWithoutDeferred(g) == Maintained(g)
Settled(g) ==
  LET kept == Maintained(g)
  IN IF kept.deferred # None /\ ~Busy(SceneAfter) /\ ~scene.locked
     THEN [Completed(kept, SceneAfter, kept.deferred) EXCEPT !.deferred = None]
     ELSE kept

\* A request that is pending no longer is cancelled (or over, when nothing looks at
\* the flag).
GroupBecomes(g) ==
  /\ group' = g
  /\ cancelled' = cancelled \cup (Ids(group.pending) \ Ids(g.pending))

-----------------------------------------------------------------------------
(***************************************************************************)
(* The user and the clients.                                               *)
(***************************************************************************)
Change(w, title) ==
  /\ titles[w] # title /\ counters.changes < MaxChanges
  /\ titles' = [titles EXCEPT ![w] = title]
  /\ counters' = [counters EXCEPT !.changes = @ + 1]
  /\ UNCHANGED <<scene, group, worker, channel, cancelled>>

Lock ==
  /\ counters.changes < MaxChanges
  /\ scene' = [Idle EXCEPT !.locked = ~scene.locked]
  /\ counters' = [counters EXCEPT !.changes = @ + 1]
  \* reset_interaction_modes: the group and the switcher, with the seat's other input
  /\ GroupBecomes(IF scene.locked THEN group ELSE Cleared(group))
  /\ UNCHANGED <<titles, worker, channel>>

\* A window is moved or resized by itself, or let go of.
Drag ==
  /\ ~scene.locked /\ (~scene.dragging => ~scene.switching /\ counters.changes < MaxChanges)
  /\ scene' = [scene EXCEPT !.dragging = ~@]
  /\ counters' = [counters EXCEPT !.changes = IF scene.dragging THEN @ ELSE @ + 1]
  /\ UNCHANGED <<titles, group, worker, channel, cancelled>>

\* select_group_tool, and the lasso or the keyboard: the selection of some windows.
SelectTool ==
  /\ Navigable /\ ~group.selecting /\ group.generation < MaxGeneration
  /\ GroupBecomes([Invalidated(group) EXCEPT !.selecting = TRUE])
  /\ UNCHANGED <<titles, scene, worker, channel, counters>>

Select ==
  /\ ~scene.locked /\ group.selecting
  /\ \E s \in SUBSET Open :
       GroupBecomes([Selection(group, s) EXCEPT !.selecting = FALSE])
  /\ UNCHANGED <<titles, scene, worker, channel, counters>>

\* disarm_group_selection: the tool is put away, or another one chosen.
Disarm ==
  /\ Navigable /\ group.generation < MaxGeneration
  /\ GroupBecomes(Disarmed(group))
  /\ UNCHANGED <<titles, scene, worker, channel, counters>>

\* The window switcher opens, and clears the group, or closes.
Switch ==
  /\ ~scene.locked /\ scene' = [scene EXCEPT !.switching = ~@]
  /\ \/ scene.switching /\ UNCHANGED <<group, cancelled>>
     \/ Navigable /\ group.generation < MaxGeneration /\ GroupBecomes(Cleared(group))
  /\ UNCHANGED <<titles, worker, channel, counters>>

\* A press beside the group.
Clear ==
  /\ ~scene.locked /\ group.selected # {} /\ group.generation < MaxGeneration
  /\ GroupBecomes(Cleared(group))
  /\ scene' = [scene EXCEPT !.gesture = FALSE]
  /\ UNCHANGED <<titles, worker, channel, counters>>

\* The group is dragged, or let go of.
DragGroup ==
  /\ ~scene.locked /\ (~scene.gesture => group.selected # {} /\ ~group.selecting
                                         /\ ~scene.switching /\ counters.changes < MaxChanges)
  /\ scene' = [scene EXCEPT !.gesture = ~@]
  /\ counters' = [counters EXCEPT !.changes = IF scene.gesture THEN @ ELSE @ + 1]
  /\ UNCHANGED <<titles, group, worker, channel, cancelled>>

\* start_group_gather.  The worker is created when there is none, which may fail.
StartGather ==
  /\ Navigable /\ group.generation < MaxGeneration
  /\ LET g == Settled(group)
         asked == Disarmed(g)
         request == [id |-> asked.generation, titles |-> Snapshot(asked.selected),
                     candidates |-> Snapshot(Open \ asked.selected)]
         pending == [asked EXCEPT !.pending = request]
     IN /\ g.selected # {} /\ g.pending = None
        /\ scene' = [scene EXCEPT !.gesture = FALSE]
        /\ \/ /\ group' = [pending EXCEPT !.worker = TRUE]
              /\ worker' = [worker EXCEPT !.queued = request,
                                          !.thread = IF group.worker THEN @ ELSE "waiting"]
              /\ cancelled' = cancelled \cup Ids(group.pending)
                                \cup Superseded(worker.queued, worker.active)
              /\ UNCHANGED counters
           \/ /\ ~group.worker /\ counters.deaths < MaxDeaths
              /\ group' = Completed(pending, scene', [request |-> request, result |-> Error])
              /\ cancelled' = cancelled \cup Ids(group.pending)
              /\ counters' = [counters EXCEPT !.deaths = @ + 1]
              /\ UNCHANGED worker
  /\ UNCHANGED <<titles, channel>>

-----------------------------------------------------------------------------
(***************************************************************************)
(* The worker, and the event loop's ends of its channel.                   *)
(***************************************************************************)
Take ==
  /\ worker.thread = "waiting" /\ worker.queued # None
  /\ worker' = [queued |-> None, active |-> worker.queued,
                thread |-> IF worker.queued.id \in cancelled THEN "waiting" ELSE "asking"]
  /\ UNCHANGED <<titles, scene, group, channel, cancelled, counters>>

\* The model names candidates, of which it is told no more than the titles, or fails:
\* by the deadline of the backend, or since the request was cancelled.
AnswerRequest ==
  /\ worker.thread = "asking"
  /\ worker' = [worker EXCEPT !.thread = "waiting"]
  /\ \E result \in (SUBSET DOMAIN worker.active.candidates) \cup {Error} :
       channel' = Append(channel, [request |-> worker.active, result |-> result])
  /\ UNCHANGED <<titles, scene, group, cancelled, counters>>

\* The thread is gone, with what it was asked; the event loop reads Closed at last.
Die ==
  /\ worker.thread # "none" /\ group.worker /\ counters.deaths < MaxDeaths
  /\ channel' = Append(channel, Closed)
  /\ worker' = [worker EXCEPT !.thread = "none"]
  /\ counters' = [counters EXCEPT !.deaths = @ + 1]
  /\ UNCHANGED <<titles, scene, group, cancelled>>

Failed == [request |-> group.pending, result |-> Error]
Receive ==
  /\ channel # <<>> /\ channel' = Tail(channel) /\ scene' = SceneAfter
  /\ LET g == Settled(group)
     IN IF Head(channel) = Closed
        THEN /\ worker' = [queued |-> None, active |-> None, thread |-> "none"]
             /\ GroupBecomes([IF group.pending = None THEN group
                              ELSE Completed(g, scene', Failed) EXCEPT !.worker = FALSE])
        ELSE GroupBecomes(Completed(g, scene', Head(channel))) /\ UNCHANGED worker
  /\ UNCHANGED <<titles, counters>>

\* maintain_window_group, in every round of the event loop.
Maintain ==
  /\ GroupBecomes(Settled(group)) /\ scene' = SceneAfter
  /\ UNCHANGED <<titles, worker, channel, counters>>

User == Lock \/ Drag \/ SelectTool \/ Select \/ Disarm \/ Switch \/ Clear \/ DragGroup
          \/ StartGather
          \/ \E w \in Windows, t \in Titles \cup {Hidden} : Change(w, t)
Thread == Take \/ AnswerRequest \/ Die
Next == User \/ Thread \/ Receive \/ Maintain

\* The event loop and the thread run, the backend's deadline passes, a drag ends.
Fairness ==
  /\ WF_vars(Take) /\ WF_vars(AnswerRequest) /\ WF_vars(Receive) /\ WF_vars(Maintain)
  /\ WF_vars(scene.dragging /\ Drag) /\ WF_vars(scene.gesture /\ DragGroup)
Spec == Init /\ [][Next]_vars /\ Fairness

-----------------------------------------------------------------------------
(***************************************************************************)
(* Properties.                                                             *)
(***************************************************************************)
\* The request that is pending is never cancelled by those before it, and is on its
\* way to an answer; every other one that the thread has or will take is cancelled.
GatherKept ==
  /\ group.pending # None =>
       /\ group.pending.id \notin cancelled
       /\ \/ worker.queued = group.pending
          \/ worker.thread = "asking" /\ worker.active = group.pending
          \/ group.deferred # None \/ Closed \in Messages
          \/ \E m \in Messages : m # Closed /\ m.request = group.pending
  /\ group.deferred # None => group.pending # None /\ group.deferred.request = group.pending
  /\ Ids(worker.queued) \subseteq cancelled \cup Ids(group.pending)
  /\ worker.thread = "asking" =>
       Ids(worker.active) \subseteq cancelled \cup Ids(group.pending)

\* Windows join the group only as the model was asked about them: the selection and
\* its titles are those of the request, and so is the title of each; never while the
\* session is locked, and never in the middle of a drag.
Joined == group'.selected \ group.selected
JoinsAsJudged ==
  [][group.pending # None /\ Joined # {} =>
       /\ ~scene.locked /\ ~Busy(scene')
       /\ \E answer \in (Messages \ {Closed}) \cup ({group.deferred} \ {None}) :
            /\ Joined \subseteq answer.result
            /\ answer.request.titles = Snapshot(group.selected)
            /\ \A w \in Joined : answer.request.candidates[w] = titles[w]]_vars

\* The group does not stay loading: an answer, an error, a death of the worker or a
\* change ends every gathering.
GatherEnds == []<>(group.pending = None)
=============================================================================

----------------------------- MODULE ScreenCapture -----------------------------
(***************************************************************************)
(* Captures of one native output (hearthspace-compositor/src/compositor/   *)
(* capture.rs and what the native backend does for it): the requests, the  *)
(* scene that is rendered for them, the pixels the presenter reads as it   *)
(* submits that scene, the page flip that releases them, and the thread    *)
(* that encodes them.                                                      *)
(*                                                                         *)
(* Scenes are numbered, and a request remembers the last scene that was    *)
(* begun before it (in the code both are instants).  The presenter is      *)
(* reduced to the scene it holds, which it queues and flips in one step    *)
(* (Presenter has the whole of it).  Remote capture, metadata, and the     *)
(* immediate captures of the headless backend are left out, and so is an   *)
(* inactive seat, which fails every capture as a change of the output does.*)
(***************************************************************************)
EXTENDS Integers, Sequences, FiniteSets

CONSTANTS Requests,                  \* commands of the control socket
          MaxRequests, MaxJobs,      \* 4 and 2
          MaxScenes, MaxEpoch, MaxFaults, MaxEvents  \* bounds

None == <<>>
NoScene == 0

VARIABLES
  locked, generation,   \* the session; the generation of its lock
  pending, staged,      \* CaptureState: the requests, and the frame being encoded
  jobs,                 \* of the encoder, in order: its permits
  loop,                 \* OutputPresentation, the capture it waits for, and the epoch
  scene,                \* of the presenter
  events,               \* from the presenter
  began, answers,       \* history: of each request, the last scene before it and
                        \* the generation; and its answer
  flipped,              \* history: scenes that were on the screen, with their epoch
  counters              \* bounds: scenes, faults
captures == <<pending, staged, jobs, answers>>
vars == <<locked, generation, captures, loop, scene, events, began, flipped, counters>>

Scenes == [seq : 1..MaxScenes, epoch : Nat, wanted : BOOLEAN, taken : BOOLEAN, submitted : BOOLEAN]

TypeOK ==
  /\ locked \in BOOLEAN /\ generation \in 0..MaxEpoch
  /\ pending \subseteq Requests
  /\ staged = None \/ (staged.requests \subseteq Requests /\ staged.seq \in 1..MaxScenes
                       /\ staged.presented \in BOOLEAN)
  /\ jobs.waiting \in Seq(Nat) /\ jobs.done \subseteq Nat /\ jobs.failed \subseteq Nat
  /\ loop \in [pending : 0..MaxScenes, last : 0..MaxScenes, dirty : BOOLEAN, redraw : BOOLEAN,
               capture : 0..MaxScenes, epoch : 0..MaxEpoch, lock : 0..MaxEpoch]
  /\ scene \in Scenes \cup {None}
  /\ answers \in [Requests -> {"none", "failed"} \X {0} \cup {"payload"} \X (1..MaxScenes)]

Init ==
  /\ locked = FALSE /\ generation = 0
  /\ pending = {} /\ staged = None
  /\ jobs = [waiting |-> <<>>, done |-> {}, failed |-> {}]
  /\ loop = [pending |-> NoScene, last |-> NoScene, dirty |-> TRUE, redraw |-> TRUE,
             capture |-> NoScene, epoch |-> 0, lock |-> 0]
  /\ scene = None
  /\ events = <<>> /\ flipped = {}
  /\ began = [r \in Requests |-> <<>>]
  /\ answers = [r \in Requests |-> <<"none", 0>>]
  /\ counters = [scenes |-> 0, faults |-> 0]

Fault == counters.faults < MaxFaults /\ counters' = [counters EXCEPT !.faults = @ + 1]
Answer(set, answer) == answers' = [r \in Requests |-> IF r \in set THEN answer ELSE answers[r]]
Staged == IF staged = None THEN {} ELSE staged.requests

-----------------------------------------------------------------------------
(***************************************************************************)
(* CaptureState.                                                           *)
(***************************************************************************)
\* A job that fails gives its place up at once.
Permits == Len(jobs.waiting) + Cardinality(jobs.done)
Available == Permits < MaxJobs
Wanted(waiting, frame) == frame = None /\ Available /\ waiting # {}

DroppedUnjoined == jobs

\* fail, of the one output: a frame that is dropped gives its finished job up, one
\* that is being encoded holds its place until it is done.
Dropped == [jobs EXCEPT !.done = {}, !.failed = {}]
Fail ==
  /\ pending' = {} /\ staged' = None /\ jobs' = Dropped
  /\ Answer(pending \cup Staged, <<"failed", 0>>)

\* request_capture
Request(r) ==
  /\ began[r] = <<>>
  /\ began' = [began EXCEPT ![r] = <<counters.scenes, generation>>]
  /\ IF locked \/ Cardinality(pending \cup Staged) >= MaxRequests
     THEN Answer({r}, <<"failed", 0>>) /\ UNCHANGED <<pending, loop>>
     ELSE /\ pending' = pending \cup {r}
          /\ loop' = [loop EXCEPT !.redraw = TRUE]
          /\ UNCHANGED answers
  /\ UNCHANGED <<locked, generation, staged, jobs, scene, events, flipped, counters>>

\* finish_frames, of the requests that have not expired.
Finish(waiting, frame, lost) ==
  /\ pending' = waiting
  /\ IF frame = None
     THEN staged' = None /\ jobs' = Dropped /\ Answer(lost, <<"failed", 0>>)
     ELSE IF frame.seq \in jobs.failed
     THEN staged' = None /\ jobs' = Dropped /\ Answer(lost \cup frame.requests, <<"failed", 0>>)
     ELSE IF frame.seq \in jobs.done /\ frame.presented
     THEN /\ staged' = None /\ jobs' = Dropped
          /\ answers' = [r \in Requests |-> IF r \in lost THEN <<"failed", 0>>
                                            ELSE IF r \in frame.requests THEN <<"payload", frame.seq>>
                                            ELSE answers[r]]
     ELSE staged' = frame /\ Answer(lost, <<"failed", 0>>) /\ UNCHANGED jobs

-----------------------------------------------------------------------------
(***************************************************************************)
(* The event loop.                                                         *)
(***************************************************************************)
\* An unlock needs a presentation of the lock, hence a turn since then.
Locks ==
  /\ generation < MaxEpoch /\ generation = loop.lock
  /\ locked' = ~locked /\ generation' = generation + 1
  /\ loop' = [loop EXCEPT !.redraw = TRUE]
  /\ UNCHANGED <<captures, scene, events, began, flipped, counters>>

\* The output is configured anew, under another key: its captures fail.
Replaced ==
  /\ Fault
  /\ loop' = [loop EXCEPT !.pending = NoScene, !.last = NoScene, !.capture = NoScene,
                          !.dirty = TRUE]
  /\ scene' = None
  /\ events' = <<>>
  /\ Fail
  /\ UNCHANGED <<locked, generation, began, flipped>>

\* Events of a lock or a security state that is over are ignored.
Accepted(e) ==
  /\ e.epoch = loop.epoch /\ generation = loop.lock
  /\ e.seq >= loop.last /\ e.seq <= counters.scenes

ServedAll(cutoff) == pending

\* What was read of a scene is for the requests that came before it was begun.
Served(cutoff) == {r \in pending : began[r][1] < cutoff}
Stage(seq, cutoff) ==
  LET ours == Served(cutoff)
  IN /\ pending' = pending \ ours
     /\ staged' = [requests |-> ours, seq |-> seq, presented |-> TRUE]
     /\ jobs' = [jobs EXCEPT !.waiting = Append(@, seq)]
     /\ UNCHANGED answers

\* The presentation of what is staged, by whatever frame, and of which jobs are done.
OnlyPresented == Finish(pending, staged, {})

Presented ==
  /\ events # <<>> /\ Head(events).kind = "presented" /\ events' = Tail(events)
  /\ LET e == Head(events)
         mine == e.capture # "none" /\ loop.capture = e.seq /\ ~locked
     IN IF ~Accepted(e) THEN UNCHANGED <<captures, loop>>
        ELSE /\ loop' = [loop EXCEPT !.last = e.seq,
                                     !.pending = IF @ = e.seq THEN NoScene ELSE @,
                                     !.capture = IF mine THEN NoScene ELSE @]
             /\ IF locked \/ (mine /\ e.capture = "error") THEN Fail
                ELSE IF mine /\ Wanted(pending, staged) THEN Stage(e.seq, loop.capture)
                ELSE OnlyPresented
  /\ UNCHANGED <<locked, generation, scene, began, flipped, counters>>

Discarded ==
  /\ events # <<>> /\ Head(events).kind = "discarded" /\ events' = Tail(events)
  /\ IF loop.pending = Head(events).seq
     THEN /\ loop' = [loop EXCEPT !.pending = NoScene, !.dirty = TRUE, !.capture = NoScene]
          /\ Fail
     ELSE UNCHANGED <<loop, captures>>
  /\ UNCHANGED <<locked, generation, scene, began, flipped, counters>>

(***************************************************************************)
(* The tail of a turn, first maintain_captures and then render_frame,      *)
(* which publishes a new security state before it renders.  It runs after  *)
(* every dispatch; here it may wait for several.                           *)
(***************************************************************************)
Maintain(lost) ==
  IF locked THEN lost = {} /\ Fail
  ELSE Finish(pending \ lost,
              IF Staged \ lost = {} THEN None ELSE [staged EXCEPT !.requests = @ \ lost], lost)

Secured == generation # loop.lock
\* sync_security: what the presenter had is discarded there.
SyncedLoop ==
  IF Secured THEN [loop EXCEPT !.lock = generation, !.epoch = @ + 1, !.pending = NoScene,
                               !.last = NoScene, !.dirty = TRUE, !.capture = NoScene]
  ELSE loop
Unsubmitted(s) ==
  IF s # None /\ ~s.submitted THEN <<[kind |-> "discarded", seq |-> s.seq]>> ELSE <<>>

Render ==
  LET redraw == loop.redraw \/ (~locked /\ Wanted(pending', staged'))
      synced == [SyncedLoop EXCEPT !.redraw = FALSE, !.dirty = @ \/ redraw]
      held == IF Secured THEN None ELSE scene
      wanted == Wanted(pending', staged')
      seq == counters.scenes + 1
  IN IF synced.dirty /\ synced.pending = NoScene
     THEN /\ seq <= MaxScenes
          /\ counters' = [counters EXCEPT !.scenes = seq]
          /\ loop' = [synced EXCEPT !.pending = seq, !.dirty = FALSE,
                                    !.capture = IF wanted THEN seq ELSE NoScene]
          /\ scene' = [seq |-> seq, epoch |-> synced.epoch, wanted |-> wanted, taken |-> FALSE,
                        submitted |-> FALSE]
          /\ events' = events \o Unsubmitted(scene)
     ELSE /\ loop' = synced /\ scene' = held
          /\ events' = events \o (IF Secured THEN Unsubmitted(scene) ELSE <<>>)
          /\ UNCHANGED counters

\* A deadline may have passed.
Turn ==
  /\ Maintain({}) /\ Render
  /\ UNCHANGED <<locked, generation, began, flipped>>
Expires ==
  /\ ~locked /\ \E r \in pending \cup Staged : Maintain({r})
  /\ Fault
  /\ UNCHANGED <<locked, generation, loop, scene, events, began, flipped>>

-----------------------------------------------------------------------------
(***************************************************************************)
(* The presenter, and the encoder.                                         *)
(***************************************************************************)
\* A scene is queued and flipped, and again for each cursor; its pixels are read
\* the first time.
Present ==
  /\ scene # None /\ Len(events) < MaxEvents
  /\ LET reads == scene.wanted /\ ~scene.taken
         presented(capture) == [kind |-> "presented", seq |-> scene.seq, epoch |-> scene.epoch,
                                capture |-> capture]
     IN \/ /\ events' = Append(events, presented(IF reads THEN "pixels" ELSE "none"))
           /\ UNCHANGED counters
        \/ /\ reads /\ Fault
           /\ events' = Append(events, presented("error"))
  /\ scene' = [scene EXCEPT !.taken = @ \/ scene.wanted, !.submitted = TRUE]
  /\ flipped' = flipped \cup {<<scene.seq, generation>>}
  /\ UNCHANGED <<locked, generation, captures, loop, began>>

\* The oldest job ends; when nobody waits for it any more its place is free at once.
Encode ==
  /\ jobs.waiting # <<>>
  /\ LET job == Head(jobs.waiting)
         kept == staged # None /\ staged.seq = job
         rest == [jobs EXCEPT !.waiting = Tail(@)]
     IN \/ jobs' = (IF kept THEN [rest EXCEPT !.done = @ \cup {job}] ELSE rest) /\ UNCHANGED counters
        \/ jobs' = (IF kept THEN [rest EXCEPT !.failed = @ \cup {job}] ELSE rest) /\ Fault
  /\ UNCHANGED <<locked, generation, pending, staged, answers, loop, scene, events, began, flipped>>

-----------------------------------------------------------------------------
Next ==
  \/ (\E r \in Requests : Request(r)) \/ Locks \/ Replaced
  \/ Presented \/ Discarded \/ Turn \/ Expires
  \/ Present \/ Encode

\* All threads run.
Fairness ==
  /\ WF_vars(Presented \/ Discarded) /\ WF_vars(Turn)
  /\ WF_vars(Present) /\ WF_vars(Encode)
Spec == Init /\ [][Next]_vars /\ Fairness

-----------------------------------------------------------------------------
(***************************************************************************)
(* Properties.                                                             *)
(***************************************************************************)
\* Every request that was made is waiting, staged or answered, and only one of
\* these; the permits never exceed their number, a finished job is one that
\* somebody waits for, and a scene whose capture is awaited is not shown yet.
HeldOnce ==
  /\ TypeOK /\ Permits <= MaxJobs
  /\ pending \cap Staged = {} /\ Cardinality(pending \cup Staged) <= MaxRequests
  /\ \A r \in Requests : (r \in pending \cup Staged) = (began[r] # <<>> /\ answers[r][1] = "none")
  /\ jobs.done \cup jobs.failed \subseteq (IF staged = None THEN {} ELSE {staged.seq})

\* Pixels are those of a scene begun after the request for them, that was on the
\* screen in the same state of the lock, which is still in force when they are sent.
CapturesPresented ==
  [][\A r \in Requests : answers[r][1] = "none" /\ answers'[r][1] = "payload" =>
       /\ ~locked /\ generation = began[r][2]
       /\ answers'[r][2] > began[r][1]
       /\ <<answers'[r][2], generation>> \in flipped]_vars

\* Every request is answered, and not by its deadline, which is a fault here: none waits
\* for ever.
CapturesAnswered == \A r \in Requests : []<>(r \notin pending \cup Staged)
=============================================================================

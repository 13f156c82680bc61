------------------------------- MODULE Presenter -------------------------------
(***************************************************************************)
(* The presenter of one GPU with one output: the event loop thread, the    *)
(* mailbox between the two threads, the worker, and the kernel             *)
(* (hearthspace-compositor/src/compositor/udev/presenter).  NativeSession  *)
(* has its frames queued and flipped in one step each; here are the turns  *)
(* of the worker, which reads the mailbox at their start, before it        *)
(* publishes a configuration, before it renders and before it queues, and  *)
(* acts on what it has read while the event loop goes on.                  *)
(*                                                                         *)
(* Keys number the configurations of the output, tags the security states: *)
(* an epoch and, decided by it, the generation of the lock.  Cursors,      *)
(* captures and the retries of a cursor plane are left out.                *)
(***************************************************************************)
EXTENDS PresenterState

loopVars == <<control, mailbox, output>>
workerVars == <<presenter, crtc, retired>>

Init ==
  /\ control = [now |-> [generation |-> 0, configuration |-> 0, key |-> NoKey, active |-> TRUE,
                         stopped |-> FALSE, tag |-> 1],
                pinged |-> FALSE]
  /\ mailbox = [scene |-> None, replaced |-> {}]
  /\ output = [key |-> NoKey, generation |-> 0, pool |-> NoKey, pending |-> 0, last |-> 0]
  /\ presenter = [pc |-> "idle", held |-> control.now, configured |-> 0, tag |-> 1]
  /\ crtc = None /\ retired = {} /\ fences = {}
  /\ kernel = [queued |-> None, flips |-> {}, screen |-> Blank]
  /\ reports = <<>> /\ shown = None
  /\ counters = [scenes |-> 0, pauses |-> 0, faults |-> 0, surfaces |-> 0]

Ask(new) == control' = [now |-> new, pinged |-> TRUE]

-----------------------------------------------------------------------------
(***************************************************************************)
(* The event loop.                                                         *)
(***************************************************************************)
\* rebuild_output_surfaces
Configure ==
  /\ output.key < MaxKey /\ Serving
  /\ Ask([Now EXCEPT !.generation = @ + 1, !.configuration = Now.generation + 1,
                     !.key = output.key + 1])
  /\ output' = [key |-> output.key + 1, generation |-> Now.generation + 1, pool |-> NoKey,
                pending |-> 0, last |-> 0]
  /\ UNCHANGED <<mailbox, workerVars, fences, kernel, reports, shown, counters>>

\* sync_security
SetSecurity ==
  /\ Now.tag < MaxTag /\ Serving
  /\ Ask([Now EXCEPT !.tag = @ + 1])
  /\ output' = [output EXCEPT !.pending = 0, !.last = 0]
  /\ UNCHANGED <<mailbox, workerVars, fences, kernel, reports, shown, counters>>

\* The seat is lost: what the screen shows is another session's.
Pause ==
  /\ Now.active /\ Serving /\ output.key < MaxKey /\ counters.pauses < MaxPauses
  /\ Ask([Now EXCEPT !.generation = @ + 1, !.active = FALSE])
  /\ output' = [key |-> output.key + 1, generation |-> Now.generation + 1, pool |-> NoKey,
                pending |-> 0, last |-> 0]
  /\ kernel' = [kernel EXCEPT !.screen = Blank, !.queued = None]
  /\ counters' = [counters EXCEPT !.pauses = @ + 1]
  /\ UNCHANGED <<mailbox, workerVars, fences, reports, shown>>

\* The connectors are read, and configured, at once or (when that fails) by a retry.
Activate ==
  /\ ~Now.active /\ Serving
  /\ Ask([Now EXCEPT !.generation = @ + 1, !.configuration = Now.generation + 1,
                     !.active = TRUE])
  /\ output' = [output EXCEPT !.generation = Now.generation + 1]
  /\ UNCHANGED <<mailbox, workerVars, fences, kernel, reports, shown, counters>>

\* close_device: the device is given up, and its events are read no more.
Stop ==
  /\ Serving
  /\ Ask([Now EXCEPT !.stopped = TRUE, !.active = FALSE])
  /\ UNCHANGED <<mailbox, output, workerVars, fences, kernel, reports, shown, counters>>

ReplacedDropped(frame) == mailbox.replaced
Replaced(frame) == mailbox.replaced \cup Only(mailbox.scene)

\* A scene is rendered into a free buffer.  One that is refused ends the device.
SubmitScene ==
  /\ Rendering /\ counters.scenes < MaxScenes
  /\ LET frame == Frame(counters.scenes + 1)
     IN /\ counters' = [counters EXCEPT !.scenes = @ + 1]
        /\ IF Admitted(frame)
           THEN /\ mailbox' = [scene |-> frame, replaced |-> Replaced(frame)]
                /\ output' = [output EXCEPT !.pending = frame.seq]
                /\ fences' = fences \cup {frame.seq}
                /\ Ask(Now)
           ELSE /\ Ask([Now EXCEPT !.stopped = TRUE, !.active = FALSE])
                /\ UNCHANGED <<mailbox, output, fences>>
  /\ UNCHANGED <<workerVars, kernel, reports, shown>>

(***************************************************************************)
(* Events of the worker, in the order they were sent.  A presentation that *)
(* is accepted is what the lock's barrier is told of.                      *)
(***************************************************************************)
Handle ==
  /\ reports # <<>> /\ reports' = Tail(reports)
  /\ LET e == Head(reports)
     IN /\ output' =
             CASE e.kind = "configured" /\ Now.active /\ Serving
                    /\ e.key = output.key /\ e.generation = output.generation ->
                    [output EXCEPT !.pool = e.key]
               [] Accepts(e) ->
                    [output EXCEPT !.last = e.seq, !.pending = IF @ = e.seq THEN 0 ELSE @]
               [] e.kind = "discarded" /\ Serving
                    /\ (\E f \in e.frames : f.key = output.pool /\ f.seq = output.pending) ->
                    [output EXCEPT !.pending = 0]
               [] OTHER -> output
        /\ shown' = IF Accepts(e) THEN <<e.key, e.tag>> ELSE shown
  /\ UNCHANGED <<control, mailbox, workerVars, fences, kernel, counters>>

-----------------------------------------------------------------------------
(***************************************************************************)
(* The worker.  A turn follows every wakeup: a ping, a page flip, or the   *)
(* timeout, which is short while scenes wait for their fences.             *)
(***************************************************************************)
Held == presenter.held
Goto(pc) == presenter' = [presenter EXCEPT !.pc = pc]
Discarded(set) ==
  LET frames == {f \in set : ~f.submitted}
  IN IF frames = {} THEN <<>> ELSE <<[kind |-> "discarded", frames |-> frames]>>

Permits == Now.active /\ Serving /\ Now.generation = Held.generation /\ Now.tag = Held.tag

Invalidated(c) == [c EXCEPT !.dirty = TRUE, !.force = TRUE, !.opportunity = FALSE]

\* The output after apply_security: it shows nothing of what it had.
SecuredLazily(c) == [c EXCEPT !.scene = None, !.desired = None]
Secured(c) == Invalidated([c EXCEPT !.scene = None, !.desired = None])

\* A scene is wanted when nothing has changed since it was accepted.
WantedOfAnyState(frame, c) ==
  /\ frame # None /\ c # None
  /\ Now.active /\ Serving /\ Now.configuration = presenter.configured
  /\ frame.key = c.key /\ ~c.failed
  /\ c.desired = None /\ (c.scene # None => c.scene.seq < frame.seq)
Wanted(frame, c) ==
  /\ frame # None /\ c # None
  /\ Now.active /\ Serving /\ Now.configuration = presenter.configured /\ frame.tag = Now.tag
  /\ frame.key = c.key /\ ~c.failed
  /\ LET latest == IF c.desired # None THEN c.desired ELSE c.scene
     IN latest = None \/ latest.seq < frame.seq

Timeout == retired # {} \/ (crtc # None /\ (crtc.desired # None
                                             \/ (crtc.opportunity /\ ~crtc.failed /\ ~crtc.pending)))
Changing == ~Now.active \/ ~Serving \/ presenter.configured # Now.configuration

\* turn: take, apply_security, the scenes, and reconcile up to the fences.
Take ==
  /\ presenter.pc = "turn" \/ (presenter.pc = "idle" /\ (control.pinged \/ Timeout))
  /\ LET frame == mailbox.scene
         secure == crtc # None /\ presenter.tag # Now.tag
         secured == IF secure THEN Secured(crtc) ELSE crtc
         wanted == Wanted(frame, secured)
         latest == IF wanted THEN [secured EXCEPT !.desired = frame] ELSE secured
         drained == Changing /\ crtc # None
         canceled == IF drained THEN {[f EXCEPT !.submitted = FALSE] :
                                        f \in Only(latest.scene) \cup Only(latest.desired)}
                                ELSE {}
         out == mailbox.replaced \cup canceled
                  \cup (IF secure THEN Scenes ELSE {})
                  \cup (IF wanted THEN Only(secured.desired) ELSE Only(frame))
         left == {f \in retired \cup out : f.seq \in fences}
     IN /\ presenter' = [presenter EXCEPT !.held = Now, !.tag = Now.tag,
                                          !.pc = IF ~Changing THEN "render"
                                                 ELSE IF left # {} THEN "idle" ELSE "check"]
        /\ crtc' = IF drained THEN None ELSE latest
        /\ kernel' = IF drained /\ Now.active /\ Serving
                     THEN [kernel EXCEPT !.queued = None, !.screen = Blank] ELSE kernel
        /\ retired' = left
        /\ reports' = reports \o Discarded(out)
  /\ control' = [control EXCEPT !.pinged = FALSE]
  /\ mailbox' = [scene |-> None, replaced |-> {}]
  /\ UNCHANGED <<output, fences, shown, counters>>

\* An operation that is obsolete after the fences were waited for is not acknowledged.
Check ==
  /\ presenter.pc = "check"
  /\ LET same == /\ Now.generation = Held.generation /\ Now.stopped = Held.stopped
                 /\ Now.tag = Held.tag
         pausing == same /\ Serving /\ ~Held.active
     IN Goto(IF ~same \/ pausing THEN "idle" ELSE IF Held.stopped THEN "done" ELSE "configure")
  /\ UNCHANGED <<loopVars, crtc, retired, fences, kernel, reports, shown, counters>>

ConfigureOutput ==
  /\ presenter.pc = "configure"
  /\ \/ ~Permits /\ Goto("idle") /\ UNCHANGED <<crtc, counters>>
     \/ /\ Permits /\ Held.key # NoKey /\ Goto("publish")
        /\ crtc' = [key |-> Held.key, surface |-> counters.surfaces + 1, scene |-> None,
                    desired |-> None, pending |-> FALSE, dirty |-> TRUE, failed |-> FALSE,
                    force |-> FALSE, opportunity |-> FALSE, modeset |-> TRUE,
                    untimedRetry |-> TRUE]
        /\ counters' = [counters EXCEPT !.surfaces = @ + 1]
     \/ /\ Permits /\ Goto("publish") /\ UNCHANGED crtc
        /\ \/ Held.key = NoKey /\ UNCHANGED counters
           \/ /\ Held.key # NoKey /\ counters.faults < MaxFaults
              /\ counters' = [counters EXCEPT !.faults = @ + 1]
  /\ UNCHANGED <<loopVars, retired, fences, kernel, reports, shown>>

Publish ==
  /\ presenter.pc = "publish"
  /\ IF Permits
     THEN /\ presenter' = [presenter EXCEPT !.configured = Held.configuration, !.pc = "render"]
          /\ reports' = reports \o (IF crtc = None THEN <<>> ELSE
               <<[kind |-> "configured", key |-> crtc.key, generation |-> Held.generation]>>)
     ELSE Goto("idle") /\ UNCHANGED reports
  /\ UNCHANGED <<loopVars, crtc, retired, fences, kernel, shown, counters>>

Render ==
  /\ presenter.pc = "render"
  /\ IF crtc = None \/ crtc.failed \/ crtc.pending
     THEN Goto("idle") /\ UNCHANGED <<crtc, retired, reports>>
     ELSE LET ready == crtc.desired # None /\ crtc.desired.seq \notin fences
              next == IF ready THEN [crtc EXCEPT !.scene = crtc.desired, !.desired = None,
                                                 !.dirty = TRUE]
                      ELSE crtc
              old == IF ready THEN Only(crtc.scene) ELSE {}
          IN /\ crtc' = [next EXCEPT !.opportunity = @ /\ next.dirty]
             /\ retired' = retired \cup old
             /\ reports' = reports \o Discarded(old)
             /\ Goto(IF next.dirty /\ Permits THEN "submit" ELSE "idle")
  /\ UNCHANGED <<loopVars, fences, kernel, shown, counters>>

\* render_frame and what precedes the commit: the scene is read until a fence.
Submit ==
  /\ presenter.pc = "submit"
  /\ fences' = fences \cup {f.seq : f \in Only(crtc.scene)}
  /\ \/ Goto(IF Permits THEN "queue" ELSE "idle") /\ UNCHANGED <<crtc, counters>>
     \/ /\ counters.faults < MaxFaults /\ Goto("idle")
        /\ crtc' = [crtc EXCEPT !.failed = TRUE]
        /\ counters' = [counters EXCEPT !.faults = @ + 1]
  /\ UNCHANGED <<loopVars, retired, kernel, reports, shown>>

\* commit_frame, or queue_frame: what was permitted a moment ago.
Queue ==
  /\ presenter.pc = "queue" /\ Goto("idle")
  /\ LET content == IF crtc.scene = None THEN Blank ELSE crtc.scene.tag
         seq == IF crtc.scene = None THEN 0 ELSE crtc.scene.seq
     IN IF crtc.modeset
        THEN /\ crtc' = [Invalidated(crtc) EXCEPT !.modeset = FALSE, !.opportunity = TRUE]
             /\ kernel' = IF Now.active THEN [kernel EXCEPT !.screen = content] ELSE kernel
        ELSE /\ crtc' = [crtc EXCEPT !.pending = TRUE, !.dirty = FALSE, !.force = FALSE,
                                     !.opportunity = FALSE,
                                     !.scene = IF @ = None THEN @ ELSE [@ EXCEPT !.submitted = TRUE]]
             /\ kernel' = IF Now.active
                          THEN [kernel EXCEPT !.queued = [tag |-> Held.tag, content |-> content,
                                                          seq |-> seq, surface |-> crtc.surface]]
                          ELSE kernel
  /\ UNCHANGED <<loopVars, retired, fences, reports, shown, counters>>

Current(frame) ==
  /\ Now.active /\ Serving
  /\ frame.tag = Now.tag /\ Now.configuration = presenter.configured

\* A page flip is read.  One that is older than the surface is ignored, the
\* first of a surface may carry no time and is repeated.
Vblank ==
  /\ presenter.pc \in {"idle", "turn"} /\ Goto("turn")
  /\ \E f \in kernel.flips :
       /\ kernel' = [kernel EXCEPT !.flips = @ \ {f}]
       /\ IF crtc = None \/ crtc.surface # f.surface \/ ~crtc.pending
          THEN UNCHANGED <<crtc, reports>>
          ELSE \/ /\ crtc' = [crtc EXCEPT !.pending = FALSE, !.untimedRetry = FALSE]
                  /\ reports' = IF Current(f)
                                THEN Append(reports, [kind |-> "presented", key |-> crtc.key,
                                                      tag |-> f.tag, seq |-> f.seq])
                                ELSE reports
               \/ /\ crtc.untimedRetry
                  /\ crtc' = [Invalidated(crtc) EXCEPT !.pending = FALSE, !.untimedRetry = FALSE]
                  /\ UNCHANGED reports
  /\ UNCHANGED <<loopVars, retired, fences, shown, counters>>

-----------------------------------------------------------------------------
Flip ==
  /\ kernel.queued # None
  /\ kernel' = [queued |-> None, flips |-> kernel.flips \cup {kernel.queued},
                screen |-> kernel.queued.content]
  /\ UNCHANGED <<loopVars, workerVars, fences, reports, shown, counters>>

FenceReached(seq) ==
  /\ seq \in fences /\ fences' = fences \ {seq}
  /\ UNCHANGED <<loopVars, workerVars, kernel, reports, shown, counters>>

Loop == Configure \/ SetSecurity \/ Pause \/ Activate \/ Stop \/ SubmitScene
Turn == Take \/ Check \/ ConfigureOutput \/ Publish \/ Render \/ Submit \/ Queue
Next == Loop \/ Handle \/ Turn \/ Vblank \/ Flip \/ \E seq \in 1..MaxScenes : FenceReached(seq)

\* Both threads run, the kernel flips what is queued, the GPU ends its work; a
\* dispatch reads every event that is ready, so that no turn starves a page flip.
Fairness ==
  /\ WF_presenterVars(Handle) /\ WF_presenterVars(Turn)
  /\ SF_presenterVars(Vblank) /\ WF_presenterVars(Flip)
  /\ \A seq \in 1..MaxScenes : WF_presenterVars(FenceReached(seq))
Spec == Init /\ [][Next]_presenterVars /\ Fairness

-----------------------------------------------------------------------------
(***************************************************************************)
(* Properties.                                                             *)
(***************************************************************************)
\* A configured output ends in showing the security state in force, unless it
\* fails, however the changes fell between the steps of the worker.
Settled == Now.active /\ Serving /\ output.key = Now.key /\ Now.key # NoKey /\ counters.faults = 0
SecurityShown == <>[]Settled => <>[](shown = <<Now.key, Now.tag>>)
=============================================================================

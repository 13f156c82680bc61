--------------------------- MODULE Presenter_proofs ---------------------------
(***************************************************************************)
(* Proofs about the presenter, for any pool and any numbers of scenes,     *)
(* configurations, security states, pauses and faults.                     *)
(*                                                                         *)
(* PresentationTruthful rests on one order (Ordered): of the tags on the   *)
(* way from the worker over the kernel to the event loop none overtakes    *)
(* another, and the screen is never behind what was reported of it.        *)
(* LeasesKept rests on what a turn that configures knows (Preparing): it   *)
(* has given every scene back before, and the mailbox stays empty until    *)
(* the new pool is announced (Pooled).                                     *)
(***************************************************************************)
EXTENDS Presenter, FiniteSetTheorems, TLAPS

Configured == [kind : {"configured"}, key : Keys, generation : Nat]
Presented == [kind : {"presented"}, key : Keys, tag : Tags, seq : 0..MaxScenes]
Discards == [kind : {"discarded"}, frames : SUBSET Frames]

LoopOK ==
  /\ control \in [now : Controls, pinged : BOOLEAN]
  /\ mailbox \in [scene : Frames \cup {None}, replaced : SUBSET Frames]
  /\ output \in [key : Keys \cup {NoKey}, generation : Nat, pool : Keys \cup {NoKey},
                 pending : 0..MaxScenes, last : 0..MaxScenes]
  /\ counters \in [scenes : 0..MaxScenes, pauses : Nat, faults : Nat, surfaces : Nat]
WorkerOK ==
  /\ presenter \in [pc : {"idle", "turn", "check", "configure", "publish", "render",
                          "submit", "queue", "done"},
                    held : Controls, configured : Nat, tag : Tags]
  /\ crtc \in Crtcs \cup {None}
  /\ retired \in SUBSET Frames
  /\ presenter.pc \in {"submit", "queue"} => crtc # None
KernelOK ==
  /\ fences \in SUBSET (1..MaxScenes)
  /\ kernel \in [queued : Queued \cup {None}, flips : SUBSET Queued, screen : Tags \cup {Blank}]
EventsOK == reports \in Seq(Configured \cup Presented \cup Discards)
Types == LoopOK /\ WorkerOK /\ KernelOK /\ EventsOK

\* The tag of a page flip, read or not yet read, is one the worker has had; what
\* is queued is not older, and what the screen shows is not older either.
Seen(t) ==
  /\ t =< presenter.tag
  /\ kernel.queued # None => t =< kernel.queued.tag
  /\ kernel.screen = Blank \/ t =< kernel.screen

Ordered ==
  /\ presenter.held.tag = presenter.tag /\ presenter.tag =< Now.tag
  /\ \A f \in Scenes : f.tag = presenter.tag
  /\ kernel.screen = Blank \/ kernel.screen =< presenter.tag
  /\ kernel.queued # None =>
       /\ kernel.queued.tag =< presenter.tag
       /\ kernel.queued.content \in {Blank, kernel.queued.tag}
  /\ \A f \in kernel.flips : Seen(f.tag)
  /\ \A i \in 1..Len(reports) : reports[i].kind = "presented" => Seen(reports[i].tag)

-----------------------------------------------------------------------------
\* The generations, and what the worker holds of the current one.
Numbered ==
  /\ output.generation = Now.generation
  /\ Held.generation =< Now.generation
  /\ Held.generation = Now.generation =>
       /\ Held.key = Now.key /\ Held.configuration = Now.configuration
       /\ Serving => Held.active = Now.active
  /\ \A i \in 1..Len(reports) :
       reports[i].kind = "configured" => reports[i].generation =< Now.generation
  /\ (~Now.active /\ Serving) => output.pool = NoKey
  /\ output.pool \in {NoKey, output.key}

\* The mailbox holds a scene when it holds a replaced one, which is older.
Queueing ==
  /\ IsFiniteSet(mailbox.replaced) /\ IsFiniteSet(retired)
  /\ \A f \in mailbox.replaced \cup Only(mailbox.scene) : f.seq =< counters.scenes
  /\ \A f \in mailbox.replaced :
       mailbox.scene # None /\ f.seq < mailbox.scene.seq

Empty == mailbox.scene = None /\ mailbox.replaced = {}

\* A turn that changes the configuration has given all its scenes back, and
\* while it holds the current control no scene is submitted.
Preparing ==
  /\ presenter.pc \in {"check", "configure", "publish"} => retired = {} /\ Scenes = {}
  /\ presenter.pc \in {"check", "configure"} => crtc = None
  /\ presenter.pc = "publish" /\ crtc # None => crtc.key = Held.key
  /\ presenter.pc \in {"configure", "publish"} => Held.active /\ ~Held.stopped
  /\ presenter.pc \in {"check", "configure", "publish"} /\ Held.generation = Now.generation
       /\ Held.active /\ ~Held.stopped =>
       Empty /\ presenter.configured # Held.configuration

\* A pool in use, or announced, is that of the configuration the worker has done.
Offered ==
  \E i \in 1..Len(reports) :
    /\ reports[i].kind = "configured"
    /\ reports[i].key = output.key /\ reports[i].generation = output.generation
Pooled ==
  Offered \/ output.pool # NoKey =>
    /\ presenter.configured = Now.configuration
    /\ output.key = Now.key
    /\ \A f \in Leases : f.key = output.key

Fenced == fences \subseteq {f.seq : f \in Leases}

Owned == Numbered /\ Queueing /\ Preparing /\ Pooled /\ Fenced

-----------------------------------------------------------------------------
(* The data. *)

LEMMA FrameIsSome ==
  ASSUME NEW f \in Frames
  PROVE  f # None
BY DEF Frames, None

LEMMA CrtcIsSome ==
  ASSUME NEW c \in Crtcs
  PROVE  c # None
BY DEF Crtcs, None

LEMMA Constants ==
  /\ MaxTag \in Nat \ {0} /\ MaxKey \in Nat /\ MaxScenes \in Nat
  /\ Slots \in Nat /\ Slots > 1
BY PoolAssumption, PresenterAssumption DEF PoolAssumption, PresenterAssumption

LEMMA TypesInit == Init => Types
<1> SUFFICES ASSUME Init PROVE Types
  OBVIOUS
<1>1. [generation |-> 0, configuration |-> 0, key |-> NoKey, active |-> TRUE,
       stopped |-> FALSE, tag |-> 1] \in Controls
  BY Constants DEF Controls, Keys, Tags, NoKey
<1> QED BY <1>1, Constants DEF Init, Types, LoopOK, WorkerOK, KernelOK, EventsOK, Keys, Tags, NoKey, Blank

LEMMA ControlEdits ==
  ASSUME NEW c \in Controls, NEW g \in Nat
  PROVE  /\ \A k \in Keys \cup {NoKey} :
              [c EXCEPT !.generation = g, !.configuration = g, !.key = k] \in Controls
         /\ \A t \in Tags : [c EXCEPT !.tag = t] \in Controls
         /\ [c EXCEPT !.generation = g, !.active = FALSE] \in Controls
         /\ [c EXCEPT !.generation = g, !.configuration = g, !.active = TRUE] \in Controls
         /\ [c EXCEPT !.stopped = TRUE, !.active = FALSE] \in Controls
BY DEF Controls

LEMMA LoopTypes ==
  ASSUME Types, Loop
  PROVE  Types'
<1> USE Constants
<1>1. Now \in Controls /\ Now.generation + 1 \in Nat
  BY DEF Types, LoopOK, Now, Controls
<1>2. control' \in [now : Controls, pinged : BOOLEAN]
  <2>1. Configure \/ Pause => output.key + 1 \in Keys
    BY DEF Configure, Pause, Types, LoopOK, Keys, NoKey
  <2>2. SetSecurity => Now.tag + 1 \in Tags
    BY <1>1 DEF SetSecurity, Controls, Tags
  <2>3. ASSUME NEW new \in Controls, Ask(new) PROVE control' \in [now : Controls, pinged : BOOLEAN]
    BY <2>3 DEF Ask
  <2>4. CASE Configure
    <3>1. [Now EXCEPT !.generation = Now.generation + 1, !.configuration = Now.generation + 1,
                      !.key = output.key + 1] \in Controls
      BY <2>1, <2>4, <1>1, ControlEdits
    <3> QED BY <2>3, <2>4, <3>1 DEF Configure
  <2>5. CASE SetSecurity
    BY <2>2, <2>3, <2>5, <1>1, ControlEdits DEF SetSecurity
  <2>6. CASE Pause
    <3>1. [Now EXCEPT !.generation = Now.generation + 1, !.active = FALSE] \in Controls
      BY <1>1, ControlEdits
    <3> QED BY <2>3, <2>6, <3>1 DEF Pause
  <2>7. CASE Activate
    <3>1. [Now EXCEPT !.generation = Now.generation + 1, !.configuration = Now.generation + 1,
                      !.active = TRUE] \in Controls
      BY <1>1, ControlEdits
    <3> QED BY <2>3, <2>7, <3>1 DEF Activate
  <2>8. [Now EXCEPT !.stopped = TRUE, !.active = FALSE] \in Controls
    BY <1>1, ControlEdits
  <2>9. CASE Stop
    BY <2>3, <2>8, <2>9 DEF Stop
  <2>10. CASE SubmitScene
    BY <2>3, <2>8, <2>10, <1>1 DEF SubmitScene
  <2> QED BY <2>4, <2>5, <2>6, <2>7, <2>9, <2>10 DEF Loop
<1>3. /\ output' \in [key : Keys \cup {NoKey}, generation : Nat, pool : Keys \cup {NoKey},
                      pending : 0..MaxScenes, last : 0..MaxScenes]
      /\ counters' \in [scenes : 0..MaxScenes, pauses : Nat, faults : Nat, surfaces : Nat]
  <2>1. CASE Configure \/ Pause
    BY <2>1, <1>1 DEF Configure, Pause, Types, LoopOK, Keys, NoKey
  <2>2. CASE SetSecurity
    <3>1. 0 \in 0..MaxScenes
      OBVIOUS
    <3>2. output' = [output EXCEPT !.pending = 0, !.last = 0] /\ UNCHANGED counters
      BY <2>2 DEF SetSecurity
    <3> QED BY <3>1, <3>2 DEF Types, LoopOK
  <2>5. CASE Stop
    BY <2>5 DEF Stop, Types, LoopOK
  <2>4. CASE Activate
    BY <2>4, <1>1 DEF Activate, Types, LoopOK
  <2>3. CASE SubmitScene
    BY <2>3 DEF SubmitScene, Frame, Types, LoopOK
  <2> QED BY <2>1, <2>2, <2>3, <2>4, <2>5 DEF Loop
<1>4. mailbox' \in [scene : Frames \cup {None}, replaced : SUBSET Frames]
  <2>1. CASE SubmitScene
    <3>1. Frame(counters.scenes + 1) \in Frames
      BY <2>1, <1>1 DEF SubmitScene, Rendering, Frame, Frames, Controls, Types, LoopOK
    <3>2. Only(mailbox.scene) \subseteq Frames
      BY DEF Only, Types, LoopOK
    <3> QED BY <2>1, <3>1, <3>2 DEF SubmitScene, Replaced, Types, LoopOK
  <2>2. CASE Configure \/ SetSecurity \/ Pause \/ Activate \/ Stop
    BY <2>2 DEF Configure, SetSecurity, Pause, Activate, Stop, Types, LoopOK
  <2> QED BY <2>1, <2>2 DEF Loop
<1>5. KernelOK'
  <2>1. CASE SubmitScene
    BY <2>1 DEF SubmitScene, Frame, Types, LoopOK, KernelOK
  <2>2. CASE Configure \/ SetSecurity \/ Pause \/ Activate \/ Stop
    BY <2>2 DEF Configure, SetSecurity, Pause, Activate, Stop, Types, KernelOK, Blank
  <2> QED BY <2>1, <2>2 DEF Loop
<1>6. UNCHANGED <<workerVars, reports>>
  BY DEF Loop, Configure, SetSecurity, Pause, Activate, Stop, SubmitScene
<1>7. WorkerOK' /\ EventsOK'
  BY <1>6 DEF workerVars, Types, WorkerOK, EventsOK
<1> QED BY <1>2, <1>3, <1>4, <1>5, <1>7 DEF Types, LoopOK

LEMMA HandleTypes ==
  ASSUME Types, Handle
  PROVE  Types'
<1>1. Head(reports) \in Configured \cup Presented \cup Discards
      /\ reports' \in Seq(Configured \cup Presented \cup Discards)
  BY DEF Handle, Types, EventsOK
<1>2. output' \in [key : Keys \cup {NoKey}, generation : Nat, pool : Keys \cup {NoKey},
                   pending : 0..MaxScenes, last : 0..MaxScenes]
  <2> DEFINE e == Head(reports)
  <2>1. 0 \in 0..MaxScenes
    BY Constants
  <2>2. CASE e.kind = "configured"
    <3>1. e.key \in Keys
      BY <1>1, <2>2 DEF Configured, Presented, Discards
    <3>2. output' \in {output, [output EXCEPT !.pool = e.key]}
      BY <2>2 DEF Handle, Accepts
    <3> QED BY <3>1, <3>2 DEF Types, LoopOK
  <2>3. CASE e.kind = "presented"
    <3>1. e.seq \in 0..MaxScenes
      BY <1>1, <2>3 DEF Configured, Presented, Discards
    <3>2. output' \in {output, [output EXCEPT !.last = e.seq,
                                              !.pending = IF @ = e.seq THEN 0 ELSE @]}
      BY <2>3 DEF Handle
    <3> QED BY <3>1, <3>2, <2>1 DEF Types, LoopOK
  <2>4. CASE e.kind = "discarded"
    <3>1. output' \in {output, [output EXCEPT !.pending = 0]}
      BY <2>4 DEF Handle, Accepts
    <3> QED BY <3>1, <2>1 DEF Types, LoopOK
  <2> QED BY <1>1, <2>2, <2>3, <2>4 DEF Configured, Presented, Discards
<1>3. UNCHANGED <<control, mailbox, workerVars, fences, kernel, counters>>
  BY DEF Handle
<1> QED BY <1>1, <1>2, <1>3 DEF Types, LoopOK, WorkerOK, KernelOK, EventsOK, workerVars

LEMMA InvalidatedType ==
  ASSUME NEW c \in Crtcs
  PROVE  Invalidated(c) \in Crtcs /\ Invalidated(c).scene = c.scene
         /\ Invalidated(c).desired = c.desired /\ Invalidated(c).key = c.key
BY DEF Invalidated, Crtcs

LEMMA SecuredType ==
  ASSUME NEW c \in Crtcs
  PROVE  Secured(c) \in Crtcs /\ Secured(c).scene = None /\ Secured(c).desired = None
<1>1. [c EXCEPT !.scene = None, !.desired = None] \in Crtcs
  BY DEF Crtcs
<1>2. [c EXCEPT !.scene = None, !.desired = None].scene = None
      /\ [c EXCEPT !.scene = None, !.desired = None].desired = None
  BY DEF Crtcs
<1> QED BY <1>1, <1>2, InvalidatedType DEF Secured

LEMMA CrtcParts ==
  ASSUME NEW c \in Crtcs
  PROVE  Only(c.scene) \subseteq Frames /\ Only(c.desired) \subseteq Frames
BY DEF Crtcs, Only

LEMMA DiscardedType ==
  ASSUME NEW set \in SUBSET Frames
  PROVE  Discarded(set) \in Seq(Discards)
<1> DEFINE frames == {f \in set : ~f.submitted}
<1>1. [kind |-> "discarded", frames |-> frames] \in Discards
  BY DEF Discards
<1>2. <<[kind |-> "discarded", frames |-> frames]>> \in Seq(Discards) /\ <<>> \in Seq(Discards)
  BY <1>1
<1> QED BY <1>2 DEF Discarded

\* What a turn begins with: the scenes it gives back (out) and those it keeps.
LEMMA TakeEffect ==
  ASSUME Types, Take
  PROVE  \E out \in SUBSET Frames :
           /\ retired' = {f \in retired \cup out : f.seq \in fences}
           /\ IsFiniteSet(mailbox.replaced) => IsFiniteSet(out)
           /\ reports' = reports \o Discarded(out)
           /\ presenter' = [presenter EXCEPT !.held = Now, !.tag = Now.tag,
                           !.pc = IF ~Changing THEN "render"
                                  ELSE IF retired' # {} THEN "idle" ELSE "check"]
           /\ crtc' \in Crtcs \cup {None} /\ (Changing => crtc' = None)
           /\ kernel' \in {kernel, [kernel EXCEPT !.queued = None, !.screen = Blank]}
           /\ (\A f \in Scenes : f.tag = presenter.tag) => (\A f \in Scenes' : f.tag = Now.tag)
           /\ Scenes' \subseteq Leases
           /\ \A f \in out : \E g \in Leases : g.key = f.key /\ g.seq = f.seq
           /\ \A g \in Leases : \/ g \in retired \/ g \in Scenes'
                                \/ \E f \in out : f.seq = g.seq
           /\ mailbox' = [scene |-> None, replaced |-> {}]
           /\ control' = [control EXCEPT !.pinged = FALSE]
           /\ UNCHANGED <<output, fences, shown, counters>>
<1> DEFINE frame == mailbox.scene
           secure == crtc # None /\ presenter.tag # Now.tag
           secured == IF secure THEN Secured(crtc) ELSE crtc
           wanted == Wanted(frame, secured)
           latest == IF wanted THEN [secured EXCEPT !.desired = frame] ELSE secured
           drained == Changing /\ crtc # None
           canceled == IF drained THEN {[f EXCEPT !.submitted = FALSE] :
                                          f \in Only(latest.scene) \cup Only(latest.desired)}
                                  ELSE {}
           out == mailbox.replaced \cup canceled
                    \cup (IF secure THEN Scenes ELSE {})
                    \cup (IF wanted THEN Only(secured.desired) ELSE Only(frame))
<1>1. crtc # None => crtc \in Crtcs /\ secured \in Crtcs
  BY SecuredType DEF Types, WorkerOK
<1>2. crtc = None => secured = None /\ latest = None /\ ~wanted
  BY DEF Wanted
<1>3. wanted => frame \in Frames /\ frame.tag = Now.tag
  BY DEF Wanted, Types, LoopOK
<1>4. crtc # None => latest \in Crtcs
  BY <1>1, <1>3 DEF Crtcs
<1>5. crtc # None => /\ latest.scene = secured.scene
                     /\ latest.desired = IF wanted THEN frame ELSE secured.desired
  BY <1>1, <1>3 DEF Crtcs
<1>6. Only(frame) \subseteq Frames /\ mailbox.replaced \subseteq Frames
  BY DEF Only, Types, LoopOK
<1>7. Scenes \subseteq Frames
  BY <1>1, CrtcParts DEF Scenes
<1>8. canceled \subseteq Frames
  <2> SUFFICES ASSUME drained, NEW f \in Only(latest.scene) \cup Only(latest.desired)
               PROVE  [f EXCEPT !.submitted = FALSE] \in Frames
    OBVIOUS
  <2>1. f \in Frames
    BY <1>4, CrtcParts
  <2> QED BY <2>1 DEF Frames
<1>9. out \in SUBSET Frames
  BY <1>1, <1>2, <1>6, <1>7, <1>8, CrtcParts
<1>10. crtc' = IF drained THEN None ELSE latest
  BY DEF Take
<1>11. /\ retired' = {f \in retired \cup out : f.seq \in fences}
       /\ reports' = reports \o Discarded(out)
       /\ presenter' = [presenter EXCEPT !.held = Now, !.tag = Now.tag,
                       !.pc = IF ~Changing THEN "render"
                              ELSE IF retired' # {} THEN "idle" ELSE "check"]
       /\ kernel' \in {kernel, [kernel EXCEPT !.queued = None, !.screen = Blank]}
       /\ mailbox' = [scene |-> None, replaced |-> {}]
       /\ control' = [control EXCEPT !.pinged = FALSE]
       /\ UNCHANGED <<output, fences, shown, counters>>
  BY DEF Take
<1>12. crtc' \in Crtcs \cup {None} /\ (Changing => crtc' = None)
  BY <1>2, <1>4, <1>10
<1>13. \A f \in Scenes' :
         /\ ~drained /\ crtc # None
         /\ \/ wanted /\ f = frame
            \/ ~secure /\ f \in Scenes
  <2> SUFFICES ASSUME NEW f \in Scenes'
               PROVE  /\ ~drained /\ crtc # None
                      /\ \/ wanted /\ f = frame
                         \/ ~secure /\ f \in Scenes
    OBVIOUS
  <2>1. crtc # None /\ ~drained /\ crtc' = latest
    BY <1>2, <1>10 DEF Scenes
  <2>2. f \in Only(latest.scene) \cup Only(latest.desired)
    BY <2>1 DEF Scenes
  <2>3. CASE secure
    BY <1>1, <1>5, <2>1, <2>2, <2>3, SecuredType DEF Only, Types, WorkerOK
  <2>4. CASE ~secure
    BY <1>5, <2>1, <2>2, <2>4 DEF Only, Scenes
  <2> QED BY <2>1, <2>3, <2>4
<1>14. (\A f \in Scenes : f.tag = presenter.tag) => (\A f \in Scenes' : f.tag = Now.tag)
  BY <1>3, <1>13
<1>15. frame # None => frame \in Leases
  BY DEF Leases, Only
<1>16. Scenes' \subseteq Leases
  BY <1>3, <1>13, <1>15, FrameIsSome DEF Leases
<1>17. \A f \in Only(latest.scene) \cup Only(latest.desired) :
         crtc # None => f \in Leases
  <2> SUFFICES ASSUME crtc # None, NEW f \in Only(latest.scene) \cup Only(latest.desired)
               PROVE  f \in Leases
    OBVIOUS
  <2>1. CASE secure
    BY <1>1, <1>5, <1>15, <2>1, SecuredType DEF Only, Types, WorkerOK
  <2>2. CASE ~secure
    BY <1>5, <1>15, <2>2 DEF Only, Scenes, Leases
  <2> QED BY <2>1, <2>2
<1>18. \A f \in out : \E g \in Leases : g.key = f.key /\ g.seq = f.seq
  <2> SUFFICES ASSUME NEW f \in out PROVE \E g \in Leases : g.key = f.key /\ g.seq = f.seq
    OBVIOUS
  <2>1. CASE f \in canceled
    <3>1. PICK g \in Only(latest.scene) \cup Only(latest.desired) :
            f = [g EXCEPT !.submitted = FALSE] /\ drained
      BY <2>1
    <3>2. g \in Frames /\ g \in Leases
      BY <1>4, <1>17, <3>1, CrtcParts
    <3>3. f.key = g.key /\ f.seq = g.seq
      BY <3>1, <3>2 DEF Frames
    <3> QED BY <3>2, <3>3
  <2>2. CASE f \in mailbox.replaced \/ (secure /\ f \in Scenes) \/ (~wanted /\ f \in Only(frame))
    BY <2>2, <1>15 DEF Leases, Only
  <2>3. CASE wanted /\ f \in Only(secured.desired)
    <3>1. ~secure
      BY <1>1, <1>2, <2>3, SecuredType DEF Only, Types, WorkerOK
    <3> QED BY <1>2, <2>3, <3>1 DEF Leases, Scenes, Only
  <2> QED BY <2>1, <2>2, <2>3
<1>19. \A g \in Leases : g \in retired \/ g \in Scenes' \/ \E f \in out : f.seq = g.seq
  <2> SUFFICES ASSUME NEW g \in Leases, g \notin retired
               PROVE  g \in Scenes' \/ \E f \in out : f.seq = g.seq
    OBVIOUS
  <2>1. g \in mailbox.replaced \/ g \in Only(frame) \/ g \in Scenes
    BY DEF Leases
  <2>2. ASSUME g \in Only(latest.scene) \cup Only(latest.desired), crtc # None
        PROVE  g \in Scenes' \/ \E f \in out : f.seq = g.seq
    <3>1. g \in Frames
      BY <1>4, <2>2, CrtcParts
    <3>2. CASE drained
      <4>1. [g EXCEPT !.submitted = FALSE] \in out /\ [g EXCEPT !.submitted = FALSE].seq = g.seq
        BY <2>2, <3>1, <3>2 DEF Frames
      <4> QED BY <4>1
    <3>3. CASE ~drained
      BY <1>4, <1>10, <2>2, <3>3, CrtcIsSome DEF Scenes
    <3> QED BY <3>2, <3>3
  <2>3. CASE g \in mailbox.replaced
    BY <2>3
  <2>4. CASE g \in Only(frame)
    BY <1>2, <1>5, <2>2, <2>4 DEF Only
  <2>5. CASE g \in Scenes
    <3>1. crtc # None /\ g \in Only(crtc.scene) \cup Only(crtc.desired)
      BY <2>5 DEF Scenes
    <3>2. CASE secure
      BY <2>5, <3>2
    <3>3. CASE ~secure
      BY <1>5, <2>2, <3>1, <3>3
    <3> QED BY <3>2, <3>3
  <2> QED BY <2>1, <2>3, <2>4, <2>5
<1>20. IsFiniteSet(mailbox.replaced) => IsFiniteSet(out)
  <2>1. ASSUME NEW x, NEW y, NEW S, S \subseteq {x, y} PROVE IsFiniteSet(S)
    <3>1. IsFiniteSet({x} \cup {y})
      BY FS_Singleton, FS_AddElement
    <3>2. {x} \cup {y} = {x, y}
      OBVIOUS
    <3> QED BY <2>1, <3>1, <3>2, FS_Subset
  <2>2. IsFiniteSet(canceled)
    <3>1. canceled \subseteq {[latest.scene EXCEPT !.submitted = FALSE],
                              [latest.desired EXCEPT !.submitted = FALSE]}
      BY DEF Only
    <3> QED BY <2>1, <3>1
  <2>3. IsFiniteSet(Scenes)
    <3>1. Scenes \subseteq {crtc.scene, crtc.desired}
      BY DEF Scenes, Only
    <3> QED BY <2>1, <3>1
  <2>4. IsFiniteSet(Only(secured.desired)) /\ IsFiniteSet(Only(frame)) /\ IsFiniteSet({})
    <3>1. Only(secured.desired) \subseteq {secured.desired, frame}
          /\ Only(frame) \subseteq {secured.desired, frame}
      BY DEF Only
    <3> QED BY <2>1, <3>1, FS_EmptySet
  <2>5. IsFiniteSet(IF secure THEN Scenes ELSE {})
        /\ IsFiniteSet(IF wanted THEN Only(secured.desired) ELSE Only(frame))
    BY <2>3, <2>4
  <2> QED BY <2>2, <2>5, FS_Union
<1> HIDE DEF out
<1> QED BY <1>9, <1>11, <1>12, <1>14, <1>16, <1>18, <1>19, <1>20

LEMMA AppendedDiscards ==
  ASSUME EventsOK, NEW set \in SUBSET Frames, reports' = reports \o Discarded(set)
  PROVE  EventsOK'
<1>1. Discarded(set) \in Seq(Configured \cup Presented \cup Discards)
  BY DiscardedType
<1> QED BY <1>1 DEF EventsOK

LEMMA GotoType ==
  ASSUME WorkerOK, NEW pc \in {"idle", "turn", "check", "configure", "publish", "render",
                               "submit", "queue", "done"}, Goto(pc)
  PROVE  /\ presenter' \in [pc : {"idle", "turn", "check", "configure", "publish", "render",
                                  "submit", "queue", "done"},
                            held : Controls, configured : Nat, tag : Tags]
         /\ presenter'.pc = pc /\ presenter'.held = presenter.held /\ presenter'.tag = presenter.tag
         /\ presenter'.configured = presenter.configured
BY DEF WorkerOK, Goto

LEMMA TakeTypes ==
  ASSUME Types, Take
  PROVE  Types'
<1>1. PICK out \in SUBSET Frames :
         /\ retired' = {f \in retired \cup out : f.seq \in fences}
         /\ reports' = reports \o Discarded(out)
         /\ presenter' = [presenter EXCEPT !.held = Now, !.tag = Now.tag,
                         !.pc = IF ~Changing THEN "render"
                                ELSE IF retired' # {} THEN "idle" ELSE "check"]
         /\ crtc' \in Crtcs \cup {None}
         /\ kernel' \in {kernel, [kernel EXCEPT !.queued = None, !.screen = Blank]}
         /\ mailbox' = [scene |-> None, replaced |-> {}]
         /\ control' = [control EXCEPT !.pinged = FALSE]
         /\ UNCHANGED <<output, fences, counters>>
  BY TakeEffect
<1>2. LoopOK'
  BY <1>1 DEF Types, LoopOK
<1>3. Now \in Controls /\ Now.tag \in Tags
  BY DEF Types, LoopOK, Now, Controls
<1>4. WorkerOK'
  BY <1>1, <1>3 DEF Types, WorkerOK
<1>5. KernelOK'
  BY <1>1 DEF Types, KernelOK
<1>6. EventsOK'
  BY <1>1, AppendedDiscards DEF Types
<1> QED BY <1>2, <1>4, <1>5, <1>6 DEF Types

LEMMA ConfigureTypes ==
  ASSUME Types, ConfigureOutput
  PROVE  Types'
<1>1. presenter' \in [pc : {"idle", "turn", "check", "configure", "publish", "render",
                            "submit", "queue", "done"},
                      held : Controls, configured : Nat, tag : Tags]
  BY GotoType DEF ConfigureOutput, Types
<1>2. Held.key \in Keys \cup {NoKey} /\ counters.surfaces + 1 \in Nat /\ counters.faults + 1 \in Nat
  BY DEF Types, LoopOK, WorkerOK, Controls, Held
<1>3. ASSUME NEW k \in Keys, NEW n \in Nat
      PROVE  [key |-> k, surface |-> n, scene |-> None,
              desired |-> None, pending |-> FALSE, dirty |-> TRUE, failed |-> FALSE,
              force |-> FALSE, opportunity |-> FALSE, modeset |-> TRUE,
              untimedRetry |-> TRUE] \in Crtcs
  BY DEF Crtcs
<1>4. crtc' \in Crtcs \cup {None}
  <2>1. CASE UNCHANGED crtc
    BY <2>1 DEF Types, WorkerOK
  <2>2. CASE /\ Held.key # NoKey
             /\ crtc' = [key |-> Held.key, surface |-> counters.surfaces + 1, scene |-> None,
                    desired |-> None, pending |-> FALSE, dirty |-> TRUE, failed |-> FALSE,
                    force |-> FALSE, opportunity |-> FALSE, modeset |-> TRUE,
                    untimedRetry |-> TRUE]
    BY <1>2, <1>3, <2>2
  <2> QED BY <2>1, <2>2 DEF ConfigureOutput
<1>5. counters' \in {counters, [counters EXCEPT !.surfaces = counters.surfaces + 1],
                     [counters EXCEPT !.faults = counters.faults + 1]}
  BY DEF ConfigureOutput
<1>6. LoopOK'
  BY <1>2, <1>5 DEF ConfigureOutput, loopVars, Types, LoopOK
<1>7. presenter'.pc \notin {"submit", "queue"}
  BY GotoType DEF ConfigureOutput, Types
<1> QED BY <1>1, <1>4, <1>6, <1>7
   DEF ConfigureOutput, Types, WorkerOK, KernelOK, EventsOK

LEMMA PublishTypes ==
  ASSUME Types, Check \/ Publish
  PROVE  Types'
<1>1. CASE Check
  <2>1. presenter' \in [pc : {"idle", "turn", "check", "configure", "publish", "render",
                              "submit", "queue", "done"},
                        held : Controls, configured : Nat, tag : Tags]
    BY <1>1, GotoType DEF Check, Types
  <2>2. presenter'.pc \notin {"submit", "queue"}
    BY <1>1, GotoType DEF Check, Types
  <2> QED BY <1>1, <2>1, <2>2 DEF Check, loopVars, Types, LoopOK, WorkerOK, KernelOK, EventsOK
<1>2. CASE Publish
  <2>1. Held \in Controls /\ Held.configuration \in Nat /\ Held.generation \in Nat
    BY DEF Types, WorkerOK, Held, Controls
  <2>2. presenter' \in [pc : {"idle", "turn", "check", "configure", "publish", "render",
                              "submit", "queue", "done"},
                        held : Controls, configured : Nat, tag : Tags]
    BY <1>2, <2>1, GotoType DEF Publish, Types, WorkerOK
  <2>3. crtc # None => [kind |-> "configured", key |-> crtc.key, generation |-> Held.generation]
                         \in Configured
    BY <2>1 DEF Types, WorkerOK, Crtcs, Configured
  <2>4. EventsOK'
    <3>1. reports' = reports \/ (crtc # None /\ reports' = reports \o
            <<[kind |-> "configured", key |-> crtc.key, generation |-> Held.generation]>>)
      BY <1>2 DEF Publish, Types, EventsOK
    <3>2. \A e \in Configured : reports \o <<e>> \in Seq(Configured \cup Presented \cup Discards)
      BY DEF Types, EventsOK
    <3> QED BY <2>3, <3>1, <3>2 DEF Types, EventsOK
  <2>5. presenter'.pc \notin {"submit", "queue"}
    BY <1>2, GotoType DEF Publish, Types, WorkerOK
  <2> QED BY <1>2, <2>2, <2>4, <2>5 DEF Publish, loopVars, Types, LoopOK, WorkerOK, KernelOK
<1> QED BY <1>1, <1>2

LEMMA RenderTypes ==
  ASSUME Types, Render
  PROVE  /\ Types'
         /\ crtc # None => crtc \in Crtcs /\ crtc' \in Crtcs
<1>1. UNCHANGED <<loopVars, fences, kernel, counters>>
  BY DEF Render
<1>2. presenter' \in [pc : {"idle", "turn", "check", "configure", "publish", "render",
                            "submit", "queue", "done"},
                      held : Controls, configured : Nat, tag : Tags]
  BY GotoType DEF Render, Types
<1>3. CASE crtc = None \/ crtc.failed \/ crtc.pending
  <2>1. presenter'.pc \notin {"submit", "queue"}
    BY <1>3, GotoType DEF Render, Types
  <2> QED BY <1>1, <1>2, <1>3, <2>1 DEF Render, loopVars, Types, LoopOK, WorkerOK, KernelOK, EventsOK
<1>4. CASE ~(crtc = None \/ crtc.failed \/ crtc.pending)
  <2> DEFINE ready == crtc.desired # None /\ crtc.desired.seq \notin fences
             next == IF ready THEN [crtc EXCEPT !.scene = crtc.desired, !.desired = None,
                                                !.dirty = TRUE]
                     ELSE crtc
             old == IF ready THEN Only(crtc.scene) ELSE {}
  <2>1. crtc \in Crtcs
    BY <1>4 DEF Types, WorkerOK
  <2>2. next \in Crtcs
    BY <2>1 DEF Crtcs
  <2>3. old \in SUBSET Frames
    BY <2>1, CrtcParts
  <2> HIDE DEF next, old
  <2>4. /\ crtc' = [next EXCEPT !.opportunity = @ /\ next.dirty]
        /\ retired' = retired \cup old
        /\ reports' = reports \o Discarded(old)
    BY <1>4 DEF Render, next, old
  <2>5. crtc' \in Crtcs
    <3>1. (next.opportunity /\ next.dirty) \in BOOLEAN
      OBVIOUS
    <3> DEFINE b == next.opportunity /\ next.dirty
    <3>2. crtc' = [next EXCEPT !.opportunity = b]
      BY <2>2, <2>4 DEF Crtcs
    <3> HIDE DEF b
    <3> QED BY <2>2, <3>1, <3>2 DEF Crtcs, b
  <2>6. EventsOK'
    BY <2>3, <2>4, AppendedDiscards DEF Types
  <2> QED BY <1>1, <1>2, <2>3, <2>4, <2>5, <2>6, CrtcIsSome DEF loopVars, Types, LoopOK, WorkerOK, KernelOK
<1> QED BY <1>3, <1>4

LEMMA SubmitTypes ==
  ASSUME Types, Submit
  PROVE  Types' /\ crtc \in Crtcs /\ crtc' \in Crtcs
<1>1. presenter' \in [pc : {"idle", "turn", "check", "configure", "publish", "render",
                            "submit", "queue", "done"},
                      held : Controls, configured : Nat, tag : Tags]
  BY GotoType DEF Submit, Types
<1>2. UNCHANGED <<loopVars, retired, kernel, reports>>
  BY DEF Submit
<1>3. crtc \in Crtcs
  BY DEF Submit, Types, WorkerOK
<1>4. crtc' \in Crtcs
  <2>1. \A c \in Crtcs : [c EXCEPT !.failed = TRUE] \in Crtcs
    BY DEF Crtcs
  <2> QED BY <1>3, <2>1 DEF Submit
<1>5. fences' \in SUBSET (1..MaxScenes)
  <2>1. \A f \in Only(crtc.scene) : f.seq \in 1..MaxScenes
    BY <1>3, CrtcParts DEF Frames
  <2> QED BY <2>1 DEF Submit, Types, KernelOK
<1>6. LoopOK'
  BY <1>2 DEF Submit, loopVars, Types, LoopOK
<1> QED BY <1>1, <1>2, <1>3, <1>4, <1>5, <1>6, CrtcIsSome DEF Types, WorkerOK, KernelOK, EventsOK

LEMMA QueueTypes ==
  ASSUME Types, Queue
  PROVE  Types' /\ crtc \in Crtcs /\ crtc' \in Crtcs
<1> DEFINE content == IF crtc.scene = None THEN Blank ELSE crtc.scene.tag
           seq == IF crtc.scene = None THEN 0 ELSE crtc.scene.seq
<1>1. presenter' \in [pc : {"idle", "turn", "check", "configure", "publish", "render",
                            "submit", "queue", "done"},
                      held : Controls, configured : Nat, tag : Tags]
  BY GotoType DEF Queue, Types
<1>0. crtc \in Crtcs
  BY DEF Queue, Types, WorkerOK
<1>2. content \in Tags \cup {Blank} /\ seq \in 0..MaxScenes
  BY <1>0, Constants DEF Crtcs, Frames
<1>3. Held.tag \in Tags /\ crtc.surface \in Nat
  BY <1>0 DEF Types, WorkerOK, Held, Controls, Crtcs
<1>4. crtc' \in Crtcs
  <2>1. CASE crtc.modeset
    <3>1. \A c \in Crtcs : [c EXCEPT !.modeset = FALSE, !.opportunity = TRUE] \in Crtcs
      BY DEF Crtcs
    <3> QED BY <1>0, <2>1, <3>1, InvalidatedType DEF Queue
  <2>2. CASE ~crtc.modeset
    <3> DEFINE scene == IF crtc.scene = None THEN crtc.scene
                        ELSE [crtc.scene EXCEPT !.submitted = TRUE]
    <3>1. scene \in Frames \cup {None}
      BY <1>0 DEF Crtcs, Frames
    <3>2. crtc' = [crtc EXCEPT !.pending = TRUE, !.dirty = FALSE, !.force = FALSE,
                               !.opportunity = FALSE, !.scene = scene]
      BY <1>0, <2>2 DEF Queue, Crtcs
    <3> HIDE DEF scene
    <3> QED BY <1>0, <3>1, <3>2 DEF Crtcs
  <2> QED BY <2>1, <2>2
<1>5. kernel' \in [queued : Queued \cup {None}, flips : SUBSET Queued, screen : Tags \cup {Blank}]
  <2> HIDE DEF content, seq
  <2>1. [tag |-> Held.tag, content |-> content, seq |-> seq, surface |-> crtc.surface] \in Queued
    BY <1>2, <1>3 DEF Queued
  <2>2. kernel' \in {kernel, [kernel EXCEPT !.screen = content],
                     [kernel EXCEPT !.queued = [tag |-> Held.tag, content |-> content,
                                                seq |-> seq, surface |-> crtc.surface]]}
    BY DEF Queue, content, seq
  <2> QED BY <1>2, <2>1, <2>2 DEF Types, KernelOK
<1>6. UNCHANGED <<loopVars, retired, fences, reports, counters>>
  BY DEF Queue
<1> QED BY <1>1, <1>4, <1>5, <1>6, <1>0, CrtcIsSome DEF loopVars, Types, LoopOK, WorkerOK, KernelOK, EventsOK

LEMMA VblankTypes ==
  ASSUME Types, Vblank
  PROVE  Types'
<1>1. presenter' \in [pc : {"idle", "turn", "check", "configure", "publish", "render",
                            "submit", "queue", "done"},
                      held : Controls, configured : Nat, tag : Tags]
  BY GotoType DEF Vblank, Types
<1>2. PICK f \in kernel.flips :
         /\ kernel' = [kernel EXCEPT !.flips = @ \ {f}]
         /\ \/ UNCHANGED <<crtc, reports>>
            \/ /\ crtc # None
               /\ crtc' = [crtc EXCEPT !.pending = FALSE, !.untimedRetry = FALSE]
               /\ reports' \in {reports, Append(reports, [kind |-> "presented", key |-> crtc.key,
                                                          tag |-> f.tag, seq |-> f.seq])}
            \/ /\ crtc # None
               /\ crtc' = [Invalidated(crtc) EXCEPT !.pending = FALSE, !.untimedRetry = FALSE]
               /\ UNCHANGED reports
  BY DEF Vblank
<1>3. f \in Queued
  BY DEF Types, KernelOK
<1>4. \A c \in Crtcs : [c EXCEPT !.pending = FALSE, !.untimedRetry = FALSE] \in Crtcs
  BY DEF Crtcs
<1>5. crtc' \in Crtcs \cup {None}
  <2>1. CASE UNCHANGED crtc
    BY <2>1 DEF Types, WorkerOK
  <2>2. CASE /\ crtc # None
             /\ \/ crtc' = [crtc EXCEPT !.pending = FALSE, !.untimedRetry = FALSE]
                \/ crtc' = [Invalidated(crtc) EXCEPT !.pending = FALSE, !.untimedRetry = FALSE]
    <3>1. crtc \in Crtcs /\ Invalidated(crtc) \in Crtcs
      BY <2>2, InvalidatedType DEF Types, WorkerOK
    <3> QED BY <1>4, <2>2, <3>1
  <2> QED BY <1>2, <2>1, <2>2
<1>6. EventsOK'
  <2>1. crtc # None => [kind |-> "presented", key |-> crtc.key, tag |-> f.tag, seq |-> f.seq]
                         \in Presented
    BY <1>3 DEF Types, WorkerOK, Crtcs, Queued, Presented
  <2>2. \A e \in Presented : Append(reports, e) \in Seq(Configured \cup Presented \cup Discards)
    BY DEF Types, EventsOK
  <2> QED BY <1>2, <2>1, <2>2 DEF Types, EventsOK
<1>7. KernelOK'
  BY <1>2 DEF Vblank, Types, KernelOK
<1>8. UNCHANGED <<loopVars, retired, fences, counters>>
  BY DEF Vblank
<1>9. presenter'.pc \notin {"submit", "queue"}
  BY GotoType DEF Vblank, Types
<1> QED BY <1>1, <1>5, <1>6, <1>7, <1>8, <1>9 DEF loopVars, Types, LoopOK, WorkerOK

LEMMA KernelTypes ==
  ASSUME Types, Flip \/ \E seq \in 1..MaxScenes : FenceReached(seq)
  PROVE  Types'
<1>1. UNCHANGED <<loopVars, workerVars, reports, counters>>
  BY DEF Flip, FenceReached
<1>2. KernelOK'
  <2>1. CASE Flip
    <3>1. kernel.queued \in Queued /\ kernel.queued.content \in Tags \cup {Blank}
      BY <2>1 DEF Flip, Types, KernelOK, Queued
    <3> QED BY <2>1, <3>1 DEF Flip, Types, KernelOK
  <2>2. ASSUME NEW seq \in 1..MaxScenes, FenceReached(seq) PROVE KernelOK'
    BY <2>2 DEF FenceReached, Types, KernelOK
  <2> QED BY <2>1, <2>2
<1> QED BY <1>1, <1>2 DEF loopVars, workerVars, Types, LoopOK, WorkerOK, EventsOK

LEMMA TypesKept ==
  ASSUME Types, [Next]_presenterVars
  PROVE  Types'
<1>1. CASE UNCHANGED presenterVars
  BY <1>1 DEF presenterVars, loopVars, workerVars, Types, LoopOK, WorkerOK, KernelOK, EventsOK
<1> QED BY <1>1, LoopTypes, HandleTypes, TakeTypes, ConfigureTypes, PublishTypes, RenderTypes,
           SubmitTypes, QueueTypes, VblankTypes, KernelTypes DEF Next, Turn

\* What the event loop asks for.
LEMMA AskedFields ==
  ASSUME Types
  PROVE  /\ Configure => /\ Now'.generation = Now.generation + 1
                         /\ Now'.configuration = Now.generation + 1 /\ Now'.key = output.key + 1
                         /\ Now'.active = Now.active /\ Now'.stopped = Now.stopped
                         /\ Now'.tag = Now.tag
         /\ SetSecurity => /\ Now'.generation = Now.generation
                           /\ Now'.configuration = Now.configuration /\ Now'.key = Now.key
                           /\ Now'.active = Now.active /\ Now'.stopped = Now.stopped
                           /\ Now'.tag = Now.tag + 1
         /\ Pause => /\ Now'.generation = Now.generation + 1
                     /\ Now'.configuration = Now.configuration /\ Now'.key = Now.key
                     /\ Now'.active = FALSE /\ Now'.stopped = Now.stopped /\ Now'.tag = Now.tag
         /\ Activate => /\ Now'.generation = Now.generation + 1
                        /\ Now'.configuration = Now.generation + 1 /\ Now'.key = Now.key
                        /\ Now'.active = TRUE /\ Now'.stopped = Now.stopped /\ Now'.tag = Now.tag
         /\ Stop \/ SubmitScene =>
              /\ Now'.generation = Now.generation
              /\ Now'.configuration = Now.configuration /\ Now'.key = Now.key
              /\ Now'.stopped \/ Now' = Now
              /\ Now.stopped => Now'.stopped
              /\ Now'.tag = Now.tag
         /\ Handle => Now' = Now
<1>1. Now \in Controls
  BY DEF Types, LoopOK, Now
<1>2. ASSUME NEW new, Ask(new) PROVE Now' = new
  BY <1>2 DEF Ask, Now
<1>3. ASSUME Configure PROVE Now' = [Now EXCEPT !.generation = @ + 1,
                               !.configuration = Now.generation + 1, !.key = output.key + 1]
  BY <1>3, <1>2 DEF Configure
<1>4. ASSUME SetSecurity PROVE Now' = [Now EXCEPT !.tag = @ + 1]
  BY <1>4, <1>2 DEF SetSecurity
<1>5. ASSUME Pause PROVE Now' = [Now EXCEPT !.generation = @ + 1, !.active = FALSE]
  BY <1>5, <1>2 DEF Pause
<1>6. ASSUME Activate PROVE Now' = [Now EXCEPT !.generation = @ + 1,
                               !.configuration = Now.generation + 1, !.active = TRUE]
  BY <1>6, <1>2 DEF Activate
<1>7. ASSUME Stop \/ SubmitScene
      PROVE  Now' = Now \/ Now' = [Now EXCEPT !.stopped = TRUE, !.active = FALSE]
  <2>1. CASE Stop
    BY <2>1, <1>2 DEF Stop
  <2>2. CASE SubmitScene
    BY <2>2, <1>2 DEF SubmitScene
  <2> QED BY <1>7, <2>1, <2>2
<1>8. Handle => Now' = Now
  BY DEF Handle, Now
<1>9. Configure => /\ Now'.generation = Now.generation + 1
                   /\ Now'.configuration = Now.generation + 1 /\ Now'.key = output.key + 1
                   /\ Now'.active = Now.active /\ Now'.stopped = Now.stopped
                   /\ Now'.tag = Now.tag
  BY <1>1, <1>3 DEF Controls
<1>10. SetSecurity => /\ Now'.generation = Now.generation
                      /\ Now'.configuration = Now.configuration /\ Now'.key = Now.key
                      /\ Now'.active = Now.active /\ Now'.stopped = Now.stopped
                      /\ Now'.tag = Now.tag + 1
  BY <1>1, <1>4 DEF Controls
<1>11. Pause => /\ Now'.generation = Now.generation + 1
                /\ Now'.configuration = Now.configuration /\ Now'.key = Now.key
                /\ Now'.active = FALSE /\ Now'.stopped = Now.stopped /\ Now'.tag = Now.tag
  BY <1>1, <1>5 DEF Controls
<1>12. Activate => /\ Now'.generation = Now.generation + 1
                   /\ Now'.configuration = Now.generation + 1 /\ Now'.key = Now.key
                   /\ Now'.active = TRUE /\ Now'.stopped = Now.stopped /\ Now'.tag = Now.tag
  BY <1>1, <1>6 DEF Controls
<1>13. Stop \/ SubmitScene =>
         /\ Now'.generation = Now.generation
         /\ Now'.configuration = Now.configuration /\ Now'.key = Now.key
         /\ Now'.stopped \/ Now' = Now
         /\ Now.stopped => Now'.stopped
         /\ Now'.tag = Now.tag
  BY <1>1, <1>7 DEF Controls
<1> QED BY <1>8, <1>9, <1>10, <1>11, <1>12, <1>13
-----------------------------------------------------------------------------
(* The events. *)

LEMMA TailEvents ==
  ASSUME EventsOK, reports # <<>>, reports' = Tail(reports)
  PROVE  \A i \in 1..Len(reports') : \E j \in 1..Len(reports) : reports'[i] = reports[j]
<1> SUFFICES ASSUME NEW i \in 1..Len(reports')
             PROVE  \E j \in 1..Len(reports) : reports'[i] = reports[j]
  OBVIOUS
<1>1. reports'[i] = reports[i + 1] /\ i + 1 \in 1..Len(reports)
  BY DEF EventsOK
<1> QED BY <1>1

\* What is appended comes after the events there were.
LEMMA AppendedEvents ==
  ASSUME EventsOK, NEW more \in Seq(Configured \cup Presented \cup Discards),
         reports' = reports \o more
  PROVE  \A i \in 1..Len(reports') :
           \/ i \in 1..Len(reports) /\ reports'[i] = reports[i]
           \/ \E j \in 1..Len(more) : reports'[i] = more[j]
<1> SUFFICES ASSUME NEW i \in 1..Len(reports'), i \notin 1..Len(reports)
             PROVE  \E j \in 1..Len(more) : reports'[i] = more[j]
  BY DEF EventsOK
<1>1. Len(reports') = Len(reports) + Len(more) /\ Len(reports) \in Nat /\ Len(more) \in Nat
  BY DEF EventsOK
<1>2. i - Len(reports) \in 1..Len(more) /\ reports'[i] = more[i - Len(reports)]
  BY <1>1 DEF EventsOK
<1> QED BY <1>2

LEMMA DiscardedKind ==
  ASSUME EventsOK, NEW set \in SUBSET Frames, reports' = reports \o Discarded(set)
  PROVE  \A i \in 1..Len(reports') : reports'[i].kind # "discarded" =>
           i \in 1..Len(reports) /\ reports'[i] = reports[i]
<1>1. Discarded(set) \in Seq(Configured \cup Presented \cup Discards)
      /\ \A j \in 1..Len(Discarded(set)) : Discarded(set)[j].kind = "discarded"
  <2>1. Discarded(set) \in Seq(Discards)
    BY DiscardedType
  <2>2. \A j \in 1..Len(Discarded(set)) : Discarded(set)[j] \in Discards
    BY <2>1
  <2> QED BY <2>1, <2>2 DEF Discards
<1> QED BY <1>1, AppendedEvents

LEMMA OneMoreEvent ==
  ASSUME EventsOK, NEW e \in Configured \cup Presented \cup Discards, reports' = Append(reports, e)
  PROVE  \A i \in 1..Len(reports') :
           \/ i \in 1..Len(reports) /\ reports'[i] = reports[i]
           \/ reports'[i] = e
BY DEF EventsOK

LEMMA PublishEvent ==
  ASSUME Types, Publish
  PROVE  \A i \in 1..Len(reports') :
           \/ i \in 1..Len(reports) /\ reports'[i] = reports[i]
           \/ /\ Permits /\ crtc # None
              /\ reports'[i] = [kind |-> "configured", key |-> crtc.key,
                                generation |-> Held.generation]
<1> DEFINE e == [kind |-> "configured", key |-> crtc.key, generation |-> Held.generation]
<1>1. reports' = reports \/ (Permits /\ crtc # None /\ reports' = reports \o <<e>>)
  BY DEF Publish, Types, EventsOK
<1>2. crtc # None => <<e>> \in Seq(Configured \cup Presented \cup Discards)
  <2>1. crtc # None => e \in Configured
    BY DEF Types, WorkerOK, Held, Controls, Crtcs, Configured
  <2> QED BY <2>1
<1>3. Len(<<e>>) = 1 /\ <<e>>[1] = e
  OBVIOUS
<1> HIDE DEF e
<1>4. CASE Permits /\ crtc # None /\ reports' = reports \o <<e>>
  <2>1. \A i \in 1..Len(reports') :
           \/ i \in 1..Len(reports) /\ reports'[i] = reports[i]
           \/ \E j \in 1..Len(<<e>>) : reports'[i] = <<e>>[j]
    BY <1>2, <1>4, AppendedEvents DEF Types
  <2> QED BY <1>3, <1>4, <2>1 DEF e
<1> QED BY <1>1, <1>4 DEF e

-----------------------------------------------------------------------------
(* The scenes the output holds. *)

LEMMA SameScenes ==
  ASSUME Types, Types', Submit \/ Vblank
  PROVE  Scenes' = Scenes
<1>1. CASE UNCHANGED crtc
  BY <1>1 DEF Scenes
<1>2. CASE Submit
  <2>1. crtc \in Crtcs /\ crtc' \in Crtcs
    BY <1>2, SubmitTypes
  <2>2. crtc'.scene = crtc.scene /\ crtc'.desired = crtc.desired
    BY <1>2, <2>1 DEF Submit, Crtcs
  <2> QED BY <2>1, <2>2, CrtcIsSome DEF Scenes
<1>3. CASE Vblank /\ ~UNCHANGED crtc
  <2>1. /\ crtc # None
        /\ \/ crtc' = [crtc EXCEPT !.pending = FALSE, !.untimedRetry = FALSE]
           \/ crtc' = [Invalidated(crtc) EXCEPT !.pending = FALSE, !.untimedRetry = FALSE]
    BY <1>3 DEF Vblank
  <2>2. \A c \in Crtcs : /\ [c EXCEPT !.pending = FALSE, !.untimedRetry = FALSE] \in Crtcs
                         /\ [c EXCEPT !.pending = FALSE, !.untimedRetry = FALSE].scene = c.scene
                         /\ [c EXCEPT !.pending = FALSE, !.untimedRetry = FALSE].desired = c.desired
    BY DEF Crtcs
  <2>3. crtc \in Crtcs
    BY <2>1 DEF Types, WorkerOK
  <2>4. Invalidated(crtc) \in Crtcs /\ Invalidated(crtc).scene = crtc.scene
        /\ Invalidated(crtc).desired = crtc.desired
    BY <2>3, InvalidatedType
  <2>5. crtc' \in Crtcs /\ crtc'.scene = crtc.scene /\ crtc'.desired = crtc.desired
    BY <2>1, <2>2, <2>3, <2>4
  <2> QED BY <2>3, <2>5, CrtcIsSome DEF Scenes
<1> QED BY <1>1, <1>2, <1>3

\* A frame that is queued is marked, and is the same scene.
LEMMA QueueScenes ==
  ASSUME Types, Types', Queue
  PROVE  /\ \A f \in Scenes' : \E g \in Scenes : g.seq = f.seq /\ g.key = f.key /\ g.tag = f.tag
         /\ \A g \in Scenes : \E f \in Scenes' : f.seq = g.seq
<1>1. crtc \in Crtcs /\ crtc # None
  BY QueueTypes, CrtcIsSome
<1>2. CASE crtc.modeset
  <2>1. \A c \in Crtcs : /\ [c EXCEPT !.modeset = FALSE, !.opportunity = TRUE] \in Crtcs
                         /\ [c EXCEPT !.modeset = FALSE, !.opportunity = TRUE].scene = c.scene
                         /\ [c EXCEPT !.modeset = FALSE, !.opportunity = TRUE].desired = c.desired
    BY DEF Crtcs
  <2>2. Invalidated(crtc) \in Crtcs /\ Invalidated(crtc).scene = crtc.scene
        /\ Invalidated(crtc).desired = crtc.desired
    BY <1>1, InvalidatedType
  <2>3. crtc' = [Invalidated(crtc) EXCEPT !.modeset = FALSE, !.opportunity = TRUE]
    BY <1>2 DEF Queue
  <2>4. crtc' \in Crtcs /\ crtc'.scene = crtc.scene /\ crtc'.desired = crtc.desired
    BY <2>1, <2>2, <2>3
  <2>5. Scenes' = Scenes
    BY <1>1, <2>4, CrtcIsSome DEF Scenes
  <2> QED BY <2>5
<1>3. CASE ~crtc.modeset
  <2> DEFINE marked == [crtc.scene EXCEPT !.submitted = TRUE]
  <2>1. /\ crtc'.desired = crtc.desired /\ crtc' # None
        /\ crtc'.scene = IF crtc.scene = None THEN None ELSE marked
    <3>1. /\ crtc'.desired = crtc.desired
          /\ crtc'.scene = IF crtc.scene = None THEN None ELSE marked
      BY <1>1, <1>3 DEF Queue, Crtcs
    <3>2. crtc' # None
      BY QueueTypes, CrtcIsSome
    <3> QED BY <3>1, <3>2
  <2>2. crtc.scene # None =>
          /\ marked.tag = crtc.scene.tag /\ marked.seq = crtc.scene.seq
          /\ marked.key = crtc.scene.key /\ marked # None
    BY <1>1 DEF Crtcs, Frames, None
  <2> HIDE DEF marked
  <2>3. Scenes = Only(crtc.scene) \cup Only(crtc.desired)
        /\ Scenes' = Only(crtc'.scene) \cup Only(crtc.desired)
    BY <1>1, <2>1 DEF Scenes
  <2> QED BY <2>1, <2>2, <2>3 DEF Only
<1> QED BY <1>2, <1>3

\* A new scene takes the place of the old one, which is retired.
LEMMA RenderScenes ==
  ASSUME Types, Types', Render
  PROVE  /\ Scenes' \subseteq Scenes
         /\ retired \subseteq retired' /\ retired' \subseteq retired \cup Scenes
         /\ Scenes \subseteq retired' \cup Scenes'
         /\ IsFiniteSet(retired) => IsFiniteSet(retired')
         /\ reports' = reports \/ \E set \in SUBSET Frames : reports' = reports \o Discarded(set)
         /\ crtc' # None => crtc # None
<1>1. CASE UNCHANGED <<crtc, retired, reports>>
  BY <1>1 DEF Scenes
<1>2. CASE crtc # None /\ ~UNCHANGED <<crtc, retired, reports>>
  <2> DEFINE ready == crtc.desired # None /\ crtc.desired.seq \notin fences
             next == IF ready THEN [crtc EXCEPT !.scene = crtc.desired, !.desired = None,
                                                !.dirty = TRUE]
                     ELSE crtc
             old == IF ready THEN Only(crtc.scene) ELSE {}
  <2>1. crtc \in Crtcs
    BY <1>2 DEF Types, WorkerOK
  <2>2. /\ crtc' = [next EXCEPT !.opportunity = @ /\ next.dirty]
        /\ retired' = retired \cup old
        /\ reports' = reports \o Discarded(old)
    BY <1>2 DEF Render
  <2>3. /\ next \in Crtcs
        /\ next.scene = (IF ready THEN crtc.desired ELSE crtc.scene)
        /\ next.desired = (IF ready THEN None ELSE crtc.desired)
    BY <2>1 DEF Crtcs
  <2>4. old \in SUBSET Frames /\ old \subseteq Only(crtc.scene)
    BY <2>1, CrtcParts
  <2>5. crtc' # None /\ crtc'.scene = next.scene /\ crtc'.desired = next.desired
    <3>1. crtc' \in Crtcs
      BY <2>1, <1>2, RenderTypes
    <3> HIDE DEF next
    <3> QED BY <2>2, <2>3, <3>1, CrtcIsSome DEF Crtcs
  <2>6. Scenes = Only(crtc.scene) \cup Only(crtc.desired)
        /\ Scenes' = Only(next.scene) \cup Only(next.desired)
    BY <1>2, <2>5 DEF Scenes
  <2>7. Scenes' \subseteq Scenes /\ Scenes \subseteq old \cup Scenes'
    BY <2>3, <2>6 DEF Only
  <2>8. IsFiniteSet(retired) => IsFiniteSet(retired \cup old)
    <3>1. IsFiniteSet({crtc.scene}) /\ old \in SUBSET {crtc.scene}
      BY <2>4, FS_Singleton DEF Only
    <3>2. IsFiniteSet(old)
      BY <3>1, FS_Subset
    <3> QED BY <3>2, FS_Union
  <2> QED BY <1>2, <2>2, <2>4, <2>6, <2>7, <2>8
<1> QED BY <1>1, <1>2 DEF Render

-----------------------------------------------------------------------------
(* The order of the tags. *)

LEMMA TagTypes ==
  ASSUME Types
  PROVE  /\ Now.tag \in Tags /\ Held.tag \in Tags /\ presenter.tag \in Tags
         /\ kernel.screen \in Tags \cup {Blank}
         /\ kernel.queued # None => kernel.queued.tag \in Tags
                                    /\ kernel.queued.content \in Tags \cup {Blank}
         /\ \A f \in kernel.flips : f.tag \in Tags
BY DEF Types, LoopOK, WorkerOK, KernelOK, Controls, Queued, Now, Held

\* A step that leaves the kernel and the tags of the worker alone.
LEMMA OrderedQuiet ==
  ASSUME Types, Types', Ordered, UNCHANGED kernel,
         presenter'.held.tag = presenter.held.tag, presenter'.tag = presenter.tag,
         presenter.tag =< Now'.tag,
         \A f \in Scenes' : f.tag = presenter.tag,
         \A i \in 1..Len(reports') : reports'[i].kind = "presented" =>
           \E j \in 1..Len(reports) : reports'[i] = reports[j]
  PROVE  Ordered'
<1>1. \A t : Seen(t) => Seen(t)'
  BY DEF Seen
<1>2. \A i \in 1..Len(reports') : reports'[i].kind = "presented" => Seen(reports[i].tag)'
  BY <1>1 DEF Ordered
<1> QED BY <1>1, <1>2 DEF Ordered

LEMMA LoopOrdered ==
  ASSUME Types, Types', Ordered, Loop \/ Handle
  PROVE  Ordered'
<1>1. UNCHANGED workerVars
  BY DEF Loop, Configure, SetSecurity, Pause, Activate, Stop, SubmitScene, Handle
<1>2. presenter'.held.tag = presenter.held.tag /\ presenter'.tag = presenter.tag
      /\ \A f \in Scenes' : f.tag = presenter.tag
  BY <1>1 DEF workerVars, Scenes, Ordered
<1>3. presenter.tag =< Now'.tag
  <2>1. Now'.tag \in {Now.tag, Now.tag + 1}
    BY AskedFields DEF Loop
  <2> QED BY <2>1, TagTypes DEF Ordered, Tags
<1>4. \A i \in 1..Len(reports') : \E j \in 1..Len(reports) : reports'[i] = reports[j]
  <2>1. CASE Handle
    BY <2>1, TailEvents DEF Handle, Types
  <2>2. CASE Loop
    BY <2>2 DEF Loop, Configure, SetSecurity, Pause, Activate, Stop, SubmitScene
  <2> QED BY <2>1, <2>2
<1>5. CASE Pause
  <2>1. kernel'.screen = Blank /\ kernel'.queued = None /\ kernel'.flips = kernel.flips
    BY <1>5 DEF Pause, Types, KernelOK
  <2>2. \A t : Seen(t) => Seen(t)'
    BY <1>2, <2>1 DEF Seen
  <2>3. UNCHANGED reports
    BY <1>5 DEF Pause
  <2> QED BY <1>2, <1>3, <2>1, <2>2, <2>3 DEF Ordered
<1>6. CASE UNCHANGED kernel
  BY <1>2, <1>3, <1>4, <1>6, OrderedQuiet
<1> QED BY <1>5, <1>6 DEF Loop, Configure, SetSecurity, Activate, Stop, SubmitScene, Handle

LEMMA TakeOrdered ==
  ASSUME Types, Types', Ordered, Take
  PROVE  Ordered'
<1>1. PICK out \in SUBSET Frames :
         /\ reports' = reports \o Discarded(out)
         /\ presenter' = [presenter EXCEPT !.held = Now, !.tag = Now.tag,
                         !.pc = IF ~Changing THEN "render"
                                ELSE IF retired' # {} THEN "idle" ELSE "check"]
         /\ kernel' \in {kernel, [kernel EXCEPT !.queued = None, !.screen = Blank]}
         /\ (\A f \in Scenes : f.tag = presenter.tag) => (\A f \in Scenes' : f.tag = Now.tag)
         /\ control' = [control EXCEPT !.pinged = FALSE]
  BY TakeEffect
<1>2. presenter'.held.tag = Now.tag /\ presenter'.tag = Now.tag /\ Now' = Now
  BY <1>1 DEF Types, LoopOK, WorkerOK, Now
<1>3. \/ UNCHANGED kernel
      \/ kernel'.queued = None /\ kernel'.screen = Blank /\ kernel'.flips = kernel.flips
  BY <1>1 DEF Types, KernelOK
<1>4. presenter.tag =< Now.tag /\ presenter.tag \in Int /\ Now.tag \in Int
  BY TagTypes DEF Ordered, Tags
<1>5. \A t \in Tags : Seen(t) => Seen(t)'
  BY <1>2, <1>3, <1>4 DEF Seen, Tags
<1>6. \A i \in 1..Len(reports') : reports'[i].kind = "presented" => Seen(reports[i].tag)'
  <2> SUFFICES ASSUME NEW i \in 1..Len(reports'), reports'[i].kind = "presented"
               PROVE  Seen(reports[i].tag)'
    OBVIOUS
  <2>1. i \in 1..Len(reports) /\ reports'[i] = reports[i]
    BY <1>1, DiscardedKind DEF Types
  <2>2. reports[i].tag \in Tags
    <3>1. reports[i] \in Configured \cup Presented \cup Discards
      BY <2>1 DEF Types, EventsOK
    <3> QED BY <2>1, <3>1 DEF Configured, Presented, Discards
  <2> QED BY <1>5, <2>1, <2>2 DEF Ordered
<1>7. \A f \in kernel'.flips : Seen(f.tag)'
  BY <1>3, <1>5, TagTypes DEF Ordered
<1>8. \A f \in Scenes' : f.tag = presenter'.tag
  BY <1>1, <1>2 DEF Ordered
<1>9. /\ kernel'.screen = Blank \/ kernel'.screen =< presenter'.tag
      /\ kernel'.queued # None => kernel'.queued.tag =< presenter'.tag
                                  /\ kernel'.queued.content \in {Blank, kernel'.queued.tag}
  BY <1>2, <1>3, <1>4, TagTypes DEF Ordered, Tags, Blank
<1>10. presenter'.held.tag = presenter'.tag /\ presenter'.tag =< Now'.tag
  BY <1>2, <1>4
<1> QED BY <1>6, <1>7, <1>8, <1>9, <1>10 DEF Ordered

LEMMA WorkerOrdered ==
  ASSUME Types, Types', Ordered,
         Check \/ ConfigureOutput \/ Publish \/ Render \/ Submit
                \/ \E seq \in 1..MaxScenes : FenceReached(seq)
  PROVE  Ordered'
<1>1. UNCHANGED <<control, kernel>>
  BY DEF Check, ConfigureOutput, Publish, Render, Submit, FenceReached, loopVars
<1>2. presenter'.held = presenter.held /\ presenter'.tag = presenter.tag
  BY DEF Check, ConfigureOutput, Publish, Render, Submit, FenceReached, workerVars, Goto, Types,
     WorkerOK
<1>3. \A f \in Scenes' : f \in Scenes
  <2>1. CASE Check \/ Publish \/ \E seq \in 1..MaxScenes : FenceReached(seq)
    BY <2>1 DEF Check, Publish, FenceReached, workerVars, Scenes
  <2>2. CASE ConfigureOutput
    <3>1. \/ UNCHANGED crtc
          \/ crtc'.scene = None /\ crtc'.desired = None
      BY <2>2 DEF ConfigureOutput
    <3> QED BY <3>1 DEF Scenes, Only
  <2>3. CASE Submit
    BY <2>3, SameScenes
  <2>4. CASE Render
    BY <2>4, RenderScenes
  <2> QED BY <2>1, <2>2, <2>3, <2>4
<1>4. \A i \in 1..Len(reports') : reports'[i].kind = "presented" =>
        \E j \in 1..Len(reports) : reports'[i] = reports[j]
  <2>1. CASE Check \/ ConfigureOutput \/ Submit \/ \E seq \in 1..MaxScenes : FenceReached(seq)
    BY <2>1 DEF Check, ConfigureOutput, Submit, FenceReached
  <2>2. CASE Publish
    BY <2>2, PublishEvent
  <2>3. CASE Render
    BY <2>3, RenderScenes, DiscardedKind DEF Types
  <2> QED BY <2>1, <2>2, <2>3
<1> QED BY <1>1, <1>2, <1>3, <1>4, OrderedQuiet DEF Ordered, Now

LEMMA QueueOrdered ==
  ASSUME Types, Types', Ordered, Queue
  PROVE  Ordered'
<1> DEFINE content == IF crtc.scene = None THEN Blank ELSE crtc.scene.tag
<1>1. crtc \in Crtcs /\ crtc # None
  BY QueueTypes, CrtcIsSome
<1>2. content \in {Blank, presenter.tag}
  BY <1>1 DEF Ordered, Scenes, Only
<1>3. UNCHANGED <<control, reports>>
      /\ presenter'.held = presenter.held /\ presenter'.tag = presenter.tag
  BY DEF Queue, loopVars, Goto, Types, WorkerOK
<1>4. \A f \in Scenes' : f.tag = presenter.tag
  BY QueueScenes DEF Ordered
<1>5. \/ UNCHANGED kernel
      \/ /\ kernel'.screen = content
         /\ kernel'.queued = kernel.queued /\ kernel'.flips = kernel.flips
      \/ /\ kernel'.screen = kernel.screen /\ kernel'.flips = kernel.flips
         /\ kernel'.queued.tag = presenter.tag /\ kernel'.queued.content = content
  BY DEF Queue, Types, KernelOK, Ordered, Held
<1> HIDE DEF content
<1>6. \A t \in Tags : Seen(t) => Seen(t)'
  BY <1>2, <1>3, <1>5 DEF Seen
<1>7. \A i \in 1..Len(reports') : reports'[i].kind = "presented" => Seen(reports[i].tag)'
  <2> SUFFICES ASSUME NEW i \in 1..Len(reports), reports[i].kind = "presented"
               PROVE  Seen(reports[i].tag)'
    BY <1>3
  <2>1. reports[i] \in Configured \cup Presented \cup Discards
    BY DEF Types, EventsOK
  <2>2. reports[i].tag \in Tags /\ Seen(reports[i].tag)
    BY <2>1 DEF Configured, Presented, Discards, Ordered
  <2>3. \A t \in Tags : t = reports[i].tag => Seen(t)'
    BY <1>6, <2>2
  <2>4. UNCHANGED reports
    BY <1>3
  <2> QED BY <2>2, <2>3, <2>4
<1>8. \A f \in kernel'.flips : Seen(f.tag)'
  BY <1>5, <1>6, TagTypes DEF Ordered
<1>9. presenter.tag =< presenter.tag
  BY TagTypes DEF Tags
<1>10. /\ kernel'.screen = Blank \/ kernel'.screen =< presenter'.tag
       /\ kernel'.queued # None => kernel'.queued.tag =< presenter'.tag
                                   /\ kernel'.queued.content \in {Blank, kernel'.queued.tag}
  BY <1>2, <1>3, <1>5, <1>9 DEF Ordered
<1> QED BY <1>3, <1>4, <1>7, <1>8, <1>10 DEF Ordered, Now

LEMMA VblankOrdered ==
  ASSUME Types, Types', Ordered, Vblank
  PROVE  Ordered'
<1>1. PICK f \in kernel.flips :
         /\ kernel' = [kernel EXCEPT !.flips = @ \ {f}]
         /\ \/ UNCHANGED <<crtc, reports>>
            \/ /\ crtc # None
               /\ crtc' = [crtc EXCEPT !.pending = FALSE, !.untimedRetry = FALSE]
               /\ reports' \in {reports, Append(reports, [kind |-> "presented", key |-> crtc.key,
                                                          tag |-> f.tag, seq |-> f.seq])}
            \/ /\ crtc # None
               /\ crtc' = [Invalidated(crtc) EXCEPT !.pending = FALSE, !.untimedRetry = FALSE]
               /\ UNCHANGED reports
  BY DEF Vblank
<1>2. UNCHANGED control /\ presenter'.held = presenter.held /\ presenter'.tag = presenter.tag
  BY DEF Vblank, loopVars, Goto, Types, WorkerOK
<1>3. kernel'.flips \subseteq kernel.flips
      /\ kernel'.screen = kernel.screen /\ kernel'.queued = kernel.queued
  BY <1>1 DEF Types, KernelOK
<1>4. \A t : Seen(t) => Seen(t)'
  BY <1>2, <1>3 DEF Seen
<1>5. Scenes' = Scenes
  BY SameScenes
<1>6. \A i \in 1..Len(reports') : reports'[i].kind = "presented" => Seen(reports[i].tag)'
  <2>1. CASE UNCHANGED reports
    BY <1>4, <2>1 DEF Ordered
  <2>2. CASE /\ crtc # None
             /\ reports' = Append(reports, [kind |-> "presented", key |-> crtc.key,
                                            tag |-> f.tag, seq |-> f.seq])
    <3> DEFINE e == [kind |-> "presented", key |-> crtc.key, tag |-> f.tag, seq |-> f.seq]
    <3>1. e \in Presented
      BY <2>2 DEF Types, WorkerOK, KernelOK, Crtcs, Queued, Presented
    <3>2. SUFFICES ASSUME NEW i \in 1..Len(reports'), reports'[i].kind = "presented"
                   PROVE  Seen(reports[i].tag)'
      OBVIOUS
    <3>3. (i \in 1..Len(reports) /\ reports'[i] = reports[i]) \/ reports'[i] = e
      BY <2>2, <3>1, OneMoreEvent DEF Types
    <3>4. \A t : t = reports'[i].tag => Seen(t)
      BY <3>2, <3>3 DEF Ordered
    <3>5. \A t : t = reports'[i].tag => Seen(t)'
      BY <1>4, <3>4
    <3> QED BY <3>5
  <2> QED BY <1>1, <2>1, <2>2
<1> QED BY <1>2, <1>3, <1>4, <1>5, <1>6 DEF Ordered, Now

LEMMA FlipOrdered ==
  ASSUME Types, Types', Ordered, Flip
  PROVE  Ordered'
<1>1. /\ kernel.queued # None /\ kernel'.queued = None
      /\ kernel'.flips = kernel.flips \cup {kernel.queued}
      /\ kernel'.screen = kernel.queued.content
  BY DEF Flip
<1>2. UNCHANGED <<control, presenter, crtc, reports>>
  BY DEF Flip, loopVars, workerVars
<1>3. kernel.queued.content \in {Blank, kernel.queued.tag}
      /\ kernel.queued.tag =< presenter.tag /\ kernel.queued.tag \in Tags
  BY <1>1, TagTypes DEF Ordered
<1>4. \A t : Seen(t) => Seen(t)'
  BY <1>1, <1>2, <1>3 DEF Seen
<1>5. \A t : t = kernel.queued.tag => Seen(t)'
  <2>1. kernel.queued.tag =< kernel.queued.tag
    BY <1>3 DEF Tags
  <2> QED BY <1>1, <1>2, <1>3, <2>1 DEF Seen
<1>6. \A f \in kernel'.flips : Seen(f.tag)'
  BY <1>1, <1>4, <1>5 DEF Ordered
<1>7. \A i \in 1..Len(reports') : reports'[i].kind = "presented" => Seen(reports[i].tag)'
  <2> SUFFICES ASSUME NEW i \in 1..Len(reports), reports[i].kind = "presented"
               PROVE  Seen(reports[i].tag)'
    BY <1>2
  <2>1. \A t : t = reports[i].tag => Seen(t)'
    BY <1>4 DEF Ordered
  <2> QED BY <1>2, <2>1
<1>8. \A f \in Scenes' : f.tag = presenter'.tag
  BY <1>2 DEF Scenes, Ordered
<1> QED BY <1>1, <1>2, <1>3, <1>6, <1>7, <1>8 DEF Ordered, Now

LEMMA OrderedInit == Init => Ordered
BY DEF Init, Ordered, Scenes, Now

LEMMA OrderedKept ==
  ASSUME Types, Ordered, [Next]_presenterVars
  PROVE  Types' /\ Ordered'
<1>1. Types'
  BY TypesKept
<1>2. CASE UNCHANGED presenterVars
  <2>1. UNCHANGED <<control, presenter, crtc, kernel, reports>>
    BY <1>2 DEF presenterVars, loopVars, workerVars
  <2>2. \A f \in Scenes' : f.tag = presenter.tag
    BY <2>1 DEF Scenes, Ordered
  <2> QED BY <1>1, <2>1, <2>2, OrderedQuiet DEF Ordered, Now
<1> QED BY <1>1, <1>2, LoopOrdered, TakeOrdered, WorkerOrdered, QueueOrdered, VblankOrdered,
           FlipOrdered DEF Next, Turn

LEMMA InitTypes == Init => Types /\ Ordered
BY TypesInit, OrderedInit

\* When the event loop accepts a presentation, the screen shows nothing or a
\* scene of the security state in force, for any number of changes of it and
\* whatever the worker, the kernel and the GPU had under way.
THEOREM PresentsTruthfully == Spec => PresentationTruthful
<1>1. ASSUME Types, Ordered
      PROVE  \A e \in {reports[i] : i \in 1..Len(reports)} :
               Accepts(e) => kernel.screen \in {Blank, Now.tag}
  <2> SUFFICES ASSUME NEW i \in 1..Len(reports), Accepts(reports[i])
               PROVE  kernel.screen \in {Blank, Now.tag}
    OBVIOUS
  <2>1. kernel.screen = Blank \/ Now.tag =< kernel.screen
    BY <1>1 DEF Accepts, Ordered, Seen
  <2>2. kernel.screen = Blank \/ (kernel.screen =< presenter.tag /\ presenter.tag =< Now.tag)
    BY <1>1 DEF Ordered
  <2> QED BY <1>1, <2>1, <2>2, TagTypes DEF Tags
<1>2. Types /\ Ordered =>
        (\A e \in {reports[i] : i \in 1..Len(reports)} :
           (reports = <<e>> \o reports' /\ Accepts(e)) => kernel.screen \in {Blank, Now.tag})
  BY <1>1
<1>3. Types /\ Ordered /\ [Next]_presenterVars => (Types /\ Ordered)'
  BY OrderedKept
<1> QED BY <1>2, <1>3, InitTypes, PTL DEF Spec, PresentationTruthful

-----------------------------------------------------------------------------
(* The leases.  First what the event loop does. *)

LEMMA OutputFields ==
  ASSUME Types
  PROVE  /\ Configure \/ Pause => /\ output'.key = output.key + 1 /\ output'.pool = NoKey
                                  /\ output'.generation = Now.generation + 1
         /\ SetSecurity => /\ output'.key = output.key /\ output'.pool = output.pool
                           /\ output'.generation = output.generation
         /\ Activate => /\ output'.key = output.key /\ output'.pool = output.pool
                        /\ output'.generation = Now.generation + 1
         /\ Stop \/ SubmitScene => /\ output'.key = output.key /\ output'.pool = output.pool
                                   /\ output'.generation = output.generation
         /\ Handle =>
              /\ output'.key = output.key /\ output'.generation = output.generation
              /\ \/ output'.pool = output.pool
                 \/ /\ Now.active /\ Serving /\ Head(reports).kind = "configured"
                    /\ Head(reports).key = output.key
                    /\ Head(reports).generation = output.generation
                    /\ output'.pool = output.key
<1>1. Configure \/ Pause => /\ output'.key = output.key + 1 /\ output'.pool = NoKey
                            /\ output'.generation = Now.generation + 1
  BY DEF Configure, Pause
<1>2. SetSecurity => /\ output'.key = output.key /\ output'.pool = output.pool
                     /\ output'.generation = output.generation
  BY DEF SetSecurity, Types, LoopOK
<1>3. Activate => /\ output'.key = output.key /\ output'.pool = output.pool
                  /\ output'.generation = Now.generation + 1
  BY DEF Activate, Types, LoopOK
<1>4. Stop \/ SubmitScene => /\ output'.key = output.key /\ output'.pool = output.pool
                             /\ output'.generation = output.generation
  BY DEF Stop, SubmitScene, Types, LoopOK
<1>5. ASSUME Handle
      PROVE  /\ output'.key = output.key /\ output'.generation = output.generation
             /\ \/ output'.pool = output.pool
                \/ /\ Now.active /\ Serving /\ Head(reports).kind = "configured"
                   /\ Head(reports).key = output.key
                   /\ Head(reports).generation = output.generation
                   /\ output'.pool = output.key
  <2> DEFINE e == Head(reports)
  <2>1. \/ /\ e.kind = "configured" /\ Now.active /\ Serving
           /\ e.key = output.key /\ e.generation = output.generation
           /\ output' = [output EXCEPT !.pool = e.key]
        \/ output' = [output EXCEPT !.last = e.seq, !.pending = IF @ = e.seq THEN 0 ELSE @]
        \/ output' = [output EXCEPT !.pending = 0]
        \/ output' = output
    BY <1>5 DEF Handle
  <2> HIDE DEF e
  <2> QED BY <2>1 DEF Types, LoopOK, e
<1> QED BY <1>1, <1>2, <1>3, <1>4, <1>5

LEMMA HeadIsEvent ==
  ASSUME EventsOK, reports # <<>>
  PROVE  1 \in 1..Len(reports) /\ reports[1] = Head(reports)
BY DEF EventsOK

LEMMA LoopEvents ==
  ASSUME Types, Loop \/ Handle
  PROVE  \A i \in 1..Len(reports') : \E j \in 1..Len(reports) : reports'[i] = reports[j]
<1>1. CASE Handle
  BY <1>1, TailEvents DEF Handle, Types
<1>2. CASE Loop
  BY <1>2 DEF Loop, Configure, SetSecurity, Pause, Activate, Stop, SubmitScene
<1> QED BY <1>1, <1>2

LEMMA NumberTypes ==
  ASSUME Types
  PROVE  /\ Now.generation \in Nat /\ Now.configuration \in Nat /\ Now.active \in BOOLEAN
         /\ Now.stopped \in BOOLEAN /\ Now.key \in Keys \cup {NoKey}
         /\ Held.generation \in Nat /\ Held.active \in BOOLEAN /\ Held.stopped \in BOOLEAN
         /\ output.key \in Keys \cup {NoKey}
         /\ output.generation \in Nat /\ presenter.configured \in Nat
         /\ \A i \in 1..Len(reports) :
              reports[i].kind = "configured" => reports[i].generation \in Nat
<1>1. Now \in Controls /\ Held \in Controls
  BY DEF Types, LoopOK, WorkerOK, Now, Held
<1>2. \A i \in 1..Len(reports) : reports[i] \in Configured \cup Presented \cup Discards
  BY DEF Types, EventsOK
<1>3. \A i \in 1..Len(reports) : reports[i].kind = "configured" => reports[i].generation \in Nat
  BY <1>2 DEF Configured, Presented, Discards
<1> QED BY <1>1, <1>3 DEF Types, LoopOK, WorkerOK, Controls

LEMMA LoopNumbered ==
  ASSUME Types, Types', Numbered, Loop \/ Handle
  PROVE  Numbered'
<1>1. UNCHANGED Held
  BY DEF Loop, Configure, SetSecurity, Pause, Activate, Stop, SubmitScene, Handle, workerVars, Held
<1>2. output'.generation = Now'.generation
  <2>1. CASE Configure \/ Pause \/ Activate
    BY <2>1, AskedFields, OutputFields
  <2>2. CASE SetSecurity \/ Stop \/ SubmitScene
    BY <2>2, AskedFields, OutputFields DEF Numbered
  <2>3. CASE Handle
    BY <2>3, AskedFields, OutputFields DEF Numbered
  <2> QED BY <2>1, <2>2, <2>3 DEF Loop
<1>3. Now'.generation \in {Now.generation, Now.generation + 1}
  BY AskedFields DEF Loop
<1>4. Held'.generation =< Now'.generation
  BY <1>1, <1>3, NumberTypes DEF Numbered
<1>5. Held'.generation = Now'.generation =>
        /\ Held'.key = Now'.key /\ Held'.configuration = Now'.configuration
        /\ Serving' => Held'.active = Now'.active
  <2>1. CASE Configure \/ Pause \/ Activate
    <3>1. Now'.generation = Now.generation + 1
      BY <2>1, AskedFields
    <3> QED BY <1>1, <3>1, NumberTypes DEF Numbered
  <2>2. CASE SetSecurity \/ Handle
    BY <1>1, <2>2, AskedFields DEF Numbered, Serving
  <2>3. CASE Stop \/ SubmitScene
    BY <1>1, <2>3, AskedFields DEF Numbered, Serving
  <2> QED BY <2>1, <2>2, <2>3 DEF Loop
<1>6. \A i \in 1..Len(reports') :
        reports'[i].kind = "configured" => reports'[i].generation =< Now'.generation
  <2> SUFFICES ASSUME NEW i \in 1..Len(reports'), reports'[i].kind = "configured"
               PROVE  reports'[i].generation =< Now'.generation
    OBVIOUS
  <2>1. PICK j \in 1..Len(reports) : reports'[i] = reports[j]
    BY LoopEvents
  <2> QED BY <1>3, <2>1, NumberTypes DEF Numbered
<1>7. (~Now'.active /\ Serving') => output'.pool = NoKey
  <2>1. CASE Configure \/ Pause \/ Activate
    BY <2>1, AskedFields, OutputFields
  <2>2. CASE SetSecurity
    BY <2>2, AskedFields, OutputFields DEF Numbered, Serving
  <2>3. CASE Handle
    BY <2>3, AskedFields, OutputFields DEF Numbered, Serving
  <2>4. CASE Stop \/ SubmitScene
    BY <2>4, AskedFields, OutputFields DEF Numbered, Serving
  <2> QED BY <2>1, <2>2, <2>3, <2>4 DEF Loop
<1>8. output'.pool \in {NoKey, output'.key}
  BY OutputFields DEF Loop, Numbered
<1> QED BY <1>2, <1>4, <1>5, <1>6, <1>7, <1>8 DEF Numbered

LEMMA LoopQueueing ==
  ASSUME Types, Types', Queueing, Loop \/ Handle
  PROVE  Queueing'
<1>1. CASE UNCHANGED mailbox /\ UNCHANGED retired /\ counters'.scenes >= counters.scenes
  <2>1. \A f \in mailbox.replaced \cup Only(mailbox.scene) : f \in Frames
    BY DEF Types, LoopOK, Only
  <2> QED BY <1>1, <2>1 DEF Queueing, Types, LoopOK, Frames
<1>2. CASE SubmitScene /\ Admitted(Frame(counters.scenes + 1))
  <2> DEFINE frame == Frame(counters.scenes + 1)
  <2>1. /\ mailbox'.scene = frame
        /\ mailbox'.replaced = mailbox.replaced \cup Only(mailbox.scene)
        /\ counters'.scenes = counters.scenes + 1 /\ UNCHANGED retired
        /\ frame.seq = counters.scenes + 1
    BY <1>2 DEF SubmitScene, Replaced, workerVars, Types, LoopOK, Frame
  <2>2. frame # None
    BY DEF Frame, None
  <2>3. \A f \in mailbox.replaced \cup Only(mailbox.scene) : f \in Frames /\ f.seq \in Int
    BY DEF Types, LoopOK, Only, Frames
  <2>4. counters.scenes \in Int
    BY DEF Types, LoopOK
  <2>5. IsFiniteSet(mailbox.replaced \cup Only(mailbox.scene))
    <3>1. IsFiniteSet({mailbox.scene}) /\ Only(mailbox.scene) \in SUBSET {mailbox.scene}
      BY FS_Singleton DEF Only
    <3>2. IsFiniteSet(Only(mailbox.scene))
      BY <3>1, FS_Subset
    <3> QED BY <3>2, FS_Union DEF Queueing
  <2> HIDE DEF frame
  <2>6. \A f \in mailbox'.replaced : f.seq < frame.seq
    BY <2>1, <2>3, <2>4 DEF Queueing
  <2>7. \A f \in mailbox'.replaced \cup Only(mailbox'.scene) : f.seq =< counters'.scenes
    BY <2>1, <2>3, <2>4, <2>6 DEF Only
  <2> QED BY <2>1, <2>2, <2>5, <2>6, <2>7 DEF Queueing
<1>3. CASE ~(SubmitScene /\ Admitted(Frame(counters.scenes + 1)))
  <2>1. UNCHANGED mailbox /\ UNCHANGED retired
    BY <1>3 DEF Loop, Configure, SetSecurity, Pause, Activate, Stop, SubmitScene, Handle, workerVars
  <2>2. counters.scenes \in Int /\ counters'.scenes \in {counters.scenes, counters.scenes + 1}
    BY DEF Loop, Configure, SetSecurity, Pause, Activate, Stop, SubmitScene, Handle, Types, LoopOK
  <2> QED BY <1>1, <2>1, <2>2
<1> QED BY <1>2, <1>3

\* A scene is submitted only to the pool in use.
LEMMA LoopLeases ==
  ASSUME Types, Types', Loop \/ Handle
  PROVE  /\ Leases \subseteq Leases'
         /\ \A f \in Leases' : f \in Leases \/ (output.pool # NoKey /\ f.key = output.pool)
         /\ Scenes' = Scenes /\ retired' = retired
         /\ UNCHANGED mailbox \/ output.pool # NoKey
         /\ fences' \subseteq fences \cup {f.seq : f \in Leases'}
<1>1. UNCHANGED workerVars
  BY DEF Loop, Configure, SetSecurity, Pause, Activate, Stop, SubmitScene, Handle
<1>2. Scenes' = Scenes /\ retired' = retired
  BY <1>1 DEF workerVars, Scenes
<1>3. CASE UNCHANGED <<mailbox, fences>>
  BY <1>2, <1>3 DEF Leases
<1>4. CASE SubmitScene /\ Admitted(Frame(counters.scenes + 1))
  <2> DEFINE frame == Frame(counters.scenes + 1)
  <2>1. /\ mailbox'.scene = frame
        /\ mailbox'.replaced = mailbox.replaced \cup Only(mailbox.scene)
        /\ fences' = fences \cup {frame.seq}
        /\ frame.key = output.pool /\ output.pool # NoKey
    BY <1>4 DEF SubmitScene, Rendering, Replaced, Types, LoopOK, Frame
  <2>2. frame # None
    BY DEF Frame, None
  <2> HIDE DEF frame
  <2>3. Leases' = Leases \cup {frame}
    BY <1>2, <2>1, <2>2 DEF Leases, Only
  <2> QED BY <1>2, <2>1, <2>3
<1> QED
  BY <1>3, <1>4 DEF Loop, Configure, SetSecurity, Pause, Activate, Stop, SubmitScene, Handle

LEMMA LoopPooled ==
  ASSUME Types, Types', Numbered, Pooled, Loop \/ Handle
  PROVE  Pooled'
<1>1. presenter'.configured = presenter.configured
  BY DEF Loop, Configure, SetSecurity, Pause, Activate, Stop, SubmitScene, Handle, workerVars
<1>2. CASE Configure \/ Pause \/ Activate
  <2>1. output'.generation = Now.generation + 1
    BY <1>2, OutputFields
  <2>2. ~Offered'
    <3>1. \A i \in 1..Len(reports) :
            reports[i].kind = "configured" => reports[i].generation # Now.generation + 1
      BY NumberTypes DEF Numbered
    <3>2. \A i \in 1..Len(reports') : reports'[i].kind = "configured" =>
            reports'[i].generation # output'.generation
      BY <2>1, <3>1, LoopEvents
    <3> QED BY <3>2 DEF Offered
  <2>3. output'.pool = NoKey
    <3>1. CASE Activate
      BY <3>1, OutputFields DEF Activate, Numbered
    <3> QED BY <1>2, <3>1, OutputFields
  <2> QED BY <2>2, <2>3 DEF Pooled
<1>3. CASE SetSecurity \/ Stop \/ SubmitScene \/ Handle
  <2>1. /\ output'.key = output.key /\ output'.generation = output.generation
        /\ Now'.configuration = Now.configuration /\ Now'.key = Now.key
    <3>1. CASE SetSecurity
      BY <3>1, OutputFields, AskedFields
    <3>2. CASE Stop \/ SubmitScene
      BY <3>2, OutputFields, AskedFields
    <3>3. CASE Handle
      BY <3>3, OutputFields, AskedFields
    <3> QED BY <1>3, <3>1, <3>2, <3>3
  <2>2. Offered' => Offered
    BY <2>1, LoopEvents DEF Offered
  <2>3. output'.pool # NoKey => Offered \/ output.pool # NoKey
    <3>1. CASE Handle /\ output'.pool # output.pool
      <4>1. 1 \in 1..Len(reports) /\ reports[1] = Head(reports)
        BY <3>1, HeadIsEvent DEF Handle, Types
      <4> QED BY <3>1, <4>1, OutputFields DEF Offered
    <3>2. CASE SetSecurity \/ Stop \/ SubmitScene
      BY <3>2, OutputFields
    <3> QED BY <1>3, <3>1, <3>2
  <2>4. Offered' \/ output'.pool # NoKey => \A f \in Leases' : f.key = output.key
    BY <2>2, <2>3, LoopLeases DEF Pooled, Numbered
  <2> QED BY <1>1, <2>1, <2>2, <2>3, <2>4 DEF Pooled
<1> QED BY <1>2, <1>3 DEF Loop

LEMMA LoopPreparing ==
  ASSUME Types, Types', Numbered, Pooled, Preparing, Loop \/ Handle
  PROVE  Preparing'
<1>1. UNCHANGED <<presenter, crtc>>
  BY DEF Loop, Configure, SetSecurity, Pause, Activate, Stop, SubmitScene, Handle, workerVars
<1>2. Scenes' = Scenes /\ retired' = retired
  BY LoopLeases
<1>3. Now'.generation \in {Now.generation, Now.generation + 1}
  BY AskedFields DEF Loop
<1>4. ASSUME presenter.pc \in {"check", "configure", "publish"},
             Held.generation = Now'.generation, Held.active, ~Held.stopped
      PROVE  Empty' /\ presenter.configured # Held.configuration
  <2>1. Held.generation = Now.generation
    BY <1>3, <1>4, NumberTypes DEF Numbered
  <2>2. Empty /\ presenter.configured # Held.configuration
    BY <1>4, <2>1 DEF Preparing
  <2>3. output.pool = NoKey
    BY <2>1, <2>2 DEF Numbered, Pooled
  <2>4. UNCHANGED mailbox
    BY <2>3, LoopLeases
  <2> QED BY <2>2, <2>4 DEF Empty
<1> QED BY <1>1, <1>2, <1>4 DEF Preparing, Held

LEMMA LoopFenced ==
  ASSUME Types, Types', Fenced, Loop \/ Handle
  PROVE  Fenced'
BY LoopLeases DEF Fenced

-----------------------------------------------------------------------------
(* Then the worker, the kernel and the GPU. *)
Elsewhere == Turn \/ Vblank \/ Flip \/ \E seq \in 1..MaxScenes : FenceReached(seq)

LEMMA ElsewhereLoop ==
  ASSUME Types, Elsewhere
  PROVE  UNCHANGED output /\ Now' = Now /\ UNCHANGED counters.scenes
<1>1. CASE Take
  <2>1. control' = [control EXCEPT !.pinged = FALSE] /\ UNCHANGED <<output, counters>>
    BY <1>1, TakeEffect
  <2> QED BY <2>1 DEF Types, LoopOK, Now
<1>2. CASE ConfigureOutput
  BY <1>2 DEF ConfigureOutput, loopVars, Now, Types, LoopOK
<1>3. CASE Submit
  BY <1>3 DEF Submit, loopVars, Now, Types, LoopOK
<1>4. CASE Check \/ Publish \/ Render \/ Queue
  BY <1>4 DEF Check, Publish, Render, Queue, loopVars, Now
<1>5. CASE Vblank \/ Flip \/ \E seq \in 1..MaxScenes : FenceReached(seq)
  BY <1>5 DEF Vblank, Flip, FenceReached, loopVars, Now
<1> QED BY <1>1, <1>2, <1>3, <1>4, <1>5 DEF Elsewhere, Turn

LEMMA ElsewhereEvents ==
  ASSUME Types, Types', Elsewhere
  PROVE  \A i \in 1..Len(reports') : reports'[i].kind = "configured" =>
           \/ \E j \in 1..Len(reports) : reports'[i] = reports[j]
           \/ /\ Publish /\ Permits /\ crtc # None
              /\ reports'[i].key = crtc.key /\ reports'[i].generation = Held.generation
<1>1. CASE UNCHANGED reports
  BY <1>1
<1>2. CASE Publish
  BY <1>2, PublishEvent
<1>3. CASE \E set \in SUBSET Frames : reports' = reports \o Discarded(set)
  BY <1>3, DiscardedKind DEF Types
<1>4. CASE Vblank /\ ~UNCHANGED reports
  <2>1. PICK f \in kernel.flips :
          crtc # None /\ reports' = Append(reports, [kind |-> "presented", key |-> crtc.key,
                                                     tag |-> f.tag, seq |-> f.seq])
    BY <1>4 DEF Vblank
  <2> DEFINE e == [kind |-> "presented", key |-> crtc.key, tag |-> f.tag, seq |-> f.seq]
  <2>2. e \in Presented
    BY <2>1 DEF Types, WorkerOK, KernelOK, Crtcs, Queued, Presented
  <2> QED BY <2>1, <2>2, OneMoreEvent DEF Types
<1>5. Take => \E set \in SUBSET Frames : reports' = reports \o Discarded(set)
  BY TakeEffect
<1>6. Check \/ ConfigureOutput \/ Submit \/ Queue \/ Flip
        \/ (\E seq \in 1..MaxScenes : FenceReached(seq)) => UNCHANGED reports
  BY DEF Check, ConfigureOutput, Submit, Queue, Flip, FenceReached
<1> QED BY <1>1, <1>2, <1>3, <1>4, <1>5, <1>6, RenderScenes DEF Elsewhere, Turn

\* No lease is lost while its fence is pending, and none is of another pool.
LEMMA LeasesPass ==
  ASSUME Types, Types', Preparing, Elsewhere
  PROVE  /\ \A f \in Leases' : \E g \in Leases : g.key = f.key /\ g.seq = f.seq
         /\ \A g \in Leases : g.seq \in fences => \E f \in Leases' : f.seq = g.seq
         /\ IsFiniteSet(mailbox.replaced) /\ IsFiniteSet(retired) => IsFiniteSet(retired')
         /\ UNCHANGED mailbox \/ Empty'
<1>1. CASE Take
  <2>1. PICK out \in SUBSET Frames :
           /\ retired' = {f \in retired \cup out : f.seq \in fences}
           /\ IsFiniteSet(mailbox.replaced) => IsFiniteSet(out)
           /\ Scenes' \subseteq Leases
           /\ \A f \in out : \E g \in Leases : g.key = f.key /\ g.seq = f.seq
           /\ \A g \in Leases : \/ g \in retired \/ g \in Scenes'
                                \/ \E f \in out : f.seq = g.seq
           /\ mailbox' = [scene |-> None, replaced |-> {}]
    BY <1>1, TakeEffect
  <2>2. Leases' = retired' \cup Scenes'
    BY <2>1 DEF Leases, Only
  <2>3. Empty'
    BY <2>1 DEF Empty
  <2>4. IsFiniteSet(mailbox.replaced) /\ IsFiniteSet(retired) => IsFiniteSet(retired')
    BY <2>1, FS_Union, FS_Subset
  <2>5. retired \subseteq Leases
    BY DEF Leases
  <2>6. \A f \in Leases' : \E g \in Leases : g.key = f.key /\ g.seq = f.seq
    BY <2>1, <2>2, <2>5
  <2>7. \A g \in Leases : g.seq \in fences => \E f \in Leases' : f.seq = g.seq
    BY <2>1, <2>2
  <2> QED BY <2>3, <2>4, <2>6, <2>7
<1>2. CASE UNCHANGED <<mailbox, retired>> /\ Scenes' = Scenes
  <2>1. Leases' = Leases
    BY <1>2 DEF Leases
  <2> QED BY <1>2, <2>1
<1>3. CASE Render
  <2>1. UNCHANGED mailbox
    BY <1>3 DEF Render, loopVars
  <2>2. Leases' = Leases
    BY <1>3, <2>1, RenderScenes DEF Leases
  <2>3. IsFiniteSet(retired) => IsFiniteSet(retired')
    BY <1>3, RenderScenes
  <2> QED BY <2>1, <2>2, <2>3
<1>4. CASE Queue
  <2>1. UNCHANGED <<mailbox, retired>>
    BY <1>4 DEF Queue, loopVars
  <2>2. /\ \A f \in Scenes' : \E g \in Scenes : g.seq = f.seq /\ g.key = f.key
        /\ \A g \in Scenes : \E f \in Scenes' : f.seq = g.seq
    BY <1>4, QueueScenes
  <2>3. \A f \in Leases' : \E g \in Leases : g.key = f.key /\ g.seq = f.seq
    BY <2>1, <2>2 DEF Leases
  <2>4. \A g \in Leases : \E f \in Leases' : f.seq = g.seq
    BY <2>1, <2>2 DEF Leases
  <2> QED BY <2>1, <2>3, <2>4
<1>5. Submit \/ Vblank => UNCHANGED <<mailbox, retired>> /\ Scenes' = Scenes
  BY SameScenes DEF Submit, Vblank, loopVars
<1>6. Check \/ Publish \/ Flip \/ (\E seq \in 1..MaxScenes : FenceReached(seq)) =>
        UNCHANGED <<mailbox, retired>> /\ Scenes' = Scenes
  BY DEF Check, Publish, Flip, FenceReached, loopVars, workerVars, Scenes
<1>7. ConfigureOutput => UNCHANGED <<mailbox, retired>> /\ Scenes' = Scenes
  <2> SUFFICES ASSUME ConfigureOutput PROVE UNCHANGED <<mailbox, retired>> /\ Scenes' = Scenes
    OBVIOUS
  <2>1. crtc = None /\ UNCHANGED <<mailbox, retired>>
    BY DEF ConfigureOutput, Preparing, loopVars
  <2>2. crtc' = None \/ (crtc'.scene = None /\ crtc'.desired = None)
    BY <2>1 DEF ConfigureOutput
  <2> QED BY <2>1, <2>2 DEF Scenes, Only
<1> QED BY <1>1, <1>2, <1>3, <1>4, <1>5, <1>6, <1>7 DEF Elsewhere, Turn

LEMMA ElsewhereNumbered ==
  ASSUME Types, Types', Numbered, Elsewhere
  PROVE  Numbered'
<1>1. UNCHANGED output /\ Now' = Now
  BY ElsewhereLoop
<1>2. Held' \in {Held, Now}
  <2>1. CASE Take
    BY <2>1, TakeEffect DEF Held, Types, WorkerOK
  <2>2. CASE ~Take
    BY <2>2 DEF Elsewhere, Turn, Check, ConfigureOutput, Publish, Render, Submit, Queue, Vblank,
       Flip, FenceReached, workerVars, Goto, Held, Types, WorkerOK
  <2> QED BY <2>1, <2>2
<1>3. Now.generation =< Now.generation
  BY NumberTypes
<1>4. \A i \in 1..Len(reports') :
        reports'[i].kind = "configured" => reports'[i].generation =< Now.generation
  BY ElsewhereEvents DEF Numbered
<1> QED BY <1>1, <1>2, <1>3, <1>4 DEF Numbered, Serving

LEMMA ElsewhereQueueing ==
  ASSUME Types, Types', Preparing, Queueing, Elsewhere
  PROVE  Queueing'
<1>1. UNCHANGED counters.scenes
  BY ElsewhereLoop
<1>2. CASE Empty'
  BY <1>2, LeasesPass, FS_EmptySet DEF Queueing, Empty, Only
<1>3. CASE UNCHANGED mailbox
  BY <1>1, <1>3, LeasesPass DEF Queueing
<1> QED BY <1>2, <1>3, LeasesPass

LEMMA ElsewherePreparing ==
  ASSUME Types, Types', Numbered, Preparing, Elsewhere
  PROVE  Preparing'
<1>1. Now' = Now
  BY ElsewhereLoop
<1>2. CASE Take
  <2>1. /\ presenter' = [presenter EXCEPT !.held = Now, !.tag = Now.tag,
                        !.pc = IF ~Changing THEN "render"
                               ELSE IF retired' # {} THEN "idle" ELSE "check"]
        /\ Changing => crtc' = None
        /\ mailbox' = [scene |-> None, replaced |-> {}]
    BY <1>2, TakeEffect
  <2>2. /\ presenter'.held = Now /\ presenter'.configured = presenter.configured
        /\ presenter'.pc = IF ~Changing THEN "render" ELSE IF retired' # {} THEN "idle" ELSE "check"
    BY <2>1 DEF Types, WorkerOK
  <2>3. Empty'
    BY <2>1 DEF Empty
  <2>4. presenter'.pc \in {"check", "configure", "publish"} =>
          presenter'.pc = "check" /\ Changing /\ retired' = {} /\ crtc' = None
    BY <2>1, <2>2
  <2>5. Changing /\ Now.active /\ ~Now.stopped => presenter.configured # Now.configuration
    BY DEF Changing, Serving
  <2>6. crtc' = None => Scenes' = {}
    BY DEF Scenes
  <2> QED BY <1>1, <2>2, <2>3, <2>4, <2>5, <2>6 DEF Preparing, Held
<1>3. CASE Check
  <2>1. UNCHANGED <<mailbox, crtc, retired>> /\ Scenes' = Scenes
    BY <1>3 DEF Check, loopVars, Scenes
  <2>2. presenter'.held = Held /\ presenter'.configured = presenter.configured
        /\ presenter.pc = "check"
        /\ \/ presenter'.pc \in {"idle", "done"}
           \/ presenter'.pc = "configure" /\ Now.generation = Held.generation
              /\ Held.active /\ ~Held.stopped
    BY <1>3 DEF Check, Goto, Held, Serving, Types, WorkerOK
  <2> QED BY <1>1, <2>1, <2>2 DEF Preparing, Empty, Held
<1>4. CASE ConfigureOutput
  <2>1. UNCHANGED <<mailbox, retired>> /\ presenter.pc = "configure"
    BY <1>4 DEF ConfigureOutput, loopVars
  <2>2. presenter'.held = Held /\ presenter'.configured = presenter.configured
        /\ presenter'.pc \in {"idle", "publish"}
    BY <1>4 DEF ConfigureOutput, Goto, Held, Types, WorkerOK
  <2>3. crtc = None
    BY <2>1 DEF Preparing
  <2>4. crtc' = None \/ (crtc'.scene = None /\ crtc'.desired = None /\ crtc'.key = Held.key)
    BY <1>4, <2>3 DEF ConfigureOutput
  <2>5. Scenes' = {}
    BY <2>4 DEF Scenes, Only
  <2> QED BY <1>1, <2>1, <2>2, <2>4, <2>5 DEF Preparing, Empty, Held
<1>5. CASE Publish \/ Render \/ Submit \/ Queue \/ Vblank
  <2>1. presenter'.pc \in {"render", "idle", "submit", "queue", "turn"}
    BY <1>5 DEF Publish, Render, Submit, Queue, Vblank, Goto, Types, WorkerOK
  <2> QED BY <2>1 DEF Preparing
<1>6. CASE Flip \/ \E seq \in 1..MaxScenes : FenceReached(seq)
  <2>1. UNCHANGED <<mailbox, presenter, crtc, retired>> /\ Scenes' = Scenes
    BY <1>6 DEF Flip, FenceReached, loopVars, workerVars, Scenes
  <2> QED BY <1>1, <2>1 DEF Preparing, Empty, Held
<1> QED BY <1>2, <1>3, <1>4, <1>5, <1>6 DEF Elsewhere, Turn

LEMMA ElsewherePooled ==
  ASSUME Types, Types', Numbered, Preparing, Pooled, Elsewhere
  PROVE  Pooled'
<1>1. UNCHANGED output /\ Now' = Now
  BY ElsewhereLoop
<1>2. CASE Publish /\ Permits
  <2>1. /\ presenter.pc = "publish" /\ Held.generation = Now.generation
        /\ presenter'.configured = Held.configuration
        /\ UNCHANGED <<mailbox, retired>> /\ Scenes' = Scenes
    BY <1>2 DEF Publish, Permits, loopVars, Scenes, Types, WorkerOK
  <2>2. Held.configuration = Now.configuration /\ Held.key = Now.key
    BY <2>1 DEF Numbered
  <2>3. Empty /\ presenter.configured # Held.configuration /\ retired = {} /\ Scenes = {}
    BY <2>1 DEF Preparing
  <2>4. ~Offered /\ output.pool = NoKey
    BY <2>2, <2>3 DEF Pooled
  <2>5. Leases' = {}
    BY <2>1, <2>3 DEF Leases, Empty, Only
  <2>6. Offered' => output.key = Now.key
    <3>1. SUFFICES ASSUME NEW i \in 1..Len(reports'), reports'[i].kind = "configured",
                          reports'[i].key = output.key,
                          reports'[i].generation = output.generation
                   PROVE  output.key = Now.key
      BY <1>1 DEF Offered
    <3>2. ~\E j \in 1..Len(reports) : reports'[i] = reports[j]
      BY <2>4, <3>1 DEF Offered
    <3>3. crtc # None /\ reports'[i].key = crtc.key
      BY <3>1, <3>2, ElsewhereEvents
    <3> QED BY <2>1, <2>2, <3>1, <3>3 DEF Preparing
  <2> QED BY <1>1, <2>1, <2>2, <2>4, <2>5, <2>6 DEF Pooled
<1>3. CASE ~(Publish /\ Permits)
  <2>1. Offered' => Offered
    BY <1>1, <1>3, ElsewhereEvents DEF Offered
  <2>2. presenter'.configured = presenter.configured
    <3>1. CASE Take
      BY <3>1, TakeEffect DEF Types, WorkerOK
    <3>2. CASE ~Take
      BY <1>3, <3>2 DEF Elsewhere, Turn, Check, ConfigureOutput, Publish, Render, Submit, Queue,
         Vblank, Flip, FenceReached, workerVars, Goto, Types, WorkerOK
    <3> QED BY <3>1, <3>2
  <2>3. (\A f \in Leases : f.key = output.key) => (\A f \in Leases' : f.key = output.key)
    BY LeasesPass
  <2> QED BY <1>1, <2>1, <2>2, <2>3 DEF Pooled
<1> QED BY <1>2, <1>3

LEMMA ElsewhereFenced ==
  ASSUME Types, Types', Preparing, Fenced, Elsewhere
  PROVE  Fenced'
<1>1. CASE Submit
  <2>1. crtc \in Crtcs /\ crtc # None /\ UNCHANGED mailbox /\ UNCHANGED retired
    BY <1>1, SubmitTypes, CrtcIsSome DEF Submit, loopVars
  <2>2. Only(crtc.scene) \subseteq Scenes
    BY <2>1 DEF Scenes
  <2>3. Leases' = Leases
    BY <1>1, <2>1, SameScenes DEF Leases
  <2> QED BY <1>1, <2>2, <2>3 DEF Submit, Fenced, Leases
<1>2. CASE fences' \subseteq fences
  BY <1>2, LeasesPass DEF Fenced
<1>3. Take => fences' = fences
  BY TakeEffect
<1> QED BY <1>1, <1>2, <1>3
   DEF Elsewhere, Turn, Check, ConfigureOutput, Publish, Render, Queue, Vblank, Flip, FenceReached

LEMMA OwnedInit == Init => Owned
<1> SUFFICES ASSUME Init PROVE Owned
  OBVIOUS
<1>1. Scenes = {} /\ Leases = {}
  BY DEF Init, Scenes, Leases, Only
<1>2. Numbered
  BY DEF Init, Numbered, Now, Held, Serving
<1>3. Queueing
  BY FS_EmptySet DEF Init, Queueing, Only
<1>4. Preparing
  BY DEF Init, Preparing
<1>5. Pooled
  BY DEF Init, Pooled, Offered
<1>6. Fenced
  BY DEF Init, Fenced
<1> QED BY <1>2, <1>3, <1>4, <1>5, <1>6 DEF Owned

LEMMA OwnedKept ==
  ASSUME Types, Owned, [Next]_presenterVars
  PROVE  Types' /\ Owned'
<1>1. Types'
  BY TypesKept
<1>2. CASE Loop \/ Handle
  BY <1>1, <1>2, LoopNumbered, LoopQueueing, LoopPreparing, LoopPooled, LoopFenced DEF Owned
<1>3. CASE Elsewhere
  BY <1>1, <1>3, ElsewhereNumbered, ElsewhereQueueing, ElsewherePreparing, ElsewherePooled,
     ElsewhereFenced DEF Owned
<1>4. CASE UNCHANGED presenterVars
  <2>1. UNCHANGED <<control, mailbox, output, presenter, crtc, retired, fences, reports, counters>>
    BY <1>4 DEF presenterVars, loopVars, workerVars
  <2>2. Scenes' = Scenes /\ Now' = Now /\ Held' = Held
    BY <2>1 DEF Scenes, Now, Held
  <2>3. Leases' = Leases
    BY <2>1, <2>2 DEF Leases
  <2>4. Numbered' /\ Queueing' /\ Preparing'
    BY <2>1, <2>2 DEF Owned, Numbered, Queueing, Preparing, Empty, Serving
  <2>5. Pooled' /\ Fenced'
    BY <2>1, <2>2, <2>3 DEF Owned, Pooled, Offered, Fenced
  <2> QED BY <1>1, <2>4, <2>5 DEF Owned
<1> QED BY <1>2, <1>3, <1>4 DEF Next, Elsewhere

LEMMA TypesImply == Types => PresenterTypeOK
BY DEF Types, LoopOK, WorkerOK, KernelOK, PresenterTypeOK

\* Every buffer that is leased is of the pool in use, no scene is lost while its
\* fence is pending, and the mailbox admits every scene the event loop may
\* render, for any pool of at least two buffers: in each configuration, however
\* many scenes are replaced and whenever the configuration changes.
THEOREM ScenesKept == Spec => []LeasesKept
<1>1. ASSUME Types, Owned, Rendering
      PROVE  Admitted(Frame(MaxScenes))
  <2> DEFINE frame == Frame(MaxScenes)
             pooled == {f \in Leases : f.key = output.pool}
             olds == {f \in mailbox.replaced : f.key = frame.key}
  <2>1. output.pool = output.key /\ output.key = Now.key /\ Now.active /\ Serving
        /\ output.pool # NoKey
    BY <1>1 DEF Rendering, Owned, Numbered, Pooled
  <2>2. frame.tag = Now.tag /\ frame.key = Now.key
    BY <2>1 DEF Frame
  <2>3. pooled = Leases /\ olds \subseteq mailbox.replaced
    BY <1>1, <2>1 DEF Owned, Pooled
  <2>4. IsFiniteSet(Leases)
    <3>1. Scenes \subseteq {crtc.scene, crtc.desired} /\ Only(mailbox.scene) \in SUBSET {mailbox.scene}
      BY DEF Scenes, Only
    <3>2. IsFiniteSet({crtc.scene} \cup {crtc.desired}) /\ IsFiniteSet({mailbox.scene})
      BY FS_Singleton, FS_AddElement
    <3>3. {crtc.scene} \cup {crtc.desired} = {crtc.scene, crtc.desired}
      OBVIOUS
    <3>4. IsFiniteSet(Scenes) /\ IsFiniteSet(Only(mailbox.scene))
      BY <3>1, <3>2, <3>3, FS_Subset
    <3> QED BY <1>1, <3>4, FS_Union DEF Leases, Owned, Queueing
  <2>5. Cardinality(Leases) < Slots /\ Cardinality(Leases) \in Nat
    BY <1>1, <2>3, <2>4, FS_CardinalityType DEF Rendering, HasSlot
  <2>6. IsFiniteSet(mailbox.replaced) /\ IsFiniteSet(olds)
        /\ Cardinality(olds) =< Cardinality(mailbox.replaced)
    BY <1>1, <2>3, FS_Subset DEF Owned, Queueing
  <2>7. Cardinality(mailbox.replaced) \in Nat /\ Cardinality(olds) \in Nat
    BY <2>6, FS_CardinalityType
  <2>8. Cardinality(mailbox.replaced) < Slots - 1
    <3>1. CASE mailbox.replaced = {}
      BY <3>1, FS_EmptySet, Constants
    <3>2. CASE mailbox.replaced # {}
      <4>1. mailbox.scene # None /\ mailbox.scene \notin mailbox.replaced
        <5>1. PICK f \in mailbox.replaced : mailbox.scene # None
          BY <1>1, <3>2 DEF Owned, Queueing
        <5>2. mailbox.scene \in Frames
          BY <1>1, <5>1 DEF Types, LoopOK
        <5>3. ~(mailbox.scene.seq < mailbox.scene.seq)
          BY <5>2 DEF Frames
        <5> QED BY <1>1, <5>1, <5>3 DEF Owned, Queueing
      <4>2. Cardinality(mailbox.replaced \cup {mailbox.scene})
              = Cardinality(mailbox.replaced) + 1
        BY <2>6, <4>1, FS_AddElement
      <4>3. mailbox.replaced \cup {mailbox.scene} \subseteq Leases
        BY <4>1 DEF Leases, Only
      <4>4. Cardinality(mailbox.replaced \cup {mailbox.scene}) =< Cardinality(Leases)
        BY <2>4, <4>3, FS_Subset
      <4> QED BY <2>5, <2>7, <4>2, <4>4, Constants
    <3> QED BY <3>1, <3>2
  <2>9. Cardinality(olds) < Slots - 1
    BY <2>6, <2>7, <2>8, Constants
  <2> QED BY <2>1, <2>2, <2>9 DEF Admitted
<1>2. Types /\ Owned => LeasesKept
  BY <1>1, TypesImply DEF LeasesKept, Owned, Pooled, Numbered, Fenced
<1>3. Types /\ Owned /\ [Next]_presenterVars => (Types /\ Owned)'
  BY OwnedKept
<1>4. Init => Types /\ Owned
  BY TypesInit, OwnedInit
<1> QED BY <1>2, <1>3, <1>4, PTL DEF Spec
=============================================================================

----------------------------- MODULE PresenterState ----------------------------
(***************************************************************************)
(* What Presenter keeps, and what it promises of it, whatever its steps    *)
(* are: the event loop, the mailbox, one worker and the kernel.  A pool    *)
(* has four buffers in the program (the mailbox admits three replaced      *)
(* scenes and a new one).                                                  *)
(***************************************************************************)
EXTENDS Integers, Sequences, FiniteSets

CONSTANTS Slots,              \* buffers of the pool of scenes
          MaxTag, MaxKey, MaxScenes, MaxPauses, MaxFaults  \* bounds

\* One buffer is replaced while another waits; the first tag is the initial one.
ASSUME PoolAssumption == Slots \in Nat /\ Slots > 1
ASSUME PresenterAssumption ==
  /\ MaxTag \in Nat \ {0} /\ MaxKey \in Nat /\ MaxScenes \in Nat
  /\ MaxPauses \in Nat /\ MaxFaults \in Nat

None == <<>>
Blank == 0                    \* a black screen, or that of another session
NoKey == 0

VARIABLES
  control,   \* the mailbox: what is asked of the worker, and whether it was woken
  mailbox,   \* the scene to be taken, and those it has replaced
  output,    \* the event loop: the key it has a pool for, and the scene not yet shown
  presenter, \* the worker: where it is in its turn, and the control it holds
  crtc,      \* its Output and Schedule
  retired,   \* its scenes that wait for their fences
  fences,    \* the scenes with a fence that is not reached
  kernel,    \* the frame queued, the page flips to be read, and what the screen shows
  reports,   \* from the worker to the event loop
  shown,     \* history: the key and tag of the last presentation it accepted
  counters   \* bounds only: scenes, pauses, faults, and the surfaces created
presenterVars == <<control, mailbox, output, presenter, crtc, retired, fences, kernel, reports,
                   shown, counters>>

Tags == 1..MaxTag
Keys == 1..MaxKey
Frames == [seq : 1..MaxScenes, tag : Tags, key : Keys, submitted : BOOLEAN]
Queued == [tag : Tags, content : Tags \cup {Blank}, seq : 0..MaxScenes, surface : Nat]
Controls == [generation : Nat, configuration : Nat, key : Keys \cup {NoKey},
             active : BOOLEAN, stopped : BOOLEAN, tag : Tags]
Crtcs == [key : Keys, surface : Nat, scene : Frames \cup {None}, desired : Frames \cup {None},
          pending : BOOLEAN, dirty : BOOLEAN, failed : BOOLEAN, force : BOOLEAN,
          opportunity : BOOLEAN, modeset : BOOLEAN, untimedRetry : BOOLEAN]

PresenterTypeOK ==
  /\ control \in [now : Controls, pinged : BOOLEAN]
  /\ mailbox.scene \in Frames \cup {None} /\ mailbox.replaced \subseteq Frames
  /\ output \in [key : Keys \cup {NoKey}, generation : Nat, pool : Keys \cup {NoKey},
                 pending : 0..MaxScenes, last : 0..MaxScenes]
  /\ presenter.pc \in {"idle", "turn", "check", "configure", "publish", "render",
                       "submit", "queue", "done"}
  /\ presenter.held \in Controls
  /\ crtc \in Crtcs \cup {None}
  /\ retired \subseteq Frames /\ fences \subseteq 1..MaxScenes
  /\ kernel.queued \in Queued \cup {None} /\ kernel.flips \subseteq Queued
  /\ kernel.screen \in Tags \cup {Blank}

Only(frame) == {frame} \ {None}

Now == control.now
Serving == ~Now.stopped

Scenes == IF crtc = None THEN {} ELSE Only(crtc.scene) \cup Only(crtc.desired)
Leases == mailbox.replaced \cup Only(mailbox.scene) \cup retired \cup Scenes
HasSlot == Cardinality({f \in Leases : f.key = output.pool}) < Slots

Rendering == output.pool # NoKey /\ Now.active /\ Serving /\ output.pending = 0 /\ HasSlot
Frame(seq) == [seq |-> seq, tag |-> Now.tag, key |-> output.pool, submitted |-> FALSE]
Admitted(frame) ==
  /\ Now.active /\ Serving
  /\ frame.tag = Now.tag /\ frame.key = Now.key
  /\ Cardinality({f \in mailbox.replaced : f.key = frame.key}) < Slots - 1

Accepts(e) ==
  /\ e.kind = "presented"
  /\ Now.active /\ Serving /\ e.tag = Now.tag
  /\ e.key = output.pool /\ e.seq >= output.last

-----------------------------------------------------------------------------
\* When the event loop accepts a presentation, and with it may confirm a lock,
\* the screen shows nothing, or a scene of the security state in force, whatever
\* the worker had checked, rendered or queued when that state began.
PresentationTruthful ==
  [][\A e \in {reports[i] : i \in 1..Len(reports)} :
       (reports = <<e>> \o reports' /\ Accepts(e)) =>
         kernel.screen \in {Blank, Now.tag}]_presenterVars

\* When a pool is in use every buffer still leased is one of it: none of an
\* earlier configuration is being drawn to or read.  No scene is lost with its
\* fence pending, and a scene the event loop may render will not be refused
\* (which would close the device).
LeasesKept ==
  /\ PresenterTypeOK
  /\ output.pool # NoKey => \A f \in Leases : f.key = output.pool
  /\ fences \subseteq {f.seq : f \in Leases}
  /\ Rendering => Admitted(Frame(MaxScenes))
=============================================================================

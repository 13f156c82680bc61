-------------------------- MODULE MCCompositorThreads --------------------------
(* Threads and tasks that answer the event loop of the compositor: the one     *)
(* that times idle windows (IdleTracker: two windows and two levels), the one  *)
(* that gathers windows into a group (WindowGroup: two windows; the last       *)
(* change by a client and the last request are not both made), those that      *)
(* capture the screen (ScreenCapture: two requests and a lock, or one and an   *)
(* unlock too), those that launch (PendingLaunch: a command, and a launch of   *)
(* the compositor's own that competes for the one slot, without faults), and   *)
(* the shell's that adjusts devices (DeviceControls: a key and a slider around *)
(* a lock, sliders of both devices, two keys around a lock).  They share no    *)
(* state, so a behaviour moves one of them: the states add up.                 *)
EXTENDS IdleTracker

CONSTANTS w1, w2, a, b, r1, r2, l1, l2
TwoWindows == {w1, w2}
TwoLevels == <<1, 2>>
TwoTitles == {a, b}
TwoRequests == {r1, r2}
TwoLaunches == {l1, l2}

CONSTANTS Titles, Hidden, NoRequest, MaxGathers, MaxChanges, MaxDeaths,
          CaptureRequests, MaxRequests, MaxJobs, MaxScenes, MaxEpoch, MaxFaults, MaxEvents,
          MaxLevel, MaxPending, MaxQueue, MaxKeys, MaxSliders, MaxLocks,
          Launches, MaxWorkers, MaxSessionChanges

VARIABLES titles, scene, group, worker, channel, cancelled, counters
groupVars == <<titles, scene, group, worker, channel, cancelled, counters>>

Group == INSTANCE WindowGroup WITH
  None <- NoRequest, MaxGeneration <- MaxGathers
ASSUME NoRequestAssumption == NoRequest \notin Group!Requests \cup Group!Answers

VARIABLES locked, lockGeneration, requested, staged, encoder, presentation, presenting, events,
          began, answers, flipped, captureCounters
captureVars == <<locked, lockGeneration, requested, staged, encoder, presentation, presenting,
                 events, began, answers, flipped, captureCounters>>

Capture == INSTANCE ScreenCapture WITH
  Requests <- CaptureRequests, generation <- lockGeneration, pending <- requested,
  jobs <- encoder, loop <- presentation, scene <- presenting, counters <- captureCounters
ASSUME CaptureAssumption ==
  MaxRequests \in Nat /\ MaxJobs \in Nat /\ MaxScenes \in Nat /\ MaxEpoch \in Nat

\* Of two requests, without an unlock; or of one.
CaptureScenario(side) ==
  \/ side = "lock" /\ lockGeneration' < 2
  \/ side = "unlock" /\ began'[r2] = <<>>

VARIABLES listening, available, tokens, presses, nextId, unanswered, levels, osd, requests,
          queue, job, polling, updates, level, locks, sequence, spent
controlVars == <<listening, available, tokens, presses, nextId, unanswered, levels, osd,
                 requests, queue, job, polling, updates, level, locks, sequence, spent>>

Controls == INSTANCE DeviceControls WITH
  Devices <- {"volume", "brightness"}, events <- presses, pending <- unanswered,
  snapshot <- levels, channel <- requests
ASSUME ControlAssumption ==
  MaxLevel \in Nat /\ MaxPending \in Nat \ {0} /\ MaxQueue \in Nat \ {0}

ControlScenario(side) ==
  LET used(d, keys, sliders) == spent'[d].keys <= keys /\ spent'[d].sliders <= sliders
  IN \/ side = "volume" /\ used("volume", 1, 1) /\ used("brightness", 0, 0)
        /\ available' = listening'
     \/ side = "keys" /\ used("volume", 2, 0) /\ used("brightness", 0, 0)
     \/ side = "sliders" /\ used("volume", 0, 2) /\ used("brightness", 0, 1) /\ locks' = 0
        /\ available'

VARIABLES caller, connection, mail, source, messages, command, accepted, display, revoked,
          late, launcher, kind, child, slots, admissible, sessionChanges, faultsOfLaunches
launchVars == <<caller, connection, mail, source, messages, command, accepted, display, revoked,
                late, launcher, kind, child, slots, admissible, sessionChanges,
                faultsOfLaunches>>

Launching == INSTANCE PendingLaunch WITH
  MaxChanges <- MaxSessionChanges, cancelled <- revoked, worker <- launcher, changes <- sessionChanges,
  faults <- faultsOfLaunches
ASSUME LaunchAssumption ==
  /\ IsFiniteSet(Launches)
  /\ MaxWorkers \in Nat /\ MaxSessionChanges \in Nat /\ MaxFaults \in Nat

OneCommand ==
  /\ caller[l2] \in {"idle", "internal", "error"}
  /\ caller[l2] # "idle" => sessionChanges = 0 /\ faultsOfLaunches = 0

VARIABLE side
Captures == {"lock", "unlock"}
Devices == {"volume", "keys", "sliders"}

ThreadsInit ==
  /\ Init /\ Group!Init /\ Capture!Init /\ Controls!Init /\ Launching!Init
  /\ side \in {"idle", "group", "launches"} \cup Captures \cup Devices
  /\ side # "group" => titles = [w \in Windows |-> a]
ThreadsNext ==
  \/ side = "idle" /\ Next /\ UNCHANGED <<groupVars, captureVars, controlVars, launchVars, side>>
  \/ /\ side = "group" /\ Group!User /\ UNCHANGED <<vars, captureVars, controlVars, launchVars, side>>
     /\ counters'.changes < MaxChanges \/ group'.generation < MaxGathers
  \/ /\ side = "group" /\ UNCHANGED <<vars, captureVars, controlVars, launchVars, side>>
     /\ Group!Thread \/ Group!Receive \/ Group!Maintain
  \/ /\ side \in Captures /\ Capture!Next /\ CaptureScenario(side)
     /\ UNCHANGED <<vars, groupVars, controlVars, launchVars, side>>
  \/ /\ side \in Devices /\ Controls!Next /\ ControlScenario(side)
     /\ UNCHANGED <<vars, groupVars, captureVars, launchVars, side>>
  \/ /\ side = "launches" /\ Launching!Next /\ OneCommand'
     /\ UNCHANGED <<vars, groupVars, captureVars, controlVars, side>>

\* The fairness of each module, for the side that moves.  Nothing that the group's
\* or the launches' is about is enabled in their initial states.
CaptureFairness ==
  LET moves == side \in Captures
  IN /\ WF_captureVars(moves /\ (Capture!Presented \/ Capture!Discarded))
     /\ WF_captureVars(moves /\ Capture!Turn)
     /\ WF_captureVars(moves /\ Capture!Present) /\ WF_captureVars(moves /\ Capture!Encode)
ControlFairness ==
  LET moves == side \in Devices
  IN /\ WF_controlVars(moves /\ Controls!KeyEvent) /\ WF_controlVars(moves /\ Controls!Update)
     /\ WF_controlVars(moves /\ Controls!OsdExpires) /\ WF_controlVars(moves /\ Controls!Task)
ThreadsSpec ==
  /\ ThreadsInit
  /\ [][ThreadsNext]_<<vars, groupVars, captureVars, controlVars, launchVars, side>>
  /\ Group!Fairness /\ Launching!Fairness /\ CaptureFairness /\ ControlFairness

\* The deadlines that are pending are those of the idle windows, the request that is pending
\* is the one the thread works for, and every capture is held in one place.  A slot is held by
\* one launch, and success is told only of what was started.  The token of a key is accepted
\* only in the session of the press, requests are adjusted in their order, and a value hides the
\* measured one only while its request is unanswered.
ThreadsSound ==
  /\ DeadlinesSound /\ Group!TypeOK /\ Group!GatherKept
  /\ Capture!HeldOnce /\ Launching!LaunchesSound
  /\ Controls!TypeOK /\ Controls!ControlsSound

JoinsAsJudged == Group!JoinsAsJudged
CapturesPresented == Capture!CapturesPresented
RefusedNeverStarts == Launching!RefusedNeverStarts

\* Every capture is answered; every gathering and every launch ends, and what the controls
\* show is what the devices have.
CapturesAnswered == Capture!CapturesAnswered
ThreadsSettle == Group!GatherEnds /\ Launching!LaunchEnds(l1) /\ Controls!ControlsSettle
==============================================================================

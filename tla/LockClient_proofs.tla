-------------------------- MODULE LockClient_proofs --------------------------
(***************************************************************************)
(* The safety of the lock process, for every set of monitors, number of    *)
(* passwords and number of changes: types, exit status, one conversation,  *)
(* forgotten secrets, and that the session leaves it only for the password *)
(* of the last attempt, which PAM accepted.                                *)
(***************************************************************************)
EXTENDS LockClient, TLAPS

\* The Wayland conversation is always at one of these points.
Handshake ==
  \/ /\ lock = "idle" /\ requests = <<>> /\ events = <<>> /\ deskHolder # Locker
  \/ /\ lock = "pending" /\ requests = <<"lock">> /\ events = <<>> /\ deskHolder # Locker
  \/ /\ lock = "pending" /\ requests = <<>> /\ events = <<>>
     /\ deskHolder = Locker /\ ~deskAcknowledged
  \/ /\ lock = "pending" /\ requests = <<>> /\ events = <<"locked">>
     /\ deskHolder = Locker /\ deskAcknowledged
  \/ /\ lock = "pending" /\ requests = <<>> /\ events = <<"finished">>
     /\ deskHolder # Locker
  \/ /\ lock = "locked" /\ requests = <<>> /\ events = <<>>
     /\ deskHolder = Locker /\ deskAcknowledged
  \/ /\ lock = "released" /\ requests = <<"unlock">> /\ events = <<>>
     /\ deskHolder = Locker /\ deskAcknowledged
  \/ /\ lock \in {"released", "over"} /\ requests = <<>> /\ events = <<>>
     /\ deskHolder # Locker

\* The compositor's phase and holder agree.
DeskConsistent ==
  /\ deskHolder = Nobody <=> deskPhase # "held"
  /\ deskAcknowledged => deskPhase = "held"

\* The phase and the library's state agree between callbacks.
PhaseFollowsLock ==
  /\ phase # "UnlockRequested"
  /\ phase = "Completed" <=> lock = "released"
  /\ phase = "Locked" => lock = "locked"
  /\ phase = "Acquiring" => lock \in {"idle", "pending"}
  /\ process = "starting" => lock = "idle" /\ phase = "Acquiring"

\* What was granted, PAM accepted: the password of the attempt begun last.
GrantsAreAccepted ==
  authenticated \/ lock = "released"
    => generation \in Attempts /\ worker[generation] = "accepted"

\* The attempt that is under way is the one begun last, and the only thread at work is
\* the one whose channel is polled.
ThreadsArePolled ==
  /\ attempt \in {0, generation}
  /\ \A g \in Attempts : g > generation => worker[g] = "none"
  /\ \A g \in Attempts :
       worker[g] = "working" => receiver = g /\ (attempt = g \/ ~AcceptsOutputs)

ScreensFollow == Busy => busyScreens = screens

IInv ==
  /\ TypeOK
  /\ Handshake /\ DeskConsistent
  /\ PhaseFollowsLock /\ HonestExit
  /\ GrantsAreAccepted /\ ThreadsArePolled
  /\ ScreensFollow /\ NoForgottenSecret
-----------------------------------------------------------------------------
\* Sequences of one message, which is all the socket ever holds.
LEMMA OneMessage ==
  /\ \A x : Head(<<x>>) = x /\ Tail(<<x>>) = <<>> /\ <<x>> # <<>>
  /\ \A x : Append(<<>>, x) = <<x>>
  /\ \A x, y : <<x>> = <<y>> => x = y
  OBVIOUS

\* The sequences of a handshake have their type.
LEMMA SocketTypes ==
  /\ {<<>>, <<"lock">>, <<"unlock">>} \subseteq Seq({"lock", "unlock"})
  /\ {<<>>, <<"locked">>, <<"finished">>} \subseteq Seq({"locked", "finished"})
<1>1. \A S : <<>> \in Seq(S) /\ \A x \in S : <<x>> \in Seq(S)
  OBVIOUS
<1> QED
  BY <1>1

(***************************************************************************)
(* Initially.                                                              *)
(***************************************************************************)
LEMMA InitInv == Init => IInv
<1> SUFFICES ASSUME Init PROVE IInv
  OBVIOUS
<1> USE BoundAssumption, ClientAssumption DEF Init, Compositor!Init
<1>1. TypeOK
  <2>1. Compositor!TypeOK
    BY DEF Compositor!TypeOK
  <2>2. requests \in Seq({"lock", "unlock"}) /\ events \in Seq({"locked", "finished"})
    BY SocketTypes
  <2>3. SessionTypes
    BY DEF SessionTypes, Attempts
  <2>4. ScreenTypes
    BY DEF ScreenTypes
  <2> QED
    BY <2>1, <2>2, <2>3, <2>4 DEF TypeOK
<1>2. Handshake /\ DeskConsistent /\ PhaseFollowsLock /\ HonestExit
  BY DEF Handshake, DeskConsistent, PhaseFollowsLock, HonestExit
<1>3. GrantsAreAccepted /\ ThreadsArePolled /\ ScreensFollow /\ NoForgottenSecret
  BY DEF GrantsAreAccepted, ThreadsArePolled, ScreensFollow, NoForgottenSecret, Attempts
<1> QED
  BY <1>1, <1>2, <1>3 DEF IInv

\* The handshake with the compositor is preserved.
LEMMA HandStep == IInv /\ [Next]_vars => (Handshake /\ DeskConsistent)'
<1> SUFFICES ASSUME IInv, [Next]_vars PROVE (Handshake /\ DeskConsistent)'
  OBVIOUS
<1>1. CASE Activate
  BY <1>1, BoundAssumption, ClientAssumption DEF IInv, Handshake,
     DeskConsistent, PhaseFollowsLock, Live, AcceptsOutputs, Busy, stateVars,
     threadVars, screenVars, deskVars, clientVars, Activate, Fail,
     UpdateScreens
<1>2. CASE ReceiveLocked
  <2>1. /\ lock = "pending" /\ requests = <<>> /\ events = <<"locked">>
        /\ deskHolder = Locker /\ deskAcknowledged
    BY <1>2, OneMessage DEF IInv, Handshake, ReceiveLocked, Receive
  <2>2. /\ events' = <<>> /\ UNCHANGED deskVars
        /\ \/ lock' = "locked" /\ requests' = <<>>
           \/ lock' = "released" /\ requests' = <<"unlock">>
    BY <1>2, <2>1, OneMessage DEF ReceiveLocked, Receive, UnlockIfReady, SettlePhase, Fail
  <2> QED
    BY <2>1, <2>2 DEF IInv, Handshake, DeskConsistent, deskVars
<1>3. CASE ReceiveFinished
  <2>1. /\ lock = "pending" /\ requests = <<>> /\ events = <<"finished">>
        /\ deskHolder # Locker
    BY <1>3, OneMessage DEF IInv, Handshake, ReceiveFinished, Receive
  <2>2. events' = <<>> /\ UNCHANGED deskVars /\ lock' = "over" /\ requests' = <<>>
    BY <1>3, <2>1, OneMessage DEF ReceiveFinished, Receive, Fail
  <2> QED
    BY <2>1, <2>2 DEF IInv, Handshake, DeskConsistent, deskVars
<1>4. ASSUME NEW g \in Attempts, Authenticate(g) PROVE (Handshake /\ DeskConsistent)'
  BY <1>4, BoundAssumption, ClientAssumption DEF IInv, Handshake,
     DeskConsistent, PhaseFollowsLock, Live, AcceptsOutputs, Busy, stateVars,
     threadVars, screenVars, deskVars, clientVars, Authenticate
<1>5. CASE Poll
  <2>1. UNCHANGED <<events, deskVars>>
    BY <1>5 DEF Poll
  <2>2. \/ UNCHANGED <<lock, requests>>
        \/ lock = "locked" /\ lock' = "released" /\ requests' = Append(requests, "unlock")
    BY <1>5 DEF Poll, UnlockIfReady, SettlePhase, Fail
  <2>3. CASE UNCHANGED <<lock, requests>>
    BY <2>1, <2>3 DEF IInv, Handshake, DeskConsistent, deskVars
  <2>4. CASE lock = "locked" /\ lock' = "released" /\ requests' = Append(requests, "unlock")
    <3>1. requests = <<>> /\ events = <<>> /\ deskHolder = Locker /\ deskAcknowledged
      BY <2>4 DEF IInv, Handshake
    <3>2. requests' = <<"unlock">>
      BY <3>1, <2>4, OneMessage
    <3> QED
      BY <3>1, <3>2, <2>1, <2>4 DEF IInv, Handshake, DeskConsistent, deskVars
  <2> QED
    BY <2>2, <2>3, <2>4
<1>6. CASE SecretsCleared
  BY <1>6, BoundAssumption, ClientAssumption DEF IInv, Handshake,
     DeskConsistent, PhaseFollowsLock, Live, AcceptsOutputs, Busy, stateVars,
     threadVars, screenVars, deskVars, clientVars, SecretsCleared
<1>7. CASE Exit
  BY <1>7, BoundAssumption, ClientAssumption DEF IInv, Handshake,
     DeskConsistent, PhaseFollowsLock, Live, AcceptsOutputs, Busy, stateVars,
     threadVars, screenVars, deskVars, clientVars, Exit
<1>8. CASE Crash
  BY <1>8, BoundAssumption, ClientAssumption DEF IInv, Handshake,
     DeskConsistent, PhaseFollowsLock, Live, AcceptsOutputs, Busy, stateVars,
     threadVars, screenVars, deskVars, clientVars, Crash, Changed
<1>9. ASSUME NEW o \in Monitors, MonitorAdded(o) PROVE (Handshake /\ DeskConsistent)'
  BY <1>9, BoundAssumption, ClientAssumption DEF IInv, Handshake,
     DeskConsistent, PhaseFollowsLock, Live, AcceptsOutputs, Busy, stateVars,
     threadVars, screenVars, deskVars, clientVars, MonitorAdded, Changed
<1>10. ASSUME NEW o \in Monitors, MonitorRemoved(o) PROVE (Handshake /\ DeskConsistent)'
  BY <1>10, BoundAssumption, ClientAssumption DEF IInv, Handshake,
     DeskConsistent, PhaseFollowsLock, Live, AcceptsOutputs, Busy, stateVars,
     threadVars, screenVars, deskVars, clientVars, MonitorRemoved, Changed
<1>11. ASSUME NEW o \in Monitors, AddOutput(o) PROVE (Handshake /\ DeskConsistent)'
  BY <1>11, BoundAssumption, ClientAssumption DEF IInv, Handshake,
     DeskConsistent, PhaseFollowsLock, Live, AcceptsOutputs, Busy, stateVars,
     threadVars, screenVars, deskVars, clientVars, AddOutput, Fail,
     UpdateScreens
<1>12. ASSUME NEW o \in Monitors, WindowDestroyed(o) PROVE (Handshake /\ DeskConsistent)'
  BY <1>12, BoundAssumption, ClientAssumption DEF IInv, Handshake,
     DeskConsistent, PhaseFollowsLock, Live, AcceptsOutputs, Busy, stateVars,
     threadVars, screenVars, deskVars, clientVars, WindowDestroyed, Fail,
     UpdateScreens
<1>13. ASSUME NEW o \in Monitors, Type(o) PROVE (Handshake /\ DeskConsistent)'
  BY <1>13, BoundAssumption, ClientAssumption DEF IInv, Handshake,
     DeskConsistent, PhaseFollowsLock, Live, AcceptsOutputs, Busy, stateVars,
     threadVars, screenVars, deskVars, clientVars, Type
<1>14. ASSUME NEW o \in Monitors, Submit(o) PROVE (Handshake /\ DeskConsistent)'
  BY <1>14, BoundAssumption, ClientAssumption DEF IInv, Handshake,
     DeskConsistent, PhaseFollowsLock, Live, AcceptsOutputs, Busy, stateVars,
     threadVars, screenVars, deskVars, clientVars, Submit, Begin,
     UpdateScreens
<1>15. CASE TakeLock
  <2>1. /\ lock = "pending" /\ requests = <<"lock">> /\ events = <<>>
        /\ deskHolder # Locker
    BY <1>15, OneMessage DEF IInv, Handshake, TakeLock, NextRequest
  <2>2. requests' = <<>> /\ UNCHANGED lock
    BY <1>15, <2>1, OneMessage DEF TakeLock, NextRequest, clientVars
  <2>3. CASE deskPhase = "held" /\ UNCHANGED deskVars /\ events' = Append(events, "finished")
    <3>1. events' = <<"finished">>
      BY <2>1, <2>3, OneMessage
    <3> QED
      BY <2>1, <2>2, <2>3, <3>1 DEF IInv, Handshake, DeskConsistent, deskVars
  <2>4. CASE /\ Compositor!Claim(Locker)
             /\ events' = IF deskAcknowledged' THEN Append(events, "locked") ELSE events
    <3>1. deskHolder' = Locker /\ deskPhase' = "held"
      BY <2>4 DEF Compositor!Claim
    <3>2. events' = IF deskAcknowledged' THEN <<"locked">> ELSE <<>>
      BY <2>1, <2>4, OneMessage
    <3> QED
      BY <2>1, <2>2, <3>1, <3>2, ClientAssumption DEF ClientAssumption, IInv, Handshake, DeskConsistent
  <2> QED
    BY <1>15, <2>3, <2>4 DEF TakeLock
<1>16. CASE TakeUnlock
  <2>1. /\ lock = "released" /\ requests = <<"unlock">> /\ events = <<>>
        /\ deskHolder = Locker /\ deskAcknowledged
    BY <1>16, OneMessage DEF IInv, Handshake, TakeUnlock, NextRequest
  <2>2. requests' = <<>> /\ UNCHANGED <<lock, events>>
    BY <1>16, <2>1, OneMessage DEF TakeUnlock, NextRequest, clientVars
  <2>3. deskHolder' = Nobody /\ deskPhase' # "held" /\ ~deskAcknowledged'
    BY <1>16 DEF TakeUnlock, Compositor!Release
  <2> QED
    BY <2>1, <2>2, <2>3, ClientAssumption DEF ClientAssumption, IInv, Handshake, DeskConsistent
<1>17. CASE Acknowledge
  <2>1. UNCHANGED <<lock, requests, deskHolder, deskPhase>> /\ deskPhase = "held"
    BY <1>17 DEF Acknowledge, clientVars, Compositor!Acknowledge
  <2>2. ~deskAcknowledged /\ deskAcknowledged'
    BY <1>17 DEF Acknowledge, Compositor!Acknowledge
  <2>3. CASE deskHolder = Locker
    <3>1. lock = "pending" /\ requests = <<>> /\ events = <<>>
      BY <2>2, <2>3 DEF IInv, Handshake
    <3>2. events' = <<"locked">>
      BY <1>17, <2>3, <3>1, OneMessage DEF Acknowledge
    <3> QED
      BY <2>1, <2>2, <2>3, <3>1, <3>2 DEF IInv, Handshake, DeskConsistent
  <2>4. CASE deskHolder # Locker
    <3>1. UNCHANGED events
      BY <1>17, <2>4 DEF Acknowledge
    <3> QED
      BY <2>1, <2>2, <2>4, <3>1 DEF IInv, Handshake, DeskConsistent
  <2> QED
    BY <2>3, <2>4
<1>18. CASE CompositorAlone
  <2>1. UNCHANGED <<lock, requests, events>>
    BY <1>18 DEF CompositorAlone, clientVars
  <2>2. deskHolder = Locker => UNCHANGED <<deskHolder, deskAcknowledged, deskPhase>>
    BY <1>18, ClientAssumption
       DEF ClientAssumption, CompositorAlone, IInv, DeskConsistent, Compositor!Shield, Compositor!Seal,
           Compositor!PrepareSleep, Compositor!Resume, Compositor!Claim
  <2>3. deskHolder # Locker => deskHolder' # Locker
    BY <1>18, ClientAssumption
       DEF ClientAssumption, CompositorAlone, Compositor!Shield, Compositor!Seal, Compositor!PrepareSleep,
           Compositor!Resume, Compositor!Claim, Compositor!Release
  <2>4. DeskConsistent'
    <3> USE ClientAssumption DEF ClientAssumption, IInv, DeskConsistent
    <3>1. CASE Compositor!Shield
      BY <3>1 DEF Compositor!Shield
    <3>2. CASE Compositor!Seal
      BY <3>2 DEF Compositor!Seal
    <3>3. CASE Compositor!PrepareSleep \/ Compositor!Resume
      BY <3>3 DEF Compositor!PrepareSleep, Compositor!Resume
    <3>4. CASE Compositor!Claim(Other)
      BY <3>4 DEF Compositor!Claim
    <3>5. CASE Compositor!Release
      BY <3>5 DEF Compositor!Release
    <3> QED
      BY <1>18, <3>1, <3>2, <3>3, <3>4, <3>5 DEF CompositorAlone
  <2> QED
    BY <2>1, <2>2, <2>3, <2>4 DEF IInv, Handshake
<1>19. CASE UNCHANGED vars
  BY <1>19, BoundAssumption, ClientAssumption DEF IInv, Handshake,
     DeskConsistent, PhaseFollowsLock, Live, AcceptsOutputs, Busy, stateVars,
     threadVars, screenVars, deskVars, clientVars, vars
<1> QED
  BY <1>1, <1>2, <1>3, <1>4, <1>5, <1>6, <1>7, <1>8, <1>9, <1>10, <1>11, <1>12, <1>13, <1>14, <1>15, <1>16, <1>17, <1>18, <1>19 DEF Next, Client

\* Settling the phase keeps the types, whatever has been granted.
LEMMA UnlockTypes ==
  ASSUME SessionTypes, NEW ok,
         NEW p \in {"Acquiring", "Locked", "UnlockRequested", "Completed", "Failed"},
         NEW a \in 0..MaxAttempts,
         NEW l \in {"idle", "pending", "locked", "released", "over"},
         UnlockIfReady(p, a, ok, l)
  PROVE  /\ phase' \in {"Acquiring", "Locked", "UnlockRequested", "Completed", "Failed"}
         /\ generation' \in 0..MaxAttempts /\ attempt' \in 0..MaxAttempts
         /\ lock' \in {"idle", "pending", "locked", "released", "over"}
         /\ process' \in {"starting", "running", "quitting", "success", "failure", "crashed"}
<1> USE BoundAssumption DEF BoundAssumption, SessionTypes, UnlockIfReady, SettlePhase
<1>1. CASE p = "Locked" /\ ok /\ l = "locked"
  BY <1>1 DEF Ended
<1>2. CASE p = "Locked" /\ ok /\ l # "locked"
  BY <1>2 DEF Fail
<1>3. CASE ~(p = "Locked" /\ ok)
  BY <1>3
<1> QED
  BY <1>1, <1>2, <1>3

\* What the process keeps has its types after every step.
LEMMA SessionTypeStep == IInv /\ [Next]_vars => SessionTypes'
<1> SUFFICES ASSUME SessionTypes, [Next]_vars PROVE SessionTypes'
  BY DEF IInv, TypeOK
<1> USE BoundAssumption DEF BoundAssumption, SessionTypes
<1>1. CASE Activate
  BY <1>1 DEF Attempts, stateVars, threadVars, screenVars, Activate, Fail
<1>2. CASE ReceiveLocked
  <2> DEFINE p == IF phase = "Acquiring" THEN "Locked" ELSE phase
  <2>1. UnlockIfReady(p, attempt, authenticated, "locked") /\ UNCHANGED threadVars
    BY <1>2 DEF ReceiveLocked, Receive
  <2>2. p \in {"Acquiring", "Locked", "UnlockRequested", "Completed", "Failed"}
    OBVIOUS
  <2> HIDE DEF p
  <2>3. attempt \in 0..MaxAttempts /\ "locked" \in {"idle", "pending", "locked", "released", "over"}
    OBVIOUS
  <2> QED
    BY <2>1, <2>2, <2>3, UnlockTypes DEF threadVars
<1>3. CASE ReceiveFinished
  BY <1>3 DEF Attempts, stateVars, threadVars, screenVars, ReceiveFinished,
     Receive, Fail
<1>4. ASSUME NEW g \in Attempts, Authenticate(g) PROVE SessionTypes'
  BY <1>4 DEF Attempts, stateVars, threadVars, screenVars, Authenticate
<1>5. CASE Poll
  <2>1. receiver' = 0 /\ UNCHANGED worker
    BY <1>5 DEF Poll
  <2>2. CASE ~AcceptsOutputs \/ attempt # receiver
    <3>1. UNCHANGED <<phase, generation, attempt, lock, process>>
      BY <1>5, <2>2 DEF Poll, stateVars
    <3> QED
      BY <2>1, <3>1
  <2>3. CASE AcceptsOutputs /\ attempt = receiver /\ Accepted(receiver)
    <3>1. UnlockIfReady(phase, 0, TRUE, lock)
      BY <1>5, <2>3 DEF Poll
    <3>2. /\ 0 \in 0..MaxAttempts
          /\ phase \in {"Acquiring", "Locked", "UnlockRequested", "Completed", "Failed"}
          /\ lock \in {"idle", "pending", "locked", "released", "over"}
      OBVIOUS
    <3>3. /\ phase' \in {"Acquiring", "Locked", "UnlockRequested", "Completed", "Failed"}
          /\ generation' \in 0..MaxAttempts /\ attempt' \in 0..MaxAttempts
          /\ lock' \in {"idle", "pending", "locked", "released", "over"}
          /\ process' \in {"starting", "running", "quitting", "success", "failure", "crashed"}
      BY <3>1, <3>2, UnlockTypes
    <3> QED
      BY <2>1, <3>2, <3>3
  <2>4. CASE AcceptsOutputs /\ attempt = receiver /\ ~Accepted(receiver)
    BY <1>5, <2>1, <2>4 DEF Poll
  <2> QED
    BY <2>2, <2>3, <2>4
<1>6. CASE SecretsCleared
  BY <1>6 DEF Attempts, stateVars, threadVars, screenVars, SecretsCleared
<1>7. CASE Exit
  BY <1>7 DEF Attempts, stateVars, threadVars, screenVars, Exit
<1>8. CASE Crash
  BY <1>8 DEF Attempts, stateVars, threadVars, screenVars, Crash, Changed
<1>9. ASSUME NEW o \in Monitors, MonitorAdded(o) PROVE SessionTypes'
  BY <1>9 DEF Attempts, stateVars, threadVars, screenVars, MonitorAdded,
     Changed
<1>10. ASSUME NEW o \in Monitors, MonitorRemoved(o) PROVE SessionTypes'
  BY <1>10 DEF Attempts, stateVars, threadVars, screenVars, MonitorRemoved,
     Changed
<1>11. ASSUME NEW o \in Monitors, AddOutput(o) PROVE SessionTypes'
  BY <1>11 DEF Attempts, stateVars, threadVars, screenVars, AddOutput, Fail
<1>12. ASSUME NEW o \in Monitors, WindowDestroyed(o) PROVE SessionTypes'
  BY <1>12 DEF Attempts, stateVars, threadVars, screenVars, WindowDestroyed,
     Fail
<1>13. ASSUME NEW o \in Monitors, Type(o) PROVE SessionTypes'
  BY <1>13 DEF Attempts, stateVars, threadVars, screenVars, Type
<1>14. ASSUME NEW o \in Monitors, Submit(o) PROVE SessionTypes'
  BY <1>14 DEF Attempts, stateVars, threadVars, screenVars, Submit, Begin
<1>15. CASE TakeLock
  BY <1>15 DEF clientVars, stateVars, threadVars, screenVars, deskVars,
     TakeLock
<1>16. CASE TakeUnlock
  BY <1>16 DEF clientVars, stateVars, threadVars, screenVars, deskVars,
     TakeUnlock
<1>17. CASE Acknowledge
  BY <1>17 DEF clientVars, stateVars, threadVars, screenVars, deskVars,
     Acknowledge
<1>18. CASE CompositorAlone
  BY <1>18 DEF clientVars, stateVars, threadVars, screenVars, deskVars,
     CompositorAlone, Changed
<1>19. CASE UNCHANGED vars
  BY <1>19 DEF vars, stateVars, threadVars, screenVars, deskVars, clientVars
<1> QED
  BY <1>1, <1>2, <1>3, <1>4, <1>5, <1>6, <1>7, <1>8, <1>9, <1>10, <1>11, <1>12, <1>13, <1>14, <1>15, <1>16, <1>17, <1>18, <1>19 DEF Next, Client

\* Whether PAM has accepted stays a boolean.
LEMMA GrantTypeStep == IInv /\ [Next]_vars => authenticated' \in BOOLEAN
<1> SUFFICES ASSUME authenticated \in BOOLEAN, [Next]_vars PROVE authenticated' \in BOOLEAN
  BY DEF IInv, TypeOK
<1> USE BoundAssumption DEF BoundAssumption
<1>1. CASE Activate
  BY <1>1 DEF Attempts, stateVars, threadVars, screenVars, Activate, Fail
<1>2. CASE ReceiveLocked
  BY <1>2 DEF Attempts, stateVars, threadVars, screenVars, ReceiveLocked,
     Receive, UnlockIfReady, SettlePhase, Ended, Fail
<1>3. CASE ReceiveFinished
  BY <1>3 DEF Attempts, stateVars, threadVars, screenVars, ReceiveFinished,
     Receive, Fail
<1>4. ASSUME NEW g \in Attempts, Authenticate(g) PROVE authenticated' \in BOOLEAN
  BY <1>4 DEF Attempts, stateVars, threadVars, screenVars, Authenticate
<1>5. CASE Poll
  BY <1>5 DEF Attempts, stateVars, threadVars, screenVars, Poll, Accepted,
     UnlockIfReady, SettlePhase, Ended, Fail
<1>6. CASE SecretsCleared
  BY <1>6 DEF Attempts, stateVars, threadVars, screenVars, SecretsCleared
<1>7. CASE Exit
  BY <1>7 DEF Attempts, stateVars, threadVars, screenVars, Exit
<1>8. CASE Crash
  BY <1>8 DEF Attempts, stateVars, threadVars, screenVars, Crash, Changed
<1>9. ASSUME NEW o \in Monitors, MonitorAdded(o) PROVE authenticated' \in BOOLEAN
  BY <1>9 DEF Attempts, stateVars, threadVars, screenVars, MonitorAdded,
     Changed
<1>10. ASSUME NEW o \in Monitors, MonitorRemoved(o) PROVE authenticated' \in BOOLEAN
  BY <1>10 DEF Attempts, stateVars, threadVars, screenVars, MonitorRemoved,
     Changed
<1>11. ASSUME NEW o \in Monitors, AddOutput(o) PROVE authenticated' \in BOOLEAN
  BY <1>11 DEF Attempts, stateVars, threadVars, screenVars, AddOutput, Fail
<1>12. ASSUME NEW o \in Monitors, WindowDestroyed(o) PROVE authenticated' \in BOOLEAN
  BY <1>12 DEF Attempts, stateVars, threadVars, screenVars, WindowDestroyed,
     Fail
<1>13. ASSUME NEW o \in Monitors, Type(o) PROVE authenticated' \in BOOLEAN
  BY <1>13 DEF Attempts, stateVars, threadVars, screenVars, Type
<1>14. ASSUME NEW o \in Monitors, Submit(o) PROVE authenticated' \in BOOLEAN
  BY <1>14 DEF Attempts, stateVars, threadVars, screenVars, Submit, Begin
<1>15. CASE TakeLock
  BY <1>15 DEF clientVars, stateVars, threadVars, screenVars, deskVars,
     TakeLock
<1>16. CASE TakeUnlock
  BY <1>16 DEF clientVars, stateVars, threadVars, screenVars, deskVars,
     TakeUnlock
<1>17. CASE Acknowledge
  BY <1>17 DEF clientVars, stateVars, threadVars, screenVars, deskVars,
     Acknowledge
<1>18. CASE CompositorAlone
  BY <1>18 DEF clientVars, stateVars, threadVars, screenVars, deskVars,
     CompositorAlone, Changed
<1>19. CASE UNCHANGED vars
  BY <1>19 DEF vars, stateVars, threadVars, screenVars, deskVars, clientVars
<1> QED
  BY <1>1, <1>2, <1>3, <1>4, <1>5, <1>6, <1>7, <1>8, <1>9, <1>10, <1>11, <1>12, <1>13, <1>14, <1>15, <1>16, <1>17, <1>18, <1>19 DEF Next, Client

\* So has what it shows.
LEMMA ScreenTypeStep == IInv /\ [Next]_vars => ScreenTypes'
<1> SUFFICES ASSUME ScreenTypes, [Next]_vars PROVE ScreenTypes'
  BY DEF IInv, TypeOK
<1> USE BoundAssumption DEF BoundAssumption, ScreenTypes
<1>1. CASE Activate
  BY <1>1 DEF screenVars, Activate, Fail, UpdateScreens
<1>2. CASE ReceiveLocked
  BY <1>2 DEF screenVars, ReceiveLocked, Receive, UnlockIfReady, SettlePhase,
     Ended, Fail, UpdateScreens
<1>3. CASE ReceiveFinished
  BY <1>3 DEF screenVars, ReceiveFinished, Receive, Fail, UpdateScreens
<1>4. ASSUME NEW g \in Attempts, Authenticate(g) PROVE ScreenTypes'
  BY <1>4 DEF screenVars, Authenticate
<1>5. CASE Poll
  BY <1>5 DEF screenVars, Poll, Accepted, UnlockIfReady, SettlePhase, Ended,
     Fail, UpdateScreens
<1>6. CASE SecretsCleared
  BY <1>6 DEF screenVars, SecretsCleared
<1>7. CASE Exit
  BY <1>7 DEF screenVars, Exit
<1>8. CASE Crash
  BY <1>8 DEF screenVars, Crash, Changed
<1>9. ASSUME NEW o \in Monitors, MonitorAdded(o) PROVE ScreenTypes'
  BY <1>9 DEF screenVars, MonitorAdded, Changed
<1>10. ASSUME NEW o \in Monitors, MonitorRemoved(o) PROVE ScreenTypes'
  BY <1>10 DEF screenVars, MonitorRemoved, Changed
<1>11. ASSUME NEW o \in Monitors, AddOutput(o) PROVE ScreenTypes'
  BY <1>11 DEF screenVars, AddOutput, Fail, UpdateScreens
<1>12. ASSUME NEW o \in Monitors, WindowDestroyed(o) PROVE ScreenTypes'
  BY <1>12 DEF screenVars, WindowDestroyed, Fail, UpdateScreens
<1>13. ASSUME NEW o \in Monitors, Type(o) PROVE ScreenTypes'
  BY <1>13 DEF screenVars, Type
<1>14. ASSUME NEW o \in Monitors, Submit(o) PROVE ScreenTypes'
  BY <1>14 DEF screenVars, Submit, Begin, UpdateScreens
<1>15. CASE TakeLock
  BY <1>15 DEF clientVars, stateVars, threadVars, screenVars, deskVars,
     TakeLock
<1>16. CASE TakeUnlock
  BY <1>16 DEF clientVars, stateVars, threadVars, screenVars, deskVars,
     TakeUnlock
<1>17. CASE Acknowledge
  BY <1>17 DEF clientVars, stateVars, threadVars, screenVars, deskVars,
     Acknowledge
<1>18. CASE CompositorAlone
  BY <1>18 DEF clientVars, stateVars, threadVars, screenVars, deskVars,
     CompositorAlone, Changed
<1>19. CASE UNCHANGED vars
  BY <1>19 DEF vars, stateVars, threadVars, screenVars, deskVars, clientVars
<1> QED
  BY <1>1, <1>2, <1>3, <1>4, <1>5, <1>6, <1>7, <1>8, <1>9, <1>10, <1>11, <1>12, <1>13, <1>14, <1>15, <1>16, <1>17, <1>18, <1>19 DEF Next, Client

\* The compositor's types are preserved.
LEMMA DeskTypeStep == IInv /\ [Next]_vars => Compositor!TypeOK'
<1> SUFFICES ASSUME IInv, [Next]_vars PROVE Compositor!TypeOK'
  OBVIOUS
<1> USE BoundAssumption DEF IInv, TypeOK
<1>1. CASE Activate
  BY <1>1 DEF deskVars, Compositor!TypeOK, Activate, Fail
<1>2. CASE ReceiveLocked
  BY <1>2 DEF deskVars, Compositor!TypeOK, ReceiveLocked, Receive, UnlockIfReady, SettlePhase,
     Ended, Fail
<1>3. CASE ReceiveFinished
  BY <1>3 DEF deskVars, Compositor!TypeOK, ReceiveFinished, Receive, Fail
<1>4. ASSUME NEW g \in Attempts, Authenticate(g) PROVE Compositor!TypeOK'
  BY <1>4 DEF deskVars, Compositor!TypeOK, Authenticate
<1>5. CASE Poll
  BY <1>5 DEF deskVars, Compositor!TypeOK, Poll, Accepted, UnlockIfReady, SettlePhase, Ended,
     Fail
<1>6. CASE SecretsCleared
  BY <1>6 DEF deskVars, Compositor!TypeOK, SecretsCleared
<1>7. CASE Exit
  BY <1>7 DEF deskVars, Compositor!TypeOK, Exit
<1>8. CASE Crash
  BY <1>8 DEF deskVars, Compositor!TypeOK, Crash, Changed
<1>9. ASSUME NEW o \in Monitors, MonitorAdded(o) PROVE Compositor!TypeOK'
  BY <1>9 DEF deskVars, Compositor!TypeOK, MonitorAdded, Changed
<1>10. ASSUME NEW o \in Monitors, MonitorRemoved(o) PROVE Compositor!TypeOK'
  BY <1>10 DEF deskVars, Compositor!TypeOK, MonitorRemoved, Changed
<1>11. ASSUME NEW o \in Monitors, AddOutput(o) PROVE Compositor!TypeOK'
  BY <1>11 DEF deskVars, Compositor!TypeOK, AddOutput, Fail
<1>12. ASSUME NEW o \in Monitors, WindowDestroyed(o) PROVE Compositor!TypeOK'
  BY <1>12 DEF deskVars, Compositor!TypeOK, WindowDestroyed, Fail
<1>13. ASSUME NEW o \in Monitors, Type(o) PROVE Compositor!TypeOK'
  BY <1>13 DEF deskVars, Compositor!TypeOK, Type
<1>14. ASSUME NEW o \in Monitors, Submit(o) PROVE Compositor!TypeOK'
  BY <1>14 DEF deskVars, Compositor!TypeOK, Submit, Begin
<1>15. CASE TakeLock
  BY <1>15 DEF deskVars, Compositor!TypeOK, TakeLock, Compositor!Claim,
     Compositor!Sealing
<1>16. CASE TakeUnlock
  BY <1>16 DEF deskVars, Compositor!TypeOK, TakeUnlock, Compositor!TypeOK, Compositor!Release,
     Compositor!Sealing
<1>17. CASE Acknowledge
  BY <1>17 DEF deskVars, Compositor!TypeOK, Acknowledge, Compositor!TypeOK,
     Compositor!Acknowledge, Compositor!Sealing
<1>18. CASE CompositorAlone
  BY <1>18 DEF deskVars, Compositor!TypeOK, CompositorAlone, Compositor!TypeOK,
     Compositor!Shield, Compositor!Seal, Compositor!PrepareSleep,
     Compositor!Resume, Compositor!Claim, Compositor!Release,
     Compositor!Sealing
<1>19. CASE UNCHANGED vars
  BY <1>19 DEF vars, deskVars, Compositor!TypeOK
<1> QED
  BY <1>1, <1>2, <1>3, <1>4, <1>5, <1>6, <1>7, <1>8, <1>9, <1>10, <1>11, <1>12, <1>13, <1>14, <1>15, <1>16, <1>17, <1>18, <1>19 DEF Next, Client

\* All of the types together.
LEMMA TypeStep == IInv /\ [Next]_vars => TypeOK'
<1> SUFFICES ASSUME IInv, [Next]_vars PROVE TypeOK'
  OBVIOUS
<1>1. SessionTypes' /\ ScreenTypes' /\ authenticated' \in BOOLEAN /\ Compositor!TypeOK'
  BY SessionTypeStep, ScreenTypeStep, GrantTypeStep, DeskTypeStep
<1>2. requests' \in Seq({"lock", "unlock"}) /\ events' \in Seq({"locked", "finished"})
  <2>1. Handshake'
    BY HandStep
  <2> QED
    BY <2>1, SocketTypes DEF Handshake
<1> QED
  BY <1>1, <1>2 DEF TypeOK

\* The phase and the exit status follow the lock.
LEMMA PhaseStep == IInv /\ [Next]_vars => (PhaseFollowsLock /\ HonestExit)'
<1> SUFFICES ASSUME IInv, [Next]_vars PROVE (PhaseFollowsLock /\ HonestExit)'
  OBVIOUS
<1>1. CASE Activate
  BY <1>1, BoundAssumption, ClientAssumption DEF IInv, PhaseFollowsLock,
     HonestExit, Handshake, TypeOK, SessionTypes, ScreenTypes, Live, AcceptsOutputs, Busy, stateVars,
     threadVars, screenVars, deskVars, clientVars, Activate, Fail,
     UpdateScreens
<1>2. CASE ReceiveLocked
  BY <1>2, BoundAssumption, ClientAssumption DEF IInv, PhaseFollowsLock,
     HonestExit, Handshake, TypeOK, SessionTypes, ScreenTypes, Live, AcceptsOutputs, Busy, stateVars,
     threadVars, screenVars, deskVars, clientVars, ReceiveLocked, Receive,
     UnlockIfReady, SettlePhase, Ended, Fail, UpdateScreens
<1>3. CASE ReceiveFinished
  BY <1>3, BoundAssumption, ClientAssumption DEF IInv, PhaseFollowsLock,
     HonestExit, Handshake, TypeOK, SessionTypes, ScreenTypes, Live, AcceptsOutputs, Busy, stateVars,
     threadVars, screenVars, deskVars, clientVars, ReceiveFinished, Receive,
     Fail, UpdateScreens
<1>4. ASSUME NEW g \in Attempts, Authenticate(g) PROVE (PhaseFollowsLock /\ HonestExit)'
  BY <1>4, BoundAssumption, ClientAssumption DEF IInv, PhaseFollowsLock,
     HonestExit, Handshake, TypeOK, SessionTypes, ScreenTypes, Live, AcceptsOutputs, Busy, stateVars,
     threadVars, screenVars, deskVars, clientVars, Authenticate
<1>5. CASE Poll
  BY <1>5, BoundAssumption, ClientAssumption DEF IInv, PhaseFollowsLock,
     HonestExit, Handshake, TypeOK, SessionTypes, ScreenTypes, Live, AcceptsOutputs, Busy, stateVars,
     threadVars, screenVars, deskVars, clientVars, Poll, Accepted,
     UnlockIfReady, SettlePhase, Ended, Fail, UpdateScreens
<1>6. CASE SecretsCleared
  BY <1>6, BoundAssumption, ClientAssumption DEF IInv, PhaseFollowsLock,
     HonestExit, Handshake, TypeOK, SessionTypes, ScreenTypes, Live, AcceptsOutputs, Busy, stateVars,
     threadVars, screenVars, deskVars, clientVars, SecretsCleared
<1>7. CASE Exit
  BY <1>7, BoundAssumption, ClientAssumption DEF IInv, PhaseFollowsLock,
     HonestExit, Handshake, TypeOK, SessionTypes, ScreenTypes, Live, AcceptsOutputs, Busy, stateVars,
     threadVars, screenVars, deskVars, clientVars, Exit
<1>8. CASE Crash
  BY <1>8, BoundAssumption, ClientAssumption DEF IInv, PhaseFollowsLock,
     HonestExit, Handshake, TypeOK, SessionTypes, ScreenTypes, Live, AcceptsOutputs, Busy, stateVars,
     threadVars, screenVars, deskVars, clientVars, Crash, Changed
<1>9. ASSUME NEW o \in Monitors, MonitorAdded(o) PROVE (PhaseFollowsLock /\ HonestExit)'
  BY <1>9, BoundAssumption, ClientAssumption DEF IInv, PhaseFollowsLock,
     HonestExit, Handshake, TypeOK, SessionTypes, ScreenTypes, Live, AcceptsOutputs, Busy, stateVars,
     threadVars, screenVars, deskVars, clientVars, MonitorAdded, Changed
<1>10. ASSUME NEW o \in Monitors, MonitorRemoved(o) PROVE (PhaseFollowsLock /\ HonestExit)'
  BY <1>10, BoundAssumption, ClientAssumption DEF IInv, PhaseFollowsLock,
     HonestExit, Handshake, TypeOK, SessionTypes, ScreenTypes, Live, AcceptsOutputs, Busy, stateVars,
     threadVars, screenVars, deskVars, clientVars, MonitorRemoved, Changed
<1>11. ASSUME NEW o \in Monitors, AddOutput(o) PROVE (PhaseFollowsLock /\ HonestExit)'
  BY <1>11, BoundAssumption, ClientAssumption DEF IInv, PhaseFollowsLock,
     HonestExit, Handshake, TypeOK, SessionTypes, ScreenTypes, Live, AcceptsOutputs, Busy, stateVars,
     threadVars, screenVars, deskVars, clientVars, AddOutput, Fail,
     UpdateScreens
<1>12. ASSUME NEW o \in Monitors, WindowDestroyed(o) PROVE (PhaseFollowsLock /\ HonestExit)'
  BY <1>12, BoundAssumption, ClientAssumption DEF IInv, PhaseFollowsLock,
     HonestExit, Handshake, TypeOK, SessionTypes, ScreenTypes, Live, AcceptsOutputs, Busy, stateVars,
     threadVars, screenVars, deskVars, clientVars, WindowDestroyed, Fail,
     UpdateScreens
<1>13. ASSUME NEW o \in Monitors, Type(o) PROVE (PhaseFollowsLock /\ HonestExit)'
  BY <1>13, BoundAssumption, ClientAssumption DEF IInv, PhaseFollowsLock,
     HonestExit, Handshake, TypeOK, SessionTypes, ScreenTypes, Live, AcceptsOutputs, Busy, stateVars,
     threadVars, screenVars, deskVars, clientVars, Type
<1>14. ASSUME NEW o \in Monitors, Submit(o) PROVE (PhaseFollowsLock /\ HonestExit)'
  BY <1>14, BoundAssumption, ClientAssumption DEF IInv, PhaseFollowsLock,
     HonestExit, Handshake, TypeOK, SessionTypes, ScreenTypes, Live, AcceptsOutputs, Busy, stateVars,
     threadVars, screenVars, deskVars, clientVars, Submit, Begin,
     UpdateScreens
<1>15. CASE TakeLock
  BY <1>15, BoundAssumption, ClientAssumption DEF IInv, PhaseFollowsLock,
     HonestExit, Handshake, TypeOK, SessionTypes, ScreenTypes, Live, AcceptsOutputs, Busy, stateVars,
     threadVars, screenVars, deskVars, clientVars, TakeLock, NextRequest,
     Compositor!Claim, Compositor!Sealing
<1>16. CASE TakeUnlock
  BY <1>16, BoundAssumption, ClientAssumption DEF IInv, PhaseFollowsLock,
     HonestExit, Handshake, TypeOK, SessionTypes, ScreenTypes, Live, AcceptsOutputs, Busy, stateVars,
     threadVars, screenVars, deskVars, clientVars, TakeUnlock, NextRequest,
     Compositor!Release, Compositor!Sealing
<1>17. CASE Acknowledge
  BY <1>17, BoundAssumption, ClientAssumption DEF IInv, PhaseFollowsLock,
     HonestExit, Handshake, TypeOK, SessionTypes, ScreenTypes, Live, AcceptsOutputs, Busy, stateVars,
     threadVars, screenVars, deskVars, clientVars, Acknowledge,
     Compositor!Acknowledge, Compositor!Sealing
<1>18. CASE CompositorAlone
  BY <1>18, BoundAssumption, ClientAssumption DEF IInv, PhaseFollowsLock,
     HonestExit, Handshake, TypeOK, SessionTypes, ScreenTypes, Live, AcceptsOutputs, Busy, stateVars,
     threadVars, screenVars, deskVars, clientVars, CompositorAlone, Changed,
     Compositor!Shield, Compositor!Seal, Compositor!PrepareSleep,
     Compositor!Resume, Compositor!Claim, Compositor!Release,
     Compositor!Sealing
<1>19. CASE UNCHANGED vars
  BY <1>19, BoundAssumption, ClientAssumption DEF IInv, PhaseFollowsLock,
     HonestExit, Handshake, TypeOK, SessionTypes, ScreenTypes, Live, AcceptsOutputs, Busy, stateVars,
     threadVars, screenVars, deskVars, clientVars, vars
<1> QED
  BY <1>1, <1>2, <1>3, <1>4, <1>5, <1>6, <1>7, <1>8, <1>9, <1>10, <1>11, <1>12, <1>13, <1>14, <1>15, <1>16, <1>17, <1>18, <1>19 DEF Next, Client

\* Grants and threads.
LEMMA GrantStep == IInv /\ [Next]_vars => (GrantsAreAccepted /\ ThreadsArePolled)'
<1> SUFFICES ASSUME IInv, [Next]_vars PROVE (GrantsAreAccepted /\ ThreadsArePolled)'
  OBVIOUS
<1>1. CASE Activate
  BY <1>1, BoundAssumption, ClientAssumption DEF IInv, GrantsAreAccepted,
     ThreadsArePolled, TypeOK, SessionTypes, ScreenTypes, Attempts, PhaseFollowsLock, Live,
     AcceptsOutputs, Busy, stateVars, threadVars, screenVars, deskVars,
     clientVars, Activate, Fail, UpdateScreens
<1>2. CASE ReceiveLocked
  BY <1>2, BoundAssumption, ClientAssumption DEF IInv, GrantsAreAccepted,
     ThreadsArePolled, TypeOK, SessionTypes, ScreenTypes, Attempts, PhaseFollowsLock, Live,
     AcceptsOutputs, Busy, stateVars, threadVars, screenVars, deskVars,
     clientVars, ReceiveLocked, Receive, UnlockIfReady, SettlePhase, Ended,
     Fail, UpdateScreens
<1>3. CASE ReceiveFinished
  BY <1>3, BoundAssumption, ClientAssumption DEF IInv, GrantsAreAccepted,
     ThreadsArePolled, TypeOK, SessionTypes, ScreenTypes, Attempts, PhaseFollowsLock, Live,
     AcceptsOutputs, Busy, stateVars, threadVars, screenVars, deskVars,
     clientVars, ReceiveFinished, Receive, Fail, UpdateScreens
<1>4. ASSUME NEW g \in Attempts, Authenticate(g) PROVE (GrantsAreAccepted /\ ThreadsArePolled)'
  BY <1>4, BoundAssumption, ClientAssumption DEF IInv, GrantsAreAccepted,
     ThreadsArePolled, TypeOK, SessionTypes, ScreenTypes, Attempts, PhaseFollowsLock, Live,
     AcceptsOutputs, Busy, stateVars, threadVars, screenVars, deskVars,
     clientVars, Authenticate
<1>5. CASE Poll
  <2>1. receiver # 0 /\ worker[receiver] # "working" /\ receiver' = 0 /\ UNCHANGED worker
    BY <1>5 DEF Poll
  <2>2. \A g \in Attempts : worker[g] # "working"
    BY <2>1 DEF IInv, ThreadsArePolled
  <2>3. generation' = generation
    BY <1>5 DEF Poll, UnlockIfReady, SettlePhase, Ended, Fail, stateVars
  <2>8. attempt' \in {0, attempt}
    BY <1>5 DEF Poll, UnlockIfReady, SettlePhase, Ended, Fail, stateVars
  <2>4. ThreadsArePolled'
    BY <2>1, <2>2, <2>3, <2>8 DEF IInv, ThreadsArePolled
  <2>5. receiver \in Attempts
    BY <2>1, BoundAssumption DEF IInv, TypeOK, SessionTypes, Attempts, BoundAssumption
  <2>6. CASE AcceptsOutputs /\ attempt = receiver /\ Accepted(receiver)
    <3>1. receiver = generation
      BY <2>1, <2>6 DEF IInv, ThreadsArePolled
    <3> QED
      BY <2>1, <2>3, <2>4, <2>5, <2>6, <3>1 DEF GrantsAreAccepted, Accepted
  <2>7. CASE ~(AcceptsOutputs /\ attempt = receiver /\ Accepted(receiver))
    <3>1. UNCHANGED <<authenticated, lock>>
      BY <1>5, <2>7 DEF Poll, stateVars
    <3> QED
      BY <3>1, <2>1, <2>3, <2>4 DEF IInv, GrantsAreAccepted
  <2> QED
    BY <2>6, <2>7
<1>6. CASE SecretsCleared
  BY <1>6, BoundAssumption, ClientAssumption DEF IInv, GrantsAreAccepted,
     ThreadsArePolled, TypeOK, SessionTypes, ScreenTypes, Attempts, PhaseFollowsLock, Live,
     AcceptsOutputs, Busy, stateVars, threadVars, screenVars, deskVars,
     clientVars, SecretsCleared
<1>7. CASE Exit
  BY <1>7, BoundAssumption, ClientAssumption DEF IInv, GrantsAreAccepted,
     ThreadsArePolled, TypeOK, SessionTypes, ScreenTypes, Attempts, PhaseFollowsLock, Live,
     AcceptsOutputs, Busy, stateVars, threadVars, screenVars, deskVars,
     clientVars, Exit
<1>8. CASE Crash
  BY <1>8, BoundAssumption, ClientAssumption DEF IInv, GrantsAreAccepted,
     ThreadsArePolled, TypeOK, SessionTypes, ScreenTypes, Attempts, PhaseFollowsLock, Live,
     AcceptsOutputs, Busy, stateVars, threadVars, screenVars, deskVars,
     clientVars, Crash, Changed
<1>9. ASSUME NEW o \in Monitors, MonitorAdded(o) PROVE (GrantsAreAccepted /\ ThreadsArePolled)'
  BY <1>9, BoundAssumption, ClientAssumption DEF IInv, GrantsAreAccepted,
     ThreadsArePolled, TypeOK, SessionTypes, ScreenTypes, Attempts, PhaseFollowsLock, Live,
     AcceptsOutputs, Busy, stateVars, threadVars, screenVars, deskVars,
     clientVars, MonitorAdded, Changed
<1>10. ASSUME NEW o \in Monitors, MonitorRemoved(o) PROVE (GrantsAreAccepted /\ ThreadsArePolled)'
  BY <1>10, BoundAssumption, ClientAssumption DEF IInv, GrantsAreAccepted,
     ThreadsArePolled, TypeOK, SessionTypes, ScreenTypes, Attempts, PhaseFollowsLock, Live,
     AcceptsOutputs, Busy, stateVars, threadVars, screenVars, deskVars,
     clientVars, MonitorRemoved, Changed
<1>11. ASSUME NEW o \in Monitors, AddOutput(o) PROVE (GrantsAreAccepted /\ ThreadsArePolled)'
  BY <1>11, BoundAssumption, ClientAssumption DEF IInv, GrantsAreAccepted,
     ThreadsArePolled, TypeOK, SessionTypes, ScreenTypes, Attempts, PhaseFollowsLock, Live,
     AcceptsOutputs, Busy, stateVars, threadVars, screenVars, deskVars,
     clientVars, AddOutput, Fail, UpdateScreens
<1>12. ASSUME NEW o \in Monitors, WindowDestroyed(o) PROVE (GrantsAreAccepted /\ ThreadsArePolled)'
  BY <1>12, BoundAssumption, ClientAssumption DEF IInv, GrantsAreAccepted,
     ThreadsArePolled, TypeOK, SessionTypes, ScreenTypes, Attempts, PhaseFollowsLock, Live,
     AcceptsOutputs, Busy, stateVars, threadVars, screenVars, deskVars,
     clientVars, WindowDestroyed, Fail, UpdateScreens
<1>13. ASSUME NEW o \in Monitors, Type(o) PROVE (GrantsAreAccepted /\ ThreadsArePolled)'
  BY <1>13, BoundAssumption, ClientAssumption DEF IInv, GrantsAreAccepted,
     ThreadsArePolled, TypeOK, SessionTypes, ScreenTypes, Attempts, PhaseFollowsLock, Live,
     AcceptsOutputs, Busy, stateVars, threadVars, screenVars, deskVars,
     clientVars, Type
<1>14. ASSUME NEW o \in Monitors, Submit(o) PROVE (GrantsAreAccepted /\ ThreadsArePolled)'
  BY <1>14, BoundAssumption, ClientAssumption DEF IInv, GrantsAreAccepted,
     ThreadsArePolled, TypeOK, SessionTypes, ScreenTypes, Attempts, PhaseFollowsLock, Live,
     AcceptsOutputs, Busy, stateVars, threadVars, screenVars, deskVars,
     clientVars, Submit, Begin, UpdateScreens
<1>15. CASE TakeLock
  BY <1>15, BoundAssumption, ClientAssumption DEF IInv, GrantsAreAccepted,
     ThreadsArePolled, TypeOK, SessionTypes, ScreenTypes, Attempts, PhaseFollowsLock, Live,
     AcceptsOutputs, Busy, stateVars, threadVars, screenVars, deskVars,
     clientVars, TakeLock, NextRequest, Compositor!Claim, Compositor!Sealing
<1>16. CASE TakeUnlock
  BY <1>16, BoundAssumption, ClientAssumption DEF IInv, GrantsAreAccepted,
     ThreadsArePolled, TypeOK, SessionTypes, ScreenTypes, Attempts, PhaseFollowsLock, Live,
     AcceptsOutputs, Busy, stateVars, threadVars, screenVars, deskVars,
     clientVars, TakeUnlock, NextRequest, Compositor!Release,
     Compositor!Sealing
<1>17. CASE Acknowledge
  BY <1>17, BoundAssumption, ClientAssumption DEF IInv, GrantsAreAccepted,
     ThreadsArePolled, TypeOK, SessionTypes, ScreenTypes, Attempts, PhaseFollowsLock, Live,
     AcceptsOutputs, Busy, stateVars, threadVars, screenVars, deskVars,
     clientVars, Acknowledge, Compositor!Acknowledge, Compositor!Sealing
<1>18. CASE CompositorAlone
  BY <1>18, BoundAssumption, ClientAssumption DEF IInv, GrantsAreAccepted,
     ThreadsArePolled, TypeOK, SessionTypes, ScreenTypes, Attempts, PhaseFollowsLock, Live,
     AcceptsOutputs, Busy, stateVars, threadVars, screenVars, deskVars,
     clientVars, CompositorAlone, Changed, Compositor!Shield, Compositor!Seal,
     Compositor!PrepareSleep, Compositor!Resume, Compositor!Claim,
     Compositor!Release, Compositor!Sealing
<1>19. CASE UNCHANGED vars
  BY <1>19, BoundAssumption, ClientAssumption DEF IInv, GrantsAreAccepted,
     ThreadsArePolled, TypeOK, SessionTypes, ScreenTypes, Attempts, PhaseFollowsLock, Live,
     AcceptsOutputs, Busy, stateVars, threadVars, screenVars, deskVars,
     clientVars, vars
<1> QED
  BY <1>1, <1>2, <1>3, <1>4, <1>5, <1>6, <1>7, <1>8, <1>9, <1>10, <1>11, <1>12, <1>13, <1>14, <1>15, <1>16, <1>17, <1>18, <1>19 DEF Next, Client

\* Screens and secrets.
LEMMA ScreenStep == IInv /\ [Next]_vars => (ScreensFollow /\ NoForgottenSecret)'
<1> SUFFICES ASSUME IInv, [Next]_vars PROVE (ScreensFollow /\ NoForgottenSecret)'
  OBVIOUS
<1>1. CASE Activate
  BY <1>1, BoundAssumption, ClientAssumption DEF IInv, ScreensFollow,
     NoForgottenSecret, TypeOK, SessionTypes, ScreenTypes, ThreadsArePolled, Live, AcceptsOutputs, Busy,
     stateVars, threadVars, screenVars, deskVars, clientVars, Activate, Fail,
     UpdateScreens
<1>2. CASE ReceiveLocked
  BY <1>2, BoundAssumption, ClientAssumption DEF IInv, ScreensFollow,
     NoForgottenSecret, TypeOK, SessionTypes, ScreenTypes, ThreadsArePolled, Live, AcceptsOutputs, Busy,
     stateVars, threadVars, screenVars, deskVars, clientVars, ReceiveLocked,
     Receive, UnlockIfReady, SettlePhase, Ended, Fail, UpdateScreens
<1>3. CASE ReceiveFinished
  BY <1>3, BoundAssumption, ClientAssumption DEF IInv, ScreensFollow,
     NoForgottenSecret, TypeOK, SessionTypes, ScreenTypes, ThreadsArePolled, Live, AcceptsOutputs, Busy,
     stateVars, threadVars, screenVars, deskVars, clientVars, ReceiveFinished,
     Receive, Fail, UpdateScreens
<1>4. ASSUME NEW g \in Attempts, Authenticate(g) PROVE (ScreensFollow /\ NoForgottenSecret)'
  BY <1>4, BoundAssumption, ClientAssumption DEF IInv, ScreensFollow,
     NoForgottenSecret, TypeOK, SessionTypes, ScreenTypes, ThreadsArePolled, Live, AcceptsOutputs, Busy,
     stateVars, threadVars, screenVars, deskVars, clientVars, Authenticate
<1>5. CASE Poll
  BY <1>5, BoundAssumption, ClientAssumption DEF IInv, ScreensFollow,
     NoForgottenSecret, TypeOK, SessionTypes, ScreenTypes, ThreadsArePolled, Live, AcceptsOutputs, Busy,
     stateVars, threadVars, screenVars, deskVars, clientVars, Poll, Accepted,
     UnlockIfReady, SettlePhase, Ended, Fail, UpdateScreens
<1>6. CASE SecretsCleared
  BY <1>6, BoundAssumption, ClientAssumption DEF IInv, ScreensFollow,
     NoForgottenSecret, TypeOK, SessionTypes, ScreenTypes, ThreadsArePolled, Live, AcceptsOutputs, Busy,
     stateVars, threadVars, screenVars, deskVars, clientVars, SecretsCleared
<1>7. CASE Exit
  BY <1>7, BoundAssumption, ClientAssumption DEF IInv, ScreensFollow,
     NoForgottenSecret, TypeOK, SessionTypes, ScreenTypes, ThreadsArePolled, Live, AcceptsOutputs, Busy,
     stateVars, threadVars, screenVars, deskVars, clientVars, Exit
<1>8. CASE Crash
  BY <1>8, BoundAssumption, ClientAssumption DEF IInv, ScreensFollow,
     NoForgottenSecret, TypeOK, SessionTypes, ScreenTypes, ThreadsArePolled, Live, AcceptsOutputs, Busy,
     stateVars, threadVars, screenVars, deskVars, clientVars, Crash, Changed
<1>9. ASSUME NEW o \in Monitors, MonitorAdded(o) PROVE (ScreensFollow /\ NoForgottenSecret)'
  BY <1>9, BoundAssumption, ClientAssumption DEF IInv, ScreensFollow,
     NoForgottenSecret, TypeOK, SessionTypes, ScreenTypes, ThreadsArePolled, Live, AcceptsOutputs, Busy,
     stateVars, threadVars, screenVars, deskVars, clientVars, MonitorAdded,
     Changed
<1>10. ASSUME NEW o \in Monitors, MonitorRemoved(o) PROVE (ScreensFollow /\ NoForgottenSecret)'
  BY <1>10, BoundAssumption, ClientAssumption DEF IInv, ScreensFollow,
     NoForgottenSecret, TypeOK, SessionTypes, ScreenTypes, ThreadsArePolled, Live, AcceptsOutputs, Busy,
     stateVars, threadVars, screenVars, deskVars, clientVars, MonitorRemoved,
     Changed
<1>11. ASSUME NEW o \in Monitors, AddOutput(o) PROVE (ScreensFollow /\ NoForgottenSecret)'
  <2>1. CASE Fail /\ UNCHANGED screens
    BY <2>1 DEF ScreensFollow, NoForgottenSecret, Fail, UpdateScreens, Busy, AcceptsOutputs
  <2>2. CASE /\ screens' = screens \cup {o}
             /\ busyScreens' = IF Busy THEN busyScreens \cup {o} ELSE busyScreens
             /\ typed' = {} /\ UNCHANGED stateVars
    <3>1. Busy' = Busy
      BY <2>2 DEF Busy, AcceptsOutputs, stateVars
    <3> QED
      BY <2>2, <3>1 DEF IInv, ScreensFollow, NoForgottenSecret
  <2> QED
    BY <1>11, <2>1, <2>2 DEF AddOutput
<1>12. ASSUME NEW o \in Monitors, WindowDestroyed(o) PROVE (ScreensFollow /\ NoForgottenSecret)'
  BY <1>12, BoundAssumption, ClientAssumption DEF IInv, ScreensFollow,
     NoForgottenSecret, TypeOK, SessionTypes, ScreenTypes, ThreadsArePolled, Live, AcceptsOutputs, Busy,
     stateVars, threadVars, screenVars, deskVars, clientVars, WindowDestroyed,
     Fail, UpdateScreens
<1>13. ASSUME NEW o \in Monitors, Type(o) PROVE (ScreensFollow /\ NoForgottenSecret)'
  BY <1>13, BoundAssumption, ClientAssumption DEF IInv, ScreensFollow,
     NoForgottenSecret, TypeOK, SessionTypes, ScreenTypes, ThreadsArePolled, Live, AcceptsOutputs, Busy,
     stateVars, threadVars, screenVars, deskVars, clientVars, Type
<1>14. ASSUME NEW o \in Monitors, Submit(o) PROVE (ScreensFollow /\ NoForgottenSecret)'
  BY <1>14, BoundAssumption, ClientAssumption DEF IInv, ScreensFollow,
     NoForgottenSecret, TypeOK, SessionTypes, ScreenTypes, ThreadsArePolled, Live, AcceptsOutputs, Busy,
     stateVars, threadVars, screenVars, deskVars, clientVars, Submit, Begin,
     UpdateScreens
<1>15. CASE TakeLock
  BY <1>15, BoundAssumption, ClientAssumption DEF IInv, ScreensFollow,
     NoForgottenSecret, TypeOK, SessionTypes, ScreenTypes, ThreadsArePolled, Live, AcceptsOutputs, Busy,
     stateVars, threadVars, screenVars, deskVars, clientVars, TakeLock,
     NextRequest, Compositor!Claim, Compositor!Sealing
<1>16. CASE TakeUnlock
  BY <1>16, BoundAssumption, ClientAssumption DEF IInv, ScreensFollow,
     NoForgottenSecret, TypeOK, SessionTypes, ScreenTypes, ThreadsArePolled, Live, AcceptsOutputs, Busy,
     stateVars, threadVars, screenVars, deskVars, clientVars, TakeUnlock,
     NextRequest, Compositor!Release, Compositor!Sealing
<1>17. CASE Acknowledge
  BY <1>17, BoundAssumption, ClientAssumption DEF IInv, ScreensFollow,
     NoForgottenSecret, TypeOK, SessionTypes, ScreenTypes, ThreadsArePolled, Live, AcceptsOutputs, Busy,
     stateVars, threadVars, screenVars, deskVars, clientVars, Acknowledge,
     Compositor!Acknowledge, Compositor!Sealing
<1>18. CASE CompositorAlone
  BY <1>18, BoundAssumption, ClientAssumption DEF IInv, ScreensFollow,
     NoForgottenSecret, TypeOK, SessionTypes, ScreenTypes, ThreadsArePolled, Live, AcceptsOutputs, Busy,
     stateVars, threadVars, screenVars, deskVars, clientVars, CompositorAlone,
     Changed, Compositor!Shield, Compositor!Seal, Compositor!PrepareSleep,
     Compositor!Resume, Compositor!Claim, Compositor!Release,
     Compositor!Sealing
<1>19. CASE UNCHANGED vars
  BY <1>19, BoundAssumption, ClientAssumption DEF IInv, ScreensFollow,
     NoForgottenSecret, TypeOK, SessionTypes, ScreenTypes, ThreadsArePolled, Live, AcceptsOutputs, Busy,
     stateVars, threadVars, screenVars, deskVars, clientVars, vars
<1> QED
  BY <1>1, <1>2, <1>3, <1>4, <1>5, <1>6, <1>7, <1>8, <1>9, <1>10, <1>11, <1>12, <1>13, <1>14, <1>15, <1>16, <1>17, <1>18, <1>19 DEF Next, Client
(***************************************************************************)
(* The invariant and the properties.                                       *)
(***************************************************************************)
LEMMA NextInv == IInv /\ [Next]_vars => IInv'
  BY TypeStep, HandStep, PhaseStep, GrantStep, ScreenStep DEF IInv

LEMMA Invariance == Spec => []IInv
  BY InitInv, NextInv, PTL DEF Spec

\* Every variable keeps its type, and no screen outlives its monitor.
THEOREM TypeCorrect == Spec => []TypeOK
  BY Invariance, PTL DEF IInv

\* The exit status tells whether the lock process opened the session.
THEOREM ExitIsHonest == Spec => []HonestExit
  BY Invariance, PTL DEF IInv

\* At most one PAM conversation is under way.
THEOREM OneConversationAtATime == Spec => []OneConversation
<1>1. IInv => OneConversation
  BY DEF IInv, ThreadsArePolled, OneConversation
<1> QED
  BY <1>1, Invariance, PTL

\* No password waits in an entry the lock can no longer use.
THEOREM NoSecretForgotten == Spec => []NoForgottenSecret
  BY Invariance, PTL DEF IInv

\* What the state says of the lock, the attempt, its thread and the entries agrees:
\* the types, one conversation, and no forgotten password.
THEOREM StateAgrees == Spec => []Consistent
<1>1. []TypeOK /\ []OneConversation /\ []NoForgottenSecret => []Consistent
  BY PTL DEF Consistent
<1> QED
  BY <1>1, TypeCorrect, OneConversationAtATime, NoSecretForgotten, PTL

\* The session leaves the locker only if PAM accepted the password of the attempt that
\* was begun last.
THEOREM OpensOnlyAccepted == Spec => OpensOnlyForAccepted
<1> DEFINE Opens == deskHolder = Locker /\ deskHolder' # Locker
           Accepts == generation \in Attempts /\ worker[generation] = "accepted"
<1>1. IInv /\ [Next]_vars => (Opens => Accepts)
  <2> SUFFICES ASSUME IInv, [Next]_vars, Opens PROVE Accepts
    OBVIOUS
  <2>1. deskHolder = Locker => deskPhase = "held"
    BY ClientAssumption DEF ClientAssumption, IInv, DeskConsistent
  <2>2. TakeUnlock
    <3>1. ~(UNCHANGED deskVars)
      BY DEF deskVars
    <3>2. ~Client
      BY <3>1
         DEF Client, Activate, ReceiveLocked, ReceiveFinished, Receive, Authenticate, Poll,
             SecretsCleared, Exit, Crash, MonitorAdded, MonitorRemoved, AddOutput,
             WindowDestroyed, Type, Submit
    <3>3. ~TakeLock
      BY <2>1 DEF TakeLock, Compositor!Claim, deskVars
    <3>4. ~Acknowledge
      BY DEF Acknowledge, Compositor!Acknowledge
    <3>5. ~CompositorAlone
      BY <2>1, ClientAssumption
         DEF ClientAssumption, CompositorAlone, Compositor!Shield, Compositor!Seal, Compositor!PrepareSleep,
             Compositor!Resume, Compositor!Claim
    <3> QED
      BY <3>1, <3>2, <3>3, <3>4, <3>5 DEF Next, vars, deskVars
  <2>3. lock = "released"
    BY <2>2, OneMessage DEF TakeUnlock, NextRequest, IInv, Handshake
  <2> QED
    BY <2>3 DEF IInv, GrantsAreAccepted
<1>2. IInv /\ [Next]_vars => [Opens => Accepts]_vars
  BY <1>1
<1> QED
  BY <1>2, Invariance, PTL DEF Spec, OpensOnlyForAccepted
==============================================================================

-------------------------- MODULE MCDesktopServices --------------------------
(* What the desktop does on the user's bus and service manager: the          *)
(* notification daemon (Notifications, with limits small enough to be        *)
(* reached), the tray (Tray: two applications, or one with a change and a    *)
(* command, or with a change and a fault), and the scopes and the published  *)
(* environment of sessions (SessionRemains: one terminal and one snap, two   *)
(* sessions).  They share no state, so a behaviour moves one of them: the    *)
(* states add up.                                                            *)
EXTENDS Notifications, SessionRemains

CONSTANTS mail, chat, open, shell, snap
TwoApps == {mail, chat}
OneKey == {open}
OneShell == {shell}
OneSnap == {snap}

Message(keys, resident, transient, due) ==
  [keys |-> keys, resident |-> resident, transient |-> transient, due |-> due]
Plain == Message(OneKey, FALSE, FALSE, "later")
Lasting == Message(OneKey, TRUE, FALSE, "never")
Passing == Message({}, FALSE, TRUE, "later")
AllKinds == {Plain, Lasting, Passing}

\* A signal fails only in a behaviour without clicks; one application leaves resident
\* messages, and the other transient ones.
Modest ==
  /\ clicks = 0 \/ failures = 0
  /\ \A i \in DOMAIN entries : /\ entries[i].resident => entries[i].sender = mail
                               /\ entries[i].transient => entries[i].sender = chat

CONSTANTS NumApps, MaxReads, MaxChanges, MaxCommands, TrayFaults, MaxGeneration
ASSUME TrayAssumption ==
  /\ NumApps \in Nat /\ MaxReads \in Nat /\ MaxChanges \in Nat /\ MaxCommands \in Nat
  /\ TrayFaults \in Nat /\ MaxGeneration \in Nat

VARIABLES app, registry, signals, connected, known, items, queued, pending, dirty, needed,
          discovery, reads, action, command, changed, snapshot, generation, trayCounters
trayVars == <<app, registry, signals, connected, known, items, queued, pending, dirty, needed,
              discovery, reads, action, command, changed, snapshot, generation, trayCounters>>

Tray == INSTANCE Tray WITH
  MaxFaults <- TrayFaults, counters <- trayCounters

\* What the bounds of Tray are in each scenario: a second command is a click, on the menu that
\* the first has opened.
TrayScenario ==
  CASE side = "two items" -> trayCounters' = trayCounters
    [] side = "menu" -> /\ app'[2].life = "absent" /\ trayCounters'.faults = 0
                        /\ trayCounters'.changes + trayCounters'.commands <= 2
                        /\ trayCounters'.commands = 2 /\ command' # <<>> => command'.kind = "click"
    [] side = "fault" -> app'[2].life = "absent" /\ trayCounters'.commands = 0

\* Of two sessions that are alike, the first to begin, or to die, is called one.
OneFirst == session'[one] = "starting" => session'[two] = "starting"

\* The manager has a path before the sessions begin; the other keys are unset.
ServicesInit ==
  /\ Init /\ Tray!Init /\ RemainsInit
  /\ side \in {"daemon", "two items", "menu", "fault", "scopes", "environment"}
  /\ manager[Path] = Host
ServicesNext ==
  \/ side = "daemon" /\ Next /\ Modest' /\ UNCHANGED <<trayVars, scopeVars, environment, side>>
  \/ /\ side \in {"two items", "menu", "fault"} /\ Tray!Next /\ TrayScenario
     /\ UNCHANGED <<vars, scopeVars, environment, side>>
  \/ RemainsNext /\ OneFirst /\ UNCHANGED <<vars, trayVars>>

\* The fairness of Tray, while it is what moves; that of the daemon is not needed elsewhere.
TrayFairness ==
  LET moves == side \in {"two items", "menu", "fault"}
  IN /\ WF_trayVars(moves /\ Tray!Discovery) /\ WF_trayVars(moves /\ Tray!Actions)
     /\ WF_trayVars(moves /\ Tray!Reconnects)
     /\ \A a \in Tray!TrayApps : WF_trayVars(moves /\ Tray!Reads(a))
     /\ WF_trayVars(moves /\ Tray!Poll) /\ WF_trayVars(moves /\ Tray!HandleSignal)
     /\ WF_trayVars(moves /\ Tray!Flush)

\* The guard polls, a launcher that has begun goes on, and the manager takes every
\* request and stops what it is to stop (TimeoutStopSec=1, and then a kill).
ScopesFairness ==
  LET moves == side = "scopes"
  IN /\ WF_scopeVars(moves /\ Scoped!Guard)
     /\ WF_scopeVars(moves /\ Scoped!BarrierStep("supervisor"))
     /\ WF_scopeVars(moves /\ Scoped!Finish) /\ WF_scopeVars(moves /\ Scoped!Clean)
     /\ WF_scopeVars(moves /\ Scoped!StartOwner) /\ WF_scopeVars(moves /\ Scoped!OwnerStopped)
     /\ \A x \in Scoped!Scopes :
          /\ WF_scopeVars(moves /\ Scoped!StartScope(x))
          /\ WF_scopeVars(moves /\ (Scoped!Record(x) \/ Scoped!Ask(x) \/ Scoped!AskSnap(x)))
          /\ WF_scopeVars(moves /\ scope[x] = "stopping" /\ Scoped!ScopeEnds(x))

\* Whoever has the lock goes on (its deadline is two seconds), and one of the owners of
\* the cleanup comes back to a journal that is left.
EnvironmentFairness ==
  LET moves == side = "environment"
  IN /\ WF_environment(moves /\ \E s \in {one, two} : \/ Environment!PublishStep(s)
                                                     \/ Environment!DisplayStep(s))
     /\ \A s \in {one, two} : SF_environment(moves /\ Environment!RetireStep(s))

ServicesSpec ==
  /\ ServicesInit /\ [][ServicesNext]_<<vars, trayVars, scopeVars, environment, side>>
  /\ WF_vars(side = "daemon" /\ Loop) /\ TrayFairness
  /\ ScopesFairness /\ EnvironmentFairness

\* A notification is live until its end is reported, once; and the queues of the tray hold
\* what is due, so that no signal of an application is forgotten.
ServicesSound == ReportedOnce /\ Tray!TrayKept

TraySettles == Tray!TraySettles
==============================================================================

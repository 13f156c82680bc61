--------------------------- MODULE SessionRemains ----------------------------
(* What a session must not leave behind: its scopes (AppScopes) and the      *)
(* environment it has published (ActivationEnvironment: two sessions that    *)
(* share the manager and the bus).  The two share no state, so a behaviour   *)
(* moves one of them, and neither while `side' names something else.         *)
EXTENDS Integers, FiniteSets

CONSTANTS Shells, Snaps, Login, ScopeFaults, one, two,
          Marker, Dir, Path, Display, Host, User, Empty, Unset, Free, None,
          MaxUserSets, MaxDisturbances

VARIABLES supervisor, desktop, directory, intent, ready, closing, records, owner, guard, scope,
          brief, launch, asked, barrier, killed
scopeVars == <<supervisor, desktop, directory, intent, ready, closing, records, owner, guard,
               scope, brief, launch, asked, barrier, killed>>

Scoped == INSTANCE AppScopes WITH
  runtime <- directory, requests <- asked, faults <- killed, MaxFaults <- ScopeFaults

ASSUME ScopesAssumption ==
  /\ IsFiniteSet(Shells \cup Snaps) /\ Shells \cap Snaps = {}
  /\ Scoped!Owner \notin Scoped!Scopes
  /\ Login \in BOOLEAN /\ ScopeFaults \in Nat

VARIABLES manager, bus, record, shown, session, op, aborts, userSets, stranded
environment == <<manager, bus, record, shown, session, op, aborts, userSets, stranded>>

Environment == INSTANCE ActivationEnvironment WITH Sessions <- {one, two}, phase <- session

\* Keys, values and markers are what they are called.
ASSUME EnvironmentAssumption ==
  /\ LET key == <<Marker, Dir, Path, Display>>
     IN \A i, j \in 1..4 : key[i] = key[j] => i = j
  /\ LET value == <<one, two, Host, User, Empty, Unset>>
     IN \A i, j \in 1..6 : value[i] = value[j] => i = j
  /\ None \notin Environment!Values \cup Environment!Records /\ Free \notin Environment!Operations
  /\ MaxUserSets \in Nat /\ MaxDisturbances \in Nat

VARIABLE side   \* what moves

RemainsInit == Scoped!Init /\ Environment!Init
RemainsNext ==
  \/ side = "scopes" /\ Scoped!Next /\ UNCHANGED <<environment, side>>
  \/ side = "environment" /\ Environment!Next /\ UNCHANGED <<scopeVars, side>>

RemainsSpec == RemainsInit /\ [][RemainsNext]_<<scopeVars, environment, side>>

\* What a session leaves to the manager of its user.  No scope outlives the removal of the
\* runtime directory; and applications are started with the directories of a session that
\* lives: those of a session that has gone are nowhere left, unless a later publication was
\* cut short over them, and those of the owner are untouched.
RemainsOwned ==
  /\ Scoped!TypeOK /\ Scoped!BarrierHolds
  /\ Environment!TypeOK /\ Environment!GoneLeavesNothing /\ Environment!OwnerIntact

\* Once a session has gone, its scopes end for good, and what it published is retired.
RemainsEnd == Scoped!ScopesEnd /\ Environment!Retired

\* What session_bus.rs:10 promises, also of a session over which another has crashed.
RetiredBeforeRemoval == Environment!RetiredBeforeRemoval
==============================================================================

------------------------ MODULE ActivationEnvironment ------------------------
(***************************************************************************)
(* How a native session publishes its environment to the user's manager    *)
(* and D-Bus daemon, keeps DISPLAY current, and takes everything back      *)
(* (hearthspace-session/src/session_bus/publish.rs, and activation.rs and  *)
(* activation/display.rs of hearthspace-desktop).  Several sessions of one *)
(* user share both.                                                        *)
(*                                                                         *)
(* The supervisor, the compositor and the guard of a session work under    *)
(* one file lock, which its owner's death releases, so there is at most    *)
(* one operation at a time; it may end, by an error or a death, between    *)
(* any two of its steps, and only the journal survives it.  The manager    *)
(* can be read; the bus can neither be read nor unset.  A user may change  *)
(* the manager at any time.  The updater, a child of milliseconds, is      *)
(* taken to end before another process has the lock.                       *)
(***************************************************************************)
EXTENDS Integers

CONSTANTS Sessions,
          Marker, Dir, Path, Display,  \* the keys; Path is any that merely names the session
          Host, User,    \* values from before, and of an independent writer
          Empty, Unset,
          Free, None,    \* no operation, no record
          MaxUserSets,     \* bound: independent changes
          MaxDisturbances  \* bound: those, operations cut short and supervisors killed

Names == {Marker, Dir, Path, Display}
Values == Sessions \cup {Host, User, Empty, Unset}
Environments == [Names -> Values]

VARIABLES
  manager, bus,   \* the environments of systemd and of the D-Bus daemon
  record,         \* the journal of each session
  shown,          \* its display record: the last DISPLAY of its compositor
  phase,          \* what its supervisor does
  op,             \* the operation under the lock
  aborts, userSets,
  stranded        \* history: the sessions an environment still named when the publication
                  \* of a later one was cut short after it had claimed the marker

vars == <<manager, bus, record, shown, phase, op, aborts, userSets, stranded>>

\* A value that names the session itself: its directory, a path in it, its display.
Own(s) == s

Records == [published : Environments, previous : Environments,
            pending : Values \cup {None}]
Operations == [kind : {"publish", "retire", "display"}, session : Sessions,
               step : {"claim", "bus", "manager", "verify", "latest", "replace", "remove",
                       "settle"},
               seen : Environments, plan : [Names -> Values \cup {None}]]

TypeOK ==
  /\ manager \in Environments /\ bus \in Environments
  /\ record \in [Sessions -> Records \cup {None}]
  /\ shown \in [Sessions -> Sessions \cup {Empty}]
  /\ phase \in [Sessions -> {"starting", "publishing", "live", "ending", "crashed", "gone"}]
  /\ op \in Operations \cup {Free}
  /\ aborts \in 0..MaxDisturbances /\ userSets \in 0..MaxUserSets
  /\ stranded \in SUBSET Sessions

Init ==
  /\ \E path \in {Host, Unset} :
       manager = [k \in Names |-> IF k = Path THEN path ELSE Unset]
  /\ bus = manager
  /\ record = [s \in Sessions |-> None]
  /\ shown = [s \in Sessions |-> Empty]
  /\ phase = [s \in Sessions |-> "starting"]
  /\ op = Free /\ aborts = 0 /\ userSets = 0 /\ stranded = {}

Disturbance == aborts + userSets < MaxDisturbances

Operation(kind, s, step) == op # Free /\ op.kind = kind /\ op.session = s /\ op.step = step
Begin(kind, s, step, seen, plan) ==
  op' = [kind |-> kind, session |-> s, step |-> step, seen |-> seen, plan |-> plan]
NoPlan == [k \in Names |-> None]
Step(next) == op' = [op EXCEPT !.step = next]

(***************************************************************************)
(* Publication.                                                            *)
(***************************************************************************)
Published(s) == [k \in Names |-> IF k = Display THEN shown[s] ELSE Own(s)]

\* The manager's value or, during an update of DISPLAY, the one from before it is what
\* this record has put there.
OwnedBy(r, k, value) == value = r.published[k] \/ (k = Display /\ value = r.pending)

\* What to restore later: not the values of a session whose own publication is complete,
\* nor any path in its directory.
Baseline ==
  LET owner == manager[Dir]
      r == record[owner]
      flattened == [k \in Names |-> IF k # Marker /\ manager[Marker] = owner /\ r # None
                                      /\ OwnedBy(r, k, manager[k])
                                   THEN r.previous[k] ELSE manager[k]]
  IN IF manager[Marker] \in Sessions /\ owner \in Sessions
     THEN [k \in Names |-> IF k = Marker \/ (k # Display /\ flattened[k] = Own(owner))
                          THEN Unset ELSE flattened[k]]
     ELSE [manager EXCEPT ![Marker] = Unset]

\* The journal is complete before anything is published.
Record(s) ==
  /\ op = Free /\ phase[s] = "starting" /\ record[s] = None
  /\ phase' = [phase EXCEPT ![s] = "publishing"]
  /\ record' = [record EXCEPT ![s] =
                 [published |-> Published(s), previous |-> Baseline, pending |-> None]]
  /\ Begin("publish", s, "claim", manager, NoPlan)
  /\ UNCHANGED <<manager, bus, shown, aborts, userSets, stranded>>

\* The marker goes first, so that a half-done publication is recognised.
Claim(s) ==
  /\ Operation("publish", s, "claim") /\ Step("bus")
  /\ manager' = [manager EXCEPT ![Marker] = Own(s)]
  /\ UNCHANGED <<bus, record, shown, phase, aborts, userSets, stranded>>

\* dbus-update-activation-environment --systemd: the bus, and then the manager.
PublishBus(s) ==
  /\ Operation("publish", s, "bus") /\ Step("manager")
  /\ bus' = record[s].published
  /\ UNCHANGED <<manager, record, shown, phase, aborts, userSets, stranded>>

PublishManager(s) ==
  /\ Operation("publish", s, "manager") /\ Step("verify")
  /\ manager' = record[s].published
  /\ UNCHANGED <<bus, record, shown, phase, aborts, userSets, stranded>>

\* A publication that did not arrive whole is taken back.
Verify(s) ==
  /\ Operation("publish", s, "verify") /\ op' = Free
  /\ phase' = [phase EXCEPT ![s] = IF manager = record[s].published THEN "live" ELSE "ending"]
  /\ UNCHANGED <<manager, bus, record, shown, aborts, userSets, stranded>>

(***************************************************************************)
(* DISPLAY.                                                                *)
(***************************************************************************)
\* An update already made needs nothing; one that failed may be asked for again.
DisplayAgrees(s, d) ==
  /\ shown[s] = d
  /\ record[s] # None => /\ record[s].published[Display] = d /\ record[s].pending = None
                         /\ manager[Display] = d

DisplaySkipsPending(s, d) ==
  /\ op = Free /\ phase[s] # "gone" /\ ~DisplayAgrees(s, d)
  /\ shown' = [shown EXCEPT ![s] = d]
  /\ IF record[s] # None /\ manager[Marker] = Own(s)
        /\ OwnedBy(record[s], Display, manager[Display])
     THEN /\ record' = [record EXCEPT ![s].published[Display] = d]
          /\ Begin("display", s, "bus", manager, NoPlan)
     ELSE UNCHANGED <<record, op>>
  /\ UNCHANGED <<manager, bus, phase, aborts, userSets, stranded>>

\* The compositor's new display is recorded; for an owner that is published the journal
\* then covers the old value and the new one.
DisplayChanges(s, d) ==
  /\ op = Free /\ phase[s] # "gone" /\ ~DisplayAgrees(s, d)
  /\ shown' = [shown EXCEPT ![s] = d]
  /\ IF record[s] # None /\ manager[Marker] = Own(s)
        /\ OwnedBy(record[s], Display, manager[Display])
     THEN /\ record' = [record EXCEPT ![s].pending = manager[Display],
                                      ![s].published[Display] = d]
          /\ Begin("display", s, "bus", manager, NoPlan)
     ELSE UNCHANGED <<record, op>>
  /\ UNCHANGED <<manager, bus, phase, aborts, userSets, stranded>>

DisplayBus(s) ==
  /\ Operation("display", s, "bus") /\ Step("manager")
  /\ bus' = [bus EXCEPT ![Display] = record[s].published[Display]]
  /\ UNCHANGED <<manager, record, shown, phase, aborts, userSets, stranded>>

\* An independent change ends the update; the journal keeps both values.
DisplayManager(s) ==
  /\ Operation("display", s, "manager")
  /\ IF manager[Marker] = Own(s) /\ manager[Display] = op.seen[Display]
     THEN /\ manager' = [manager EXCEPT ![Display] = record[s].published[Display]]
          /\ Step("settle")
     ELSE op' = Free /\ UNCHANGED manager
  /\ UNCHANGED <<bus, record, shown, phase, aborts, userSets, stranded>>

DisplaySettles(s) ==
  /\ Operation("display", s, "settle") /\ op' = Free
  /\ record' = [record EXCEPT ![s].pending = None]
  /\ UNCHANGED <<manager, bus, shown, phase, aborts, userSets, stranded>>

(***************************************************************************)
(* Retirement, by the supervisor that ends or by the guard that survives   *)
(* it: retire_from_session_dir.                                            *)
(***************************************************************************)
Ends(s) ==
  /\ phase[s] = "live" /\ phase' = [phase EXCEPT ![s] = "ending"]
  /\ UNCHANGED <<manager, bus, record, shown, op, aborts, userSets, stranded>>

\* The journal is read again under the lock.  What is still ours is to go back to what
\* it was; if a later session owns the environment, only the journal goes.
Retire(s) ==
  /\ op = Free /\ phase[s] \in {"ending", "crashed"} /\ record[s] # None
  /\ IF manager[Marker] = Own(s)
     THEN Begin("retire", s, "bus", manager,
                [k \in Names |-> IF OwnedBy(record[s], k, manager[k])
                                THEN record[s].previous[k] ELSE None])
     ELSE Begin("retire", s, "remove", manager, NoPlan)
  /\ UNCHANGED <<manager, bus, record, shown, phase, aborts, userSets, stranded>>

\* The bus takes what the manager will have; what should be unset becomes neutral.
RestoredBus(s) ==
  [k \in Names |-> CASE op.plan[k] = Unset -> Empty
                    [] op.plan[k] = None -> IF op.seen[k] = Unset THEN Empty ELSE op.seen[k]
                    [] OTHER -> op.plan[k]]

RetireBus(s) ==
  /\ Operation("retire", s, "bus") /\ Step("latest")
  /\ bus' = RestoredBus(s)
  /\ UNCHANGED <<manager, record, shown, phase, aborts, userSets, stranded>>

\* The manager is read once more: a key changed meanwhile is left alone.
RetireLatest(s) ==
  /\ Operation("retire", s, "latest")
  /\ op' = IF manager[Marker] = Own(s)
           THEN [op EXCEPT !.step = "replace", !.seen = manager,
                           !.plan = [k \in Names |-> IF manager[k] = op.seen[k] THEN @[k]
                                                    ELSE None]]
           ELSE [op EXCEPT !.step = "remove"]
  /\ UNCHANGED <<manager, bus, record, shown, phase, aborts, userSets, stranded>>

\* UnsetAndSetEnvironment: unset by value, set in any case; the marker goes last.
RetireManager(s) ==
  /\ Operation("retire", s, "replace") /\ Step("remove")
  /\ manager' = [k \in Names |->
                  CASE op.plan[k] = None -> manager[k]
                    [] op.plan[k] = Unset ->
                         IF manager[k] = op.seen[k] THEN Unset ELSE manager[k]
                    [] OTHER -> op.plan[k]]
  /\ UNCHANGED <<bus, record, shown, phase, aborts, userSets, stranded>>

RemoveRecord(s) ==
  /\ Operation("retire", s, "remove") /\ op' = Free
  /\ record' = [record EXCEPT ![s] = None]
  /\ UNCHANGED <<manager, bus, shown, phase, aborts, userSets, stranded>>

\* The runtime directory goes once the journal has.
Gone(s) ==
  /\ phase[s] \in {"ending", "crashed"} /\ record[s] = None
  /\ ~(op # Free /\ op.session = s)
  /\ phase' = [phase EXCEPT ![s] = "gone"]
  /\ UNCHANGED <<manager, bus, record, shown, op, aborts, userSets, stranded>>

(***************************************************************************)
(* Failures, and the rest of the desktop.                                  *)
(***************************************************************************)
\* An operation fails or its process dies.  The supervisor of a publication that failed
\* ends its session.
Abort ==
  /\ op # Free /\ Disturbance /\ aborts' = aborts + 1
  /\ op' = Free
  /\ IF op.kind = "publish"
     THEN \E p \in {"ending", "crashed"} : phase' = [phase EXCEPT ![op.session] = p]
     ELSE UNCHANGED phase
  /\ stranded' = IF op.kind = "publish" /\ op.step # "claim"
                 THEN stranded \cup {s \in Sessions \ {op.session} :
                                     \E k \in Names : Own(s) \in {manager[k], bus[k]}}
                 ELSE stranded
  /\ UNCHANGED <<manager, bus, record, shown, userSets>>

\* A supervisor dies while it does none of this, or before it began.
Crash(s) ==
  /\ phase[s] \in {"starting", "live", "ending"} /\ Disturbance
  /\ aborts' = aborts + 1
  /\ phase' = [phase EXCEPT ![s] = "crashed"]
  /\ UNCHANGED <<manager, bus, record, shown, op, userSets, stranded>>

UserSets(k) ==
  /\ userSets < MaxUserSets /\ Disturbance /\ userSets' = userSets + 1
  /\ manager' = [manager EXCEPT ![k] = User]
  /\ UNCHANGED <<bus, record, shown, phase, op, aborts, stranded>>

PublishStep(s) == Claim(s) \/ PublishBus(s) \/ PublishManager(s) \/ Verify(s)
DisplayStep(s) == DisplayBus(s) \/ DisplayManager(s) \/ DisplaySettles(s)
RetireStep(s) ==
  Retire(s) \/ RetireBus(s) \/ RetireLatest(s) \/ RetireManager(s) \/ RemoveRecord(s)

Next ==
  \/ \E s \in Sessions :
       \/ Record(s) \/ PublishStep(s) \/ DisplayStep(s) \/ RetireStep(s)
       \/ \E d \in {Empty, Own(s)} : DisplayChanges(s, d)
       \/ Ends(s) \/ Gone(s) \/ Crash(s)
  \/ Abort
  \/ \E k \in {Path, Display} : UserSets(k)

Spec == Init /\ [][Next]_vars

\* Whoever has the lock goes on (its deadline is two seconds), and one of the owners of
\* the cleanup comes back to a journal that is left.
Fairness ==
  \A s \in Sessions :
    WF_vars(PublishStep(s)) /\ WF_vars(DisplayStep(s)) /\ SF_vars(RetireStep(s))

FairSpec == Spec /\ Fairness
-----------------------------------------------------------------------------
\* Once a session has gone, neither environment names it any more, so that no application
\* is started with directories that are deleted, unless a later session's publication was
\* cut short while they still named it.
GoneLeavesNothing ==
  \A s \in Sessions : phase[s] = "gone" /\ s \notin stranded =>
    \A k \in Names : manager[k] # Own(s) /\ bus[k] # Own(s)

\* While a session owns the environment its values stay, whoever else comes and goes.
OwnerIntact ==
  \A s \in Sessions :
    phase[s] = "live" /\ manager[Marker] = Own(s) /\ op = Free =>
      /\ manager[Dir] = Own(s) /\ bus[Dir] = Own(s)
      /\ manager[Path] \in {Own(s), User} /\ bus[Path] = Own(s)
      /\ manager[Display] = User \/ OwnedBy(record[s], Display, manager[Display])

\* The shared activation values are retired before the session's directory is removed, as
\* session_bus.rs:10 says: the same without the exception.
RetiredBeforeRemoval ==
  \A s \in Sessions : phase[s] = "gone" =>
    \A k \in Names : manager[k] # Own(s) /\ bus[k] # Own(s)

\* A session whose supervisor has ended or died is retired.
Retired == \A s \in Sessions : <>[](phase[s] \in {"ending", "crashed"} => record[s] = None)
==============================================================================

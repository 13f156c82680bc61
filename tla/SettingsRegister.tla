--------------------------- MODULE SettingsRegister ---------------------------
(***************************************************************************)
(* What the settings file is to its readers: a register that daemons       *)
(* commit to and that a person may edit or remove.  A commit is published  *)
(* whole, with a revision above that of every earlier commit, also of one  *)
(* that an edit or a power failure undid (docs/SETTINGS.md).               *)
(***************************************************************************)
EXTENDS Integers

CONSTANTS Settings,     \* the settings a file may hold
          MaxRevision,  \* the last revision (i64::MAX in the code)
          Absent, Broken  \* no file, a file that does not parse

Snapshots == [revision : 0..MaxRevision, settings : Settings]
Files == Snapshots \cup {Absent, Broken}

VARIABLES file, highest  \* the file, the highest revision ever committed

vars == <<file, highest>>

TypeOK == file \in Files /\ highest \in 0..MaxRevision

Init == file \in Files /\ highest = 0

Commit ==
  /\ \E s \in Settings, r \in 1..MaxRevision :
       r > highest /\ file' = [revision |-> r, settings |-> s] /\ highest' = r

\* An edit, a removal, a power failure that loses what was not yet durable.
Outside == file' \in Files /\ file' # file /\ UNCHANGED highest

Next == Commit \/ Outside

Spec == Init /\ [][Next]_vars
==============================================================================

---------------------------------- MODULE Tray ----------------------------------
(***************************************************************************)
(* The tray of the shell (hearthspace-shell/src/tray): one loop that reads *)
(* signals, and the tasks it spawns (one discovery, a few reads, one       *)
(* action), whose results it joins in any order.  Applications, external,  *)
(* register with its watcher, change, and exit.                            *)
(*                                                                         *)
(* An application is a connection and a path, so a process that starts     *)
(* again is another one.  What it shows is a number, its menu another:     *)
(* both grow with each change.  Icons, labels and the replacement of a     *)
(* menu by another path are left out, and the shell owns the watcher.      *)
(***************************************************************************)
EXTENDS Integers, Sequences, FiniteSets, SequencesExt

CONSTANTS NumApps,      \* all constants are natural numbers
          MaxReads,     \* reads under way: 8
          MaxChanges, MaxCommands, MaxFaults, MaxGeneration  \* bounds

TrayApps == 1..NumApps        \* in the order of their addresses
Nothing == <<>>
NoMenu == 0                   \* the placeholder of a menu that was not loaded

VARIABLES
  app,        \* the applications: their life, what they show, their menu
  registry,   \* the watcher: those registered
  signals,    \* on their way to the loop
  connected,  \* a session with the bus
  known,      \* the loop: the key of each address, or 0
  items,      \* what was read, by key
  queued, pending, dirty,     \* keys to be read; those queued or being read;
                              \* those of which a signal came meanwhile
  needed,     \* another discovery is needed
  discovery, reads, action,   \* the tasks
  command,    \* from the interface
  changed, snapshot,          \* to the interface
  generation,
  counters    \* bounds only: changes, commands, faults

bus == <<app, registry, signals>>
queues == <<queued, pending, dirty>>
view == <<changed, snapshot>>
vars == <<bus, connected, known, items, queues, needed, discovery, reads, action, command,
          view, generation, counters>>

ItemKeys == TrayApps \X (1..MaxGeneration)
Items == [shows : Nat, menu : Nat, failed : BOOLEAN, loaded : BOOLEAN, revision : Nat]
Tasks == [pc : {"properties", "menu", "done", "failed"}, item : Items]
Known == {k \in ItemKeys : known[k[1]] = k[2]}
Shown == {k \in ItemKeys : items[k] # Nothing}
Reading == {k \in ItemKeys : reads[k] # Nothing}
View(item) == IF item = Nothing THEN Nothing ELSE <<item.shows, item.menu, item.failed>>

TypeOK ==
  /\ app \in [TrayApps -> [life : {"absent", "live", "gone"}, shows : Nat, menu : Nat]]
  /\ registry \subseteq TrayApps
  /\ signals \in Seq([kind : {"item", "menu", "owner"}, app : TrayApps] \cup {[kind |-> "registry"]})
  /\ connected \in BOOLEAN /\ needed \in BOOLEAN /\ changed \in BOOLEAN
  /\ known \in [TrayApps -> 0..MaxGeneration] /\ generation \in 0..MaxGeneration
  /\ items \in [ItemKeys -> Items \cup {Nothing}]
  /\ queued \in Seq(ItemKeys) /\ pending \subseteq ItemKeys /\ dirty \subseteq ItemKeys
  /\ discovery \in [pc : {"none", "names", "prune", "done"}, found : SUBSET TrayApps]
  /\ reads \in [ItemKeys -> Tasks \cup {Nothing}]
  /\ action \in [key : ItemKeys, menu : Nat,
                 pc : {"call", "check", "click", "load", "done", "failed"}] \cup {Nothing}
  /\ command \in [key : ItemKeys, kind : {"call", "open", "click"}] \cup {Nothing}

Init ==
  /\ app = [a \in TrayApps |-> [life |-> "absent", shows |-> 1, menu |-> 1]]
  /\ registry = {} /\ signals = <<>> /\ connected = TRUE
  /\ known = [a \in TrayApps |-> 0] /\ items = [k \in ItemKeys |-> Nothing]
  /\ queued = <<>> /\ pending = {} /\ dirty = {}
  /\ needed = FALSE /\ discovery = [pc |-> "names", found |-> {}]
  /\ reads = [k \in ItemKeys |-> Nothing] /\ action = Nothing /\ command = Nothing
  /\ changed = TRUE /\ snapshot = [k \in ItemKeys |-> Nothing]
  /\ generation = 0
  /\ counters = [changes |-> 0, commands |-> 0, faults |-> 0]

Count(counter, max) ==
  counters[counter] < max /\ counters' = [counters EXCEPT ![counter] = @ + 1]
Live(a) == app[a].life = "live"

-----------------------------------------------------------------------------
(***************************************************************************)
(* Applications, and the interface of the shell.                           *)
(***************************************************************************)
Signal(s) == signals' = IF connected THEN Append(signals, s) ELSE signals

Starts(a) ==
  /\ app[a].life = "absent" /\ app' = [app EXCEPT ![a].life = "live"]
  /\ UNCHANGED <<registry, signals, counters>>

Exits(a) ==
  /\ Live(a) /\ Count("changes", MaxChanges)
  /\ app' = [app EXCEPT ![a].life = "gone"] /\ Signal([kind |-> "owner", app |-> a])
  /\ UNCHANGED registry

\* register_status_notifier_item
Registers(a) ==
  /\ connected /\ Live(a) /\ a \notin registry
  /\ registry' = registry \cup {a} /\ Signal([kind |-> "registry"])
  /\ UNCHANGED <<app, counters>>

Changes(a) ==
  /\ Live(a) /\ Count("changes", MaxChanges)
  /\ \/ /\ app' = [app EXCEPT ![a].shows = @ + 1] /\ Signal([kind |-> "item", app |-> a])
     \/ /\ app' = [app EXCEPT ![a].menu = @ + 1] /\ Signal([kind |-> "menu", app |-> a])
  /\ UNCHANGED registry

Applications ==
  /\ \E a \in TrayApps : Starts(a) \/ Exits(a) \/ Registers(a) \/ Changes(a)
  /\ UNCHANGED <<connected, known, items, queues, needed, discovery, reads, action, command,
                 view, generation>>

\* Of what the interface shows; a click is on a menu it was shown.  A "call" is an
\* activation, a context menu of the application's own, or scrolling.
Commands ==
  /\ command = Nothing /\ Count("commands", MaxCommands)
  /\ \E k \in ItemKeys, kind \in {"call", "open", "click"} :
       /\ snapshot[k] # Nothing /\ (kind = "click" => snapshot[k][2] # NoMenu)
       /\ command' = [key |-> k, kind |-> kind]
  /\ UNCHANGED <<bus, connected, known, items, queues, needed, discovery, reads, action, view,
                 generation>>

-----------------------------------------------------------------------------
(***************************************************************************)
(* The tasks.                                                              *)
(***************************************************************************)
\* discover: who is on the bus is asked before the watcher's items are looked at,
\* which are pruned and listed in one step.
Discover ==
  /\ CASE discovery.pc = "names" ->
            /\ discovery' = [pc |-> "prune", found |-> {a \in TrayApps : Live(a)}]
            /\ UNCHANGED <<registry, signals>>
       [] discovery.pc = "prune" ->
            /\ registry' = registry \cap discovery.found
            /\ discovery' = [pc |-> "done", found |-> registry']
            /\ IF registry' = registry THEN UNCHANGED signals ELSE Signal([kind |-> "registry"])
       [] OTHER -> FALSE
  /\ UNCHANGED <<app, connected, known, items, queues, needed, reads, action, command, view,
                 generation, counters>>

\* refresh: the properties, and then a menu that was loaded before.
ReadStep(k) ==
  /\ reads[k] # Nothing
  /\ LET task == reads[k]
         a == app[k[1]]
     IN CASE task.pc = "properties" /\ Live(k[1]) ->
               reads' = [reads EXCEPT ![k].item.shows = a.shows,
                                      ![k].pc = IF task.item.loaded THEN "menu" ELSE "done"]
          [] task.pc = "properties" /\ ~Live(k[1]) -> reads' = [reads EXCEPT ![k].pc = "failed"]
          [] task.pc = "menu" ->
               reads' = [reads EXCEPT ![k].item.menu = IF Live(k[1]) THEN a.menu ELSE @,
                                      ![k].item.failed = ~Live(k[1]), ![k].pc = "done"]
          [] OTHER -> FALSE
  /\ UNCHANGED <<bus, connected, known, items, queues, needed, discovery, action, command, view,
                 generation, counters>>

\* A read that takes too long or is refused; without its menu alone an item is kept.
ReadFails(k) ==
  /\ reads[k] # Nothing /\ reads[k].pc \in {"properties", "menu"}
  /\ Count("faults", MaxFaults)
  /\ \/ reads' = [reads EXCEPT ![k].pc = "failed"]
     \/ /\ reads[k].pc = "menu"
        /\ reads' = [reads EXCEPT ![k].item.failed = TRUE, ![k].pc = "done"]
  /\ UNCHANGED <<bus, connected, known, items, queues, needed, discovery, action, command, view,
                 generation>>

\* A click changes the menu of an application.
Clicked(a) ==
  app' = [app EXCEPT ![a].menu = @ + 1] /\ Signal([kind |-> "menu", app |-> a])

\* perform, which an application answers: a call with no menu; a click is sent after the
\* live menu was read, which is read again after it.
ActionStep ==
  /\ action # Nothing
  /\ LET a == action.key[1]
     IN /\ Live(a)
        /\ \/ action.pc = "call" /\ action' = [action EXCEPT !.pc = "done"]
           \/ action.pc = "check" /\ action' = [action EXCEPT !.pc = "click"]
           \/ action.pc = "click" /\ action' = [action EXCEPT !.pc = "load"]
           \/ /\ action.pc = "load"
              /\ action' = [action EXCEPT !.pc = "done", !.menu = app[a].menu]
        /\ IF action.pc = "click" THEN Clicked(a) ELSE UNCHANGED <<app, signals>>
  /\ UNCHANGED <<registry, connected, known, items, queues, needed, discovery, reads, command,
                 view, generation, counters>>

\* The application has gone, an error or a refusal is its answer, the menu or the row is not
\* what the interface was shown, or two seconds pass: maybe after a click that did arrive.
ActionFails ==
  /\ action # Nothing /\ action.pc \notin {"done", "failed"}
  /\ action' = [action EXCEPT !.pc = "failed"]
  /\ LET a == action.key[1]
     IN \/ UNCHANGED <<app, signals>>
        \/ action.pc = "click" /\ Live(a) /\ Clicked(a)
  /\ UNCHANGED <<registry, connected, known, items, queues, needed, discovery, reads, command,
                 view, generation, counters>>

-----------------------------------------------------------------------------
(***************************************************************************)
(* The loop: a branch of its select, and then its top, which starts what   *)
(* there is room for.  A branch says what it leaves in the queues.         *)
(***************************************************************************)
Fresh == [shows |-> 0, menu |-> NoMenu, failed |-> FALSE, loaded |-> FALSE, revision |-> 0]
Left == [needed |-> needed, discovery |-> discovery, queued |-> queued, pending |-> pending,
         reads |-> reads]
Asks(k, s, front) ==
  IF k \in s.pending THEN s
  ELSE [s EXCEPT !.pending = @ \cup {k},
                 !.queued = IF front THEN <<k>> \o @ ELSE Append(@, k)]

\* The keys that are taken off the queue: those of which nothing is known any
\* more take no room.
Taken(s) ==
  LET room == MaxReads - Cardinality({k \in ItemKeys : s.reads[k] # Nothing})
      before(i) == {j \in 1..(i - 1) : s.queued[j] \in Known'}
  IN {i \in 1..Len(s.queued) : Cardinality(before(i)) < room}

Top(s) ==
  LET starts == s.needed /\ s.discovery.pc = "none"
      taken == {s.queued[i] : i \in Taken(s)}
      begins(k) == LET old == IF items'[k] = Nothing THEN Fresh ELSE items'[k]
                   IN [pc |-> "properties",
                       item |-> [old EXCEPT !.shows = 0, !.failed = FALSE]]
  IN /\ needed' = (s.needed /\ ~starts)
     /\ discovery' = IF starts THEN [pc |-> "names", found |-> {}] ELSE s.discovery
     /\ queued' = SubSeq(s.queued, Cardinality(Taken(s)) + 1, Len(s.queued))
     /\ pending' = s.pending \ (taken \ Known')
     /\ reads' = [k \in ItemKeys |-> IF k \in taken \cap Known' THEN begins(k) ELSE s.reads[k]]

\* Polls are further apart than a discovery takes.
Poll ==
  /\ connected /\ ~needed /\ discovery.pc = "none"
  /\ UNCHANGED <<bus, connected, known, items, dirty, action, command, view, generation, counters>>
  /\ Top([Left EXCEPT !.needed = TRUE])

MarkedQueued(k) == IF k \in ToSet(queued) THEN dirty \cup {k} ELSE dirty

\* What is being read, or is about to be, will be read once more.
Marked(k) == IF k \in pending THEN dirty \cup {k} ELSE dirty

\* A signal of an application is for every key of its connection; one of a menu
\* only once the item, and with it the path of its menu, has been read.
HandleSignal ==
  /\ connected /\ signals # <<>>
  /\ signals' = Tail(signals)
  /\ LET s == Head(signals)
         k == <<s.app, known[s.app]>>
         heard == /\ s.kind \in {"item", "menu"} /\ known[s.app] # 0
                  /\ s.kind = "menu" => items[k] # Nothing
         discovers == \/ s.kind = "registry"
                      \/ s.kind = "owner" /\ (s.app \in registry \/ known[s.app] # 0)
     IN /\ UNCHANGED <<app, registry, connected, known, items, action, command, view, generation,
                       counters>>
        /\ dirty' = IF heard THEN Marked(k) ELSE dirty
        /\ Top(IF heard THEN Asks(k, Left, TRUE)
               ELSE [Left EXCEPT !.needed = @ \/ discovers])

\* Those found whose address is new, up to a.
New(a) == {b \in discovery.found : known[b] = 0 /\ b <= a}

\* Every address is asked about in turn; those whose item is not kept go to the front.
Asked[a \in 0..NumApps] ==
  IF a = 0 THEN [Left EXCEPT !.discovery = [pc |-> "none", found |-> {}]]
  ELSE IF a \in discovery.found
  THEN Asks(<<a, known'[a]>>, Asked[a - 1], items'[<<a, known'[a]>>] = Nothing)
  ELSE Asked[a - 1]

\* Keys of earlier generations end here.
Discovered ==
  /\ connected /\ discovery.pc = "done"
  /\ generation' = generation + Cardinality(New(NumApps)) /\ generation' <= MaxGeneration
  /\ known' = [a \in TrayApps |-> IF a \notin discovery.found THEN 0
                              ELSE IF known[a] # 0 THEN known[a]
                              ELSE generation + Cardinality(New(a))]
  /\ items' = [k \in ItemKeys |-> IF k \in Known' THEN items[k] ELSE Nothing]
  /\ dirty' = dirty \cap Known'
  /\ changed' = (changed \/ items' # items)
  /\ UNCHANGED <<bus, connected, action, command, snapshot, counters>>
  /\ Top(Asked[NumApps])

RejoinedPending(k) == [Left EXCEPT !.reads[k] = Nothing]
Rejoined(k) == [Left EXCEPT !.reads[k] = Nothing, !.pending = @ \ {k}]

\* A read that ends: what was opened after it began is newer than what it found.
ReadJoined(k) ==
  /\ connected /\ reads[k] # Nothing /\ reads[k].pc \in {"done", "failed"}
  /\ LET read == reads[k].item
         old == items[k]
         kept == /\ old # Nothing
                 /\ old.revision # read.revision \/ (old.loaded /\ ~read.loaded)
         s == Rejoined(k)
     IN IF k \notin Known
        THEN UNCHANGED <<items, dirty, changed>> /\ UNCHANGED known /\ Top(s)
        ELSE /\ items' = [items EXCEPT ![k] = IF reads[k].pc = "failed" THEN Nothing
                                             ELSE IF kept THEN [old EXCEPT !.shows = read.shows]
                                             ELSE read]
             /\ dirty' = dirty \ {k}
             /\ changed' = (changed \/ View(items'[k]) # View(old))
             /\ UNCHANGED known
             /\ Top(IF k \in dirty THEN Asks(k, s, FALSE) ELSE s)
  /\ UNCHANGED <<bus, connected, action, command, snapshot, generation, counters>>

\* One action at a time; what is being read meanwhile gives way to its menu.
TakeCommand ==
  /\ connected /\ command # Nothing /\ action = Nothing
  /\ command' = Nothing
  /\ IF items[command.key] = Nothing THEN UNCHANGED <<items, action>>
     ELSE /\ items' = [items EXCEPT ![command.key].revision = @ + 1]
          /\ action' = [key |-> command.key, menu |-> NoMenu,
                        pc |-> CASE command.kind = "click" -> "check"
                                 [] command.kind = "open" -> "load"
                                 [] command.kind = "call" -> "call"]
  /\ UNCHANGED <<bus, connected, known, dirty, view, generation, counters>>
  /\ Top(Left)

ActionJoined ==
  /\ connected /\ action # Nothing /\ action.pc \in {"done", "failed"}
  /\ action' = Nothing
  /\ LET k == action.key
         opened == action.pc = "done" /\ action.menu # NoMenu
     IN IF items[k] = Nothing THEN UNCHANGED <<items, changed>>
        ELSE /\ items' = [items EXCEPT ![k].revision = @ + 1,
                            ![k].failed = action.pc = "failed",
                            ![k].loaded = @ \/ opened,
                            ![k].menu = IF opened THEN action.menu ELSE @]
             /\ changed' = TRUE
  /\ UNCHANGED <<bus, connected, known, dirty, command, snapshot, generation, counters>>
  /\ Top(Left)

Views == [k \in ItemKeys |-> View(items[k])]
Flush ==
  /\ connected /\ changed
  /\ changed' = FALSE /\ snapshot' = Views
  /\ UNCHANGED <<bus, connected, known, items, dirty, action, command, generation, counters>>
  /\ Top(Left)

\* The bus is lost, a discovery fails, or the watcher's name: everything is
\* dropped but the generations, so that no key is ever used again.
SessionLost ==
  /\ connected /\ Count("faults", MaxFaults)
  /\ connected' = FALSE
  /\ registry' = {} /\ signals' = <<>>
  /\ known' = [a \in TrayApps |-> 0] /\ items' = [k \in ItemKeys |-> Nothing]
  /\ queued' = <<>> /\ pending' = {} /\ dirty' = {} /\ needed' = FALSE
  /\ discovery' = [pc |-> "none", found |-> {}]
  /\ reads' = [k \in ItemKeys |-> Nothing] /\ action' = Nothing
  /\ changed' = FALSE /\ snapshot' = [k \in ItemKeys |-> Nothing]
  /\ UNCHANGED <<app, command, generation>>

\* A second later; the commands of the meantime are ignored.
Reconnects ==
  /\ ~connected /\ connected' = TRUE
  /\ command' = Nothing /\ changed' = TRUE
  /\ discovery' = [pc |-> "names", found |-> {}]
  /\ UNCHANGED <<bus, known, items, queues, needed, reads, action, snapshot, generation, counters>>

-----------------------------------------------------------------------------
Discovery == Discover \/ Discovered
Reads(a) == \E k \in {a} \X (1..MaxGeneration) : ReadStep(k) \/ ReadJoined(k)
Actions == ActionStep \/ ActionFails \/ ActionJoined
Next ==
  \/ Applications \/ Commands \/ SessionLost \/ Reconnects
  \/ Discovery \/ (\E a \in TrayApps : Reads(a)) \/ (\E k \in ItemKeys : ReadFails(k)) \/ Actions
  \/ Poll \/ HandleSignal \/ TakeCommand \/ Flush

\* The tasks run and time out; select! picks among the ready branches at random.
Fairness ==
  /\ WF_vars(Discovery) /\ WF_vars(Actions) /\ WF_vars(Reconnects)
  /\ \A a \in TrayApps : WF_vars(Reads(a))
  /\ WF_vars(Poll) /\ WF_vars(HandleSignal) /\ WF_vars(Flush)
Spec == Init /\ [][Next]_vars /\ Fairness

-----------------------------------------------------------------------------
(***************************************************************************)
(* Properties.                                                             *)
(***************************************************************************)
\* What is pending is queued or being read, once.
PendingIsDue ==
  /\ pending = ToSet(queued) \cup Reading
  /\ IsInjective(queued) /\ ToSet(queued) \cap Reading = {}
  /\ Cardinality(Reading) <= MaxReads
  /\ dirty \subseteq pending \cap Known

\* An item the loop keeps is one of an address it knows, and what the interface
\* sees differs from what the loop keeps only while a flush is due.
ViewsFlushed == Shown \subseteq Known /\ (changed \/ ~connected \/ snapshot = Views)

\* A change an application signalled is never forgotten: what the shell keeps of
\* it is what it shows, or it is going to be read, or the signal is unread.
NothingForgotten ==
  \A k \in Shown :
    LET a == k[1]
    IN \/ items[k].shows = app[a].shows
       \/ k \in dirty \/ k \in ToSet(queued)
       \/ [kind |-> "item", app |-> a] \in ToSet(signals)
       \/ k \in Reading /\ (\/ reads[k].pc \in {"properties", "failed"}
                             \/ reads[k].item.shows = app[a].shows)

\* The queues of the loop are sound and no signal is lost in them.
TrayKept == TypeOK /\ PendingIsDue /\ ViewsFlushed /\ NothingForgotten

\* In the end the interface shows the registered applications as they are, and no
\* other: polls make up for signals that came too early, menus that were joined
\* late, and reads that failed.
Settled ==
  \A a \in TrayApps :
    LET keys == {k \in ItemKeys : k[1] = a /\ snapshot[k] # Nothing}
    IN IF Live(a) /\ a \in registry
       THEN \E k \in Known :
              /\ keys = {k} /\ items[k] # Nothing
              /\ snapshot[k] = <<app[a].shows, IF items[k].loaded THEN app[a].menu ELSE NoMenu, FALSE>>
       ELSE keys = {}
TraySettles == <>[]Settled
=============================================================================

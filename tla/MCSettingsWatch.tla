--------------------------- MODULE MCSettingsWatch ---------------------------
(* One compositor, whose own closed connections and one silent stranger     *)
(* compete for the two places of the daemon.                                *)
EXTENDS SettingsWatch

CONSTANTS s1, c1
Single == {s1}
One == {c1}
Dark == s1

\* A second change comes only without faults and refreshes.
Modest == Len(history) <= 2 \/ (faults = 0 /\ refreshes = 0)
WatchSpec == Init /\ [][Next /\ Modest']_vars /\ Fairness
==============================================================================

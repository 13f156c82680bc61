--------------------------- MODULE MCSettingsStore ---------------------------
EXTENDS SettingsStore

CONSTANTS d1, d2

OneFair == StoreSpec /\ Fairness(d1)
OneAnswered == AnsweredBy(d1)
==============================================================================

SPECIFICATION BackendSpec
CONSTANTS
  o1 = o1
  c1 = c1
  c2 = c2
  Outputs <- Screens
  Unsteady <- Screens
  MaxInFlight = 1
  Clients <- Lockers
  None = None
  Defunct = Defunct
  MaxGeneration = 4
INVARIANTS ConfirmedMeansPresented
PROPERTIES OnlyOwnerReveals PromiseSpec HeadlessPromise FirstLockerSettled

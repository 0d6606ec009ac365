SPECIFICATION FairSpec
CONSTANTS
  Clients = {c1, c2}
  Ops <- MCOps
  UserOps <- MCUserOps
  Values <- MCValues
  Empty <- Blank
  Migrations <- MCMigrations
  Rejected = Rejected
  Apply <- MCApply
  NoFile = NoFile
  Partial = Partial
  LegacyFile = LegacyFile
  None = None
INVARIANTS MemoryMatchesFile BackupHoldsReplacedState IInv
PROPERTIES ImplementsAtomic MutateReturns

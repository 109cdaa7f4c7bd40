SPECIFICATION FairSpec
CONSTANTS
  Page = {0, 1, 2}
  Sec = {0, 1}
  Datum = {0, 1}
  JCAP = 2
  Batch <- MCBatch
INVARIANTS ServesRecovered JournalInv
PROPERTIES ImplementsAtomicStore ReturnsToIdle

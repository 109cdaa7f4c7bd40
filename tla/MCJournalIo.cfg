SPECIFICATION IoSpec
CONSTANTS
  Page = {0, 1}
  Sec = {0, 1}
  Datum = {0, 1}
  JCAP = 2
  MaxErrors = 2
  Batch <- MCBatch
INVARIANTS FailureRecoverable EarlyFailureRollsBack

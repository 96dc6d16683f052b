SPECIFICATION Spec
CONSTANTS
  MaxBatch = 2
  RetryChoices <- MCRetryChoices
  RetryAfters <- MCRetryAfters
  Jitters <- MCJitters
INVARIANTS
  AuthConfirmed

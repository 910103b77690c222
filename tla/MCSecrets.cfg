SPECIFICATION SecretsSpec
CONSTANTS
  Absent = Absent  Unreadable = Unreadable  Idle = Idle
  Key <- Secrets
  Value <- Generations
  Large = {}
  MaxStarts = 4
  MaxSets = 12
  MaxRemovals = 1
  MaxFailures = 2
  MaxCrashes = 1
INVARIANTS SecretsTypeOK TLSUnlessFailed PassphraseKept
PROPERTY CertificateKept
\* The bridge may stay down, and the number of starts is bounded.
CHECK_DEADLOCK FALSE

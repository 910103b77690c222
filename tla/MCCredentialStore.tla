------------------------- MODULE MCCredentialStore -------------------------
(* Instances of CredentialStore: two keys, a small and two large values.   *)
EXTENDS CredentialStore, TLC

CONSTANTS k1, k2, small, large1, large2

Keys == Permutations({k1, k2})

=============================================================================

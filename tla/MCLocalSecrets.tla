--------------------------- MODULE MCLocalSecrets ---------------------------
(* Instances of LocalSecrets.                                              *)
EXTENDS LocalSecrets

Secrets == {TLSCertificate, TLSPrivateKey, StoragePassphrase}
Generations == Secrets \X (1 .. MaxStarts)

=============================================================================

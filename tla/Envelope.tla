------------------------------ MODULE Envelope ------------------------------
(***************************************************************************)
(* The encrypted envelope of an email (internal/crypto): the body is       *)
(* sealed once under a fresh session key, and that key is wrapped for each *)
(* recipient under a secret agreed with the recipient's hybrid key (X-Wing *)
(* with AES Key Wrap).  Ciphers are symbolic: what is sealed under a key   *)
(* opens with that key and no other.  An operation that can fail returns a *)
(* set: its result in it, or nothing where the code returns an error.      *)
(***************************************************************************)
EXTENDS Naturals, Sequences

CONSTANTS
  KeyPair,    \* the hybrid key pairs, a half of one being named by the pair
  Usable,     \* those whose public half is a key: its length, and both keys in it
  Address,
  Lower       \* an address without its case

ASSUME EnvelopeAssumption ==
  /\ Usable \subseteq KeyPair
  /\ Lower \in [Address -> Address]
  /\ \A a \in Address : Lower[Lower[a]] = Lower[a]

SameAddress(a, b) == Lower[a] = Lower[b]

-----------------------------------------------------------------------------
(* Ciphers.                                                                *)

\* combineHybridSecrets: what both sides compute, the sender with the public key
\* it was given, the reader with the one of its own private key.
Combine(ciphertext, pair) == [made |-> ciphertext, with |-> pair]

\* nonce stands for the ephemeral key and the randomness of ML-KEM.
Encapsulate(pair, nonce) ==
  LET ciphertext == [to |-> pair, nonce |-> nonce]
  IN IF pair \in Usable
     THEN {[ciphertext |-> ciphertext, secret |-> Combine(ciphertext, pair)]}
     ELSE {}

\* Another pair's ciphertext yields some other secret, and no error.
Decapsulate(ciphertext, pair) == {Combine(ciphertext, pair)}

\* RFC 3394: a key comes back with the check that it was this secret's.
Wrap(key, secret) == [key |-> key, under |-> secret]
Unwrap(wrapped, secret) ==
  IF wrapped.under = secret THEN {wrapped.key} ELSE {}

WrapSessionKey(key, pair, nonce) ==
  {[ciphertext |-> agreed.ciphertext, key |-> Wrap(key, agreed.secret)] :
     agreed \in Encapsulate(pair, nonce)}

UnwrapSessionKey(wrapped, pair) ==
  UNION {Unwrap(wrapped.key, secret) :
           secret \in Decapsulate(wrapped.ciphertext, pair)}

\* AES-GCM.
EncryptSymmetrically(key, plain) == [plain |-> plain, under |-> key]
DecryptSymmetrically(key, sealed) ==
  IF sealed.under = key THEN {sealed.plain} ELSE {}

-----------------------------------------------------------------------------
(* Emails: a text, a preview, and the key of the files, where there is one *)
(* (a set of at most one).                                                 *)

EncryptEmail(email, key) ==
  [text    |-> EncryptSymmetrically(key, email.text),
   preview |-> EncryptSymmetrically(key, email.preview),
   filesKey |-> {EncryptSymmetrically(key, k) : k \in email.filesKey}]

\* A key that is absent is left out; a part that does not open is an error.
FilesKeyOf(sealed, key) ==
  UNION {DecryptSymmetrically(key, k) : k \in sealed.filesKey}
AllOpen(sealed, key) ==
  \A k \in sealed.filesKey : DecryptSymmetrically(key, k) # {}

DecryptEmail(sealed, key) ==
  IF AllOpen(sealed, key)
  THEN {[text |-> t, preview |-> p, filesKey |-> FilesKeyOf(sealed, key)] :
          t \in DecryptSymmetrically(key, sealed.text),
          p \in DecryptSymmetrically(key, sealed.preview)}
  ELSE {}

-----------------------------------------------------------------------------
(* Envelopes.                                                              *)

\* A body without a key for the files gets one all the same.
WithFilesKey(email, fresh) ==
  IF email.filesKey = {} THEN [email EXCEPT !.filesKey = {fresh}] ELSE email

Only(set) == CHOOSE x \in set : TRUE

SealedFor(recipients, key) ==
  [i \in DOMAIN recipients |->
     [for |-> recipients[i].address,
      wrapped |-> Only(WrapSessionKey(key, recipients[i].pair, <<key, i>>))]]

\* BuildEnvelope, with the two keys it draws.
BuildEnvelope(email, recipients, key, filesKey) ==
  IF recipients = <<>> \/ \E i \in DOMAIN recipients :
                             WrapSessionKey(key, recipients[i].pair, <<key, i>>) = {}
  THEN {}
  ELSE {[sealed |-> EncryptEmail(WithFilesKey(email, filesKey), key),
         wrappedKeys |-> SealedFor(recipients, key)]}

\* findKeyFor: the first that names the address, and no other is tried.
FindKeyFor(wrappedKeys, address) ==
  {wrappedKeys[i].wrapped : i \in
     {j \in DOMAIN wrappedKeys :
        /\ SameAddress(wrappedKeys[j].for, address)
        /\ \A k \in DOMAIN wrappedKeys :
             k < j => ~SameAddress(wrappedKeys[k].for, address)}}

SessionKeyFor(wrappedKeys, pair, address) ==
  UNION {UnwrapSessionKey(w, pair) : w \in FindKeyFor(wrappedKeys, address)}

DecryptEnvelope(envelope, pair, address) ==
  UNION {DecryptEmail(envelope.sealed, key) :
           key \in SessionKeyFor(envelope.wrappedKeys, pair, address)}

\* A listing carries the preview and the wrapped keys alone.
DecryptPreview(envelope, pair, address) ==
  UNION {DecryptSymmetrically(key, envelope.sealed.preview) :
           key \in SessionKeyFor(envelope.wrappedKeys, pair, address)}

=============================================================================

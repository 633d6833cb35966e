-------------------------------- MODULE Keys --------------------------------
(***************************************************************************)
(* The ML-DSA keys and what a verdict is worth under them:                 *)
(* daemon/qks_keygen.c, the key and signature parts of                     *)
(* daemon/qks_daemon.c, kernel/qks_sigverify.c and qks_pqc_glue.c.         *)
(*                                                                         *)
(* There are three copies of the public key: qks_pk.bin, which the daemon  *)
(* reads when it starts, and the array the kernel module was built with.   *)
(* The daemon signs with qks_sk.bin and checks itself before it sends; the *)
(* kernel turns whatever it cannot verify into a DENY.                     *)
(*                                                                         *)
(* A pair of keys is a number, and a signature the number of its key: one  *)
(* verifies under the public key of its pair and under no other.           *)
(***************************************************************************)
EXTENDS Integers, Sequences

CONSTANT MaxKeygens   \* bound: runs of qks_keygen

ASSUME KeysAssumption == MaxKeygens \in Nat

VARIABLES
  keyFile,       \* qks_pk.bin and qks_sk.bin in the daemon's directory
  keygen,        \* where qks_keygen is
  keygens,       \* how often it was started; the installed pair is number 0
  header,        \* the pair whose public key is in kernel/qks_pubkey.h
  kernelKey,     \* the same, of the module that is loaded
  g_pk, qks_sk   \* what the daemon read

keyVars == <<keyFile, keygen, keygens, header, kernelKey, g_pk, qks_sk>>

Pairs  == 0..MaxKeygens
Empty  == -1              \* absent, or opened and not yet written
Cut    == -2              \* a part of a key
KeyFiles == {"qks_pk.bin", "qks_sk.bin"}
Contents == Pairs \cup {Empty, Cut}

KeysTypeOK ==
  /\ keyFile \in [KeyFiles -> Contents]
  /\ keygen \in {"idle", "open_pk", "write_pk", "open_sk", "write_sk"}
  /\ keygens \in Pairs /\ header \in Pairs /\ kernelKey \in Pairs
  /\ g_pk \in Pairs \cup {Empty} /\ qks_sk \in Contents

KeysInit ==
  /\ keyFile = [f \in KeyFiles |-> 0]
  /\ keygen = "idle" /\ keygens = 0 /\ header = 0 /\ kernelKey = 0
  /\ g_pk = Empty /\ qks_sk = Empty

-----------------------------------------------------------------------------
(* qks_keygen, run in the daemon's directory.                               *)

Keygen ==
  /\ keygen = "idle" /\ keygens < MaxKeygens
  /\ keygen' = "open_pk" /\ keygens' = keygens + 1
  /\ UNCHANGED <<keyFile, header, kernelKey, g_pk, qks_sk>>

\* fopen(.., "wb") empties the file.  It is not checked: without the right to
\* write here the program dies of fwrite.
OpenKeyFile ==
  /\ \/ keygen = "open_pk" /\ keygen' = "write_pk" /\ keyFile' = [keyFile EXCEPT !["qks_pk.bin"] = Empty]
     \/ keygen = "open_sk" /\ keygen' = "write_sk" /\ keyFile' = [keyFile EXCEPT !["qks_sk.bin"] = Empty]
  /\ UNCHANGED <<keygens, header, kernelKey, g_pk, qks_sk>>

\* fwrite and fclose are not checked either: a full disk leaves a part.
WriteKeyFile ==
  /\ \E written \in {keygens, Cut} :
       \/ keygen = "write_pk" /\ keygen' = "open_sk" /\ keyFile' = [keyFile EXCEPT !["qks_pk.bin"] = written]
       \/ keygen = "write_sk" /\ keygen' = "idle" /\ keyFile' = [keyFile EXCEPT !["qks_sk.bin"] = written]
  /\ UNCHANGED <<keygens, header, kernelKey, g_pk, qks_sk>>

KeygenDies ==
  /\ keygen # "idle" /\ keygen' = "idle"
  /\ UNCHANGED <<keyFile, keygens, header, kernelKey, g_pk, qks_sk>>

\* The operator puts a public key into the header and builds the module.
BuildModule ==
  /\ keygen = "idle" /\ keyFile["qks_pk.bin"] \in Pairs \ {header}
  /\ header' = keyFile["qks_pk.bin"]
  /\ UNCHANGED <<keyFile, keygen, keygens, kernelKey, g_pk, qks_sk>>

-----------------------------------------------------------------------------
(* What the daemon reads: any secret key that is not empty, and a public    *)
(* key of the right length.                                                 *)

SecretKeyLoads == keyFile["qks_sk.bin"] # Empty
PublicKeyLoads == keyFile["qks_pk.bin"] \in Pairs

load_private_key ==
  /\ SecretKeyLoads
  /\ qks_sk' = keyFile["qks_sk.bin"]
  /\ UNCHANGED <<keyFile, keygen, keygens, header, kernelKey, g_pk>>

load_public_key ==
  /\ PublicKeyLoads
  /\ g_pk' = keyFile["qks_pk.bin"]
  /\ UNCHANGED <<keyFile, keygen, keygens, header, kernelKey, qks_sk>>

-----------------------------------------------------------------------------
(* A verdict.                                                               *)

Domain == "QKS:verdict:v1"

\* SHA-256 of the tuple, the same on both sides.  It stands for the event and
\* the time too, which a verdict carries along.
qks_hash_verdict_tuple(v) == <<Domain, v>>

\* crypto_sign_verify.  A part of a secret key signs nothing that verifies.
Verifies(sig, hash, pk) == sig.hash = hash /\ sig.pair = pk /\ pk \in Pairs

sign_hash(hash) == [pair |-> qks_sk, hash |-> hash]

NoSignature == [pair |-> Empty, hash |-> <<>>]

Message(v, hash, sig) == [verdict |-> v, hash |-> hash, signature |-> sig]

\* What the worker sends about an event its policy decides as pol: an ALLOW it
\* checked with its own public key, or a DENY without a signature if that
\* fails.  For a DENY it then makes another message and checks nothing - unless
\* the rule has suppress_log, when the first message is sent as it is.
SignedVerdict(pol, suppress) ==
  LET allow == qks_hash_verdict_tuple("ALLOW")
      deny  == qks_hash_verdict_tuple("DENY")
  IN IF pol = "DENY" /\ ~suppress THEN Message("DENY", deny, sign_hash(deny))
     ELSE IF Verifies(sign_hash(allow), allow, g_pk)
     THEN Message("ALLOW", allow, sign_hash(allow))
     ELSE Message("DENY", allow, NoSignature)

\* Slip: what the wrapper around crypto_sign_verify returns is not looked at.
qks_verify_signatureSlip(v, hashed) ==
  /\ v.signature # NoSignature
  /\ hashed /\ qks_hash_verdict_tuple(v.verdict) = v.hash

\* The length, the hash - hashed says whether crypto_shash gave one - and the
\* signature.
qks_verify_signature(v, hashed) ==
  /\ v.signature # NoSignature
  /\ hashed /\ qks_hash_verdict_tuple(v.verdict) = v.hash
  /\ Verifies(v.signature, v.hash, kernelKey)

\* qks_cmd_verdict: a verdict that does not verify is a DENY.
Applied(v, hashed) == IF qks_verify_signature(v, hashed) THEN v.verdict ELSE "DENY"

=============================================================================

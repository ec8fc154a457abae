------------------------------- MODULE Signing -------------------------------
(***************************************************************************)
(* Keys and signatures in use.  A server loads keys, may replace its key   *)
(* while sessions are under way, and signs in several sessions that share  *)
(* the loaded key; each session's peer verifies what the network brings    *)
(* it.  Signatures has the operations.                                     *)
(***************************************************************************)
EXTENDS Signatures

CONSTANTS
  PrivateKeys,  \* the private keys in use: [alg, param, id]
  Sessions,     \* sessions; each signs a transcript of its own
  Offers        \* the sets of schemes that peers offer

VARIABLES
  config,    \* the signing key the server presents, or None
  crashed,   \* the kind of encoding wc_EccPrivateKeyDecode crashed on, or None
  pc,        \* pc[s]: where session s is
  signer,    \* signer[s]: the signer session s holds, or None
  sig,       \* sig[s]: the signature it made, or None
  received   \* received[s]: what its peer accepted, or None

vars == <<config, crashed, pc, signer, sig, received>>

\* Encoded private keys: a label, which need not fit, and what the bytes hold.
\* A wrapping that does not parse is told apart for EdDSA keys, the ones that a
\* parsed wrapping gives away.
EncodedKeys ==
  [label : {"Pkcs8", "Sec1"}, bytes : {"pkcs8"}, key : PrivateKeys] \cup
  [label : {"Pkcs8", "Sec1"}, bytes : {"odd"}, key : {k \in PrivateKeys : IsEdDSA(k)}] \cup
  [label : {"Pkcs8", "Sec1"}, bytes : {"bare"}, key : {k \in PrivateKeys : k.alg = "ECDSA"}] \cup
  [label : {"Pkcs1"}, bytes : {"bare"}, key : {k \in PrivateKeys : k.alg = "RSA"}] \cup
  {[label |-> "Pkcs8", bytes |-> "junk", key |-> CHOOSE k \in PrivateKeys : TRUE]}

\* What kind of encoding it is, whatever the key.
Kinds == [label : {"Pkcs8", "Sec1", "Pkcs1"}, bytes : {"pkcs8", "odd", "bare", "junk"}]
Kind(der) == [label |-> der.label, bytes |-> der.bytes]

-----------------------------------------------------------------------------
(* The server and the peers of its sessions                                *)

Init ==
  /\ config = None
  /\ crashed = None
  /\ pc = [s \in Sessions |-> "idle"]
  /\ signer = [s \in Sessions |-> None]
  /\ sig = [s \in Sessions |-> None]
  /\ received = [s \in Sessions |-> None]

\* A key is loaded, perhaps in place of another; an error leaves things as
\* they were.  Sessions hold clones of the Arc they chose a scheme with.
Load(der, failing) ==
  /\ crashed = None
  /\ LET loaded == load_private_key(der, failing)
     IN  config' = IF loaded = None THEN config ELSE loaded
  /\ UNCHANGED <<crashed, pc, signer, sig, received>>

\* The decoder crashes, which ends the process.
Crash(der) ==
  /\ crashed = None
  /\ Crashes(der)
  /\ crashed' = Kind(der)
  /\ UNCHANGED <<config, pc, signer, sig, received>>

Choose(s, offered) ==
  /\ crashed = None /\ config # None /\ pc[s] = "idle"
  /\ LET scheme == choose_scheme(config, offered)
     IN  IF scheme = None
           THEN pc' = [pc EXCEPT ![s] = "failed"] /\ UNCHANGED signer
           ELSE /\ pc' = [pc EXCEPT ![s] = "chosen"]
                /\ signer' = [signer EXCEPT ![s] = [key |-> config.key, scheme |-> scheme]]
  /\ UNCHANGED <<config, crashed, sig, received>>

\* Session s signs its transcript, which s itself stands for.
Sign(s, failing, r_zeros, s_zeros) ==
  /\ crashed = None /\ pc[s] = "chosen"
  /\ LET made == sign(signer[s], s, failing, r_zeros, s_zeros)
     IN  IF made = NoSignature
           THEN pc' = [pc EXCEPT ![s] = "failed"] /\ UNCHANGED sig
           ELSE pc' = [pc EXCEPT ![s] = "signed"] /\ sig' = [sig EXCEPT ![s] = made]
  /\ UNCHANGED <<config, crashed, signer, received>>

\* The peer of session s, which has the certificate of the session's key,
\* verifies a signature the network brings it, under the scheme named with it.
Verify(s, scheme, x, ffiOk) ==
  /\ pc[s] = "signed"
  /\ IF ffiOk /\ verify_signature(scheme, signer[s].key, s, x)
       THEN /\ pc' = [pc EXCEPT ![s] = "accepted"]
            /\ received' = [received EXCEPT ![s] = [scheme |-> scheme, sig |-> x]]
       ELSE pc' = [pc EXCEPT ![s] = "rejected"] /\ UNCHANGED received
  /\ UNCHANGED <<config, crashed, signer, sig>>

Signed == {sig[s] : s \in Sessions} \ {None}
Attempts == SUBSET (1 .. 3)
ZeroCounts == {0, 2}  \* bound: leading zeros of r and s

Next ==
  \/ \E der \in EncodedKeys, failing \in Attempts : Load(der, failing)
  \/ \E der \in EncodedKeys : Crash(der)
  \/ \E s \in Sessions :
       \/ \E offered \in Offers : Choose(s, offered)
       \/ \E failing \in Attempts, r_zeros, s_zeros \in ZeroCounts :
            Sign(s, failing, r_zeros, s_zeros)
       \/ \E scheme \in Schemes, x \in Signed, ffiOk \in BOOLEAN : Verify(s, scheme, x, ffiOk)

Spec == Init /\ [][Next]_vars

-----------------------------------------------------------------------------
(* Properties                                                              *)

Places == {"idle", "chosen", "signed", "failed", "accepted", "rejected"}
Curves == {"P224", "P256", "P384", "P521"}
LoadedKey ==
  [alg : {"ECDSA", "RSA", "ED25519"}, key : PrivateKeys, scheme : Schemes \cup {None}]
SignerType == [key : PrivateKeys, scheme : Schemes]
Digests == [hash : {32, 48, 64}, of : Sessions]
Signature ==
  [key : PrivateKeys, pad : {"ecdsa", "pss", "pkcs1", "eddsa"}, len : Nat, rs : Seq(Nat),
   der : [r : Seq(Nat), s : Seq(Nat)], digest : Digests \cup Sessions]
Accepted == [scheme : Schemes, sig : Signature]

ASSUME KeyAssumption ==
  PrivateKeys \subseteq
    [alg : {"ECDSA"}, param : Curves, id : Nat] \cup
    [alg : {"RSA", "ED25519", "ED448", "X25519"}, param : Nat, id : Nat]
ASSUME NoneAssumption ==
  None \notin LoadedKey \cup SignerType \cup Signature \cup Accepted \cup Schemes \cup Kinds

\* Every variable has its type; in particular the scheme a session signs with
\* is one of the ten the provider knows, and one that its key can have.
SignTypeOK ==
  /\ config \in LoadedKey \cup {None}
  /\ crashed \in Kinds \cup {None}
  /\ pc \in [Sessions -> Places]
  /\ signer \in [Sessions -> SignerType \cup {None}]
  /\ sig \in [Sessions -> Signature \cup {None}]
  /\ received \in [Sessions -> Accepted \cup {None}]
  /\ \A s \in Sessions :
       /\ pc[s] \in {"chosen", "signed", "accepted", "rejected"} => signer[s] # None
       /\ signer[s] # None =>
            signer[s].scheme \in
              CASE signer[s].key.alg = "RSA"   -> RsaSchemes
                [] signer[s].key.alg = "ECDSA" -> EcdsaSchemes
                [] OTHER                       -> {"ED25519"}
       /\ (sig[s] # None) <=> (pc[s] \in {"signed", "accepted", "rejected"})

\* The label says what the bytes are: PKCS#8 that parses, a SEC1 or a PKCS#1
\* key, or a SEC1 key under the label PKCS#8, as the end-to-end test has it.
ProperKinds ==
  {[label |-> "Pkcs8", bytes |-> "pkcs8"], [label |-> "Pkcs8", bytes |-> "bare"],
   [label |-> "Sec1", bytes |-> "bare"], [label |-> "Pkcs1", bytes |-> "bare"]}

\* No key in a proper encoding crashes the process, an EdDSA key included,
\* although the ECDSA loader and its decoder are tried first on every key.
ProperKeysNeverCrash == crashed \notin ProperKinds

\* What the comment on the check for EdDSA says it is there for: no EdDSA key
\* at all reaches wc_EccPrivateKeyDecode.
NeverCrashes == crashed = None

\* A signature key loads as what it is or not at all, whichever attempts fail
\* on the way: the order of attempts never lets one algorithm's key through as
\* another's.
LoadsAsItself ==
  config # None /\ config.key.alg # "X25519" => config.alg = config.key.alg

\* The sizes PKCS#1 signatures are made for, and those a PSS buffer has room for.
CanSign(sg) ==
  /\ sg.key.alg = "RSA" =>
       IF sg.scheme \in PssSchemes THEN sg.key.param <= MAX_RSA_SIG_SIZE
                                   ELSE sg.key.param \in Range(PKCS1_SIZES)
  /\ sg.key.alg # "X25519"

\* Whatever scheme a session chose, the signature it makes verifies under the
\* algorithm the provider maps that scheme to, for the session's transcript and
\* its own key: hashes, r and s with leading zeros and key sizes agree on both
\* sides, and replacing the server's key meanwhile does not matter.
SignedVerifies ==
  \A s \in Sessions :
    pc[s] = "chosen" /\ CanSign(signer[s]) =>
      \A r_zeros, s_zeros \in ZeroCounts :
        LET made == sign(signer[s], s, {}, r_zeros, s_zeros)
        IN  made # NoSignature /\ verify_signature(signer[s].scheme, signer[s].key, s, made)

\* A peer accepts only the signature its own session made, under the scheme it
\* was made with: not one of another session, another key, another scheme.
AcceptedIsGenuine ==
  \A s \in Sessions :
    pc[s] = "accepted" => received[s] = [scheme |-> signer[s].scheme, sig |-> sig[s]]

\* A loaded key has the algorithm it was loaded as and, unless it is an RSA
\* key, which has a choice of schemes, the scheme of its curve.
OfCurve(key, scheme) ==
  key.alg = "ECDSA" => scheme \in EcdsaSchemes /\ X963Len(key.param) = 1 + 2 * FieldSize(scheme)
ConfigInv ==
  config # None =>
    /\ config.alg = (IF config.key.alg = "X25519" THEN "ED25519" ELSE config.key.alg)
    /\ OfCurve(config.key, config.scheme)
    /\ config.alg = "ED25519" => config.scheme = "ED25519"

\* A signer has a key that loads; a signature names the key and the scheme of
\* its session's signer, which nothing replaces, and the session's transcript; a
\* PKCS#1 signature has the size of its key, whichever attempts failed before.
PadOf(scheme) ==
  IF scheme \in PssSchemes THEN "pss"
  ELSE IF scheme \in RsaSchemes THEN "pkcs1"
  ELSE IF scheme \in EcdsaSchemes THEN "ecdsa" ELSE "eddsa"
Made(x, sg, s) ==
  /\ x.key = sg.key
  /\ x.pad = PadOf(sg.scheme)
  /\ x.pad = "pkcs1" => x.len = sg.key.param
  /\ x.digest = IF sg.scheme = "ED25519" THEN s ELSE Digest(sg.scheme, s)
SignerInv ==
  \A s \in Sessions :
    /\ signer[s] # None =>
         OfCurve(signer[s].key, signer[s].scheme) /\ signer[s].key.alg # "ED448"
    /\ sig[s] # None => Made(sig[s], signer[s], s)

\* The inductive invariant.
SignInv == SignTypeOK /\ ProperKeysNeverCrash /\ ConfigInv /\ SignerInv /\ AcceptedIsGenuine

=============================================================================

--------------------------- MODULE SigningProofs ---------------------------
(***************************************************************************)
(* Proofs about Signing.  The lemmas of the first parts say what choosing  *)
(* a scheme, encoding r and s, loading a key, signing and verifying        *)
(* return, whatever the key, the transcript and the calls that fail; the   *)
(* rest shows that SignInv is inductive and what follows from it.          *)
(***************************************************************************)
EXTENDS Signing, SignatureProofs

-----------------------------------------------------------------------------
(* Schemes                                                                 *)

\* The padding and the hash of a signature determine its scheme: no two of the
\* ten schemes make signatures that could stand for each other.
LEMMA SchemeOf ==
  ASSUME NEW a \in Schemes, NEW b \in Schemes, PadOf(a) = PadOf(b),
         a = "ED25519" \/ HashLen(a) = HashLen(b)
  PROVE  a = b
BY SchemeNames DEF Schemes, EcdsaSchemes, PssSchemes, PadOf, HashLen

-----------------------------------------------------------------------------
(* Loading                                                                 *)

\* An encoding that holds a key holds one of the private keys, and an unwrapped
\* key is an EC or an RSA key.
LEMMA EncodedShape ==
  ASSUME NEW der \in EncodedKeys
  PROVE  /\ der = [label |-> der.label, bytes |-> der.bytes, key |-> der.key]
         /\ Kind(der) \in Kinds
         /\ der.bytes # "junk" => der.key \in PrivateKeys
         /\ der.bytes = "bare" => ~IsEdDSA(der.key)
BY DEF EncodedKeys, Kind, Kinds, IsEdDSA

\* EcdsaSigningKey::try_from, which is tried first on every key, hands no EdDSA
\* key in a proper encoding to wc_EccPrivateKeyDecode.
LEMMA CrashesOnImproper ==
  ASSUME NEW der \in EncodedKeys, Crashes(der)
  PROVE  Kind(der) \in Kinds \ ProperKinds
<1>1. PICK d \in Sec1Bytes(der) : d.bytes \in {"pkcs8", "odd"} /\ IsEdDSA(d.key)
  BY DEF Crashes
<1>2. d = der /\ der.label # "Pkcs1" /\ ~(der.label = "Pkcs8" /\ der.bytes = "pkcs8")
  BY <1>1, EncodedShape DEF Sec1Bytes
<1> QED
  BY <1>1, <1>2, EncodedShape DEF Kind, ProperKinds

\* The scheme told from the length of a point is the one of the key's curve.
LEMMA CurveScheme ==
  ASSUME NEW curve \in Curves, x963_len_to_scheme(X963Len(curve)) # None
  PROVE  /\ x963_len_to_scheme(X963Len(curve)) \in EcdsaSchemes
         /\ X963Len(curve) = 1 + 2 * FieldSize(x963_len_to_scheme(X963Len(curve)))
BY DEF Curves, x963_len_to_scheme, X963Len, EcdsaSchemes, FieldSize

\* What loads as an ECDSA key is one, with the scheme of its curve.
LEMMA LoadsEcdsa ==
  ASSUME NEW der \in EncodedKeys, NEW ffiOk \in BOOLEAN, ecdsa_try_from(der, ffiOk).ok
  PROVE  LET res == ecdsa_try_from(der, ffiOk)
         IN  /\ der.key \in PrivateKeys /\ der.key.alg = "ECDSA" /\ res.key = der.key
             /\ res.scheme \in EcdsaSchemes /\ OfCurve(der.key, res.scheme)
<1> DEFINE scheme == x963_len_to_scheme(X963Len(der.key.param))
<1>1. /\ {d \in Sec1Bytes(der) : d.bytes # "junk" /\ d.key.alg = "ECDSA"} # {}
      /\ scheme # None /\ ecdsa_try_from(der, ffiOk) = Ok(der.key, scheme)
  BY DEF ecdsa_try_from, Ok, Err
<1>2. PICK d \in Sec1Bytes(der) : d.bytes # "junk" /\ d.key.alg = "ECDSA"
  BY <1>1
<1>3. d.key = der.key /\ der.bytes # "junk"
  BY <1>2, EncodedShape DEF Sec1Bytes
<1>4. der.key \in PrivateKeys /\ der.key.alg = "ECDSA" /\ der.key.param \in Curves
  BY <1>2, <1>3, EncodedShape, KeyAssumption
<1>5. scheme \in EcdsaSchemes /\ X963Len(der.key.param) = 1 + 2 * FieldSize(scheme)
  BY <1>1, <1>4, CurveScheme
<1> QED
  BY <1>1, <1>4, <1>5 DEF Ok, OfCurve

\* What loads as an RSA key is one.
LEMMA LoadsRsa ==
  ASSUME NEW der \in EncodedKeys, NEW ffiOk \in BOOLEAN, rsa_try_from(der, ffiOk).ok
  PROVE  LET res == rsa_try_from(der, ffiOk)
         IN  /\ der.key \in PrivateKeys /\ der.key.alg = "RSA"
             /\ res.key = der.key /\ res.scheme = None
BY EncodedShape DEF rsa_try_from, Ok, Err

\* What loads as an Ed25519 key is one, or an X25519 key.
LEMMA LoadsEddsa ==
  ASSUME NEW der \in EncodedKeys, NEW ffiOk \in BOOLEAN, eddsa_try_from(der, ffiOk).ok
  PROVE  LET res == eddsa_try_from(der, ffiOk)
         IN  /\ der.key \in PrivateKeys /\ der.key.alg \in {"ED25519", "X25519"}
             /\ res.key = der.key /\ res.scheme = "ED25519"
BY EncodedShape DEF eddsa_try_from, HasEd25519Octets, Ok, Err

\* What a key that is loaded is, apart from its type.
LoadedAs(k) ==
  /\ k.alg = (IF k.key.alg = "X25519" THEN "ED25519" ELSE k.key.alg)
  /\ OfCurve(k.key, k.scheme)
  /\ k.alg = "ED25519" => k.scheme = "ED25519"

\* load_private_key returns what the first attempt that succeeds returned, and
\* that is a key of the attempt's own algorithm, whichever attempts fail.
LEMMA LoadsOneOf ==
  ASSUME NEW der \in EncodedKeys, NEW failing, load_private_key(der, failing) # None
  PROVE  /\ load_private_key(der, failing) \in LoadedKey
         /\ LoadedAs(load_private_key(der, failing))
<1> DEFINE ec == ecdsa_try_from(der, 1 \notin failing)
           rsa == rsa_try_from(der, 2 \notin failing)
           ed == eddsa_try_from(der, 3 \notin failing)
           attempts == <<[alg |-> "ECDSA", result |-> ec], [alg |-> "RSA", result |-> rsa],
                         [alg |-> "ED25519", result |-> ed]>>
           loaded == {i \in DOMAIN attempts : attempts[i].result.ok}
           first == attempts[Min(loaded)]
           res == [alg |-> first.alg, key |-> first.result.key, scheme |-> first.result.scheme]
<1>1. loaded # {} /\ load_private_key(der, failing) = res
  BY DEF load_private_key
<1>2. DOMAIN attempts = 1 .. 3
  OBVIOUS
<1>3. Min(loaded) \in 1 .. 3 /\ first.result.ok
  <2>1. loaded \subseteq Nat
    BY <1>2
  <2>2. Min(loaded) \in loaded
    BY <1>1, <2>1, MinIsLeast
  <2> QED
    BY <1>2, <2>2
<1>4. \/ first.alg = "ECDSA" /\ first.result = ec
      \/ first.alg = "RSA" /\ first.result = rsa
      \/ first.alg = "ED25519" /\ first.result = ed
  <2> HIDE DEF ec, rsa, ed, loaded
  <2>1. CASE Min(loaded) = 1
    BY <2>1
  <2>2. CASE Min(loaded) = 2
    BY <2>2
  <2>3. CASE Min(loaded) = 3
    BY <2>3
  <2> QED
    BY <1>3, <2>1, <2>2, <2>3
<1>5. res.alg = first.alg /\ res.key = first.result.key /\ res.scheme = first.result.scheme
  OBVIOUS
<1>6. ec.ok => /\ der.key \in PrivateKeys /\ der.key.alg = "ECDSA" /\ ec.key = der.key
               /\ ec.scheme \in EcdsaSchemes /\ OfCurve(der.key, ec.scheme)
  BY LoadsEcdsa
<1>7. rsa.ok => /\ der.key \in PrivateKeys /\ der.key.alg = "RSA" /\ rsa.key = der.key
                /\ rsa.scheme = None
  BY LoadsRsa
<1>8. ed.ok => /\ der.key \in PrivateKeys /\ der.key.alg \in {"ED25519", "X25519"}
               /\ ed.key = der.key /\ ed.scheme = "ED25519"
  BY LoadsEddsa
<1> HIDE DEF ec, rsa, ed, first
<1>9. res \in LoadedKey
  BY <1>3, <1>4, <1>6, <1>7, <1>8 DEF LoadedKey, Schemes
<1>10. LoadedAs(res)
  BY <1>3, <1>4, <1>5, <1>6, <1>7, <1>8 DEF LoadedAs, OfCurve
<1> QED
  BY <1>1, <1>9, <1>10

-----------------------------------------------------------------------------
(* Signing and verifying                                                   *)

\* The placeholder for r and s in signatures that have none.
LEMMA OneByte == rs_bin_to_sig(<<1>>, <<1>>) \in [r : Seq(Nat), s : Seq(Nat)]
<1> DEFINE nonzero == {i \in DOMAIN <<1>> : <<1>>[i] # 0}
<1>1. Min(nonzero) = 1
  <2>1. 1 \in nonzero /\ nonzero \subseteq Nat /\ \A j \in nonzero : 1 <= j
    OBVIOUS
  <2> HIDE DEF nonzero
  <2> QED
    BY <2>1, LeastIsMin
<1>2. Strip(<<1>>) = SubSeq(<<1>>, 1, 1)
  BY <1>1 DEF Strip
<1>3. Strip(<<1>>) \in Seq(Nat)
  <2>1. <<1>> \in Seq(Nat) /\ Len(<<1>>) = 1
    OBVIOUS
  <2> QED
    BY <1>2, <2>1, SubSeqFull
<1> QED
  BY <1>3 DEF rs_bin_to_sig

\* What a signer must be for its signature to be one of its scheme.
SignerOk(sg) ==
  /\ sg \in SignerType /\ OfCurve(sg.key, sg.scheme) /\ sg.key.alg # "ED448"
  /\ sg.scheme \in CASE sg.key.alg = "RSA"   -> RsaSchemes
                     [] sg.key.alg = "ECDSA" -> EcdsaSchemes
                     [] OTHER                -> {"ED25519"}

\* The scheme of a signer says which algorithm its key has.
LEMMA SignerFacts ==
  ASSUME NEW sg, SignerOk(sg)
  PROVE  /\ sg.key \in PrivateKeys /\ sg.scheme \in Schemes
         /\ sg.scheme \in RsaSchemes <=> sg.key.alg = "RSA"
         /\ sg.scheme \in EcdsaSchemes <=> sg.key.alg = "ECDSA"
         /\ sg.scheme = "ED25519" <=> sg.key.alg \in {"ED25519", "X25519"}
         /\ sg.key.alg = "RSA" => sg.key.param \in Nat
<1>1. sg.key \in PrivateKeys /\ sg.scheme \in Schemes
  BY DEF SignerOk, SignerType
<1>2. /\ sg.key.alg = "RSA" => sg.key.param \in Nat
      /\ sg.key.alg \in {"ECDSA", "RSA", "ED25519", "ED448", "X25519"}
  BY <1>1, KeyAssumption
<1> QED
  BY <1>1, <1>2, SchemeNames DEF SignerOk, EcdsaSchemes

\* An ECDSA signature names the signer's key and scheme and the transcript, and
\* its r and s come back from DER as they were: it verifies.
LEMMA EcdsaSigns ==
  ASSUME NEW sg, SignerOk(sg), sg.scheme \in EcdsaSchemes, NEW s \in Sessions,
         NEW y \in ZeroCounts, NEW z \in ZeroCounts
  PROVE  /\ ecdsa_sign(sg, s, y, z) \in Signature
         /\ Made(ecdsa_sign(sg, s, y, z), sg, s)
         /\ ecdsa_verify(sg.scheme, sg.key, s, ecdsa_sign(sg, s, y, z))
<1> DEFINE n == FieldSize(sg.scheme)
           r == Scalar(n, y)
           t == Scalar(n, z)
           x == [key |-> sg.key, pad |-> "ecdsa", len |-> 2 * n, rs |-> r \o t,
                 der |-> rs_bin_to_sig(r, t), digest |-> Digest(sg.scheme, s)]
<1>1. n \in Nat /\ y \in Nat /\ z \in Nat /\ y < n /\ z < n
  BY SchemeSizes DEF ZeroCounts
<1>2. sg.key.alg = "ECDSA" /\ X963Len(sg.key.param) = 1 + 2 * n /\ sg.key \in PrivateKeys
  BY SignerFacts DEF SignerOk, OfCurve
<1>3. ecdsa_sign(sg, s, y, z) = x
  BY <1>2 DEF ecdsa_sign
<1> HIDE DEF n
<1>4. r \in Seq(Nat) /\ t \in Seq(Nat) /\ r \o t \in Seq(Nat)
  BY <1>1, ScalarShape, ConcatProperties
<1>5. rs_bin_to_sig(r, t) \in [r : Seq(Nat), s : Seq(Nat)]
  BY <1>1, StripScalar DEF rs_bin_to_sig
<1>6. Digest(sg.scheme, s) \in Digests
  BY SchemeSizes DEF Digest, Digests, EcdsaSchemes, Schemes
<1>7. r \o t = der_sig_to_fixed_rs(rs_bin_to_sig(r, t), n)
  BY <1>1, RoundTrip
<1> HIDE DEF r, t
<1>8. x \in Signature
  BY <1>1, <1>2, <1>4, <1>5, <1>6 DEF Signature
<1>9. PadOf(sg.scheme) = "ecdsa" /\ sg.scheme # "ED25519"
  BY SchemeNames DEF PadOf, PssSchemes, EcdsaSchemes
<1>10. Made(x, sg, s)
  BY <1>9 DEF Made
<1>11. ecdsa_verify(sg.scheme, sg.key, s, x)
  BY <1>2, <1>7 DEF ecdsa_verify, n
<1> QED
  BY <1>3, <1>8, <1>10, <1>11

\* An RSA signature, of either padding, names the same if it is as long as the
\* key.
LEMMA RsaSigns ==
  ASSUME NEW sg, SignerOk(sg), sg.scheme \in RsaSchemes, NEW s \in Sessions, NEW pad,
         pad = PadOf(sg.scheme)
  PROVE  LET x == RsaSignature(sg.key, pad, sg.key.param, Digest(sg.scheme, s))
         IN  /\ x \in Signature /\ Made(x, sg, s)
             /\ x.len = sg.key.param /\ sg.key.alg = "RSA" /\ sg.key.param \in Nat
<1>1. sg.key.alg = "RSA" /\ sg.key.param \in Nat /\ sg.key \in PrivateKeys
  BY SignerFacts
<1>2. pad \in {"pss", "pkcs1"} /\ sg.scheme # "ED25519"
  BY SchemeNames DEF PadOf
<1>3. Digest(sg.scheme, s) \in Digests
  BY SchemeSizes, SchemeNames DEF Digest, Digests, Schemes
<1> QED
  BY <1>1, <1>2, <1>3, OneByte DEF RsaSignature, Signature, Made

\* An Ed25519 signature is of the message itself.
LEMMA EddsaSigns ==
  ASSUME NEW sg, SignerOk(sg), sg.scheme = "ED25519", NEW s \in Sessions
  PROVE  /\ eddsa_sign(sg, s) \in Signature /\ Made(eddsa_sign(sg, s), sg, s)
<1>1. sg.key \in PrivateKeys
  BY SignerFacts
<1>2. PadOf("ED25519") = "eddsa"
  BY SchemeNames DEF PadOf, PssSchemes, EcdsaSchemes
<1> QED
  BY <1>1, <1>2, OneByte DEF eddsa_sign, Signature, Made

\* Whatever sign returns is a signature of the signer's key and scheme over the
\* transcript, whichever calls fail on the way.
LEMMA SignMakes ==
  ASSUME NEW sg, SignerOk(sg), NEW s \in Sessions, NEW failing, NEW y \in ZeroCounts,
         NEW z \in ZeroCounts, sign(sg, s, failing, y, z) # NoSignature
  PROVE  sign(sg, s, failing, y, z) \in Signature /\ Made(sign(sg, s, failing, y, z), sg, s)
<1>1. sg.scheme \in Schemes
  BY SignerFacts
<1>2. CASE sg.scheme \in RsaSchemes \ PssSchemes
  <2>1. PadOf(sg.scheme) = "pkcs1"
    BY <1>2 DEF PadOf
  <2>2. sign(sg, s, failing, y, z) = RsaSignature(sg.key, "pkcs1", sg.key.param, Digest(sg.scheme, s))
    BY <1>2, Pkcs1Signs DEF sign
  <2> QED
    BY <1>2, <2>1, <2>2, RsaSigns
<1>3. CASE sg.scheme \in PssSchemes
  <2>1. PadOf(sg.scheme) = "pss" /\ sg.scheme \in RsaSchemes
    BY <1>3, SchemeNames DEF PadOf, PssSchemes
  <2>2. sign(sg, s, failing, y, z) = RsaSignature(sg.key, "pss", sg.key.param, Digest(sg.scheme, s))
    BY <1>3 DEF sign, pss_sign
  <2> QED
    BY <2>1, <2>2, RsaSigns
<1>4. CASE sg.scheme \in EcdsaSchemes
  <2>1. sign(sg, s, failing, y, z) = ecdsa_sign(sg, s, y, z)
    BY <1>4, SchemeNames DEF sign, EcdsaSchemes, PssSchemes
  <2> QED
    BY <1>4, <2>1, EcdsaSigns
<1>5. CASE sg.scheme = "ED25519"
  <2>1. sign(sg, s, failing, y, z) = eddsa_sign(sg, s)
    BY <1>5, SchemeNames DEF sign, EcdsaSchemes, PssSchemes
  <2> QED
    BY <1>5, <2>1, EddsaSigns
<1> QED
  BY <1>1, <1>2, <1>3, <1>4, <1>5 DEF Schemes

\* When no call fails and the key has a size that can sign, sign returns a
\* signature that verifies under the same scheme.
LEMMA SignVerifies ==
  ASSUME NEW sg, SignerOk(sg), CanSign(sg), NEW s \in Sessions, NEW y \in ZeroCounts,
         NEW z \in ZeroCounts
  PROVE  LET made == sign(sg, s, {}, y, z)
         IN  made # NoSignature /\ verify_signature(sg.scheme, sg.key, s, made)
<1>1. Fits(sg)
  BY SignerFacts DEF SignerOk, OfCurve, CanSign, Fits, Schemes
<1> QED
  BY <1>1, SignsVerifiably DEF ZeroCounts

\* A signature that verifies was made under that scheme for that transcript.
LEMMA VerifiedIsOwn ==
  ASSUME NEW scheme \in Schemes, NEW key, NEW s, NEW t, NEW sg, SignerOk(sg), NEW x,
         Made(x, sg, t), verify_signature(scheme, key, s, x)
  PROVE  scheme = sg.scheme /\ s = t
<1>1. sg.scheme \in Schemes
  BY SignerFacts
<1>2. x.pad = PadOf(scheme) /\ x.digest = IF scheme = "ED25519" THEN s ELSE Digest(scheme, s)
  BY SchemeNames DEF verify_signature, pss_verify, pkcs1_verify, ecdsa_verify, eddsa_verify,
     PadOf, Schemes, EcdsaSchemes, PssSchemes
<1>3. PadOf(sg.scheme) = PadOf(scheme)
  BY <1>2 DEF Made
<1>4. (scheme = "ED25519") <=> (sg.scheme = "ED25519")
  BY <1>1, <1>3, SchemeNames DEF PadOf, Schemes, EcdsaSchemes, PssSchemes
<1>5. CASE scheme = "ED25519"
  BY <1>2, <1>4, <1>5 DEF Made
<1>6. CASE scheme # "ED25519"
  <2>1. Digest(scheme, s) = Digest(sg.scheme, t)
    BY <1>2, <1>4, <1>6 DEF Made
  <2>2. s = t /\ HashLen(scheme) = HashLen(sg.scheme)
    BY <2>1 DEF Digest
  <2> QED
    BY <1>1, <1>3, <2>2, SchemeOf
<1> QED
  BY <1>5, <1>6

-----------------------------------------------------------------------------
(* The actions                                                             *)

\* The signer of a session is a signer.
LEMMA SignerOf ==
  ASSUME SignInv, NEW s \in Sessions, signer[s] # None
  PROVE  SignerOk(signer[s])
BY DEF SignInv, SignTypeOK, SignerInv, SignerOk

\* Loading a key, or failing to, preserves SignInv.
LEMMA LoadInv ==
  ASSUME SignInv, NEW der \in EncodedKeys, NEW failing, Load(der, failing)
  PROVE  SignInv'
<1>1. crashed' = crashed
  BY DEF Load
<1>2. UNCHANGED <<pc, signer, sig, received>>
  BY DEF Load
<1>3. \/ config' = config
      \/ config' = load_private_key(der, failing) /\ load_private_key(der, failing) # None
  BY DEF Load
<1>4. config' \in LoadedKey \cup {None} /\ ConfigInv'
  <2>1. CASE config' = config
    BY <2>1 DEF SignInv, SignTypeOK, ConfigInv
  <2>2. CASE config' = load_private_key(der, failing) /\ load_private_key(der, failing) # None
    BY <2>2, LoadsOneOf DEF LoadedAs, ConfigInv
  <2> QED
    BY <1>3, <2>1, <2>2
<1>5. SignTypeOK' /\ ProperKeysNeverCrash'
  BY <1>1, <1>2, <1>4 DEF SignInv, SignTypeOK, ProperKeysNeverCrash
<1>6. SignerInv' /\ AcceptedIsGenuine'
  BY <1>2 DEF SignInv, SignerInv, AcceptedIsGenuine
<1> QED
  BY <1>4, <1>5, <1>6 DEF SignInv

\* A crash preserves SignInv: the encoding was not a proper one.
LEMMA CrashInv ==
  ASSUME SignInv, NEW der \in EncodedKeys, Crash(der)
  PROVE  SignInv'
<1>1. crashed' \in Kinds \ ProperKinds
  BY CrashesOnImproper DEF Crash
<1>2. UNCHANGED <<config, pc, signer, sig, received>>
  BY DEF Crash
<1>3. SignTypeOK' /\ ProperKeysNeverCrash'
  BY <1>1, <1>2 DEF SignInv, SignTypeOK, ProperKeysNeverCrash
<1>4. ConfigInv' /\ SignerInv' /\ AcceptedIsGenuine'
  BY <1>2 DEF SignInv, ConfigInv, SignerInv, AcceptedIsGenuine
<1> QED
  BY <1>3, <1>4 DEF SignInv

\* The scheme that choose_scheme returns is one that the loaded key can have.
LEMMA ChosenScheme ==
  ASSUME SignInv, config # None, NEW offered, choose_scheme(config, offered) # None
  PROVE  SignerOk([key |-> config.key, scheme |-> choose_scheme(config, offered)])
<1> DEFINE scheme == choose_scheme(config, offered)
<1>1. config \in LoadedKey /\ config.key \in PrivateKeys
  BY DEF SignInv, SignTypeOK, LoadedKey
<1>2. /\ config.alg = (IF config.key.alg = "X25519" THEN "ED25519" ELSE config.key.alg)
      /\ OfCurve(config.key, config.scheme)
      /\ config.alg = "ED25519" => config.scheme = "ED25519"
  BY DEF SignInv, ConfigInv
<1>3. config.alg = "RSA" => scheme \in RsaSchemes
  BY ChosenRsa DEF choose_scheme
<1>4. config.alg # "RSA" => scheme = config.scheme
  BY DEF choose_scheme
<1> HIDE DEF scheme
<1>5. /\ config.alg \in {"ECDSA", "RSA", "ED25519"} /\ config.key.alg # "ED448"
      /\ config.key.alg \in {"ECDSA", "RSA", "ED25519", "X25519"}
  BY <1>1, <1>2, KeyAssumption DEF LoadedKey
<1>6. /\ OfCurve(config.key, scheme) /\ scheme \in Schemes
      /\ scheme \in CASE config.key.alg = "RSA"   -> RsaSchemes
                      [] config.key.alg = "ECDSA" -> EcdsaSchemes
                      [] OTHER                    -> {"ED25519"}
  BY <1>2, <1>3, <1>4, <1>5 DEF OfCurve, Schemes
<1>7. SignerOk([key |-> config.key, scheme |-> scheme])
  BY <1>1, <1>5, <1>6 DEF SignerOk, SignerType
<1> QED
  BY <1>7 DEF scheme

\* What SignInv says of one session.
SessionOk(s) ==
  /\ pc[s] \in {"chosen", "signed", "accepted", "rejected"} => signer[s] # None
  /\ signer[s] # None => SignerOk(signer[s])
  /\ (sig[s] # None) <=> (pc[s] \in {"signed", "accepted", "rejected"})
  /\ sig[s] # None => Made(sig[s], signer[s], s)
  /\ pc[s] = "accepted" => received[s] = [scheme |-> signer[s].scheme, sig |-> sig[s]]

\* SignInv, session by session.
LEMMA BySession ==
  ASSUME SignInv
  PROVE  /\ config \in LoadedKey \cup {None} /\ ConfigInv
         /\ crashed \in Kinds \cup {None} /\ ProperKeysNeverCrash
         /\ pc \in [Sessions -> Places]
         /\ signer \in [Sessions -> SignerType \cup {None}]
         /\ sig \in [Sessions -> Signature \cup {None}]
         /\ received \in [Sessions -> Accepted \cup {None}]
         /\ \A s \in Sessions : SessionOk(s)
<1>1. ASSUME NEW s \in Sessions
      PROVE  SessionOk(s)
  <2>1. signer[s] # None => SignerOk(signer[s])
    BY SignerOf
  <2> QED
    BY <2>1 DEF SignInv, SignTypeOK, SignerInv, AcceptedIsGenuine, SessionOk
<1> QED
  BY <1>1 DEF SignInv, SignTypeOK

\* A step of one session preserves SignInv if the session is left in order.
LEMMA StepOfSession ==
  ASSUME SignInv, NEW s \in Sessions, UNCHANGED <<config, crashed>>,
         NEW where \in Places,
         pc' = [pc EXCEPT ![s] = where],
         signer' \in [Sessions -> SignerType \cup {None}],
         sig' \in [Sessions -> Signature \cup {None}],
         received' \in [Sessions -> Accepted \cup {None}],
         \A t \in Sessions \ {s} :
           signer'[t] = signer[t] /\ sig'[t] = sig[t] /\ received'[t] = received[t],
         SessionOk(s)'
  PROVE  SignInv'
<1>1. ASSUME NEW t \in Sessions
      PROVE  SessionOk(t)'
  <2>1. CASE t = s
    BY <2>1
  <2>2. CASE t # s
    <3>1. /\ pc'[t] = pc[t] /\ signer'[t] = signer[t] /\ sig'[t] = sig[t]
          /\ received'[t] = received[t]
      BY <2>2, BySession
    <3>2. SessionOk(t)
      BY BySession
    <3> QED
      BY <3>1, <3>2 DEF SessionOk
  <2> QED
    BY <2>1, <2>2
<1>2. ConfigInv'
  BY BySession DEF ConfigInv
<1>3. pc' \in [Sessions -> Places]
  BY BySession
<1>4. config' \in LoadedKey \cup {None} /\ crashed' \in Kinds \cup {None}
  BY BySession
<1>7. ProperKeysNeverCrash'
  BY BySession DEF ProperKeysNeverCrash
<1>5. SignTypeOK'
  BY <1>1, <1>3, <1>4 DEF SignTypeOK, SessionOk, SignerOk
<1>6. SignerInv' /\ AcceptedIsGenuine'
  BY <1>1 DEF SignerInv, AcceptedIsGenuine, SessionOk, SignerOk
<1> QED
  BY <1>2, <1>5, <1>6, <1>7 DEF SignInv

\* Choosing a scheme preserves SignInv, with whatever key is loaded then.
LEMMA ChooseInv ==
  ASSUME SignInv, NEW s \in Sessions, NEW offered, Choose(s, offered)
  PROVE  SignInv'
<1> DEFINE scheme == choose_scheme(config, offered)
           sg == [key |-> config.key, scheme |-> scheme]
<1>1. /\ config # None /\ pc[s] = "idle"
      /\ UNCHANGED <<config, crashed, sig, received>>
  BY DEF Choose
<1>2. /\ SessionOk(s) /\ pc \in [Sessions -> Places]
      /\ signer \in [Sessions -> SignerType \cup {None}]
      /\ sig \in [Sessions -> Signature \cup {None}]
      /\ received \in [Sessions -> Accepted \cup {None}]
  BY BySession
<1>3. CASE scheme = None
  <2>1. pc' = [pc EXCEPT ![s] = "failed"] /\ signer' = signer
    BY <1>3 DEF Choose
  <2>2. SessionOk(s)'
    BY <1>1, <1>2, <2>1 DEF SessionOk
  <2> QED
    BY <1>1, <1>2, <2>1, <2>2, StepOfSession DEF Places
<1>4. CASE scheme # None
  <2>1. pc' = [pc EXCEPT ![s] = "chosen"] /\ signer' = [signer EXCEPT ![s] = sg]
    BY <1>4 DEF Choose
  <2>2. SignerOk(sg) /\ sg \in SignerType /\ sg # None
    BY <1>1, <1>4, ChosenScheme, NoneAssumption DEF SignerOk
  <2> HIDE DEF sg
  <2>3. SessionOk(s)'
    BY <1>1, <1>2, <2>1, <2>2 DEF SessionOk
  <2>4. signer' \in [Sessions -> SignerType \cup {None}]
    BY <1>2, <2>1, <2>2
  <2>5. \A t \in Sessions \ {s} : signer'[t] = signer[t]
    BY <1>2, <2>1
  <2> QED
    BY <1>1, <1>2, <2>1, <2>3, <2>4, <2>5, StepOfSession DEF Places
<1> QED
  BY <1>3, <1>4

\* Signing preserves SignInv: the signer is the one chosen before, even if the
\* server's key was replaced since.
LEMMA SignStepInv ==
  ASSUME SignInv, NEW s \in Sessions, NEW failing, NEW y \in ZeroCounts, NEW z \in ZeroCounts,
         Sign(s, failing, y, z)
  PROVE  SignInv'
<1> DEFINE made == sign(signer[s], s, failing, y, z)
<1>1. pc[s] = "chosen" /\ UNCHANGED <<config, crashed, signer, received>>
  BY DEF Sign
<1>2. /\ SessionOk(s) /\ pc \in [Sessions -> Places]
      /\ signer \in [Sessions -> SignerType \cup {None}]
      /\ sig \in [Sessions -> Signature \cup {None}]
      /\ received \in [Sessions -> Accepted \cup {None}]
  BY BySession
<1>3. CASE made = NoSignature
  <2>1. pc' = [pc EXCEPT ![s] = "failed"] /\ sig' = sig
    BY <1>3 DEF Sign
  <2>2. SessionOk(s)'
    BY <1>1, <1>2, <2>1 DEF SessionOk
  <2> QED
    BY <1>1, <1>2, <2>1, <2>2, StepOfSession DEF Places
<1>4. CASE made # NoSignature
  <2>1. pc' = [pc EXCEPT ![s] = "signed"] /\ sig' = [sig EXCEPT ![s] = made]
    BY <1>4 DEF Sign
  <2>2. SignerOk(signer[s])
    BY <1>1, <1>2 DEF SessionOk
  <2>3. made \in Signature /\ Made(made, signer[s], s) /\ made # None
    BY <1>4, <2>2, SignMakes, NoneAssumption
  <2> HIDE DEF made
  <2>4. SessionOk(s)'
    BY <1>1, <1>2, <1>4, <2>1, <2>3 DEF SessionOk
  <2>5. sig' \in [Sessions -> Signature \cup {None}]
    BY <1>2, <2>1, <2>3
  <2>6. \A t \in Sessions \ {s} : sig'[t] = sig[t]
    BY <1>2, <2>1
  <2> QED
    BY <1>1, <1>2, <2>1, <2>4, <2>5, <2>6, StepOfSession DEF Places
<1> QED
  BY <1>3, <1>4

\* Verifying preserves SignInv: what is accepted is the session's own signature,
\* whichever signature the network brings.
LEMMA VerifyInv ==
  ASSUME SignInv, NEW s \in Sessions, NEW scheme \in Schemes, NEW x \in Signed,
         NEW ffiOk \in BOOLEAN, Verify(s, scheme, x, ffiOk)
  PROVE  SignInv'
<1> DEFINE rec == [scheme |-> scheme, sig |-> x]
<1>1. pc[s] = "signed" /\ UNCHANGED <<config, crashed, signer, sig>>
  BY DEF Verify
<1>2. /\ SessionOk(s) /\ pc \in [Sessions -> Places]
      /\ signer \in [Sessions -> SignerType \cup {None}]
      /\ sig \in [Sessions -> Signature \cup {None}]
      /\ received \in [Sessions -> Accepted \cup {None}]
  BY BySession
<1>3. CASE ~(ffiOk /\ verify_signature(scheme, signer[s].key, s, x))
  <2>1. pc' = [pc EXCEPT ![s] = "rejected"] /\ received' = received
    BY <1>3 DEF Verify
  <2>2. SessionOk(s)'
    BY <1>1, <1>2, <2>1 DEF SessionOk
  <2> QED
    BY <1>1, <1>2, <2>1, <2>2, StepOfSession DEF Places
<1>4. CASE ffiOk /\ verify_signature(scheme, signer[s].key, s, x)
  <2>1. pc' = [pc EXCEPT ![s] = "accepted"] /\ received' = [received EXCEPT ![s] = rec]
    BY <1>4 DEF Verify
  <2>2. PICK t \in Sessions : x = sig[t] /\ sig[t] # None
    BY DEF Signed
  <2>3. SignerOk(signer[t]) /\ Made(x, signer[t], t)
    BY <2>2, BySession DEF SessionOk
  <2>4. scheme = signer[t].scheme /\ s = t
    BY <1>4, <2>3, VerifiedIsOwn
  <2>5. rec = [scheme |-> signer[s].scheme, sig |-> sig[s]] /\ rec \in Accepted
    BY <1>2, <2>2, <2>4 DEF Accepted
  <2> HIDE DEF rec
  <2>6. SessionOk(s)'
    BY <1>1, <1>2, <2>1, <2>5 DEF SessionOk
  <2>7. received' \in [Sessions -> Accepted \cup {None}]
    BY <1>2, <2>1, <2>5
  <2>8. \A u \in Sessions \ {s} : received'[u] = received[u]
    BY <1>2, <2>1
  <2> QED
    BY <1>1, <1>2, <2>1, <2>6, <2>7, <2>8, StepOfSession DEF Places
<1> QED
  BY <1>3, <1>4

-----------------------------------------------------------------------------
(* The theorems                                                            *)

\* SignInv is an invariant: a session's signer has a key that loads and a scheme
\* of that key, and its signature is of that signer and its own transcript.
THEOREM Invariant == Spec => []SignInv
<1>1. Init => SignInv
  BY NoneAssumption DEF Init, Places, SignInv, SignTypeOK, ProperKeysNeverCrash, ProperKinds, Kinds,
     ConfigInv, SignerInv, AcceptedIsGenuine
<1>2. SignInv /\ [Next]_vars => SignInv'
  <2>1. ASSUME SignInv, UNCHANGED vars
        PROVE  SignInv'
    BY <2>1 DEF vars, SignInv, SignTypeOK, ProperKeysNeverCrash, ConfigInv, SignerInv,
       AcceptedIsGenuine
  <2> QED
    BY <2>1, LoadInv, CrashInv, ChooseInv, SignStepInv, VerifyInv DEF Next
<1> QED
  BY <1>1, <1>2, PTL DEF Spec

\* Every variable has its type, and the scheme a session signs with is one that
\* its key can have.
THEOREM TypeCorrect == Spec => []SignTypeOK
<1>1. SignInv => SignTypeOK
  BY DEF SignInv
<1> QED
  BY <1>1, Invariant, PTL

\* No key in a proper encoding crashes wc_EccPrivateKeyDecode, whatever algorithm
\* it is of and whatever was loaded before.
THEOREM NoProperCrash == Spec => []ProperKeysNeverCrash
<1>1. SignInv => ProperKeysNeverCrash
  BY DEF SignInv
<1> QED
  BY <1>1, Invariant, PTL

\* A signature key loads as what it is or not at all, in whatever encoding and
\* whichever attempts fail.
THEOREM OwnAlgorithm == Spec => []LoadsAsItself
<1>1. SignInv => LoadsAsItself
  BY DEF SignInv, ConfigInv, LoadsAsItself
<1> QED
  BY <1>1, Invariant, PTL

\* The signature a session makes verifies under the algorithm the provider maps
\* its scheme to, for every key whose size can sign.
THEOREM Verifiable == Spec => []SignedVerifies
<1>1. SignInv => SignedVerifies
  <2> SUFFICES ASSUME SignInv, NEW s \in Sessions, pc[s] = "chosen", CanSign(signer[s]),
                      NEW y \in ZeroCounts, NEW z \in ZeroCounts
               PROVE  LET made == sign(signer[s], s, {}, y, z)
                      IN  made # NoSignature /\ verify_signature(signer[s].scheme, signer[s].key, s, made)
    BY DEF SignedVerifies
  <2>1. SignerOk(signer[s])
    BY BySession DEF SessionOk
  <2> QED
    BY <2>1, SignVerifies
<1> QED
  BY <1>1, Invariant, PTL

\* A peer accepts only the signature its own session made, under the scheme it
\* was made with.
THEOREM Genuine == Spec => []AcceptedIsGenuine
<1>1. SignInv => AcceptedIsGenuine
  BY DEF SignInv
<1> QED
  BY <1>1, Invariant, PTL

=============================================================================

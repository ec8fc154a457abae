--------------------------- MODULE SignatureProofs ---------------------------
(***************************************************************************)
(* What the operators of Signatures return, for every key, message and     *)
(* leading zeros: the scheme an RSA key chooses, the way of r and s        *)
(* through DER and back, and that a signature verifies.                    *)
(***************************************************************************)
EXTENDS Signatures, SequenceTheorems, WellFoundedInduction, TLAPS

-----------------------------------------------------------------------------
(* The first of the entries of a list that will do                         *)

\* A nonempty set of naturals has a least member, and Min is that member: a
\* search for the first entry that will do finds one whenever there is one.
LEMMA MinIsLeast ==
  ASSUME NEW S, S \subseteq Nat, S # {}
  PROVE  Min(S) \in S /\ \A j \in S : Min(S) <= j
<1> DEFINE R == {ss \in Nat \X Nat : ss[1] < ss[2]}
<1>1. IsWellFoundedOn(R, Nat)
  <2>1. R = OpToRel(<, Nat)
    BY DEF OpToRel
  <2> QED
    BY <2>1, NatLessThanWellFounded
<1>2. PICK i \in S : \A j \in S : <<j, i>> \notin R
  <2> HIDE DEF R
  <2> QED
    BY <1>1, WFMin
<1>3. \A j \in S : i <= j
  <2>1. \A j \in S : <<j, i>> \in R <=> j < i
    OBVIOUS
  <2> HIDE DEF R
  <2>2. \A j \in S : ~(j < i)
    BY <1>2, <2>1
  <2> QED
    BY <2>2, i \in Nat
<1> QED
  BY <1>3 DEF Min

\* The least member of a set is its Min.
LEMMA LeastIsMin ==
  ASSUME NEW S, S \subseteq Nat, NEW i \in S, \A j \in S : i <= j
  PROVE  Min(S) = i
<1>1. Min(S) \in S /\ Min(S) <= i
  BY MinIsLeast
<1>2. Min(S) \in Nat /\ i \in Nat /\ i <= Min(S)
  BY <1>1
<1> QED
  BY <1>1, <1>2

-----------------------------------------------------------------------------
(* Schemes                                                                 *)

\* The RSA schemes, as the list in order of preference has them.
LEMMA SchemeNames ==
  /\ RsaSchemes = {"RSA_PSS_SHA256", "RSA_PSS_SHA384", "RSA_PSS_SHA512",
                   "RSA_PKCS1_SHA256", "RSA_PKCS1_SHA384", "RSA_PKCS1_SHA512"}
  /\ DOMAIN ALL_RSA_SCHEMES = 1 .. 6
  /\ \A i \in 1 .. 6 : ALL_RSA_SCHEMES[i] \in RsaSchemes
BY DEF RsaSchemes, ALL_RSA_SCHEMES, Range

\* An RSA key signs with an RSA scheme or not at all, whatever is offered.
LEMMA ChosenRsa ==
  ASSUME NEW offered
  PROVE  ChooseRsaScheme(offered) \in RsaSchemes \cup {None}
<1> DEFINE common == {i \in DOMAIN ALL_RSA_SCHEMES : ALL_RSA_SCHEMES[i] \in offered}
<1>1. CASE common # {}
  <2>1. common \subseteq 1 .. 6
    BY SchemeNames
  <2>2. Min(common) \in common
    BY <1>1, <2>1, MinIsLeast
  <2> QED
    BY <1>1, <2>1, <2>2, SchemeNames DEF ChooseRsaScheme
<1> QED
  BY <1>1 DEF ChooseRsaScheme

-----------------------------------------------------------------------------
(* r and s                                                                 *)

\* Two sequences that hold the parts of a third, joined.
LEMMA JoinedParts ==
  ASSUME NEW a \in Seq(Nat), NEW b \in Seq(Nat), NEW x \in Seq(Nat), Len(x) = Len(a) + Len(b),
         \A i \in 1 .. Len(a) : a[i] = x[i], \A i \in 1 .. Len(b) : b[i] = x[Len(a) + i]
  PROVE  a \o b = x
<1>1. /\ a \o b \in Seq(Nat) /\ Len(a \o b) = Len(x)
      /\ \A i \in 1 .. Len(x) : (a \o b)[i] = IF i <= Len(a) THEN a[i] ELSE b[i - Len(a)]
  BY ConcatProperties
<1>2. \A i \in 1 .. Len(x) : (a \o b)[i] = x[i]
  <2> SUFFICES ASSUME NEW i \in 1 .. Len(x)
               PROVE  (a \o b)[i] = x[i]
    OBVIOUS
  <2>1. CASE i <= Len(a)
    BY <1>1, <2>1
  <2>2. CASE ~(i <= Len(a))
    <3>1. i - Len(a) \in 1 .. Len(b) /\ Len(a) + (i - Len(a)) = i
      BY <2>2
    <3> QED
      BY <1>1, <2>2, <3>1
  <2> QED
    BY <2>1, <2>2
<1> QED
  BY <1>1, <1>2, SeqEqual

\* Joining sequences of bytes is associative.
LEMMA Associated ==
  ASSUME NEW a \in Seq(Nat), NEW b \in Seq(Nat), NEW c \in Seq(Nat)
  PROVE  (a \o b) \o c = a \o (b \o c)
BY ConcatAssociative

\* An r or s of n bytes with z leading zeros.
LEMMA ScalarShape ==
  ASSUME NEW n \in Nat, NEW z \in Nat, z < n
  PROVE  /\ Scalar(n, z) \in Seq(Nat) /\ Len(Scalar(n, z)) = n
         /\ \A i \in 1 .. n : Scalar(n, z)[i] = IF i <= z THEN 0 ELSE i - z
<1> DEFINE tail == [i \in 1 .. n - z |-> i]
<1>1. Zeros(z) \in Seq(Nat) /\ Len(Zeros(z)) = z /\ \A i \in 1 .. z : Zeros(z)[i] = 0
  BY DEF Zeros
<1>2. tail \in Seq(Nat) /\ Len(tail) = n - z /\ \A i \in 1 .. n - z : tail[i] = i
  <2>1. n - z \in Nat
    OBVIOUS
  <2> QED
    BY <2>1
<1> HIDE DEF tail
<1>3. Scalar(n, z) = Zeros(z) \o tail
  BY DEF Scalar, tail
<1> QED
  BY <1>1, <1>2, <1>3, ConcatProperties

\* What DER leaves of it, and that z zeros in front restore it.
LEMMA StripScalar ==
  ASSUME NEW n \in Nat, NEW z \in Nat, z < n
  PROVE  /\ Strip(Scalar(n, z)) \in Seq(Nat) /\ Len(Strip(Scalar(n, z))) = n - z
         /\ Zeros(z) \o Strip(Scalar(n, z)) = Scalar(n, z)
<1> DEFINE x == Scalar(n, z)
           nonzero == {i \in DOMAIN x : x[i] # 0}
<1>1. x \in Seq(Nat) /\ Len(x) = n /\ \A i \in 1 .. n : x[i] = IF i <= z THEN 0 ELSE i - z
  BY ScalarShape
<1> HIDE DEF x
<1>2. nonzero = z + 1 .. n
  BY <1>1
<1>3. Min(nonzero) = z + 1
  <2>1. z + 1 \in nonzero /\ nonzero \subseteq Nat /\ \A j \in nonzero : z + 1 <= j
    BY <1>2
  <2> HIDE DEF nonzero
  <2> QED
    BY <2>1, LeastIsMin
<1>4. Strip(x) = SubSeq(x, z + 1, n)
  BY <1>1, <1>3 DEF Strip
<1>5. /\ Strip(x) \in Seq(Nat) /\ Len(Strip(x)) = n - z
      /\ \A i \in 1 .. n - z : Strip(x)[i] = x[z + i]
  <2>1. /\ SubSeq(x, z + 1, n) \in Seq(Nat) /\ Len(SubSeq(x, z + 1, n)) = n - z
        /\ \A i \in 1 .. n - z : SubSeq(x, z + 1, n)[i] = x[z + i]
    BY <1>1
  <2> QED
    BY <1>4, <2>1
<1>6. Zeros(z) \o Strip(x) = x
  <2>1. Zeros(z) \in Seq(Nat) /\ Len(Zeros(z)) = z /\ \A i \in 1 .. z : Zeros(z)[i] = 0
    BY DEF Zeros
  <2> DEFINE a == Zeros(z)
             b == Strip(x)
  <2>2. a \in Seq(Nat) /\ b \in Seq(Nat) /\ Len(x) = Len(a) + Len(b)
    BY <1>1, <1>5, <2>1
  <2>3. \A i \in 1 .. Len(a) : a[i] = x[i]
    BY <1>1, <2>1
  <2>4. \A i \in 1 .. Len(b) : b[i] = x[Len(a) + i]
    BY <1>5, <2>1
  <2> HIDE DEF nonzero, a, b
  <2>5. a \o b = x
    BY <1>1, <2>2, <2>3, <2>4, JoinedParts
  <2> QED
    BY <2>5 DEF a, b
<1> QED
  BY <1>5, <1>6 DEF x

\* What der_sig_to_fixed_rs makes of the DER form of r and s is r and s again,
\* for fields of any size and any number of leading zeros.
LEMMA RoundTrip ==
  ASSUME NEW n \in Nat, NEW y \in Nat, NEW z \in Nat, y < n, z < n
  PROVE  der_sig_to_fixed_rs(rs_bin_to_sig(Scalar(n, y), Scalar(n, z)), n)
           = Scalar(n, y) \o Scalar(n, z)
<1> DEFINE r == Strip(Scalar(n, y))
           s == Strip(Scalar(n, z))
<1>1. /\ r \in Seq(Nat) /\ Len(r) = n - y /\ Zeros(y) \o r = Scalar(n, y)
      /\ s \in Seq(Nat) /\ Len(s) = n - z /\ Zeros(z) \o s = Scalar(n, z)
  BY StripScalar
<1> HIDE DEF r, s
<1>2. n - Len(r) = y /\ n - Len(s) = z /\ ~(Len(r) > n) /\ ~(Len(s) > n)
  BY <1>1
<1>3. /\ rs_bin_to_sig(Scalar(n, y), Scalar(n, z)).r = r
      /\ rs_bin_to_sig(Scalar(n, y), Scalar(n, z)).s = s
  BY DEF rs_bin_to_sig, r, s
<1>4. der_sig_to_fixed_rs(rs_bin_to_sig(Scalar(n, y), Scalar(n, z)), n)
        = ((Zeros(y) \o r) \o Zeros(z)) \o s
  BY <1>2, <1>3 DEF der_sig_to_fixed_rs
<1>5. ((Zeros(y) \o r) \o Zeros(z)) \o s = (Zeros(y) \o r) \o (Zeros(z) \o s)
  <2>1. Zeros(y) \in Seq(Nat) /\ Zeros(z) \in Seq(Nat)
    BY DEF Zeros
  <2>2. Zeros(y) \o r \in Seq(Nat)
    BY <1>1, <2>1, ConcatProperties
  <2> QED
    BY <1>1, <2>1, <2>2, Associated
<1> QED
  BY <1>1, <1>4, <1>5

-----------------------------------------------------------------------------
(* Signing and verifying                                                   *)

\* The sizes of fields and hashes.
LEMMA SchemeSizes ==
  /\ \A scheme \in EcdsaSchemes : FieldSize(scheme) \in {32, 48, 66}
  /\ \A scheme \in Schemes \ {"ED25519"} : HashLen(scheme) \in {32, 48, 64}
BY SchemeNames DEF EcdsaSchemes, Schemes, FieldSize, HashLen

\* Trying the sizes in turn makes the one signature that fits the key or none,
\* and it makes it when no call fails and the key has one of the sizes.
LEMMA Pkcs1Signs ==
  ASSUME NEW sg, NEW m, NEW failing
  PROVE  LET x == RsaSignature(sg.key, "pkcs1", sg.key.param, Digest(sg.scheme, m))
         IN  /\ pkcs1_sign(sg, m, failing) \in {x, NoSignature}
             /\ failing = {} /\ sg.key.param \in Range(PKCS1_SIZES) =>
                  pkcs1_sign(sg, m, failing) = x
<1> DEFINE x == RsaSignature(sg.key, "pkcs1", sg.key.param, Digest(sg.scheme, m))
           made == {i \in 1 .. 3 \ failing :
                      pkcs1_sign_with_size(sg, m, PKCS1_SIZES[i]) # NoSignature}
<1>1. \A n : /\ pkcs1_sign_with_size(sg, m, n) \in {x, NoSignature}
             /\ sg.key.param = n => pkcs1_sign_with_size(sg, m, n) = x
  BY DEF pkcs1_sign_with_size
<1>2. x # NoSignature
  BY DEF RsaSignature, NoSignature
<1> HIDE DEF x
<1>3. made # {} => pkcs1_sign(sg, m, failing) = x
  <2> SUFFICES ASSUME made # {}
               PROVE  pkcs1_sign(sg, m, failing) = x
    OBVIOUS
  <2>1. Min(made) \in made
    <3>1. made \subseteq Nat
      OBVIOUS
    <3> HIDE DEF made
    <3> QED
      BY <3>1, MinIsLeast
  <2>2. pkcs1_sign_with_size(sg, m, PKCS1_SIZES[Min(made)]) # NoSignature
    BY <2>1
  <2>3. pkcs1_sign(sg, m, failing) = pkcs1_sign_with_size(sg, m, PKCS1_SIZES[Min(made)])
    BY DEF pkcs1_sign
  <2> QED
    BY <1>1, <2>2, <2>3
<1>4. made = {} => pkcs1_sign(sg, m, failing) = NoSignature
  BY DEF pkcs1_sign
<1>5. ASSUME failing = {}, sg.key.param \in Range(PKCS1_SIZES)
      PROVE  made # {}
  <2>1. PICK i \in 1 .. 3 : sg.key.param = PKCS1_SIZES[i]
    BY <1>5 DEF PKCS1_SIZES, Range
  <2>2. pkcs1_sign_with_size(sg, m, PKCS1_SIZES[i]) # NoSignature
    BY <1>1, <1>2, <2>1
  <2> QED
    BY <1>5, <2>2
<1> HIDE DEF made
<1> QED
  BY <1>3, <1>4, <1>5 DEF x

\* A signer with a key of its scheme's algorithm, on its scheme's curve and of a
\* size that both signing and verifying have room for.
Fits(sg) ==
  \/ /\ sg.scheme \in PssSchemes /\ sg.key.alg = "RSA" /\ sg.key.param <= MAX_RSA_SIG_SIZE
  \/ /\ sg.scheme \in RsaSchemes \ PssSchemes /\ sg.key.alg = "RSA"
     /\ sg.key.param \in Range(PKCS1_SIZES)
  \/ /\ sg.scheme \in EcdsaSchemes /\ sg.key.alg = "ECDSA"
     /\ X963Len(sg.key.param) = 1 + 2 * FieldSize(sg.scheme)
  \/ sg.scheme = "ED25519" /\ sg.key.alg = "ED25519"

\* When no call fails such a signer signs any message, and what it makes verifies
\* under the same scheme, whatever leading zeros r and s happen to have.
LEMMA SignsVerifiably ==
  ASSUME NEW sg, Fits(sg), NEW m, NEW y \in Nat, NEW z \in Nat, y < 32, z < 32
  PROVE  LET made == sign(sg, m, {}, y, z)
         IN  made # NoSignature /\ verify_signature(sg.scheme, sg.key, m, made)
<1> DEFINE made == sign(sg, m, {}, y, z)
<1>1. CASE sg.scheme \in RsaSchemes \ PssSchemes /\ sg.key.alg = "RSA"
             /\ sg.key.param \in Range(PKCS1_SIZES)
  <2>1. made = RsaSignature(sg.key, "pkcs1", sg.key.param, Digest(sg.scheme, m))
    BY <1>1, Pkcs1Signs DEF sign
  <2>2. /\ made.pad = "pkcs1" /\ made.key = sg.key /\ made.len = sg.key.param
        /\ made.digest = Digest(sg.scheme, m)
    BY <2>1 DEF RsaSignature
  <2> HIDE DEF made
  <2>3. made # NoSignature /\ pkcs1_verify(sg.scheme, sg.key, m, made)
    BY <1>1, <2>2 DEF NoSignature, pkcs1_verify
  <2> QED
    BY <1>1, <2>3 DEF verify_signature, made
<1>2. CASE sg.scheme \in PssSchemes /\ sg.key.alg = "RSA" /\ sg.key.param <= MAX_RSA_SIG_SIZE
  <2>1. made = RsaSignature(sg.key, "pss", sg.key.param, Digest(sg.scheme, m))
    BY <1>2 DEF sign, pss_sign
  <2>2. made.pad = "pss" /\ made.key = sg.key /\ made.digest = Digest(sg.scheme, m)
    BY <2>1 DEF RsaSignature
  <2> HIDE DEF made
  <2>3. made # NoSignature /\ pss_verify(sg.scheme, sg.key, m, made)
    BY <1>2, <2>2 DEF NoSignature, pss_verify, MAX_RSA_SIG_SIZE, RSA_PSS_OUT_SIZE
  <2> QED
    BY <1>2, <2>3 DEF verify_signature, made
<1>3. CASE sg.scheme \in EcdsaSchemes /\ sg.key.alg = "ECDSA"
             /\ X963Len(sg.key.param) = 1 + 2 * FieldSize(sg.scheme)
  <2> DEFINE n == FieldSize(sg.scheme)
             r == Scalar(n, y)
             t == Scalar(n, z)
             x == [key |-> sg.key, pad |-> "ecdsa", len |-> 2 * n, rs |-> r \o t,
                   der |-> rs_bin_to_sig(r, t), digest |-> Digest(sg.scheme, m)]
  <2>1. n \in Nat /\ y < n /\ z < n
    BY <1>3, SchemeSizes
  <2>2. sg.scheme \notin RsaSchemes \cup PssSchemes
    BY <1>3, SchemeNames DEF EcdsaSchemes, PssSchemes
  <2>3. made = x
    BY <1>3, <2>2 DEF sign, ecdsa_sign
  <2> HIDE DEF n, made
  <2>4. r \o t = der_sig_to_fixed_rs(rs_bin_to_sig(r, t), n)
    BY <2>1, RoundTrip
  <2> HIDE DEF r, t
  <2>5. made # NoSignature
    BY <2>3 DEF NoSignature
  <2>6. ecdsa_verify(sg.scheme, sg.key, m, made)
    BY <1>3, <2>3, <2>4 DEF ecdsa_verify, n
  <2> QED
    BY <1>3, <2>2, <2>5, <2>6 DEF verify_signature, made
<1>4. CASE sg.scheme = "ED25519" /\ sg.key.alg = "ED25519"
  <2>1. sg.scheme \notin RsaSchemes \cup PssSchemes \cup EcdsaSchemes
    BY <1>4, SchemeNames DEF EcdsaSchemes, PssSchemes
  <2>2. made = eddsa_sign(sg, m)
    BY <2>1 DEF sign
  <2>3. made # NoSignature /\ eddsa_verify(sg.key, m, made)
    BY <1>4, <2>2 DEF eddsa_verify, eddsa_sign, NoSignature
  <2> HIDE DEF made
  <2> QED
    BY <2>1, <2>3 DEF verify_signature, made
<1> QED
  BY <1>1, <1>2, <1>3, <1>4 DEF Fits

=============================================================================

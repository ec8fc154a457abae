----------------------------- MODULE Signatures -----------------------------
(***************************************************************************)
(* Private keys and signatures, as operators: loading a key (lib.rs),      *)
(* choosing a scheme and signing (sign/*.rs), and verifying (verify.rs,    *)
(* verify/*.rs).                                                           *)
(*                                                                         *)
(* Signatures are ideal: they name the key, the padding and the digest     *)
(* they were made with.  The provider's part is explicit: which encodings  *)
(* load as what, in which order they are tried, which scheme is chosen,    *)
(* what is hashed where, how r and s are encoded and decoded, and which    *)
(* key sizes are tried.                                                    *)
(***************************************************************************)
EXTENDS Naturals, Sequences, SequencesExt

CONSTANT None  \* no key, no scheme

-----------------------------------------------------------------------------
(* Schemes                                                                 *)

ALL_RSA_SCHEMES ==
  <<"RSA_PSS_SHA256", "RSA_PSS_SHA384", "RSA_PSS_SHA512",
    "RSA_PKCS1_SHA256", "RSA_PKCS1_SHA384", "RSA_PKCS1_SHA512">>
PssSchemes == {"RSA_PSS_SHA256", "RSA_PSS_SHA384", "RSA_PSS_SHA512"}
RsaSchemes == Range(ALL_RSA_SCHEMES)
EcdsaSchemes == {"ECDSA_NISTP256_SHA256", "ECDSA_NISTP384_SHA384", "ECDSA_NISTP521_SHA512"}
Schemes == RsaSchemes \cup EcdsaSchemes \cup {"ED25519"}

\* Bytes of a field element, and of the hash of a scheme.
FieldSize(scheme) ==
  CASE scheme = "ECDSA_NISTP256_SHA256" -> 32
    [] scheme = "ECDSA_NISTP384_SHA384" -> 48
    [] scheme = "ECDSA_NISTP521_SHA512" -> 66
HashLen(scheme) ==
  CASE scheme \in {"RSA_PSS_SHA256", "RSA_PKCS1_SHA256", "ECDSA_NISTP256_SHA256"} -> 32
    [] scheme \in {"RSA_PSS_SHA384", "RSA_PKCS1_SHA384", "ECDSA_NISTP384_SHA384"} -> 48
    [] scheme \in {"RSA_PSS_SHA512", "RSA_PKCS1_SHA512", "ECDSA_NISTP521_SHA512"} -> 64
Digest(scheme, message) == [hash |-> HashLen(scheme), of |-> message]

-----------------------------------------------------------------------------
(* Loading: der is [label, bytes, key].  The label is the one the caller   *)
(* put on the bytes, right or wrong; bytes is "pkcs8" for a wrapped key,   *)
(* "odd" for a wrapped key that PrivateKeyInfo does not parse, "bare" for  *)
(* an unwrapped one, or "junk" for what holds no key.                      *)

Err == [ok |-> FALSE]
Ok(key, scheme) == [ok |-> TRUE, key |-> key, scheme |-> scheme]

IsEdDSA(key) == key.alg \in {"ED25519", "ED448"}

\* What EcdsaSigningKey::try_from hands to ECC::import_der, if anything.  Only
\* under the PKCS#8 label are the bytes looked at: a key that says it is an EC
\* key is unwrapped and one that says EdDSA is refused.  Everything else,
\* whatever it is, goes in as it is.
BugSec1Bytes(der) ==
  IF der.label = "Pkcs1" THEN {}
  ELSE IF der.label = "Pkcs8" /\ der.bytes = "pkcs8" /\ der.key.alg = "ECDSA"
    THEN {[der EXCEPT !.bytes = "bare"]}
  ELSE {der}
Sec1Bytes(der) ==
  LET parsed == der.label = "Pkcs8" /\ der.bytes = "pkcs8"
  IN  IF der.label = "Pkcs1" \/ (parsed /\ IsEdDSA(der.key)) THEN {}
      ELSE IF parsed /\ der.key.alg = "ECDSA" THEN {[der EXCEPT !.bytes = "bare"]}
      ELSE {der}

\* wc_EccPrivateKeyDecode need not survive a wrapped EdDSA key.
Crashes(der) ==
  \E d \in Sec1Bytes(der) : d.bytes \in {"pkcs8", "odd"} /\ IsEdDSA(d.key)

X963Len(curve) ==
  CASE curve = "P224" -> 57 [] curve = "P256" -> 65
    [] curve = "P384" -> 97 [] curve = "P521" -> 133
x963_len_to_scheme(len) ==
  CASE len = 65  -> "ECDSA_NISTP256_SHA256"
    [] len = 97  -> "ECDSA_NISTP384_SHA384"
    [] len = 133 -> "ECDSA_NISTP521_SHA512"
    [] OTHER     -> None

\* Whether the decoder takes an EC key in a wrapping nobody removed is up to it.
ecdsa_try_from(der, ffiOk) ==
  LET imported == {d \in Sec1Bytes(der) : d.bytes # "junk" /\ d.key.alg = "ECDSA"}
      scheme == x963_len_to_scheme(X963Len(der.key.param))
  IN  IF ffiOk /\ imported # {} /\ scheme # None
        THEN Ok(der.key, scheme) ELSE Err

rsa_try_from(der, ffiOk) ==
  IF ffiOk /\ der.label \in {"Pkcs8", "Pkcs1"} /\ der.bytes # "junk" /\ der.key.alg = "RSA"
    THEN Ok(der.key, None) ELSE Err

\* The octet string of 32 bytes that RFC 8410 puts around a 32-byte key; the
\* algorithm is not looked at, so an X25519 key is taken for an Ed25519 key.
BugHasEd25519Octets(der) == TRUE
HasEd25519Octets(der) == der.key.alg \in {"ED25519", "X25519"}
eddsa_try_from(der, ffiOk) ==
  IF ffiOk /\ der.label = "Pkcs8" /\ der.bytes = "pkcs8" /\ HasEd25519Octets(der)
    THEN Ok(der.key, "ED25519") ELSE Err

\* load_private_key: the first that succeeds; failing[i]: a wolfCrypt call
\* fails in the i-th attempt.
load_private_key(der, failing) ==
  LET attempts == <<[alg |-> "ECDSA", result |-> ecdsa_try_from(der, 1 \notin failing)],
                    [alg |-> "RSA", result |-> rsa_try_from(der, 2 \notin failing)],
                    [alg |-> "ED25519", result |-> eddsa_try_from(der, 3 \notin failing)]>>
      loaded == {i \in DOMAIN attempts : attempts[i].result.ok}
      first == attempts[Min(loaded)]
  IN  IF loaded = {} THEN None
      ELSE [alg |-> first.alg, key |-> first.result.key, scheme |-> first.result.scheme]

\* SigningKey::choose_scheme: the scheme to sign with, or None.
ChooseRsaScheme(offered) ==
  LET common == {i \in DOMAIN ALL_RSA_SCHEMES : ALL_RSA_SCHEMES[i] \in offered}
  IN  IF common = {} THEN None ELSE ALL_RSA_SCHEMES[Min(common)]
BugChooseScheme(k, offered) == ChooseRsaScheme(offered)
choose_scheme(k, offered) ==
  IF k.alg = "RSA" THEN ChooseRsaScheme(offered)
  ELSE IF k.scheme \in offered THEN k.scheme ELSE None

-----------------------------------------------------------------------------
(* Signing                                                                 *)

\* r and s: bytes of the field's size, of any magnitude.
Strip(x) ==
  SubSeq(x, Min({i \in DOMAIN x : x[i] # 0}), Len(x))
Zeros(n) == [i \in 1 .. n |-> 0]
Scalar(n, zeros) == Zeros(zeros) \o [i \in 1 .. n - zeros |-> i]

\* What a signer returns that reports an error.
NoSignature == [pad |-> "none"]

\* ECC::rs_bin_to_sig: DER integers carry no leading zeros.
rs_bin_to_sig(r, s) == [r |-> Strip(r), s |-> Strip(s)]

\* ECDSA: the digest is made by try_sign; r_zeros and s_zeros are the leading
\* zeros that r and s happen to have.
ecdsa_sign(sg, message, r_zeros, s_zeros) ==
  LET n == FieldSize(sg.scheme)
      r == Scalar(n, r_zeros)
      s == Scalar(n, s_zeros)
  IN  IF X963Len(sg.key.param) = 1 + 2 * n
        THEN [key |-> sg.key, pad |-> "ecdsa", len |-> 2 * n, rs |-> r \o s,
              der |-> rs_bin_to_sig(r, s), digest |-> Digest(sg.scheme, message)]
        ELSE NoSignature

\* The buffer for a PSS signature, which is as long as the key.
MAX_RSA_SIG_SIZE == 512

RsaSignature(key, pad, len, digest) ==
  [key |-> key, pad |-> pad, len |-> len, rs |-> <<>>, der |-> rs_bin_to_sig(<<1>>, <<1>>),
   digest |-> digest]

\* PSS signs the digest that the provider made.
pss_sign(sg, message) ==
  IF sg.key.param <= MAX_RSA_SIG_SIZE
    THEN RsaSignature(sg.key, "pss", sg.key.param, Digest(sg.scheme, message)) ELSE NoSignature

\* PKCS#1 hashes the message it is given, and only for a key of N bytes; the
\* signature is as long as the buffer, which has N.
PKCS1_SIZES == <<256, 384, 512>>
BugPkcs1SignWithSize(sg, message, n) ==
  IF sg.key.param <= n
    THEN RsaSignature(sg.key, "pkcs1", n, Digest(sg.scheme, message)) ELSE NoSignature
pkcs1_sign_with_size(sg, message, n) ==
  IF sg.key.param = n
    THEN RsaSignature(sg.key, "pkcs1", n, Digest(sg.scheme, message)) ELSE NoSignature

\* The sizes in turn (or_else); failing holds the attempts in which a
\* wolfCrypt call fails.
pkcs1_sign(sg, message, failing) ==
  LET made == {i \in 1 .. 3 \ failing :
                 pkcs1_sign_with_size(sg, message, PKCS1_SIZES[i]) # NoSignature}
  IN  IF made = {} THEN NoSignature
      ELSE pkcs1_sign_with_size(sg, message, PKCS1_SIZES[Min(made)])

eddsa_sign(sg, message) ==
  [key |-> sg.key, pad |-> "eddsa", len |-> 64, rs |-> <<>>, der |-> rs_bin_to_sig(<<1>>, <<1>>),
   digest |-> message]

\* Signer::sign.
sign(sg, message, failing, r_zeros, s_zeros) ==
  IF sg.scheme \in RsaSchemes \ PssSchemes THEN pkcs1_sign(sg, message, failing)
  ELSE IF failing # {} THEN NoSignature
  ELSE IF sg.scheme \in PssSchemes THEN pss_sign(sg, message)
  ELSE IF sg.scheme \in EcdsaSchemes THEN ecdsa_sign(sg, message, r_zeros, s_zeros)
  ELSE eddsa_sign(sg, message)

-----------------------------------------------------------------------------
(* Verifying                                                               *)

\* r and s padded on the left to the field's size; <<>> if they do not fit.
BugDerSigToFixedRs(der, n) ==
  IF Len(der.r) > n \/ Len(der.s) > n THEN <<>>
  ELSE der.r \o Zeros(n - Len(der.r)) \o der.s \o Zeros(n - Len(der.s))
der_sig_to_fixed_rs(der, n) ==
  IF Len(der.r) > n \/ Len(der.s) > n THEN <<>>
  ELSE Zeros(n - Len(der.r)) \o der.r \o Zeros(n - Len(der.s)) \o der.s

ecdsa_verify(scheme, key, message, x) ==
  LET n == FieldSize(scheme)
  IN  /\ key.alg = "ECDSA" /\ X963Len(key.param) = 1 + 2 * n
      /\ x.pad = "ecdsa" /\ x.key = key
      /\ x.rs = der_sig_to_fixed_rs(x.der, n)
      /\ x.digest = Digest(scheme, message)

\* RSA_PSS_OUT_SIZE bounds the key.
RSA_PSS_OUT_SIZE == 512
pss_verify(scheme, key, message, x) ==
  /\ key.alg = "RSA" /\ key.param <= RSA_PSS_OUT_SIZE
  /\ x.pad = "pss" /\ x.key = key
  /\ x.digest = Digest(scheme, message)

\* The first size that both the key and the signature have decides.
pkcs1_verify(scheme, key, message, x) ==
  /\ key.alg = "RSA"
  /\ \E n \in Range(PKCS1_SIZES) : key.param = n /\ x.len = n
  /\ x.pad = "pkcs1" /\ x.key = key
  /\ x.digest = Digest(scheme, message)

\* verify_msg answers Ok(true) or Ok(false); only the first is a signature.
BugEddsaVerify(key, message, x) == key.alg = "ED25519"
eddsa_verify(key, message, x) ==
  /\ key.alg = "ED25519"
  /\ x.pad = "eddsa" /\ x.key = key /\ x.digest = message

\* ALGORITHMS.mapping and verify_signature.
verify_signature(scheme, key, message, x) ==
  IF scheme \in PssSchemes THEN pss_verify(scheme, key, message, x)
  ELSE IF scheme \in RsaSchemes THEN pkcs1_verify(scheme, key, message, x)
  ELSE IF scheme \in EcdsaSchemes THEN ecdsa_verify(scheme, key, message, x)
  ELSE eddsa_verify(key, message, x)

=============================================================================

------------------------------ MODULE KxGroups ------------------------------
(***************************************************************************)
(* The ephemeral key exchanges of kx.rs and kx/*.rs, as operators: what a  *)
(* group exports when an exchange is started, which peer keys it refuses,  *)
(* and the secret that completing it gives.                                *)
(*                                                                         *)
(* Diffie-Hellman is ideal: public keys are points that name their private *)
(* key, and a secret names the two keys it was made of.                    *)
(***************************************************************************)
EXTENDS Naturals, Sequences, SequencesExt

-----------------------------------------------------------------------------
(* The groups                                                              *)

ALL_KX_GROUPS == <<"X25519", "secp256r1", "secp384r1", "secp521r1">>
Groups == Range(ALL_KX_GROUPS)

COORD_SIZE == [secp256r1 |-> 32, secp384r1 |-> 48, secp521r1 |-> 66]
PUB_KEY_SIZE(g) == IF g = "X25519" THEN 32 ELSE 1 + 2 * COORD_SIZE[g]

\* A point: the public key of a private key, or BadPoint, which stands for
\* what is off the curve or of low order.
PointOf(g, key) == [group |-> g, key |-> key]
BadPoint == [group |-> "none", key |-> 0]

\* Bytes of a public key.
ForeignKey == 0
MaxKey == 3    \* a handshake generates at most this many keys
Sizes == {0} \cup {PUB_KEY_SIZE(g) : g \in Groups}
Bytes ==
  {[len |-> PUB_KEY_SIZE(g), point |-> PointOf(g, k)] : g \in Groups, k \in 0 .. MaxKey}
  \cup {[len |-> n, point |-> BadPoint] : n \in Sizes}

\* wolfCrypt: the secret of a private key and a point.
Secret(g, key, point) ==
  [group |-> g, keys |-> IF point = BadPoint THEN {} ELSE {key, point.key}]

\* Curve25519Key::check_public, and the check that import_x963 makes: a point
\* of the one curve that has keys of that length.
check_public(bytes) == bytes.point # BadPoint
import_x963(bytes) ==
  /\ bytes.point # BadPoint
  /\ bytes.len = PUB_KEY_SIZE(bytes.point.group)

-----------------------------------------------------------------------------
(* start and complete                                                      *)

Started(g, key, len) ==
  [group |-> g, key |-> key, pub_key |-> [len |-> len, point |-> PointOf(g, key)]]
use_curve25519(key) == Started("X25519", key, PUB_KEY_SIZE("X25519"))
use_secp256r1(key) == Started("secp256r1", key, PUB_KEY_SIZE("secp256r1"))
use_secp384r1(key) == Started("secp384r1", key, PUB_KEY_SIZE("secp384r1"))
BugUseSecp521r1(key) == Started("secp521r1", key, 1 + 2 * 64)
use_secp521r1(key) == Started("secp521r1", key, PUB_KEY_SIZE("secp521r1"))

\* SupportedKxGroup::start, when every wolfCrypt call succeeds.
start(g, key) ==
  CASE g = "X25519"    -> use_curve25519(key)
    [] g = "secp256r1" -> use_secp256r1(key)
    [] g = "secp384r1" -> use_secp384r1(key)
    [] g = "secp521r1" -> use_secp521r1(key)

\* derive_shared_secret: which peer keys are refused.
BugCurve25519Accepts(bytes) == bytes.len = PUB_KEY_SIZE("X25519")
curve25519_accepts(bytes) == bytes.len = PUB_KEY_SIZE("X25519") /\ check_public(bytes)
BugSecp256r1Accepts(bytes) == bytes.len = PUB_KEY_SIZE("secp256r1")
secp256r1_accepts(bytes) == bytes.len = PUB_KEY_SIZE("secp256r1") /\ import_x963(bytes)
secp384r1_accepts(bytes) == bytes.len = PUB_KEY_SIZE("secp384r1") /\ import_x963(bytes)
secp521r1_accepts(bytes) == bytes.len = PUB_KEY_SIZE("secp521r1") /\ import_x963(bytes)

Accepts(g, bytes) ==
  CASE g = "X25519"    -> curve25519_accepts(bytes)
    [] g = "secp256r1" -> secp256r1_accepts(bytes)
    [] g = "secp384r1" -> secp384r1_accepts(bytes)
    [] g = "secp521r1" -> secp521r1_accepts(bytes)

\* ActiveKeyExchange::complete: Ok with the secret, or Err.  Either way the
\* exchange is gone, as complete takes self: Box<Self>.
complete(box, bytes, ffiOk) ==
  IF ffiOk /\ Accepts(box.group, bytes)
    THEN [ok |-> TRUE, secret |-> Secret(box.group, box.key, bytes.point)]
    ELSE [ok |-> FALSE]

=============================================================================

------------------------------ MODULE MCSigning ------------------------------
(* A small instance of Signing for TLC: keys of every kind, with an RSA    *)
(* size that only PSS can use, one too large for either padding, and an EC *)
(* curve without a scheme.                                                 *)
EXTENDS Signing, TLC

CONSTANTS s1, s2

Key(alg, param, id) == [alg |-> alg, param |-> param, id |-> id]
MCKeys ==
  {Key("ECDSA", "P256", 1), Key("ECDSA", "P521", 1), Key("ECDSA", "P224", 1),
   Key("RSA", 1024, 1), Key("RSA", 320, 1), Key("RSA", 512, 1), Key("RSA", 512, 2),
   Key("ED25519", 32, 1), Key("ED448", 57, 1), Key("X25519", 32, 1)}
MCSessions == {s1, s2}
Symmetric == Permutations(MCSessions)
MCOffers ==
  {Schemes, {"RSA_PKCS1_SHA384", "ED25519"}, {"RSA_PSS_SHA512", "RSA_PKCS1_SHA256"}, {}}

=============================================================================

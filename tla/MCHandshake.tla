---------------------------- MODULE MCHandshake ----------------------------
(* A small instance of Handshake for TLC: every suite on its own, the      *)
(* provider's whole list and two that overlap it, and each other, in part: *)
(* the client's has a TLS 1.3 suite that the server's lacks, and both the  *)
(* same TLS 1.2 suite.  A server key of each algorithm.                    *)
EXTENDS ConnectionProofs

MCClientLists ==
  {<<x>> : x \in Range(ALL_CIPHER_SUITES)}
    \cup {provider,
          <<"TLS13_CHACHA20_POLY1305_SHA256", "TLS12_ECDHE_ECDSA_WITH_AES_256_GCM_SHA384">>}
MCServerLists ==
  {provider,
   provider_with_specified_ciphers(<<"TLS13_AES_256_GCM_SHA384",
                                     "TLS12_ECDHE_ECDSA_WITH_AES_256_GCM_SHA384">>)}
MCServerKeys ==
  {[alg |-> "ECDSA", param |-> "P256", id |-> 1], [alg |-> "RSA", param |-> 256, id |-> 1],
   [alg |-> "ED25519", param |-> 32, id |-> 1]}
\* For connections with more key updates: a suite of each version.
MCUpdateLists == {<<Head(Tls13Suites)>>, <<Head(Tls12RsaSuites)>>}
MCUpdateKeys == {k \in MCServerKeys : k.alg = "RSA"}

MCOtherKey == [alg |-> "ED25519", param |-> 32, id |-> 2]

=============================================================================

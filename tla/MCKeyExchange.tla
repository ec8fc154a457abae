---------------------------- MODULE MCKeyExchange ----------------------------
(* A small instance of KeyExchange for TLC: the provider's own list, and   *)
(* restrictions of it that force a retry or leave no group in common.      *)
EXTENDS KeyExchange

MCConfigs ==
  {ALL_KX_GROUPS,
   <<"secp256r1", "X25519">>,
   <<"secp384r1", "secp521r1">>,
   <<"secp521r1">>}

=============================================================================

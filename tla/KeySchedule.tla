---------------------------- MODULE KeySchedule ----------------------------
(***************************************************************************)
(* The key derivations: HKDF and HMAC (hkdf.rs, hmac/mod.rs) as the TLS    *)
(* 1.3 key schedule of rustls calls them, and the PRF (prf.rs) as TLS 1.2  *)
(* does.  Functions of wolfCrypt are ideal: what they return names what    *)
(* they were given, and two calls return the same bytes only for the same  *)
(* arguments.                                                              *)
(*                                                                         *)
(* Every derivation takes the implementation that makes it: "wolf" is this *)
(* provider, "rfc" another one that follows RFC 5869, 5246 and 8446.       *)
(***************************************************************************)
EXTENDS Suites, KxGroups

-----------------------------------------------------------------------------
(* wolfCrypt                                                               *)

hkdf_extract(typ, salt, ikm) ==
  Slice([mac |-> typ, key |-> salt, data |-> ikm], 0, hash_len(typ))
hkdf_expand(typ, prk, info, len) ==
  Slice([hkdf |-> typ, prk |-> prk, info |-> info], 0, len)
prf(secret, seed, typ, len) ==
  Slice([prf |-> typ, secret |-> secret, seed |-> seed], 0, len)
BugHash(typ, messages) ==
  Slice([hash |-> typ, messages |-> SelectSeq(messages, LAMBDA m : m = Last(messages))],
        0, hash_len(typ))
Hash(typ, messages) == Slice([hash |-> typ, messages |-> messages], 0, hash_len(typ))

Text(label) == Slice([name |-> label], 0, 1)  \* labels count as one byte
Number(n) == Slice([number |-> n], 0, 2)
SecretBytes(secret) ==
  Slice([dh |-> secret], 0, IF secret.group = "X25519" THEN 32 ELSE COORD_SIZE[secret.group])

-----------------------------------------------------------------------------
(* hkdf.rs                                                                 *)

WolfHkdfExpander(key, hash) ==
  [extracted_key |-> key, hash_type |-> hash, hash_len |-> hash_len(hash)]

extract_from_secret(hash, salt, ikm) ==
  LET salt_bytes == IF salt = NoBytes THEN ZeroBytes(hash_len(hash)) ELSE salt
  IN  WolfHkdfExpander(hkdf_extract(hash, salt_bytes, ikm), hash)
extract_from_zero_ikm(hash, salt) == extract_from_secret(hash, salt, ZeroBytes(hash_len(hash)))
expander_for_okm(hash, okm) == WolfHkdfExpander(okm, hash)

\* HMAC(key, message), as an extract.
hmac_sign(hash, key, message) == hkdf_extract(hash, key, message)

\* Unwrapping an error is a panic of the step that does.
Panic == Slice([name |-> "panic"], 0, 0)
expect(bytes) == IF bytes = NoBytes THEN Panic ELSE bytes

\* NoBytes is OutputLengthError.
MAX_BLOCKS == 255
BugExpandOneBlock(e, info, len) ==
  IF len >= e.hash_len THEN NoBytes
  ELSE hkdf_expand(e.hash_type, e.extracted_key, FlattenSeq(info), len)
BugExpandLimit(e, info, len) ==
  IF len >= MAX_BLOCKS * e.hash_len THEN NoBytes
  ELSE hkdf_expand(e.hash_type, e.extracted_key, FlattenSeq(info), len)
BugExpandInfo(e, info, len) ==
  IF len > MAX_BLOCKS * e.hash_len THEN NoBytes
  ELSE hkdf_expand(e.hash_type, e.extracted_key, Head(info), len)
expand_slice(e, info, len) ==
  IF len > MAX_BLOCKS * e.hash_len THEN NoBytes
  ELSE hkdf_expand(e.hash_type, e.extracted_key, FlattenSeq(info), len)
expand_block(e, info) == expect(expand_slice(e, info, e.hash_len))

-----------------------------------------------------------------------------
(* prf.rs                                                                  *)

\* wc_PRF refuses an output of no bytes.
wc_prf(len, secret, label, seed, hash) ==
  IF len = 0 THEN NoBytes ELSE prf(secret, label \o seed, hash, len)
for_secret(len, secret, label, seed, hash) == expect(wc_prf(len, secret, label, seed, hash))

\* complete consumes the exchange; NoBytes is its error.
for_key_exchange(box, peer, label, seed, hash) ==
  LET result == complete(box, peer, TRUE)
  IN  IF result.ok THEN wc_prf(48, SecretBytes(result.secret), label, seed, hash) ELSE NoBytes

-----------------------------------------------------------------------------
(* The same, by implementation                                             *)

Extract(i, hash, salt, ikm) ==
  IF i = "wolf" THEN extract_from_secret(hash, salt, ikm)
  ELSE WolfHkdfExpander(hkdf_extract(hash, salt, ikm), hash)
ExtractFromZero(i, hash, salt) ==
  IF i = "wolf" THEN extract_from_zero_ikm(hash, salt)
  ELSE Extract(i, hash, IF salt = NoBytes THEN ZeroBytes(hash_len(hash)) ELSE salt,
               ZeroBytes(hash_len(hash)))
Expand(i, e, info, len) ==
  IF i = "wolf" THEN expand_slice(e, info, len)
  ELSE IF len > 255 * hash_len(e.hash_type) THEN NoBytes
  ELSE hkdf_expand(e.hash_type, e.extracted_key, FlattenSeq(info), len)
Prf(i, len, secret, label, seed, hash) ==
  IF i = "wolf" THEN for_secret(len, secret, label, seed, hash)
  ELSE prf(secret, label \o seed, hash, len)

SuiteOf(i, suite) == IF i = "wolf" THEN Suite(suite) ELSE RfcSuite(suite)
ShapeOf(i, aead) == IF i = "wolf" THEN key_block_shape(aead) ELSE RfcShape(aead)
KeyLen(i, aead) == IF i = "wolf" THEN key_len(aead) ELSE RfcShape(aead).enc_key_len

-----------------------------------------------------------------------------
(* TLS 1.3: rustls' KeySchedule.  s is SuiteOf the end's implementation;   *)
(* secrets after the extracts are OkmBlocks.                               *)

Label(len, label, context) == <<Number(len), Text(label), context>>
ExpandLabel(i, e, label, context, len) == Expand(i, e, Label(len, label, context), len)
DeriveBlock(i, e, label, context) ==
  IF i = "wolf" THEN expand_block(e, Label(e.hash_len, label, context))
  ELSE ExpandLabel(i, e, label, context, e.hash_len)
FromOkm(i, s, okm) ==
  IF i = "wolf" THEN expander_for_okm(s.kdf, okm) ELSE WolfHkdfExpander(okm, s.kdf)

DerivedSalt(i, s, e) == DeriveBlock(i, e, "derived", Hash(s.hash_provider, <<>>))
HandshakeSecret(i, s, dh) ==
  Extract(i, s.kdf, DerivedSalt(i, s, ExtractFromZero(i, s.kdf, NoBytes)), SecretBytes(dh))
MasterSecret(i, s, dh) ==
  ExtractFromZero(i, s.kdf, DerivedSalt(i, s, HandshakeSecret(i, s, dh)))

\* The secret of a label and the messages so far.
TrafficSecret(i, s, e, label, messages) ==
  DeriveBlock(i, e, label, Hash(s.hash_provider, messages))
NextTrafficSecret(i, s, okm) == DeriveBlock(i, FromOkm(i, s, okm), "traffic upd", <<>>)

TrafficKey(i, s, okm) ==
  ExpandLabel(i, FromOkm(i, s, okm), "key", <<>>, KeyLen(i, s.aead_alg))
TrafficIv(i, s, okm) == ExpandLabel(i, FromOkm(i, s, okm), "iv", <<>>, NONCE_LEN)
TrafficCipher(i, s, okm) == Tls13Cipher(s.aead_alg, TrafficKey(i, s, okm), TrafficIv(i, s, okm))

FinishedKey(i, s, okm) == DeriveBlock(i, FromOkm(i, s, okm), "finished", <<>>)
FinishedMac13(i, s, okm, messages) ==
  LET key == FinishedKey(i, s, okm)
  IN  IF i = "wolf" THEN hmac_sign(s.kdf, key, Hash(s.hash_provider, messages))
      ELSE hkdf_extract(s.kdf, key, Hash(s.hash_provider, messages))

\* export_keying_material: the application chooses the length.
Export13(i, s, okm, len) ==
  LET secret == DeriveBlock(i, FromOkm(i, s, okm), "label", Hash(s.hash_provider, <<>>))
  IN  IF secret = Panic THEN Panic
      ELSE ExpandLabel(i, FromOkm(i, s, secret), "exporter",
                       Hash(s.hash_provider, <<[msg |-> "context"]>>), len)

-----------------------------------------------------------------------------
(* TLS 1.2: rustls' ConnectionSecrets                                      *)

Sub(bytes, at, len) == Slice(bytes[1].of, bytes[1].at + at, len)

\* The extended master secret; NoBytes if the exchange fails.
MasterSecret12(i, s, box, peer, messages) ==
  LET label == Text("extended master secret")
      seed == Hash(s.hash_provider, messages)
      result == complete(box, peer, TRUE)
  IN  IF i = "wolf" THEN for_key_exchange(box, peer, label, seed, s.kdf)
      ELSE IF ~result.ok THEN NoBytes
      ELSE prf(SecretBytes(result.secret), label \o seed, s.kdf, 48)

\* The key block, and cut into keys, IVs and the explicit nonce.
KeyMaterial(i, s, ms, client_random, server_random) ==
  LET shape == ShapeOf(i, s.aead_alg)
  IN  Prf(i, 2 * shape.enc_key_len + 2 * shape.fixed_iv_len + shape.explicit_nonce_len, ms,
          Text("key expansion"), Number(server_random) \o Number(client_random), s.kdf)
KeyBlock(i, s, ms, client_random, server_random) ==
  LET shape == ShapeOf(i, s.aead_alg)
      k == shape.enc_key_len
      f == shape.fixed_iv_len
      block == KeyMaterial(i, s, ms, client_random, server_random)
  IN  [client |-> [key |-> Sub(block, 0, k), iv |-> Sub(block, 2 * k, f)],
       server |-> [key |-> Sub(block, k, k), iv |-> Sub(block, 2 * k + f, f)],
       extra |-> IF shape.explicit_nonce_len = 0 THEN <<>>
                 ELSE Sub(block, 2 * k + 2 * f, shape.explicit_nonce_len)]

FinishedMac12(i, s, ms, role, messages) ==
  Prf(i, 12, ms, Text(role), Hash(s.hash_provider, messages), s.kdf)

Export12(i, s, ms, client_random, server_random, len) ==
  Prf(i, len, ms, Text("label"),
      Number(client_random) \o Number(server_random) \o Text("context"), s.kdf)

=============================================================================

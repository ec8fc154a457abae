------------------------------- MODULE Suites -------------------------------
(***************************************************************************)
(* The cipher suites of lib.rs and the shapes of their record ciphers      *)
(* (aead/*.rs), as operators, next to what the registered names of the     *)
(* suites demand.                                                          *)
(*                                                                         *)
(* Byte strings are symbolic: sequences of pieces, each some bytes, from   *)
(* an offset on, of what a term stands for.                                *)
(***************************************************************************)
EXTENDS Signatures

-----------------------------------------------------------------------------
(* Bytes                                                                   *)

Slice(term, at, len) == <<[of |-> term, at |-> at, len |-> len]>>
ZeroBytes(n) == Slice([name |-> "zero"], 0, n)
ByteLen(bytes) ==
  LET total[n \in 0 .. Len(bytes)] == IF n = 0 THEN 0 ELSE total[n - 1] + bytes[n].len
  IN  total[Len(bytes)]
NoBytes == Slice([name |-> "none"], 0, 0)  \* an absent salt, or an error

-----------------------------------------------------------------------------
(* The suites                                                              *)

Sha256 == "SHA256"
Sha384 == "SHA384"
\* WCShaHmac::hash_len, and the output_len of the hash providers.
hash_len(hash) == IF hash = Sha256 THEN 32 ELSE 48

\* The schemes a TLS 1.2 suite allows.
RSA_SUITE_SCHEMES == RsaSchemes
ALL_ECDSA_SCHEMES == EcdsaSchemes \cup {"ED25519"}

Tls13(hash, hkdf, aead) ==
  [version |-> "1.3", hash_provider |-> hash, kdf |-> hkdf, aead_alg |-> aead, sign |-> {}]
Tls12(hash, prf, aead, schemes) ==
  [version |-> "1.2", hash_provider |-> hash, kdf |-> prf, aead_alg |-> aead, sign |-> schemes]

BugTls13Suite(suite) ==
  CASE suite = "TLS13_CHACHA20_POLY1305_SHA256" -> Tls13(Sha256, Sha256, "Chacha20Poly1305")
    [] suite = "TLS13_AES_128_GCM_SHA256"       -> Tls13(Sha256, Sha256, "Aes128Gcm")
    [] suite = "TLS13_AES_256_GCM_SHA384"       -> Tls13(Sha384, Sha256, "Aes256Gcm")
Tls13Suite(suite) ==
  CASE suite = "TLS13_CHACHA20_POLY1305_SHA256" -> Tls13(Sha256, Sha256, "Chacha20Poly1305")
    [] suite = "TLS13_AES_128_GCM_SHA256"       -> Tls13(Sha256, Sha256, "Aes128Gcm")
    [] suite = "TLS13_AES_256_GCM_SHA384"       -> Tls13(Sha384, Sha384, "Aes256Gcm")
Tls12RsaSuite(suite) ==
  CASE suite = "TLS12_ECDHE_RSA_WITH_CHACHA20_POLY1305_SHA256" ->
         Tls12(Sha256, Sha256, "Chacha20Poly1305", RSA_SUITE_SCHEMES)
    [] suite = "TLS12_ECDHE_RSA_WITH_AES_128_GCM_SHA256" ->
         Tls12(Sha256, Sha256, "Aes128Gcm", RSA_SUITE_SCHEMES)
    [] suite = "TLS12_ECDHE_RSA_WITH_AES_256_GCM_SHA384" ->
         Tls12(Sha384, Sha384, "Aes256Gcm", RSA_SUITE_SCHEMES)
Tls12EcdsaSuite(suite) ==
  CASE suite = "TLS12_ECDHE_ECDSA_WITH_CHACHA20_POLY1305_SHA256" ->
         Tls12(Sha256, Sha256, "Chacha20Poly1305", ALL_ECDSA_SCHEMES)
    [] suite = "TLS12_ECDHE_ECDSA_WITH_AES_128_GCM_SHA256" ->
         Tls12(Sha256, Sha256, "Aes128Gcm", ALL_ECDSA_SCHEMES)
    [] suite = "TLS12_ECDHE_ECDSA_WITH_AES_256_GCM_SHA384" ->
         Tls12(Sha384, Sha384, "Aes256Gcm", ALL_ECDSA_SCHEMES)

Tls13Suites ==
  <<"TLS13_CHACHA20_POLY1305_SHA256", "TLS13_AES_128_GCM_SHA256", "TLS13_AES_256_GCM_SHA384">>
Tls12RsaSuites ==
  <<"TLS12_ECDHE_RSA_WITH_CHACHA20_POLY1305_SHA256", "TLS12_ECDHE_RSA_WITH_AES_128_GCM_SHA256",
    "TLS12_ECDHE_RSA_WITH_AES_256_GCM_SHA384">>
Tls12EcdsaSuites ==
  <<"TLS12_ECDHE_ECDSA_WITH_CHACHA20_POLY1305_SHA256", "TLS12_ECDHE_ECDSA_WITH_AES_128_GCM_SHA256",
    "TLS12_ECDHE_ECDSA_WITH_AES_256_GCM_SHA384">>
ALL_CIPHER_SUITES == Tls13Suites \o Tls12RsaSuites \o Tls12EcdsaSuites

Suite(suite) ==
  IF suite \in Range(Tls13Suites) THEN Tls13Suite(suite)
  ELSE IF suite \in Range(Tls12RsaSuites) THEN Tls12RsaSuite(suite)
  ELSE Tls12EcdsaSuite(suite)

\* provider, and provider_with_specified_ciphers for any other list.
provider_with_specified_ciphers(ciphers) == ciphers
provider == provider_with_specified_ciphers(ALL_CIPHER_SUITES)

-----------------------------------------------------------------------------
(* The record ciphers                                                      *)

Shape(key, iv, explicit) ==
  [enc_key_len |-> key, fixed_iv_len |-> iv, explicit_nonce_len |-> explicit]
BugKeyBlockShape(aead) ==
  CASE aead = "Aes128Gcm"        -> Shape(16, 4, 8)
    [] aead = "Aes256Gcm"        -> Shape(16, 4, 8)
    [] aead = "Chacha20Poly1305" -> Shape(32, 12, 0)
key_block_shape(aead) ==
  CASE aead = "Aes128Gcm"        -> Shape(16, 4, 8)
    [] aead = "Aes256Gcm"        -> Shape(32, 4, 8)
    [] aead = "Chacha20Poly1305" -> Shape(32, 12, 0)
key_len(aead) ==
  CASE aead = "Aes128Gcm" -> 16 [] aead = "Aes256Gcm" -> 32 [] aead = "Chacha20Poly1305" -> 32

GCM_NONCE_LENGTH == 12
NONCE_LEN == 12

NoCipher == [aead |-> "none", key |-> <<>>, iv |-> <<>>]

\* Tls12AeadAlgorithm::encrypter and decrypter: the cipher they make, or NoCipher
\* when copy_from_slice meets another length and panics.  A GCM decrypter only
\* has the implicit part of the IV.
Tls12GcmEncrypter(aead, key, iv, extra) ==
  IF ByteLen(iv) = GCM_NONCE_LENGTH - 8 /\ ByteLen(extra) = 8
    THEN [aead |-> aead, key |-> key, iv |-> iv \o extra] ELSE NoCipher
Tls12GcmDecrypter(aead, key, iv) ==
  IF ByteLen(iv) = GCM_NONCE_LENGTH - 8
    THEN [aead |-> aead, key |-> key, iv |-> iv] ELSE NoCipher
ChachaCipher(key, iv) ==
  IF ByteLen(key) = 32 /\ ByteLen(iv) = NONCE_LEN
    THEN [aead |-> "Chacha20Poly1305", key |-> key, iv |-> iv] ELSE NoCipher

Tls12Encrypter(aead, key, iv, extra) ==
  IF aead = "Chacha20Poly1305" THEN ChachaCipher(key, iv)
  ELSE Tls12GcmEncrypter(aead, key, iv, extra)
Tls12Decrypter(aead, key, iv) ==
  IF aead = "Chacha20Poly1305" THEN ChachaCipher(key, iv) ELSE Tls12GcmDecrypter(aead, key, iv)

\* Tls13AeadAlgorithm::encrypter and decrypter; rustls' Iv has NONCE_LEN bytes.
Tls13GcmCipher(aead, key, iv) == [aead |-> aead, key |-> key, iv |-> iv]
Tls13Cipher(aead, key, iv) ==
  IF aead = "Chacha20Poly1305" THEN ChachaCipher(key, iv) ELSE Tls13GcmCipher(aead, key, iv)

\* extract_keys, for a kernel or another program to go on with: NoCipher is a
\* panic or an error.
BugGcmExtractKeys12(aead, key, iv, explicit) ==
  [aead |-> aead, key |-> key, iv |-> explicit \o iv]
GcmExtractKeys12(aead, key, iv, explicit) ==
  IF ByteLen(iv) = 4 /\ ByteLen(explicit) = GCM_NONCE_LENGTH - 4
    THEN [aead |-> aead, key |-> key, iv |-> iv \o explicit] ELSE NoCipher
ChachaExtractKeys12(key, iv) ==
  IF ByteLen(iv) = NONCE_LEN
    THEN [aead |-> "Chacha20Poly1305", key |-> key, iv |-> iv] ELSE NoCipher
extract_keys12(aead, key, iv, explicit) ==
  IF aead = "Chacha20Poly1305" THEN ChachaExtractKeys12(key, iv)
  ELSE GcmExtractKeys12(aead, key, iv, explicit)
extract_keys13(aead, key, iv) == [aead |-> aead, key |-> key, iv |-> iv]

-----------------------------------------------------------------------------
(* What the registered name of a suite demands (RFC 5288, 5289, 7905,      *)
(* 8446), for the peers that are other implementations.                    *)

Sha384Suites ==
  {"TLS13_AES_256_GCM_SHA384", "TLS12_ECDHE_RSA_WITH_AES_256_GCM_SHA384",
   "TLS12_ECDHE_ECDSA_WITH_AES_256_GCM_SHA384"}
ChachaSuites ==
  {"TLS13_CHACHA20_POLY1305_SHA256", "TLS12_ECDHE_RSA_WITH_CHACHA20_POLY1305_SHA256",
   "TLS12_ECDHE_ECDSA_WITH_CHACHA20_POLY1305_SHA256"}
RfcHash(suite) == IF suite \in Sha384Suites THEN Sha384 ELSE Sha256
RfcAead(suite) ==
  IF suite \in ChachaSuites THEN "Chacha20Poly1305"
  ELSE IF suite \in Sha384Suites THEN "Aes256Gcm" ELSE "Aes128Gcm"
RfcSuite(suite) ==
  [version |-> IF suite \in Range(Tls13Suites) THEN "1.3" ELSE "1.2",
   hash_provider |-> RfcHash(suite), kdf |-> RfcHash(suite), aead_alg |-> RfcAead(suite),
   sign |-> IF suite \in Range(Tls13Suites) THEN {}
            ELSE IF suite \in Range(Tls12RsaSuites) THEN RsaSchemes
            ELSE EcdsaSchemes \cup {"ED25519"}]
RfcShape(aead) ==
  [enc_key_len |-> IF aead = "Aes128Gcm" THEN 16 ELSE 32,
   fixed_iv_len |-> IF aead = "Chacha20Poly1305" THEN 12 ELSE 4,
   explicit_nonce_len |-> IF aead = "Chacha20Poly1305" THEN 0 ELSE 8]

=============================================================================

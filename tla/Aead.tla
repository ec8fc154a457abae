-------------------------------- MODULE Aead --------------------------------
(***************************************************************************)
(* The record ciphers of rustls-wolfcrypt-provider/src/aead: AES-GCM and   *)
(* ChaCha20-Poly1305, each for TLS 1.2 and for TLS 1.3.  aes128gcm.rs and  *)
(* aes256gcm.rs are the same code up to the key length.                    *)
(*                                                                         *)
(* wolfCrypt's AEAD is ideal: what it makes of a plaintext is a sequence   *)
(* of cells, one per byte, that name the seal (key, nonce, additional      *)
(* data, plaintext) they belong to and their place in it, and a seal opens *)
(* only under its own key, nonce and additional data.  Everything the      *)
(* provider itself decides is explicit: how the nonce is put together,     *)
(* what is authenticated, how the payload is laid out and cut up again,    *)
(* which lengths are refused and which error a failure becomes.            *)
(***************************************************************************)
EXTENDS Integers, Sequences

CONSTANTS
  ExplicitNonceLen,  \* GCM_NONCE_LENGTH - 4: bytes of nonce sent with a record
  TagLen,            \* GCM_TAG_LENGTH and CHACHAPOLY1305_OVERHEAD
  WordMax,           \* largest value of the 64 nonce bits the sequence reaches
  XorWord(_, _)        \* exclusive or of two such words

Word == 0 .. WordMax

ASSUME LenAssumption ==
  ExplicitNonceLen \in Nat \ {0} /\ TagLen \in Nat \ {0} /\ WordMax \in Nat

\* All that the provider needs of the exclusive or: it stays within the word,
\* and one IV never maps two sequence numbers to one nonce.
ASSUME XorAssumption ==
  \A a, b \in Word :
    /\ XorWord(a, b) \in Word
    /\ \A c \in Word : XorWord(a, b) = XorWord(a, c) => b = c

-----------------------------------------------------------------------------
(* Messages and records                                                    *)

Byte == Nat
ContentType == Byte \ {0}
Message == [typ : ContentType, payload : Seq(Byte)]

\* A cipher object: its key, and its IV as the bytes the sequence number never
\* reaches and the word it is combined with.
IvType == [fixed : Nat, low : Word]
CtxType == [key : Nat, iv : IvType]

ApplicationData == 23
TLSv1_2 == "TLSv1_2"

Ok(m) == [ok |-> TRUE, msg |-> m]
Err(e) == [ok |-> FALSE, err |-> e]

Suites == {"gcm12", "chacha12", "gcm13", "chacha13"}
IsTls13(suite) == suite \in {"gcm13", "chacha13"}

-----------------------------------------------------------------------------
(* wolfCrypt: sealing and opening                                          *)

NonceCell(w, i) == [kind |-> "nonce", word |-> w, at |-> i]
SealCell(s, i) == [kind |-> "seal", seal |-> s, at |-> i]
Junk == [kind |-> "junk"]

Ciphertext(s) == [i \in 1 .. Len(s.pt) |-> SealCell(s, i)]
AuthTag(s) == [i \in 1 .. TagLen |-> SealCell(s, Len(s.pt) + i)]

\* The seals whose cells occur in a sequence of cells.
SealsIn(cells) ==
  {c.seal : c \in {x \in {cells[i] : i \in DOMAIN cells} : x.kind = "seal"}}

\* The seals that open: none or one.
Opened(key, nonce, aad, ciphertext, auth_tag) ==
  {s \in SealsIn(auth_tag) :
     /\ ciphertext = Ciphertext(s)
     /\ auth_tag = AuthTag(s)
     /\ s.key = key
     /\ s.nonce = nonce
     /\ s.aad = aad}

-----------------------------------------------------------------------------
(* rustls: nonce, additional data, inner plaintext                         *)

WordBytes(w) == [i \in 1 .. ExplicitNonceLen |-> NonceCell(w, i)]

\* Nonce::new(&self.iv, seq).
NonceNew(iv, seq) == [fixed |-> iv.fixed, low |-> WordBytes(XorWord(iv.low, seq))]

BugTls12Aad(seq, typ, version, len) ==
  [seq |-> 0, typ |-> typ, version |-> version, len |-> len]
make_tls12_aad(seq, typ, version, len) ==
  [seq |-> seq, typ |-> typ, version |-> version, len |-> len]
make_tls13_aad(len) == [len |-> len]

\* into_tls13_unpadded_message: the last byte that is not zero is the type.
into_tls13_unpadded_message(pt) ==
  LET typed == {i \in 1 .. Len(pt) : pt[i] # 0}
      last == CHOOSE i \in typed : \A j \in typed : j <= i
  IN  IF typed = {}
        THEN Err("IllegalTlsInnerPlaintext")
        ELSE Ok([typ |-> pt[last], payload |-> SubSeq(pt, 1, last - 1)])

-----------------------------------------------------------------------------
(* MessageEncrypter: ctx is the cipher object, [key, iv]                   *)

\* What is sealed for message m under sequence number seq.
BugTls12Seal(ctx, m, seq) ==
  [key |-> ctx.key,
   nonce |-> NonceNew(ctx.iv, 0),
   aad |-> make_tls12_aad(seq, m.typ, TLSv1_2, Len(m.payload)),
   pt |-> m.payload]
Tls12Seal(ctx, m, seq) ==
  [key |-> ctx.key,
   nonce |-> NonceNew(ctx.iv, seq),
   aad |-> make_tls12_aad(seq, m.typ, TLSv1_2, Len(m.payload)),
   pt |-> m.payload]

BugTls13EncryptedPayloadLen(len) == len + TagLen
Tls13EncryptedPayloadLen(len) == len + 1 + TagLen

Tls13Seal(ctx, m, seq) ==
  [key |-> ctx.key,
   nonce |-> NonceNew(ctx.iv, seq),
   aad |-> make_tls13_aad(Tls13EncryptedPayloadLen(Len(m.payload))),
   pt |-> m.payload \o <<m.typ>>]

\* nonce[4..] || ciphertext || tag, under the message's own type.
GcmTls12Encrypt(ctx, m, seq) ==
  LET s == Tls12Seal(ctx, m, seq)
  IN  [typ |-> m.typ,
       version |-> TLSv1_2,
       payload |-> s.nonce.low \o (Ciphertext(s) \o AuthTag(s))]

\* ciphertext || tag, under the message's own type.
ChachaTls12Encrypt(ctx, m, seq) ==
  LET s == Tls12Seal(ctx, m, seq)
  IN  [typ |-> m.typ,
       version |-> TLSv1_2,
       payload |-> Ciphertext(s) \o AuthTag(s)]

\* ciphertext || tag; the type travels inside.
GcmTls13Encrypt(ctx, m, seq) ==
  LET s == Tls13Seal(ctx, m, seq)
  IN  [typ |-> ApplicationData,
       version |-> TLSv1_2,
       payload |-> Ciphertext(s) \o AuthTag(s)]

ChachaTls13Encrypt(ctx, m, seq) ==
  LET s == Tls13Seal(ctx, m, seq)
  IN  [typ |-> ApplicationData,
       version |-> TLSv1_2,
       payload |-> Ciphertext(s) \o AuthTag(s)]

Encrypt(suite, ctx, m, seq) ==
  CASE suite = "gcm12"    -> GcmTls12Encrypt(ctx, m, seq)
    [] suite = "chacha12" -> ChachaTls12Encrypt(ctx, m, seq)
    [] suite = "gcm13"    -> GcmTls13Encrypt(ctx, m, seq)
    [] suite = "chacha13" -> ChachaTls13Encrypt(ctx, m, seq)

SealOf(suite, ctx, m, seq) ==
  IF IsTls13(suite) THEN Tls13Seal(ctx, m, seq) ELSE Tls12Seal(ctx, m, seq)

-----------------------------------------------------------------------------
(* MessageDecrypter: Ok, an Err, or a panic.  ffiOk says whether every     *)
(* wolfCrypt call returned for another reason than authentication.         *)

\* payload[from..to] in Rust: 0-based, end excluded; out of range it panics.
InRange(s, from, to) == 0 <= from /\ from <= to /\ to <= Len(s)
Slice(s, from, to) == SubSeq(s, from + 1, to)

\* The shortest payloads the decrypters look at.
BugMinGcmTls12 == TagLen
MinGcmTls12 == ExplicitNonceLen + TagLen
MinTagged == TagLen

\* What the four decrypters share: refuse a payload shorter than min, cut the
\* rest into ciphertext (from offset start) and tag, open it.
BugOpenPayload(ctx, payload, start, min, nonce, aad, ffiOk) ==
  LET message_end == Len(payload) - TagLen
      plain == Opened(ctx.key, nonce, aad,
                      Slice(payload, start, message_end),
                      Slice(payload, message_end, Len(payload)))
  IN  IF Len(payload) < min
        THEN Err("DecryptError")
      ELSE IF plain = {}
        THEN Ok([i \in 1 .. message_end - start |-> 0])
        ELSE Ok((CHOOSE s \in plain : TRUE).pt)
OpenPayload(ctx, payload, start, min, nonce, aad, ffiOk) ==
  LET message_end == Len(payload) - TagLen
      plain == Opened(ctx.key, nonce, aad,
                      Slice(payload, start, message_end),
                      Slice(payload, message_end, Len(payload)))
  IN  IF Len(payload) < min
        THEN Err("DecryptError")
      ELSE IF ~InRange(payload, start, message_end)
        THEN Err("panic")
      ELSE IF ~ffiOk \/ plain = {}
        THEN Err("General")
        ELSE Ok((CHOOSE s \in plain : TRUE).pt)

\* into_plain_message: the type is the one on the record.
into_plain_message(r, opened) ==
  IF opened.ok THEN Ok([typ |-> r.typ, payload |-> opened.msg]) ELSE opened

\* The nonce is the one on the wire; only the additional data hold seq.
GcmTls12Decrypt(ctx, r, seq, ffiOk) ==
  LET explicit == Slice(r.payload, 0, ExplicitNonceLen)
      len == Len(r.payload) - TagLen - ExplicitNonceLen
  IN  into_plain_message(r,
        OpenPayload(ctx, r.payload, ExplicitNonceLen, MinGcmTls12,
                    [fixed |-> ctx.iv.fixed, low |-> explicit],
                    make_tls12_aad(seq, r.typ, r.version, len), ffiOk))

ChachaTls12Decrypt(ctx, r, seq, ffiOk) ==
  into_plain_message(r,
    OpenPayload(ctx, r.payload, 0, MinTagged, NonceNew(ctx.iv, seq),
                make_tls12_aad(seq, r.typ, r.version, Len(r.payload) - TagLen),
                ffiOk))

\* Only the nonce holds seq; the type is taken from the plaintext.
GcmTls13Decrypt(ctx, r, seq, ffiOk) ==
  LET opened == OpenPayload(ctx, r.payload, 0, MinTagged, NonceNew(ctx.iv, seq),
                            make_tls13_aad(Len(r.payload)), ffiOk)
  IN  IF opened.ok THEN into_tls13_unpadded_message(opened.msg) ELSE opened

ChachaTls13Decrypt(ctx, r, seq, ffiOk) ==
  LET opened == OpenPayload(ctx, r.payload, 0, MinTagged, NonceNew(ctx.iv, seq),
                            make_tls13_aad(Len(r.payload)), ffiOk)
  IN  IF opened.ok THEN into_tls13_unpadded_message(opened.msg) ELSE opened

Decrypt(suite, ctx, r, seq, ffiOk) ==
  CASE suite = "gcm12"    -> GcmTls12Decrypt(ctx, r, seq, ffiOk)
    [] suite = "chacha12" -> ChachaTls12Decrypt(ctx, r, seq, ffiOk)
    [] suite = "gcm13"    -> GcmTls13Decrypt(ctx, r, seq, ffiOk)
    [] suite = "chacha13" -> ChachaTls13Decrypt(ctx, r, seq, ffiOk)

=============================================================================

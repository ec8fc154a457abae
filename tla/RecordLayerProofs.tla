-------------------------- MODULE RecordLayerProofs --------------------------
(***************************************************************************)
(* RecordLayer proved for every set of messages and IVs, every sequence    *)
(* and record length, and any number of key changes.  The first three      *)
(* parts are about the operators of Aead: what the record ciphers          *)
(* guarantee for every length of nonce and tag, every message, key, IV and *)
(* sequence number.                                                        *)
(***************************************************************************)
EXTENDS RecordLayer, SequenceTheorems, TLAPS

\* The cells that can occur in a record that carries seal s.
CellsFor(s) ==
  {NonceCell(w, i) : w \in Word, i \in Nat} \cup {SealCell(s, i) : i \in Nat}

-----------------------------------------------------------------------------
(* Cells and seals                                                         *)

\* The ciphertext and the tag of a seal are sequences of its cells, one cell
\* per byte.
LEMMA SealedCells ==
  ASSUME NEW s, s.pt \in Seq(Byte)
  PROVE  /\ Ciphertext(s) \in Seq(CellsFor(s)) /\ Len(Ciphertext(s)) = Len(s.pt)
         /\ AuthTag(s) \in Seq(CellsFor(s)) /\ Len(AuthTag(s)) = TagLen
<1>1. /\ Len(s.pt) \in Nat
      /\ TagLen \in Nat
  BY LenAssumption, LenProperties
<1>2. \A i \in Nat : SealCell(s, i) \in CellsFor(s)
  BY DEF CellsFor
<1>3. /\ \A i \in 1 .. Len(s.pt) : SealCell(s, i) \in CellsFor(s)
      /\ \A i \in 1 .. TagLen : SealCell(s, Len(s.pt) + i) \in CellsFor(s)
  BY <1>1, <1>2
<1> HIDE DEF CellsFor
<1>4. Ciphertext(s) \in Seq(CellsFor(s)) /\ Len(Ciphertext(s)) = Len(s.pt)
  BY <1>1, <1>3 DEF Ciphertext
<1>5. AuthTag(s) \in Seq(CellsFor(s)) /\ Len(AuthTag(s)) = TagLen
  BY <1>1, <1>3 DEF AuthTag
<1> QED
  BY <1>4, <1>5

\* Different seals have different tags.
LEMMA TagNamesSeal ==
  ASSUME NEW s, NEW t, AuthTag(s) = AuthTag(t)
  PROVE  s = t
<1>1. 1 \in 1 .. TagLen
  BY LenAssumption
<1>2. SealCell(s, Len(s.pt) + 1) = SealCell(t, Len(t.pt) + 1)
  BY <1>1 DEF AuthTag
<1> QED
  BY <1>2 DEF SealCell

\* A seal is among the seals of its own tag.
LEMMA TagHoldsSeal ==
  ASSUME NEW s
  PROVE  s \in SealsIn(AuthTag(s))
<1> DEFINE c == SealCell(s, Len(s.pt) + 1)
<1>1. 1 \in DOMAIN AuthTag(s) /\ AuthTag(s)[1] = c
  BY LenAssumption DEF AuthTag
<1>2. c.kind = "seal" /\ c.seal = s
  BY DEF SealCell
<1> QED
  BY <1>1, <1>2 DEF SealsIn

\* The only seals in cells of s, cells of t and damaged bytes are s and t.
LEMMA SealsOfCells ==
  ASSUME NEW s, NEW t,
         NEW cells \in Seq(CellsFor(s) \cup CellsFor(t) \cup {Junk}),
         NEW u \in SealsIn(cells)
  PROVE  u = s \/ u = t
<1>1. PICK i \in DOMAIN cells : cells[i].kind = "seal" /\ u = cells[i].seal
  BY DEF SealsIn
<1>2. cells[i] \in CellsFor(s) \cup CellsFor(t) \cup {Junk}
  BY ElementOfSeq, LenProperties
<1> QED
  BY <1>1, <1>2 DEF CellsFor, NonceCell, SealCell, Junk

\* Cutting a payload brings in no new seal.
LEMMA SealsOfSubSeq ==
  ASSUME NEW S, NEW cells \in Seq(S), NEW i \in Nat \ {0}, NEW j \in 0 .. Len(cells)
  PROVE  SealsIn(SubSeq(cells, i, j)) \subseteq SealsIn(cells)
<1> SUFFICES ASSUME NEW u \in SealsIn(SubSeq(cells, i, j))
             PROVE  u \in SealsIn(cells)
  OBVIOUS
<1>1. PICK k \in DOMAIN SubSeq(cells, i, j) :
        SubSeq(cells, i, j)[k].kind = "seal" /\ u = SubSeq(cells, i, j)[k].seal
  BY DEF SealsIn
<1>2. i + k - 1 \in DOMAIN cells /\ SubSeq(cells, i, j)[k] = cells[i + k - 1]
  BY <1>1
<1> QED
  BY <1>1, <1>2 DEF SealsIn

-----------------------------------------------------------------------------
(* Opening                                                                 *)

\* Three sequences joined and cut apart again are the same three sequences.
LEMMA JoinAndCut ==
  ASSUME NEW S, NEW p \in Seq(S), NEW c \in Seq(S), NEW t \in Seq(S)
  PROVE  /\ p \o (c \o t) \in Seq(S)
         /\ Len(p \o (c \o t)) = Len(p) + Len(c) + Len(t)
         /\ SubSeq(p \o (c \o t), 1, Len(p)) = p
         /\ SubSeq(p \o (c \o t), Len(p) + 1, Len(p) + Len(c)) = c
         /\ SubSeq(p \o (c \o t), Len(p) + Len(c) + 1, Len(p) + Len(c) + Len(t)) = t
<1> DEFINE w == p \o (c \o t)
<1>1. Len(p) \in Nat /\ Len(c) \in Nat /\ Len(t) \in Nat
  BY LenProperties
<1>2. w \in Seq(S) /\ Len(w) = Len(p) + Len(c) + Len(t)
  OBVIOUS
<1>3. /\ \A i \in 1 .. Len(p) : w[i] = p[i]
      /\ \A i \in 1 .. Len(c) : w[Len(p) + i] = c[i]
      /\ \A i \in 1 .. Len(t) : w[Len(p) + Len(c) + i] = t[i]
  BY <1>1
<1> HIDE DEF w
<1>4. SubSeq(w, 1, Len(p)) = p
  BY <1>1, <1>2, <1>3
<1>5. SubSeq(w, Len(p) + 1, Len(p) + Len(c)) = c
  BY <1>1, <1>2, <1>3
<1>6. SubSeq(w, Len(p) + Len(c) + 1, Len(p) + Len(c) + Len(t)) = t
  <2> DEFINE n == Len(p) + Len(c)
  <2>1. /\ n \in Nat /\ Len(w) = n + Len(t)
        /\ \A i \in 1 .. Len(t) : w[n + i] = t[i]
    BY <1>1, <1>2, <1>3
  <2> HIDE DEF n
  <2>2. SubSeq(w, n + 1, n + Len(t)) = t
    BY <1>1, <1>2, <2>1
  <2> QED
    BY <2>2 DEF n
<1> QED
  BY <1>2, <1>4, <1>5, <1>6 DEF w

\* Bytes of whatever kind, and the bounds between which a ciphertext is looked for.
IsBytes(payload) == \E S : payload \in Seq(S)
AreBounds(start, min) == start \in Nat /\ min \in Int

\* What opens is the plaintext of a seal that is in the payload and that was
\* made under this key, nonce and additional data.
LEMMA OpenAuthentic ==
  ASSUME NEW ctx, NEW payload, IsBytes(payload), NEW start, NEW min, AreBounds(start, min),
         NEW nonce, NEW aad, NEW ffiOk \in BOOLEAN,
         NEW o, o = OpenPayload(ctx, payload, start, min, nonce, aad, ffiOk), o.ok
  PROVE  \E s \in SealsIn(payload) :
           s.key = ctx.key /\ s.nonce = nonce /\ s.aad = aad /\ o = Ok(s.pt)
<1> DEFINE end == Len(payload) - TagLen
           tag == Slice(payload, end, Len(payload))
           plain == Opened(ctx.key, nonce, aad, Slice(payload, start, end), tag)
           s == CHOOSE x \in plain : TRUE
<1> PICK S : payload \in Seq(S)
  BY DEF IsBytes
<1> start \in Nat /\ min \in Int
  BY DEF AreBounds
<1>1. ~ (Len(payload) < min) /\ InRange(payload, start, end) /\ ~(~ffiOk \/ plain = {})
  BY DEF OpenPayload, Err
<1>2. o = Ok(s.pt)
  BY <1>1 DEF OpenPayload
<1>3. s \in plain
  BY <1>1
<1>4. /\ s \in SealsIn(tag)
      /\ s.key = ctx.key
      /\ s.nonce = nonce
      /\ s.aad = aad
  BY <1>3 DEF Opened
<1>5. SealsIn(tag) \subseteq SealsIn(payload)
  <2>1. /\ Len(payload) \in Nat
        /\ TagLen \in Nat
        /\ end + 1 \in Nat \ {0}
        /\ Len(payload) \in 0 .. Len(payload)
    BY <1>1, LenAssumption, LenProperties DEF InRange
  <2> QED
    BY <2>1, SealsOfSubSeq DEF Slice
<1> QED
  BY <1>2, <1>4, <1>5

\* A seal that follows the bytes it should follow, looked for under its own
\* key, nonce and additional data, opens to its plaintext.
LEMMA OpenIntact ==
  ASSUME NEW ctx, NEW s, s.pt \in Seq(Byte), s.key = ctx.key,
         NEW S, NEW prefix \in Seq(S), NEW min \in Int, min <= Len(prefix) + TagLen
  PROVE  OpenPayload(ctx, prefix \o (Ciphertext(s) \o AuthTag(s)), Len(prefix), min,
                     s.nonce, s.aad, TRUE) = Ok(s.pt)
<1> DEFINE C == S \cup CellsFor(s)
           payload == prefix \o (Ciphertext(s) \o AuthTag(s))
           end == Len(payload) - TagLen
           plain == Opened(ctx.key, s.nonce, s.aad, Slice(payload, Len(prefix), end),
                           Slice(payload, end, Len(payload)))
<1>1. /\ prefix \in Seq(C) /\ Len(prefix) \in Nat
      /\ Ciphertext(s) \in Seq(C) /\ Len(Ciphertext(s)) = Len(s.pt)
      /\ AuthTag(s) \in Seq(C) /\ Len(AuthTag(s)) = TagLen
      /\ TagLen \in Nat \ {0} /\ Len(s.pt) \in Nat
  BY SealedCells, LenAssumption, LenProperties
<1> HIDE DEF C
<1>2. /\ Len(payload) = Len(prefix) + Len(s.pt) + TagLen
      /\ SubSeq(payload, Len(prefix) + 1, Len(prefix) + Len(s.pt)) = Ciphertext(s)
      /\ SubSeq(payload, Len(prefix) + Len(s.pt) + 1, Len(prefix) + Len(s.pt) + TagLen)
           = AuthTag(s)
  <2>1. \A c, t \in Seq(C) :
          /\ Len(prefix \o (c \o t)) = Len(prefix) + Len(c) + Len(t)
          /\ SubSeq(prefix \o (c \o t), Len(prefix) + 1, Len(prefix) + Len(c)) = c
          /\ SubSeq(prefix \o (c \o t),
                    Len(prefix) + Len(c) + 1, Len(prefix) + Len(c) + Len(t)) = t
    BY <1>1, JoinAndCut, SMTT(40)
  <2>2. /\ Len(payload) = Len(prefix) + Len(Ciphertext(s)) + Len(AuthTag(s))
        /\ SubSeq(payload, Len(prefix) + 1, Len(prefix) + Len(Ciphertext(s)))
             = Ciphertext(s)
        /\ SubSeq(payload, Len(prefix) + Len(Ciphertext(s)) + 1,
                  Len(prefix) + Len(Ciphertext(s)) + Len(AuthTag(s))) = AuthTag(s)
    BY <1>1, <2>1, Zenon
  <2> HIDE DEF payload
  <2> QED
    BY <1>1, <2>2
<1> HIDE DEF payload
<1>3. end = Len(prefix) + Len(s.pt)
  BY <1>1, <1>2
<1>4. Slice(payload, Len(prefix), end) = Ciphertext(s)
  BY <1>2, <1>3 DEF Slice
<1>5. Slice(payload, end, Len(payload)) = AuthTag(s)
  BY <1>2, <1>3 DEF Slice
<1> HIDE DEF end
<1>6. s \in plain
  BY <1>4, <1>5, TagHoldsSeal DEF Opened
<1>7. \A t \in plain : t = s
  BY <1>5, TagNamesSeal DEF Opened
<1>8. ~ (Len(payload) < min) /\ InRange(payload, Len(prefix), end)
  BY <1>1, <1>2, <1>3 DEF InRange
<1>9. OpenPayload(ctx, payload, Len(prefix), min, s.nonce, s.aad, TRUE)
         = Ok((CHOOSE t \in plain : TRUE).pt)
  BY <1>6, <1>8 DEF OpenPayload, end
<1>10. (CHOOSE t \in plain : TRUE) = s
  BY <1>6, <1>7
<1> QED
  BY <1>9, <1>10 DEF payload

-----------------------------------------------------------------------------
(* The ciphers                                                             *)

\* A message with its type behind it loses neither to the removal of padding,
\* not even when the message itself ends in zeros.
LEMMA Unpadded ==
  ASSUME NEW m \in Message
  PROVE  into_tls13_unpadded_message(m.payload \o <<m.typ>>) = Ok(m)
<1> DEFINE pt == m.payload \o <<m.typ>>
           n == Len(m.payload) + 1
           typed == {i \in 1 .. Len(pt) : pt[i] # 0}
<1>1. /\ m.payload \in Seq(Byte) /\ m.typ \in ContentType
      /\ m = [typ |-> m.typ, payload |-> m.payload]
  BY DEF Message
<1>2. Len(m.payload) \in Nat /\ m.typ \in Byte /\ m.typ # 0
  BY <1>1, LenProperties DEF ContentType
<1>3. /\ Len(pt) = n
      /\ pt[n] = m.typ
      /\ SubSeq(pt, 1, n - 1) = m.payload
  BY <1>1, <1>2
<1> HIDE DEF pt
<1>4. n \in typed /\ \A j \in typed : j <= n
  BY <1>2, <1>3
<1>5. (CHOOSE i \in typed : \A j \in typed : j <= i) = n
  <2>1. \A i \in typed : (\A j \in typed : j <= i) => i = n
    BY <1>2, <1>3, <1>4
  <2> HIDE DEF typed, n
  <2> QED
    BY <1>4, <2>1
<1>6. into_tls13_unpadded_message(pt) = Ok([typ |-> pt[n], payload |-> SubSeq(pt, 1, n - 1)])
  BY <1>4, <1>5 DEF into_tls13_unpadded_message
<1> QED
  BY <1>1, <1>3, <1>6 DEF pt

\* What a seal holds.
LEMMA SealFields ==
  ASSUME NEW kind \in Suites, NEW ctx, NEW m \in Message, NEW seq,
         NEW s, s = SealOf(kind, ctx, m, seq)
  PROVE  /\ s.key = ctx.key
         /\ s.nonce = NonceNew(ctx.iv, seq)
         /\ s.pt = IF IsTls13(kind) THEN m.payload \o <<m.typ>> ELSE m.payload
         /\ s.pt \in Seq(Byte)
         /\ ~IsTls13(kind) =>
              s.aad = make_tls12_aad(seq, m.typ, TLSv1_2, Len(m.payload))
         /\ IsTls13(kind) => s.aad = make_tls13_aad(Len(m.payload) + 1 + TagLen)
<1>1. m.payload \in Seq(Byte) /\ <<m.typ>> \in Seq(Byte)
  BY DEF Message, ContentType
<1>2. m.payload \o <<m.typ>> \in Seq(Byte)
  BY <1>1
<1> QED
  BY <1>1, <1>2 DEF SealOf, Tls12Seal, Tls13Seal, Tls13EncryptedPayloadLen

\* The fields that tell the sequence number and the message, for each version.
LEMMA Tls12SealFields ==
  ASSUME NEW kind \in Suites, ~IsTls13(kind), NEW ctx, NEW m \in Message, NEW seq
  PROVE  /\ SealOf(kind, ctx, m, seq).pt = m.payload
         /\ SealOf(kind, ctx, m, seq).aad =
              make_tls12_aad(seq, m.typ, TLSv1_2, Len(m.payload))
  BY DEF SealOf, Tls12Seal

LEMMA Tls13SealFields ==
  ASSUME NEW kind \in Suites, IsTls13(kind), NEW ctx, NEW m \in Message, NEW seq
  PROVE  /\ SealOf(kind, ctx, m, seq).pt = m.payload \o <<m.typ>>
         /\ SealOf(kind, ctx, m, seq).nonce = NonceNew(ctx.iv, seq)
  BY DEF SealOf, Tls13Seal

\* A record is made of cells of the one seal it carries.
LEMMA EncryptCells ==
  ASSUME NEW kind \in Suites, NEW ctx \in CtxType, NEW m \in Message, NEW seq \in Word
  PROVE  Encrypt(kind, ctx, m, seq).payload \in Seq(CellsFor(SealOf(kind, ctx, m, seq)))
<1> DEFINE s == SealOf(kind, ctx, m, seq)
<1>1. /\ s.key = ctx.key
      /\ s.nonce = NonceNew(ctx.iv, seq)
      /\ s.pt = IF IsTls13(kind) THEN m.payload \o <<m.typ>> ELSE m.payload
      /\ s.pt \in Seq(Byte)
  BY SealFields
<1>2. Ciphertext(s) \in Seq(CellsFor(s)) /\ AuthTag(s) \in Seq(CellsFor(s))
  BY <1>1, SealedCells
<1>3. s.nonce.low \in Seq(CellsFor(s))
  <2>1. XorWord(ctx.iv.low, seq) \in Word
    BY XorAssumption DEF CtxType, IvType
  <2>2. \A i \in 1 .. ExplicitNonceLen :
          NonceCell(XorWord(ctx.iv.low, seq), i) \in CellsFor(s)
    BY <2>1 DEF CellsFor
  <2>3. s.nonce.low = WordBytes(XorWord(ctx.iv.low, seq))
    BY <1>1 DEF NonceNew
  <2> HIDE DEF s
  <2> QED
    BY <2>2, <2>3, LenAssumption DEF WordBytes
<1>4. \A a, b, c \in Seq(CellsFor(s)) :
        a \o b \in Seq(CellsFor(s)) /\ a \o (b \o c) \in Seq(CellsFor(s))
  BY ConcatProperties
<1>5. Encrypt(kind, ctx, m, seq).payload
        = IF kind = "gcm12" THEN s.nonce.low \o (Ciphertext(s) \o AuthTag(s))
                             ELSE Ciphertext(s) \o AuthTag(s)
  BY DEF Encrypt, GcmTls12Encrypt, ChachaTls12Encrypt, GcmTls13Encrypt,
         ChachaTls13Encrypt, SealOf, IsTls13, Suites
<1> HIDE DEF s
<1> QED
  BY <1>2, <1>3, <1>4, <1>5 DEF s

\* Under its own sequence number a record decrypts to the message it was made
\* from.
LEMMA RoundTrip ==
  ASSUME NEW kind \in Suites, NEW ctx, NEW m \in Message, NEW seq
  PROVE  Decrypt(kind, ctx, Encrypt(kind, ctx, m, seq), seq, TRUE) = Ok(m)
<1> DEFINE s == SealOf(kind, ctx, m, seq)
           r == Encrypt(kind, ctx, m, seq)
           body == Ciphertext(s) \o AuthTag(s)
<1>1. /\ s.key = ctx.key
      /\ s.nonce = NonceNew(ctx.iv, seq)
      /\ s.pt = IF IsTls13(kind) THEN m.payload \o <<m.typ>> ELSE m.payload
      /\ s.pt \in Seq(Byte)
      /\ ~IsTls13(kind) => s.aad = make_tls12_aad(seq, m.typ, TLSv1_2, Len(m.payload))
      /\ IsTls13(kind) => s.aad = make_tls13_aad(Len(m.payload) + 1 + TagLen)
  <2>1. s = SealOf(kind, ctx, m, seq)
    OBVIOUS
  <2> HIDE DEF s
  <2> QED
    BY <2>1, SealFields
<1>2. /\ m.payload \in Seq(Byte) /\ Len(m.payload) \in Nat
      /\ m = [typ |-> m.typ, payload |-> m.payload]
      /\ Len(m.payload \o <<m.typ>>) = Len(m.payload) + 1
  BY LenProperties DEF Message, ContentType
<1>3. TagLen \in Nat /\ ExplicitNonceLen \in Nat /\ MinGcmTls12 \in Nat /\ MinTagged \in Nat
  BY LenAssumption DEF MinGcmTls12, MinTagged
<1>4. Ciphertext(s) \in Seq(CellsFor(s)) /\ AuthTag(s) \in Seq(CellsFor(s))
      /\ Len(Ciphertext(s)) = Len(s.pt) /\ Len(AuthTag(s)) = TagLen
  BY <1>1, SealedCells
<1>5. body \in Seq(CellsFor(s)) /\ Len(body) = Len(s.pt) + TagLen /\ <<>> \o body = body
  <2> DEFINE c == Ciphertext(s)
             t == AuthTag(s)
  <2>1. \A a, b \in Seq(CellsFor(s)) :
          a \o b \in Seq(CellsFor(s)) /\ Len(a \o b) = Len(a) + Len(b) /\ <<>> \o (a \o b) = a \o b
    OBVIOUS
  <2> HIDE DEF s
  <2> QED
    BY <1>4, <2>1
<1>8. \A min \in Int : min <= TagLen =>
        OpenPayload(ctx, body, 0, min, s.nonce, s.aad, TRUE) = Ok(s.pt)
  <2>1. <<>> \in Seq(CellsFor(s)) /\ Len(<<>>) = 0
    OBVIOUS
  <2>2. SUFFICES ASSUME NEW min \in Int, min <= TagLen
                 PROVE  OpenPayload(ctx, body, 0, min, s.nonce, s.aad, TRUE) = Ok(s.pt)
    OBVIOUS
  <2> HIDE DEF s
  <2>3. min <= Len(<<>>) + TagLen
    BY <1>3, <2>1, <2>2
  <2>4. OpenPayload(ctx, <<>> \o body, Len(<<>>), min, s.nonce, s.aad, TRUE) = Ok(s.pt)
    BY <1>1, <2>1, <2>3, OpenIntact, Zenon
  <2> QED
    BY <1>5, <2>1, <2>4, Zenon
<1>6. CASE kind = "gcm12"
  <2> DEFINE low == s.nonce.low
             N == {NonceCell(XorWord(ctx.iv.low, seq), i) : i \in Nat}
             C == N \cup CellsFor(s)
  <2>1. ~IsTls13(kind)
    BY <1>6 DEF IsTls13
  <2>2. r = [typ |-> m.typ, version |-> TLSv1_2, payload |-> low \o body]
    BY <1>6, <2>1 DEF Encrypt, GcmTls12Encrypt, SealOf
  <2>3. /\ low \in Seq(N) /\ Len(low) = ExplicitNonceLen
        /\ s.nonce = [fixed |-> ctx.iv.fixed, low |-> low]
    BY <1>1, <1>3 DEF NonceNew, WordBytes
  <2>4. low \in Seq(C) /\ Ciphertext(s) \in Seq(C) /\ AuthTag(s) \in Seq(C)
    BY <1>4, <2>3
  <2> HIDE DEF N, C, low, s
  <2>5. /\ Len(r.payload) = ExplicitNonceLen + Len(s.pt) + TagLen
        /\ Slice(r.payload, 0, ExplicitNonceLen) = low
    <3>1. \A p, c, t \in Seq(C) :
            /\ Len(p \o (c \o t)) = Len(p) + Len(c) + Len(t)
            /\ SubSeq(p \o (c \o t), 1, Len(p)) = p
      BY JoinAndCut
    <3>2. /\ Len(low \o body) = Len(low) + Len(Ciphertext(s)) + Len(AuthTag(s))
          /\ SubSeq(low \o body, 1, Len(low)) = low
      BY <2>4, <3>1, Zenon
    <3> QED
      BY <1>4, <2>2, <2>3, <3>2 DEF Slice
  <2>6. OpenPayload(ctx, low \o body, Len(low), MinGcmTls12, s.nonce, s.aad, TRUE) = Ok(s.pt)
    <3>1. MinGcmTls12 \in Int /\ MinGcmTls12 <= Len(low) + TagLen
      BY <1>3, <2>3 DEF MinGcmTls12
    <3> QED
      BY <1>1, <2>4, <3>1, OpenIntact, Zenon
  <2>7. Len(r.payload) - TagLen - ExplicitNonceLen = Len(m.payload)
    BY <1>1, <1>2, <1>3, <2>1, <2>5
  <2>8. GcmTls12Decrypt(ctx, r, seq, TRUE) = into_plain_message(r, Ok(s.pt))
    <3>1. r.payload = low \o body /\ r.typ = m.typ /\ r.version = TLSv1_2
      BY <2>2
    <3>2. s.aad = make_tls12_aad(seq, r.typ, r.version,
                                 Len(r.payload) - TagLen - ExplicitNonceLen)
      BY <1>1, <2>1, <2>7, <3>1
    <3> HIDE DEF r, body
    <3> QED
      BY <2>3, <2>5, <2>6, <3>1, <3>2 DEF GcmTls12Decrypt
  <2>9. into_plain_message(r, Ok(s.pt)) = Ok(m)
    <3>1. r.typ = m.typ /\ s.pt = m.payload
      BY <1>1, <2>1, <2>2
    <3> HIDE DEF r, s
    <3> QED
      BY <1>2, <3>1 DEF into_plain_message, Ok
  <2> HIDE DEF r, s
  <2>10. Decrypt(kind, ctx, r, seq, TRUE) = Ok(m)
    BY <1>6, <2>8, <2>9 DEF Decrypt
  <2> QED
    BY <2>10 DEF r
<1>7. CASE kind = "chacha12"
  <2>1. ~IsTls13(kind)
    BY <1>7 DEF IsTls13
  <2>2. r = [typ |-> m.typ, version |-> TLSv1_2, payload |-> body]
    BY <1>7, <2>1 DEF Encrypt, ChachaTls12Encrypt, SealOf
  <2>3. OpenPayload(ctx, body, 0, MinTagged, s.nonce, s.aad, TRUE) = Ok(s.pt)
    <3>1. MinTagged \in Int /\ MinTagged <= TagLen
      BY <1>3 DEF MinTagged
    <3> QED
      BY <1>8, <3>1, Zenon
  <2>4. ChachaTls12Decrypt(ctx, r, seq, TRUE) = into_plain_message(r, Ok(s.pt))
    <3>1. r.payload = body /\ r.typ = m.typ /\ r.version = TLSv1_2
      BY <2>2
    <3>2. Len(r.payload) - TagLen = Len(m.payload)
      BY <1>1, <1>2, <1>3, <1>5, <2>1, <3>1
    <3>3. s.aad = make_tls12_aad(seq, r.typ, r.version, Len(r.payload) - TagLen)
      BY <1>1, <2>1, <3>1, <3>2
    <3> HIDE DEF r, body, s
    <3> QED
      BY <1>1, <2>3, <3>1, <3>3 DEF ChachaTls12Decrypt
  <2>5. into_plain_message(r, Ok(s.pt)) = Ok(m)
    <3>1. r.typ = m.typ /\ s.pt = m.payload
      BY <1>1, <2>1, <2>2
    <3> HIDE DEF r, s
    <3> QED
      BY <1>2, <3>1 DEF into_plain_message, Ok
  <2> HIDE DEF r, s
  <2>10. Decrypt(kind, ctx, r, seq, TRUE) = Ok(m)
    BY <1>7, <2>4, <2>5 DEF Decrypt
  <2> QED
    BY <2>10 DEF r
<1>9. CASE IsTls13(kind)
  <2>1. r.payload = body
    BY <1>9 DEF Encrypt, GcmTls13Encrypt, ChachaTls13Encrypt, SealOf, IsTls13, Suites
  <2>2. OpenPayload(ctx, body, 0, MinTagged, s.nonce, s.aad, TRUE) = Ok(s.pt)
    <3>1. MinTagged \in Int /\ MinTagged <= TagLen
      BY <1>3 DEF MinTagged
    <3> QED
      BY <1>8, <3>1, Zenon
  <2>3. s.aad = make_tls13_aad(Len(r.payload))
    BY <1>1, <1>2, <1>3, <1>5, <1>9, <2>1
  <2>4. into_tls13_unpadded_message(s.pt) = Ok(m)
    BY <1>1, <1>9, Unpadded
  <2> HIDE DEF r, body, s
  <2>5. OpenPayload(ctx, r.payload, 0, MinTagged, NonceNew(ctx.iv, seq),
                    make_tls13_aad(Len(r.payload)), TRUE) = Ok(s.pt)
    BY <1>1, <2>1, <2>2, <2>3
  <2>6. Ok(s.pt).ok /\ Ok(s.pt).msg = s.pt
    BY DEF Ok
  <2>7. /\ GcmTls13Decrypt(ctx, r, seq, TRUE) = Ok(m)
        /\ ChachaTls13Decrypt(ctx, r, seq, TRUE) = Ok(m)
    BY <2>4, <2>5, <2>6 DEF GcmTls13Decrypt, ChachaTls13Decrypt
  <2> QED
    BY <1>9, <2>7 DEF Decrypt, IsTls13, r
<1> QED
  BY <1>6, <1>7, <1>9 DEF Suites, IsTls13

\* One IV gives two sequence numbers two nonces.
LEMMA NonceInjective ==
  ASSUME NEW iv \in IvType, NEW p \in Word, NEW q \in Word,
         NonceNew(iv, p) = NonceNew(iv, q)
  PROVE  p = q
<1>1. WordBytes(XorWord(iv.low, p)) = WordBytes(XorWord(iv.low, q))
  BY DEF NonceNew
<1>2. 1 \in 1 .. ExplicitNonceLen
  BY LenAssumption
<1>3. NonceCell(XorWord(iv.low, p), 1) = NonceCell(XorWord(iv.low, q), 1)
  BY <1>1, <1>2 DEF WordBytes
<1>4. XorWord(iv.low, p) = XorWord(iv.low, q)
  BY <1>3 DEF NonceCell
<1>5. iv.low \in Word
  BY DEF IvType
<1> QED
  BY <1>4, <1>5, XorAssumption

\* What decrypts under a key and a sequence number is a message that was
\* encrypted under that key and that sequence number, if it was encrypted with
\* this key at all.
LEMMA DecryptAuthentic ==
  ASSUME NEW kind \in Suites, NEW ctx \in CtxType, NEW seq \in Word,
         NEW S, NEW r, r.payload \in Seq(S), NEW ffiOk \in BOOLEAN,
         Decrypt(kind, ctx, r, seq, ffiOk).ok
  PROVE  \E s \in SealsIn(r.payload) :
           /\ s.key = ctx.key
           /\ \A m \in Message, q \in Word :
                s = SealOf(kind, ctx, m, q) =>
                  q = seq /\ Decrypt(kind, ctx, r, seq, ffiOk) = Ok(m)
<1> DEFINE result == Decrypt(kind, ctx, r, seq, ffiOk)
<1>1. \A o : into_plain_message(r, o).ok => o.ok
  BY DEF into_plain_message
<1>2. /\ AreBounds(ExplicitNonceLen, MinGcmTls12) /\ AreBounds(0, MinTagged)
      /\ IsBytes(r.payload)
  BY LenAssumption DEF MinGcmTls12, MinTagged, AreBounds, IsBytes
<1>3. CASE ~IsTls13(kind)
  <2>1. \E s \in SealsIn(r.payload) :
          /\ s.key = ctx.key
          /\ \E len : s.aad = make_tls12_aad(seq, r.typ, r.version, len)
          /\ result = into_plain_message(r, Ok(s.pt))
    <3>1. CASE kind = "gcm12"
      <4> DEFINE n == [fixed |-> ctx.iv.fixed, low |-> Slice(r.payload, 0, ExplicitNonceLen)]
                 a == make_tls12_aad(seq, r.typ, r.version,
                                     Len(r.payload) - TagLen - ExplicitNonceLen)
                 o == OpenPayload(ctx, r.payload, ExplicitNonceLen, MinGcmTls12, n, a, ffiOk)
      <4>1. result = into_plain_message(r, o)
        BY <3>1 DEF Decrypt, GcmTls12Decrypt
      <4> HIDE DEF n, a
      <4>2. o.ok /\ o = OpenPayload(ctx, r.payload, ExplicitNonceLen, MinGcmTls12, n, a, ffiOk)
        BY <1>1, <4>1
      <4> HIDE DEF o
      <4>3. PICK s \in SealsIn(r.payload) :
              s.key = ctx.key /\ s.nonce = n /\ s.aad = a /\ o = Ok(s.pt)
        BY <1>2, <4>2, OpenAuthentic
      <4> QED
        BY <4>1, <4>3 DEF a
    <3>2. CASE kind = "chacha12"
      <4> DEFINE n == NonceNew(ctx.iv, seq)
                 a == make_tls12_aad(seq, r.typ, r.version, Len(r.payload) - TagLen)
                 o == OpenPayload(ctx, r.payload, 0, MinTagged, n, a, ffiOk)
      <4>1. result = into_plain_message(r, o)
        BY <3>2 DEF Decrypt, ChachaTls12Decrypt
      <4> HIDE DEF n, a
      <4>2. o.ok /\ o = OpenPayload(ctx, r.payload, 0, MinTagged, n, a, ffiOk)
        BY <1>1, <4>1
      <4> HIDE DEF o
      <4>3. PICK s \in SealsIn(r.payload) :
              s.key = ctx.key /\ s.nonce = n /\ s.aad = a /\ o = Ok(s.pt)
        BY <1>2, <4>2, OpenAuthentic
      <4> QED
        BY <4>1, <4>3 DEF a
    <3> QED
      BY <1>3, <3>1, <3>2 DEF Suites, IsTls13
  <2>2. PICK s \in SealsIn(r.payload) :
          /\ s.key = ctx.key
          /\ \E len : s.aad = make_tls12_aad(seq, r.typ, r.version, len)
          /\ result = into_plain_message(r, Ok(s.pt))
    BY <2>1
  <2> SUFFICES ASSUME NEW m \in Message, NEW q \in Word, s = SealOf(kind, ctx, m, q)
               PROVE  q = seq /\ result = Ok(m)
    BY <2>2
  <2>3. /\ s.pt = m.payload
        /\ s.aad = make_tls12_aad(q, m.typ, TLSv1_2, Len(m.payload))
    BY <1>3, Tls12SealFields
  <2>4. q = seq /\ r.typ = m.typ
    BY <2>2, <2>3 DEF make_tls12_aad
  <2>5. m = [typ |-> m.typ, payload |-> m.payload]
    BY DEF Message
  <2> QED
    BY <2>2, <2>3, <2>4, <2>5 DEF into_plain_message, Ok
<1>4. CASE IsTls13(kind)
  <2> DEFINE n == NonceNew(ctx.iv, seq)
             a == make_tls13_aad(Len(r.payload))
             o == OpenPayload(ctx, r.payload, 0, MinTagged, n, a, ffiOk)
  <2>1. result = IF o.ok THEN into_tls13_unpadded_message(o.msg) ELSE o
    BY <1>4 DEF Decrypt, GcmTls13Decrypt, ChachaTls13Decrypt, IsTls13
  <2> HIDE DEF n, a
  <2>2. o.ok /\ o = OpenPayload(ctx, r.payload, 0, MinTagged, n, a, ffiOk)
    BY <2>1
  <2> HIDE DEF o
  <2>3. PICK s \in SealsIn(r.payload) : s.key = ctx.key /\ s.nonce = n /\ o = Ok(s.pt)
    BY <1>2, <2>2, OpenAuthentic
  <2>4. result = into_tls13_unpadded_message(s.pt)
    BY <2>1, <2>3 DEF Ok
  <2> SUFFICES ASSUME NEW m \in Message, NEW q \in Word, s = SealOf(kind, ctx, m, q)
               PROVE  q = seq /\ result = Ok(m)
    BY <2>3
  <2>5. s.pt = m.payload \o <<m.typ>> /\ s.nonce = NonceNew(ctx.iv, q)
    BY <1>4, Tls13SealFields
  <2>6. q = seq
    BY <2>3, <2>5, NonceInjective DEF n, CtxType
  <2>7. result = Ok(m)
    BY <2>4, <2>5, Unpadded
  <2> QED
    BY <2>6, <2>7
<1> QED
  BY <1>3, <1>4

\* No payload makes a decrypter slice out of range.
LEMMA DecryptNoPanic ==
  ASSUME NEW kind \in Suites, NEW ctx, NEW seq, NEW S, NEW r, r.payload \in Seq(S),
         NEW ffiOk \in BOOLEAN, ~Decrypt(kind, ctx, r, seq, ffiOk).ok
  PROVE  Decrypt(kind, ctx, r, seq, ffiOk).err # "panic"
<1>1. Len(r.payload) \in Nat /\ TagLen \in Nat /\ ExplicitNonceLen \in Nat
  BY LenAssumption, LenProperties
<1>2. ASSUME NEW start \in Nat, NEW n, NEW a,
             NEW min, min = start + TagLen,
             NEW o, o = OpenPayload(ctx, r.payload, start, min, n, a, ffiOk)
      PROVE  o.ok \/ (~o.ok /\ o.err # "panic")
  <2>1. ~(Len(r.payload) < min) => InRange(r.payload, start, Len(r.payload) - TagLen)
    BY <1>1, <1>2 DEF InRange
  <2> QED
    BY <1>2, <2>1 DEF OpenPayload, Ok, Err
<1>3. ASSUME NEW pt, ~into_tls13_unpadded_message(pt).ok
      PROVE  into_tls13_unpadded_message(pt).err # "panic"
  BY <1>3 DEF into_tls13_unpadded_message, Ok, Err
<1>4. ASSUME NEW o, o.ok \/ (~o.ok /\ o.err # "panic"), ~into_plain_message(r, o).ok
      PROVE  into_plain_message(r, o).err # "panic"
  BY <1>4 DEF into_plain_message, Ok
<1>5. MinGcmTls12 = ExplicitNonceLen + TagLen /\ MinTagged = 0 + TagLen
  BY <1>1 DEF MinGcmTls12, MinTagged
<1>6. CASE kind = "gcm12"
  BY <1>1, <1>2, <1>4, <1>5, <1>6 DEF Decrypt, GcmTls12Decrypt
<1>7. CASE kind = "chacha12"
  BY <1>1, <1>2, <1>4, <1>5, <1>7 DEF Decrypt, ChachaTls12Decrypt
<1>8. CASE IsTls13(kind)
  BY <1>1, <1>2, <1>3, <1>5, <1>8 DEF Decrypt, GcmTls13Decrypt, ChachaTls13Decrypt, IsTls13
<1> QED
  BY <1>6, <1>7, <1>8 DEF Suites, IsTls13

USE DEF Suites

-----------------------------------------------------------------------------
(* Facts about the records in flight                                       *)

\* The cipher object of an installed key is well formed.
LEMMA CtxTyped ==
  ASSUME TypeOK, NEW e \in 1 .. Len(ivs)
  PROVE  Ctx(e) \in CtxType /\ Ctx(e).key = e
<1>1. ivs[e] \in IvType /\ e \in Nat
  BY DEF TypeOK
<1> QED
  BY <1>1 DEF Ctx, CtxType

\* What the history holds of each record.
LEMMA SentTyped ==
  ASSUME TypeOK, WireInv
  PROVE  /\ Len(sent) \in Nat
         /\ DOMAIN sent = 1 .. Len(sent)
         /\ \A k \in DOMAIN sent :
              /\ sent[k] \in SentRecord
              /\ sent[k].msg \in Message
              /\ sent[k].seq \in Word
              /\ sent[k].epoch \in 1 .. Len(ivs)
              /\ wire[k] = Encrypted(sent[k])
              /\ SealAt(k).key = sent[k].epoch
<1>1. Len(sent) \in Nat /\ DOMAIN sent = 1 .. Len(sent)
  BY LenProperties DEF TypeOK
<1>2. ASSUME NEW k \in DOMAIN sent
      PROVE  /\ sent[k] \in SentRecord
             /\ sent[k].epoch \in 1 .. Len(ivs)
             /\ wire[k] = Encrypted(sent[k])
  <2>1. sent[k] \in SentRecord
    BY <1>1, ElementOfSeq DEF TypeOK
  <2> QED
    BY <1>1, <2>1 DEF WireInv
<1>3. ASSUME NEW k \in DOMAIN sent
      PROVE  sent[k].msg \in Message /\ sent[k].seq \in Word
  BY <1>2 DEF SentRecord
<1>4. ASSUME NEW k \in DOMAIN sent
      PROVE  SealAt(k).key = sent[k].epoch
  <2>1. Ctx(sent[k].epoch).key = sent[k].epoch
    BY DEF Ctx
  <2>2. suite \in Suites
    BY DEF TypeOK
  <2> QED
    BY <2>1, <2>2 DEF SealAt, SealOf, Tls12Seal, Tls13Seal
<1> QED
  BY <1>1, <1>2, <1>3, <1>4

\* Whatever the network delivers, the seals in it are seals of records sent.
LEMMA InboundSeals ==
  ASSUME TypeOK, WireInv, NEW r \in Inbound
  PROVE  /\ \E S : r.payload \in Seq(S)
         /\ \A s \in SealsIn(r.payload) : \E i \in DOMAIN sent : s = SealAt(i)
<1>0. DOMAIN wire = DOMAIN sent
  BY SentTyped DEF TypeOK
<1>1. PICK x \in Starts, y \in Ends :
        r.payload = x \o y \/ r.payload = Append(x, Junk) \o y
  BY DEF Inbound, Damaged
<1>2. ASSUME NEW k \in DOMAIN sent
      PROVE  wire[k].payload \in Seq(CellsFor(SealAt(k)))
  <2>1. /\ sent[k].msg \in Message /\ sent[k].seq \in Word
        /\ sent[k].epoch \in 1 .. Len(ivs) /\ suite \in Suites
    BY SentTyped DEF TypeOK
  <2>2. Ctx(sent[k].epoch) \in CtxType
    BY <2>1, CtxTyped
  <2>3. wire[k] = Encrypted(sent[k])
    BY SentTyped
  <2> QED
    BY <2>1, <2>2, <2>3, EncryptCells DEF Encrypted, SealAt
<1>3. PICK i \in DOMAIN sent : \E k \in 0 .. Len(wire[i].payload) :
        x = SubSeq(wire[i].payload, 1, k)
  BY <1>0 DEF Starts
<1>4. PICK j \in DOMAIN sent : \E k \in 1 .. Len(wire[j].payload) + 1 :
        y = SubSeq(wire[j].payload, k, Len(wire[j].payload))
  BY <1>0 DEF Ends
<1> DEFINE a == wire[i].payload
           b == wire[j].payload
           C == CellsFor(SealAt(i)) \cup CellsFor(SealAt(j)) \cup {Junk}
<1>5. a \in Seq(C) /\ b \in Seq(C) /\ Junk \in C
  BY <1>2
<1> HIDE DEF C
<1>6. x \in Seq(C) /\ y \in Seq(C)
  BY <1>3, <1>4, <1>5
<1>7. Append(x, Junk) \in Seq(C)
  BY <1>5, <1>6
<1>8. r.payload \in Seq(C)
  <2>1. \A u, v \in Seq(C) : u \o v \in Seq(C)
    OBVIOUS
  <2> QED
    BY <1>1, <1>6, <1>7, <2>1, Zenon
<1>9. \A s \in SealsIn(r.payload) : s = SealAt(i) \/ s = SealAt(j)
  BY <1>8, SealsOfCells DEF C
<1> QED
  BY <1>8, <1>9

\* What decrypts is the message that is due: the one sent under the reader's
\* key and sequence number, which is the one after the last delivered.
LEMMA AcceptsDue ==
  ASSUME IInv, NEW r \in Inbound, NEW ffiOk \in BOOLEAN,
         Decrypt(suite, Ctx(epoch), r, read_seq, ffiOk).ok
  PROVE  LET n == Len(delivered) + 1 IN
         /\ n \in DOMAIN sent
         /\ sent[n].epoch = epoch /\ sent[n].seq = read_seq
         /\ Decrypt(suite, Ctx(epoch), r, read_seq, ffiOk) = Ok(sent[n].msg)
<1> DEFINE n == Len(delivered)
           result == Decrypt(suite, Ctx(epoch), r, read_seq, ffiOk)
<1>1. TypeOK /\ WireInv /\ OrderInv /\ ChainInv /\ ReaderInv
  BY DEF IInv
<1>2. suite \in Suites /\ Ctx(epoch) \in CtxType /\ Ctx(epoch).key = epoch /\ read_seq \in Word
  BY <1>1, CtxTyped DEF TypeOK
<1>3. PICK S : r.payload \in Seq(S)
  BY <1>1, InboundSeals
<1>4. PICK s \in SealsIn(r.payload) :
        /\ s.key = epoch
        /\ \A m \in Message, q \in Word :
             s = SealOf(suite, Ctx(epoch), m, q) => q = read_seq /\ result = Ok(m)
  BY <1>2, <1>3, DecryptAuthentic
<1>5. PICK i \in DOMAIN sent : s = SealAt(i)
  BY <1>1, InboundSeals
<1>6. sent[i].epoch \in 1 .. Len(ivs) /\ sent[i].msg \in Message /\ sent[i].seq \in Word
  BY <1>1, SentTyped
<1>7. sent[i].epoch = epoch
  BY <1>1, <1>4, <1>5, SentTyped
<1>8. sent[i].seq = read_seq /\ result = Ok(sent[i].msg)
  BY <1>4, <1>5, <1>6, <1>7 DEF SealAt
<1>9. /\ n \in Nat /\ n <= Len(sent) /\ Len(sent) \in Nat
      /\ DOMAIN sent = 1 .. Len(sent)
      /\ \A k \in DOMAIN sent : sent[k].epoch \in Nat /\ sent[k].seq \in Nat
  <2>1. /\ \A k \in DOMAIN sent : sent[k].epoch \in 1 .. Len(ivs) /\ sent[k].seq \in Word
        /\ Len(sent) \in Nat /\ DOMAIN sent = 1 .. Len(sent)
    BY <1>1, SentTyped
  <2>2. n \in Nat /\ n <= Len(sent)
    BY <1>1, LenProperties DEF TypeOK, ReaderInv, DeliveredIsPrefix
  <2> QED
    BY <2>1, <2>2 DEF Word
<1>10. ~(i <= n)
  <2> SUFFICES ASSUME i <= n PROVE FALSE
    OBVIOUS
  <2>1. n \in DOMAIN sent /\ delivered # <<>>
    BY <1>9
  <2>2. epoch = NextEpoch(n) /\ read_seq = NextSeq(n)
    BY <1>1, <2>1 DEF ReaderInv
  <2>3. Before(sent[n].epoch, sent[n].seq, epoch, read_seq)
    BY <1>9, <2>1, <2>2 DEF Before, NextEpoch, NextSeq
  <2>4. CASE i = n
    BY <1>7, <1>8, <1>9, <2>1, <2>3, <2>4 DEF Before
  <2>5. CASE i < n
    <3>1. Before(sent[i].epoch, sent[i].seq, sent[n].epoch, sent[n].seq)
      BY <1>1, <2>1, <2>5 DEF OrderInv
    <3> QED
      BY <1>7, <1>8, <1>9, <2>1, <2>3, <3>1 DEF Before
  <2> QED
    BY <1>9, <2>4, <2>5
<1>11. n + 1 \in DOMAIN sent
  BY <1>9, <1>10
<1>12. sent[n + 1].epoch = epoch /\ sent[n + 1].seq = read_seq
  <2>1. CASE n = 0
    <3>1. delivered = <<>> /\ sent # <<>>
      BY <1>1, <1>11, <2>1 DEF TypeOK
    <3> QED
      BY <1>1, <2>1, <3>1 DEF ReaderInv, ChainInv
  <2>2. CASE n # 0
    <3>1. delivered # <<>> /\ n \in DOMAIN sent
      BY <1>9, <2>2
    <3> QED
      BY <1>1, <1>11, <3>1 DEF ReaderInv, ChainInv
  <2> QED
    BY <2>1, <2>2
<1>13. i = n + 1
  <2>1. ~(n + 1 < i)
    <3> SUFFICES ASSUME n + 1 < i PROVE FALSE
      OBVIOUS
    <3>1. Before(sent[n + 1].epoch, sent[n + 1].seq, sent[i].epoch, sent[i].seq)
      BY <1>1, <1>11 DEF OrderInv
    <3> QED
      BY <1>7, <1>8, <1>9, <1>12, <3>1 DEF Before
  <2> QED
    BY <1>9, <1>10, <2>1
<1> QED
  BY <1>7, <1>8, <1>11, <1>13

-----------------------------------------------------------------------------
(* The invariant                                                           *)

\* The limit the writer acts on is a sequence number below the hard limit, and
\* no higher than the one the suite names.
LEMMA MaxTyped ==
  /\ write_seq_max \in Nat \ {0}
  /\ write_seq_max <= confidentiality_limit(suite)
  /\ write_seq_max + MaxFragments < SeqHardLimit
<1>1. confidentiality_limit(suite) \in Nat \ {0}
  BY RecordAssumption DEF confidentiality_limit
<1>2. SeqHardLimit \in Nat
  BY RecordAssumption, LenAssumption DEF Word
<1> QED
  BY <1>1, <1>2, RecordAssumption DEF write_seq_max

\* The initial states satisfy the invariant.
LEMMA InitIInv == Init => IInv
<1> SUFFICES ASSUME Init PROVE IInv
  OBVIOUS
<1>1. PICK iv \in Ivs : ivs = <<iv>>
  BY DEF Init
<1>2. iv \in IvType
  BY RecordAssumption
<1>3. ivs \in Seq(IvType) /\ ivs # <<>> /\ Len(ivs) = 1
  BY <1>1, <1>2
<1>4. 0 \in Word
  BY LenAssumption DEF Word
<1>5. TypeOK
  BY <1>3, <1>4 DEF Init, TypeOK
<1>6. WireInv
  <2>1. Len(sent) = 0 /\ DOMAIN sent = {} /\ wire = <<>>
    BY DEF Init
  <2> QED
    BY <2>1 DEF WireInv
<1>7. OrderInv /\ ChainInv
  BY <1>3 DEF Init, OrderInv, ChainInv
<1>8. ReaderInv /\ NoPanic
  BY DEF Init, ReaderInv, NoPanic, DeliveredIsPrefix
<1>9. LimitInv
  <2>1. write_seq_max \in Nat /\ write_seq = 0 /\ wstate = "open"
    BY MaxTyped DEF Init
  <2>2. DOMAIN sent = {}
    BY DEF Init
  <2> QED
    BY <2>1, <2>2 DEF LimitInv
<1> QED
  BY <1>5, <1>6, <1>7, <1>8, <1>9 DEF IInv

\* Appending to a function that is a sequence of length n.
LEMMA AppendPointwise ==
  ASSUME NEW n \in Nat, NEW w, w = [k \in 1 .. n |-> w[k]], NEW e, NEW v, v = Append(w, e)
  PROVE  /\ v = [k \in 1 .. n + 1 |-> v[k]]
         /\ \A k \in 1 .. n : v[k] = w[k]
         /\ v[n + 1] = e
<1> DEFINE S == {w[k] : k \in 1 .. n} \cup {e}
<1>1. \A k \in 1 .. n : w[k] \in S
  OBVIOUS
<1>2. e \in S
  OBVIOUS
<1> HIDE DEF S
<1>3. w \in Seq(S) /\ Len(w) = n
  BY <1>1
<1> QED
  BY <1>2, <1>3

\* The invariant but for the limit.
PlaceInv == TypeOK /\ WireInv /\ OrderInv /\ ChainInv /\ ReaderInv /\ NoPanic

\* A record put on the wire, with or without a key change, keeps the places of
\* records, writer and reader in step.
LEMMA EmitPlaces ==
  ASSUME IInv, NEW m \in Messages, Emit(m), wstate # "panicked",
         wstate' \in {"open", "refresh", "closed"}
  PROVE  PlaceInv'
<1> DEFINE n == Len(sent)
           t == [epoch |-> Len(ivs), seq |-> write_seq, msg |-> m]
<1>1. TypeOK /\ WireInv /\ OrderInv /\ ChainInv /\ ReaderInv /\ NoPanic
  BY DEF IInv
<1>2. /\ n \in Nat /\ DOMAIN sent = 1 .. n
      /\ \A k \in 1 .. n :
           /\ sent[k] \in SentRecord
           /\ sent[k].seq \in Word
           /\ sent[k].epoch \in 1 .. Len(ivs)
  BY <1>1, SentTyped
<1>3. /\ ivs \in Seq(IvType) /\ Len(ivs) \in Nat \ {0}
      /\ write_seq \in Word /\ write_seq \in Nat /\ write_seq + 1 \in Word /\ 0 \in Word
  <2>1. ivs \in Seq(IvType) /\ ivs # <<>> /\ write_seq \in Word
    BY <1>1 DEF TypeOK
  <2>2. Len(ivs) \in Nat /\ Len(ivs) # 0
    BY <2>1, EmptySeq, LenProperties
  <2>3. write_seq < SeqHardLimit /\ SeqHardLimit \in Word
    BY RecordAssumption DEF Emit
  <2> QED
    BY <2>1, <2>2, <2>3, LenAssumption DEF Word
<1>4. /\ IsKeyUpdate(m) => Len(ivs') = Len(ivs) + 1 /\ write_seq' = 0
      /\ ~IsKeyUpdate(m) => Len(ivs') = Len(ivs) /\ write_seq' = write_seq + 1
      /\ ivs' \in Seq(IvType) /\ ivs' # <<>>
      /\ \A e \in 1 .. Len(ivs) : ivs'[e] = ivs[e]
  <2>1. CASE IsKeyUpdate(m)
    <3>1. PICK iv \in Ivs : ivs' = Append(ivs, iv)
      BY <2>1 DEF Emit
    <3>2. iv \in IvType
      BY RecordAssumption
    <3> QED
      BY <1>3, <2>1, <3>1, <3>2 DEF Emit
  <2>2. CASE ~IsKeyUpdate(m)
    BY <1>1, <2>2 DEF Emit, TypeOK
  <2> QED
    BY <2>1, <2>2
<1>5. /\ t \in SentRecord
      /\ sent' = Append(sent, t)
      /\ sent' \in Seq(SentRecord)
      /\ Len(sent') = n + 1 /\ DOMAIN sent' = 1 .. n + 1
      /\ \A k \in 1 .. n : sent'[k] = sent[k]
      /\ sent'[n + 1] = t
  <2>1. t \in SentRecord
    BY <1>3, RecordAssumption DEF SentRecord
  <2>2. sent' = Append(sent, t) /\ sent \in Seq(SentRecord)
    BY <1>1 DEF Emit, TypeOK
  <2> HIDE DEF t
  <2> QED
    BY <2>1, <2>2
<1>6. /\ suite' = suite /\ wstate # "panicked"
      /\ epoch' = epoch /\ read_seq' = read_seq /\ rstate' = rstate /\ delivered' = delivered
  BY DEF Emit, rvars
<1>7. /\ \A e \in 1 .. Len(ivs) : Ctx(e)' = Ctx(e)
      /\ \A x : IsKeyUpdate(x)' = IsKeyUpdate(x)
  BY <1>4, <1>6 DEF Ctx, IsKeyUpdate
<1>8. \A k \in 1 .. n : NextEpoch(k)' = NextEpoch(k) /\ NextSeq(k)' = NextSeq(k)
  BY <1>5, <1>7 DEF NextEpoch, NextSeq
<1>10. LET e == Encrypt(suite, Ctx(Len(ivs)), m, write_seq) IN
       /\ wire' = [k \in 1 .. n + 1 |-> wire'[k]]
       /\ \A k \in 1 .. n : wire'[k] = wire[k]
       /\ wire'[n + 1] = e
  <2>1. wire = [k \in 1 .. n |-> wire[k]]
    BY <1>1 DEF TypeOK
  <2>2. wire' = Append(wire, Encrypt(suite, Ctx(Len(ivs)), m, write_seq))
    BY DEF Emit
  <2> QED
    BY <1>2, <2>1, <2>2, AppendPointwise
<1>9. WireInv'
  <2>1. \A k \in DOMAIN sent' : sent'[k].epoch \in 1 .. Len(ivs')
    <3>1. Len(ivs') \in Nat /\ Len(ivs) <= Len(ivs') /\ t.epoch = Len(ivs)
      BY <1>3, <1>4
    <3> HIDE DEF t
    <3>2. ASSUME NEW k \in 1 .. n + 1 PROVE sent'[k].epoch \in 1 .. Len(ivs')
      <4>1. CASE k \in 1 .. n
        BY <1>2, <1>3, <1>5, <3>1, <4>1
      <4>2. CASE k = n + 1
        BY <1>3, <1>5, <3>1, <4>2
      <4> QED
        BY <1>2, <4>1, <4>2
    <3> QED
      BY <1>5, <3>2
  <2> DEFINE e == Encrypt(suite, Ctx(Len(ivs)), m, write_seq)
  <2>4. ASSUME NEW k \in 1 .. n PROVE Encrypted(sent[k])' = Encrypted(sent[k])
    <3>1. sent'[k] = sent[k] /\ sent[k].epoch \in 1 .. Len(ivs)
      BY <1>2, <1>5
    <3>2. ivs'[sent[k].epoch] = ivs[sent[k].epoch]
      BY <1>4, <3>1
    <3> QED
      BY <1>6, <3>1, <3>2 DEF Encrypted, Ctx
  <2>5. ASSUME NEW k, k = n + 1 PROVE Encrypted(sent[k])' = e
    <3>1. sent'[k].epoch = Len(ivs) /\ sent'[k].seq = write_seq /\ sent'[k].msg = m
      BY <1>5, <2>5
    <3>2. ivs'[Len(ivs)] = ivs[Len(ivs)]
      BY <1>3, <1>4
    <3> QED
      BY <1>6, <3>1, <3>2 DEF Encrypted, Ctx
  <2>6. ASSUME NEW k \in DOMAIN sent' PROVE wire'[k] = Encrypted(sent[k])'
    <3>1. CASE k \in 1 .. n
      BY <1>1, <1>2, <1>10, <2>4, <3>1 DEF WireInv
    <3>2. CASE k = n + 1
      BY <1>10, <2>5, <3>2
    <3> QED
      BY <1>2, <1>5, <3>1, <3>2
  <2> QED
    BY <2>1, <2>6 DEF WireInv
<1>11. TypeOK'
  <2>1. /\ wire' = [k \in 1 .. Len(sent') |-> wire'[k]]
        /\ epoch' \in 1 .. Len(ivs')
        /\ write_seq' \in Word
    BY <1>1, <1>3, <1>4, <1>5, <1>6, <1>10 DEF TypeOK
  <2> QED
    BY <1>1, <1>4, <1>5, <1>6, <2>1 DEF TypeOK
<1>12. Before(Len(ivs), write_seq, Len(ivs'), write_seq')
  BY <1>3, <1>4 DEF Before
<1>13. OrderInv'
  <2>1. ASSUME NEW i \in 1 .. n
        PROVE  /\ Before(sent'[i].epoch, sent'[i].seq, Len(ivs), write_seq)
               /\ Before(sent'[i].epoch, sent'[i].seq, Len(ivs'), write_seq')
    <3>1. Before(sent[i].epoch, sent[i].seq, Len(ivs), write_seq)
      BY <1>1, <1>2 DEF OrderInv
    <3>2. sent[i].epoch \in Nat /\ sent[i].seq \in Nat /\ Len(ivs') \in Nat /\ write_seq' \in Nat
      BY <1>2, <1>3, <1>4, <1>11 DEF Word, TypeOK
    <3>3. Before(sent[i].epoch, sent[i].seq, Len(ivs'), write_seq')
      BY <1>3, <1>12, <3>1, <3>2 DEF Before
    <3> QED
      BY <1>5, <3>1, <3>3
  <2>2. sent'[n + 1].epoch = Len(ivs) /\ sent'[n + 1].seq = write_seq
    BY <1>5
  <2>3. ASSUME NEW i \in 1 .. n + 1, NEW j \in 1 .. n + 1, i < j
        PROVE  Before(sent'[i].epoch, sent'[i].seq, sent'[j].epoch, sent'[j].seq)
    <3>1. CASE j \in 1 .. n
      <4>1. i \in 1 .. n
        BY <1>2, <2>3, <3>1
      <4> QED
        BY <1>1, <1>2, <1>5, <2>3, <3>1, <4>1 DEF OrderInv
    <3>2. CASE j = n + 1
      <4>1. i \in 1 .. n
        BY <1>2, <2>3, <3>2
      <4> QED
        BY <2>1, <2>2, <3>2, <4>1
    <3> QED
      BY <1>2, <3>1, <3>2
  <2>4. ASSUME NEW i \in 1 .. n + 1
        PROVE  Before(sent'[i].epoch, sent'[i].seq, Len(ivs'), write_seq')
    <3>1. CASE i = n + 1
      BY <1>12, <2>2, <3>1
    <3> QED
      BY <1>2, <2>1, <3>1
  <2> QED
    BY <1>5, <2>3, <2>4 DEF OrderInv, Before
<1>14. ChainInv'
  <2>1. sent' # <<>>
    BY <1>2, <1>5
  <2>2. sent'[1].epoch = 1 /\ sent'[1].seq = 0
    <3>1. CASE n = 0
      <4>1. sent = <<>>
        BY <1>1, <3>1 DEF TypeOK
      <4> QED
        BY <1>1, <1>5, <1>6, <3>1, <4>1 DEF ChainInv
    <3>2. CASE n # 0
      <4>1. 1 \in 1 .. n /\ sent # <<>>
        BY <1>2, <3>2
      <4> QED
        BY <1>1, <1>5, <4>1 DEF ChainInv
    <3> QED
      BY <3>1, <3>2
  <2>3. ASSUME NEW k, k = n + 1
        PROVE  Len(ivs') = NextEpoch(k)' /\ write_seq' = NextSeq(k)'
    <3>1. sent'[k].epoch = Len(ivs) /\ sent'[k].seq = write_seq /\ sent'[k].msg = m
      BY <1>5, <2>3
    <3> QED
      BY <1>4, <1>7, <3>1 DEF NextEpoch, NextSeq
  <2>4. ASSUME NEW i \in 1 .. n + 1, i + 1 \in 1 .. n + 1
        PROVE  sent'[i + 1].epoch = NextEpoch(i)' /\ sent'[i + 1].seq = NextSeq(i)'
    <3>1. i \in 1 .. n
      BY <1>2, <2>4
    <3>2. CASE i + 1 \in 1 .. n
      BY <1>1, <1>2, <1>5, <1>8, <3>1, <3>2 DEF ChainInv
    <3>3. CASE i = n
      <4>1. sent # <<>>
        BY <1>2, <3>1
      <4>2. Len(ivs) = NextEpoch(i) /\ write_seq = NextSeq(i)
        BY <1>1, <1>6, <3>3, <4>1 DEF ChainInv
      <4>3. sent'[i + 1].epoch = Len(ivs) /\ sent'[i + 1].seq = write_seq
        BY <1>5, <3>3
      <4> QED
        BY <1>8, <3>1, <4>2, <4>3
    <3> QED
      BY <1>2, <2>4, <3>1, <3>2, <3>3
  <2> QED
    BY <1>5, <2>1, <2>2, <2>3, <2>4 DEF ChainInv
<1>15. ReaderInv'
  <2>1. /\ Len(delivered) \in Nat /\ Len(delivered) <= n
        /\ DOMAIN delivered = 1 .. Len(delivered)
        /\ \A i \in DOMAIN delivered : delivered[i] = sent[i].msg
    BY <1>1, LenProperties DEF TypeOK, ReaderInv, DeliveredIsPrefix
  <2>2. DeliveredIsPrefix'
    BY <1>2, <1>5, <1>6, <2>1 DEF DeliveredIsPrefix
  <2>3. CASE delivered = <<>>
    BY <1>1, <1>6, <2>2, <2>3 DEF ReaderInv
  <2>4. CASE delivered # <<>>
    <3>0. Len(delivered) # 0
      <4>1. delivered \in Seq(Message)
        BY <1>1 DEF TypeOK
      <4> QED
        BY <2>4, <4>1, EmptySeq
    <3>1. PICK k \in 1 .. n : k = Len(delivered)
      <4>1. n \in Nat
        BY <1>2
      <4>2. Len(delivered) \in 1 .. n
        BY <2>1, <3>0, <4>1
      <4> QED
        BY <4>2
    <3>2. epoch = NextEpoch(k) /\ read_seq = NextSeq(k)
      BY <1>1, <2>4, <3>1 DEF ReaderInv
    <3>3. epoch' = NextEpoch(k)' /\ read_seq' = NextSeq(k)'
      BY <1>6, <1>8, <3>2
    <3>4. Len(delivered') = k
      BY <1>6, <3>1
    <3> QED
      BY <1>6, <2>2, <2>4, <3>3, <3>4 DEF ReaderInv
  <2> QED
    BY <2>3, <2>4
<1> QED
  BY <1>1, <1>6, <1>9, <1>11, <1>13, <1>14, <1>15 DEF PlaceInv, NoPanic

\* What a step that sends leaves in the records sent: those that were there, and
\* the new one at the writer's place.
LEMMA EmitSent ==
  ASSUME IInv, NEW m \in Messages, Emit(m)
  PROVE  /\ suite' = suite /\ write_seq_max' = write_seq_max
         /\ write_seq' = IF IsKeyUpdate(m) THEN 0 ELSE write_seq + 1
         /\ \A i \in DOMAIN sent : i \in DOMAIN sent' /\ sent'[i] = sent[i]
         /\ \E n \in DOMAIN sent' : sent'[n].msg = m /\ sent'[n].seq = write_seq
         /\ \A i \in DOMAIN sent' :
              (i \in DOMAIN sent /\ sent'[i] = sent[i]) \/ sent'[i].seq = write_seq
<1> DEFINE t == [epoch |-> Len(ivs), seq |-> write_seq, msg |-> m]
<1>1. suite' = suite /\ write_seq_max' = write_seq_max
  BY DEF Emit, write_seq_max, confidentiality_limit
<1>2. sent' = Append(sent, t) /\ t.seq = write_seq /\ t.msg = m
  BY DEF Emit
<1>3. sent \in Seq(SentRecord)
  BY DEF IInv, TypeOK
<1> HIDE DEF t
<1>4. sent \in Seq(SentRecord \cup {t})
  BY <1>3
<1>5. \A i \in DOMAIN sent' : (i \in DOMAIN sent /\ sent'[i] = sent[i]) \/ sent'[i] = t
  BY <1>2, <1>4
<1>6. \A i \in DOMAIN sent : i \in DOMAIN sent' /\ sent'[i] = sent[i]
  BY <1>2, <1>4
<1>7. Len(sent) + 1 \in DOMAIN sent' /\ sent'[Len(sent) + 1] = t
  BY <1>2, <1>4
<1>8. write_seq' = IF IsKeyUpdate(m) THEN 0 ELSE write_seq + 1
  BY DEF Emit
<1> QED
  BY <1>1, <1>2, <1>5, <1>6, <1>7, <1>8

\* What each way of sending has in common: the writer stays open only below its
\* limit, with new keys or after the warning, and waits for new keys only
\* within one write.
KeepsLimit(m) ==
  /\ Emit(m)
  /\ wstate \in {"open", "refresh"}
  /\ wstate' \in {"open", "refresh", "closed"}
  /\ wstate' = "open" =>
       \/ IsKeyUpdate(m)
       \/ wstate = "open" /\ write_seq # write_seq_max
       \/ wstate = "open" /\ m = Warning /\ ~IsTls13(suite)
  /\ wstate' = "refresh" =>
       IsTls13(suite) /\ (wstate = "open" \/ write_seq < write_seq_max + MaxFragments)

\* Once a warning has stepped over the limit it stays so, and TLS 1.2 never
\* waits for new keys.
LEMMA EmitPassed ==
  ASSUME IInv, NEW m \in Messages, KeepsLimit(m), LimitPassed
  PROVE  LimitInv'
<1>1. Emit(m)
  BY DEF KeepsLimit
<1>2. /\ suite' = suite /\ write_seq_max' = write_seq_max
      /\ \A i \in DOMAIN sent : i \in DOMAIN sent' /\ sent'[i] = sent[i]
  BY <1>1, EmitSent
<1>3. ~IsTls13(suite) /\ ~IsTls13(suite')
  BY <1>2 DEF LimitPassed, IsTls13
<1>4. PICK i \in DOMAIN sent : sent[i].msg = Warning /\ sent[i].seq = write_seq_max
  BY DEF LimitPassed
<1>5. LimitPassed'
  BY <1>2, <1>3, <1>4 DEF LimitPassed
<1>6. wstate' # "refresh"
  BY <1>3 DEF KeepsLimit
<1> QED
  BY <1>5, <1>6 DEF LimitInv

\* A record sent at or below the limit leaves every record so, and the writer,
\* unless it is the warning that steps over it.
LEMMA EmitWithin ==
  ASSUME IInv, NEW m \in Messages, KeepsLimit(m), ~LimitPassed
  PROVE  LimitInv'
<1>0. Emit(m) /\ wstate \in {"open", "refresh"} /\ wstate' \in {"open", "refresh", "closed"}
  BY DEF KeepsLimit
<1>1. /\ write_seq_max \in Nat /\ MaxFragments \in Nat \ {0}
      /\ write_seq \in Nat
  BY MaxTyped, RecordAssumption, LenAssumption DEF IInv, TypeOK, Word
<1>2. /\ wstate = "open" => write_seq <= write_seq_max
      /\ write_seq <= write_seq_max + MaxFragments
      /\ \A i \in DOMAIN sent : sent[i].seq <= write_seq_max + MaxFragments
  BY <1>0, <1>1 DEF IInv, LimitInv
<1>3. /\ suite' = suite /\ write_seq_max' = write_seq_max
      /\ write_seq' = IF IsKeyUpdate(m) THEN 0 ELSE write_seq + 1
      /\ \E n \in DOMAIN sent' : sent'[n].msg = m /\ sent'[n].seq = write_seq
      /\ \A i \in DOMAIN sent' :
           (i \in DOMAIN sent /\ sent'[i] = sent[i]) \/ sent'[i].seq = write_seq
  BY <1>0, EmitSent
<1>4. \A i \in DOMAIN sent' : sent'[i].seq <= write_seq_max' + MaxFragments
  BY <1>2, <1>3
<1>5. wstate' = "refresh" => IsTls13(suite') /\ write_seq' <= write_seq_max' + MaxFragments
  <2>1. wstate' = "refresh" => write_seq' <= write_seq_max' + MaxFragments
    BY <1>0, <1>1, <1>2, <1>3 DEF KeepsLimit
  <2> QED
    BY <1>3, <2>1 DEF KeepsLimit, IsTls13
<1>6. CASE wstate' = "open" => write_seq' <= write_seq_max'
  BY <1>4, <1>5, <1>6 DEF LimitInv
<1>7. CASE wstate' = "open" /\ ~(write_seq' <= write_seq_max')
  <2>1. write_seq = write_seq_max /\ m = Warning /\ ~IsTls13(suite)
    BY <1>1, <1>2, <1>3, <1>7 DEF KeepsLimit
  <2>2. LimitPassed'
    BY <1>3, <2>1 DEF LimitPassed, IsTls13
  <2> QED
    BY <1>5, <2>2 DEF LimitInv
<1> QED
  BY <1>6, <1>7

\* A record sent so keeps the invariant.
LEMMA EmitIInv ==
  ASSUME IInv, NEW m \in Messages, KeepsLimit(m)
  PROVE  IInv'
<1>1. LimitInv'
  BY EmitPassed, EmitWithin
<1>2. PlaceInv'
  BY EmitPlaces DEF KeepsLimit
<1> QED
  BY <1>1, <1>2 DEF IInv, PlaceInv

\* The ways the application's and the handshake's messages are sent.
Sending(m) == Send(m) \/ SendAlert(m) \/ SendRest(m)

\* Each of them puts the message, or close_notify in its place, on the wire.
LEMMA SendingEmits ==
  ASSUME NEW m \in Messages, Sending(m)
  PROVE  \E o \in {m, CloseNotify} : Emit(o)
BY DEF Sending, Send, SendAlert, SendRest

\* Sending keeps the invariant.
LEMMA SendIInv ==
  ASSUME IInv, NEW m \in Messages, Sending(m)
  PROVE  IInv'
<1>1. CASE Send(m)
  <2>1. wstate = "open" /\ CloseNotify \in Messages
    BY <1>1, RecordAssumption DEF Send
  <2>2. CASE write_seq # write_seq_max /\ Emit(m) /\ UNCHANGED wstate
    <3>1. KeepsLimit(m)
      BY <2>1, <2>2 DEF KeepsLimit
    <3> QED
      BY <3>1, EmitIInv
  <2>3. CASE write_seq = write_seq_max /\ IsTls13(suite) /\ Emit(m) /\ wstate' = "refresh"
    <3>1. KeepsLimit(m)
      BY <2>1, <2>3 DEF KeepsLimit
    <3> QED
      BY <3>1, EmitIInv
  <2>4. CASE write_seq = write_seq_max /\ ~IsTls13(suite) /\ Emit(CloseNotify) /\ wstate' = "closed"
    <3>1. KeepsLimit(CloseNotify)
      BY <2>1, <2>4 DEF KeepsLimit
    <3> QED
      BY <2>1, <3>1, EmitIInv
  <2> QED
    BY <1>1, <2>2, <2>3, <2>4 DEF Send
<1>2. CASE SendAlert(m)
  <2>1. KeepsLimit(m)
    BY <1>2 DEF SendAlert, KeepsLimit
  <2> QED
    BY <2>1, EmitIInv
<1>3. CASE SendRest(m)
  <2>1. wstate = "refresh" => IsTls13(suite)
    BY DEF IInv, LimitInv
  <2>2. KeepsLimit(m)
    BY <1>3, <2>1 DEF SendRest, KeepsLimit
  <2> QED
    BY <2>2, EmitIInv
<1> QED
  BY <1>1, <1>2, <1>3 DEF Sending

\* A KeyUpdate sent because the limit was met keeps the invariant: keys await
\* one only in TLS 1.3, where it does change them.
LEMMA RefreshIInv ==
  ASSUME IInv, Refresh
  PROVE  IInv'
<1>1. wstate = "refresh" /\ Emit(KeyUpdate) /\ wstate' = "open" /\ KeyUpdate \in Messages
  BY RecordAssumption DEF Refresh
<1>2. IsKeyUpdate(KeyUpdate)
  BY <1>1 DEF IInv, LimitInv, IsKeyUpdate
<1>3. KeepsLimit(KeyUpdate)
  BY <1>1, <1>2 DEF KeepsLimit
<1> QED
  BY <1>1, <1>3, EmitIInv

\* The warning keeps the invariant: it is sent by an open TLS 1.2 writer.
LEMMA WarningIInv ==
  ASSUME IInv, SendWarning
  PROVE  IInv'
<1>1. Warning \in Messages
  BY RecordAssumption
<1>2. KeepsLimit(Warning)
  BY DEF SendWarning, KeepsLimit
<1> QED
  BY <1>1, <1>2, EmitIInv

\* An alert at the hard limit ends the writer and changes nothing else.
LEMMA AlertRefusedIInv ==
  ASSUME IInv, AlertRefused
  PROVE  IInv'
<1>1. TypeOK /\ WireInv /\ OrderInv /\ ChainInv /\ LimitInv /\ ReaderInv /\ NoPanic
  BY DEF IInv
<1>2. /\ write_seq' = write_seq /\ wstate' = "panicked"
      /\ suite' = suite /\ ivs' = ivs /\ sent' = sent /\ wire' = wire
      /\ epoch' = epoch /\ read_seq' = read_seq /\ rstate' = rstate /\ delivered' = delivered
  BY DEF AlertRefused, rvars
<1>3. TypeOK'
  BY <1>1, <1>2 DEF TypeOK
<1>4. WireInv' /\ OrderInv'
  BY <1>1, <1>2 DEF WireInv, Encrypted, Ctx, OrderInv
<1>5. ChainInv' /\ ReaderInv' /\ NoPanic'
  BY <1>1, <1>2 DEF ChainInv, ReaderInv, DeliveredIsPrefix, NextEpoch, NextSeq, IsKeyUpdate,
                    NoPanic
<1>6. LimitInv'
  BY <1>1, <1>2 DEF LimitInv, LimitPassed, IsTls13, write_seq_max, confidentiality_limit
<1> QED
  BY <1>3, <1>4, <1>5, <1>6 DEF IInv

\* A failing encrypt consumes a sequence number and nothing else.
LEMMA SendFailsIInv ==
  ASSUME IInv, SendFails
  PROVE  IInv'
<1>1. TypeOK /\ WireInv /\ OrderInv /\ ChainInv /\ LimitInv /\ ReaderInv /\ NoPanic
  BY DEF IInv
<1>2. /\ write_seq' = write_seq + 1 /\ wstate' = "panicked"
      /\ suite' = suite /\ ivs' = ivs /\ sent' = sent /\ wire' = wire
      /\ epoch' = epoch /\ read_seq' = read_seq /\ rstate' = rstate /\ delivered' = delivered
  BY DEF SendFails, rvars
<1>3. write_seq \in Nat /\ write_seq' \in Word
  BY <1>1, <1>2, RecordAssumption, LenAssumption DEF SendFails, TypeOK, Word
<1>4. TypeOK'
  BY <1>1, <1>2, <1>3 DEF TypeOK
<1>5. WireInv'
  BY <1>1, <1>2 DEF WireInv, Encrypted, Ctx
<1>6. OrderInv'
  <2>1. \A k \in DOMAIN sent : sent[k].seq \in Nat
    BY <1>1, SentTyped DEF Word
  <2> QED
    BY <1>1, <1>2, <1>3, <2>1 DEF OrderInv, Before
<1>7. ChainInv'
  BY <1>1, <1>2 DEF ChainInv, NextEpoch, NextSeq, IsKeyUpdate
<1>8. ReaderInv' /\ NoPanic'
  BY <1>1, <1>2 DEF ReaderInv, DeliveredIsPrefix, NextEpoch, NextSeq, IsKeyUpdate, NoPanic
<1>9. LimitInv'
  BY <1>1, <1>2 DEF LimitInv, LimitPassed, IsTls13, write_seq_max, confidentiality_limit
<1> QED
  BY <1>4, <1>5, <1>6, <1>7, <1>8, <1>9 DEF IInv

\* Whatever arrives, the reader either delivers the message that is due or
\* closes.
LEMMA ReceiveIInv ==
  ASSUME IInv, NEW r \in Inbound, NEW ffiOk \in BOOLEAN, Receive(r, ffiOk)
  PROVE  IInv'
<1> DEFINE result == Decrypt(suite, Ctx(epoch), r, read_seq, ffiOk)
           n == Len(delivered)
<1>1. TypeOK /\ WireInv /\ OrderInv /\ ChainInv /\ LimitInv /\ ReaderInv /\ NoPanic
  BY DEF IInv
<1>2. /\ suite' = suite /\ ivs' = ivs /\ write_seq' = write_seq /\ wstate' = wstate
      /\ sent' = sent /\ wire' = wire
  BY DEF Receive, wvars
<1>3. WireInv' /\ OrderInv' /\ ChainInv' /\ LimitInv'
  <2>1. WireInv' /\ OrderInv' /\ ChainInv'
    BY <1>1, <1>2 DEF WireInv, Encrypted, Ctx, OrderInv, ChainInv, NextEpoch, NextSeq, IsKeyUpdate
  <2>2. LimitInv'
    BY <1>1, <1>2 DEF LimitInv, LimitPassed, IsTls13, write_seq_max, confidentiality_limit
  <2> QED
    BY <2>1, <2>2
<1>4. CASE ~result.ok
  <2>1. result.err # "panic"
    <3>1. PICK S : r.payload \in Seq(S)
      BY <1>1, InboundSeals
    <3> QED
      BY <1>1, <1>4, <3>1, DecryptNoPanic DEF TypeOK
  <2>2. /\ rstate' = "closed" /\ epoch' = epoch /\ read_seq' = read_seq
        /\ delivered' = delivered
    BY <1>4, <2>1 DEF Receive, Reject
  <2>3. TypeOK'
    BY <1>1, <1>2, <2>2 DEF TypeOK
  <2>4. ReaderInv' /\ NoPanic'
    BY <1>1, <1>2, <2>2 DEF ReaderInv, DeliveredIsPrefix, NextEpoch, NextSeq, IsKeyUpdate, NoPanic
  <2> QED
    BY <1>3, <2>3, <2>4 DEF IInv
<1>5. CASE result.ok
  <2> DEFINE m == sent[n + 1].msg
  <2>1. /\ n + 1 \in DOMAIN sent
        /\ sent[n + 1].epoch = epoch /\ sent[n + 1].seq = read_seq
        /\ result = Ok(m)
    BY <1>5, AcceptsDue
  <2>2. /\ delivered' = Append(delivered, m) /\ rstate' = rstate
        /\ IF IsKeyUpdate(m)
             THEN epoch' = epoch + 1 /\ read_seq' = 0
             ELSE epoch' = epoch /\ read_seq' = read_seq + 1
    BY <1>5, <2>1 DEF Receive, Accept, Ok
  <2>3. /\ DOMAIN sent = 1 .. Len(sent) /\ Len(sent) \in Nat /\ m \in Message
        /\ sent \in Seq(SentRecord)
        /\ \A k \in DOMAIN sent : sent[k].epoch \in 1 .. Len(ivs) /\ sent[k].seq \in Word
    BY <1>1, <2>1, SentTyped DEF TypeOK
  <2>4. /\ delivered' \in Seq(Message) /\ Len(delivered') = n + 1 /\ n \in Nat
        /\ DOMAIN delivered = 1 .. n /\ DOMAIN delivered' = 1 .. n + 1
        /\ \A k \in 1 .. n : delivered'[k] = delivered[k]
        /\ delivered'[n + 1] = m
        /\ delivered' # <<>>
    <3>1. delivered \in Seq(Message)
      BY <1>1 DEF TypeOK
    <3> HIDE DEF m
    <3> QED
      BY <2>2, <2>3, <3>1
  <2>5. PICK k \in DOMAIN sent : k = n + 1
    BY <2>1
  <2>6. epoch' = NextEpoch(k) /\ read_seq' = NextSeq(k)
    BY <2>1, <2>2, <2>5 DEF NextEpoch, NextSeq
  <2>7. NextEpoch(k) \in 1 .. Len(ivs) /\ NextSeq(k) \in Word
    <3>1. CASE k = Len(sent)
      <4>1. sent # <<>>
        BY <2>3, <2>5
      <4>2. Len(ivs) = NextEpoch(k)
        BY <1>1, <3>1, <4>1 DEF ChainInv
      <4>3. Len(ivs) \in Nat /\ sent[k].epoch \in Nat \ {0} /\ sent[k].seq \in Nat
        BY <1>1, <2>3, <2>5, LenProperties DEF TypeOK, Word
      <4>4. Before(sent[k].epoch, sent[k].seq, Len(ivs), write_seq) /\ write_seq \in Word
        BY <1>1 DEF OrderInv, TypeOK
      <4>5. CASE IsKeyUpdate(sent[k].msg)
        BY <4>2, <4>3, <4>5, LenAssumption DEF NextEpoch, NextSeq, Word
      <4>6. CASE ~IsKeyUpdate(sent[k].msg)
        BY <4>2, <4>3, <4>4, <4>6, LenAssumption DEF NextEpoch, NextSeq, Word, Before
      <4> QED
        BY <4>5, <4>6
    <3>2. CASE k # Len(sent)
      <4>1. k + 1 \in DOMAIN sent
        <5>1. DOMAIN sent = 1 .. Len(sent) /\ Len(sent) \in Nat
          BY <2>3
        <5>2. k \in 1 .. Len(sent)
          BY <5>1
        <5>3. k + 1 \in 1 .. Len(sent)
          BY <3>2, <5>1, <5>2
        <5> QED
          BY <5>1, <5>3
      <4>2. sent[k + 1].epoch = NextEpoch(k) /\ sent[k + 1].seq = NextSeq(k)
        BY <1>1, <4>1 DEF ChainInv
      <4> QED
        BY <2>3, <4>1, <4>2
    <3> QED
      BY <3>1, <3>2
  <2>8. TypeOK'
    BY <1>1, <1>2, <2>2, <2>4, <2>6, <2>7 DEF TypeOK
  <2>9. DeliveredIsPrefix'
    <3>1. \A i \in 1 .. n : delivered[i] = sent[i].msg
      BY <1>1, <2>4 DEF ReaderInv, DeliveredIsPrefix
    <3>2. ASSUME NEW i \in 1 .. n + 1 PROVE delivered'[i] = sent'[i].msg
      BY <1>2, <2>4, <3>1
    <3>3. n + 1 <= Len(sent')
      BY <1>2, <2>1, <2>3, <2>4
    <3> QED
      BY <2>4, <3>2, <3>3 DEF DeliveredIsPrefix
  <2>10. ReaderInv'
    <3>1. NextEpoch(k)' = NextEpoch(k) /\ NextSeq(k)' = NextSeq(k)
      BY <1>2 DEF NextEpoch, NextSeq, IsKeyUpdate
    <3>2. Len(delivered') = k
      BY <2>4, <2>5
    <3> QED
      BY <2>4, <2>6, <2>9, <3>1, <3>2 DEF ReaderInv
  <2>11. NoPanic'
    BY <1>1, <2>2 DEF NoPanic
  <2> QED
    BY <1>3, <2>8, <2>10, <2>11 DEF IInv
<1> QED
  BY <1>4, <1>5

\* IInv is an invariant of the record layer.
THEOREM Invariance == Spec => []IInv
<1>1. Init => IInv
  BY InitIInv
<1>2. IInv /\ [Next]_vars => IInv'
  <2> SUFFICES ASSUME IInv, [Next]_vars PROVE IInv'
    OBVIOUS
  <2>1. CASE \E m \in Messages : Sending(m)
    BY <2>1, SendIInv
  <2>5. CASE Refresh
    BY <2>5, RefreshIInv
  <2>6. CASE SendWarning
    BY <2>6, WarningIInv
  <2>7. CASE AlertRefused
    BY <2>7, AlertRefusedIInv
  <2>2. CASE SendFails
    BY <2>2, SendFailsIInv
  <2>3. CASE \E r \in Inbound, ffiOk \in BOOLEAN : Receive(r, ffiOk)
    BY <2>3, ReceiveIInv
  <2>4. CASE UNCHANGED vars
    BY <2>4 DEF vars, wvars, rvars, IInv, TypeOK, WireInv, Encrypted, Ctx, OrderInv, ChainInv,
                ReaderInv, DeliveredIsPrefix, NextEpoch, NextSeq, IsKeyUpdate, NoPanic,
                LimitInv, LimitPassed, write_seq_max, confidentiality_limit
  <2> QED
    BY <2>1, <2>2, <2>3, <2>4, <2>5, <2>6, <2>7 DEF Next, Sending
<1> QED
  BY <1>1, <1>2, PTL DEF Spec

-----------------------------------------------------------------------------
(* What follows                                                            *)

\* Type correctness.
THEOREM TypeCorrect == Spec => []TypeOK
<1>1. IInv => TypeOK
  BY DEF IInv
<1> QED
  BY <1>1, Invariance, PTL

\* encrypt never uses a key twice with one nonce.
THEOREM NeverReusesNonce == Spec => []NonceUnique
<1>1. IInv => NonceUnique
  <2> SUFFICES ASSUME IInv, NEW i \in DOMAIN sent, NEW j \in DOMAIN sent, i # j,
                      SealAt(i).key = SealAt(j).key, SealAt(i).nonce = SealAt(j).nonce
               PROVE  FALSE
    BY DEF NonceUnique
  <2>1. TypeOK /\ WireInv /\ OrderInv
    BY DEF IInv
  <2>2. /\ i \in Nat /\ j \in Nat
        /\ \A k \in {i, j} : /\ sent[k].epoch \in 1 .. Len(ivs)
                             /\ sent[k].seq \in Word /\ sent[k].seq \in Nat
                             /\ SealAt(k).key = sent[k].epoch
    BY <2>1, SentTyped DEF Word
  <2>3. \A k \in {i, j} : SealAt(k).nonce = NonceNew(ivs[sent[k].epoch], sent[k].seq)
    BY DEF SealAt, SealOf, Tls12Seal, Tls13Seal, Ctx
  <2>4. sent[i].epoch = sent[j].epoch
    BY <2>2
  <2>5. ivs[sent[i].epoch] \in IvType
    BY <2>1, <2>2 DEF TypeOK
  <2>6. sent[i].seq = sent[j].seq
    BY <2>2, <2>3, <2>4, <2>5, NonceInjective
  <2>7. \/ Before(sent[i].epoch, sent[i].seq, sent[j].epoch, sent[j].seq)
        \/ Before(sent[j].epoch, sent[j].seq, sent[i].epoch, sent[i].seq)
    <3>1. i < j \/ j < i
      BY <2>2
    <3> QED
      BY <2>1, <3>1 DEF OrderInv
  <2> QED
    BY <2>2, <2>4, <2>6, <2>7 DEF Before
<1> QED
  BY <1>1, Invariance, PTL

\* decrypt delivers what was sent, in order, and nothing else.
THEOREM Integrity == Spec => []DeliveredIsPrefix
<1>1. IInv => DeliveredIsPrefix
  BY DEF IInv, ReaderInv
<1> QED
  BY <1>1, Invariance, PTL

\* An AES-GCM key encrypts no more records than its suite allows and one write
\* and a KeyUpdate add, unless a TLS 1.2 warning went out exactly at the limit.
THEOREM RespectsLimit == Spec => []KeyUsage
<1>1. IInv => KeyUsage
  <2> SUFFICES ASSUME IInv, suite \in {"gcm12", "gcm13"}, ~LimitPassed, NEW i \in DOMAIN sent
               PROVE  sent[i].seq <= GcmLimit + MaxFragments
    BY DEF KeyUsage
  <2>1. sent[i].seq \in Nat /\ sent[i].seq <= write_seq_max + MaxFragments
    <3>1. sent[i].seq \in Word
      BY SentTyped DEF IInv
    <3> QED
      BY <3>1, LenAssumption DEF IInv, LimitInv, Word
  <2>2. write_seq_max \in Nat /\ write_seq_max <= GcmLimit
    BY MaxTyped DEF confidentiality_limit
  <2> QED
    BY <2>1, <2>2, RecordAssumption
<1> QED
  BY <1>1, Invariance, PTL

\* No input makes decrypt panic.
THEOREM NeverPanics == Spec => []NoPanic
<1>1. IInv => NoPanic
  BY DEF IInv
<1> QED
  BY <1>1, Invariance, PTL

\* The record that is due decrypts to the message it was made from.
THEOREM DueOpens == Spec => []DueRecordOpens
<1>1. IInv => DueRecordOpens
  <2> DEFINE n == Len(delivered) + 1
  <2> SUFFICES ASSUME IInv, n <= Len(sent)
               PROVE  Decrypt(suite, Ctx(epoch), wire[n], read_seq, TRUE) = Ok(sent[n].msg)
    BY DEF DueRecordOpens
  <2>1. TypeOK /\ WireInv /\ ChainInv /\ ReaderInv
    BY DEF IInv
  <2>2. /\ n - 1 \in Nat /\ n \in DOMAIN sent
        /\ n - 1 = Len(delivered)
        /\ n - 1 # 0 => n - 1 \in DOMAIN sent /\ delivered # <<>>
        /\ n - 1 = 0 => delivered = <<>>
    <3>1. Len(delivered) \in Nat /\ (Len(delivered) = 0 <=> delivered = <<>>)
      BY <2>1, EmptySeq, LenProperties DEF TypeOK
    <3> QED
      BY <2>1, <3>1, SentTyped
  <2>3. sent[n].epoch = epoch /\ sent[n].seq = read_seq
    <3>1. CASE n - 1 = 0
      <4>1. n = 1 /\ delivered = <<>> /\ sent # <<>>
        BY <2>2, <3>1
      <4> QED
        BY <2>1, <4>1 DEF ReaderInv, ChainInv
    <3>2. CASE n - 1 # 0
      <4>1. PICK k \in DOMAIN sent : k = Len(delivered) /\ k + 1 = n
        BY <2>2, <3>2
      <4>2. epoch = NextEpoch(k) /\ read_seq = NextSeq(k)
        BY <2>1, <2>2, <3>2, <4>1 DEF ReaderInv
      <4>3. sent[k + 1].epoch = NextEpoch(k) /\ sent[k + 1].seq = NextSeq(k)
        BY <2>1, <2>2, <4>1 DEF ChainInv
      <4> QED
        BY <4>1, <4>2, <4>3
    <3> QED
      BY <3>1, <3>2
  <2>4. wire[n] = Encrypt(suite, Ctx(epoch), sent[n].msg, read_seq)
    BY <2>1, <2>2, <2>3, SentTyped DEF Encrypted
  <2>5. suite \in Suites /\ sent[n].msg \in Message
    BY <2>1, <2>2, SentTyped DEF TypeOK
  <2> HIDE DEF n
  <2>6. Decrypt(suite, Ctx(epoch), Encrypt(suite, Ctx(epoch), sent[n].msg, read_seq),
                read_seq, TRUE) = Ok(sent[n].msg)
    BY <2>5, RoundTrip
  <2> QED
    BY <2>4, <2>6
<1> QED
  BY <1>1, Invariance, PTL

\* The record layer implements the abstract channel.
THEOREM Refinement == Spec => ChannelSpec
<1>1. Init => Channel!Init
  BY DEF Init, Channel!Init, SentMessages
<1>2. IInv /\ [Next]_vars => [Channel!Next]_(Channel!vars)
  <2> SUFFICES ASSUME IInv, [Next]_vars PROVE [Channel!Next]_(Channel!vars)
    OBVIOUS
  <2>1. TypeOK /\ WireInv
    BY DEF IInv
  <2>2. /\ sent \in Seq(SentRecord) /\ Len(sent) \in Nat
        /\ \A k \in 1 .. Len(sent) : sent[k].msg \in Message
    BY <2>1, SentTyped DEF TypeOK
  <2>3. CASE \E m \in Messages : Emit(m)
    <3>1. PICK m \in Messages : Emit(m)
      BY <2>3
    <3>2. PICK t : sent' = Append(sent, t) /\ t.msg = m
      BY <3>1 DEF Emit
    <3>3. SentMessages' = Append(SentMessages, m)
      <4> DEFINE n == Len(sent)
      <4>1. sent \in Seq(SentRecord \cup {t})
        BY <2>2
      <4>2. /\ Len(sent') = n + 1
            /\ \A k \in 1 .. n : sent'[k] = sent[k]
            /\ sent'[n + 1] = t
        BY <3>2, <4>1
      <4>3. n \in Nat /\ SentMessages = [k \in 1 .. n |-> SentMessages[k]]
        BY <2>2 DEF SentMessages
      <4>4. /\ SentMessages' = [k \in 1 .. n + 1 |-> sent'[k].msg]
            /\ \A k \in 1 .. n : SentMessages[k] = sent[k].msg
        BY <4>2 DEF SentMessages
      <4>5. PICK v : v = Append(SentMessages, m)
        OBVIOUS
      <4>6. /\ v = [k \in 1 .. n + 1 |-> v[k]]
            /\ \A k \in 1 .. n : v[k] = SentMessages[k]
            /\ v[n + 1] = m
        BY <4>3, <4>5, AppendPointwise
      <4>7. \A k \in 1 .. n + 1 : sent'[k].msg = v[k]
        BY <3>2, <4>2, <4>3, <4>4, <4>6
      <4> QED
        BY <4>4, <4>5, <4>6, <4>7
    <3>4. delivered' = delivered /\ rstate' = rstate
      BY <3>1 DEF Emit, rvars
    <3> QED
      BY <3>3, <3>4 DEF Channel!Next, Channel!Send
  <2>4. CASE SendFails
    BY <2>4 DEF SendFails, rvars, Channel!vars, SentMessages
  <2>5. CASE \E r \in Inbound, ffiOk \in BOOLEAN : Receive(r, ffiOk)
    <3>1. PICK r \in Inbound, ffiOk \in BOOLEAN : Receive(r, ffiOk)
      BY <2>5
    <3> DEFINE result == Decrypt(suite, Ctx(epoch), r, read_seq, ffiOk)
               n == Len(delivered) + 1
    <3>2. SentMessages' = SentMessages
      BY <3>1 DEF Receive, wvars, SentMessages
    <3>3. CASE ~result.ok
      <4>1. delivered' = delivered /\ rstate = "open" /\ rstate' # "open"
        BY <3>1, <3>3 DEF Receive, Reject
      <4> QED
        BY <3>2, <4>1 DEF Channel!Next, Channel!Close
    <3>4. CASE result.ok
      <4>1. n \in DOMAIN sent /\ result = Ok(sent[n].msg)
        BY <3>4, AcceptsDue
      <4>2. delivered' = Append(delivered, sent[n].msg) /\ rstate' = rstate /\ rstate = "open"
        BY <3>1, <3>4, <4>1 DEF Receive, Accept, Ok
      <4>3. Len(delivered) < Len(SentMessages) /\ SentMessages[n] = sent[n].msg
        <5>1. n \in 1 .. Len(sent) /\ Len(SentMessages) = Len(sent) /\ Len(delivered) \in Nat
          BY <2>1, <2>2, <4>1, SentTyped, LenProperties DEF SentMessages, TypeOK
        <5> QED
          BY <2>2, <5>1 DEF SentMessages
      <4> QED
        BY <3>2, <4>2, <4>3 DEF Channel!Next, Channel!Deliver
    <3> QED
      BY <3>3, <3>4
  <2>6. CASE UNCHANGED vars
    BY <2>6 DEF vars, wvars, rvars, Channel!vars, SentMessages
  <2>7. ASSUME (\E m \in Messages : Sending(m)) \/ Refresh \/ SendWarning
        PROVE  \E m \in Messages : Emit(m)
    BY <2>7, SendingEmits, RecordAssumption DEF Refresh, SendWarning
  <2>8. CASE AlertRefused
    BY <2>8 DEF AlertRefused, rvars, Channel!vars, SentMessages
  <2> QED
    BY <2>3, <2>4, <2>5, <2>6, <2>7, <2>8 DEF Next, Sending
<1> QED
  BY <1>1, <1>2, Invariance, PTL DEF Spec, ChannelSpec, Channel!Spec

=============================================================================

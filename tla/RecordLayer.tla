----------------------------- MODULE RecordLayer -----------------------------
(***************************************************************************)
(* One direction of a TLS connection: the record layer of rustls drives    *)
(* the provider's encrypter at the writing end and its decrypter at the    *)
(* reading end, over a network that may lose, repeat, reorder, cut, splice *)
(* and damage records.                                                     *)
(*                                                                         *)
(* rustls itself is external: it counts the sequence numbers it passes to  *)
(* encrypt and decrypt, changes keys (TLS 1.3) or closes (TLS 1.2) when a  *)
(* suite's confidentiality limit is reached, installs new keys after a     *)
(* KeyUpdate, and treats an encrypt error as a bug (unwrap) and a decrypt  *)
(* error as fatal.                                                         *)
(***************************************************************************)
EXTENDS Aead

CONSTANTS
  Messages,      \* the messages the application and the handshake send
  Ivs,           \* the IVs the key schedule may produce
  KeyUpdate,     \* the message after which both ends change keys
  CloseNotify,   \* the alert that ends the writer's side
  Warning,       \* no_renegotiation, the one alert that does not (TLS 1.2)
  Versions,      \* record versions seen on the network
  GcmLimit,      \* 1 << 23 in the suites of lib.rs
  ChachaLimit,   \* u64::MAX in the suites of lib.rs
  SeqSoftLimit,  \* keys are given up here whatever the suite allows
  SeqHardLimit,  \* no message is encrypted from this sequence number on
  MaxFragments,  \* bound: records one write of the application is cut into
  MaxSent        \* bound: messages sent in one behaviour

ASSUME RecordAssumption ==
  /\ Messages \subseteq Message
  /\ Ivs \subseteq IvType
  /\ KeyUpdate \in Messages
  /\ CloseNotify \in Messages
  /\ Warning \in Messages \ {CloseNotify} /\ Warning.typ = CloseNotify.typ
  /\ TLSv1_2 \in Versions
  /\ GcmLimit \in Nat \ {0} /\ ChachaLimit \in Nat \ {0} /\ SeqSoftLimit \in Nat \ {0}
  /\ MaxFragments \in Nat \ {0}
  /\ SeqHardLimit \in Word
  /\ SeqSoftLimit + MaxFragments < SeqHardLimit
  /\ MaxSent \in Nat

VARIABLES
  suite,      \* the negotiated record cipher
  ivs,        \* ivs[e] is the IV of key e; the writer uses the last key
  write_seq,  \* RecordLayer::write_seq
  wstate,     \* "open"; "refresh" while refresh_traffic_keys_pending; "closed"
              \* after an alert; "panicked" once an encrypt error was unwrapped
              \* or an alert came at the hard limit
  sent,       \* history: [epoch, seq, msg] of every record put on the wire
  wire,       \* the records themselves; the network may deliver any of them
  epoch,      \* the key the reader decrypts with
  read_seq,   \* RecordLayer::read_seq
  rstate,     \* "open", "closed" after an error, or "panicked"
  delivered   \* history: the messages handed to the reading application

wvars == <<ivs, write_seq, wstate, sent, wire>>
rvars == <<epoch, read_seq, rstate, delivered>>
vars == <<suite, wvars, rvars>>

-----------------------------------------------------------------------------
Ctx(e) == [key |-> e, iv |-> ivs[e]]
IsKeyUpdate(m) == IsTls13(suite) /\ m = KeyUpdate

Init ==
  /\ suite \in Suites
  /\ \E iv \in Ivs : ivs = <<iv>>
  /\ write_seq = 0
  /\ wstate = "open"
  /\ sent = <<>>
  /\ wire = <<>>
  /\ epoch = 1
  /\ read_seq = 0
  /\ rstate = "open"
  /\ delivered = <<>>

\* How many records a suite says one key is good for, and the sequence number
\* at which the writer acts on it.
BugConfidentialityLimit(s) == ChachaLimit
confidentiality_limit(s) == IF s \in {"gcm12", "gcm13"} THEN GcmLimit ELSE ChachaLimit

write_seq_max ==
  IF confidentiality_limit(suite) < SeqSoftLimit
    THEN confidentiality_limit(suite)
    ELSE SeqSoftLimit

IsAlert(m) == m.typ = CloseNotify.typ

\* encrypt_outgoing(m): encrypt under the current sequence number, count it,
\* queue the record.  A KeyUpdate is the last message under its key.
BugEmit(m) ==
  /\ write_seq < SeqHardLimit
  /\ Len(sent) < MaxSent
  /\ wire' = Append(wire, Encrypt(suite, Ctx(Len(ivs)), m, write_seq))
  /\ sent' = Append(sent, [epoch |-> Len(ivs), seq |-> write_seq, msg |-> m])
  /\ write_seq' = IF IsKeyUpdate(m) THEN 0 ELSE write_seq + 1
  /\ UNCHANGED <<suite, ivs, rvars>>
Emit(m) ==
  /\ write_seq < SeqHardLimit
  /\ Len(sent) < MaxSent
  /\ wire' = Append(wire, Encrypt(suite, Ctx(Len(ivs)), m, write_seq))
  /\ sent' = Append(sent, [epoch |-> Len(ivs), seq |-> write_seq, msg |-> m])
  /\ IF IsKeyUpdate(m)
       THEN write_seq' = 0 /\ \E iv \in Ivs : ivs' = Append(ivs, iv)
       ELSE write_seq' = write_seq + 1 /\ UNCHANGED ivs
  /\ UNCHANGED <<suite, rvars>>

\* send_single_fragment(m), the first of a write: at the limit TLS 1.3 sends m
\* and will change keys, TLS 1.2 sends close_notify in its place.
Send(m) ==
  /\ wstate = "open"
  /\ ~IsAlert(m)
  /\ \/ write_seq # write_seq_max /\ Emit(m) /\ UNCHANGED wstate
     \/ write_seq = write_seq_max /\ IsTls13(suite) /\ Emit(m) /\ wstate' = "refresh"
     \/ write_seq = write_seq_max /\ ~IsTls13(suite) /\ Emit(CloseNotify) /\ wstate' = "closed"

\* Alerts go out at any sequence number, the limit included, and end the
\* writer's side: close_notify and the fatal ones.
SendAlert(m) ==
  /\ wstate = "open"
  /\ IsAlert(m) /\ m # Warning
  /\ Emit(m)
  /\ wstate' = "closed"

\* A TLS 1.2 peer asks to renegotiate.  rustls answers with a warning, once in
\* a connection (it counts the requests), and the writer stays open.
SendWarning ==
  /\ wstate = "open"
  /\ ~IsTls13(suite)
  /\ \A i \in DOMAIN sent : sent[i].msg # Warning
  /\ Emit(Warning)
  /\ UNCHANGED wstate

\* At the hard limit other messages are dropped, which is no step, and an alert
\* meets the assertion of encrypt_outgoing.
AlertRefused ==
  /\ wstate = "open"
  /\ write_seq >= SeqHardLimit
  /\ wstate' = "panicked"
  /\ UNCHANGED <<suite, ivs, write_seq, sent, wire, rvars>>

\* The other fragments of the write in which the limit was met.
SendRest(m) ==
  /\ wstate = "refresh"
  /\ write_seq < write_seq_max + MaxFragments
  /\ ~IsAlert(m) /\ ~IsKeyUpdate(m)
  /\ Emit(m)
  /\ UNCHANGED wstate

\* maybe_refresh_traffic_keys, when the write is done.
Refresh ==
  /\ wstate = "refresh"
  /\ Emit(KeyUpdate)
  /\ wstate' = "open"

\* A wolfCrypt call fails, encrypt returns Err and encrypt_outgoing, which has
\* counted the sequence number already, unwraps it.
SendFails ==
  /\ wstate \in {"open", "refresh"}
  /\ write_seq < SeqHardLimit
  /\ write_seq' = write_seq + 1
  /\ wstate' = "panicked"
  /\ UNCHANGED <<suite, ivs, sent, wire, rvars>>

\* What the network can make of the records sent: some first bytes of one,
\* perhaps a damaged byte, some last bytes of another, under any header.
Starts == UNION {{SubSeq(wire[k].payload, 1, i) : i \in 0 .. Len(wire[k].payload)} :
                   k \in DOMAIN wire}
Ends == UNION {{SubSeq(wire[k].payload, i, Len(wire[k].payload)) :
                  i \in 1 .. Len(wire[k].payload) + 1} : k \in DOMAIN wire}
Damaged == {Append(a, Junk) : a \in Starts}

Inbound ==
  [typ : {ApplicationData} \cup {m.typ : m \in Messages},
   version : Versions,
   payload : UNION {{a \o b : b \in Ends} : a \in Starts \cup Damaged}]

\* decrypt_incoming: only an Ok counts; an error closes the connection.
\* Reading a KeyUpdate installs the next key.
Accept(m) ==
  /\ delivered' = Append(delivered, m)
  /\ IF IsKeyUpdate(m)
       THEN epoch' = epoch + 1 /\ read_seq' = 0
       ELSE epoch' = epoch /\ read_seq' = read_seq + 1
  /\ UNCHANGED rstate

Reject(err) ==
  /\ rstate' = IF err = "panic" THEN "panicked" ELSE "closed"
  /\ UNCHANGED <<epoch, read_seq, delivered>>

Receive(r, ffiOk) ==
  LET result == Decrypt(suite, Ctx(epoch), r, read_seq, ffiOk)
  IN  /\ rstate = "open"
      /\ IF result.ok THEN Accept(result.msg) ELSE Reject(result.err)
      /\ UNCHANGED <<suite, wvars>>

Next ==
  \/ \E m \in Messages : Send(m) \/ SendAlert(m) \/ SendRest(m)
  \/ SendWarning
  \/ AlertRefused
  \/ Refresh
  \/ SendFails
  \/ \E r \in Inbound, ffiOk \in BOOLEAN : Receive(r, ffiOk)

Spec == Init /\ [][Next]_vars

-----------------------------------------------------------------------------
(* Properties                                                              *)

SentRecord == [epoch : Nat \ {0}, seq : Word, msg : Message]

\* Every variable has its type: sequence numbers stay within the word that
\* rustls passes to encrypt and decrypt, and the reader never gets ahead of
\* the keys that exist (decrypt is never called with a key not installed).
TypeOK ==
  /\ suite \in Suites
  /\ ivs \in Seq(IvType) /\ ivs # <<>>
  /\ write_seq \in Word
  /\ wstate \in {"open", "refresh", "closed", "panicked"}
  /\ sent \in Seq(SentRecord)
  /\ wire = [i \in 1 .. Len(sent) |-> wire[i]]
  /\ epoch \in 1 .. Len(ivs)
  /\ read_seq \in Word
  /\ rstate \in {"open", "closed", "panicked"}
  /\ delivered \in Seq(Message)

\* The seal that the i-th record carries.
SealAt(i) == SealOf(suite, Ctx(sent[i].epoch), sent[i].msg, sent[i].seq)

\* No key is ever used with one nonce for two records: the IV, the sequence
\* number and the reset at a key change never repeat a pair (encrypt's
\* Nonce::new(&self.iv, seq) under self.key).
NonceUnique ==
  \A i, j \in DOMAIN sent :
    i # j => \/ SealAt(i).key # SealAt(j).key
             \/ SealAt(i).nonce # SealAt(j).nonce

\* Whatever the network does to the records, what decrypt lets through is what
\* was sent, in the order it was sent, nothing skipped, repeated or altered.
DeliveredIsPrefix ==
  /\ Len(delivered) <= Len(sent)
  /\ \A i \in DOMAIN delivered : delivered[i] = sent[i].msg

\* The record that is due opens, to the message that was sent: encrypt and
\* decrypt agree on layout, nonce, additional data and key, through every key
\* change and at every length, so only damage or a failing call can stop the
\* reader.
DueRecordOpens ==
  LET n == Len(delivered) + 1
  IN  rstate = "open" /\ n <= Len(sent) =>
        Decrypt(suite, Ctx(epoch), wire[n], read_seq, TRUE) = Ok(sent[n].msg)

\* rustls compares the sequence number with the limit for equality, and before
\* everything but an alert: the TLS 1.2 warning sent exactly at the limit steps
\* over it, and no comparison succeeds afterwards.
LimitPassed ==
  /\ ~IsTls13(suite)
  /\ \E i \in DOMAIN sent : sent[i].msg = Warning /\ sent[i].seq = write_seq_max

\* No AES-GCM key encrypts more records than the suite table allows it, plus
\* what is in flight when the limit is met: the fragments of one write and the
\* KeyUpdate (confidentiality_limit: 1 << 23 of every AES-GCM suite).  One
\* behaviour alone escapes, in TLS 1.2: the warning falls on the limit itself.
KeyUsage ==
  suite \in {"gcm12", "gcm13"} =>
    \/ \A i \in DOMAIN sent : sent[i].seq <= GcmLimit + MaxFragments
    \/ LimitPassed

\* No payload, however short or spliced, makes decrypt slice out of range.
NoPanic == rstate # "panicked"

-----------------------------------------------------------------------------
(* The inductive invariant                                                 *)

\* (e, s) comes before (f, t) when records are numbered key by key.
Before(e, s, f, t) == e < f \/ (e = f /\ s < t)

\* The place after the i-th record.
NextEpoch(i) == IF IsKeyUpdate(sent[i].msg) THEN sent[i].epoch + 1 ELSE sent[i].epoch
NextSeq(i) == IF IsKeyUpdate(sent[i].msg) THEN 0 ELSE sent[i].seq + 1

Encrypted(t) == Encrypt(suite, Ctx(t.epoch), t.msg, t.seq)

\* The records on the wire are the encryptions of the messages sent.
WireInv ==
  \A i \in DOMAIN sent :
    sent[i].epoch \in 1 .. Len(ivs) /\ wire[i] = Encrypted(sent[i])

\* Their places increase, up to the writer's own.
OrderInv ==
  /\ \A i, j \in DOMAIN sent :
       i < j => Before(sent[i].epoch, sent[i].seq, sent[j].epoch, sent[j].seq)
  /\ \A i \in DOMAIN sent :
       Before(sent[i].epoch, sent[i].seq, Len(ivs), write_seq)

\* They follow each other without a gap, and so does the writer's next.
ChainInv ==
  /\ \A i \in DOMAIN sent :
       i + 1 \in DOMAIN sent =>
         sent[i + 1].epoch = NextEpoch(i) /\ sent[i + 1].seq = NextSeq(i)
  /\ sent # <<>> =>
       /\ sent[1].epoch = 1 /\ sent[1].seq = 0
       /\ Len(ivs) = NextEpoch(Len(sent))
       /\ wstate # "panicked" => write_seq = NextSeq(Len(sent))
  /\ sent = <<>> =>
       /\ Len(ivs) = 1
       /\ wstate # "panicked" => write_seq = 0

\* The reader is right after the last message it delivered.
ReaderInv ==
  /\ DeliveredIsPrefix
  /\ IF delivered = <<>>
       THEN epoch = 1 /\ read_seq = 0
       ELSE epoch = NextEpoch(Len(delivered)) /\ read_seq = NextSeq(Len(delivered))

\* The writer is not past its limit unless it is about to change keys, and no
\* record ever was by more than one write, or else a warning stepped over it.
LimitInv ==
  /\ wstate = "refresh" => IsTls13(suite) /\ write_seq <= write_seq_max + MaxFragments
  /\ \/ /\ wstate = "open" => write_seq <= write_seq_max
        /\ \A i \in DOMAIN sent : sent[i].seq <= write_seq_max + MaxFragments
     \/ LimitPassed

\* What holds in every state and carries over to the next one: the types, the
\* places of the records, of the writer and of the reader, the limit, no panic.
IInv == TypeOK /\ WireInv /\ OrderInv /\ ChainInv /\ LimitInv /\ ReaderInv /\ NoPanic

-----------------------------------------------------------------------------
(* The abstract channel                                                    *)

SentMessages == [i \in 1 .. Len(sent) |-> sent[i].msg]

Channel == INSTANCE SecureChannel
             WITH sent <- SentMessages, open <- (rstate = "open")

\* Record ciphers, rustls' counters and key changes together implement the
\* abstract channel over this network.
ChannelSpec == Channel!Spec

=============================================================================

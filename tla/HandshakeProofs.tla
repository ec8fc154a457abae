-------------------------- MODULE HandshakeProofs --------------------------
(***************************************************************************)
(* Proofs about Handshake, for every configuration of the two ends, every  *)
(* key and every number of key updates, alterations and faults.  The first *)
(* parts say what the operators return: the sequences of messages, the     *)
(* suites, the two key schedules (which come out the same from wolfCrypt's *)
(* code and from the RFCs' rules, and whose Finished tells the transcript  *)
(* and the secret it was made from) and the signatures.  Then one lemma    *)
(* per action shows that it keeps HsInv, and the theorems follow.          *)
(***************************************************************************)
EXTENDS Handshake, SignatureProofs

-----------------------------------------------------------------------------
(* The inductive invariant                                                 *)

\* What the registered meaning of a suite makes of the messages m before the
\* last Finished, and of the secret that the two ends share: the session and
\* that Finished.
AllSuites == Range(ALL_CIPHER_SUITES)
SuiteIn(m) == RfcSuite(m[2].suite)
Schedule(dh, m) == Schedule13("rfc", SuiteIn(m), dh, m)
Session13(dh, m) ==
  Session(m[2].suite, SuiteIn(m), m[1], Schedule(dh, m).ap_cipher, Schedule(dh, m).exporter)
Block(ms, m) == KeyBlock("rfc", SuiteIn(m), ms, m[1].random, m[2].random)
Session12(ms, m) ==
  Session(m[2].suite, SuiteIn(m), m[1],
          [r \in Roles |-> Write12(SuiteIn(m), Block(ms, m), r)], ms)
ServerFinished12(ms, m) ==
  Finished(FinishedMac12("rfc", SuiteIn(m), ms, "server finished", m))

IsSeq(q) == q \in Seq(Range(q))
Negotiated(m, version) ==
  /\ IsSeq(m) /\ {1, 2} \subseteq DOMAIN m
  /\ m[2].suite \in AllSuites /\ SuiteIn(m).version = version

\* r has accepted what its transcript and its secret make.
Accepted13(r) ==
  LET m == Front(transcript[r])
  IN  /\ Negotiated(m, "1.3")
      /\ secrets[r].suite = m[2].suite
      /\ secrets[r].exporter = Schedule(secrets[r].dh, m).exporter
      /\ session[r] = Session13(secrets[r].dh, m)
      /\ Last(transcript[r]) = Schedule(secrets[r].dh, m).client_finished
Holds12(r, m) ==
  /\ Negotiated(m, "1.2")
  /\ secrets[r] = Secrets12(m[2].suite, Block(secrets[r].exporter, m), secrets[r].exporter,
                            m[1].random, m[2].random)
Accepted12(r) ==
  LET m == Front(transcript[r])
  IN  /\ Holds12(r, m)
      /\ session[r] = Session12(secrets[r].exporter, m)
      /\ Last(transcript[r]) = ServerFinished12(secrets[r].exporter, m)
Accepted(r) == Accepted13(r) \/ Accepted12(r)

\* The messages in the clear, and those that are sealed and make a difference.
IsHello(m) ==
  /\ DOMAIN m = {"msg", "random", "suites", "share", "schemes"}
  /\ m.msg = "client_hello" /\ m.suites \in ClientLists
IsReply(m) == DOMAIN m = {"msg", "random", "suite", "share"} /\ m.msg = "server_hello"
IsCertificate(m) == DOMAIN m = {"msg", "key"} /\ m.msg = "certificate"
SignedShare(m) ==
  /\ DOMAIN m = {"msg", "share", "scheme", "sig"}
  /\ m.msg = "server_key_exchange" /\ m.sig.key = key
ClientShare(m) == DOMAIN m = {"msg", "share"} /\ m.msg = "client_key_exchange"
ClearOk(r, kind, clear) ==
  CASE r = "server" /\ kind = "hello"    -> clear = <<clear[1]>> /\ IsHello(clear[1])
    [] r = "server" /\ kind = "client12" -> clear = <<clear[1]>> /\ ClientShare(clear[1])
    [] r = "client" /\ kind = "server13" -> clear = <<clear[1]>> /\ IsReply(clear[1])
    [] r = "client" /\ kind = "server12" ->
         /\ clear = <<clear[1], clear[2], clear[3]>>
         /\ IsReply(clear[1]) /\ IsCertificate(clear[2]) /\ SignedShare(clear[3])
    [] kind = "finished"   -> clear = <<>>
    [] kind = "key_update" -> clear = <<>> /\ Accepted13(Other(r))
    [] OTHER               -> FALSE
SealedOk(r, kind, msgs) ==
  CASE r = "client" /\ kind = "server13" ->
         msgs = <<msgs[1], msgs[2], msgs[3]>> /\ msgs[2].sig.key = key
    [] r = "client" /\ kind = "finished" ->
         Accepted12("server") /\ msgs = <<Last(transcript["server"])>>
    [] r = "server" /\ kind = "finished" ->
         Accepted13("client") /\ msgs = <<Last(transcript["client"])>>
    [] OTHER -> TRUE
FlightOk(r, f) ==
  /\ DOMAIN f = {"kind", "clear", "sealed"}
  /\ ClearOk(r, f.kind, f.clear)
  /\ f.sealed = NothingSealed \/ SealedOk(r, f.kind, f.sealed.msgs)
InboxInv == \A r \in Roles : IsSeq(inbox[r]) /\ \A f \in Range(inbox[r]) : FlightOk(r, f)

\* An end has what it will need of the messages it has seen, and a client that
\* goes on has seen the certified key's signature.
ClientInv ==
  /\ pc["client"] = "wait_server" =>
       transcript["client"][1].suites = suites["client"]
  /\ pc["client"] = "wait_finished" =>
       /\ Holds12("client", transcript["client"])
       /\ transcript["client"][1].suites = suites["client"]
       /\ cert = key
  /\ session["client"] # NoSession =>
       /\ Accepted("client")
       /\ Front(transcript["client"])[1].suites = suites["client"]
       /\ cert = key
ServerInv ==
  LET m == transcript["server"]
  IN  /\ pc["server"] = "wait_client" => Negotiated(m, "1.2") /\ m[2].suite = Chosen(m[1])
      /\ pc["server"] = "wait_finished" =>
           /\ Negotiated(m, "1.3") /\ m[2].suite = Chosen(m[1])
           /\ secrets["server"].suite = m[2].suite
           /\ secrets["server"].exporter = Schedule(secrets["server"].dh, m).exporter
      /\ session["server"] # NoSession =>
           Accepted("server") /\ Front(m)[2].suite = Chosen(Front(m)[1])

\* In what order things happen: who still waits has not accepted, and a peer
\* can only have answered what was sent.
Kinds(r) == {f.kind : f \in Range(inbox[r])}
OrderInv ==
  /\ \A r \in Roles : pc[r] \in {"start", "wait_server", "wait_client", "wait_finished"} =>
       session[r] = NoSession
  /\ pc["client"] \in {"start", "wait_server"} =>
       session["server"] = NoSession /\ Kinds("server") \subseteq {"hello"}
  /\ pc["server"] \in {"start", "wait_client"} =>
       session["client"] = NoSession /\ Kinds("client") \subseteq {"server12"}
  /\ pc["client"] # "wait_client" /\ pc["server"] # "wait_server"
  /\ \A r \in Roles :
       pc[r] # (IF r = "client" THEN "wait_server" ELSE "wait_client") => kx[r] = None
  /\ nextKey <= 1 + (IF pc["client"] = "start" THEN 0
                     ELSE IF pc["client"] = "wait_server" THEN 1 ELSE 2)
                  + (IF pc["server"] = "start" THEN 0 ELSE 1)

\* Two ends that have both accepted have seen the same messages.
AgreeInv ==
  Both => /\ session["client"] = session["server"]
          /\ Front(transcript["client"]) = Front(transcript["server"])

StateOk ==
  /\ impl \in [Roles -> {"wolf", "rfc"}]
  /\ suites \in [client : ClientLists, server : ServerLists]
  /\ group \in Groups /\ key \in ServerKeys
  /\ DOMAIN kx = Roles /\ DOMAIN transcript = Roles /\ DOMAIN secrets = Roles
  /\ DOMAIN session = Roles /\ DOMAIN inbox = Roles
  /\ faulted \in [Roles -> BOOLEAN]
  /\ \A r \in Roles :
       secrets[r] # NoSecrets =>
         DOMAIN secrets[r] = {"suite", "traffic", "exporter", "dh", "block", "client_random",
                              "server_random"}

\* The inductive invariant: each end has what its messages make, so that equal
\* Finished values mean equal messages, secrets and sessions.
HsInv ==
  /\ HandshakeTypeOK /\ PanicsOnlyOnFaults /\ StateOk
  /\ InboxInv /\ ClientInv /\ ServerInv /\ OrderInv /\ AgreeInv

-----------------------------------------------------------------------------
(* Sequences                                                               *)

\* Sequences are used through IsSeq, which names no set of elements: the messages
\* of a handshake are of many shapes.
LEMMA SeqIsSeq ==
  ASSUME NEW S, NEW q \in Seq(S)
  PROVE  IsSeq(q)
BY DEF IsSeq, Range

\* What Append makes: the messages before the last, the last, and their range.
LEMMA AppendSeq ==
  ASSUME NEW q, IsSeq(q), NEW v
  PROVE  /\ IsSeq(Append(q, v))
         /\ Front(Append(q, v)) = q
         /\ Last(Append(q, v)) = v
         /\ Range(Append(q, v)) = Range(q) \cup {v}
         /\ Append(q, v) # <<>>
         /\ DOMAIN q \subseteq DOMAIN Append(q, v)
         /\ \A n \in DOMAIN q : Append(q, v)[n] = q[n]
<1> DEFINE S == Range(q) \cup {v}
           p == Append(q, v)
<1>1. q \in Seq(S) /\ v \in S
  BY DEF IsSeq
<1> HIDE DEF S
<1>2. /\ p \in Seq(S) /\ Len(p) = Len(q) + 1 /\ Len(q) \in Nat
      /\ DOMAIN p = 1 .. Len(q) + 1 /\ DOMAIN q = 1 .. Len(q)
      /\ \A n \in 1 .. Len(q) : p[n] = q[n]
      /\ p[Len(q) + 1] = v
  BY <1>1, AppendProperties
<1> HIDE DEF p
<1>3. Last(p) = v /\ p # <<>>
  BY <1>2 DEF Last
<1>4. Front(p) = q
  <2>1. Front(p) = SubSeq(p, 1, Len(q))
    BY <1>2 DEF Front
  <2>2. SubSeq(p, 1, Len(q)) \in Seq(S) /\ Len(SubSeq(p, 1, Len(q))) = Len(q)
        /\ \A n \in 1 .. Len(q) : SubSeq(p, 1, Len(q))[n] = p[n]
    BY <1>2, SubSeqProperties
  <2> QED
    BY <1>1, <1>2, <2>1, <2>2, SeqEqual
<1>5. Range(p) = Range(q) \cup {v}
  BY <1>2 DEF Range
<1>6. DOMAIN q \subseteq DOMAIN p
  BY <1>2
<1> QED
  BY <1>2, <1>3, <1>4, <1>5, <1>6, SeqIsSeq DEF p

\* What is left in an inbox once its head was handled was there before.
LEMMA TailSeq ==
  ASSUME NEW q, IsSeq(q), q # <<>>
  PROVE  /\ IsSeq(Tail(q)) /\ Range(Tail(q)) \subseteq Range(q)
         /\ Head(q) = q[1] /\ 1 \in DOMAIN q /\ q[1] \in Range(q)
<1>1. q \in Seq(Range(q))
  BY DEF IsSeq
<1>2. /\ Tail(q) \in Seq(Range(q)) /\ Len(Tail(q)) = Len(q) - 1
      /\ \A n \in 1 .. Len(Tail(q)) : Tail(q)[n] = q[n + 1]
  BY <1>1, HeadTailProperties
<1>3. Len(q) \in Nat /\ Len(q) # 0 /\ DOMAIN q = 1 .. Len(q)
  BY <1>1, EmptySeq
<1>4. Range(Tail(q)) \subseteq Range(q)
  BY <1>2, <1>3 DEF Range
<1>5. 1 \in DOMAIN q /\ q[1] \in Range(q)
  BY <1>3 DEF Range
<1>6. Head(q) = q[1]
  BY <1>1
<1>7. IsSeq(Tail(q))
  BY <1>2, SeqIsSeq
<1> QED
  BY <1>4, <1>5, <1>6, <1>7

\* A sequence with one element replaced is a sequence of the same length.
LEMMA Replaced ==
  ASSUME NEW q, IsSeq(q), NEW v, NEW p \in [DOMAIN q -> Range(q) \cup {v}]
  PROVE  IsSeq(p) /\ Len(p) = Len(q) /\ Range(p) \subseteq Range(q) \cup {v}
<1> DEFINE S == Range(q) \cup {v}
<1>1. q \in Seq(S) /\ v \in S
  BY DEF IsSeq
<1>2. Range(p) \subseteq S /\ p \in [DOMAIN q -> S]
  BY DEF Range
<1> HIDE DEF S
<1>3. Len(q) \in Nat /\ DOMAIN q = 1 .. Len(q)
  BY <1>1
<1>4. p \in [1 .. Len(q) -> S]
  BY <1>2, <1>3
<1>5. p \in Seq(S)
  BY <1>3, <1>4, SeqDef
<1>6. IsSeq(p)
  BY <1>5, SeqIsSeq
<1>7. Range(p) \subseteq Range(q) \cup {v}
  BY <1>2 DEF S
<1>8. Len(p) = Len(q)
  BY <1>3, <1>4, <1>5
<1> QED
  BY <1>6, <1>7, <1>8

\* The empty sequence is one, with nothing in it.
LEMMA EmptyIsSeq == IsSeq(<<>>) /\ Range(<<>>) = {}
BY DEF IsSeq, Range

\* Sequences that agree at every place are equal.
LEMMA SameSeq ==
  ASSUME NEW p, NEW q, IsSeq(p), IsSeq(q), Len(p) = Len(q), \A n \in 1 .. Len(q) : p[n] = q[n]
  PROVE  p = q
<1>1. p \in Seq(Range(p) \cup Range(q)) /\ q \in Seq(Range(p) \cup Range(q))
  BY DEF IsSeq
<1> QED
  BY <1>1, SeqEqual

\* The tuples of messages are sequences, of the length one sees.
LEMMA ShortSeq ==
  ASSUME NEW a, NEW b, NEW c, NEW d, NEW e
  PROVE  /\ IsSeq(<<a>>) /\ Len(<<a>>) = 1
         /\ IsSeq(<<a, b>>) /\ Len(<<a, b>>) = 2
         /\ IsSeq(<<a, b, c>>) /\ Len(<<a, b, c>>) = 3
         /\ IsSeq(<<a, b, c, d>>) /\ Len(<<a, b, c, d>>) = 4
         /\ IsSeq(<<a, b, c, d, e>>) /\ Len(<<a, b, c, d, e>>) = 5
<1>1. /\ <<a>> \in Seq({a}) /\ <<a, b>> \in Seq({a, b})
      /\ <<a, b, c>> \in Seq({a, b, c}) /\ <<a, b, c, d>> \in Seq({a, b, c, d})
      /\ <<a, b, c, d, e>> \in Seq({a, b, c, d, e})
  OBVIOUS
<1>2. /\ IsSeq(<<a>>) /\ IsSeq(<<a, b>>) /\ IsSeq(<<a, b, c>>)
      /\ IsSeq(<<a, b, c, d>>) /\ IsSeq(<<a, b, c, d, e>>)
  BY <1>1, SeqIsSeq
<1> QED
  BY <1>2

\* What concatenation makes.
LEMMA JoinSeq ==
  ASSUME NEW p, NEW q, IsSeq(p), IsSeq(q)
  PROVE  /\ IsSeq(p \o q) /\ Len(p \o q) = Len(p) + Len(q)
         /\ \A n \in 1 .. Len(p) + Len(q) : (p \o q)[n] = IF n <= Len(p) THEN p[n] ELSE q[n - Len(p)]
         /\ Len(p) \in Nat /\ Len(q) \in Nat
<1> DEFINE S == Range(p) \cup Range(q)
<1>1. p \in Seq(S) /\ q \in Seq(S)
  BY DEF IsSeq
<1> HIDE DEF S
<1>2. /\ p \o q \in Seq(S) /\ Len(p \o q) = Len(p) + Len(q) /\ Len(p) \in Nat /\ Len(q) \in Nat
      /\ \A n \in 1 .. Len(p) + Len(q) : (p \o q)[n] = IF n <= Len(p) THEN p[n] ELSE q[n - Len(p)]
  BY <1>1, ConcatProperties
<1> QED
  BY <1>2, SeqIsSeq

\* A sequence of known length is the tuple of its elements.
LEMMA Tuples ==
  ASSUME NEW q, IsSeq(q)
  PROVE  /\ Len(q) = 1 => q = <<q[1]>>
         /\ Len(q) = 3 => q = <<q[1], q[2], q[3]>>
         /\ Len(q) = 4 => q = <<q[1], q[2], q[3], q[4]>>
         /\ Len(q) = 5 => q = <<q[1], q[2], q[3], q[4], q[5]>>
<1>1. ASSUME Len(q) = 1 PROVE q = <<q[1]>>
  <2> DEFINE t == <<q[1]>>
  <2>1. IsSeq(t) /\ Len(t) = 1
    BY ShortSeq
  <2>2. t[1] = q[1]
    OBVIOUS
  <2> HIDE DEF t
  <2>3. \A n \in 1 .. Len(t) : q[n] = t[n]
    BY <2>1, <2>2
  <2>4. q = t
    BY <1>1, <2>1, <2>3, SameSeq
  <2> QED
    BY <2>4 DEF t
<1>2. ASSUME Len(q) = 3 PROVE q = <<q[1], q[2], q[3]>>
  <2> DEFINE t == <<q[1], q[2], q[3]>>
  <2>1. IsSeq(t) /\ Len(t) = 3
    BY ShortSeq
  <2>2. t[1] = q[1] /\ t[2] = q[2] /\ t[3] = q[3]
    OBVIOUS
  <2> HIDE DEF t
  <2>3. \A n \in 1 .. Len(t) : q[n] = t[n]
    BY <2>1, <2>2
  <2>4. q = t
    BY <1>2, <2>1, <2>3, SameSeq
  <2> QED
    BY <2>4 DEF t
<1>3. ASSUME Len(q) = 4 PROVE q = <<q[1], q[2], q[3], q[4]>>
  <2> DEFINE t == <<q[1], q[2], q[3], q[4]>>
  <2>1. IsSeq(t) /\ Len(t) = 4
    BY ShortSeq
  <2>2. t[1] = q[1] /\ t[2] = q[2] /\ t[3] = q[3] /\ t[4] = q[4]
    OBVIOUS
  <2> HIDE DEF t
  <2>3. \A n \in 1 .. Len(t) : q[n] = t[n]
    BY <2>1, <2>2
  <2>4. q = t
    BY <1>3, <2>1, <2>3, SameSeq
  <2> QED
    BY <2>4 DEF t
<1>4. ASSUME Len(q) = 5 PROVE q = <<q[1], q[2], q[3], q[4], q[5]>>
  <2> DEFINE t == <<q[1], q[2], q[3], q[4], q[5]>>
  <2>1. IsSeq(t) /\ Len(t) = 5
    BY ShortSeq
  <2>2. t[1] = q[1] /\ t[2] = q[2] /\ t[3] = q[3] /\ t[4] = q[4] /\ t[5] = q[5]
    OBVIOUS
  <2> HIDE DEF t
  <2>3. \A n \in 1 .. Len(t) : q[n] = t[n]
    BY <2>1, <2>2
  <2>4. q = t
    BY <1>4, <2>1, <2>3, SameSeq
  <2> QED
    BY <2>4 DEF t
<1> QED
  BY <1>1, <1>2, <1>3, <1>4

\* A flight of one message is appended.
LEMMA JoinLast ==
  ASSUME NEW q, IsSeq(q), NEW v
  PROVE  q \o <<v>> = Append(q, v)
<1>1. q \in Seq(Range(q) \cup {v}) /\ v \in Range(q) \cup {v}
  BY DEF IsSeq
<1> QED
  BY <1>1, AppendIsConcat

\* A ClientHello and a server's TLS 1.2 flight.
LEMMA JoinFour ==
  ASSUME NEW a, NEW b, NEW c, NEW d
  PROVE  <<a>> \o <<b, c, d>> = <<a, b, c, d>>
<1> DEFINE p1 == <<a>>
           q3 == <<b, c, d>>
<1>1. IsSeq(p1) /\ Len(p1) = 1 /\ IsSeq(q3) /\ Len(q3) = 3
  BY ShortSeq
<1>2. p1[1] = a /\ q3[1] = b /\ q3[2] = c /\ q3[3] = d
  OBVIOUS
<1> HIDE DEF p1, q3
<1> DEFINE x == p1 \o q3
<1>3. /\ IsSeq(x) /\ Len(x) = Len(p1) + Len(q3)
      /\ \A n \in 1 .. Len(p1) + Len(q3) :
           x[n] = IF n <= Len(p1) THEN p1[n] ELSE q3[n - Len(p1)]
  BY <1>1, JoinSeq
<1> HIDE DEF x
<1>4. Len(x) = 4
  BY <1>1, <1>3
<1>5. x[1] = a /\ x[2] = b /\ x[3] = c /\ x[4] = d
  BY <1>1, <1>2, <1>3
<1>6. x = <<a, b, c, d>>
  BY <1>3, <1>4, <1>5, Tuples
<1> QED
  BY <1>6 DEF x, p1, q3

\* The messages of a handshake put together.
LEMMA Joins ==
  ASSUME NEW a, NEW b, NEW c, NEW d, NEW e
  PROVE  /\ <<a, b>> \o <<c, d, e>> = <<a, b, c, d, e>>
         /\ (<<a>> \o <<b, c, d>>) \o <<e>> = <<a, b, c, d, e>>
         /\ Append(Append(Append(<<a, b>>, c), d), e) = <<a, b, c, d, e>>
<1>1. /\ <<a>>[1] = a /\ <<e>>[1] = e
      /\ <<a, b>>[1] = a /\ <<a, b>>[2] = b
      /\ <<a, b, c>>[1] = a /\ <<a, b, c>>[2] = b /\ <<a, b, c>>[3] = c
      /\ <<b, c, d>>[1] = b /\ <<b, c, d>>[2] = c /\ <<b, c, d>>[3] = d
      /\ <<c, d, e>>[1] = c /\ <<c, d, e>>[2] = d /\ <<c, d, e>>[3] = e
      /\ <<a, b, c, d>>[1] = a /\ <<a, b, c, d>>[2] = b
      /\ <<a, b, c, d>>[3] = c /\ <<a, b, c, d>>[4] = d
  OBVIOUS
<1> DEFINE p1 == <<a>>
           r1 == <<e>>
           p2 == <<a, b>>
           p3 == <<a, b, c>>
           q3 == <<b, c, d>>
           r3 == <<c, d, e>>
           p4 == <<a, b, c, d>>
<1>2. /\ IsSeq(p1) /\ Len(p1) = 1 /\ IsSeq(r1) /\ Len(r1) = 1 /\ IsSeq(p2) /\ Len(p2) = 2
      /\ IsSeq(p3) /\ Len(p3) = 3 /\ IsSeq(q3) /\ Len(q3) = 3 /\ IsSeq(r3) /\ Len(r3) = 3
      /\ IsSeq(p4) /\ Len(p4) = 4
  BY ShortSeq
<1>3. /\ p1[1] = a /\ r1[1] = e /\ p2[1] = a /\ p2[2] = b
      /\ p3[1] = a /\ p3[2] = b /\ p3[3] = c /\ q3[1] = b /\ q3[2] = c /\ q3[3] = d
      /\ r3[1] = c /\ r3[2] = d /\ r3[3] = e
      /\ p4[1] = a /\ p4[2] = b /\ p4[3] = c /\ p4[4] = d
  BY <1>1
<1> HIDE DEF p1, r1, p2, p3, q3, r3, p4
<1>4. p2 \o r3 = <<a, b, c, d, e>>
  <2> DEFINE x == p2 \o r3
  <2>1. /\ IsSeq(x) /\ Len(x) = Len(p2) + Len(r3)
        /\ \A n \in 1 .. Len(p2) + Len(r3) :
             x[n] = IF n <= Len(p2) THEN p2[n] ELSE r3[n - Len(p2)]
    BY <1>2, JoinSeq
  <2> HIDE DEF x
  <2>2. Len(x) = 5
    BY <1>2, <2>1
  <2>3. x[1] = a /\ x[2] = b /\ x[3] = c /\ x[4] = d /\ x[5] = e
    BY <1>2, <1>3, <2>1
  <2>4. x = <<a, b, c, d, e>>
    BY <2>1, <2>2, <2>3, Tuples
  <2> QED
    BY <2>4 DEF x
<1>5. p1 \o q3 = <<a, b, c, d>>
  BY JoinFour DEF p1, q3
<1>6. p4 \o r1 = <<a, b, c, d, e>>
  <2> DEFINE x == p4 \o r1
  <2>1. /\ IsSeq(x) /\ Len(x) = Len(p4) + Len(r1)
        /\ \A n \in 1 .. Len(p4) + Len(r1) :
             x[n] = IF n <= Len(p4) THEN p4[n] ELSE r1[n - Len(p4)]
    BY <1>2, JoinSeq
  <2> HIDE DEF x
  <2>2. Len(x) = 5
    BY <1>2, <2>1
  <2>3. x[1] = a /\ x[2] = b /\ x[3] = c /\ x[4] = d /\ x[5] = e
    BY <1>2, <1>3, <2>1
  <2>4. x = <<a, b, c, d, e>>
    BY <2>1, <2>2, <2>3, Tuples
  <2> QED
    BY <2>4 DEF x
<1>7. ASSUME NEW q, IsSeq(q), NEW v
      PROVE  /\ IsSeq(Append(q, v)) /\ Len(Append(q, v)) = Len(q) + 1
             /\ \A n \in 1 .. Len(q) : Append(q, v)[n] = q[n]
             /\ Append(q, v)[Len(q) + 1] = v
  <2>1. q \in Seq(Range(q) \cup {v}) /\ v \in Range(q) \cup {v}
    BY <1>7 DEF IsSeq
  <2>2. /\ Append(q, v) \in Seq(Range(q) \cup {v}) /\ Len(Append(q, v)) = Len(q) + 1
        /\ \A n \in 1 .. Len(q) : Append(q, v)[n] = q[n]
        /\ Append(q, v)[Len(q) + 1] = v
    BY <2>1, AppendProperties
  <2> QED
    BY <2>2, SeqIsSeq
<1>8. Append(p2, c) = <<a, b, c>>
  <2> DEFINE x == Append(p2, c)
  <2>1. /\ IsSeq(x) /\ Len(x) = Len(p2) + 1
        /\ \A n \in 1 .. Len(p2) : x[n] = p2[n]
        /\ x[Len(p2) + 1] = c
    BY <1>2, <1>7
  <2> HIDE DEF x
  <2>2. Len(x) = 3 /\ x[1] = a /\ x[2] = b /\ x[3] = c
    BY <1>2, <1>3, <2>1
  <2>3. x = <<a, b, c>>
    BY <2>1, <2>2, Tuples
  <2> QED
    BY <2>3 DEF x
<1>9. Append(p3, d) = <<a, b, c, d>>
  <2> DEFINE x == Append(p3, d)
  <2>1. /\ IsSeq(x) /\ Len(x) = Len(p3) + 1
        /\ \A n \in 1 .. Len(p3) : x[n] = p3[n]
        /\ x[Len(p3) + 1] = d
    BY <1>2, <1>7
  <2> HIDE DEF x
  <2>2. Len(x) = 4 /\ x[1] = a /\ x[2] = b /\ x[3] = c /\ x[4] = d
    BY <1>2, <1>3, <2>1
  <2>3. x = <<a, b, c, d>>
    BY <2>1, <2>2, Tuples
  <2> QED
    BY <2>3 DEF x
<1>10. Append(p4, e) = <<a, b, c, d, e>>
  <2> DEFINE x == Append(p4, e)
  <2>1. /\ IsSeq(x) /\ Len(x) = Len(p4) + 1
        /\ \A n \in 1 .. Len(p4) : x[n] = p4[n]
        /\ x[Len(p4) + 1] = e
    BY <1>2, <1>7
  <2> HIDE DEF x
  <2>2. Len(x) = 5 /\ x[1] = a /\ x[2] = b /\ x[3] = c /\ x[4] = d /\ x[5] = e
    BY <1>2, <1>3, <2>1
  <2>3. x = <<a, b, c, d, e>>
    BY <2>1, <2>2, Tuples
  <2> QED
    BY <2>3 DEF x
<1>11. p1 \o q3 = p4 /\ Append(p2, c) = p3 /\ Append(p3, d) = p4
  BY <1>5, <1>8, <1>9 DEF p3, p4
<1>12. (p1 \o q3) \o r1 = <<a, b, c, d, e>>
       /\ Append(Append(Append(p2, c), d), e) = <<a, b, c, d, e>>
  BY <1>6, <1>10, <1>11
<1> QED
  BY <1>4, <1>12 DEF p1, r1, p2, q3, r3

\* How a server cuts its TLS 1.3 messages: one in the clear, three sealed.
LEMMA Parts ==
  ASSUME NEW a, NEW b, NEW c, NEW d, NEW e
  PROVE  /\ SubSeq(<<a, b, c, d, e>>, 2, 2) = <<b>>
         /\ SubSeq(<<a, b, c, d, e>>, 3, 5) = <<c, d, e>>
<1> DEFINE q == <<a, b, c, d, e>>
           S == {a, b, c, d, e}
<1>1. q \in Seq(S) /\ Len(q) = 5 /\ q[2] = b /\ q[3] = c /\ q[4] = d /\ q[5] = e
  OBVIOUS
<1> HIDE DEF q, S
<1>2. /\ SubSeq(q, 2, 2) \in Seq(S) /\ Len(SubSeq(q, 2, 2)) = 1
      /\ SubSeq(q, 2, 2)[1] = b
  BY <1>1, SubSeqProperties
<1> DEFINE x == SubSeq(q, 3, 5)
<1>3. /\ x \in Seq(S) /\ Len(x) = 3
      /\ \A n \in 1 .. (5 - 3 + 1) : x[n] = q[3 + n - 1]
  <2>1. \A n \in 3 .. 5 : q[n] \in S
    <3>1. \A n \in 3 .. 5 : n = 3 \/ n = 4 \/ n = 5
      OBVIOUS
    <3>2. q[3] \in S /\ q[4] \in S /\ q[5] \in S
      BY <1>1 DEF S
    <3> QED
      BY <3>1, <3>2
  <2>2. /\ SubSeq(q, 3, 5) \in Seq(S)
        /\ Len(SubSeq(q, 3, 5)) = IF 3 <= 5 THEN 5 - 3 + 1 ELSE 0
        /\ \A n \in 1 .. 5 - 3 + 1 : SubSeq(q, 3, 5)[n] = q[3 + n - 1]
    BY <2>1, SubSeqProperties
  <2> QED
    BY <2>2
<1> HIDE DEF x
<1>4. IsSeq(SubSeq(q, 2, 2)) /\ IsSeq(x)
  BY <1>2, <1>3, SeqIsSeq
<1>5. x[1] = c /\ x[2] = d /\ x[3] = e
  BY <1>1, <1>3
<1>6. SubSeq(q, 2, 2) = <<b>>
  BY <1>2, <1>4, Tuples
<1>7. x = <<c, d, e>>
  BY <1>3, <1>4, <1>5, Tuples
<1> QED
  BY <1>6, <1>7 DEF q, x
-----------------------------------------------------------------------------
(* Suites                                                                  *)

\* Who computes: this provider or another implementation.
Impls == {"wolf", "rfc"}

\* The suites of each family.
LEMMA ThreeNames ==
  /\ Range(Tls13Suites) = {"TLS13_CHACHA20_POLY1305_SHA256", "TLS13_AES_128_GCM_SHA256",
                           "TLS13_AES_256_GCM_SHA384"}
  /\ Range(Tls12RsaSuites) = {"TLS12_ECDHE_RSA_WITH_CHACHA20_POLY1305_SHA256",
        "TLS12_ECDHE_RSA_WITH_AES_128_GCM_SHA256", "TLS12_ECDHE_RSA_WITH_AES_256_GCM_SHA384"}
  /\ Range(Tls12EcdsaSuites) = {"TLS12_ECDHE_ECDSA_WITH_CHACHA20_POLY1305_SHA256",
        "TLS12_ECDHE_ECDSA_WITH_AES_128_GCM_SHA256", "TLS12_ECDHE_ECDSA_WITH_AES_256_GCM_SHA384"}
<1>1. \A a, b, c : Range(<<a, b, c>>) = {a, b, c}
  BY DEF Range
<1> QED
  BY <1>1 DEF Tls13Suites, Tls12RsaSuites, Tls12EcdsaSuites

\* The range of a concatenation.
LEMMA RangeJoined ==
  ASSUME NEW S, NEW p \in Seq(S), NEW q \in Seq(S)
  PROVE  Range(p \o q) = Range(p) \cup Range(q)
<1>1. Len(p) \in Nat /\ Len(q) \in Nat /\ DOMAIN p = 1 .. Len(p) /\ DOMAIN q = 1 .. Len(q)
  OBVIOUS
<1>2. DOMAIN (p \o q) = 1 .. Len(p) + Len(q)
  OBVIOUS
<1>3. \A n \in 1 .. Len(p) : n \in DOMAIN (p \o q) /\ (p \o q)[n] = p[n]
  BY <1>1
<1>4. \A n \in 1 .. Len(q) : Len(p) + n \in DOMAIN (p \o q) /\ (p \o q)[Len(p) + n] = q[n]
  BY <1>1
<1>5. \A n \in DOMAIN (p \o q) : n \in 1 .. Len(p) \/ \E k \in 1 .. Len(q) : n = Len(p) + k
  <2> SUFFICES ASSUME NEW n \in 1 .. Len(p) + Len(q), ~(n \in 1 .. Len(p))
               PROVE  \E k \in 1 .. Len(q) : n = Len(p) + k
    BY <1>2
  <2>1. n - Len(p) \in 1 .. Len(q) /\ n = Len(p) + (n - Len(p))
    BY <1>1
  <2> QED
    BY <2>1
<1>6. ASSUME NEW v \in Range(p \o q) PROVE v \in Range(p) \cup Range(q)
  <2>1. PICK n \in DOMAIN (p \o q) : v = (p \o q)[n]
    BY DEF Range
  <2>2. CASE n \in 1 .. Len(p)
    BY <1>1, <1>3, <2>1, <2>2 DEF Range
  <2>3. ASSUME NEW k \in 1 .. Len(q), n = Len(p) + k PROVE v \in Range(q)
    BY <1>1, <1>4, <2>1, <2>3 DEF Range
  <2> QED
    BY <1>5, <2>2, <2>3
<1>7. Range(p) \subseteq Range(p \o q)
  BY <1>1, <1>3 DEF Range
<1>8. Range(q) \subseteq Range(p \o q)
  BY <1>1, <1>4 DEF Range
<1> QED
  BY <1>6, <1>7, <1>8

\* ALL_CIPHER_SUITES is made of the three families and of nothing else.
LEMMA SuiteNames ==
  AllSuites = Range(Tls13Suites) \cup Range(Tls12RsaSuites) \cup Range(Tls12EcdsaSuites)
<1> DEFINE All == Range(Tls13Suites) \cup Range(Tls12RsaSuites) \cup Range(Tls12EcdsaSuites)
<1>1. Tls13Suites \in Seq(All) /\ Tls12RsaSuites \in Seq(All) /\ Tls12EcdsaSuites \in Seq(All)
  <2>1. \A a, b, c : <<a, b, c>> \in Seq(Range(<<a, b, c>>))
    BY DEF Range
  <2>2. \A S, T : S \subseteq T => Seq(S) \subseteq Seq(T)
    OBVIOUS
  <2>3. /\ Tls13Suites \in Seq(Range(Tls13Suites))
        /\ Tls12RsaSuites \in Seq(Range(Tls12RsaSuites))
        /\ Tls12EcdsaSuites \in Seq(Range(Tls12EcdsaSuites))
    BY <2>1 DEF Tls13Suites, Tls12RsaSuites, Tls12EcdsaSuites
  <2> QED
    BY <2>2, <2>3
<1> HIDE DEF All
<1>2. Tls13Suites \o Tls12RsaSuites \in Seq(All)
  BY <1>1
<1>3. Range(Tls13Suites \o Tls12RsaSuites) = Range(Tls13Suites) \cup Range(Tls12RsaSuites)
  BY <1>1, RangeJoined
<1>4. Range((Tls13Suites \o Tls12RsaSuites) \o Tls12EcdsaSuites) =
        Range(Tls13Suites \o Tls12RsaSuites) \cup Range(Tls12EcdsaSuites)
  BY <1>1, <1>2, RangeJoined
<1> QED
  BY <1>3, <1>4 DEF AllSuites, ALL_CIPHER_SUITES

\* Every entry of the provider's table means what the registry says: the suite
\* of this provider and that of another implementation are the same.
LEMMA SuiteIsRfc ==
  ASSUME NEW i \in Impls, NEW x \in AllSuites
  PROVE  SuiteOf(i, x) = RfcSuite(x)
<1>1. CASE x \in Range(Tls13Suites)
  <2>1. Suite(x) = Tls13Suite(x)
    BY <1>1 DEF Suite
  <2>2. RfcSuite(x) = Tls13(RfcHash(x), RfcHash(x), RfcAead(x))
    BY <1>1 DEF RfcSuite, Tls13
  <2>3. Tls13Suite(x) = Tls13(RfcHash(x), RfcHash(x), RfcAead(x))
    BY <1>1, ThreeNames DEF Tls13Suite, RfcHash, RfcAead, Sha384Suites, ChachaSuites
  <2> QED
    BY <2>1, <2>2, <2>3 DEF SuiteOf
<1>2. CASE x \in Range(Tls12RsaSuites)
  <2>1. x \notin Range(Tls13Suites)
    BY <1>2, ThreeNames
  <2>2. Suite(x) = Tls12RsaSuite(x)
    BY <1>2, <2>1 DEF Suite
  <2>3. RfcSuite(x) = Tls12(RfcHash(x), RfcHash(x), RfcAead(x), RSA_SUITE_SCHEMES)
    BY <1>2, <2>1 DEF RfcSuite, Tls12, RSA_SUITE_SCHEMES
  <2>4. Tls12RsaSuite(x) = Tls12(RfcHash(x), RfcHash(x), RfcAead(x), RSA_SUITE_SCHEMES)
    BY <1>2, ThreeNames DEF Tls12RsaSuite, RfcHash, RfcAead, Sha384Suites, ChachaSuites
  <2> QED
    BY <2>2, <2>3, <2>4 DEF SuiteOf
<1>3. CASE x \in Range(Tls12EcdsaSuites)
  <2>1. x \notin Range(Tls13Suites) /\ x \notin Range(Tls12RsaSuites)
    BY <1>3, ThreeNames
  <2>2. Suite(x) = Tls12EcdsaSuite(x)
    BY <1>3, <2>1 DEF Suite
  <2>3. RfcSuite(x) = Tls12(RfcHash(x), RfcHash(x), RfcAead(x), ALL_ECDSA_SCHEMES)
    BY <1>3, <2>1 DEF RfcSuite, Tls12, ALL_ECDSA_SCHEMES
  <2>4. Tls12EcdsaSuite(x) = Tls12(RfcHash(x), RfcHash(x), RfcAead(x), ALL_ECDSA_SCHEMES)
    BY <1>3, ThreeNames DEF Tls12EcdsaSuite, RfcHash, RfcAead, Sha384Suites, ChachaSuites
  <2> QED
    BY <2>2, <2>3, <2>4 DEF SuiteOf
<1> QED
  BY <1>1, <1>2, <1>3, SuiteNames

\* The hash functions and the record algorithms that a suite can name.
Hashes == {Sha256, Sha384}
Aeads == {"Aes128Gcm", "Aes256Gcm", "Chacha20Poly1305"}

\* Every suite has a version, a hash function and a record algorithm.
LEMMA SuiteTyped ==
  ASSUME NEW x \in AllSuites
  PROVE  /\ RfcSuite(x).version \in {"1.3", "1.2"}
         /\ RfcSuite(x).kdf \in Hashes
         /\ RfcSuite(x).aead_alg \in Aeads
BY DEF RfcSuite, RfcHash, RfcAead, Hashes, Aeads

\* One block of output is never too long for HKDF.
LEMMA HashLengths ==
  ASSUME NEW h \in Hashes
  PROVE  hash_len(h) \in Nat /\ hash_len(h) > 0 /\ ~(hash_len(h) > 255 * hash_len(h))
BY DEF hash_len, Hashes, Sha256, Sha384

\* key_block_shape and key_len give the lengths of RFC 5246, 5288 and 7905.
LEMMA ShapeIsRfc ==
  ASSUME NEW i \in Impls, NEW a \in Aeads
  PROVE  ShapeOf(i, a) = RfcShape(a) /\ KeyLen(i, a) = RfcShape(a).enc_key_len
BY DEF ShapeOf, KeyLen, key_block_shape, key_len, Shape, RfcShape, Aeads, Impls

\* The length of a single piece of output.
LEMMA PieceLength ==
  ASSUME NEW term, NEW at, NEW n \in Nat
  PROVE  ByteLen(Slice(term, at, n)) = n
<1> DEFINE b == Slice(term, at, n)
           total == CHOOSE f : f = [k \in 0 .. 1 |-> IF k = 0 THEN 0 ELSE f[k - 1] + b[k].len]
           g == [k \in 0 .. 1 |-> IF k = 0 THEN 0 ELSE n]
<1>1. Len(b) = 1 /\ b[1].len = n
  BY DEF Slice
<1>2. ByteLen(b) = total[1]
  BY <1>1 DEF ByteLen
<1> HIDE DEF b
<1>3. g = [k \in 0 .. 1 |-> IF k = 0 THEN 0 ELSE g[k - 1] + b[k].len]
  BY <1>1
<1> HIDE DEF g
<1>4. total = [k \in 0 .. 1 |-> IF k = 0 THEN 0 ELSE total[k - 1] + b[k].len]
  BY <1>3
<1> HIDE DEF total
<1>5. total[1] = n
  BY <1>4, <1>1
<1> QED
  BY <1>2, <1>5 DEF b

-----------------------------------------------------------------------------
(* The key schedule does not depend on who computes it                     *)

\* Bytes that were made are neither an error nor a panic.
LEMMA BytesMade ==
  ASSUME NEW t, NEW at, NEW len, len # 0
  PROVE  Slice(t, at, len) # NoBytes /\ Slice(t, at, len) # Panic
BY DEF Slice, NoBytes, Panic

\* expand_block computes HKDF-Expand-Label of one hash length.
LEMMA BlockSame ==
  ASSUME NEW i \in Impls, NEW h \in Hashes, NEW okm, NEW label, NEW context
  PROVE  DeriveBlock(i, WolfHkdfExpander(okm, h), label, context) =
           hkdf_expand(h, okm, FlattenSeq(Label(hash_len(h), label, context)), hash_len(h))
<1> DEFINE e == WolfHkdfExpander(okm, h)
<1>1. e.hash_len = hash_len(h) /\ e.hash_type = h /\ e.extracted_key = okm
  BY DEF WolfHkdfExpander
<1> HIDE DEF e
<1>2. DeriveBlock(i, e, label, context) =
        hkdf_expand(h, okm, FlattenSeq(Label(hash_len(h), label, context)), hash_len(h))
  <2>1. CASE i = "wolf"
    <3>1. expand_slice(e, Label(hash_len(h), label, context), hash_len(h)) =
            hkdf_expand(h, okm, FlattenSeq(Label(hash_len(h), label, context)), hash_len(h))
      BY <1>1, HashLengths DEF expand_slice, MAX_BLOCKS
    <3>2. hkdf_expand(h, okm, FlattenSeq(Label(hash_len(h), label, context)), hash_len(h)) # NoBytes
      BY HashLengths, BytesMade DEF hkdf_expand
    <3> QED
      BY <1>1, <2>1, <3>1, <3>2 DEF DeriveBlock, expand_block, expect
  <2>2. CASE i = "rfc"
    BY <1>1, <2>2, HashLengths DEF DeriveBlock, ExpandLabel, Expand
  <2> QED
    BY <2>1, <2>2 DEF Impls
<1> QED
  BY <1>2 DEF e

\* So expand_block never panics.
LEMMA BlockMade ==
  ASSUME NEW i \in Impls, NEW h \in Hashes, NEW okm, NEW label, NEW context
  PROVE  DeriveBlock(i, WolfHkdfExpander(okm, h), label, context) # Panic
<1>1. \A info : hkdf_expand(h, okm, info, hash_len(h)) # Panic
  BY HashLengths, BytesMade DEF hkdf_expand
<1> QED
  BY <1>1, BlockSame

\* What a block was derived from can be told from it.
LEMMA BlockTells ==
  ASSUME NEW i \in Impls, NEW h \in Hashes, NEW okm, NEW label, NEW context
  PROVE  DeriveBlock(i, WolfHkdfExpander(okm, h), label, context)[1].of.prk = okm
<1>1. \A info, len : hkdf_expand(h, okm, info, len)[1].of.prk = okm
  BY DEF hkdf_expand, Slice
<1> QED
  BY <1>1, BlockSame

\* expand_slice computes HKDF-Expand-Label, and refuses the same lengths.
LEMMA LabelSame ==
  ASSUME NEW i \in Impls, NEW h \in Hashes, NEW okm, NEW label, NEW context, NEW len
  PROVE  ExpandLabel(i, WolfHkdfExpander(okm, h), label, context, len) =
           IF len > 255 * hash_len(h) THEN NoBytes
           ELSE hkdf_expand(h, okm, FlattenSeq(Label(len, label, context)), len)
<1> DEFINE e == WolfHkdfExpander(okm, h)
<1>1. e.hash_len = hash_len(h) /\ e.hash_type = h /\ e.extracted_key = okm
  BY DEF WolfHkdfExpander
<1> HIDE DEF e
<1>2. ExpandLabel(i, e, label, context, len) =
        IF len > 255 * hash_len(h) THEN NoBytes
        ELSE hkdf_expand(h, okm, FlattenSeq(Label(len, label, context)), len)
  BY <1>1 DEF ExpandLabel, Expand, expand_slice, MAX_BLOCKS
<1> QED
  BY <1>2 DEF e

\* expander_for_okm takes a secret as it is.
LEMMA OkmSame ==
  ASSUME NEW i \in Impls, NEW s, NEW okm
  PROVE  FromOkm(i, s, okm) = WolfHkdfExpander(okm, s.kdf)
BY DEF FromOkm, expander_for_okm

\* extract_from_secret computes HKDF-Extract where there is a salt.
LEMMA ExtractSame ==
  ASSUME NEW i \in Impls, NEW h \in Hashes, NEW salt, NEW ikm, salt # NoBytes
  PROVE  Extract(i, h, salt, ikm) = WolfHkdfExpander(hkdf_extract(h, salt, ikm), h)
BY DEF Extract, extract_from_secret

\* extract_from_zero_ikm extracts from a hash length of zeros, with zeros for a
\* missing salt.
LEMMA FromZeroSame ==
  ASSUME NEW i \in Impls, NEW h \in Hashes, NEW salt
  PROVE  ExtractFromZero(i, h, salt) =
           WolfHkdfExpander(
             hkdf_extract(h, IF salt = NoBytes THEN ZeroBytes(hash_len(h)) ELSE salt,
                          ZeroBytes(hash_len(h))), h)
BY DEF ExtractFromZero, extract_from_zero_ikm, Extract, extract_from_secret, Impls

\* The handshake secret does not depend on who computes it.
LEMMA HandshakeSecretSame ==
  ASSUME NEW i \in Impls, NEW s, s.kdf \in Hashes, NEW dh
  PROVE  /\ HandshakeSecret(i, s, dh) = HandshakeSecret("rfc", s, dh)
         /\ HandshakeSecret(i, s, dh) =
              WolfHkdfExpander(
                hkdf_extract(s.kdf, DerivedSalt("rfc", s, ExtractFromZero("rfc", s.kdf, NoBytes)),
                             SecretBytes(dh)), s.kdf)
<1> DEFINE first == hkdf_extract(s.kdf, ZeroBytes(hash_len(s.kdf)), ZeroBytes(hash_len(s.kdf)))
           zero == WolfHkdfExpander(first, s.kdf)
           salt == hkdf_expand(s.kdf, first,
                     FlattenSeq(Label(hash_len(s.kdf), "derived", Hash(s.hash_provider, <<>>))),
                     hash_len(s.kdf))
<1>1. ASSUME NEW j \in Impls PROVE ExtractFromZero(j, s.kdf, NoBytes) = zero
  BY FromZeroSame
<1> HIDE DEF first
<1>2. ASSUME NEW j \in Impls PROVE DerivedSalt(j, s, zero) = salt
  BY BlockSame DEF DerivedSalt
<1>3. salt # NoBytes
  BY HashLengths DEF hkdf_expand, Slice, NoBytes
<1> HIDE DEF zero, salt
<1>4. ASSUME NEW j \in Impls
      PROVE  HandshakeSecret(j, s, dh) =
               WolfHkdfExpander(hkdf_extract(s.kdf, salt, SecretBytes(dh)), s.kdf)
  BY <1>1, <1>2, <1>3, ExtractSame DEF HandshakeSecret
<1>5. "rfc" \in Impls
  BY DEF Impls
<1> QED
  BY <1>1, <1>2, <1>4, <1>5

\* Nor does the master secret.
LEMMA MasterSecretSame ==
  ASSUME NEW i \in Impls, NEW s, s.kdf \in Hashes, NEW dh
  PROVE  /\ MasterSecret(i, s, dh) = MasterSecret("rfc", s, dh)
         /\ \E okm : MasterSecret(i, s, dh) = WolfHkdfExpander(okm, s.kdf)
<1> DEFINE hs == hkdf_extract(s.kdf, DerivedSalt("rfc", s, ExtractFromZero("rfc", s.kdf, NoBytes)),
                              SecretBytes(dh))
           salt == hkdf_expand(s.kdf, hs,
                     FlattenSeq(Label(hash_len(s.kdf), "derived", Hash(s.hash_provider, <<>>))),
                     hash_len(s.kdf))
           okm == hkdf_extract(s.kdf, IF salt = NoBytes THEN ZeroBytes(hash_len(s.kdf)) ELSE salt,
                               ZeroBytes(hash_len(s.kdf)))
<1>1. ASSUME NEW j \in Impls
      PROVE  HandshakeSecret(j, s, dh) = WolfHkdfExpander(hs, s.kdf)
  BY HandshakeSecretSame
<1> HIDE DEF hs
<1>2. ASSUME NEW j \in Impls PROVE DerivedSalt(j, s, WolfHkdfExpander(hs, s.kdf)) = salt
  BY BlockSame DEF DerivedSalt
<1> HIDE DEF salt
<1>3. ASSUME NEW j \in Impls PROVE MasterSecret(j, s, dh) = WolfHkdfExpander(okm, s.kdf)
  BY <1>1, <1>2, FromZeroSame DEF MasterSecret
<1>4. "rfc" \in Impls
  BY DEF Impls
<1> QED
  BY <1>3, <1>4

\* Nor does a traffic secret.
LEMMA TrafficSecretSame ==
  ASSUME NEW i \in Impls, NEW s, s.kdf \in Hashes, NEW okm, NEW label, NEW messages
  PROVE  TrafficSecret(i, s, WolfHkdfExpander(okm, s.kdf), label, messages) =
           TrafficSecret("rfc", s, WolfHkdfExpander(okm, s.kdf), label, messages)
<1>1. "rfc" \in Impls
  BY DEF Impls
<1> QED
  BY <1>1, BlockSame DEF TrafficSecret

\* Nor do a traffic key and its IV, and both have the length their cipher takes.
LEMMA TrafficKeys ==
  ASSUME NEW i \in Impls, NEW s, s.kdf \in Hashes, s.aead_alg \in Aeads, NEW okm
  PROVE  /\ TrafficKey(i, s, okm) =
              hkdf_expand(s.kdf, okm, FlattenSeq(Label(RfcShape(s.aead_alg).enc_key_len, "key", <<>>)),
                          RfcShape(s.aead_alg).enc_key_len)
         /\ TrafficIv(i, s, okm) =
              hkdf_expand(s.kdf, okm, FlattenSeq(Label(12, "iv", <<>>)), 12)
         /\ TrafficKey(i, s, okm) = TrafficKey("rfc", s, okm)
         /\ TrafficIv(i, s, okm) = TrafficIv("rfc", s, okm)
<1>1. RfcShape(s.aead_alg).enc_key_len \in {16, 32}
  BY DEF RfcShape
<1>2. ~(12 > 255 * hash_len(s.kdf)) /\ ~(16 > 255 * hash_len(s.kdf))
      /\ ~(32 > 255 * hash_len(s.kdf))
  BY DEF hash_len
<1>3. ASSUME NEW j \in Impls
      PROVE  /\ TrafficKey(j, s, okm) =
                  hkdf_expand(s.kdf, okm,
                              FlattenSeq(Label(RfcShape(s.aead_alg).enc_key_len, "key", <<>>)),
                              RfcShape(s.aead_alg).enc_key_len)
             /\ TrafficIv(j, s, okm) =
                  hkdf_expand(s.kdf, okm, FlattenSeq(Label(12, "iv", <<>>)), 12)
  <2>1. KeyLen(j, s.aead_alg) = RfcShape(s.aead_alg).enc_key_len
    BY ShapeIsRfc
  <2> QED
    BY <1>1, <1>2, <2>1, OkmSame, LabelSame DEF TrafficKey, TrafficIv, NONCE_LEN
<1>4. "rfc" \in Impls
  BY DEF Impls
<1> QED
  BY <1>3, <1>4

\* So every traffic secret makes a cipher, and both ends make the same one.
LEMMA TrafficCipherMade ==
  ASSUME NEW i \in Impls, NEW s, s.kdf \in Hashes, s.aead_alg \in Aeads, NEW okm
  PROVE  /\ TrafficCipher(i, s, okm) = TrafficCipher("rfc", s, okm)
         /\ TrafficCipher(i, s, okm) =
              [aead |-> s.aead_alg, key |-> TrafficKey("rfc", s, okm), iv |-> TrafficIv("rfc", s, okm)]
         /\ ByteLen(TrafficKey("rfc", s, okm)) = RfcShape(s.aead_alg).enc_key_len
<1>1. RfcShape(s.aead_alg).enc_key_len \in Nat
      /\ (s.aead_alg = "Chacha20Poly1305" => RfcShape(s.aead_alg).enc_key_len = 32)
  BY DEF RfcShape
<1>2. /\ ByteLen(TrafficKey("rfc", s, okm)) = RfcShape(s.aead_alg).enc_key_len
      /\ ByteLen(TrafficIv("rfc", s, okm)) = 12
  <2>1. PICK t, u : /\ TrafficKey("rfc", s, okm) = Slice(t, 0, RfcShape(s.aead_alg).enc_key_len)
                    /\ TrafficIv("rfc", s, okm) = Slice(u, 0, 12)
    <3>1. /\ TrafficKey("rfc", s, okm) =
                 hkdf_expand(s.kdf, okm, FlattenSeq(Label(RfcShape(s.aead_alg).enc_key_len, "key", <<>>)),
                             RfcShape(s.aead_alg).enc_key_len)
          /\ TrafficIv("rfc", s, okm) =
                 hkdf_expand(s.kdf, okm, FlattenSeq(Label(12, "iv", <<>>)), 12)
      BY TrafficKeys DEF Impls
    <3> QED
      BY <3>1 DEF hkdf_expand
  <2> QED
    BY <1>1, <2>1, PieceLength
<1>3. TrafficKey(i, s, okm) = TrafficKey("rfc", s, okm)
      /\ TrafficIv(i, s, okm) = TrafficIv("rfc", s, okm)
  BY TrafficKeys
<1> QED
  BY <1>1, <1>2, <1>3 DEF TrafficCipher, Tls13Cipher, Tls13GcmCipher, ChachaCipher, NONCE_LEN

\* The whole TLS 1.3 key schedule does not depend on who computes it.
LEMMA ScheduleSame ==
  ASSUME NEW i \in Impls, NEW s, s.kdf \in Hashes, s.aead_alg \in Aeads, NEW dh, NEW m
  PROVE  /\ Schedule13(i, s, dh, m) = Schedule13("rfc", s, dh, m)
         /\ HandshakeTraffic(i, s, dh, m) = HandshakeTraffic("rfc", s, dh, m)
         /\ ServerFinished13(i, s, dh, m) = ServerFinished13("rfc", s, dh, m)
<1>1. "rfc" \in Impls
  BY DEF Impls
<1>2. HandshakeTraffic(i, s, dh, m) = HandshakeTraffic("rfc", s, dh, m)
  <2>1. PICK okm : /\ HandshakeSecret(i, s, dh) = WolfHkdfExpander(okm, s.kdf)
                   /\ HandshakeSecret("rfc", s, dh) = WolfHkdfExpander(okm, s.kdf)
    BY HandshakeSecretSame
  <2>2. \A label, mm : TrafficSecret(i, s, WolfHkdfExpander(okm, s.kdf), label, mm) =
                         TrafficSecret("rfc", s, WolfHkdfExpander(okm, s.kdf), label, mm)
    BY TrafficSecretSame
  <2> QED
    BY <2>1, <2>2 DEF HandshakeTraffic
<1>3. PICK okm : /\ MasterSecret(i, s, dh) = WolfHkdfExpander(okm, s.kdf)
                 /\ MasterSecret("rfc", s, dh) = WolfHkdfExpander(okm, s.kdf)
  BY MasterSecretSame
<1>4. \A label, mm : TrafficSecret(i, s, WolfHkdfExpander(okm, s.kdf), label, mm) =
                       TrafficSecret("rfc", s, WolfHkdfExpander(okm, s.kdf), label, mm)
  BY TrafficSecretSame
<1>5. ApplicationTraffic(i, s, dh, m) = ApplicationTraffic("rfc", s, dh, m)
  BY <1>3, <1>4 DEF ApplicationTraffic
<1>6. TrafficSecret(i, s, MasterSecret(i, s, dh), "exp master", m) =
        TrafficSecret("rfc", s, MasterSecret("rfc", s, dh), "exp master", m)
  BY <1>3, <1>4
<1>7. \A t : Ciphers13(i, s, t) = Ciphers13("rfc", s, t)
  <2>1. \A t : TrafficCipher(i, s, t) = TrafficCipher("rfc", s, t)
    BY TrafficCipherMade
  <2> QED
    BY <2>1 DEF Ciphers13
<1>8. \A t, mm : FinishedMac13(i, s, t, mm) = FinishedMac13("rfc", s, t, mm)
  <2> SUFFICES ASSUME NEW t, NEW mm PROVE FinishedMac13(i, s, t, mm) = FinishedMac13("rfc", s, t, mm)
    OBVIOUS
  <2>1. FinishedKey(i, s, t) = FinishedKey("rfc", s, t)
    BY <1>1, OkmSame, BlockSame DEF FinishedKey
  <2> QED
    BY <2>1 DEF FinishedMac13, hmac_sign
<1> QED
  BY <1>2, <1>5, <1>6, <1>7, <1>8 DEF Schedule13, ServerFinished13

\* All its blocks and its ciphers can be made, with keys of the length of the
\* algorithm.
LEMMA ScheduleMade ==
  ASSUME NEW i \in Impls, NEW s, s.kdf \in Hashes, s.aead_alg \in Aeads, NEW dh, NEW m
  PROVE  /\ HandshakeMade(i, s, dh, m) /\ ApplicationMade(i, s, dh, m)
         /\ \A r \in Roles :
              LET hs == Schedule13(i, s, dh, m).hs_cipher[r]
                  ap == Schedule13(i, s, dh, m).ap_cipher[r]
              IN  /\ hs.aead = s.aead_alg /\ ByteLen(hs.key) = RfcShape(s.aead_alg).enc_key_len
                  /\ ap.aead = s.aead_alg /\ ByteLen(ap.key) = RfcShape(s.aead_alg).enc_key_len
<1> DEFINE k == Schedule13(i, s, dh, m)
<1>1. PICK a, b : k.hs_cipher = Ciphers13(i, s, a) /\ k.ap_cipher = Ciphers13(i, s, b)
  BY DEF Schedule13
<1>2. \A t : /\ TrafficCipher(i, s, t).aead = s.aead_alg
             /\ ByteLen(TrafficCipher(i, s, t).key) = RfcShape(s.aead_alg).enc_key_len
  BY TrafficCipherMade
<1>3. \A t : TrafficCipher(i, s, t) # NoCipher
  BY <1>2 DEF NoCipher, Aeads
<1> HIDE DEF k
<1>4. HandshakeMade(i, s, dh, m) /\ ApplicationMade(i, s, dh, m)
  <2>1. \A okm, label, context :
          DeriveBlock(i, WolfHkdfExpander(okm, s.kdf), label, context) # Panic
    BY BlockMade
  <2>2. /\ \E okm : ExtractFromZero(i, s.kdf, NoBytes) = WolfHkdfExpander(okm, s.kdf)
        /\ \E okm : HandshakeSecret(i, s, dh) = WolfHkdfExpander(okm, s.kdf)
        /\ \E okm : MasterSecret(i, s, dh) = WolfHkdfExpander(okm, s.kdf)
    BY FromZeroSame, HandshakeSecretSame, MasterSecretSame
  <2>3. /\ DerivedSalt(i, s, ExtractFromZero(i, s.kdf, NoBytes)) # Panic
        /\ DerivedSalt(i, s, HandshakeSecret(i, s, dh)) # Panic
    BY <2>1, <2>2 DEF DerivedSalt
  <2>4. \A label, messages :
          /\ TrafficSecret(i, s, HandshakeSecret(i, s, dh), label, messages) # Panic
          /\ TrafficSecret(i, s, MasterSecret(i, s, dh), label, messages) # Panic
    BY <2>1, <2>2 DEF TrafficSecret
  <2>5. \A t : FinishedKey(i, s, t) # Panic
    BY <2>1, OkmSame DEF FinishedKey
  <2>6. \A r \in Roles : /\ HandshakeTraffic(i, s, dh, m)[r] # Panic
                         /\ ApplicationTraffic(i, s, dh, m)[r] # Panic
    <3>1. /\ HandshakeTraffic(i, s, dh, m).client # Panic
          /\ HandshakeTraffic(i, s, dh, m).server # Panic
      BY <2>4 DEF HandshakeTraffic
    <3>2. /\ ApplicationTraffic(i, s, dh, m).client # Panic
          /\ ApplicationTraffic(i, s, dh, m).server # Panic
      BY <2>4 DEF ApplicationTraffic
    <3> QED
      BY <3>1, <3>2 DEF Roles
  <2> QED
    BY <1>3, <2>3, <2>4, <2>5, <2>6 DEF HandshakeMade, ApplicationMade
<1>5. \A r \in Roles :
        /\ k.hs_cipher[r].aead = s.aead_alg
        /\ ByteLen(k.hs_cipher[r].key) = RfcShape(s.aead_alg).enc_key_len
        /\ k.ap_cipher[r].aead = s.aead_alg
        /\ ByteLen(k.ap_cipher[r].key) = RfcShape(s.aead_alg).enc_key_len
  BY <1>1, <1>2 DEF Ciphers13
<1> QED
  BY <1>4, <1>5 DEF k

\* The Finished of a client tells all of the messages and the secret.
LEMMA FinishedTells13 ==
  ASSUME NEW m, NEW n, NEW dh, NEW eh, m[2].suite \in AllSuites, n[2].suite \in AllSuites,
         Schedule(dh, m).client_finished = Schedule(eh, n).client_finished
  PROVE  m = n /\ dh = eh
<1> DEFINE mac(d, x) == FinishedMac13("rfc", SuiteIn(x), HandshakeTraffic("rfc", SuiteIn(x), d, x).client, x)
<1>1. "rfc" \in Impls /\ SuiteIn(m).kdf \in Hashes /\ SuiteIn(n).kdf \in Hashes
  BY SuiteTyped DEF SuiteIn, Impls
<1>2. mac(dh, m) = mac(eh, n)
  BY DEF Schedule, Schedule13, Finished
<1>3. ASSUME NEW d, NEW x, SuiteIn(x).kdf \in Hashes
      PROVE  /\ mac(d, x)[1].of.data[1].of.messages = x
             /\ mac(d, x)[1].of.key[1].of.prk[1].of.prk[1].of.data[1].of.dh = d
  <2> DEFINE s == SuiteIn(x)
             hs == HandshakeTraffic("rfc", s, d, x).client
             fkey == FinishedKey("rfc", s, hs)
  <2>1. PICK salt : HandshakeSecret("rfc", s, d) =
                      WolfHkdfExpander(hkdf_extract(s.kdf, salt, SecretBytes(d)), s.kdf)
    BY <1>1, <1>3, HandshakeSecretSame
  <2>2. hs[1].of.prk = hkdf_extract(s.kdf, salt, SecretBytes(d))
    <3>1. hs = DeriveBlock("rfc", WolfHkdfExpander(hkdf_extract(s.kdf, salt, SecretBytes(d)), s.kdf),
                           "c hs traffic", Hash(s.hash_provider, SubSeq(x, 1, 2)))
      BY <2>1 DEF HandshakeTraffic, TrafficSecret
    <3>2. s.kdf \in Hashes
      BY <1>3
    <3> DEFINE ikm == hkdf_extract(s.kdf, salt, SecretBytes(d))
               context == Hash(s.hash_provider, SubSeq(x, 1, 2))
               label == "c hs traffic"
    <3> HIDE DEF hs, s, ikm, context, label
    <3>3. DeriveBlock("rfc", WolfHkdfExpander(ikm, s.kdf), label, context)[1].of.prk = ikm
      BY <1>1, <3>2, BlockTells
    <3>4. hs = DeriveBlock("rfc", WolfHkdfExpander(ikm, s.kdf), label, context)
      BY <3>1 DEF ikm, context, label
    <3>5. hs[1].of.prk = ikm
      BY <3>3, <3>4
    <3> QED
      BY <3>5 DEF ikm
  <2> HIDE DEF hs
  <2>3. fkey[1].of.prk = hs
    BY <1>1, <1>3, OkmSame, BlockTells DEF FinishedKey
  <2> HIDE DEF fkey
  <2>4. mac(d, x) = hkdf_extract(s.kdf, fkey, Hash(s.hash_provider, x))
    BY DEF FinishedMac13, hs, fkey
  <2>5. mac(d, x)[1].of.data[1].of.messages = x /\ mac(d, x)[1].of.key = fkey
    BY <2>4 DEF hkdf_extract, Hash, Slice
  <2>6. hkdf_extract(s.kdf, salt, SecretBytes(d))[1].of.data[1].of.dh = d
    BY DEF hkdf_extract, SecretBytes, Slice
  <2> QED
    BY <2>2, <2>3, <2>5, <2>6
<1> HIDE DEF mac
<1>4. /\ mac(dh, m)[1].of.data[1].of.messages = m /\ mac(eh, n)[1].of.data[1].of.messages = n
      /\ mac(dh, m)[1].of.key[1].of.prk[1].of.prk[1].of.data[1].of.dh = dh
      /\ mac(eh, n)[1].of.key[1].of.prk[1].of.prk[1].of.data[1].of.dh = eh
  BY <1>1, <1>3
<1> QED
  BY <1>2, <1>4

-----------------------------------------------------------------------------
(* TLS 1.2                                                                 *)

\* The provider's PRF is the PRF of RFC 5246, and for_secret never panics, for
\* every output that is not empty.
LEMMA PrfSame ==
  ASSUME NEW i \in Impls, NEW len, len # 0, NEW secret, NEW label, NEW seed, NEW h
  PROVE  /\ Prf(i, len, secret, label, seed, h) = prf(secret, label \o seed, h, len)
         /\ Prf(i, len, secret, label, seed, h) # Panic
<1>1. /\ prf(secret, label \o seed, h, len) # NoBytes
      /\ prf(secret, label \o seed, h, len) # Panic
  BY BytesMade DEF prf
<1> QED
  BY <1>1 DEF Prf, for_secret, wc_prf, expect

\* Equal TLS 1.2 Finished values come from equal messages and master secrets.
LEMMA FinishedTells12 ==
  ASSUME NEW m, NEW n, NEW ms, NEW ns, NEW role, NEW s, NEW u,
         Finished(FinishedMac12("rfc", s, ms, role, m)) =
           Finished(FinishedMac12("rfc", u, ns, role, n))
  PROVE  m = n /\ ms = ns
<1>1. FinishedMac12("rfc", s, ms, role, m) = FinishedMac12("rfc", u, ns, role, n)
  BY DEF Finished
<1>2. ASSUME NEW z, NEW x, NEW mm
      PROVE  /\ FinishedMac12("rfc", z, x, role, mm)[1].of.secret = x
             /\ FinishedMac12("rfc", z, x, role, mm)[1].of.seed[2].of.messages = mm
  <2>1. FinishedMac12("rfc", z, x, role, mm) =
          prf(x, Text(role) \o Hash(z.hash_provider, mm), z.kdf, 12)
    BY PrfSame DEF FinishedMac12, Impls
  <2>2. (Text(role) \o Hash(z.hash_provider, mm))[2].of.messages = mm
    BY DEF Text, Hash, Slice
  <2>3. \A seed : /\ prf(x, seed, z.kdf, 12)[1].of.secret = x
                  /\ prf(x, seed, z.kdf, 12)[1].of.seed = seed
    BY DEF prf, Slice
  <2> QED
    BY <2>1, <2>2, <2>3
<1> QED
  BY <1>1, <1>2

\* A TLS 1.2 Finished value does not depend on who computes it.
LEMMA FinishedSame12 ==
  ASSUME NEW i \in Impls, NEW s, NEW ms, NEW role, NEW m
  PROVE  /\ FinishedMac12(i, s, ms, role, m) = FinishedMac12("rfc", s, ms, role, m)
         /\ Finished(FinishedMac12(i, s, ms, role, m)).mac # Panic
BY PrfSame DEF FinishedMac12, Finished, Impls

\* A key block, and how it is cut up.
BlockTerm(s, ms, cr, sr) ==
  [prf |-> s.kdf, secret |-> ms, seed |-> Text("key expansion") \o (Number(sr) \o Number(cr))]
\* The key block of an algorithm, cut from the output t of the PRF.
Cut(a, t) ==
  LET k == RfcShape(a).enc_key_len
      f == RfcShape(a).fixed_iv_len
      e == RfcShape(a).explicit_nonce_len
  IN  [client |-> [key |-> Slice(t, 0, k), iv |-> Slice(t, 2 * k, f)],
       server |-> [key |-> Slice(t, k, k), iv |-> Slice(t, 2 * k + f, f)],
       extra |-> IF e = 0 THEN <<>> ELSE Slice(t, 2 * k + 2 * f, e)]

\* What KeyBlock cuts, with the shape of either implementation.
LEMMA BlockCut ==
  ASSUME NEW i \in Impls, NEW s, s.aead_alg \in Aeads, NEW ms, NEW cr, NEW sr
  PROVE  /\ KeyBlock(i, s, ms, cr, sr) = Cut(s.aead_alg, BlockTerm(s, ms, cr, sr))
         /\ KeyMaterial(i, s, ms, cr, sr) # Panic
<1> DEFINE k == RfcShape(s.aead_alg).enc_key_len
           f == RfcShape(s.aead_alg).fixed_iv_len
           e == RfcShape(s.aead_alg).explicit_nonce_len
           len == 2 * k + 2 * f + e
           label == Text("key expansion")
           seed == Number(sr) \o Number(cr)
           block == prf(ms, label \o seed, s.kdf, len)
           t == [prf |-> s.kdf, secret |-> ms, seed |-> label \o seed]
<1>1. k \in Nat /\ f \in Nat /\ e \in Nat /\ len # 0
  BY DEF RfcShape
<1>2. ShapeOf(i, s.aead_alg) = RfcShape(s.aead_alg)
  BY ShapeIsRfc
<1> HIDE DEF label, seed
<1>3. Prf(i, len, ms, label, seed, s.kdf) = block /\ Prf(i, len, ms, label, seed, s.kdf) # Panic
  <2> HIDE DEF len
  <2> QED
    BY <1>1, PrfSame
<1>10. KeyMaterial(i, s, ms, cr, sr) = block /\ KeyMaterial(i, s, ms, cr, sr) # Panic
  BY <1>2, <1>3 DEF KeyMaterial, label, seed
<1>4. block = Slice(t, 0, len)
  BY DEF prf
<1> HIDE DEF block, t
<1>5. block[1].of = t /\ block[1].at = 0
  BY <1>4 DEF Slice
<1>6. \A at \in Nat : \A n : Sub(block, at, n) = Slice(t, at, n)
  BY <1>5 DEF Sub
<1> HIDE DEF k, f, e
<1>7. KeyBlock(i, s, ms, cr, sr) =
        [client |-> [key |-> Sub(block, 0, k), iv |-> Sub(block, 2 * k, f)],
         server |-> [key |-> Sub(block, k, k), iv |-> Sub(block, 2 * k + f, f)],
         extra |-> IF e = 0 THEN <<>> ELSE Sub(block, 2 * k + 2 * f, e)]
  BY <1>2, <1>10 DEF KeyBlock, k, f, e
<1>8. 0 \in Nat /\ 2 * k \in Nat /\ 2 * k + f \in Nat /\ 2 * k + 2 * f \in Nat
  BY <1>1
<1>9. KeyBlock(i, s, ms, cr, sr) =
        [client |-> [key |-> Slice(t, 0, k), iv |-> Slice(t, 2 * k, f)],
         server |-> [key |-> Slice(t, k, k), iv |-> Slice(t, 2 * k + f, f)],
         extra |-> IF e = 0 THEN <<>> ELSE Slice(t, 2 * k + 2 * f, e)]
  BY <1>1, <1>6, <1>7, <1>8
<1> QED
  BY <1>9, <1>10 DEF Cut, BlockTerm, t, label, seed, k, f, e

\* The key block does not depend on who computes it.
LEMMA BlockSame12 ==
  ASSUME NEW i \in Impls, NEW s, s.aead_alg \in Aeads, NEW ms, NEW cr, NEW sr
  PROVE  KeyBlock(i, s, ms, cr, sr) = KeyBlock("rfc", s, ms, cr, sr)
BY BlockCut DEF Impls

\* The fixed part of a TLS 1.2 IV.
LEMMA FirstOf ==
  ASSUME NEW u, NEW v
  PROVE  SubSeq(<<u, v>>, 1, 1) = <<u>> /\ SubSeq(<<u>>, 1, 1) = <<u>>
<1> DEFINE S == {u, v}
<1>1. <<u, v>> \in Seq(S) /\ <<u>> \in Seq(S) /\ Len(<<u, v>>) = 2 /\ Len(<<u>>) = 1
  OBVIOUS
<1>2. <<u, v>>[1] = u /\ <<u>>[1] = u
  OBVIOUS
<1> HIDE DEF S
<1>3. ASSUME NEW q \in Seq(S), Len(q) >= 1, q[1] = u PROVE SubSeq(q, 1, 1) = <<u>>
  <2>1. SubSeq(q, 1, 1) \in Seq(S) /\ Len(SubSeq(q, 1, 1)) = 1 /\ SubSeq(q, 1, 1)[1] = q[1]
    BY <1>3, SubSeqProperties
  <2>2. ASSUME NEW p \in Seq(S), Len(p) = 1, p[1] = u PROVE p = <<u>>
    BY <1>1, <1>2, <2>2, SeqEqual
  <2> QED
    BY <1>3, <2>1, <2>2
<1>4. Len(<<u, v>>) >= 1 /\ Len(<<u>>) >= 1
  BY <1>1
<1>5. SubSeq(<<u, v>>, 1, 1) = <<u>>
  BY <1>1, <1>3, <1>2, <1>4
<1>6. SubSeq(<<u>>, 1, 1) = <<u>>
  BY <1>1, <1>3, <1>2, <1>4
<1> QED
  BY <1>5, <1>6

\* Both ends can make the ciphers of a TLS 1.2 suite from its key block; the
\* keys have the right length, and what one writes with the other reads with.
LEMMA Ciphers12 ==
  ASSUME NEW s, s.aead_alg \in Aeads, s.version = "1.2", NEW t, NEW r \in Roles
  PROVE  LET b == Cut(s.aead_alg, t)
             w == Write12(s, b, r)
             d == Read12(s, b, Other(r))
         IN  /\ w # NoCipher /\ d # NoCipher
             /\ w.aead = s.aead_alg /\ ByteLen(w.key) = RfcShape(s.aead_alg).enc_key_len
             /\ WireKey(s, w).aead = s.aead_alg /\ WireKey(s, w).key = w.key
             /\ WireKey(s, d) = WireKey(s, w)
<1> DEFINE b == Cut(s.aead_alg, t)
           k == RfcShape(s.aead_alg).enc_key_len
           f == RfcShape(s.aead_alg).fixed_iv_len
           e == RfcShape(s.aead_alg).explicit_nonce_len
           w == Write12(s, b, r)
           d == Read12(s, b, Other(r))
<1>1. k \in Nat /\ f \in Nat /\ e \in Nat
  BY DEF RfcShape
<1>2. CASE s.aead_alg = "Chacha20Poly1305"
  <2>1. k = 32 /\ f = 12
    BY <1>2 DEF RfcShape
  <2>2. ByteLen(b[r].key) = k /\ ByteLen(b[r].iv) = f
    BY <1>1, PieceLength DEF Cut, Roles
  <2>3. Other(Other(r)) = r
    BY DEF Other, Roles
  <2> HIDE DEF b, k, f
  <2>4. w = [aead |-> s.aead_alg, key |-> b[r].key, iv |-> b[r].iv] /\ d = w
    BY <1>2, <2>1, <2>2, <2>3
       DEF Write12, Read12, Tls12Encrypter, Tls12Decrypter, ChachaCipher, NONCE_LEN
  <2>5. w # NoCipher
    BY <1>2, <2>4 DEF NoCipher
  <2>6. WireKey(s, w) = w /\ WireKey(s, d) = d
    BY <1>2 DEF WireKey
  <2>7. w.aead = s.aead_alg /\ ByteLen(w.key) = k
    BY <2>2, <2>4
  <2> HIDE DEF w, d
  <2> QED
    BY <2>4, <2>5, <2>6, <2>7 DEF b, k, w, d
<1>3. CASE s.aead_alg # "Chacha20Poly1305"
  <2>1. f = 4 /\ e = 8
    BY <1>3 DEF RfcShape
  <2>2. ByteLen(b[r].key) = k /\ ByteLen(b[r].iv) = f
    BY <1>1, PieceLength DEF Cut, Roles
  <2>3. ByteLen(b.extra) = e /\ Other(Other(r)) = r
    BY <1>1, <2>1, PieceLength DEF Cut, Other, Roles
  <2>4. PICK u, v : b[r].iv = <<u>> /\ b.extra = <<v>>
    BY <2>1 DEF Cut, Slice, Roles
  <2> HIDE DEF b, k, f, e
  <2>5. w = [aead |-> s.aead_alg, key |-> b[r].key, iv |-> <<u, v>>]
    BY <1>3, <2>1, <2>2, <2>3, <2>4 DEF Write12, Tls12Encrypter, Tls12GcmEncrypter, GCM_NONCE_LENGTH
  <2>6. d = [aead |-> s.aead_alg, key |-> b[r].key, iv |-> <<u>>]
    BY <1>3, <2>1, <2>2, <2>3, <2>4 DEF Read12, Tls12Decrypter, Tls12GcmDecrypter, GCM_NONCE_LENGTH
  <2>7. w # NoCipher /\ d # NoCipher
    BY <2>5, <2>6 DEF NoCipher, Aeads
  <2> HIDE DEF w, d
  <2>8. SubSeq(<<u, v>>, 1, 1) = <<u>> /\ SubSeq(<<u>>, 1, 1) = <<u>>
    BY FirstOf
  <2>9. /\ WireKey(s, w) = [aead |-> s.aead_alg, key |-> b[r].key, iv |-> <<u>>]
        /\ WireKey(s, d) = [aead |-> s.aead_alg, key |-> b[r].key, iv |-> <<u>>]
    BY <1>3, <2>5, <2>6, <2>8 DEF WireKey
  <2>10. w.aead = s.aead_alg /\ w.key = b[r].key
    BY <2>5
  <2>11. WireKey(s, w).aead = s.aead_alg /\ WireKey(s, w).key = w.key
    BY <2>9, <2>10
  <2> QED
    BY <2>2, <2>7, <2>9, <2>10, <2>11 DEF b, k, w, d
<1> QED
  BY <1>2, <1>3

-----------------------------------------------------------------------------
(* Negotiation and signatures                                              *)

\* A server signs with the key it was configured with: load_private_key keeps it.
LEMMA KeyLoads ==
  ASSUME NEW k \in ServerKeys
  PROVE  LoadedFrom(k).key = k
<1> DEFINE der == [label |-> "Pkcs8", bytes |-> "pkcs8", key |-> k]
           ec == ecdsa_try_from(der, 1 \notin {})
           rsa == rsa_try_from(der, 2 \notin {})
           ed == eddsa_try_from(der, 3 \notin {})
           attempts == <<[alg |-> "ECDSA", result |-> ec], [alg |-> "RSA", result |-> rsa],
                         [alg |-> "ED25519", result |-> ed]>>
           loaded == {i \in DOMAIN attempts : attempts[i].result.ok}
           first == attempts[Min(loaded)]
<1>1. /\ ec.ok => ec.key = k
      /\ rsa.ok => rsa.key = k
      /\ ed.ok => ed.key = k
  <2>1. der.key = k
    OBVIOUS
  <2> HIDE DEF der
  <2> QED
    BY <2>1 DEF ecdsa_try_from, rsa_try_from, eddsa_try_from, Ok, Err
<1> HIDE DEF ec, rsa, ed
<1>2. /\ DOMAIN attempts = 1 .. 3
      /\ attempts[1].result = ec /\ attempts[2].result = rsa /\ attempts[3].result = ed
  OBVIOUS
<1>3. LoadedFrom(k) = IF loaded = {} THEN None
                      ELSE [alg |-> first.alg, key |-> first.result.key,
                            scheme |-> first.result.scheme]
  BY DEF LoadedFrom, load_private_key, ec, rsa, ed
<1>4. LoadedFrom(k) # None
  BY ServerKeyAssumption
<1> HIDE DEF attempts
<1>5. loaded # {} /\ loaded \subseteq 1 .. 3
  BY <1>2, <1>3, <1>4
<1>6. Min(loaded) \in loaded
  BY <1>5, MinIsLeast
<1>7. first.result.ok /\ (first.result = ec \/ first.result = rsa \/ first.result = ed)
  BY <1>2, <1>5, <1>6
<1>8. first.result.key = k
  BY <1>1, <1>7
<1>9. LoadedFrom(k) = [alg |-> first.alg, key |-> first.result.key, scheme |-> first.result.scheme]
  BY <1>3, <1>5
<1> HIDE DEF first
<1> QED
  BY <1>8, <1>9

\* A signature names the key that made it.
LEMMA SignedBy ==
  ASSUME NEW sg, NEW message, sign(sg, message, {}, 0, 0) # NoSignature
  PROVE  sign(sg, message, {}, 0, 0).key = sg.key
<1>1. \A pad, len, digest : RsaSignature(sg.key, pad, len, digest).key = sg.key
  BY DEF RsaSignature
<1>2. eddsa_sign(sg, message).key = sg.key
  BY DEF eddsa_sign
<1>3. ecdsa_sign(sg, message, 0, 0) # NoSignature => ecdsa_sign(sg, message, 0, 0).key = sg.key
  BY DEF ecdsa_sign
<1>4. pss_sign(sg, message) # NoSignature => pss_sign(sg, message).key = sg.key
  BY <1>1 DEF pss_sign
<1>5. pkcs1_sign(sg, message, {}) # NoSignature => pkcs1_sign(sg, message, {}).key = sg.key
  <2>1. \A n : pkcs1_sign_with_size(sg, message, n) # NoSignature =>
                 pkcs1_sign_with_size(sg, message, n).key = sg.key
    BY <1>1 DEF pkcs1_sign_with_size
  <2> QED
    BY <2>1 DEF pkcs1_sign
<1> QED
  BY <1>2, <1>3, <1>4, <1>5 DEF sign

\* verify_signature accepts only a signature of the key it was given.
LEMMA VerifiedBy ==
  ASSUME NEW scheme, NEW k, NEW message, NEW x, verify_signature(scheme, k, message, x)
  PROVE  x.key = k
BY DEF verify_signature, pss_verify, pkcs1_verify, ecdsa_verify, eddsa_verify

\* What an end is configured with is in the provider's table.
LEMMA ListsOfSuites ==
  ASSUME StateOk
  PROVE  /\ Range(suites["client"]) \subseteq AllSuites
         /\ Range(suites["server"]) \subseteq AllSuites
<1>1. suites["client"] \in Seq(AllSuites) /\ suites["server"] \in Seq(AllSuites)
  BY HandshakeAssumption DEF StateOk, AllSuites
<1> QED
  BY <1>1 DEF Range

\* So is what a server chooses from a hello.
LEMMA ChosenSuite ==
  ASSUME StateOk, NEW hello, hello.suites \in ClientLists, Chosen(hello) # NoSuite
  PROVE  Chosen(hello) \in AllSuites
<1> DEFINE usable == Usable(hello)
<1>1. usable # {} /\ Chosen(hello) = hello.suites[Min(usable)]
  BY DEF Chosen
<1>2. hello.suites \in Seq(AllSuites)
  BY HandshakeAssumption DEF AllSuites
<1>3. usable \subseteq DOMAIN hello.suites /\ DOMAIN hello.suites \subseteq Nat
  BY <1>2 DEF Usable
<1> HIDE DEF usable
<1>4. Min(usable) \in DOMAIN hello.suites
  BY <1>1, <1>3, MinIsLeast
<1> QED
  BY <1>1, <1>2, <1>4

-----------------------------------------------------------------------------
(* What an accepted session is, and what keeps it                          *)

\* No suite has the name that stands for none.
LEMMA NoSuiteIsNone == NoSuite \notin AllSuites
BY SuiteNames, ThreeNames DEF NoSuite

\* What follows from having accepted: the session is that of the messages, and its
\* suite tells the two versions apart.
LEMMA AcceptedSession ==
  ASSUME NEW r \in Roles, Accepted(r)
  PROVE  LET m == Front(transcript[r])
         IN  /\ session[r] # NoSession
             /\ session[r].suite = m[2].suite /\ session[r].suite \in AllSuites
             /\ session[r].hello = m[1]
             /\ session[r].exporter = secrets[r].exporter
             /\ secrets[r].suite = m[2].suite
             /\ Accepted13(r) <=> RfcSuite(session[r].suite).version = "1.3"
             /\ Accepted12(r) <=> RfcSuite(session[r].suite).version = "1.2"
<1> DEFINE m == Front(transcript[r])
<1>1. CASE Accepted13(r)
  <2>1. /\ m[2].suite \in AllSuites /\ RfcSuite(m[2].suite).version = "1.3"
        /\ secrets[r].suite = m[2].suite
        /\ secrets[r].exporter = Schedule(secrets[r].dh, m).exporter
        /\ session[r] = Session13(secrets[r].dh, m)
    BY <1>1 DEF Accepted13, Negotiated, SuiteIn
  <2> HIDE DEF m
  <2>2. /\ session[r].suite = m[2].suite /\ session[r].hello = m[1]
        /\ session[r].exporter = Schedule(secrets[r].dh, m).exporter
    BY <2>1 DEF Session13, Session
  <2>3. ~Accepted12(r)
    BY <2>1 DEF Accepted12, Holds12, Negotiated, SuiteIn, m
  <2>4. session[r] # NoSession
    BY <2>1, <2>2, NoSuiteIsNone DEF NoSession
  <2> QED
    BY <1>1, <2>1, <2>2, <2>3, <2>4 DEF m
<1>2. CASE Accepted12(r)
  <2>1. /\ m[2].suite \in AllSuites /\ RfcSuite(m[2].suite).version = "1.2"
        /\ secrets[r].suite = m[2].suite
        /\ session[r] = Session12(secrets[r].exporter, m)
    BY <1>2 DEF Accepted12, Holds12, Secrets12, Negotiated, SuiteIn
  <2> HIDE DEF m
  <2>2. /\ session[r].suite = m[2].suite /\ session[r].hello = m[1]
        /\ session[r].exporter = secrets[r].exporter
    BY <2>1 DEF Session12, Session
  <2>3. ~Accepted13(r)
    BY <2>1 DEF Accepted13, Negotiated, SuiteIn, m
  <2>4. session[r] # NoSession
    BY <2>1, <2>2, NoSuiteIsNone DEF NoSession
  <2> QED
    BY <1>2, <2>1, <2>2, <2>3, <2>4 DEF m
<1> QED
  BY <1>1, <1>2 DEF Accepted

\* A step leaves alone what r has accepted; of its secrets only the traffic
\* secrets of TLS 1.3 change, by a key update.
Kept(r) ==
  session[r] # NoSession =>
    /\ transcript'[r] = transcript[r] /\ session'[r] = session[r]
    /\ secrets'[r].suite = secrets[r].suite /\ secrets'[r].exporter = secrets[r].exporter
    /\ secrets'[r].dh = secrets[r].dh
    /\ secrets'[r] = secrets[r] \/ ~Accepted12(r)

\* What is kept stays accepted.
LEMMA AcceptedKept ==
  ASSUME NEW r \in Roles, Kept(r)
  PROVE  /\ Accepted13(r) => Accepted13(r)' /\ transcript'[r] = transcript[r]
         /\ Accepted12(r) => Accepted12(r)' /\ transcript'[r] = transcript[r]
<1>1. Accepted(r) => session[r] # NoSession
  BY AcceptedSession
<1>2. ASSUME Accepted13(r) PROVE Accepted13(r)' /\ transcript'[r] = transcript[r]
  BY <1>1, <1>2 DEF Kept, Accepted, Accepted13
<1>3. ASSUME Accepted12(r) PROVE Accepted12(r)' /\ transcript'[r] = transcript[r]
  BY <1>1, <1>3 DEF Kept, Accepted, Accepted12, Holds12
<1> QED
  BY <1>2, <1>3

\* A flight on its way stays what it was while everything accepted is kept.
LEMMA FlightKept ==
  ASSUME UNCHANGED config, \A q \in Roles : Kept(q), NEW r \in Roles, NEW f, FlightOk(r, f)
  PROVE  FlightOk(r, f)'
<1>1. \A q \in Roles : /\ Accepted13(q) => Accepted13(q)' /\ transcript'[q] = transcript[q]
                       /\ Accepted12(q) => Accepted12(q)' /\ transcript'[q] = transcript[q]
  BY AcceptedKept
<1>2. "client" \in Roles /\ "server" \in Roles /\ Other(r) \in Roles
  BY DEF Roles, Other
<1>3. key' = key /\ cert' = cert
  BY DEF config
<1>4. ClearOk(r, f.kind, f.clear)'
  <2>1. ClearOk(r, f.kind, f.clear)
    BY DEF FlightOk
  <2>2. \A m : SignedShare(m) => SignedShare(m)'
    BY <1>3 DEF SignedShare
  <2> QED
    BY <1>1, <1>2, <2>1, <2>2 DEF ClearOk
<1>5. ASSUME SealedOk(r, f.kind, f.sealed.msgs) PROVE SealedOk(r, f.kind, f.sealed.msgs)'
  BY <1>1, <1>2, <1>3, <1>5 DEF SealedOk
<1> QED
  BY <1>4, <1>5 DEF FlightOk

\* InboxInv is preserved when every flight that arrives is in order.
LEMMA InboxStep ==
  ASSUME InboxInv, UNCHANGED config, \A q \in Roles : Kept(q),
         \A r \in Roles : /\ IsSeq(inbox'[r])
                          /\ \A f \in Range(inbox'[r]) : f \in Range(inbox[r]) \/ FlightOk(r, f)'
  PROVE  InboxInv'
<1> SUFFICES ASSUME NEW r \in Roles, NEW f \in Range(inbox'[r]) PROVE FlightOk(r, f)'
  BY DEF InboxInv
<1>1. CASE f \in Range(inbox[r])
  <2>1. FlightOk(r, f)
    BY <1>1 DEF InboxInv
  <2> QED
    BY <2>1, FlightKept
<1> QED
  BY <1>1

\* Nothing arrives, or at most f at r.
Quiet ==
  /\ DOMAIN inbox' = Roles
  /\ \A q \in Roles : IsSeq(inbox'[q]) /\ Range(inbox'[q]) \subseteq Range(inbox[q])
Arrives(r, f) ==
  /\ DOMAIN inbox' = Roles
  /\ \A q \in Roles : IsSeq(inbox'[q])
  /\ Range(inbox'[r]) \subseteq Range(inbox[r]) \cup {f}
  /\ Range(inbox'[Other(r)]) \subseteq Range(inbox[Other(r)])

\* What the ways to send and to receive do to the inboxes.
LEMMA Moves ==
  ASSUME StateOk, InboxInv, NEW r \in Roles
  PROVE  /\ \A f : Post(r, f) => Arrives(Other(r), f)
         /\ \A f : inbox[r] # <<>> /\ Reply(r, f) => Arrives(Other(r), f)
         /\ inbox[r] # <<>> /\ NoReply(r) => Quiet
         /\ inbox' = [inbox EXCEPT ![r] = <<>>] => Quiet
<1>1. DOMAIN inbox = Roles /\ \A q \in Roles : IsSeq(inbox[q])
  BY DEF StateOk, InboxInv
<1>2. Other(r) \in Roles /\ Other(r) # r /\ Other(Other(r)) = r
      /\ \A q \in Roles : q = r \/ q = Other(r)
  BY DEF Other, Roles
<1>3. \A q \in Roles : \A f : /\ IsSeq(Append(inbox[q], f))
                              /\ Range(Append(inbox[q], f)) = Range(inbox[q]) \cup {f}
  BY <1>1, AppendSeq
<1>4. inbox[r] # <<>> => IsSeq(Tail(inbox[r])) /\ Range(Tail(inbox[r])) \subseteq Range(inbox[r])
  BY <1>1, TailSeq
<1>5. ASSUME NEW f, Post(r, f) PROVE Arrives(Other(r), f)
  BY <1>1, <1>2, <1>3, <1>5 DEF Post, Arrives
<1>6. ASSUME NEW f, inbox[r] # <<>>, Reply(r, f) PROVE Arrives(Other(r), f)
  BY <1>1, <1>2, <1>3, <1>4, <1>6 DEF Reply, Arrives
<1>7. ASSUME inbox[r] # <<>>, NoReply(r) PROVE Quiet
  BY <1>1, <1>4, <1>7 DEF NoReply, Quiet
<1>8. ASSUME inbox' = [inbox EXCEPT ![r] = <<>>] PROVE Quiet
  BY <1>1, <1>8, EmptyIsSeq DEF Quiet
<1> QED
  BY <1>5, <1>6, <1>7, <1>8

\* A step that leaves the server alone, or ends it, preserves ServerInv.
LEMMA ServerKept ==
  ASSUME ServerInv, UNCHANGED config, pc'["server"] \in {pc["server"], "failed", "panicked"},
         transcript'["server"] = transcript["server"], secrets'["server"] = secrets["server"],
         session'["server"] = session["server"]
  PROVE  ServerInv'
<1>1. \A h : Chosen(h)' = Chosen(h)
  BY DEF Chosen, Usable, Version, config
<1>2. Accepted("server") => Accepted("server")'
  <2>1. Kept("server") /\ "server" \in Roles
    BY DEF Kept, Roles
  <2> QED
    BY <2>1, AcceptedKept DEF Accepted
<1> QED
  BY <1>1, <1>2 DEF ServerInv

\* A step that leaves the client alone, or ends it, preserves ClientInv.
LEMMA ClientKept ==
  ASSUME ClientInv, UNCHANGED config, pc'["client"] \in {pc["client"], "failed", "panicked"},
         transcript'["client"] = transcript["client"], secrets'["client"] = secrets["client"],
         session'["client"] = session["client"]
  PROVE  ClientInv'
<1>1. suites' = suites /\ cert' = cert /\ key' = key
  BY DEF config
<1>2. Accepted("client") => Accepted("client")'
  <2>1. Kept("client") /\ "client" \in Roles
    BY DEF Kept, Roles
  <2> QED
    BY <2>1, AcceptedKept DEF Accepted
<1>3. Holds12("client", transcript["client"]) => Holds12("client", transcript["client"])'
  BY DEF Holds12
<1> QED
  BY <1>1, <1>2, <1>3 DEF ClientInv

\* A step that accepts nothing preserves AgreeInv.
LEMMA AgreeKept ==
  ASSUME AgreeInv, session' = session, \A r \in Roles : Kept(r)
  PROVE  AgreeInv'
<1>1. "client" \in Roles /\ "server" \in Roles
  BY DEF Roles
<1>2. ASSUME Both' PROVE Both /\ transcript'["client"] = transcript["client"]
                          /\ transcript'["server"] = transcript["server"]
  BY <1>1, <1>2 DEF Both, Kept
<1> QED
  BY <1>2 DEF AgreeInv

-----------------------------------------------------------------------------
(* Giving up, and the first flight                                         *)

\* Giving up preserves the invariant, by a panic too if a call had failed.
LEMMA GiveUpKeeps ==
  ASSUME HsInv, NEW r \in Roles, NEW how \in {"failed", "panicked"}, GiveUp(r, how),
         UNCHANGED <<config, altered>>, faulted' \in [Roles -> BOOLEAN],
         \A q \in Roles : faulted[q] => faulted'[q], how = "panicked" => faulted'[r]
  PROVE  HsInv'
<1>1. /\ pc' = [pc EXCEPT ![r] = how]
      /\ kx' = [kx EXCEPT ![r] = None]
      /\ inbox' = [inbox EXCEPT ![r] = <<>>]
      /\ nextKey' = nextKey /\ transcript' = transcript /\ secrets' = secrets
      /\ session' = session /\ updates' = updates /\ installed' = installed
  BY DEF GiveUp, Goto
<1>2. UNCHANGED config /\ altered' = altered
  OBVIOUS
<1>3. /\ HandshakeTypeOK /\ PanicsOnlyOnFaults /\ StateOk
      /\ InboxInv /\ ClientInv /\ ServerInv /\ OrderInv /\ AgreeInv
  BY DEF HsInv
<1>4. Quiet
  BY <1>1, <1>3, Moves
<1>5. \A q \in Roles : Kept(q)
  BY <1>1 DEF Kept
<1>6. "client" \in Roles /\ "server" \in Roles
  BY DEF Roles
<1>7. \A q \in Roles : pc'[q] = IF q = r THEN how ELSE pc[q]
  BY <1>1, <1>3 DEF HandshakeTypeOK
<1>8. HandshakeTypeOK'
  BY <1>1, <1>2, <1>3, <1>7 DEF HandshakeTypeOK, StateOk
<1>9. PanicsOnlyOnFaults'
  BY <1>1, <1>3, <1>7 DEF PanicsOnlyOnFaults
<1>10. StateOk'
  BY <1>1, <1>2, <1>3, <1>4 DEF StateOk, Quiet, config
<1>11. InboxInv'
  BY <1>2, <1>3, <1>4, <1>5, InboxStep DEF Quiet
<1>12. ClientInv' /\ ServerInv'
  BY <1>1, <1>2, <1>3, <1>6, <1>7, ClientKept, ServerKept
<1>13. AgreeInv'
  BY <1>1, <1>3, <1>5, AgreeKept
<1>14. OrderInv'
  <2>1. \A q \in Roles : Kinds(q)' \subseteq Kinds(q)
    BY <1>4 DEF Quiet, Kinds
  <2> QED
    BY <1>1, <1>3, <1>6, <1>7, <2>1 DEF OrderInv, StateOk, HandshakeTypeOK
<1> QED
  BY <1>8, <1>9, <1>10, <1>11, <1>12, <1>13, <1>14 DEF HsInv

\* SendClientHello preserves the invariant.
LEMMA SendClientHelloKeeps ==
  ASSUME HsInv, SendClientHello, UNCHANGED <<config, altered, faulted>>
  PROVE  HsInv'
<1> DEFINE box == IF Speaks13(suites["client"])
                    THEN start(group, nextKey) ELSE None
           hello == ClientHello("client", suites["client"], box)
           flight == Flight("hello", <<hello>>, NothingSealed)
<1>1. /\ pc["client"] = "start"
      /\ pc' = [pc EXCEPT !["client"] = "wait_server"]
      /\ kx' = [kx EXCEPT !["client"] = box]
      /\ nextKey' = nextKey + 1
      /\ transcript' = [transcript EXCEPT !["client"] = <<hello>>]
      /\ Post("client", flight)
      /\ secrets' = secrets /\ session' = session /\ updates' = updates /\ installed' = installed
  BY DEF SendClientHello, Goto
<1>2. UNCHANGED config /\ altered' = altered /\ faulted' = faulted
  OBVIOUS
<1>3. /\ HandshakeTypeOK /\ PanicsOnlyOnFaults /\ StateOk
      /\ InboxInv /\ ClientInv /\ ServerInv /\ OrderInv /\ AgreeInv
  BY DEF HsInv
<1>4. /\ IsHello(hello) /\ hello.suites = suites["client"]
      /\ flight.kind = "hello" /\ flight.clear = <<hello>> /\ flight.sealed = NothingSealed
      /\ DOMAIN flight = {"kind", "clear", "sealed"}
  BY <1>3 DEF IsHello, ClientHello, Flight, StateOk
<1> HIDE DEF box, hello, flight
<1>5. Arrives("server", flight)
  BY <1>1, <1>3, Moves DEF Roles, Other
<1>6. "client" \in Roles /\ "server" \in Roles /\ Roles = {"client", "server"}
      /\ Other("server") = "client"
  BY DEF Roles, Other
<1>7. session["client"] = NoSession /\ session["server"] = NoSession
  BY <1>1, <1>3, <1>6 DEF OrderInv
<1>8. \A q \in Roles : Kept(q)
  BY <1>7, <1>6 DEF Kept
<1>9. pc'["client"] = "wait_server" /\ pc'["server"] = pc["server"] /\ pc' \in [Roles -> {"start",
        "wait_server", "wait_client", "wait_finished", "connected", "failed", "panicked"}]
  BY <1>1, <1>3, <1>6 DEF HandshakeTypeOK
<1>10. \A f : f = flight => FlightOk("server", f)'
  <2> SUFFICES ASSUME NEW f, f = flight PROVE FlightOk("server", f)'
    OBVIOUS
  <2>1. f.clear = <<f.clear[1]>> /\ IsHello(f.clear[1])
    BY <1>4
  <2> QED
    BY <1>4, <2>1 DEF FlightOk, ClearOk, IsHello
<1>11. InboxInv'
  BY <1>2, <1>3, <1>5, <1>6, <1>8, <1>10, InboxStep DEF Arrives
<1>12. OrderInv'
  <2>1. Kinds("server")' \subseteq {"hello"} /\ Kinds("client")' \subseteq Kinds("client")
    <3>1. Kinds("server") \subseteq {"hello"}
      BY <1>1, <1>3 DEF OrderInv
    <3> QED
      BY <1>4, <1>5, <1>6, <3>1 DEF Arrives, Kinds
  <2> QED
    BY <1>1, <1>3, <1>6, <1>7, <1>9, <2>1 DEF OrderInv, StateOk, HandshakeTypeOK
<1>13. HandshakeTypeOK'
  <2>1. nextKey' \in 1 .. 4
    BY <1>1, <1>3, <1>9, <1>12 DEF OrderInv, HandshakeTypeOK
  <2> QED
    BY <1>1, <1>2, <1>3, <1>6, <1>9, <2>1 DEF HandshakeTypeOK, StateOk
<1>14. PanicsOnlyOnFaults'
  BY <1>2, <1>3, <1>6, <1>9 DEF PanicsOnlyOnFaults
<1>15. StateOk'
  BY <1>1, <1>2, <1>3, <1>5 DEF StateOk, Arrives, config
<1>16. ServerInv'
  BY <1>1, <1>2, <1>3, <1>6, <1>9, ServerKept
<1>17. ClientInv'
  BY <1>1, <1>2, <1>3, <1>4, <1>6, <1>7, <1>9 DEF ClientInv, config, StateOk
<1>18. AgreeInv'
  BY <1>1, <1>3, <1>8, AgreeKept
<1> QED
  BY <1>11, <1>12, <1>13, <1>14, <1>15, <1>16, <1>17, <1>18 DEF HsInv

-----------------------------------------------------------------------------
(* The server's answer                                                     *)

\* The flight to be handled is in order.
LEMMA FirstFlight ==
  ASSUME InboxInv, NEW r \in Roles, inbox[r] # <<>>
  PROVE  FlightOk(r, Head(inbox[r])) /\ Head(inbox[r]) \in Range(inbox[r])
<1>1. IsSeq(inbox[r]) /\ \A f \in Range(inbox[r]) : FlightOk(r, f)
  BY DEF InboxInv
<1>2. Head(inbox[r]) \in Range(inbox[r])
  BY <1>1, TailSeq
<1> QED
  BY <1>1, <1>2

\* What a suite of the table needs to be for the lemmas on key schedules.
LEMMA SuiteHeld ==
  ASSUME NEW i \in Impls, NEW x \in AllSuites
  PROVE  /\ SuiteOf(i, x) = RfcSuite(x)
         /\ RfcSuite(x).kdf \in Hashes /\ RfcSuite(x).aead_alg \in Aeads
         /\ RfcSuite(x).version \in {"1.3", "1.2"}
BY SuiteIsRfc, SuiteTyped

\* The key written with has the length of its algorithm.
KeyFits(x) == ByteLen(x.cipher.key) = RfcShape(x.cipher.aead).enc_key_len

\* What a TLS 1.3 end writes with has a key of that length.
LEMMA WrittenWith13 ==
  ASSUME NEW i \in Impls, NEW s, s.kdf \in Hashes, s.aead_alg \in Aeads, s.version = "1.3",
         NEW dh, NEW m, NEW r \in Roles, NEW stage
  PROVE  /\ KeyFits(Installed(r, stage, s, Schedule13(i, s, dh, m).hs_cipher[r]))
         /\ KeyFits(Installed(r, stage, s, Schedule13(i, s, dh, m).ap_cipher[r]))
<1> DEFINE k == Schedule13(i, s, dh, m)
<1>1. /\ k.hs_cipher[r].aead = s.aead_alg
      /\ ByteLen(k.hs_cipher[r].key) = RfcShape(s.aead_alg).enc_key_len
      /\ k.ap_cipher[r].aead = s.aead_alg
      /\ ByteLen(k.ap_cipher[r].key) = RfcShape(s.aead_alg).enc_key_len
  BY ScheduleMade
<1> HIDE DEF k
<1>2. \A c : Installed(r, stage, s, c).cipher = c
  BY DEF Installed, WireKey
<1> QED
  BY <1>1, <1>2 DEF k, KeyFits

\* A server's TLS 1.3 messages: the hellos, then three that are sealed, of which
\* the second is signed with the server's key.
LEMMA Flight13 ==
  ASSUME StateOk, NEW i, NEW s, NEW scheme, NEW dh, NEW a, NEW b,
         Signed13(s, scheme, Append(<<a, b>>, Certificate)) # NoSignature
  PROVE  LET m == Messages13(i, s, scheme, dh, <<a, b>>)
         IN  /\ IsSeq(m) /\ m[1] = a /\ m[2] = b /\ {1, 2} \subseteq DOMAIN m
             /\ SubSeq(m, 2, 2) = <<b>>
             /\ \E c, v, f : SubSeq(m, 3, 5) = <<c, v, f>> /\ v.sig.key = key
<1> DEFINE sig == Signed13(s, scheme, Append(<<a, b>>, Certificate))
           v == CertificateVerify(scheme, sig)
<1>1. sig.key = key
  <2>1. Loaded.key = key
    BY KeyLoads DEF Loaded, StateOk
  <2> QED
    BY <2>1, SignedBy DEF Signed13
<1>2. v.sig.key = key
  BY <1>1 DEF CertificateVerify
<1>3. PICK f : Messages13(i, s, scheme, dh, <<a, b>>) =
                 Append(Append(Append(<<a, b>>, Certificate), v), f)
  BY DEF Messages13
<1> HIDE DEF sig, v
<1>4. Messages13(i, s, scheme, dh, <<a, b>>) = <<a, b, Certificate, v, f>>
  BY <1>3, Joins
<1>5. /\ IsSeq(<<a, b, Certificate, v, f>>)
      /\ SubSeq(<<a, b, Certificate, v, f>>, 2, 2) = <<b>>
      /\ SubSeq(<<a, b, Certificate, v, f>>, 3, 5) = <<Certificate, v, f>>
  <2>1. IsSeq(<<a, b, Certificate, v, f>>)
    BY ShortSeq
  <2>2. \A c : /\ SubSeq(<<a, b, c, v, f>>, 2, 2) = <<b>>
               /\ SubSeq(<<a, b, c, v, f>>, 3, 5) = <<c, v, f>>
    BY Parts
  <2> QED
    BY <2>1, <2>2
<1>6. /\ <<a, b, Certificate, v, f>>[1] = a /\ <<a, b, Certificate, v, f>>[2] = b
      /\ {1, 2} \subseteq DOMAIN <<a, b, Certificate, v, f>>
  OBVIOUS
<1> QED
  BY <1>2, <1>4, <1>5, <1>6

\* A server that answers with TLS 1.3 preserves the invariant: it can make all its
\* ciphers, and waits with the secrets that its messages make.
LEMMA ServerFlight13Keeps ==
  ASSUME HsInv, pc["server"] = "start", inbox["server"] # <<>>, NEW hello, IsHello(hello),
         NEW suite, suite = Chosen(hello), suite # NoSuite,
         SuiteOf(impl["server"], suite).version = "1.3",
         ServerFlight13(hello, suite), UNCHANGED <<config, altered, faulted>>
  PROVE  HsInv'
<1> DEFINE i == impl["server"]
           s == SuiteOf(i, suite)
           box == start(group, nextKey)
           dh == complete(box, hello.share, TRUE)
           scheme == choose_scheme(Loaded, OfferedSchemes(hello, s))
           reply == ServerHello(suite, box)
           m == Messages13(i, s, scheme, dh.secret, <<hello, reply>>)
           k == Schedule13(i, s, dh.secret, m)
           flight == Flight("server13", SubSeq(m, 2, 2),
                            Sealed(s, k.hs_cipher.server, SubSeq(m, 3, 5)))
<1>1. /\ HandshakeTypeOK /\ PanicsOnlyOnFaults /\ StateOk
      /\ InboxInv /\ ClientInv /\ ServerInv /\ OrderInv /\ AgreeInv
  BY DEF HsInv
<1>2. UNCHANGED config /\ altered' = altered /\ faulted' = faulted
  OBVIOUS
<1>3. "client" \in Roles /\ "server" \in Roles /\ Roles = {"client", "server"}
      /\ Other("client") = "server"
      /\ Other("server") = "client"
  BY DEF Roles, Other
<1>4. i \in Impls /\ suite \in AllSuites
  BY <1>1, <1>3, ChosenSuite DEF StateOk, Impls, IsHello
<1>5. s = RfcSuite(suite) /\ s.kdf \in Hashes /\ s.aead_alg \in Aeads /\ s.version = "1.3"
  BY <1>4, SuiteHeld
<1>10. HandshakeMade(i, s, dh.secret, <<hello, reply>>) /\ ApplicationMade(i, s, dh.secret, m)
  BY <1>4, <1>5, ScheduleMade
<1>6. CASE hello.share = None \/ ~dh.ok \/ scheme = None
             \/ Signed13(s, scheme, Append(<<hello, reply>>, Certificate)) = NoSignature
  <2>1. GiveUp("server", "failed")
    BY <1>6, <1>10 DEF ServerFlight13, IfMade
  <2> QED
    BY <1>1, <1>2, <1>3, <2>1, GiveUpKeeps DEF StateOk
<1>7. CASE ~(hello.share = None \/ ~dh.ok \/ scheme = None
             \/ Signed13(s, scheme, Append(<<hello, reply>>, Certificate)) = NoSignature)
  <2>2. /\ pc' = [pc EXCEPT !["server"] = "wait_finished"]
        /\ nextKey' = nextKey + 1
        /\ transcript' = [transcript EXCEPT !["server"] = m]
        /\ secrets' = [secrets EXCEPT !["server"] =
             Secrets13(suite, [client |-> k.hs.client, server |-> k.ap.server],
                       k.exporter, dh.secret)]
        /\ installed' = installed \cup
             {Installed("server", "handshake", s, k.hs_cipher.server),
              Installed("server", "application", s, k.ap_cipher.server)}
        /\ Reply("server", flight)
        /\ kx' = kx /\ session' = session /\ updates' = updates
    BY <1>7, <1>10 DEF ServerFlight13, IfMade, Goto
  <2>3. IsReply(reply) /\ reply.suite = suite
    BY DEF ServerHello, IsReply
  <2> HIDE DEF i, s, box, dh, scheme, reply
  <2>4. /\ IsSeq(m) /\ m[1] = hello /\ m[2] = reply /\ {1, 2} \subseteq DOMAIN m
        /\ SubSeq(m, 2, 2) = <<reply>>
        /\ \E c, v, f : SubSeq(m, 3, 5) = <<c, v, f>> /\ v.sig.key = key
    BY <1>1, <1>7, Flight13
  <2>5. PICK c, v, f : SubSeq(m, 3, 5) = <<c, v, f>> /\ v.sig.key = key
    BY <2>4
  <2> HIDE DEF m
  <2>6. k = Schedule13("rfc", s, dh.secret, m)
    BY <1>4, <1>5, ScheduleSame
  <2>7. \A stage : /\ KeyFits(Installed("server", stage, s, k.hs_cipher.server))
                   /\ KeyFits(Installed("server", stage, s, k.ap_cipher.server))
    BY <1>3, <1>4, <1>5, WrittenWith13
  <2> HIDE DEF k
  <2>8. /\ flight.kind = "server13" /\ flight.clear = <<reply>>
        /\ flight.sealed.msgs = <<c, v, f>> /\ DOMAIN flight = {"kind", "clear", "sealed"}
    BY <2>4, <2>5 DEF Flight, Sealed
  <2> HIDE DEF flight
  <2>9. Arrives("client", flight)
    BY <1>1, <1>3, <2>2, Moves
  <2>10. session["client"] = NoSession /\ session["server"] = NoSession
    BY <1>1, <1>3 DEF OrderInv
  <2>11. \A q \in Roles : Kept(q)
    BY <1>3, <2>10 DEF Kept
  <2>12. pc'["server"] = "wait_finished" /\ pc'["client"] = pc["client"]
         /\ pc' \in [Roles -> {"start",
        "wait_server", "wait_client", "wait_finished", "connected", "failed", "panicked"}]
    BY <1>1, <1>3, <2>2 DEF HandshakeTypeOK
  <2>13. \A g : g = flight => FlightOk("client", g)'
    <3> SUFFICES ASSUME NEW g, g = flight PROVE FlightOk("client", g)'
      OBVIOUS
    <3>1. g.clear = <<g.clear[1]>> /\ IsReply(g.clear[1])
      BY <2>3, <2>8
    <3>2. /\ g.sealed.msgs = <<g.sealed.msgs[1], g.sealed.msgs[2], g.sealed.msgs[3]>>
          /\ g.sealed.msgs[2].sig.key = key
      BY <2>5, <2>8
    <3>3. key' = key
      BY <1>2 DEF config
    <3> QED
      BY <2>8, <3>1, <3>2, <3>3 DEF FlightOk, ClearOk, SealedOk, IsReply
  <2>14. InboxInv'
    BY <1>1, <1>2, <1>3, <2>9, <2>11, <2>13, InboxStep DEF Arrives
  <2>15. OrderInv'
    <3>1. Kinds("server")' \subseteq Kinds("server")
      BY <1>3, <2>9 DEF Arrives, Kinds
    <3> QED
      BY <1>1, <1>3, <2>2, <2>10, <2>12, <3>1 DEF OrderInv, StateOk, HandshakeTypeOK
  <2>16. HandshakeTypeOK'
    <3>1. nextKey' \in 1 .. 4
      BY <1>1, <2>2, <2>12, <2>15 DEF OrderInv, HandshakeTypeOK
    <3>2. \A x \in installed' : ByteLen(x.cipher.key) = RfcShape(x.cipher.aead).enc_key_len
      BY <1>1, <2>2, <2>7 DEF HandshakeTypeOK, KeyFits
    <3> QED
      BY <1>1, <1>2, <1>3, <2>2, <2>12, <3>1, <3>2 DEF HandshakeTypeOK, StateOk
  <2>17. PanicsOnlyOnFaults'
    BY <1>1, <1>2, <1>3, <2>12 DEF PanicsOnlyOnFaults
  <2>18. StateOk'
    BY <1>1, <1>2, <1>3, <2>2, <2>9 DEF StateOk, Arrives, config, Secrets13
  <2>19. ClientInv'
    BY <1>1, <1>2, <1>3, <2>2, <2>12, ClientKept DEF StateOk
  <2>20. ServerInv'
    <3>1. \A h : Chosen(h)' = Chosen(h)
      BY <1>2 DEF Chosen, Usable, Version, config
    <3>2. transcript'["server"] = m /\ session'["server"] = NoSession
      BY <1>1, <1>3, <2>2, <2>10 DEF StateOk
    <3>3. /\ secrets'["server"].suite = suite /\ secrets'["server"].exporter = k.exporter
          /\ secrets'["server"].dh = dh.secret
      BY <1>1, <1>3, <2>2 DEF StateOk, Secrets13
    <3>4. SuiteIn(m) = s /\ Negotiated(m, "1.3")
      BY <1>4, <1>5, <2>4, <2>3 DEF SuiteIn, Negotiated
    <3>5. Schedule(dh.secret, m).exporter = k.exporter
      BY <2>6, <3>4 DEF Schedule
    <3>6. m[2].suite = suite /\ Chosen(m[1]) = suite
      BY <2>4, <2>3
    <3> QED
      BY <2>12, <3>1, <3>2, <3>3, <3>4, <3>5, <3>6 DEF ServerInv
  <2>21. AgreeInv'
    BY <1>1, <2>2, <2>11, AgreeKept
  <2> QED
    BY <2>14, <2>15, <2>16, <2>17, <2>18, <2>19, <2>20, <2>21 DEF HsInv
<1> QED
  BY <1>6, <1>7

\* A server that answers with TLS 1.2 preserves the invariant.
LEMMA ServerFlight12Keeps ==
  ASSUME HsInv, pc["server"] = "start", inbox["server"] # <<>>, NEW hello, IsHello(hello),
         NEW suite, suite = Chosen(hello), suite # NoSuite,
         SuiteOf(impl["server"], suite).version # "1.3",
         ServerFlight12(hello, suite), UNCHANGED <<config, altered, faulted>>
  PROVE  HsInv'
<1> DEFINE s == SuiteOf(impl["server"], suite)
           box == start(group, nextKey)
           scheme == choose_scheme(Loaded, OfferedSchemes(hello, s))
           reply == ServerHello(suite, None)
           signed == sign([key |-> Loaded.key, scheme |-> scheme],
                          Params(hello, reply, box.pub_key), {}, 0, 0)
           skx == ServerKeyExchange(box, scheme, signed)
           clear == <<reply, Certificate, skx>>
           flight == Flight("server12", clear, NothingSealed)
           m == <<hello>> \o clear
<1>1. /\ HandshakeTypeOK /\ PanicsOnlyOnFaults /\ StateOk
      /\ InboxInv /\ ClientInv /\ ServerInv /\ OrderInv /\ AgreeInv
  BY DEF HsInv
<1>2. UNCHANGED config /\ altered' = altered /\ faulted' = faulted
  OBVIOUS
<1>3. "client" \in Roles /\ "server" \in Roles /\ Roles = {"client", "server"}
      /\ Other("client") = "server"
      /\ Other("server") = "client"
  BY DEF Roles, Other
<1>4. impl["server"] \in Impls /\ suite \in AllSuites
  BY <1>1, <1>3, ChosenSuite DEF StateOk, Impls, IsHello
<1>5. s = RfcSuite(suite) /\ s.version = "1.2"
  BY <1>4, SuiteHeld
<1>6. CASE scheme = None \/ signed = NoSignature
  <2>1. GiveUp("server", "failed")
    BY <1>6 DEF ServerFlight12
  <2> QED
    BY <1>1, <1>2, <1>3, <2>1, GiveUpKeeps DEF StateOk
<1>7. CASE ~(scheme = None \/ signed = NoSignature)
  <2>1. /\ pc' = [pc EXCEPT !["server"] = "wait_client"]
        /\ nextKey' = nextKey + 1
        /\ transcript' = [transcript EXCEPT !["server"] = m]
        /\ Reply("server", flight)
        /\ kx' = [kx EXCEPT !["server"] = box]
        /\ secrets' = secrets /\ session' = session /\ updates' = updates
        /\ installed' = installed
    BY <1>7 DEF ServerFlight12, Goto
  <2>2. signed.key = key
    <3>1. Loaded.key = key
      BY <1>1, KeyLoads DEF Loaded, StateOk
    <3> QED
      BY <1>7, <3>1, SignedBy
  <2>3. SignedShare(skx)
    <3> HIDE DEF signed
    <3> QED
      BY <2>2 DEF SignedShare, ServerKeyExchange
  <2>4. IsReply(reply) /\ reply.suite = suite /\ IsCertificate(Certificate)
    BY DEF ServerHello, IsReply, IsCertificate, Certificate
  <2> HIDE DEF box, scheme, reply, signed, skx
  <2>5. m = <<hello, reply, Certificate, skx>>
    BY JoinFour
  <2>6. IsSeq(<<hello, reply, Certificate, skx>>)
    BY ShortSeq
  <2> HIDE DEF m
  <2>7. IsSeq(m) /\ m[1] = hello /\ m[2] = reply /\ {1, 2} \subseteq DOMAIN m
    BY <2>5, <2>6
  <2>8. /\ flight.kind = "server12" /\ flight.clear = clear
        /\ flight.sealed = NothingSealed /\ DOMAIN flight = {"kind", "clear", "sealed"}
    BY DEF Flight
  <2>9. /\ clear = <<clear[1], clear[2], clear[3]>>
        /\ IsReply(clear[1]) /\ IsCertificate(clear[2]) /\ SignedShare(clear[3])
    BY <2>3, <2>4
  <2> HIDE DEF flight, clear, s
  <2>10. Arrives("client", flight)
    BY <1>1, <1>3, <2>1, Moves
  <2>11. session["client"] = NoSession /\ session["server"] = NoSession
    BY <1>1, <1>3 DEF OrderInv
  <2>12. \A q \in Roles : Kept(q)
    BY <1>3, <2>11 DEF Kept
  <2>13. pc'["server"] = "wait_client" /\ pc'["client"] = pc["client"]
         /\ pc' \in [Roles -> {"start",
        "wait_server", "wait_client", "wait_finished", "connected", "failed", "panicked"}]
    BY <1>1, <1>3, <2>1 DEF HandshakeTypeOK
  <2>14. \A g : g = flight => FlightOk("client", g)'
    <3> SUFFICES ASSUME NEW g, g = flight PROVE FlightOk("client", g)'
      OBVIOUS
    <3>1. key' = key
      BY <1>2 DEF config
    <3>2. /\ g.clear = <<g.clear[1], g.clear[2], g.clear[3]>>
          /\ IsReply(g.clear[1]) /\ IsCertificate(g.clear[2]) /\ SignedShare(g.clear[3])
      BY <2>8, <2>9
    <3>3. SignedShare(g.clear[3])'
      BY <3>1, <3>2 DEF SignedShare
    <3> QED
      BY <2>8, <3>2, <3>3 DEF FlightOk, ClearOk
  <2>15. InboxInv'
    BY <1>1, <1>2, <1>3, <2>10, <2>12, <2>14, InboxStep DEF Arrives
  <2>16. OrderInv'
    <3>1. Kinds("server")' \subseteq Kinds("server")
      BY <1>3, <2>10 DEF Arrives, Kinds
    <3>2. Kinds("client")' \subseteq {"server12"}
      <4>1. Kinds("client") \subseteq {"server12"}
        BY <1>1 DEF OrderInv
      <4> QED
        BY <1>3, <2>8, <2>10, <4>1 DEF Arrives, Kinds
    <3> QED
      BY <1>1, <1>3, <2>1, <2>11, <2>13, <3>1, <3>2 DEF OrderInv, StateOk, HandshakeTypeOK
  <2>17. HandshakeTypeOK'
    <3>1. nextKey' \in 1 .. 4
      BY <1>1, <2>1, <2>13, <2>16 DEF OrderInv, HandshakeTypeOK
    <3> QED
      BY <1>1, <1>2, <1>3, <2>1, <2>13, <3>1 DEF HandshakeTypeOK, StateOk
  <2>18. PanicsOnlyOnFaults'
    BY <1>1, <1>2, <1>3, <2>13 DEF PanicsOnlyOnFaults
  <2>19. StateOk'
    BY <1>1, <1>2, <1>3, <2>1, <2>10 DEF StateOk, Arrives, config
  <2>20. ClientInv'
    BY <1>1, <1>2, <1>3, <2>1, <2>13, ClientKept DEF StateOk
  <2>21. ServerInv'
    <3>1. \A h : Chosen(h)' = Chosen(h)
      BY <1>2 DEF Chosen, Usable, Version, config
    <3>2. transcript'["server"] = m /\ session'["server"] = NoSession
      BY <1>1, <1>3, <2>1, <2>11 DEF StateOk
    <3>3. Negotiated(m, "1.2")
      BY <1>4, <1>5, <2>4, <2>7 DEF SuiteIn, Negotiated
    <3>4. m[2].suite = suite /\ Chosen(m[1]) = suite
      BY <2>4, <2>7
    <3> QED
      BY <2>13, <3>1, <3>2, <3>3, <3>4 DEF ServerInv
  <2>22. AgreeInv'
    BY <1>1, <2>1, <2>12, AgreeKept
  <2> QED
    BY <2>15, <2>16, <2>17, <2>18, <2>19, <2>20, <2>21, <2>22 DEF HsInv
<1> QED
  BY <1>6, <1>7

\* HandleClientHello preserves the invariant, whichever version it chooses.
LEMMA HandleClientHelloKeeps ==
  ASSUME HsInv, HandleClientHello, UNCHANGED <<config, altered, faulted>>
  PROVE  HsInv'
<1> DEFINE f == Head(inbox["server"])
           hello == f.clear[1]
           chosen == Chosen(hello)
<1>1. /\ pc["server"] = "start" /\ inbox["server"] # <<>> /\ f.kind = "hello"
      /\ IF chosen = NoSuite THEN GiveUp("server", "failed")
         ELSE IF SuiteOf(impl["server"], chosen).version = "1.3"
                THEN ServerFlight13(hello, chosen) ELSE ServerFlight12(hello, chosen)
  BY DEF HandleClientHello, Pending
<1>2. IsHello(hello)
  <2>1. FlightOk("server", f)
    BY <1>1, FirstFlight DEF HsInv, Roles
  <2> QED
    BY <1>1, <2>1 DEF FlightOk, ClearOk
<1> HIDE DEF hello, chosen
<1>3. CASE chosen = NoSuite
  <2>1. GiveUp("server", "failed") /\ "server" \in Roles /\ faulted \in [Roles -> BOOLEAN]
    BY <1>1, <1>3 DEF Roles, HsInv, StateOk
  <2> QED
    BY <2>1, GiveUpKeeps
<1>4. CASE chosen # NoSuite /\ SuiteOf(impl["server"], chosen).version = "1.3"
  BY <1>1, <1>2, <1>4, ServerFlight13Keeps DEF chosen
<1>5. CASE chosen # NoSuite /\ SuiteOf(impl["server"], chosen).version # "1.3"
  BY <1>1, <1>2, <1>5, ServerFlight12Keeps DEF chosen
<1> QED
  BY <1>3, <1>4, <1>5

-----------------------------------------------------------------------------
(* TLS 1.3: the client's answer and the end of the handshake               *)

\* A session, and secrets, for a suite of the table are some.
LEMMA SomeSession ==
  ASSUME NEW x \in AllSuites
  PROVE  /\ \A s, hello, ciphers, exporter : Session(x, s, hello, ciphers, exporter) # NoSession
         /\ \A traffic, exporter, dh : Secrets13(x, traffic, exporter, dh) # NoSecrets
         /\ \A block, ms, cr, sr : Secrets12(x, block, ms, cr, sr) # NoSecrets
<1>1. x # NoSuite
  BY NoSuiteIsNone
<1>2. /\ \A s, hello, ciphers, exporter : Session(x, s, hello, ciphers, exporter).suite = x
      /\ \A traffic, exporter, dh : Secrets13(x, traffic, exporter, dh).suite = x
      /\ \A block, ms, cr, sr : Secrets12(x, block, ms, cr, sr).suite = x
  BY DEF Session, Secrets13, Secrets12
<1>3. NoSession.suite = NoSuite /\ NoSecrets.suite = NoSuite
  BY DEF NoSession, NoSecrets
<1> QED
  BY <1>1, <1>2, <1>3

\* A flight that opens is one that was sealed.
LEMMA OpensSealed ==
  ASSUME NEW s, NEW cipher, NEW sealed, WireKey(s, cipher) # NoCipher, Opens(s, cipher, sealed)
  PROVE  sealed # NothingSealed
BY DEF Opens, NothingSealed

\* The messages of TLS 1.3 before the client's Finished.
LEMMA JoinFive == \A a, b, c, d, e : <<a, b>> \o <<c, d, e>> = <<a, b, c, d, e>>
<1> SUFFICES ASSUME NEW a, NEW b, NEW c, NEW d, NEW e
             PROVE  <<a, b>> \o <<c, d, e>> = <<a, b, c, d, e>>
  OBVIOUS
<1>1. /\ <<a, b>> \o <<c, d, e>> = <<a, b, c, d, e>>
      /\ (<<a>> \o <<b, c, d>>) \o <<e>> = <<a, b, c, d, e>>
      /\ Append(Append(Append(<<a, b>>, c), d), e) = <<a, b, c, d, e>>
  BY Joins
<1> QED
  BY <1>1

\* The messages of TLS 1.2 before the first Finished.
LEMMA JoinOuter == \A a, b, c, d, e : (<<a>> \o <<b, c, d>>) \o <<e>> = <<a, b, c, d, e>>
<1> SUFFICES ASSUME NEW a, NEW b, NEW c, NEW d, NEW e
             PROVE  (<<a>> \o <<b, c, d>>) \o <<e>> = <<a, b, c, d, e>>
  OBVIOUS
<1>1. /\ <<a, b>> \o <<c, d, e>> = <<a, b, c, d, e>>
      /\ (<<a>> \o <<b, c, d>>) \o <<e>> = <<a, b, c, d, e>>
      /\ Append(Append(Append(<<a, b>>, c), d), e) = <<a, b, c, d, e>>
  BY Joins
<1> QED
  BY <1>1

\* HandleServerFlight13 preserves the invariant: the flight opened, so the server
\* sealed it, so the signature in it is of the server's key, so that is certified.
LEMMA HandleServerFlight13Keeps ==
  ASSUME HsInv, HandleServerFlight13, UNCHANGED <<config, altered, faulted>>
  PROVE  HsInv'
<1> DEFINE i == impl["client"]
           flight == Head(inbox["client"])
           reply == flight.clear[1]
           s == SuiteOf(i, reply.suite)
           hello == transcript["client"][1]
           dh == complete(kx["client"], reply.share, TRUE)
           m == <<hello, reply>> \o flight.sealed.msgs
           cipher == TrafficCipher(i, s, HandshakeTraffic(i, s, dh.secret, m).server)
           checked == /\ reply.suite \in Range(suites["client"]) /\ s.version = "1.3"
                      /\ reply.share # None /\ dh.ok
                      /\ Opens(s, cipher, flight.sealed)
                      /\ m[3].key = cert
                      /\ m[4].scheme \in OfferedSchemes(hello, s)
                      /\ verify_signature(m[4].scheme, cert,
                                          Hash(s.hash_provider, SubSeq(m, 1, 3)), m[4].sig)
                      /\ m[5] = ServerFinished13(i, s, dh.secret, SubSeq(m, 1, 4))
           k == Schedule13(i, s, dh.secret, m)
           answer == Flight("finished", <<>>, Sealed(s, k.hs_cipher.client, <<k.client_finished>>))
<1>1. /\ HandshakeTypeOK /\ PanicsOnlyOnFaults /\ StateOk
      /\ InboxInv /\ ClientInv /\ ServerInv /\ OrderInv /\ AgreeInv
  BY DEF HsInv
<1>2. UNCHANGED config /\ altered' = altered /\ faulted' = faulted
  OBVIOUS
<1>3. "client" \in Roles /\ "server" \in Roles /\ Roles = {"client", "server"}
      /\ Other("client") = "server"
      /\ Other("server") = "client"
  BY DEF Roles, Other
<1>6. i \in Impls
  BY <1>1, <1>3 DEF StateOk, Impls
<1>4. /\ pc["client"] = "wait_server" /\ inbox["client"] # <<>> /\ flight.kind = "server13"
      /\ IF ~checked THEN GiveUp("client", "failed")
         ELSE  /\ pc' = [pc EXCEPT !["client"] = "connected"]
               /\ kx' = [kx EXCEPT !["client"] = None]
               /\ transcript' = [transcript EXCEPT !["client"] = Append(m, k.client_finished)]
               /\ secrets' = [secrets EXCEPT !["client"] =
                    Secrets13(reply.suite, k.ap, k.exporter, dh.secret)]
               /\ session' = [session EXCEPT !["client"] =
                    Session(reply.suite, s, hello, k.ap_cipher, k.exporter)]
               /\ installed' = installed \cup
                    {Installed("client", "handshake", s, k.hs_cipher.client),
                     Installed("client", "application", s, k.ap_cipher.client)}
               /\ Reply("client", answer)
               /\ nextKey' = nextKey /\ updates' = updates
  <2>1. ASSUME reply.suite \in Range(suites["client"])
        PROVE  HandshakeMade(i, s, dh.secret, m) /\ ApplicationMade(i, s, dh.secret, m)
    <3>1. reply.suite \in AllSuites /\ s.kdf \in Hashes /\ s.aead_alg \in Aeads
      BY <1>1, <1>6, <2>1, ListsOfSuites, SuiteHeld
    <3> HIDE DEF i, s, dh, m
    <3> QED
      BY <1>6, <3>1, ScheduleMade
  <2> QED
    BY <2>1 DEF HandleServerFlight13, Pending, IfMade, Goto
<1>5. FlightOk("client", flight) /\ flight \in Range(inbox["client"])
  BY <1>1, <1>3, <1>4, FirstFlight
<1>7. CASE ~checked
  <2>1. GiveUp("client", "failed")
    BY <1>4, <1>7
  <2> QED
    BY <1>1, <1>2, <1>3, <2>1, GiveUpKeeps DEF StateOk
<1>8. CASE checked
  <2>1. /\ reply.suite \in AllSuites /\ s = RfcSuite(reply.suite)
        /\ s.kdf \in Hashes /\ s.aead_alg \in Aeads /\ s.version = "1.3"
    BY <1>1, <1>6, <1>8, ListsOfSuites, SuiteHeld
  <2>2. /\ Opens(s, cipher, flight.sealed)
        /\ verify_signature(m[4].scheme, cert, Hash(s.hash_provider, SubSeq(m, 1, 3)), m[4].sig)
    BY <1>8
  <2>3. hello.suites = suites["client"]
    BY <1>1, <1>4 DEF ClientInv
  <2> HIDE DEF flight, reply, s, hello, dh
  <2>4. WireKey(s, cipher) # NoCipher
    <3>1. WireKey(s, cipher) = cipher
      BY <2>1 DEF WireKey
    <3>2. \A t : TrafficCipher(i, s, t).aead = s.aead_alg
      BY <1>6, <2>1, TrafficCipherMade
    <3>3. cipher.aead \in Aeads
      BY <2>1, <3>2
    <3> QED
      BY <3>1, <3>3 DEF NoCipher, Aeads
  <2> HIDE DEF cipher
  <2>5. SealedOk("client", "server13", flight.sealed.msgs)
    BY <1>4, <1>5, <2>2, <2>4, OpensSealed DEF FlightOk
  <2>6. PICK c, v, f : flight.sealed.msgs = <<c, v, f>> /\ v.sig.key = key
    BY <2>5 DEF SealedOk
  <2>7. m = <<hello, reply, c, v, f>>
    BY <2>6, JoinFive
  <2>8. IsSeq(<<hello, reply, c, v, f>>)
    BY ShortSeq
  <2>9. m[4].sig.key = cert
    BY <2>2, VerifiedBy
  <2> HIDE DEF m
  <2>10. IsSeq(m) /\ m[1] = hello /\ m[2] = reply /\ m[4] = v /\ {1, 2} \subseteq DOMAIN m
    BY <2>7, <2>8
  <2>11. cert = key
    BY <2>6, <2>9, <2>10
  <2>13. k = Schedule13("rfc", s, dh.secret, m)
    BY <1>6, <2>1, ScheduleSame
  <2>14. \A stage : /\ KeyFits(Installed("client", stage, s, k.hs_cipher.client))
                    /\ KeyFits(Installed("client", stage, s, k.ap_cipher.client))
    BY <1>3, <1>6, <2>1, WrittenWith13
  <2>15. /\ pc' = [pc EXCEPT !["client"] = "connected"]
         /\ kx' = [kx EXCEPT !["client"] = None]
         /\ transcript' = [transcript EXCEPT !["client"] = Append(m, k.client_finished)]
         /\ secrets' = [secrets EXCEPT !["client"] =
              Secrets13(reply.suite, k.ap, k.exporter, dh.secret)]
         /\ session' = [session EXCEPT !["client"] =
              Session(reply.suite, s, hello, k.ap_cipher, k.exporter)]
         /\ installed' = installed \cup
              {Installed("client", "handshake", s, k.hs_cipher.client),
               Installed("client", "application", s, k.ap_cipher.client)}
         /\ Reply("client", answer)
         /\ nextKey' = nextKey /\ updates' = updates
    BY <1>4, <1>8
  <2> HIDE DEF k, i, checked
  <2>16. /\ answer.kind = "finished" /\ answer.clear = <<>>
         /\ answer.sealed.msgs = <<k.client_finished>>
         /\ DOMAIN answer = {"kind", "clear", "sealed"}
    BY DEF Flight, Sealed
  <2> HIDE DEF answer
  <2>17. Arrives("server", answer)
    BY <1>1, <1>3, <1>4, <2>15, Moves
  <2>18. session["client"] = NoSession /\ session["server"] = NoSession
    BY <1>1, <1>3, <1>4 DEF OrderInv
  <2>19. \A q \in Roles : Kept(q)
    BY <1>3, <2>18 DEF Kept
  <2>20. pc'["client"] = "connected" /\ pc'["server"] = pc["server"] /\ pc' \in [Roles -> {"start",
        "wait_server", "wait_client", "wait_finished", "connected", "failed", "panicked"}]
    BY <1>1, <1>3, <2>15 DEF HandshakeTypeOK
  <2>21. /\ transcript'["client"] = Append(m, k.client_finished)
         /\ transcript'["server"] = transcript["server"]
         /\ secrets'["client"] = Secrets13(reply.suite, k.ap, k.exporter, dh.secret)
         /\ secrets'["server"] = secrets["server"]
         /\ session'["client"] = Session(reply.suite, s, hello, k.ap_cipher, k.exporter)
         /\ session'["server"] = NoSession
         /\ kx'["client"] = None /\ kx'["server"] = kx["server"]
    BY <1>1, <1>3, <2>15, <2>18 DEF StateOk
  <2>22. session'["client"] # NoSession /\ secrets'["client"] # NoSecrets
    BY <2>1, <2>21, SomeSession
  <2>23. Front(transcript'["client"]) = m /\ Last(transcript'["client"]) = k.client_finished
    BY <2>10, <2>21, AppendSeq
  <2>24. Accepted13("client")'
    <3>1. SuiteIn(m) = s /\ Negotiated(m, "1.3")
      BY <2>1, <2>10 DEF SuiteIn, Negotiated
    <3>2. Schedule(dh.secret, m) = k
      BY <2>13, <3>1 DEF Schedule
    <3>3. Session13(dh.secret, m) = session'["client"]
      BY <2>10, <2>21, <3>1, <3>2 DEF Session13
    <3>4. /\ secrets'["client"].suite = reply.suite /\ secrets'["client"].exporter = k.exporter
          /\ secrets'["client"].dh = dh.secret
      BY <2>21 DEF Secrets13
    <3> QED
      BY <2>10, <2>23, <3>1, <3>2, <3>3, <3>4 DEF Accepted13
  <2>25. \A g : g = answer => FlightOk("server", g)'
    <3> SUFFICES ASSUME NEW g, g = answer PROVE FlightOk("server", g)'
      OBVIOUS
    <3>1. g.sealed.msgs = <<Last(transcript'["client"])>>
      BY <2>16, <2>23
    <3> QED
      BY <2>16, <2>24, <3>1 DEF FlightOk, ClearOk, SealedOk
  <2>26. InboxInv'
    BY <1>1, <1>2, <1>3, <2>17, <2>19, <2>25, InboxStep DEF Arrives
  <2>27. OrderInv'
    <3>1. pc["server"] \notin {"start", "wait_client"}
      BY <1>1, <1>4, <1>5 DEF OrderInv, Kinds
    <3> QED
      BY <1>1, <1>3, <1>4, <2>15, <2>20, <2>21, <3>1 DEF OrderInv, HandshakeTypeOK
  <2>28. HandshakeTypeOK'
    <3>1. \A x \in installed' : ByteLen(x.cipher.key) = RfcShape(x.cipher.aead).enc_key_len
      BY <1>1, <2>15, <2>14 DEF HandshakeTypeOK, KeyFits
    <3> QED
      BY <1>1, <1>2, <1>3, <2>15, <2>18, <2>20, <2>21, <2>22, <3>1 DEF HandshakeTypeOK
  <2>29. PanicsOnlyOnFaults'
    BY <1>1, <1>2, <1>3, <2>20 DEF PanicsOnlyOnFaults
  <2>30. StateOk'
    <3>1. DOMAIN secrets'["client"] = {"suite", "traffic", "exporter", "dh", "block", "client_random",
                              "server_random"}
      BY <2>21 DEF Secrets13
    <3> QED
      BY <1>1, <1>2, <1>3, <2>15, <2>17, <2>21, <3>1 DEF StateOk, Arrives, config
  <2>31. ServerInv'
    BY <1>1, <1>2, <2>18, <2>20, <2>21, ServerKept
  <2>32. ClientInv'
    <3>1. Accepted("client")'
      BY <2>24 DEF Accepted
    <3>2. suites' = suites /\ cert' = cert /\ key' = key
      BY <1>2 DEF config
    <3> QED
      BY <2>3, <2>10, <2>11, <2>20, <2>23, <3>1, <3>2 DEF ClientInv
  <2>33. AgreeInv'
    BY <1>3, <2>21 DEF AgreeInv, Both
  <2> QED
    BY <2>26, <2>27, <2>28, <2>29, <2>30, <2>31, <2>32, <2>33 DEF HsInv
<1> QED
  BY <1>7, <1>8

\* HandleClientFinished preserves the invariant: the Finished that opened is the
\* client's, and tells that both ends have the same messages and secret.
LEMMA HandleClientFinishedKeeps ==
  ASSUME HsInv, HandleClientFinished, UNCHANGED <<config, altered, faulted>>
  PROVE  HsInv'
<1> DEFINE i == impl["server"]
           s == MySuite("server")
           mine == secrets["server"]
           m == transcript["server"]
           flight == Head(inbox["server"])
           k == Schedule13(i, s, mine.dh, m)
           checked == /\ Opens(s, k.hs_cipher.client, flight.sealed)
                      /\ flight.sealed.msgs = <<k.client_finished>>
<1>1. /\ HandshakeTypeOK /\ PanicsOnlyOnFaults /\ StateOk
      /\ InboxInv /\ ClientInv /\ ServerInv /\ OrderInv /\ AgreeInv
  BY DEF HsInv
<1>2. UNCHANGED config /\ altered' = altered /\ faulted' = faulted
  OBVIOUS
<1>3. "client" \in Roles /\ "server" \in Roles /\ Roles = {"client", "server"}
      /\ Other("client") = "server"
      /\ Other("server") = "client"
  BY DEF Roles, Other
<1>4. /\ pc["server"] = "wait_finished" /\ inbox["server"] # <<>> /\ flight.kind = "finished"
      /\ IF ~checked THEN GiveUp("server", "failed")
         ELSE /\ pc' = [pc EXCEPT !["server"] = "connected"]
              /\ transcript' = [transcript EXCEPT !["server"] = Append(m, k.client_finished)]
              /\ secrets' = [secrets EXCEPT !["server"].traffic = k.ap]
              /\ session' = [session EXCEPT !["server"] =
                   Session(mine.suite, s, m[1], k.ap_cipher, mine.exporter)]
              /\ NoReply("server")
              /\ kx' = kx /\ nextKey' = nextKey /\ updates' = updates /\ installed' = installed
  BY DEF HandleClientFinished, Pending, Goto
<1>5. FlightOk("server", flight)
  BY <1>1, <1>3, <1>4, FirstFlight
<1>6. i \in Impls
  BY <1>1, <1>3 DEF StateOk, Impls
<1>7. CASE ~checked
  <2>1. GiveUp("server", "failed")
    BY <1>4, <1>7
  <2> QED
    BY <1>1, <1>2, <1>3, <2>1, GiveUpKeeps DEF StateOk
<1>8. CASE checked
  <2>1. /\ Negotiated(m, "1.3") /\ m[2].suite = Chosen(m[1])
        /\ mine.suite = m[2].suite /\ mine.exporter = Schedule(mine.dh, m).exporter
    BY <1>1, <1>4 DEF ServerInv
  <2>2. /\ IsSeq(m) /\ m[2].suite \in AllSuites /\ s = SuiteIn(m)
        /\ s.kdf \in Hashes /\ s.aead_alg \in Aeads /\ s.version = "1.3"
    BY <1>6, <2>1, SuiteHeld DEF Negotiated, SuiteIn, MySuite
  <2>3. /\ pc' = [pc EXCEPT !["server"] = "connected"]
        /\ transcript' = [transcript EXCEPT !["server"] = Append(m, k.client_finished)]
        /\ secrets' = [secrets EXCEPT !["server"].traffic = k.ap]
        /\ session' = [session EXCEPT !["server"] =
             Session(mine.suite, s, m[1], k.ap_cipher, mine.exporter)]
        /\ NoReply("server")
        /\ kx' = kx /\ nextKey' = nextKey /\ updates' = updates /\ installed' = installed
        /\ Opens(s, k.hs_cipher.client, flight.sealed)
        /\ flight.sealed.msgs = <<k.client_finished>>
    BY <1>4, <1>8
  <2> HIDE DEF s, m, checked, flight, mine
  <2>4. k = Schedule(mine.dh, m)
    BY <1>6, <2>2, ScheduleSame DEF Schedule
  <2>5. WireKey(s, k.hs_cipher.client) # NoCipher
    <3>1. k.hs_cipher["client"].aead = s.aead_alg
      BY <1>3, <1>6, <2>2, ScheduleMade
    <3> HIDE DEF k
    <3>2. WireKey(s, k.hs_cipher.client) = k.hs_cipher.client
      BY <2>2 DEF WireKey
    <3> QED
      BY <2>2, <3>1, <3>2 DEF NoCipher, Aeads
  <2> HIDE DEF k, i
  <2>6. SealedOk("server", "finished", flight.sealed.msgs)
    BY <1>4, <1>5, <2>3, <2>5, OpensSealed DEF FlightOk
  <2>7. Accepted13("client") /\ Last(transcript["client"]) = k.client_finished
    BY <2>3, <2>6 DEF SealedOk
  <2>8. Front(transcript["client"]) = m /\ secrets["client"].dh = mine.dh
    <3> DEFINE n == Front(transcript["client"])
    <3>1. /\ n[2].suite \in AllSuites
          /\ Schedule(secrets["client"].dh, n).client_finished = Schedule(mine.dh, m).client_finished
      BY <2>4, <2>7 DEF Accepted13, Negotiated
    <3> HIDE DEF n
    <3>2. n = m /\ secrets["client"].dh = mine.dh
      BY <2>2, <3>1, FinishedTells13
    <3> QED
      BY <3>2 DEF n
  <2>9. session["client"] = Session13(mine.dh, m) /\ session["client"] # NoSession
    BY <1>3, <2>7, <2>8, AcceptedSession DEF Accepted13, Accepted
  <2>10. Session(mine.suite, s, m[1], k.ap_cipher, mine.exporter) = Session13(mine.dh, m)
    BY <2>1, <2>2, <2>4 DEF Session13
  <2>11. mine # NoSecrets
    BY <2>1, <2>2, NoSuiteIsNone DEF NoSecrets
  <2>12. DOMAIN mine = {"suite", "traffic", "exporter", "dh", "block", "client_random",
                        "server_random"}
    BY <1>1, <1>3, <2>11 DEF StateOk, mine
  <2>13. Quiet
    BY <1>1, <1>3, <1>4, <2>3, Moves
  <2>14. session["server"] = NoSession /\ pc["client"] \notin {"start", "wait_server"}
    BY <1>1, <1>3, <1>4, <2>9 DEF OrderInv
  <2>15. pc'["server"] = "connected" /\ pc'["client"] = pc["client"] /\ pc' \in [Roles -> {"start",
        "wait_server", "wait_client", "wait_finished", "connected", "failed", "panicked"}]
    BY <1>1, <1>3, <2>3 DEF HandshakeTypeOK
  <2>16. secrets'["server"] = [mine EXCEPT !.traffic = k.ap] /\ secrets'["client"] = secrets["client"]
         /\ DOMAIN secrets' = Roles
    BY <1>1, <1>3, <2>3 DEF StateOk, mine
  <2>17. /\ secrets'["server"].suite = mine.suite /\ secrets'["server"].exporter = mine.exporter
         /\ secrets'["server"].dh = mine.dh
         /\ DOMAIN secrets'["server"] = {"suite", "traffic", "exporter", "dh", "block", "client_random",
                                         "server_random"}
    BY <2>12, <2>16
  <2>18. /\ transcript'["server"] = Append(m, k.client_finished)
         /\ transcript'["client"] = transcript["client"]
         /\ session'["server"] = Session13(mine.dh, m)
         /\ session'["client"] = session["client"]
    BY <1>1, <1>3, <2>3, <2>10 DEF StateOk
  <2>19. Front(transcript'["server"]) = m /\ Last(transcript'["server"]) = k.client_finished
    BY <2>2, <2>18, AppendSeq
  <2>20. \A q \in Roles : Kept(q)
    BY <1>3, <2>14, <2>16, <2>18 DEF Kept
  <2>21. Accepted13("server")'
    BY <2>1, <2>4, <2>17, <2>18, <2>19 DEF Accepted13
  <2>22. session'["server"] # NoSession /\ secrets'["server"] # NoSecrets
    <3>1. session'["server"] # NoSession
      BY <2>9, <2>18
    <3>2. secrets'["server"] # NoSecrets
      BY <2>1, <2>2, <2>17, NoSuiteIsNone DEF NoSecrets
    <3> QED
      BY <3>1, <3>2
  <2>23. InboxInv'
    BY <1>1, <1>2, <2>13, <2>20, InboxStep DEF Quiet
  <2>24. OrderInv'
    <3>1. \A q \in Roles : Kinds(q)' \subseteq Kinds(q)
      BY <2>13 DEF Quiet, Kinds
    <3> QED
      BY <1>1, <1>3, <1>4, <2>3, <2>14, <2>15, <2>18, <3>1 DEF OrderInv, HandshakeTypeOK
  <2>25. HandshakeTypeOK'
    <3>1. kx["server"] = None
      BY <1>1, <1>3, <1>4 DEF OrderInv
    <3> QED
      BY <1>1, <1>2, <1>3, <2>3, <2>15, <2>16, <2>18, <2>22, <3>1 DEF HandshakeTypeOK
  <2>26. PanicsOnlyOnFaults'
    BY <1>1, <1>2, <1>3, <2>15 DEF PanicsOnlyOnFaults
  <2>27. StateOk'
    BY <1>1, <1>2, <1>3, <2>3, <2>13, <2>16, <2>17 DEF StateOk, Quiet, config
  <2>28. ClientInv'
    BY <1>1, <1>2, <2>15, <2>16, <2>18, ClientKept
  <2>29. ServerInv'
    <3>1. \A h : Chosen(h)' = Chosen(h)
      BY <1>2 DEF Chosen, Usable, Version, config
    <3>2. Accepted("server")'
      BY <2>21 DEF Accepted
    <3> QED
      BY <2>1, <2>15, <2>19, <3>1, <3>2 DEF ServerInv
  <2>30. AgreeInv'
    BY <2>8, <2>9, <2>18, <2>19 DEF AgreeInv
  <2> QED
    BY <2>23, <2>24, <2>25, <2>26, <2>27, <2>28, <2>29, <2>30 DEF HsInv
<1> QED
  BY <1>7, <1>8

-----------------------------------------------------------------------------
(* TLS 1.2: the client's answer and the end of the handshake               *)

\* The ciphers of a TLS 1.2 key block, whoever makes it: each end reads with
\* what the other writes with.
LEMMA Made12 ==
  ASSUME NEW i \in Impls, NEW s, s.aead_alg \in Aeads, s.version = "1.2", NEW ms, NEW cr, NEW sr,
         NEW r \in Roles, NEW stage
  PROVE  LET b == KeyBlock(i, s, ms, cr, sr)
         IN  /\ b = KeyBlock("rfc", s, ms, cr, sr)
             /\ KeysMade12(i, s, ms, cr, sr, r)
             /\ WireKey(s, Read12(s, b, r)) = WireKey(s, Write12(s, b, Other(r)))
             /\ WireKey(s, Read12(s, b, r)) # NoCipher
             /\ KeyFits(Installed(r, stage, s, Write12(s, b, r)))
<1> DEFINE b == KeyBlock(i, s, ms, cr, sr)
           t == BlockTerm(s, ms, cr, sr)
<1>1. /\ b = Cut(s.aead_alg, t) /\ b = KeyBlock("rfc", s, ms, cr, sr)
      /\ KeyMaterial(i, s, ms, cr, sr) # Panic
  BY BlockCut, BlockSame12
<1>2. Other(r) \in Roles /\ Other(Other(r)) = r
  BY DEF Other, Roles
<1> HIDE DEF b, t
<1>3. /\ Write12(s, b, r) # NoCipher
      /\ WireKey(s, Write12(s, b, r)).aead = s.aead_alg
      /\ WireKey(s, Write12(s, b, r)).key = Write12(s, b, r).key
      /\ ByteLen(Write12(s, b, r).key) = RfcShape(s.aead_alg).enc_key_len
  BY <1>1, Ciphers12
<1>4. /\ Read12(s, b, r) # NoCipher
      /\ WireKey(s, Read12(s, b, r)) = WireKey(s, Write12(s, b, Other(r)))
      /\ WireKey(s, Write12(s, b, Other(r))).aead = s.aead_alg
  <2>1. \A q \in Roles : LET w == Write12(s, b, q)
                             d == Read12(s, b, Other(q))
                         IN  /\ d # NoCipher /\ WireKey(s, d) = WireKey(s, w)
                             /\ WireKey(s, w).aead = s.aead_alg
    BY <1>1, Ciphers12
  <2> QED
    BY <1>2, <2>1
<1>5. WireKey(s, Read12(s, b, r)) # NoCipher
  BY <1>4 DEF NoCipher, Aeads
<1>6. KeyFits(Installed(r, stage, s, Write12(s, b, r)))
  <2>1. Installed(r, stage, s, Write12(s, b, r)).cipher = WireKey(s, Write12(s, b, r))
    BY DEF Installed
  <2> QED
    BY <1>3, <2>1 DEF KeyFits
<1>7. KeysMade12(i, s, ms, cr, sr, r)
  BY <1>1, <1>3, <1>4 DEF KeysMade12, b
<1> QED
  BY <1>1, <1>4, <1>5, <1>6, <1>7 DEF b

\* HandleServerFlight12 preserves the invariant: the signed share carries the
\* server's signature, which the client checked with the certified key.
LEMMA HandleServerFlight12Keeps ==
  ASSUME HsInv, HandleServerFlight12, UNCHANGED <<config, altered, faulted>>
  PROVE  HsInv'
<1> DEFINE i == impl["client"]
           flight == Head(inbox["client"])
           reply == flight.clear[1]
           skx == flight.clear[3]
           s == SuiteOf(i, reply.suite)
           hello == transcript["client"][1]
           cke == ClientKeyExchange(start(group, nextKey))
           m == <<hello>> \o flight.clear \o <<cke>>
           ms == MasterSecret12(i, s, start(group, nextKey), skx.share, m)
           block == KeyBlock(i, s, ms, hello.random, reply.random)
           writer == Write12(s, block, "client")
           fin == Finished(FinishedMac12(i, s, ms, "client finished", m))
           checked == /\ reply.suite \in Range(suites["client"]) /\ s.version = "1.2"
                      /\ flight.clear[2].key = cert
                      /\ skx.scheme \in hello.schemes
                      /\ verify_signature(skx.scheme, cert, Params(hello, reply, skx.share), skx.sig)
                      /\ ms # NoBytes
           answer == Flight("client12", <<cke>>, Sealed(s, writer, <<fin>>))
<1>1. /\ HandshakeTypeOK /\ PanicsOnlyOnFaults /\ StateOk
      /\ InboxInv /\ ClientInv /\ ServerInv /\ OrderInv /\ AgreeInv
  BY DEF HsInv
<1>2. UNCHANGED config /\ altered' = altered /\ faulted' = faulted
  OBVIOUS
<1>3. "client" \in Roles /\ "server" \in Roles /\ Roles = {"client", "server"}
      /\ Other("client") = "server"
      /\ Other("server") = "client"
  BY DEF Roles, Other
<1>4. /\ pc["client"] = "wait_server" /\ inbox["client"] # <<>> /\ flight.kind = "server12"
      /\ IF ~checked THEN GiveUp("client", "failed")
         ELSE IfMade("client", /\ KeysMade12(i, s, ms, hello.random, reply.random, "client")
                               /\ fin.mac # Panic,
               /\ Goto("client", "wait_finished")
               /\ kx' = [kx EXCEPT !["client"] = None]
               /\ nextKey' = nextKey + 1
               /\ transcript' = [transcript EXCEPT !["client"] = Append(m, fin)]
               /\ secrets' = [secrets EXCEPT !["client"] =
                    Secrets12(reply.suite, block, ms, hello.random, reply.random)]
               /\ installed' = installed \cup {Installed("client", "application", s, writer)}
               /\ Reply("client", answer)
               /\ UNCHANGED <<session, updates>>)
  BY DEF HandleServerFlight12, Pending
<1>5. FlightOk("client", flight)
  BY <1>1, <1>3, <1>4, FirstFlight
<1>6. i \in Impls
  BY <1>1, <1>3 DEF StateOk, Impls
<1>7. CASE ~checked
  <2>1. GiveUp("client", "failed")
    BY <1>4, <1>7
  <2> QED
    BY <1>1, <1>2, <1>3, <2>1, GiveUpKeeps DEF StateOk
<1>8. CASE checked
  <2>1. /\ reply.suite \in AllSuites /\ s = RfcSuite(reply.suite)
        /\ s.aead_alg \in Aeads /\ s.version = "1.2"
    BY <1>1, <1>6, <1>8, ListsOfSuites, SuiteHeld
  <2>2. verify_signature(skx.scheme, cert, Params(hello, reply, skx.share), skx.sig)
    BY <1>8
  <2>3. hello.suites = suites["client"]
    BY <1>1, <1>4 DEF ClientInv
  <2>4. ClientShare(cke)
    BY DEF ClientKeyExchange, ClientShare
  <2>5. /\ flight.clear = <<reply, flight.clear[2], skx>> /\ SignedShare(skx)
    BY <1>4, <1>5 DEF FlightOk, ClearOk
  <2>6. cert = key
    BY <2>2, <2>5, VerifiedBy DEF SignedShare
  <2> HIDE DEF flight, reply, s, hello, skx, cke
  <2>7. PICK c : flight.clear = <<reply, c, skx>>
    BY <2>5
  <2>8. IsSeq(m) /\ m = <<hello, reply, c, skx, cke>>
    <3>1. (<<hello>> \o <<reply, c, skx>>) \o <<cke>> = <<hello, reply, c, skx, cke>>
      BY JoinOuter
    <3>2. m = <<hello, reply, c, skx, cke>>
      BY <2>7, <3>1
    <3>3. IsSeq(<<hello, reply, c, skx, cke>>)
      BY ShortSeq
    <3> QED
      BY <3>2, <3>3
  <2>9. /\ block = KeyBlock("rfc", s, ms, hello.random, reply.random)
        /\ KeysMade12(i, s, ms, hello.random, reply.random, "client") /\ fin.mac # Panic
        /\ KeyFits(Installed("client", "application", s, writer))
    <3> HIDE DEF m, ms
    <3>1. fin.mac # Panic
      BY <1>6, FinishedSame12
    <3> HIDE DEF fin
    <3> QED
      BY <1>3, <1>6, <2>1, <3>1, Made12
  <2>10. /\ pc' = [pc EXCEPT !["client"] = "wait_finished"]
         /\ kx' = [kx EXCEPT !["client"] = None]
         /\ nextKey' = nextKey + 1
         /\ transcript' = [transcript EXCEPT !["client"] = Append(m, fin)]
         /\ secrets' = [secrets EXCEPT !["client"] =
              Secrets12(reply.suite, block, ms, hello.random, reply.random)]
         /\ installed' = installed \cup {Installed("client", "application", s, writer)}
         /\ Reply("client", answer)
         /\ session' = session /\ updates' = updates
    BY <1>4, <1>8, <2>9 DEF IfMade, Goto
  <2> HIDE DEF m, ms, fin, checked, block, i
  <2>11. IsSeq(m) /\ m[1] = hello /\ m[2] = reply /\ {1, 2} \subseteq DOMAIN m
    BY <2>8
  <2>12. /\ answer.kind = "client12" /\ answer.clear = <<cke>>
         /\ DOMAIN answer = {"kind", "clear", "sealed"}
    BY DEF Flight
  <2> HIDE DEF answer, writer
  <2>13. Arrives("server", answer)
    BY <1>1, <1>3, <1>4, <2>10, Moves
  <2>14. session["client"] = NoSession /\ session["server"] = NoSession
    BY <1>1, <1>3, <1>4 DEF OrderInv
  <2>15. \A q \in Roles : Kept(q)
    BY <1>3, <2>14 DEF Kept
  <2>16. pc'["client"] = "wait_finished" /\ pc'["server"] = pc["server"]
         /\ pc' \in [Roles -> {"start",
        "wait_server", "wait_client", "wait_finished", "connected", "failed", "panicked"}]
    BY <1>1, <1>3, <2>10 DEF HandshakeTypeOK
  <2>17. /\ transcript'["client"] = Append(m, fin)
         /\ transcript'["server"] = transcript["server"]
         /\ secrets'["client"] = Secrets12(reply.suite, block, ms, hello.random, reply.random)
         /\ secrets'["server"] = secrets["server"]
         /\ session' = session
         /\ kx'["client"] = None /\ kx'["server"] = kx["server"]
    BY <1>1, <1>3, <2>10 DEF StateOk
  <2>18. /\ IsSeq(Append(m, fin)) /\ {1, 2} \subseteq DOMAIN Append(m, fin)
         /\ Append(m, fin)[1] = hello /\ Append(m, fin)[2] = reply
    BY <2>11, AppendSeq
  <2>19. Holds12("client", transcript["client"])'
    <3> DEFINE n == Append(m, fin)
    <3>1. secrets'["client"].exporter = ms
      BY <2>17 DEF Secrets12
    <3> HIDE DEF n
    <3>2. /\ n[1] = hello /\ n[2] = reply /\ IsSeq(n) /\ {1, 2} \subseteq DOMAIN n
          /\ transcript'["client"] = n
      BY <2>17, <2>18 DEF n
    <3>3. SuiteIn(n) = s /\ Negotiated(n, "1.2")
      BY <2>1, <3>2 DEF SuiteIn, Negotiated
    <3>4. Block(ms, n) = block
      BY <2>9, <3>2, <3>3 DEF Block
    <3> QED
      BY <2>17, <3>1, <3>2, <3>3, <3>4 DEF Holds12
  <2>20. \A g : g = answer => FlightOk("server", g)'
    <3> SUFFICES ASSUME NEW g, g = answer PROVE FlightOk("server", g)'
      OBVIOUS
    <3>1. g.clear = <<g.clear[1]>> /\ ClientShare(g.clear[1])
      BY <2>4, <2>12
    <3> QED
      BY <2>12, <3>1 DEF FlightOk, ClearOk, SealedOk
  <2>21. InboxInv'
    BY <1>1, <1>2, <1>3, <2>13, <2>15, <2>20, InboxStep DEF Arrives
  <2>22. OrderInv'
    <3>1. Kinds("client")' \subseteq Kinds("client")
      BY <1>3, <2>13 DEF Arrives, Kinds
    <3> QED
      BY <1>1, <1>3, <1>4, <2>10, <2>14, <2>16, <2>17, <3>1 DEF OrderInv, HandshakeTypeOK
  <2>23. HandshakeTypeOK'
    <3>1. \A x \in installed' : ByteLen(x.cipher.key) = RfcShape(x.cipher.aead).enc_key_len
      BY <1>1, <2>9, <2>10 DEF HandshakeTypeOK, KeyFits
    <3>2. nextKey' \in 1 .. 4
      BY <1>1, <2>10, <2>16, <2>22 DEF OrderInv, HandshakeTypeOK
    <3> QED
      BY <1>1, <1>2, <1>3, <2>10, <2>16, <2>17, <3>1, <3>2 DEF HandshakeTypeOK
  <2>24. PanicsOnlyOnFaults'
    BY <1>1, <1>2, <1>3, <2>16 DEF PanicsOnlyOnFaults
  <2>25. StateOk'
    <3>1. DOMAIN secrets'["client"] = {"suite", "traffic", "exporter", "dh", "block", "client_random",
                              "server_random"}
      BY <2>17 DEF Secrets12
    <3> QED
      BY <1>1, <1>2, <1>3, <2>10, <2>13, <2>17, <3>1 DEF StateOk, Arrives, config
  <2>26. ServerInv'
    BY <1>1, <1>2, <2>16, <2>17, ServerKept
  <2>27. ClientInv'
    <3>1. suites' = suites /\ cert' = cert /\ key' = key
      BY <1>2 DEF config
    <3> QED
      BY <2>3, <2>6, <2>14, <2>16, <2>17, <2>18, <2>19, <3>1 DEF ClientInv
  <2>28. AgreeInv'
    BY <1>1, <2>15, <2>17, AgreeKept
  <2> QED
    BY <2>21, <2>22, <2>23, <2>24, <2>25, <2>26, <2>27, <2>28 DEF HsInv
<1> QED
  BY <1>7, <1>8

\* HandleClientFlight12 preserves the invariant: the server is the first to accept.
LEMMA HandleClientFlight12Keeps ==
  ASSUME HsInv, HandleClientFlight12, UNCHANGED <<config, altered, faulted>>
  PROVE  HsInv'
<1> DEFINE i == impl["server"]
           flight == Head(inbox["server"])
           reply == transcript["server"][2]
           s == SuiteOf(i, reply.suite)
           m == transcript["server"] \o flight.clear
           ms == MasterSecret12(i, s, kx["server"], flight.clear[1].share, m)
           block == KeyBlock(i, s, ms, m[1].random, reply.random)
           fin == Finished(FinishedMac12(i, s, ms, "server finished", m \o flight.sealed.msgs))
           writer == Write12(s, block, "server")
           reader == Read12(s, block, "server")
           hers == Finished(FinishedMac12(i, s, ms, "client finished", m))
           checked == Opens(s, reader, flight.sealed) /\ flight.sealed.msgs = <<hers>>
           answer == Flight("finished", <<>>, Sealed(s, writer, <<fin>>))
<1>1. /\ pc["server"] = "wait_client" /\ inbox["server"] # <<>> /\ flight.kind = "client12"
      /\ IF ms = NoBytes THEN GiveUp("server", "failed")
         ELSE IfMade("server", /\ KeysMade12(i, s, ms, m[1].random, reply.random, "server")
                               /\ Panic \notin {hers.mac, fin.mac},
                IF ~checked THEN GiveUp("server", "failed")
                ELSE /\ Goto("server", "connected")
                     /\ kx' = [kx EXCEPT !["server"] = None]
                     /\ transcript' = [transcript EXCEPT !["server"] =
                          m \o flight.sealed.msgs \o <<fin>>]
                     /\ secrets' = [secrets EXCEPT !["server"] =
                          Secrets12(reply.suite, block, ms, m[1].random, reply.random)]
                     /\ session' = [session EXCEPT !["server"] =
                          Session(reply.suite, s, m[1], [client |-> reader, server |-> writer], ms)]
                     /\ installed' = installed \cup {Installed("server", "application", s, writer)}
                     /\ Reply("server", answer)
                     /\ UNCHANGED <<nextKey, updates>>)
  BY DEF HandleClientFlight12, AcceptClient12, Pending
<1>2. /\ HandshakeTypeOK /\ PanicsOnlyOnFaults /\ StateOk
      /\ InboxInv /\ ClientInv /\ ServerInv /\ OrderInv /\ AgreeInv
  BY DEF HsInv
<1>3. UNCHANGED config /\ altered' = altered /\ faulted' = faulted
  OBVIOUS
<1>4. "client" \in Roles /\ "server" \in Roles /\ Roles = {"client", "server"}
      /\ Other("client") = "server"
      /\ Other("server") = "client"
  BY DEF Roles, Other
<1>5. FlightOk("server", flight) /\ flight \in Range(inbox["server"])
  BY <1>1, <1>2, <1>4, FirstFlight
<1>6. i \in Impls
  BY <1>2, <1>4 DEF StateOk, Impls
<1>7. Negotiated(transcript["server"], "1.2") /\ reply.suite = Chosen(transcript["server"][1])
  BY <1>1, <1>2 DEF ServerInv
<1>8. s = RfcSuite(reply.suite) /\ reply.suite \in AllSuites /\ s.aead_alg \in Aeads
      /\ s.version = "1.2"
  BY <1>6, <1>7, SuiteHeld DEF Negotiated, SuiteIn
<1>9. /\ IsSeq(m) /\ {1, 2} \subseteq DOMAIN m
      /\ m[1] = transcript["server"][1] /\ m[2] = reply
  <2>1. PICK c : flight.clear = <<c>>
    BY <1>1, <1>5 DEF FlightOk, ClearOk
  <2> DEFINE t == transcript["server"]
  <2>2. IsSeq(t) /\ {1, 2} \subseteq DOMAIN t
    BY <1>7 DEF Negotiated
  <2> HIDE DEF t
  <2>3. t \o <<c>> = Append(t, c)
    BY <2>2, JoinLast
  <2>4. m = Append(t, c)
    BY <2>1, <2>3 DEF t
  <2> HIDE DEF m
  <2>5. IsSeq(Append(t, c)) /\ DOMAIN t \subseteq DOMAIN Append(t, c)
        /\ \A n \in DOMAIN t : Append(t, c)[n] = t[n]
    BY <2>2, AppendSeq
  <2> QED
    BY <2>2, <2>4, <2>5 DEF t
<1> HIDE DEF i, s, m, reply
<1>10. /\ block = KeyBlock("rfc", s, ms, m[1].random, reply.random)
       /\ KeysMade12(i, s, ms, m[1].random, reply.random, "server")
       /\ Panic \notin {hers.mac, fin.mac}
       /\ WireKey(s, reader) = WireKey(s, Write12(s, block, "client"))
       /\ KeyFits(Installed("server", "application", s, writer))
  <2> HIDE DEF ms
  <2>1. hers.mac # Panic /\ fin.mac # Panic
    BY <1>6, FinishedSame12
  <2> HIDE DEF hers, fin
  <2> QED
    BY <1>4, <1>6, <1>8, <2>1, Made12
<1>11. CASE ms = NoBytes \/ ~checked
  <2>1. GiveUp("server", "failed")
    BY <1>1, <1>10, <1>11 DEF IfMade
  <2> QED
    BY <1>2, <1>3, <1>4, <2>1, GiveUpKeeps DEF StateOk
<1>12. CASE ~(ms = NoBytes \/ ~checked)
  <2>1. /\ pc' = [pc EXCEPT !["server"] = "connected"]
        /\ kx' = [kx EXCEPT !["server"] = None]
        /\ transcript' = [transcript EXCEPT !["server"] = m \o flight.sealed.msgs \o <<fin>>]
        /\ secrets' = [secrets EXCEPT !["server"] =
             Secrets12(reply.suite, block, ms, m[1].random, reply.random)]
        /\ session' = [session EXCEPT !["server"] =
             Session(reply.suite, s, m[1], [client |-> reader, server |-> writer], ms)]
        /\ installed' = installed \cup {Installed("server", "application", s, writer)}
        /\ Reply("server", answer)
        /\ nextKey' = nextKey /\ updates' = updates
    BY <1>1, <1>10, <1>12 DEF IfMade, Goto
  <2> DEFINE n == Append(m, hers)
  <2>2. flight.sealed.msgs = <<hers>>
    BY <1>12
  <2>3. /\ answer.kind = "finished" /\ answer.clear = <<>>
        /\ answer.sealed.msgs = <<fin>> /\ DOMAIN answer = {"kind", "clear", "sealed"}
    BY DEF Flight, Sealed
  <2>4. Arrives("client", answer)
    BY <1>1, <1>2, <1>4, <2>1, Moves
  <2>5. fin = Finished(FinishedMac12(i, s, ms, "server finished", m \o flight.sealed.msgs))
    OBVIOUS
  <2> HIDE DEF flight, hers, answer, ms, fin, block, checked
  <2>6. m \o flight.sealed.msgs = n
    BY <1>9, <2>2, JoinLast
  <2>7. /\ IsSeq(n) /\ {1, 2} \subseteq DOMAIN n /\ n[1] = m[1] /\ n[2] = reply
    <3>1. /\ IsSeq(Append(m, hers)) /\ DOMAIN m \subseteq DOMAIN Append(m, hers)
          /\ \A j \in DOMAIN m : Append(m, hers)[j] = m[j]
      BY <1>9, AppendSeq
    <3> QED
      BY <1>9, <3>1
  <2> HIDE DEF n
  <2>8. m \o flight.sealed.msgs \o <<fin>> = Append(n, fin)
    BY <2>6, <2>7, JoinLast
  <2>9. SuiteIn(n) = s /\ Negotiated(n, "1.2")
    BY <1>8, <2>7 DEF SuiteIn, Negotiated
  <2>10. Block(ms, n) = block
    BY <1>10, <2>7, <2>9 DEF Block
  <2>11. fin = ServerFinished12(ms, n)
    <3> DEFINE role == "server finished"
    <3>1. fin = Finished(FinishedMac12(i, s, ms, role, n))
      BY <2>5, <2>6
    <3>2. ServerFinished12(ms, n) = Finished(FinishedMac12("rfc", SuiteIn(n), ms, role, n))
      BY DEF ServerFinished12
    <3> HIDE DEF role
    <3>3. FinishedMac12(i, s, ms, role, n) = FinishedMac12("rfc", s, ms, role, n)
      BY <1>6, FinishedSame12
    <3> QED
      BY <2>9, <3>1, <3>2, <3>3
  <2>12. Session(reply.suite, s, m[1], [client |-> reader, server |-> writer], ms) = Session12(ms, n)
    <3> DEFINE here == [client |-> reader, server |-> writer]
               ours == [r \in Roles |-> Write12(s, block, r)]
    <3>1. \A r \in Roles : WireKey(s, here[r]) = WireKey(s, ours[r])
      BY <1>4, <1>10 DEF writer
    <3>2. Session12(ms, n) = Session(reply.suite, s, m[1], ours, ms)
      BY <2>7, <2>9, <2>10 DEF Session12
    <3> HIDE DEF here, ours
    <3>3. [r \in Roles |-> WireKey(s, here[r])] = [r \in Roles |-> WireKey(s, ours[r])]
      BY <3>1
    <3>4. Session(reply.suite, s, m[1], here, ms) = Session(reply.suite, s, m[1], ours, ms)
      BY <3>3 DEF Session
    <3> QED
      BY <3>2, <3>4 DEF here
  <2> HIDE DEF writer, reader
  <2>13. session["client"] = NoSession /\ session["server"] = NoSession
    BY <1>1, <1>2, <1>4 DEF OrderInv
  <2>14. pc["client"] \notin {"start", "wait_server"}
    BY <1>1, <1>2, <1>5 DEF OrderInv, Kinds
  <2>15. \A q \in Roles : Kept(q)
    BY <1>4, <2>13 DEF Kept
  <2>16. pc'["server"] = "connected" /\ pc'["client"] = pc["client"] /\ pc' \in [Roles -> {"start",
        "wait_server", "wait_client", "wait_finished", "connected", "failed", "panicked"}]
    BY <1>2, <1>4, <2>1 DEF HandshakeTypeOK
  <2>17. /\ transcript'["server"] = Append(n, fin)
         /\ transcript'["client"] = transcript["client"]
         /\ secrets'["server"] = Secrets12(reply.suite, block, ms, m[1].random, reply.random)
         /\ secrets'["client"] = secrets["client"]
         /\ session'["server"] = Session12(ms, n)
         /\ session'["client"] = NoSession
         /\ kx'["server"] = None /\ kx'["client"] = kx["client"]
    BY <1>2, <1>4, <2>1, <2>8, <2>12, <2>13 DEF StateOk
  <2>18. session'["server"] # NoSession /\ secrets'["server"] # NoSecrets
    BY <1>8, <2>1, <2>7, <2>17, SomeSession DEF Session12
  <2>19. Front(transcript'["server"]) = n /\ Last(transcript'["server"]) = fin
    BY <2>7, <2>17, AppendSeq
  <2>20. Accepted12("server")'
    <3>1. secrets'["server"].exporter = ms
      BY <2>17 DEF Secrets12
    <3>2. secrets'["server"] = Secrets12(n[2].suite, Block(ms, n), ms, n[1].random, n[2].random)
      BY <2>7, <2>10, <2>17
    <3> QED
      BY <2>9, <2>11, <2>17, <2>19, <3>1, <3>2 DEF Accepted12, Holds12
  <2>21. \A g : g = answer => FlightOk("client", g)'
    <3> SUFFICES ASSUME NEW g, g = answer PROVE FlightOk("client", g)'
      OBVIOUS
    <3>1. g.sealed.msgs = <<Last(transcript'["server"])>>
      BY <2>3, <2>19
    <3> QED
      BY <2>3, <2>20, <3>1 DEF FlightOk, ClearOk, SealedOk
  <2>22. InboxInv'
    BY <1>2, <1>3, <1>4, <2>4, <2>15, <2>21, InboxStep DEF Arrives
  <2>23. OrderInv'
    BY <1>1, <1>2, <1>4, <2>1, <2>14, <2>16, <2>17 DEF OrderInv, HandshakeTypeOK
  <2>24. HandshakeTypeOK'
    <3>1. \A x \in installed' : ByteLen(x.cipher.key) = RfcShape(x.cipher.aead).enc_key_len
      BY <1>2, <1>10, <2>1 DEF HandshakeTypeOK, KeyFits, writer
    <3> QED
      BY <1>2, <1>3, <1>4, <2>1, <2>13, <2>16, <2>17, <2>18, <3>1 DEF HandshakeTypeOK
  <2>25. PanicsOnlyOnFaults'
    BY <1>2, <1>3, <1>4, <2>16 DEF PanicsOnlyOnFaults
  <2>26. StateOk'
    <3>1. DOMAIN secrets'["server"] = {"suite", "traffic", "exporter", "dh", "block", "client_random",
                              "server_random"}
      BY <2>17 DEF Secrets12
    <3> QED
      BY <1>2, <1>3, <1>4, <2>1, <2>4, <2>17, <3>1 DEF StateOk, Arrives, config
  <2>27. ClientInv'
    BY <1>2, <1>3, <2>13, <2>16, <2>17, ClientKept
  <2>28. ServerInv'
    <3>1. \A h : Chosen(h)' = Chosen(h)
      BY <1>3 DEF Chosen, Usable, Version, config
    <3>2. Accepted("server")'
      BY <2>20 DEF Accepted
    <3>3. n[2].suite = Chosen(n[1])
      BY <1>7, <1>9, <2>7
    <3> QED
      BY <2>16, <2>19, <3>1, <3>2, <3>3 DEF ServerInv
  <2>29. AgreeInv'
    BY <1>4, <2>17 DEF AgreeInv, Both
  <2> QED
    BY <2>22, <2>23, <2>24, <2>25, <2>26, <2>27, <2>28, <2>29 DEF HsInv
<1> QED
  BY <1>11, <1>12

\* HandleServerFinished preserves the invariant: the Finished that opened is the
\* server's, and tells that both ends have the same messages and master secret.
LEMMA HandleServerFinishedKeeps ==
  ASSUME HsInv, HandleServerFinished, UNCHANGED <<config, altered, faulted>>
  PROVE  HsInv'
<1> DEFINE i == impl["client"]
           s == MySuite("client")
           mine == secrets["client"]
           ms == mine.exporter
           m == transcript["client"]
           role == "server finished"
           fin == Finished(FinishedMac12(i, s, ms, role, m))
           flight == Head(inbox["client"])
           reader == Reader("client")
           writer == Writer("client")
           checked == Opens(s, reader, flight.sealed) /\ flight.sealed.msgs = <<fin>>
<1>1. /\ HandshakeTypeOK /\ PanicsOnlyOnFaults /\ StateOk
      /\ InboxInv /\ ClientInv /\ ServerInv /\ OrderInv /\ AgreeInv
  BY DEF HsInv
<1>2. UNCHANGED config /\ altered' = altered /\ faulted' = faulted
  OBVIOUS
<1>3. "client" \in Roles /\ "server" \in Roles /\ Roles = {"client", "server"}
      /\ Other("client") = "server"
      /\ Other("server") = "client"
  BY DEF Roles, Other
<1>6. i \in Impls
  BY <1>1, <1>3 DEF StateOk, Impls
<1>4. /\ pc["client"] = "wait_finished" /\ inbox["client"] # <<>> /\ flight.kind = "finished"
      /\ IF ~checked THEN GiveUp("client", "failed")
         ELSE /\ pc' = [pc EXCEPT !["client"] = "connected"]
              /\ transcript' = [transcript EXCEPT !["client"] = Append(m, fin)]
              /\ session' = [session EXCEPT !["client"] =
                   Session(mine.suite, s, m[1], [client |-> writer, server |-> reader], ms)]
              /\ NoReply("client")
              /\ kx' = kx /\ nextKey' = nextKey /\ secrets' = secrets /\ updates' = updates
              /\ installed' = installed
  <2>1. fin.mac # Panic
    <3> HIDE DEF i, s, ms, role, m
    <3> QED
      BY <1>6, FinishedSame12
  <2> QED
    BY <2>1 DEF HandleServerFinished, Pending, IfMade, Goto
<1>5. FlightOk("client", flight)
  BY <1>1, <1>3, <1>4, FirstFlight
<1>7. CASE ~checked
  <2>1. GiveUp("client", "failed")
    BY <1>4, <1>7
  <2> QED
    BY <1>1, <1>2, <1>3, <2>1, GiveUpKeeps DEF StateOk
<1>8. CASE checked
  <2>1. /\ Holds12("client", m) /\ m[1].suites = suites["client"] /\ cert = key
    BY <1>1, <1>4 DEF ClientInv
  <2>2. /\ IsSeq(m) /\ m[2].suite \in AllSuites /\ SuiteIn(m).version = "1.2"
        /\ mine = Secrets12(m[2].suite, Block(ms, m), ms, m[1].random, m[2].random)
    BY <2>1 DEF Holds12, Negotiated
  <2>3. mine.suite = m[2].suite /\ mine.block = Block(ms, m)
    BY <2>2 DEF Secrets12
  <2>4. s = SuiteIn(m) /\ s.aead_alg \in Aeads /\ s.version = "1.2"
    BY <1>6, <2>2, <2>3, SuiteHeld DEF SuiteIn, MySuite
  <2>5. reader = Read12(s, Block(ms, m), "client") /\ writer = Write12(s, Block(ms, m), "client")
    BY <2>3, <2>4 DEF Reader, Writer
  <2>6. /\ pc' = [pc EXCEPT !["client"] = "connected"]
        /\ transcript' = [transcript EXCEPT !["client"] = Append(m, fin)]
        /\ session' = [session EXCEPT !["client"] =
             Session(mine.suite, s, m[1], [client |-> writer, server |-> reader], ms)]
        /\ NoReply("client")
        /\ kx' = kx /\ nextKey' = nextKey /\ secrets' = secrets /\ updates' = updates
        /\ installed' = installed
        /\ Opens(s, reader, flight.sealed) /\ flight.sealed.msgs = <<fin>>
    BY <1>4, <1>8
  <2> HIDE DEF s, m, checked, flight, reader, writer
  <2>7. fin = ServerFinished12(ms, m)
    <3>1. ServerFinished12(ms, m) = Finished(FinishedMac12("rfc", SuiteIn(m), ms, role, m))
      BY DEF ServerFinished12
    <3> HIDE DEF role
    <3>2. FinishedMac12(i, s, ms, role, m) = FinishedMac12("rfc", s, ms, role, m)
      BY <1>6, FinishedSame12
    <3> QED
      BY <2>4, <3>1, <3>2
  <2> HIDE DEF fin, mine, ms
  <2>8. /\ WireKey(s, reader) = WireKey(s, Write12(s, Block(ms, m), "server"))
        /\ WireKey(s, reader) # NoCipher
    <3>1. "rfc" \in Impls /\ Block(ms, m) = KeyBlock("rfc", s, ms, m[1].random, m[2].random)
      BY <2>4 DEF Impls, Block
    <3> QED
      BY <1>3, <2>4, <2>5, <3>1, Made12
  <2> HIDE DEF i
  <2>9. SealedOk("client", "finished", flight.sealed.msgs)
    BY <1>4, <1>5, <2>6, <2>8, OpensSealed DEF FlightOk
  <2>10. Accepted12("server") /\ Last(transcript["server"]) = fin
    BY <2>6, <2>9 DEF SealedOk
  <2>11. Front(transcript["server"]) = m /\ secrets["server"].exporter = ms
    <3> DEFINE n == Front(transcript["server"])
               ns == secrets["server"].exporter
    <3>1. ServerFinished12(ns, n) = ServerFinished12(ms, m)
      BY <2>7, <2>10 DEF Accepted12
    <3>2. /\ ServerFinished12(ns, n) = Finished(FinishedMac12("rfc", SuiteIn(n), ns, role, n))
          /\ ServerFinished12(ms, m) = Finished(FinishedMac12("rfc", SuiteIn(m), ms, role, m))
      BY DEF ServerFinished12
    <3> HIDE DEF n, ns, role
    <3>3. Finished(FinishedMac12("rfc", SuiteIn(n), ns, role, n)) =
            Finished(FinishedMac12("rfc", SuiteIn(m), ms, role, m))
      BY <3>1, <3>2
    <3>4. n = m /\ ns = ms
      BY <3>3, FinishedTells12
    <3> QED
      BY <3>4 DEF n, ns
  <2>12. session["server"] = Session12(ms, m) /\ session["server"] # NoSession
    BY <1>3, <2>10, <2>11, AcceptedSession DEF Accepted12, Accepted
  <2>13. Session(mine.suite, s, m[1], [client |-> writer, server |-> reader], ms) = Session12(ms, m)
    <3> DEFINE here == [client |-> writer, server |-> reader]
               ours == [r \in Roles |-> Write12(s, Block(ms, m), r)]
    <3>1. \A r \in Roles : WireKey(s, here[r]) = WireKey(s, ours[r])
      BY <1>3, <2>5, <2>8
    <3>2. Session12(ms, m) = Session(mine.suite, s, m[1], ours, ms)
      BY <2>3, <2>4 DEF Session12
    <3> HIDE DEF here, ours
    <3>3. [r \in Roles |-> WireKey(s, here[r])] = [r \in Roles |-> WireKey(s, ours[r])]
      BY <3>1
    <3>4. Session(mine.suite, s, m[1], here, ms) = Session(mine.suite, s, m[1], ours, ms)
      BY <3>3 DEF Session
    <3> QED
      BY <3>2, <3>4 DEF here
  <2>14. mine # NoSecrets
    BY <2>2, <2>3, NoSuiteIsNone DEF NoSecrets
  <2>15. Quiet
    BY <1>1, <1>3, <1>4, <2>6, Moves
  <2>16. session["client"] = NoSession /\ pc["server"] \notin {"start", "wait_client"}
    BY <1>1, <1>3, <1>4, <2>12 DEF OrderInv
  <2>17. pc'["client"] = "connected" /\ pc'["server"] = pc["server"] /\ pc' \in [Roles -> {"start",
        "wait_server", "wait_client", "wait_finished", "connected", "failed", "panicked"}]
    BY <1>1, <1>3, <2>6 DEF HandshakeTypeOK
  <2>18. /\ transcript'["client"] = Append(m, fin)
         /\ transcript'["server"] = transcript["server"]
         /\ session'["client"] = Session12(ms, m)
         /\ session'["server"] = session["server"]
         /\ secrets'["client"] = mine /\ secrets'["server"] = secrets["server"]
    BY <1>1, <1>3, <2>6, <2>13 DEF StateOk, mine
  <2>19. Front(transcript'["client"]) = m /\ Last(transcript'["client"]) = fin
    BY <2>2, <2>18, AppendSeq
  <2>20. \A q \in Roles : Kept(q)
    BY <1>3, <2>16, <2>18 DEF Kept
  <2>21. Accepted12("client")'
    <3>1. Negotiated(m, "1.2") /\ secrets'["client"].exporter = ms
      BY <2>1, <2>18 DEF Holds12, ms
    <3> QED
      BY <2>2, <2>7, <2>18, <2>19, <3>1 DEF Accepted12, Holds12
  <2>22. session'["client"] # NoSession /\ secrets'["client"] # NoSecrets
    BY <2>12, <2>14, <2>18
  <2>23. InboxInv'
    BY <1>1, <1>2, <2>15, <2>20, InboxStep DEF Quiet
  <2>24. OrderInv'
    <3>1. \A q \in Roles : Kinds(q)' \subseteq Kinds(q)
      BY <2>15 DEF Quiet, Kinds
    <3> QED
      BY <1>1, <1>3, <1>4, <2>6, <2>16, <2>17, <2>18, <3>1 DEF OrderInv, HandshakeTypeOK
  <2>25. HandshakeTypeOK'
    <3>1. kx["client"] = None
      BY <1>1, <1>3, <1>4 DEF OrderInv
    <3> QED
      BY <1>1, <1>2, <1>3, <2>6, <2>17, <2>18, <2>22, <3>1 DEF HandshakeTypeOK
  <2>26. PanicsOnlyOnFaults'
    BY <1>1, <1>2, <1>3, <2>17 DEF PanicsOnlyOnFaults
  <2>27. StateOk'
    BY <1>1, <1>2, <1>3, <2>6, <2>15 DEF StateOk, Quiet, config
  <2>28. ServerInv'
    BY <1>1, <1>2, <2>17, <2>18, ServerKept
  <2>29. ClientInv'
    <3>1. Accepted("client")'
      BY <2>21 DEF Accepted
    <3>2. suites' = suites /\ cert' = cert /\ key' = key
      BY <1>2 DEF config
    <3> QED
      BY <2>1, <2>17, <2>19, <3>1, <3>2 DEF ClientInv
  <2>30. AgreeInv'
    BY <2>11, <2>12, <2>18, <2>19 DEF AgreeInv
  <2> QED
    BY <2>23, <2>24, <2>25, <2>26, <2>27, <2>28, <2>29, <2>30 DEF HsInv
<1> QED
  BY <1>7, <1>8

-----------------------------------------------------------------------------
(* Key updates                                                             *)

\* An end that is connected has accepted, under the suite its ciphers are of.
LEMMA ConnectedAccepted ==
  ASSUME HsInv, NEW r \in Roles, pc[r] = "connected"
  PROVE  /\ Accepted(r) /\ session[r] # NoSession /\ impl[r] \in Impls
         /\ secrets[r].suite = session[r].suite /\ session[r].suite \in AllSuites
         /\ MySuite(r) = RfcSuite(session[r].suite)
         /\ Accepted13(r) <=> MySuite(r).version = "1.3"
<1>1. Accepted(r) /\ session[r] # NoSession
  BY DEF HsInv, HandshakeTypeOK, ClientInv, ServerInv, Roles
<1>2. impl[r] \in Impls
  BY DEF HsInv, StateOk, Impls
<1>3. /\ secrets[r].suite = session[r].suite /\ session[r].suite \in AllSuites
      /\ Accepted13(r) <=> RfcSuite(session[r].suite).version = "1.3"
  BY <1>1, AcceptedSession
<1>4. MySuite(r) = RfcSuite(session[r].suite)
  BY <1>2, <1>3, SuiteHeld DEF MySuite
<1> QED
  BY <1>1, <1>2, <1>3, <1>4

\* A change of a traffic secret leaves everything accepted alone.
LEMMA Rekeyed ==
  ASSUME HsInv, NEW r \in Roles, pc[r] = "connected", Accepted13(r), NEW w,
         secrets' = Updated(r, w), UNCHANGED <<config, altered, faulted>>,
         UNCHANGED <<pc, kx, nextKey, transcript, session>>
  PROVE  /\ \A q \in Roles : Kept(q)
         /\ Accepted13(r)'
         /\ ClientInv' /\ ServerInv' /\ AgreeInv' /\ PanicsOnlyOnFaults'
         /\ DOMAIN secrets' = Roles
         /\ \A q \in Roles : secrets'[q] # NoSecrets =>
              DOMAIN secrets'[q] = {"suite", "traffic", "exporter", "dh", "block", "client_random",
                                    "server_random"}
         /\ \A q \in Roles : secrets[q] # NoSecrets => secrets'[q] # NoSecrets
<1>1. /\ HandshakeTypeOK /\ PanicsOnlyOnFaults /\ StateOk
      /\ InboxInv /\ ClientInv /\ ServerInv /\ OrderInv /\ AgreeInv
  BY DEF HsInv
<1>2. /\ pc' = pc /\ kx' = kx /\ nextKey' = nextKey /\ transcript' = transcript
      /\ session' = session
      /\ UNCHANGED config /\ altered' = altered /\ faulted' = faulted
  OBVIOUS
<1>3. /\ "client" \in Roles /\ "server" \in Roles /\ Roles = {"client", "server"}
  BY DEF Roles
<1>4. /\ Accepted(r) /\ secrets[r].suite \in AllSuites /\ ~Accepted12(r)
  BY ConnectedAccepted, AcceptedSession
<1>5. secrets[r] # NoSecrets
  BY <1>4, NoSuiteIsNone DEF NoSecrets
<1>6. DOMAIN secrets[r] = {"suite", "traffic", "exporter", "dh", "block", "client_random",
                           "server_random"}
  BY <1>1, <1>5 DEF StateOk
<1>7. PICK t : secrets' = [secrets EXCEPT ![r].traffic = t]
  <2>1. \E t : secrets' = [secrets EXCEPT ![r].traffic = t]
    BY DEF Updated
  <2> QED
    BY <2>1
<1>8. /\ DOMAIN secrets' = Roles
      /\ secrets'[r] = [secrets[r] EXCEPT !.traffic = t]
      /\ \A q \in Roles : q # r => secrets'[q] = secrets[q]
  BY <1>1, <1>7 DEF StateOk
<1>9. /\ secrets'[r].suite = secrets[r].suite /\ secrets'[r].exporter = secrets[r].exporter
      /\ secrets'[r].dh = secrets[r].dh
      /\ DOMAIN secrets'[r] = {"suite", "traffic", "exporter", "dh", "block", "client_random",
                               "server_random"}
  BY <1>6, <1>8
<1>10. secrets'[r] # NoSecrets
  BY <1>4, <1>9, NoSuiteIsNone DEF NoSecrets
<1>11. \A q \in Roles : Kept(q)
  BY <1>2, <1>4, <1>8, <1>9 DEF Kept
<1>12. \A q \in Roles : Accepted(q) => Accepted(q)'
  BY <1>11, AcceptedKept DEF Accepted
<1>13. Accepted13(r)'
  BY <1>11, AcceptedKept
<1>14. ClientInv'
  <2>1. suites' = suites /\ cert' = cert /\ key' = key
    BY <1>2 DEF config
  <2>2. CASE r = "client"
    BY <1>1, <1>2, <1>3, <1>12, <2>1, <2>2 DEF ClientInv
  <2>3. CASE r # "client"
    <3>1. secrets'["client"] = secrets["client"]
      BY <1>3, <1>8, <2>3
    <3> QED
      BY <1>1, <1>2, <3>1, ClientKept
  <2> QED
    BY <2>2, <2>3
<1>15. ServerInv'
  <2>1. \A h : Chosen(h)' = Chosen(h)
    BY <1>2 DEF Chosen, Usable, Version, config
  <2>2. CASE r = "server"
    BY <1>1, <1>2, <1>3, <1>12, <2>1, <2>2 DEF ServerInv
  <2>3. CASE r # "server"
    <3>1. secrets'["server"] = secrets["server"]
      BY <1>3, <1>8, <2>3
    <3> QED
      BY <1>1, <1>2, <3>1, ServerKept
  <2> QED
    BY <2>2, <2>3
<1>16. AgreeInv'
  BY <1>1, <1>2, <1>11, AgreeKept
<1>17. PanicsOnlyOnFaults'
  BY <1>1, <1>2 DEF PanicsOnlyOnFaults
<1>18. /\ \A q \in Roles : secrets'[q] # NoSecrets =>
            DOMAIN secrets'[q] = {"suite", "traffic", "exporter", "dh", "block", "client_random",
                                  "server_random"}
       /\ \A q \in Roles : secrets[q] # NoSecrets => secrets'[q] # NoSecrets
  BY <1>1, <1>8, <1>9, <1>10 DEF StateOk
<1> QED
  BY <1>8, <1>11, <1>13, <1>14, <1>15, <1>16, <1>17, <1>18

\* The secret and the cipher of a key update can be made.
LEMMA UpdateMade ==
  ASSUME HsInv, NEW r \in Roles, pc[r] = "connected", NEW w
  PROVE  NextMade(r, w)
<1> DEFINE s == MySuite(r)
<1>1. impl[r] \in Impls /\ s.kdf \in Hashes /\ s.aead_alg \in Aeads
  BY ConnectedAccepted, SuiteHeld
<1> HIDE DEF s
<1>2. \A okm : NextTrafficSecret(impl[r], s, okm) # Panic
  <2> SUFFICES ASSUME NEW okm PROVE NextTrafficSecret(impl[r], s, okm) # Panic
    OBVIOUS
  <2>1. FromOkm(impl[r], s, okm) = WolfHkdfExpander(okm, s.kdf)
    BY <1>1, OkmSame
  <2> QED
    BY <1>1, <2>1, BlockMade DEF NextTrafficSecret
<1>3. \A okm : TrafficCipher(impl[r], s, okm) # NoCipher
  <2>1. \A okm : TrafficCipher(impl[r], s, okm).aead = s.aead_alg
    BY <1>1, TrafficCipherMade
  <2> QED
    BY <1>1, <2>1 DEF NoCipher, Aeads
<1> QED
  BY <1>2, <1>3 DEF NextMade, s

\* SendKeyUpdate preserves the invariant.
LEMMA SendKeyUpdateKeeps ==
  ASSUME HsInv, NEW r \in Roles, SendKeyUpdate(r), UNCHANGED <<config, altered, faulted>>
  PROVE  HsInv'
<1> DEFINE next == Updated(r, r)[r].traffic[r]
           s == MySuite(r)
           flight == Flight("key_update", <<>>, Sealed(s, Writer(r), <<>>))
           cipher == TrafficCipher(impl[r], s, next)
<1>1. /\ HandshakeTypeOK /\ PanicsOnlyOnFaults /\ StateOk
      /\ InboxInv /\ ClientInv /\ ServerInv /\ OrderInv /\ AgreeInv
  BY DEF HsInv
<1>2. UNCHANGED config /\ altered' = altered /\ faulted' = faulted
  OBVIOUS
<1>3. /\ pc[r] = "connected" /\ s.version = "1.3" /\ updates[r] < MaxUpdates
      /\ Post(r, flight)
      /\ secrets' = Updated(r, r)
      /\ updates' = [updates EXCEPT ![r] = @ + 1]
      /\ installed' = installed \cup {Installed(r, "update", s, cipher)}
      /\ pc' = pc /\ kx' = kx /\ nextKey' = nextKey /\ transcript' = transcript
      /\ session' = session
  <2>1. NextMade(r, r)
    BY UpdateMade DEF SendKeyUpdate
  <2> QED
    BY <2>1 DEF SendKeyUpdate, IfMade
<1>4. /\ Accepted13(r) /\ session[r] # NoSession /\ impl[r] \in Impls
      /\ s = RfcSuite(session[r].suite) /\ session[r].suite \in AllSuites
  BY <1>3, ConnectedAccepted
<1>5. s.kdf \in Hashes /\ s.aead_alg \in Aeads
  BY <1>4, SuiteHeld
<1> HIDE DEF next, s
<1>6. KeyFits(Installed(r, "update", s, cipher))
  <2>1. /\ cipher.aead = s.aead_alg /\ ByteLen(cipher.key) = RfcShape(s.aead_alg).enc_key_len
    BY <1>4, <1>5, TrafficCipherMade
  <2> HIDE DEF cipher
  <2>2. Installed(r, "update", s, cipher).cipher = cipher
    BY <1>3 DEF Installed, WireKey
  <2> QED
    BY <2>1, <2>2 DEF KeyFits
<1>7. /\ flight.kind = "key_update" /\ flight.clear = <<>>
      /\ DOMAIN flight = {"kind", "clear", "sealed"}
  BY DEF Flight
<1> HIDE DEF flight, cipher
<1>8. Arrives(Other(r), flight)
  BY <1>1, <1>3, Moves
<1>9. /\ \A q \in Roles : Kept(q)
      /\ Accepted13(r)'
      /\ ClientInv' /\ ServerInv' /\ AgreeInv' /\ PanicsOnlyOnFaults'
      /\ DOMAIN secrets' = Roles
      /\ \A q \in Roles : secrets'[q] # NoSecrets =>
           DOMAIN secrets'[q] = {"suite", "traffic", "exporter", "dh", "block", "client_random",
                                 "server_random"}
      /\ \A q \in Roles : secrets[q] # NoSecrets => secrets'[q] # NoSecrets
  BY <1>2, <1>3, <1>4, Rekeyed
<1>10. Other(r) \in Roles /\ Other(Other(r)) = r /\ \A q \in Roles : q = r \/ q = Other(r)
  BY DEF Roles, Other
<1>11. \A g : g = flight => FlightOk(Other(r), g)'
  BY <1>7, <1>9, <1>10 DEF FlightOk, ClearOk, SealedOk
<1>12. InboxInv'
  BY <1>1, <1>2, <1>8, <1>9, <1>10, <1>11, InboxStep DEF Arrives
<1>13. OrderInv'
  <2>1. Kinds(r)' \subseteq Kinds(r)
    BY <1>8, <1>10 DEF Arrives, Kinds
  <2>2. CASE r = "client"
    BY <1>1, <1>3, <2>1, <2>2 DEF OrderInv
  <2>3. CASE r = "server"
    BY <1>1, <1>3, <2>1, <2>3 DEF OrderInv
  <2> QED
    BY <2>2, <2>3 DEF Roles
<1>14. HandshakeTypeOK'
  <2>1. \A x \in installed' : ByteLen(x.cipher.key) = RfcShape(x.cipher.aead).enc_key_len
    BY <1>1, <1>3, <1>6 DEF HandshakeTypeOK, KeyFits
  <2>2. updates' \in [Roles -> 0 .. MaxUpdates]
    BY <1>1, <1>3, HandshakeAssumption DEF HandshakeTypeOK
  <2> QED
    BY <1>1, <1>2, <1>3, <1>9, <2>1, <2>2 DEF HandshakeTypeOK
<1>15. StateOk'
  BY <1>1, <1>2, <1>3, <1>8, <1>9 DEF StateOk, Arrives, config
<1> QED
  BY <1>9, <1>12, <1>13, <1>14, <1>15 DEF HsInv

\* HandleKeyUpdate preserves the invariant: only a TLS 1.3 end sends one, so the
\* other has accepted the same TLS 1.3 session.
LEMMA HandleKeyUpdateKeeps ==
  ASSUME HsInv, NEW r \in Roles, HandleKeyUpdate(r), UNCHANGED <<config, altered, faulted>>
  PROVE  HsInv'
<1> DEFINE flight == Head(inbox[r])
           opens == Opens(MySuite(r), Reader(r), flight.sealed)
<1>1. /\ HandshakeTypeOK /\ PanicsOnlyOnFaults /\ StateOk
      /\ InboxInv /\ ClientInv /\ ServerInv /\ OrderInv /\ AgreeInv
  BY DEF HsInv
<1>2. UNCHANGED config /\ altered' = altered /\ faulted' = faulted
  OBVIOUS
<1>3. /\ pc[r] = "connected" /\ inbox[r] # <<>> /\ flight.kind = "key_update"
      /\ IF ~opens THEN GiveUp(r, "failed")
         ELSE /\ secrets' = Updated(r, Other(r))
              /\ NoReply(r)
              /\ pc' = pc /\ kx' = kx /\ nextKey' = nextKey /\ transcript' = transcript
              /\ session' = session /\ updates' = updates /\ installed' = installed
  <2>1. NextMade(r, Other(r))
    BY UpdateMade DEF HandleKeyUpdate
  <2> QED
    BY <2>1 DEF HandleKeyUpdate, Pending, IfMade
<1>4. FlightOk(r, flight)
  BY <1>1, <1>3, FirstFlight
<1>5. CASE ~opens
  <2>1. GiveUp(r, "failed")
    BY <1>3, <1>5
  <2> QED
    BY <1>1, <1>2, <2>1, GiveUpKeeps DEF StateOk
<1>6. CASE opens
  <2>1. Accepted13(Other(r)) /\ Other(r) \in Roles /\ \A q \in Roles : q = r \/ q = Other(r)
    BY <1>3, <1>4 DEF FlightOk, ClearOk, Roles, Other
  <2>2. Accepted13(r)
    <3>1. /\ session[Other(r)] # NoSession
          /\ RfcSuite(session[Other(r)].suite).version = "1.3"
      BY <2>1, AcceptedSession DEF Accepted
    <3>2. /\ session[r] # NoSession /\ MySuite(r) = RfcSuite(session[r].suite)
          /\ Accepted13(r) <=> MySuite(r).version = "1.3"
      BY <1>3, ConnectedAccepted
    <3>3. session["client"] = session["server"]
      BY <1>1, <2>1, <3>1, <3>2 DEF AgreeInv, Both
    <3>4. session[r] = session[Other(r)]
      BY <3>3 DEF Roles, Other
    <3> QED
      BY <3>1, <3>2, <3>4
  <2>3. /\ secrets' = Updated(r, Other(r))
        /\ NoReply(r)
        /\ pc' = pc /\ kx' = kx /\ nextKey' = nextKey /\ transcript' = transcript
        /\ session' = session /\ updates' = updates /\ installed' = installed
    BY <1>3, <1>6
  <2>4. Quiet
    BY <1>1, <1>3, <2>3, Moves
  <2>5. /\ \A q \in Roles : Kept(q)
        /\ ClientInv' /\ ServerInv' /\ AgreeInv' /\ PanicsOnlyOnFaults'
        /\ DOMAIN secrets' = Roles
        /\ \A q \in Roles : secrets'[q] # NoSecrets =>
             DOMAIN secrets'[q] = {"suite", "traffic", "exporter", "dh", "block", "client_random",
                                   "server_random"}
        /\ \A q \in Roles : secrets[q] # NoSecrets => secrets'[q] # NoSecrets
    BY <1>2, <1>3, <2>2, <2>3, Rekeyed
  <2>6. InboxInv'
    BY <1>1, <1>2, <2>4, <2>5, InboxStep DEF Quiet
  <2>7. OrderInv'
    <3>1. \A q \in Roles : Kinds(q)' \subseteq Kinds(q)
      BY <2>4 DEF Quiet, Kinds
    <3>2. "client" \in Roles /\ "server" \in Roles
      BY DEF Roles
    <3> QED
      BY <1>1, <2>3, <3>1, <3>2 DEF OrderInv
  <2>8. HandshakeTypeOK'
    BY <1>1, <1>2, <2>3, <2>5 DEF HandshakeTypeOK
  <2>9. StateOk'
    BY <1>1, <1>2, <2>3, <2>4, <2>5 DEF StateOk, Quiet, config
  <2> QED
    BY <2>5, <2>6, <2>7, <2>8, <2>9 DEF HsInv
<1> QED
  BY <1>5, <1>6

-----------------------------------------------------------------------------
(* The network alters a message in the clear                               *)

\* An altered message still has the shape of its kind, and an altered signed share
\* still carries the server's signature.
LEMMA AlteredMessage ==
  ASSUME NEW a, NEW m \in Altered(a)
  PROVE  /\ IsHello(a) => IsHello(m)
         /\ IsReply(a) => IsReply(m)
         /\ IsCertificate(a) => IsCertificate(m)
         /\ SignedShare(a) => SignedShare(m)
         /\ ClientShare(a) => ClientShare(m)
<1>1. ASSUME IsHello(a) PROVE IsHello(m)
  <2>1. m \in {[a EXCEPT !.suites = x] : x \in ClientLists} \cup {[a EXCEPT !.random = 0]}
                \cup {[a EXCEPT !.share = x] : x \in ForeignShares}
    BY <1>1 DEF Altered, IsHello
  <2> QED
    BY <1>1, <2>1 DEF IsHello
<1>2. ASSUME IsReply(a) PROVE IsReply(m)
  <2>1. m \in {[a EXCEPT !.suite = x] : x \in Range(ALL_CIPHER_SUITES)} \cup {[a EXCEPT !.random = 0]}
                \cup {[a EXCEPT !.share = x] : x \in ForeignShares}
    BY <1>2 DEF Altered, IsReply
  <2> QED
    BY <1>2, <2>1 DEF IsReply
<1>3. ASSUME IsCertificate(a) PROVE IsCertificate(m)
  <2>1. m \in {[a EXCEPT !.key = OtherKey]}
    BY <1>3 DEF Altered, IsCertificate
  <2> QED
    BY <1>3, <2>1 DEF IsCertificate
<1>4. ASSUME SignedShare(a) PROVE SignedShare(m)
  <2>1. m \in {[a EXCEPT !.share = x] : x \in ForeignShares}
                \cup {[a EXCEPT !.scheme = x] : x \in Schemes}
    BY <1>4 DEF Altered, SignedShare
  <2> QED
    BY <1>4, <2>1 DEF SignedShare
<1>5. ASSUME ClientShare(a) PROVE ClientShare(m)
  <2>1. m \in {[a EXCEPT !.share = x] : x \in ForeignShares}
    BY <1>5 DEF Altered, ClientShare
  <2> QED
    BY <1>5, <2>1 DEF ClientShare
<1> QED
  BY <1>1, <1>2, <1>3, <1>4, <1>5

\* A flight with one message replaced.
LEMMA AlteredTuple ==
  ASSUME NEW a, NEW b, NEW c, NEW m
  PROVE  /\ \A j \in DOMAIN <<a>> : [<<a>> EXCEPT ![j] = m] = <<m>> /\ <<a>>[j] = a
         /\ \A j \in DOMAIN <<a, b, c>> :
              \/ [<<a, b, c>> EXCEPT ![j] = m] = <<m, b, c>> /\ <<a, b, c>>[j] = a
              \/ [<<a, b, c>> EXCEPT ![j] = m] = <<a, m, c>> /\ <<a, b, c>>[j] = b
              \/ [<<a, b, c>> EXCEPT ![j] = m] = <<a, b, m>> /\ <<a, b, c>>[j] = c
<1>1. ASSUME NEW j \in DOMAIN <<a>> PROVE [<<a>> EXCEPT ![j] = m] = <<m>> /\ <<a>>[j] = a
  <2> DEFINE q == <<a>>
             p == [q EXCEPT ![j] = m]
  <2>1. q[1] = a /\ DOMAIN q = 1 .. 1 /\ IsSeq(q) /\ Len(q) = 1
    <3>1. IsSeq(q) /\ Len(q) = 1
      BY ShortSeq
    <3>2. q[1] = a /\ DOMAIN q = 1 .. 1
      OBVIOUS
    <3> QED
      BY <3>1, <3>2
  <2>2. j = 1
    BY <2>1
  <2> HIDE DEF q
  <2>3. p = [n \in DOMAIN q |-> IF n = j THEN m ELSE q[n]]
    OBVIOUS
  <2>4. p[1] = m
    BY <2>1, <2>2
  <2>5. IsSeq(p) /\ Len(p) = Len(q)
    <3>1. p \in [DOMAIN q -> Range(q) \cup {m}]
      BY <2>3 DEF Range
    <3> HIDE DEF p
    <3> QED
      BY <2>1, <3>1, Replaced
  <2>6. p = <<p[1]>>
    <3> HIDE DEF p
    <3> QED
      BY <2>1, <2>5, Tuples
  <2> QED
    BY <2>1, <2>2, <2>4, <2>6 DEF q
<1>2. ASSUME NEW j \in DOMAIN <<a, b, c>>
      PROVE  \/ [<<a, b, c>> EXCEPT ![j] = m] = <<m, b, c>> /\ <<a, b, c>>[j] = a
             \/ [<<a, b, c>> EXCEPT ![j] = m] = <<a, m, c>> /\ <<a, b, c>>[j] = b
             \/ [<<a, b, c>> EXCEPT ![j] = m] = <<a, b, m>> /\ <<a, b, c>>[j] = c
  <2> DEFINE q == <<a, b, c>>
             p == [q EXCEPT ![j] = m]
  <2>1. q[1] = a /\ q[2] = b /\ q[3] = c /\ DOMAIN q = 1 .. 3 /\ IsSeq(q) /\ Len(q) = 3
    <3>1. IsSeq(q) /\ Len(q) = 3
      BY ShortSeq
    <3>2. q[1] = a /\ q[2] = b /\ q[3] = c /\ DOMAIN q = 1 .. 3
      OBVIOUS
    <3> QED
      BY <3>1, <3>2
  <2>2. j \in {1, 2, 3}
    BY <2>1
  <2> HIDE DEF q
  <2>3. p = [n \in DOMAIN q |-> IF n = j THEN m ELSE q[n]]
    OBVIOUS
  <2>4. /\ p[1] = IF j = 1 THEN m ELSE a
        /\ p[2] = IF j = 2 THEN m ELSE b
        /\ p[3] = IF j = 3 THEN m ELSE c
    BY <2>1, <2>2
  <2>5. IsSeq(p) /\ Len(p) = Len(q)
    <3>1. p \in [DOMAIN q -> Range(q) \cup {m}]
      BY <2>3 DEF Range
    <3> HIDE DEF p
    <3> QED
      BY <2>1, <3>1, Replaced
  <2>6. p = <<p[1], p[2], p[3]>>
    <3> HIDE DEF p
    <3> QED
      BY <2>1, <2>5, Tuples
  <2>7. \/ p = <<m, b, c>> /\ q[j] = a
        \/ p = <<a, m, c>> /\ q[j] = b
        \/ p = <<a, b, m>> /\ q[j] = c
    <3> HIDE DEF p
    <3> QED
      BY <2>1, <2>2, <2>4, <2>6
  <2> QED
    BY <2>7 DEF q
<1> QED
  BY <1>1, <1>2

\* So what the network makes of the messages in the clear is in order.
LEMMA AlteredClear ==
  ASSUME NEW r \in Roles, NEW kind, NEW clear, ClearOk(r, kind, clear), NEW j \in DOMAIN clear,
         NEW m \in Altered(clear[j])
  PROVE  ClearOk(r, kind, [clear EXCEPT ![j] = m])
<1> DEFINE new == [clear EXCEPT ![j] = m]
<1>1. CASE r = "server" /\ kind = "hello"
  <2>1. PICK a : clear = <<a>> /\ IsHello(a)
    BY <1>1 DEF ClearOk
  <2>2. new = <<m>> /\ IsHello(m)
    BY <2>1, AlteredTuple, AlteredMessage
  <2> HIDE DEF new
  <2>3. ClearOk(r, kind, new)
    BY <1>1, <2>2 DEF ClearOk
  <2> QED
    BY <2>3 DEF new
<1>2. CASE r = "server" /\ kind = "client12"
  <2>1. PICK a : clear = <<a>> /\ ClientShare(a)
    BY <1>2 DEF ClearOk
  <2>2. new = <<m>> /\ ClientShare(m)
    BY <2>1, AlteredTuple, AlteredMessage
  <2> HIDE DEF new
  <2>3. ClearOk(r, kind, new)
    BY <1>2, <2>2 DEF ClearOk
  <2> QED
    BY <2>3 DEF new
<1>3. CASE r = "client" /\ kind = "server13"
  <2>1. PICK a : clear = <<a>> /\ IsReply(a)
    BY <1>3 DEF ClearOk
  <2>2. new = <<m>> /\ IsReply(m)
    BY <2>1, AlteredTuple, AlteredMessage
  <2> HIDE DEF new
  <2>3. ClearOk(r, kind, new)
    BY <1>3, <2>2 DEF ClearOk
  <2> QED
    BY <2>3 DEF new
<1>4. CASE r = "client" /\ kind = "server12"
  <2>1. PICK a, b, c : clear = <<a, b, c>> /\ IsReply(a) /\ IsCertificate(b) /\ SignedShare(c)
    BY <1>4 DEF ClearOk
  <2>2. \/ new = <<m, b, c>> /\ clear[j] = a
        \/ new = <<a, m, c>> /\ clear[j] = b
        \/ new = <<a, b, m>> /\ clear[j] = c
    BY <2>1, AlteredTuple
  <2> HIDE DEF new
  <2>3. \E x, y, z : new = <<x, y, z>> /\ IsReply(x) /\ IsCertificate(y) /\ SignedShare(z)
    BY <2>1, <2>2, AlteredMessage
  <2>4. ClearOk(r, kind, new)
    BY <1>4, <2>3 DEF ClearOk
  <2> QED
    BY <2>4 DEF new
<1>5. CASE clear = <<>>
  BY <1>5
<1> QED
  BY <1>1, <1>2, <1>3, <1>4, <1>5 DEF ClearOk

\* Replacing the first flight by one that is in order preserves the invariant.
LEMMA ReplacedKeeps ==
  ASSUME HsInv, NEW r \in Roles, inbox[r] # <<>>, NEW v, FlightOk(r, v),
         v.kind = Head(inbox[r]).kind,
         inbox' = [inbox EXCEPT ![r] = [n \in DOMAIN inbox[r] |-> IF n = 1 THEN v ELSE inbox[r][n]]],
         altered < MaxAltered, altered' = altered + 1,
         UNCHANGED <<config, pc, kx, nextKey, transcript, secrets, session, updates, installed, faulted>>
  PROVE  HsInv'
<1> DEFINE q == inbox[r]
           p == [n \in DOMAIN q |-> IF n = 1 THEN v ELSE q[n]]
<1>1. /\ HandshakeTypeOK /\ PanicsOnlyOnFaults /\ StateOk
      /\ InboxInv /\ ClientInv /\ ServerInv /\ OrderInv /\ AgreeInv
  BY DEF HsInv
<1>2. /\ UNCHANGED config /\ pc' = pc /\ kx' = kx /\ nextKey' = nextKey /\ transcript' = transcript
      /\ secrets' = secrets /\ session' = session /\ updates' = updates /\ installed' = installed
      /\ faulted' = faulted
  OBVIOUS
<1>3. /\ DOMAIN inbox' = Roles /\ inbox'[r] = p
      /\ \A x \in Roles : x # r => inbox'[x] = inbox[x]
  BY <1>1 DEF StateOk
<1>4. \A x \in Roles : IsSeq(inbox[x])
  BY <1>1 DEF InboxInv
<1>5. IsSeq(p) /\ Range(p) \subseteq Range(q) \cup {v}
  <2>1. IsSeq(q)
    BY <1>4
  <2> HIDE DEF q
  <2>2. p \in [DOMAIN q -> Range(q) \cup {v}]
    BY DEF Range
  <2> HIDE DEF p
  <2> QED
    BY <2>1, <2>2, Replaced
<1>6. Head(q) \in Range(q)
  BY <1>1, FirstFlight
<1> HIDE DEF q, p
<1>7. \A x \in Roles : Kept(x)
  BY <1>2 DEF Kept
<1>8. FlightOk(r, v)'
  BY <1>2, <1>7, FlightKept
<1>9. \A x \in Roles : IsSeq(inbox'[x])
  BY <1>3, <1>4, <1>5
<1>10. InboxInv'
  <2>1. \A x \in Roles : \A f \in Range(inbox'[x]) : f \in Range(inbox[x]) \/ FlightOk(x, f)'
    BY <1>3, <1>5, <1>8 DEF q
  <2> QED
    BY <1>1, <1>2, <1>7, <1>9, <2>1, InboxStep
<1>11. OrderInv'
  <2>1. \A x \in Roles : Kinds(x)' \subseteq Kinds(x)
    BY <1>3, <1>5, <1>6 DEF Kinds, q
  <2>2. "client" \in Roles /\ "server" \in Roles
    BY DEF Roles
  <2> QED
    BY <1>1, <1>2, <2>1, <2>2 DEF OrderInv
<1>12. HandshakeTypeOK'
  <2>1. altered' \in 0 .. MaxAltered
    BY <1>1, HandshakeAssumption DEF HandshakeTypeOK
  <2> QED
    BY <1>1, <1>2, <2>1 DEF HandshakeTypeOK
<1>13. PanicsOnlyOnFaults'
  BY <1>1, <1>2 DEF PanicsOnlyOnFaults
<1>14. StateOk'
  BY <1>1, <1>2, <1>3 DEF StateOk, config
<1>15. ClientInv' /\ ServerInv'
  BY <1>1, <1>2, ClientKept, ServerKept
<1>16. AgreeInv'
  BY <1>1, <1>2, <1>7, AgreeKept
<1> QED
  BY <1>10, <1>11, <1>12, <1>13, <1>14, <1>15, <1>16 DEF HsInv

\* Alter preserves the invariant.
LEMMA AlterKeeps ==
  ASSUME HsInv, NEW r \in Roles, Alter(r)
  PROVE  HsInv'
<1> DEFINE f == Head(inbox[r])
<1>1. /\ altered < MaxAltered /\ inbox[r] # <<>> /\ altered' = altered + 1
      /\ UNCHANGED <<config, pc, kx, nextKey, transcript, secrets, session, updates, installed, faulted>>
  BY DEF Alter
<1>2. FlightOk(r, f) /\ f = inbox[r][1] /\ 1 \in DOMAIN inbox[r] /\ r \in DOMAIN inbox
  <2>1. IsSeq(inbox[r])
    BY DEF HsInv, InboxInv
  <2> QED
    BY <1>1, <2>1, FirstFlight, TailSeq DEF HsInv, StateOk
<1>3. CASE \E j \in DOMAIN f.clear : \E m \in Altered(f.clear[j]) \ {f.clear[j]} :
             inbox' = [inbox EXCEPT ![r][1].clear[j] = m]
  <2>1. PICK j \in DOMAIN f.clear : \E m \in Altered(f.clear[j]) :
          inbox' = [inbox EXCEPT ![r][1].clear[j] = m]
    BY <1>3
  <2>2. PICK m \in Altered(f.clear[j]) : inbox' = [inbox EXCEPT ![r][1].clear[j] = m]
    BY <2>1
  <2> DEFINE v == [f EXCEPT !.clear = [f.clear EXCEPT ![j] = m]]
  <2>3. inbox' = [inbox EXCEPT ![r] = [n \in DOMAIN inbox[r] |-> IF n = 1 THEN v ELSE inbox[r][n]]]
    BY <1>2, <2>2
  <2>4. FlightOk(r, v) /\ v.kind = f.kind
    <3>1. /\ DOMAIN f = {"kind", "clear", "sealed"}
          /\ ClearOk(r, f.kind, f.clear)
          /\ f.sealed = NothingSealed \/ SealedOk(r, f.kind, f.sealed.msgs)
      BY <1>2 DEF FlightOk
    <3>2. /\ DOMAIN v = {"kind", "clear", "sealed"} /\ v.kind = f.kind /\ v.sealed = f.sealed
          /\ v.clear = [f.clear EXCEPT ![j] = m]
      BY <3>1
    <3> HIDE DEF v, f
    <3>3. ClearOk(r, f.kind, [f.clear EXCEPT ![j] = m])
      BY <3>1, AlteredClear
    <3> QED
      BY <3>1, <3>2, <3>3 DEF FlightOk
  <2> HIDE DEF v
  <2> QED
    BY <1>1, <2>3, <2>4, ReplacedKeeps
<1>4. CASE inbox' = [inbox EXCEPT ![r][1].sealed = NothingSealed]
  <2> DEFINE v == [f EXCEPT !.sealed = NothingSealed]
  <2>1. inbox' = [inbox EXCEPT ![r] = [n \in DOMAIN inbox[r] |-> IF n = 1 THEN v ELSE inbox[r][n]]]
    BY <1>2, <1>4
  <2>2. FlightOk(r, v) /\ v.kind = f.kind
    <3>1. /\ DOMAIN f = {"kind", "clear", "sealed"}
          /\ ClearOk(r, f.kind, f.clear)
      BY <1>2 DEF FlightOk
    <3>2. /\ DOMAIN v = {"kind", "clear", "sealed"} /\ v.kind = f.kind /\ v.sealed = NothingSealed
          /\ v.clear = f.clear
      BY <3>1
    <3> HIDE DEF v, f
    <3> QED
      BY <3>1, <3>2 DEF FlightOk
  <2> HIDE DEF v
  <2> QED
    BY <1>1, <2>1, <2>2, ReplacedKeeps
<1> QED
  BY <1>3, <1>4 DEF Alter

-----------------------------------------------------------------------------
(* The theorems                                                            *)

\* A TLS 1.3 export does not depend on who computes it, and is refused exactly
\* when it is longer than HKDF allows.
LEMMA ExportSame13 ==
  ASSUME NEW i \in Impls, NEW s, s.kdf \in Hashes, NEW okm, NEW len \in ExportLengths
  PROVE  /\ Export13(i, s, okm, len) = Export13("rfc", s, okm, len)
         /\ (Export13(i, s, okm, len) = NoBytes) <=> len > 255 * hash_len(s.kdf)
         /\ Export13(i, s, okm, len) # Panic
<1> DEFINE h == s.kdf
           none == Hash(s.hash_provider, <<>>)
           context == Hash(s.hash_provider, <<[msg |-> "context"]>>)
           secret == hkdf_expand(h, okm, FlattenSeq(Label(hash_len(h), "label", none)), hash_len(h))
           info == FlattenSeq(Label(len, "exporter", context))
<1>1. ASSUME NEW j \in Impls
      PROVE  Export13(j, s, okm, len) =
               IF len > 255 * hash_len(h) THEN NoBytes ELSE hkdf_expand(h, secret, info, len)
  <2>1. FromOkm(j, s, okm) = WolfHkdfExpander(okm, h)
        /\ FromOkm(j, s, secret) = WolfHkdfExpander(secret, h)
    BY <1>1, OkmSame
  <2>2. /\ DeriveBlock(j, WolfHkdfExpander(okm, h), "label", none) = secret
        /\ DeriveBlock(j, WolfHkdfExpander(okm, h), "label", none) # Panic
    BY <1>1, BlockSame, BlockMade
  <2> HIDE DEF h, secret, none, context
  <2>3. \A label : ExpandLabel(j, WolfHkdfExpander(secret, h), label, context, len) =
          IF len > 255 * hash_len(h) THEN NoBytes
          ELSE hkdf_expand(h, secret, FlattenSeq(Label(len, label, context)), len)
    BY <1>1, LabelSame DEF h
  <2>4. Export13(j, s, okm, len) = ExpandLabel(j, WolfHkdfExpander(secret, h), "exporter", context, len)
    BY <2>1, <2>2 DEF Export13, none, context
  <2> QED
    BY <2>3, <2>4
<1>2. "rfc" \in Impls /\ len \in Nat /\ len # 0
  BY DEF Impls, ExportLengths
<1> HIDE DEF h, secret, info
<1>3. hkdf_expand(h, secret, info, len) # NoBytes /\ hkdf_expand(h, secret, info, len) # Panic
  BY <1>2, BytesMade DEF hkdf_expand
<1>4. NoBytes # Panic
  BY DEF NoBytes, Panic, Slice
<1> QED
  BY <1>1, <1>2, <1>3, <1>4 DEF h

\* A TLS 1.2 export does not depend on who computes it, and is never refused.
LEMMA ExportSame12 ==
  ASSUME NEW i \in Impls, NEW s, NEW ms, NEW cr, NEW sr, NEW len \in ExportLengths
  PROVE  /\ Export12(i, s, ms, cr, sr, len) = Export12("rfc", s, ms, cr, sr, len)
         /\ Export12(i, s, ms, cr, sr, len) # NoBytes
         /\ Export12(i, s, ms, cr, sr, len) # Panic
<1> DEFINE label == Text("label")
           seed == Number(cr) \o Number(sr) \o Text("context")
<1>1. ASSUME NEW j \in Impls
      PROVE  Export12(j, s, ms, cr, sr, len) = prf(ms, label \o seed, s.kdf, len)
  <2>1. Export12(j, s, ms, cr, sr, len) = Prf(j, len, ms, label, seed, s.kdf)
    BY DEF Export12
  <2>2. len # 0
    BY DEF ExportLengths
  <2> HIDE DEF label, seed
  <2> QED
    BY <1>1, <2>1, <2>2, PrfSame
<1>2. "rfc" \in Impls /\ len \in Nat /\ len # 0
  BY DEF Impls, ExportLengths
<1> HIDE DEF label, seed
<1>3. prf(ms, label \o seed, s.kdf, len) # NoBytes /\ prf(ms, label \o seed, s.kdf, len) # Panic
  BY <1>2, BytesMade DEF prf
<1> QED
  BY <1>1, <1>2, <1>3

\* HsInv is an invariant, for every suite list, group, key and implementation and
\* for every number of altered messages and key updates.
THEOREM Invariant == Spec => []HsInv
<1>1. Init => HsInv
  <2> SUFFICES ASSUME Init PROVE HsInv
    OBVIOUS
  <2>1. /\ impl \in [Roles -> {"wolf", "rfc"}]
        /\ suites \in [client : ClientLists, server : ServerLists]
        /\ group \in Groups /\ key \in ServerKeys
        /\ pc = [r \in Roles |-> "start"] /\ kx = [r \in Roles |-> None] /\ nextKey = 1
        /\ transcript = [r \in Roles |-> <<>>] /\ secrets = [r \in Roles |-> NoSecrets]
        /\ session = [r \in Roles |-> NoSession] /\ inbox = [r \in Roles |-> <<>>]
        /\ updates = [r \in Roles |-> 0] /\ installed = {} /\ altered = 0
        /\ faulted = [r \in Roles |-> FALSE]
    BY DEF Init
  <2>2. "client" \in Roles /\ "server" \in Roles
    BY DEF Roles
  <2>3. \A r \in Roles : pc[r] = "start" /\ session[r] = NoSession /\ inbox[r] = <<>> /\ kx[r] = None
    BY <2>1
  <2>4. InboxInv
    BY <2>3, EmptyIsSeq DEF InboxInv
  <2>5. HandshakeTypeOK
    BY <2>1, <2>3, HandshakeAssumption DEF HandshakeTypeOK
  <2>6. PanicsOnlyOnFaults /\ ClientInv /\ ServerInv /\ AgreeInv
    BY <2>2, <2>3 DEF PanicsOnlyOnFaults, ClientInv, ServerInv, AgreeInv, Both
  <2>7. OrderInv
    BY <2>1, <2>2, <2>3, EmptyIsSeq DEF OrderInv, Kinds
  <2>8. StateOk
    BY <2>1 DEF StateOk
  <2> QED
    BY <2>4, <2>5, <2>6, <2>7, <2>8 DEF HsInv
<1>2. HsInv /\ [Next]_vars => HsInv'
  <2> SUFFICES ASSUME HsInv, [Next]_vars PROVE HsInv'
    OBVIOUS
  <2>1. CASE Step
    <3>1. UNCHANGED <<config, altered, faulted>>
      BY <2>1 DEF Step
    <3> QED
      BY <2>1, <3>1, SendClientHelloKeeps, HandleClientHelloKeeps, HandleServerFlight13Keeps,
         HandleClientFinishedKeeps, HandleServerFlight12Keeps, HandleClientFlight12Keeps,
         HandleServerFinishedKeeps, HandleKeyUpdateKeeps
      DEF Step
  <2>2. CASE Update
    BY <2>2, SendKeyUpdateKeeps DEF Update
  <2>3. ASSUME NEW r \in Roles, NEW how \in {"failed", "panicked"}, Fault(r, how) PROVE HsInv'
    <3>1. /\ GiveUp(r, how) /\ UNCHANGED <<config, altered>>
          /\ faulted' = [faulted EXCEPT ![r] = TRUE] /\ faulted \in [Roles -> BOOLEAN]
      BY <2>3 DEF Fault, HsInv, StateOk
    <3>2. /\ faulted' \in [Roles -> BOOLEAN] /\ faulted'[r]
          /\ \A q \in Roles : faulted[q] => faulted'[q]
      BY <3>1
    <3> QED
      BY <3>1, <3>2, GiveUpKeeps
  <2>4. ASSUME NEW r \in Roles, Alter(r) PROVE HsInv'
    BY <2>4, AlterKeeps
  <2>5. CASE UNCHANGED vars
    <3>1. /\ UNCHANGED config /\ pc' = pc /\ kx' = kx /\ nextKey' = nextKey
          /\ transcript' = transcript /\ secrets' = secrets /\ session' = session
          /\ inbox' = inbox /\ updates' = updates /\ installed' = installed
          /\ altered' = altered /\ faulted' = faulted
      BY <2>5 DEF vars
    <3>2. /\ HandshakeTypeOK /\ PanicsOnlyOnFaults /\ StateOk
          /\ InboxInv /\ ClientInv /\ ServerInv /\ OrderInv /\ AgreeInv
      BY DEF HsInv
    <3>3. \A q \in Roles : Kept(q)
      BY <3>1 DEF Kept
    <3>4. HandshakeTypeOK' /\ PanicsOnlyOnFaults' /\ StateOk'
      BY <3>1, <3>2 DEF HandshakeTypeOK, PanicsOnlyOnFaults, StateOk, config
    <3>5. InboxInv'
      BY <3>1, <3>2, <3>3, InboxStep DEF InboxInv
    <3>6. ClientInv' /\ ServerInv'
      BY <3>1, <3>2, ClientKept, ServerKept
    <3>7. OrderInv'
      BY <3>1, <3>2 DEF OrderInv, Kinds
    <3>8. AgreeInv'
      BY <3>1, <3>2, <3>3, AgreeKept
    <3> QED
      BY <3>4, <3>5, <3>6, <3>7, <3>8 DEF HsInv
  <2> QED
    BY <2>1, <2>2, <2>3, <2>4, <2>5 DEF Next
<1> QED
  BY <1>1, <1>2, PTL DEF Spec

\* Every variable has its type; an end that is connected has its session and its
\* secrets and no exchange left, and every key that is ever written with has the
\* length of its algorithm.
THEOREM TypeCorrect == Spec => []HandshakeTypeOK
<1>1. HsInv => HandshakeTypeOK
  BY DEF HsInv
<1> QED
  BY <1>1, Invariant, PTL

\* An end panics only where a wolfCrypt call failed: no suite, no length of
\* block, key, IV, MAC or update and nothing that arrives leads rustls or the
\* provider to unwrap an error.
THEOREM NoPanic == Spec => []PanicsOnlyOnFaults
<1>1. HsInv => PanicsOnlyOnFaults
  BY DEF HsInv
<1> QED
  BY <1>1, Invariant, PTL

\* Two ends that both accept have the suite the server picks from the list that
\* the client really has, whatever was altered on the way.  The argument is that of
\* HsInv: equal Finished values mean equal transcripts, and the client's starts
\* with its own hello.
THEOREM Undowngraded == Spec => []NoDowngrade
<1>1. HsInv => NoDowngrade
  <2> SUFFICES ASSUME HsInv, Both
               PROVE  /\ session["client"].hello.suites = suites["client"]
                      /\ session["client"].suite = Chosen(session["client"].hello)
    BY DEF NoDowngrade
  <2>1. /\ Accepted("client") /\ Accepted("server")
        /\ Front(transcript["client"])[1].suites = suites["client"]
        /\ Front(transcript["server"])[2].suite = Chosen(Front(transcript["server"])[1])
        /\ session["client"] = session["server"]
    BY DEF HsInv, Both, Roles, ClientInv, ServerInv, AgreeInv
  <2>2. /\ session["client"].hello = Front(transcript["client"])[1]
        /\ session["server"].hello = Front(transcript["server"])[1]
        /\ session["server"].suite = Front(transcript["server"])[2].suite
    BY <2>1, AcceptedSession DEF Roles
  <2> QED
    BY <2>1, <2>2
<1> QED
  BY <1>1, Invariant, PTL

\* Both ends export the same keying material at every length, and refuse the same
\* lengths: the provider's expanders and PRF agree with those of any other end.
THEOREM SameExports == Spec => []ExportsAgree
<1>1. HsInv => ExportsAgree
  <2> SUFFICES ASSUME HsInv, Both, NEW r \in Roles, NEW len \in ExportLengths
               PROVE  /\ Export(r, len) = Export(Other(r), len) /\ Export(r, len) # Panic
                      /\ (Export(r, len) = NoBytes) <=>
                           (RfcSuite(secrets[r].suite).version = "1.3"
                            /\ len > 255 * hash_len(RfcHash(secrets[r].suite)))
    BY DEF ExportsAgree
  <2>1. /\ \A q \in Roles : Accepted(q)
        /\ session["client"] = session["server"]
        /\ Front(transcript["client"]) = Front(transcript["server"])
    BY DEF HsInv, Both, Roles, ClientInv, ServerInv, AgreeInv
  <2> DEFINE suite == session["client"].suite
             s == RfcSuite(suite)
             x == session["client"].exporter
             m == Front(transcript["client"])
  <2>2. ASSUME NEW q \in Roles
        PROVE  /\ impl[q] \in Impls /\ suite \in AllSuites
               /\ secrets[q].suite = suite /\ secrets[q].exporter = x
               /\ MySuite(q) = s
               /\ s.version = "1.2" => /\ secrets[q].client_random = m[1].random
                                       /\ secrets[q].server_random = m[2].random
    <3>1. session[q] = session["client"] /\ Front(transcript[q]) = m
      BY <2>1, <2>2 DEF Roles
    <3>2. /\ session[q].suite \in AllSuites /\ secrets[q].suite = session[q].suite
          /\ session[q].exporter = secrets[q].exporter
          /\ Accepted12(q) <=> RfcSuite(session[q].suite).version = "1.2"
      BY <2>1, <2>2, AcceptedSession
    <3>3. impl[q] \in Impls
      BY <2>2 DEF HsInv, StateOk, Impls
    <3>4. MySuite(q) = s
      BY <3>1, <3>2, <3>3, SuiteHeld DEF MySuite
    <3>5. ASSUME s.version = "1.2"
          PROVE  secrets[q].client_random = m[1].random /\ secrets[q].server_random = m[2].random
      <4>1. Holds12(q, m)
        BY <3>1, <3>2, <3>5 DEF Accepted12
      <4> HIDE DEF m
      <4> QED
        BY <4>1 DEF Holds12, Secrets12
    <3> QED
      BY <3>1, <3>2, <3>3, <3>4, <3>5
  <2> HIDE DEF suite, x, m
  <2>3. /\ s.kdf \in Hashes /\ s.version \in {"1.3", "1.2"} /\ s.kdf = RfcHash(suite)
    BY <2>2, SuiteHeld DEF RfcSuite
  <2> HIDE DEF s
  <2>4. Other(r) \in Roles
    BY DEF Other, Roles
  <2>5. CASE s.version = "1.3"
    <3>1. \A q \in Roles : Export(q, len) = Export13(impl[q], s, x, len)
      BY <2>2, <2>5 DEF Export
    <3>2. \A q \in Roles : /\ Export13(impl[q], s, x, len) = Export13("rfc", s, x, len)
                           /\ (Export13(impl[q], s, x, len) = NoBytes) <=> len > 255 * hash_len(s.kdf)
                           /\ Export13(impl[q], s, x, len) # Panic
      BY <2>2, <2>3, ExportSame13
    <3>3. RfcSuite(secrets[r].suite).version = "1.3" /\ RfcHash(secrets[r].suite) = s.kdf
      BY <2>2, <2>3, <2>5 DEF s
    <3> QED
      BY <2>4, <3>1, <3>2, <3>3
  <2>6. CASE s.version = "1.2"
    <3>1. \A q \in Roles : Export(q, len) = Export12(impl[q], s, x, m[1].random, m[2].random, len)
      BY <2>2, <2>6 DEF Export
    <3>2. \A q \in Roles : /\ Export12(impl[q], s, x, m[1].random, m[2].random, len) =
                                Export12("rfc", s, x, m[1].random, m[2].random, len)
                           /\ Export12(impl[q], s, x, m[1].random, m[2].random, len) # NoBytes
                           /\ Export12(impl[q], s, x, m[1].random, m[2].random, len) # Panic
      BY <2>2, ExportSame12
    <3>3. RfcSuite(secrets[r].suite).version = "1.2"
      BY <2>2, <2>6 DEF s
    <3> QED
      BY <2>4, <3>1, <3>2, <3>3
  <2> QED
    BY <2>3, <2>5, <2>6
<1> QED
  BY <1>1, Invariant, PTL

\* What a step does to the parts of the state that the abstract exchange shows: r
\* gives up, the handshake goes on, or r accepts.
Over == {"failed", "panicked"}
GivesUp(r) ==
  /\ pc[r] \notin Over /\ session' = session
  /\ \E w \in Over : pc' = [pc EXCEPT ![r] = w]
GoesOn ==
  /\ session' = session
  /\ \/ pc' = pc
     \/ \E r \in Roles : \E w : /\ pc[r] \notin Over /\ w \notin Over
                                /\ pc' = [pc EXCEPT ![r] = w]
Establishes(r) ==
  /\ pc[r] \notin Over /\ pc[r] # "connected" /\ pc[r] # "start"
  /\ pc' = [pc EXCEPT ![r] = "connected"]
  /\ \E x : session' = [session EXCEPT ![r] = x]

\* Every step does one of the three.
LEMMA Outcomes ==
  ASSUME HsInv, [Next]_vars
  PROVE  GoesOn \/ \E r \in Roles : GivesUp(r) \/ Establishes(r)
<1>1. "client" \in Roles /\ "server" \in Roles
  BY DEF Roles
<1>2. ASSUME NEW r \in Roles, pc[r] \notin Over, NEW how \in Over, GiveUp(r, how) PROVE GivesUp(r)
  BY <1>2 DEF GiveUp, Goto, GivesUp
<1>3. "failed" \in Over /\ "panicked" \in Over
  BY DEF Over
<1>4. CASE SendClientHello
  BY <1>1, <1>4 DEF SendClientHello, Goto, GoesOn, Over
<1>5. CASE HandleClientHello
  <2>1. pc["server"] = "start" /\ pc["server"] \notin Over
    BY <1>5 DEF HandleClientHello, Over
  <2>2. ASSUME NEW hello, NEW suite, ServerFlight13(hello, suite)
        PROVE  \/ \E how \in Over : GiveUp("server", how)
               \/ session' = session /\ pc' = [pc EXCEPT !["server"] = "wait_finished"]
    BY <1>3, <2>2 DEF ServerFlight13, IfMade, Goto
  <2>3. ASSUME NEW hello, NEW suite, ServerFlight12(hello, suite)
        PROVE  \/ \E how \in Over : GiveUp("server", how)
               \/ session' = session /\ pc' = [pc EXCEPT !["server"] = "wait_client"]
    BY <1>3, <2>3 DEF ServerFlight12, Goto
  <2>4. \/ \E how \in Over : GiveUp("server", how)
        \/ session' = session /\ pc' = [pc EXCEPT !["server"] = "wait_finished"]
        \/ session' = session /\ pc' = [pc EXCEPT !["server"] = "wait_client"]
    BY <1>3, <1>5, <2>2, <2>3 DEF HandleClientHello
  <2>5. "wait_finished" \notin Over /\ "wait_client" \notin Over
    BY DEF Over
  <2> QED
    BY <1>1, <1>2, <2>1, <2>4, <2>5 DEF GoesOn
<1>6. CASE HandleServerFlight13
  <2>1. pc["client"] = "wait_server"
    BY <1>6 DEF HandleServerFlight13
  <2>2. \/ \E how \in Over : GiveUp("client", how)
        \/ /\ pc' = [pc EXCEPT !["client"] = "connected"]
           /\ \E x : session' = [session EXCEPT !["client"] = x]
    BY <1>3, <1>6 DEF HandleServerFlight13, IfMade, Goto
  <2> QED
    BY <1>1, <1>2, <2>1, <2>2 DEF Establishes, Over
<1>7. CASE HandleClientFinished
  <2>1. pc["server"] = "wait_finished"
    BY <1>7 DEF HandleClientFinished
  <2>2. \/ \E how \in Over : GiveUp("server", how)
        \/ /\ pc' = [pc EXCEPT !["server"] = "connected"]
           /\ \E x : session' = [session EXCEPT !["server"] = x]
    BY <1>3, <1>7 DEF HandleClientFinished, Goto
  <2> QED
    BY <1>1, <1>2, <2>1, <2>2 DEF Establishes, Over
<1>8. CASE HandleServerFlight12
  <2>1. pc["client"] = "wait_server"
    BY <1>8 DEF HandleServerFlight12
  <2>2. \/ \E how \in Over : GiveUp("client", how)
        \/ session' = session /\ pc' = [pc EXCEPT !["client"] = "wait_finished"]
    BY <1>3, <1>8 DEF HandleServerFlight12, IfMade, Goto
  <2>3. "wait_finished" \notin Over /\ pc["client"] \notin Over
    BY <2>1 DEF Over
  <2> QED
    BY <1>1, <1>2, <2>2, <2>3 DEF GoesOn
<1>9. CASE HandleClientFlight12
  <2>1. pc["server"] = "wait_client"
    BY <1>9 DEF HandleClientFlight12
  <2>2. \/ \E how \in Over : GiveUp("server", how)
        \/ /\ pc' = [pc EXCEPT !["server"] = "connected"]
           /\ \E x : session' = [session EXCEPT !["server"] = x]
    BY <1>3, <1>9 DEF HandleClientFlight12, AcceptClient12, IfMade, Goto
  <2> QED
    BY <1>1, <1>2, <2>1, <2>2 DEF Establishes, Over
<1>10. CASE HandleServerFinished
  <2>1. pc["client"] = "wait_finished"
    BY <1>10 DEF HandleServerFinished
  <2>2. \/ \E how \in Over : GiveUp("client", how)
        \/ /\ pc' = [pc EXCEPT !["client"] = "connected"]
           /\ \E x : session' = [session EXCEPT !["client"] = x]
    BY <1>3, <1>10 DEF HandleServerFinished, IfMade, Goto
  <2> QED
    BY <1>1, <1>2, <2>1, <2>2 DEF Establishes, Over
<1>11. ASSUME NEW r \in Roles, HandleKeyUpdate(r) PROVE GoesOn \/ GivesUp(r)
  <2>1. pc[r] = "connected"
    BY <1>11 DEF HandleKeyUpdate
  <2>2. GiveUp(r, "failed") \/ GiveUp(r, "panicked") \/ (pc' = pc /\ session' = session)
    BY <1>11 DEF HandleKeyUpdate, IfMade
  <2> QED
    BY <1>2, <1>3, <2>1, <2>2 DEF GoesOn, Over
<1>12. ASSUME NEW r \in Roles, SendKeyUpdate(r) PROVE GoesOn \/ GivesUp(r)
  <2>1. pc[r] = "connected"
    BY <1>12 DEF SendKeyUpdate
  <2>2. GiveUp(r, "panicked") \/ (pc' = pc /\ session' = session)
    BY <1>12 DEF SendKeyUpdate, IfMade
  <2> QED
    BY <1>2, <1>3, <2>1, <2>2 DEF GoesOn, Over
<1>17. CASE Update
  BY <1>12, <1>17 DEF Update
<1>13. ASSUME NEW r \in Roles, NEW how \in {"failed", "panicked"}, Fault(r, how) PROVE GivesUp(r)
  <2>1. GiveUp(r, how) /\ pc[r] \notin Over /\ how \in Over
    BY <1>13 DEF Fault, Over
  <2> QED
    BY <1>2, <2>1
<1>14. ASSUME NEW r \in Roles, Alter(r) PROVE GoesOn
  BY <1>14 DEF Alter, GoesOn
<1>15. CASE UNCHANGED vars
  BY <1>15 DEF vars, GoesOn
<1>16. CASE Step
  BY <1>1, <1>4, <1>5, <1>6, <1>7, <1>8, <1>9, <1>10, <1>11, <1>16 DEF Step
<1> QED
  BY <1>13, <1>14, <1>15, <1>16, <1>17 DEF Next

\* The handshake implements the abstract exchange: an end accepts once, only while
\* it has not given up, a client only under the certified key, and the second to
\* accept has the session of the first.
THEOREM Refinement == Spec => ExchangeSpec
<1> DEFINE alive == [r \in Roles |-> pc[r] \notin Over]
<1>1. Init => Exchange!Init
  <2> SUFFICES ASSUME Init PROVE Exchange!Init
    OBVIOUS
  <2>1. session = [r \in {"client", "server"} |-> NoSession]
    BY DEF Init, Roles
  <2>2. pc = [r \in Roles |-> "start"]
    BY DEF Init
  <2>3. [r \in Roles |-> pc[r] \notin {"failed", "panicked"}] = [r \in {"client", "server"} |-> TRUE]
    BY <2>2 DEF Roles
  <2>4. (cert = key) \in BOOLEAN
    OBVIOUS
  <2> QED
    BY <2>1, <2>3, <2>4 DEF Exchange!Init
<1>2. HsInv /\ HsInv' /\ [Next]_vars =>
        [Exchange!Next]_<<session, [r \in Roles |-> pc[r] \notin {"failed", "panicked"}], (cert = key)>>
  <2> SUFFICES ASSUME HsInv, HsInv', [Next]_vars
               PROVE  [Exchange!Next]_<<session, alive, (cert = key)>>
    BY DEF Over
  <2>1. DOMAIN session = Roles /\ DOMAIN pc = Roles /\ DOMAIN session' = Roles /\ DOMAIN pc' = Roles
    BY DEF HsInv, StateOk, HandshakeTypeOK
  <2>2. cert' = cert /\ key' = key
    BY DEF Next, Step, Update, Fault, Alter, vars, config
  <2>3. CASE GoesOn
    <3>1. session' = session /\ alive' = alive
      BY <2>1, <2>3 DEF GoesOn
    <3> QED
      BY <2>2, <3>1
  <2>4. ASSUME NEW r \in Roles, GivesUp(r) PROVE Exchange!Next
    <3>1. /\ alive[r] /\ alive' = [alive EXCEPT ![r] = FALSE] /\ session' = session
      BY <2>1, <2>4 DEF GivesUp
    <3>2. Exchange!GiveUp(r)
      BY <2>2, <3>1 DEF Exchange!GiveUp, Over
    <3> QED
      BY <2>1, <3>2 DEF Exchange!Next, Exchange!Roles
  <2>5. ASSUME NEW r \in Roles, Establishes(r) PROVE Exchange!Next
    <3>1. /\ alive[r] /\ alive' = alive
      BY <2>1, <2>5 DEF Establishes, Over
    <3>2. session[r] = NoSession
      BY <2>5 DEF Establishes, HsInv, OrderInv, HandshakeTypeOK, Over
    <3>3. pc'[r] = "connected"
      BY <2>1, <2>5 DEF Establishes
    <3>4. session'[r] # NoSession
      BY <3>3 DEF HsInv, HandshakeTypeOK
    <3>5. session' = [session EXCEPT ![r] = session'[r]]
      BY <2>1, <2>5 DEF Establishes
    <3>6. r = "client" => cert = key
      BY <2>2, <3>4 DEF HsInv, ClientInv
    <3>7. \A q \in Roles \ {r} : session[q] # NoSession => session'[r] = session[q]
      <4> SUFFICES ASSUME NEW q \in Roles \ {r}, session[q] # NoSession
                   PROVE  session'[r] = session[q]
        OBVIOUS
      <4>1. session'[q] = session[q]
        BY <2>1, <3>5
      <4>2. Both'
        BY <3>4, <4>1 DEF Both, Roles
      <4>3. session'["client"] = session'["server"]
        BY <4>2 DEF HsInv, AgreeInv
      <4> QED
        BY <4>1, <4>3 DEF Roles
    <3>8. Exchange!Accept(r)
      BY <2>1, <2>2, <3>1, <3>2, <3>4, <3>5, <3>6, <3>7 DEF Exchange!Accept, Exchange!Roles, Over
    <3> QED
      BY <2>1, <3>8 DEF Exchange!Next, Exchange!Roles
  <2> QED
    BY <2>3, <2>4, <2>5, Outcomes
<1> QED
  BY <1>1, <1>2, Invariant, PTL DEF Spec, ExchangeSpec, Exchange!Spec

=============================================================================

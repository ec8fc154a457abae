-------------------------- MODULE ConnectionProofs --------------------------
(***************************************************************************)
(* More about Handshake, on top of HandshakeProofs: which secrets the two  *)
(* ends hold through every key update, what was ever written with, and the *)
(* course of a connection that nobody disturbs.                            *)
(***************************************************************************)
EXTENDS HandshakeProofs

-----------------------------------------------------------------------------
(* Ratchets of traffic secrets                                             *)

\* The traffic secrets that follow okm, one for every key update.
Ratchet(s, okm) ==
  LET after[n \in Nat] == IF n = 0 THEN okm ELSE NextTrafficSecret("rfc", s, after[n - 1])
  IN  after

\* Induction over the natural numbers, for a set: its complement has no least
\* element.
LEMMA Induction ==
  ASSUME NEW S, S \subseteq Nat, 0 \in S, \A n \in S : n + 1 \in S
  PROVE  S = Nat
<1> SUFFICES ASSUME Nat \ S # {} PROVE FALSE
  OBVIOUS
<1> DEFINE m == Min(Nat \ S)
<1>1. m \in Nat /\ m \notin S /\ \A j \in Nat \ S : m <= j
  BY MinIsLeast
<1> HIDE DEF m
<1>2. m # 0 /\ m - 1 \in Nat /\ m - 1 \in S
  BY <1>1
<1> QED
  BY <1>1, <1>2

\* The recursive function exists: it starts with okm, and every secret comes
\* from the one before.
LEMMA RatchetSteps ==
  ASSUME NEW s, NEW okm
  PROVE  /\ Ratchet(s, okm)[0] = okm
         /\ \A n \in Nat :
              Ratchet(s, okm)[n + 1] = NextTrafficSecret("rfc", s, Ratchet(s, okm)[n])
<1> DEFINE N(x) == NextTrafficSecret("rfc", s, x)
           Upto(f, n) == f[0] = okm /\ \A k \in Nat : k < n => f[k + 1] = N(f[k])
           F == [n \in Nat |-> (CHOOSE f : Upto(f, n))[n]]
           R == CHOOSE f : f = [n \in Nat |-> IF n = 0 THEN okm ELSE N(f[n - 1])]
<1>1. R = Ratchet(s, okm)
  BY DEF Ratchet
<1> HIDE DEF N
<1>2. \A n \in Nat : \E f : Upto(f, n)
  <2> DEFINE S == {n \in Nat : \E f : Upto(f, n)}
  <2>1. 0 \in S
    <3>1. Upto([k \in Nat |-> okm], 0)
      OBVIOUS
    <3> QED
      BY <3>1
  <2>2. ASSUME NEW n \in S PROVE n + 1 \in S
    <3>1. PICK f : Upto(f, n)
      OBVIOUS
    <3> DEFINE g == [k \in Nat |-> IF k = n + 1 THEN N(f[n]) ELSE f[k]]
    <3>2. Upto(g, n + 1)
      BY <3>1
    <3> HIDE DEF g, Upto
    <3> QED
      BY <3>2
  <2> HIDE DEF S
  <2>3. S \subseteq Nat
    BY DEF S
  <2>4. S = Nat
    BY <2>1, <2>2, <2>3, Induction
  <2> QED
    BY <2>4 DEF S
<1>3. ASSUME NEW n \in Nat, NEW f, NEW g, Upto(f, n), Upto(g, n)
      PROVE  \A k \in Nat : k <= n => f[k] = g[k]
  <2> DEFINE S == {k \in Nat : k <= n => f[k] = g[k]}
  <2>1. 0 \in S
    BY <1>3
  <2>2. ASSUME NEW k \in S PROVE k + 1 \in S
    BY <1>3, <2>2
  <2> HIDE DEF S
  <2>3. S \subseteq Nat
    BY DEF S
  <2>4. S = Nat
    BY <2>1, <2>2, <2>3, Induction
  <2> QED
    BY <2>4 DEF S
<1>4. \A n \in Nat : Upto(CHOOSE f : Upto(f, n), n)
  <2> HIDE DEF Upto
  <2> QED
    BY <1>2
<1>5. F[0] = okm
  BY <1>4
<1>6. \A n \in Nat : F[n + 1] = N(F[n])
  <2> TAKE n \in Nat
  <2> DEFINE f == CHOOSE f : Upto(f, n)
             g == CHOOSE g : Upto(g, n + 1)
  <2>1. Upto(f, n) /\ Upto(g, n + 1)
    BY <1>4
  <2>2. F[n] = f[n] /\ F[n + 1] = g[n + 1]
    BY DEF F
  <2> HIDE DEF f, g
  <2>3. Upto(g, n)
    BY <2>1
  <2>4. f[n] = g[n]
    <3> HIDE DEF Upto, F
    <3>1. \A k \in Nat : k <= n => f[k] = g[k]
      BY <1>3, <2>1, <2>3
    <3> QED
      BY <3>1
  <2> HIDE DEF F
  <2> QED
    BY <2>1, <2>2, <2>4
<1>7. F = [n \in Nat |-> IF n = 0 THEN okm ELSE N(F[n - 1])]
  <2> HIDE DEF Upto
  <2>1. \A n \in Nat : n # 0 => n - 1 \in Nat /\ (n - 1) + 1 = n
    OBVIOUS
  <2>2. \A n \in Nat : F[n] = IF n = 0 THEN okm ELSE N(F[n - 1])
    <3> HIDE DEF F
    <3> QED
      BY <1>5, <1>6, <2>1
  <2>3. F = [n \in Nat |-> F[n]]
    BY DEF F
  <2> HIDE DEF F
  <2> QED
    BY <2>2, <2>3
<1> HIDE DEF F
<1>8. R = [n \in Nat |-> IF n = 0 THEN okm ELSE N(R[n - 1])]
  BY <1>7
<1> HIDE DEF R
<1>9. R[0] = okm /\ \A n \in Nat : R[n + 1] = N(R[n])
  BY <1>8
<1> QED
  BY <1>1, <1>9 DEF N

-----------------------------------------------------------------------------
(* The steps, in registered terms                                          *)

\* What a step leaves of r, and what it does to its inbox.
Rests(r) ==
  /\ pc'[r] = pc[r] /\ transcript'[r] = transcript[r] /\ secrets'[r] = secrets[r]
  /\ session'[r] = session[r] /\ updates'[r] = updates[r]
Waits(r) == inbox'[r] = inbox[r]
Takes(r) == inbox[r] # <<>> /\ inbox'[r] = Tail(inbox[r])
Gets(r, f) == inbox'[r] = Append(inbox[r], f)

\* The steps in the terms of the registered suites: r gives up; the client's
\* hello; the four steps of TLS 1.3 and TLS 1.2; a key update is sent and read;
\* the network alters a flight.
Stops(r) ==
  /\ pc'[r] \in {"failed", "panicked"} /\ inbox'[r] = <<>>
  /\ transcript'[r] = transcript[r] /\ secrets'[r] = secrets[r]
  /\ session'[r] = session[r] /\ updates'[r] = updates[r]
  /\ Rests(Other(r)) /\ Waits(Other(r)) /\ installed' = installed
Greets ==
  /\ pc["client"] = "start" /\ pc'["client"] = "wait_server"
  /\ secrets'["client"] = secrets["client"] /\ session'["client"] = session["client"]
  /\ updates'["client"] = updates["client"]
  /\ Rests("server") /\ Waits("client") /\ (\E f : Gets("server", f)) /\ installed' = installed
Answers12 ==
  /\ pc["server"] = "start" /\ pc'["server"] = "wait_client"
  /\ secrets'["server"] = secrets["server"] /\ session'["server"] = session["server"]
  /\ updates'["server"] = updates["server"]
  /\ Rests("client") /\ Takes("server") /\ (\E f : Gets("client", f)) /\ installed' = installed
Answers13(dh, m) ==
  LET k == Schedule(dh, m)
  IN  /\ pc["server"] = "start" /\ pc'["server"] = "wait_finished"
      /\ Negotiated(m, "1.3") /\ transcript'["server"] = m
      /\ secrets'["server"] =
           Secrets13(m[2].suite, [client |-> k.hs.client, server |-> k.ap.server], k.exporter, dh)
      /\ session'["server"] = session["server"] /\ updates'["server"] = updates["server"]
      /\ Rests("client") /\ Takes("server") /\ (\E f : Gets("client", f))
      /\ installed' = installed \cup
           {Installed("server", "handshake", SuiteIn(m), k.hs_cipher["server"]),
            Installed("server", "application", SuiteIn(m), k.ap_cipher["server"])}
Agrees13(dh, m) ==
  LET k == Schedule(dh, m)
  IN  /\ pc["client"] = "wait_server" /\ pc'["client"] = "connected"
      /\ pc["server"] \notin {"start", "wait_client"}
      /\ Negotiated(m, "1.3") /\ transcript'["client"] = Append(m, k.client_finished)
      /\ secrets'["client"] = Secrets13(m[2].suite, k.ap, k.exporter, dh)
      /\ session'["client"] # NoSession /\ updates'["client"] = updates["client"]
      /\ Rests("server") /\ Takes("client") /\ (\E f : Gets("server", f))
      /\ installed' = installed \cup
           {Installed("client", "handshake", SuiteIn(m), k.hs_cipher["client"]),
            Installed("client", "application", SuiteIn(m), k.ap_cipher["client"])}
Confirms13(dh, m) ==
  LET k == Schedule(dh, m)
  IN  /\ pc["server"] = "wait_finished" /\ pc'["server"] = "connected"
      /\ session["client"] # NoSession
      /\ Negotiated(m, "1.3") /\ transcript["server"] = m /\ secrets["server"].dh = dh
      /\ transcript'["server"] = Append(m, k.client_finished)
      /\ secrets'["server"] = [secrets["server"] EXCEPT !.traffic = k.ap]
      /\ session'["server"] # NoSession /\ updates'["server"] = updates["server"]
      /\ Rests("client") /\ Takes("server") /\ Waits("client") /\ installed' = installed
Holds(r, x, ms, cr, sr) ==
  /\ x \in AllSuites /\ RfcSuite(x).version = "1.2"
  /\ secrets'[r] = Secrets12(x, KeyBlock("rfc", RfcSuite(x), ms, cr, sr), ms, cr, sr)
  /\ installed' = installed \cup
       {Installed(r, "application", RfcSuite(x),
                  Write12(RfcSuite(x), KeyBlock("rfc", RfcSuite(x), ms, cr, sr), r))}
Agrees12 ==
  /\ pc["client"] = "wait_server" /\ pc'["client"] = "wait_finished"
  /\ \E x, ms, cr, sr : Holds("client", x, ms, cr, sr)
  /\ session'["client"] = session["client"] /\ updates'["client"] = updates["client"]
  /\ Rests("server") /\ Takes("client") /\ \E f : Gets("server", f)
Accepts12 ==
  /\ pc["server"] = "wait_client" /\ pc'["server"] = "connected"
  /\ pc["client"] \notin {"start", "wait_server"}
  /\ \E x, ms, cr, sr : Holds("server", x, ms, cr, sr)
  /\ updates'["server"] = updates["server"]
  /\ Rests("client") /\ Takes("server") /\ \E f : Gets("client", f)
Confirms12 ==
  /\ pc["client"] = "wait_finished" /\ pc'["client"] = "connected" /\ pc["server"] # "wait_finished"
  /\ secrets'["client"] = secrets["client"] /\ updates'["client"] = updates["client"]
  /\ RfcSuite(secrets["client"].suite).version = "1.2"
  /\ Rests("server") /\ Takes("client") /\ Waits("server") /\ installed' = installed
KeyUpdate(s, okm) == Flight("key_update", <<>>, Sealed(s, TrafficCipher("rfc", s, okm), <<>>))
Rekeys(r) ==
  LET s == RfcSuite(secrets[r].suite)
      t == secrets[r].traffic[r]
  IN  /\ pc[r] = "connected" /\ pc'[r] = pc[r] /\ Accepted13(r)
      /\ transcript'[r] = transcript[r] /\ session'[r] = session[r]
      /\ secrets'[r] = [secrets[r] EXCEPT !.traffic[r] = NextTrafficSecret("rfc", s, t)]
      /\ updates'[r] = updates[r] + 1
      /\ Rests(Other(r)) /\ Waits(r) /\ Gets(Other(r), KeyUpdate(s, t))
      /\ installed' = installed \cup
           {Installed(r, "update", s, TrafficCipher("rfc", s, secrets'[r].traffic[r]))}
Follows(r) ==
  LET s == RfcSuite(secrets[r].suite)
      t == secrets[r].traffic[Other(r)]
  IN  /\ pc[r] = "connected" /\ pc'[r] = pc[r] /\ Accepted13(r) /\ Accepted13(Other(r))
      /\ transcript'[r] = transcript[r] /\ session'[r] = session[r]
      /\ secrets'[r] = [secrets[r] EXCEPT !.traffic[Other(r)] = NextTrafficSecret("rfc", s, t)]
      /\ updates'[r] = updates[r]
      /\ Rests(Other(r)) /\ Takes(r) /\ Waits(Other(r)) /\ installed' = installed
Suffers(r) ==
  /\ Rests(r) /\ Rests(Other(r)) /\ Waits(Other(r)) /\ installed' = installed
  /\ IsSeq(inbox'[r]) /\ Len(inbox'[r]) = Len(inbox[r]) /\ altered' > 0
Rest ==
  /\ Rests("client") /\ Rests("server") /\ Waits("client") /\ Waits("server")
  /\ installed' = installed
Effects ==
  \/ Rest
  \/ Greets \/ Answers12 \/ Agrees12 \/ Accepts12 \/ Confirms12
  \/ \E dh, m : Answers13(dh, m) \/ Agrees13(dh, m) \/ Confirms13(dh, m)
  \/ \E r \in Roles : Stops(r) \/ Rekeys(r) \/ Follows(r)

\* There are two ends, each the other of the other.
LEMMA TwoRoles ==
  /\ "client" \in Roles /\ "server" \in Roles /\ Roles = {"client", "server"}
  /\ Other("client") = "server" /\ Other("server") = "client"
  /\ \A r \in Roles : Other(r) \in Roles /\ Other(r) # r /\ Other(Other(r)) = r
                      /\ \A q \in Roles : q = r \/ q = Other(r)
BY DEF Roles, Other

\* What posting, replying and not replying do to the two inboxes.
LEMMA Mails ==
  ASSUME StateOk, NEW r \in Roles
  PROVE  /\ \A f : Post(r, f) => Waits(r) /\ Gets(Other(r), f)
         /\ \A f : inbox[r] # <<>> /\ Reply(r, f) => Takes(r) /\ Gets(Other(r), f)
         /\ inbox[r] # <<>> /\ NoReply(r) => Takes(r) /\ Waits(Other(r))
<1>1. DOMAIN inbox = Roles /\ Other(r) \in Roles /\ Other(r) # r
  BY TwoRoles DEF StateOk
<1> QED
  BY <1>1 DEF Post, Reply, NoReply, Waits, Gets, Takes

\* An end that gives up stops, and the other notices nothing.
LEMMA GiveUpEffect ==
  ASSUME HsInv, NEW r \in Roles, NEW how \in {"failed", "panicked"}, GiveUp(r, how)
  PROVE  Stops(r)
<1>1. /\ DOMAIN inbox = Roles /\ DOMAIN pc = Roles /\ Other(r) \in Roles /\ Other(r) # r
  BY TwoRoles DEF HsInv, StateOk, HandshakeTypeOK
<1> QED
  BY <1>1 DEF GiveUp, Goto, Stops, Rests, Waits

\* What SendClientHello does.
LEMMA HelloEffect ==
  ASSUME HsInv, SendClientHello
  PROVE  Greets
<1>1. StateOk /\ DOMAIN pc = Roles /\ DOMAIN transcript = Roles
  BY DEF HsInv, HandshakeTypeOK, StateOk
<1>2. PICK t, f : /\ pc["client"] = "start" /\ pc' = [pc EXCEPT !["client"] = "wait_server"]
               /\ transcript' = [transcript EXCEPT !["client"] = t] /\ Post("client", f)
               /\ secrets' = secrets /\ session' = session /\ updates' = updates
               /\ installed' = installed
  BY DEF SendClientHello, Goto
<1>3. Waits("client") /\ Gets("server", f)
  BY <1>1, <1>2, Mails, TwoRoles
<1> QED
  BY <1>1, <1>2, <1>3, TwoRoles DEF Greets, Rests

\* What the server's TLS 1.2 answer does.
LEMMA Answer12Effect ==
  ASSUME HsInv, pc["server"] = "start", inbox["server"] # <<>>, NEW hello, NEW suite,
         ServerFlight12(hello, suite)
  PROVE  Stops("server") \/ Answers12
<1>1. StateOk /\ DOMAIN pc = Roles /\ DOMAIN transcript = Roles
  BY DEF HsInv, HandshakeTypeOK, StateOk
<1>2. CASE GiveUp("server", "failed")
  BY <1>2, GiveUpEffect, TwoRoles
<1>3. CASE ~GiveUp("server", "failed")
  <2>1. PICK t, f : /\ pc' = [pc EXCEPT !["server"] = "wait_client"]
                    /\ transcript' = [transcript EXCEPT !["server"] = t] /\ Reply("server", f)
                    /\ secrets' = secrets /\ session' = session /\ updates' = updates
                    /\ installed' = installed
    BY <1>3 DEF ServerFlight12, Goto
  <2>2. Takes("server") /\ Gets("client", f)
    BY <1>1, <2>1, Mails, TwoRoles
  <2> QED
    BY <1>1, <2>1, <2>2, TwoRoles DEF Answers12, Rests
<1> QED
  BY <1>2, <1>3

\* What the server's TLS 1.3 answer does: it holds the schedule of the messages
\* it sent, whoever computes it.
LEMMA Answer13Effect ==
  ASSUME HsInv, pc["server"] = "start", inbox["server"] # <<>>, NEW hello, IsHello(hello),
         NEW suite, suite = Chosen(hello), suite # NoSuite,
         SuiteOf(impl["server"], suite).version = "1.3", ServerFlight13(hello, suite)
  PROVE  Stops("server") \/ \E dh, m : Answers13(dh, m)
<1> DEFINE i == impl["server"]
           s == SuiteOf(i, suite)
           box == start(group, nextKey)
           dh == complete(box, hello.share, TRUE)
           scheme == choose_scheme(Loaded, OfferedSchemes(hello, s))
           reply == ServerHello(suite, box)
           m == Messages13(i, s, scheme, dh.secret, <<hello, reply>>)
           k == Schedule13(i, s, dh.secret, m)
           flight == Flight("server13", SubSeq(m, 2, 2),
                            Sealed(s, k.hs_cipher.server, SubSeq(m, 3, 5)))
           refused == hello.share = None \/ ~dh.ok \/ scheme = None
                        \/ Signed13(s, scheme, Append(<<hello, reply>>, Certificate)) = NoSignature
<1>1. StateOk /\ DOMAIN pc = Roles /\ DOMAIN transcript = Roles /\ DOMAIN secrets = Roles
  BY DEF HsInv, HandshakeTypeOK, StateOk
<1>2. i \in Impls /\ suite \in AllSuites
  BY <1>1, TwoRoles, ChosenSuite DEF StateOk, Impls, IsHello
<1>3. s = RfcSuite(suite) /\ s.kdf \in Hashes /\ s.aead_alg \in Aeads /\ s.version = "1.3"
  BY <1>2, SuiteHeld
<1>6. HandshakeMade(i, s, dh.secret, <<hello, reply>>) /\ ApplicationMade(i, s, dh.secret, m)
  BY <1>2, <1>3, ScheduleMade
<1>4. CASE refused
  <2>1. GiveUp("server", "failed")
    BY <1>4, <1>6 DEF ServerFlight13, IfMade
  <2> QED
    BY <2>1, GiveUpEffect, TwoRoles
<1>5. CASE ~refused
  <2>2. /\ pc' = [pc EXCEPT !["server"] = "wait_finished"]
        /\ transcript' = [transcript EXCEPT !["server"] = m]
        /\ secrets' = [secrets EXCEPT !["server"] =
             Secrets13(suite, [client |-> k.hs.client, server |-> k.ap.server],
                       k.exporter, dh.secret)]
        /\ installed' = installed \cup
             {Installed("server", "handshake", s, k.hs_cipher.server),
              Installed("server", "application", s, k.ap_cipher.server)}
        /\ Reply("server", flight)
        /\ session' = session /\ updates' = updates
    BY <1>5, <1>6 DEF ServerFlight13, IfMade, Goto
  <2>3. reply.suite = suite
    BY DEF ServerHello
  <2>4. Signed13(s, scheme, Append(<<hello, reply>>, Certificate)) # NoSignature
    BY <1>5
  <2> HIDE DEF i, s, box, dh, scheme, reply, refused
  <2>5. IsSeq(m) /\ m[2] = reply /\ {1, 2} \subseteq DOMAIN m
    BY <1>1, <2>4, Flight13
  <2> HIDE DEF m
  <2>6. k = Schedule13("rfc", s, dh.secret, m)
    BY <1>2, <1>3, ScheduleSame
  <2> HIDE DEF k
  <2>7. SuiteIn(m) = s /\ Negotiated(m, "1.3") /\ m[2].suite = suite
    BY <1>2, <1>3, <2>3, <2>5 DEF SuiteIn, Negotiated
  <2>8. k = Schedule(dh.secret, m)
    BY <2>6, <2>7 DEF Schedule
  <2>9. Takes("server") /\ Gets("client", flight)
    BY <1>1, <2>2, Mails, TwoRoles
  <2> HIDE DEF flight
  <2>10. Answers13(dh.secret, m)
    BY <1>1, <2>2, <2>7, <2>8, <2>9, TwoRoles DEF Answers13, Rests
  <2> QED
    BY <2>10
<1> QED
  BY <1>4, <1>5

\* What HandleClientHello does.
LEMMA ClientHelloEffect ==
  ASSUME HsInv, HandleClientHello
  PROVE  Stops("server") \/ Answers12 \/ \E dh, m : Answers13(dh, m)
<1> DEFINE f == Head(inbox["server"])
           hello == f.clear[1]
           chosen == Chosen(hello)
<1>1. /\ pc["server"] = "start" /\ inbox["server"] # <<>> /\ f.kind = "hello"
      /\ IF chosen = NoSuite THEN GiveUp("server", "failed")
         ELSE IF SuiteOf(impl["server"], chosen).version = "1.3"
                THEN ServerFlight13(hello, chosen) ELSE ServerFlight12(hello, chosen)
  BY DEF HandleClientHello, Pending
<1>2. IsHello(hello)
  <2>1. FlightOk("server", f)
    BY <1>1, FirstFlight DEF HsInv, Roles
  <2> QED
    BY <1>1, <2>1 DEF FlightOk, ClearOk
<1> HIDE DEF hello, chosen
<1>3. CASE chosen = NoSuite
  BY <1>1, <1>3, GiveUpEffect, TwoRoles
<1>4. CASE chosen # NoSuite /\ SuiteOf(impl["server"], chosen).version = "1.3"
  BY <1>1, <1>2, <1>4, Answer13Effect DEF chosen
<1>5. CASE chosen # NoSuite /\ SuiteOf(impl["server"], chosen).version # "1.3"
  BY <1>1, <1>5, Answer12Effect
<1> QED
  BY <1>3, <1>4, <1>5

\* What HandleServerFlight13 does: the client holds the schedule of the messages
\* it accepted, and the server has sent them.
LEMMA Agrees13Effect ==
  ASSUME HsInv, HandleServerFlight13
  PROVE  Stops("client") \/ \E dh, m : Agrees13(dh, m)
<1> DEFINE i == impl["client"]
           flight == Head(inbox["client"])
           reply == flight.clear[1]
           s == SuiteOf(i, reply.suite)
           hello == transcript["client"][1]
           dh == complete(kx["client"], reply.share, TRUE)
           m == <<hello, reply>> \o flight.sealed.msgs
           cipher == TrafficCipher(i, s, HandshakeTraffic(i, s, dh.secret, m).server)
           checked == /\ reply.suite \in Range(suites["client"]) /\ s.version = "1.3"
                      /\ reply.share # None /\ dh.ok
                      /\ Opens(s, cipher, flight.sealed)
                      /\ m[3].key = cert
                      /\ m[4].scheme \in OfferedSchemes(hello, s)
                      /\ verify_signature(m[4].scheme, cert,
                                          Hash(s.hash_provider, SubSeq(m, 1, 3)), m[4].sig)
                      /\ m[5] = ServerFinished13(i, s, dh.secret, SubSeq(m, 1, 4))
           k == Schedule13(i, s, dh.secret, m)
           answer == Flight("finished", <<>>, Sealed(s, k.hs_cipher.client, <<k.client_finished>>))
<1>1. /\ StateOk /\ InboxInv /\ OrderInv /\ DOMAIN pc = Roles /\ DOMAIN transcript = Roles
      /\ DOMAIN secrets = Roles /\ DOMAIN session = Roles
  BY DEF HsInv, HandshakeTypeOK, StateOk
<1>4. i \in Impls
  BY <1>1, TwoRoles DEF StateOk, Impls
<1>2. /\ pc["client"] = "wait_server" /\ inbox["client"] # <<>> /\ flight.kind = "server13"
      /\ IF ~checked THEN GiveUp("client", "failed")
         ELSE  /\ pc' = [pc EXCEPT !["client"] = "connected"]
               /\ transcript' = [transcript EXCEPT !["client"] = Append(m, k.client_finished)]
               /\ secrets' = [secrets EXCEPT !["client"] =
                    Secrets13(reply.suite, k.ap, k.exporter, dh.secret)]
               /\ session' = [session EXCEPT !["client"] =
                    Session(reply.suite, s, hello, k.ap_cipher, k.exporter)]
               /\ installed' = installed \cup
                    {Installed("client", "handshake", s, k.hs_cipher.client),
                     Installed("client", "application", s, k.ap_cipher.client)}
               /\ Reply("client", answer)
               /\ updates' = updates
  <2>1. ASSUME reply.suite \in Range(suites["client"])
        PROVE  HandshakeMade(i, s, dh.secret, m) /\ ApplicationMade(i, s, dh.secret, m)
    <3>1. reply.suite \in AllSuites /\ s.kdf \in Hashes /\ s.aead_alg \in Aeads
      BY <1>1, <1>4, <2>1, ListsOfSuites, SuiteHeld
    <3> HIDE DEF i, s, dh, m
    <3> QED
      BY <1>4, <3>1, ScheduleMade
  <2> QED
    BY <2>1 DEF HandleServerFlight13, Pending, IfMade, Goto
<1>3. FlightOk("client", flight) /\ flight \in Range(inbox["client"])
  BY <1>1, <1>2, FirstFlight, TwoRoles
<1>5. CASE ~checked
  BY <1>2, <1>5, GiveUpEffect, TwoRoles
<1>6. CASE checked
  <2>1. /\ reply.suite \in AllSuites /\ s = RfcSuite(reply.suite)
        /\ s.kdf \in Hashes /\ s.aead_alg \in Aeads /\ s.version = "1.3"
    BY <1>1, <1>4, <1>6, ListsOfSuites, SuiteHeld
  <2>2. Opens(s, cipher, flight.sealed)
    BY <1>6
  <2> HIDE DEF flight, reply, s, hello, dh
  <2>3. WireKey(s, cipher) # NoCipher
    <3>1. WireKey(s, cipher) = cipher
      BY <2>1 DEF WireKey
    <3>2. \A t : TrafficCipher(i, s, t).aead = s.aead_alg
      BY <1>4, <2>1, TrafficCipherMade
    <3>3. cipher.aead \in Aeads
      BY <2>1, <3>2
    <3> QED
      BY <3>1, <3>3 DEF NoCipher, Aeads
  <2> HIDE DEF cipher
  <2>4. SealedOk("client", "server13", flight.sealed.msgs)
    BY <1>2, <1>3, <2>2, <2>3, OpensSealed DEF FlightOk
  <2>5. PICK c, v, f : flight.sealed.msgs = <<c, v, f>>
    BY <2>4 DEF SealedOk
  <2>6. m = <<hello, reply, c, v, f>>
    BY <2>5, JoinFive
  <2>7. IsSeq(<<hello, reply, c, v, f>>)
    BY ShortSeq
  <2>9. /\ pc' = [pc EXCEPT !["client"] = "connected"]
        /\ transcript' = [transcript EXCEPT !["client"] = Append(m, k.client_finished)]
        /\ secrets' = [secrets EXCEPT !["client"] =
             Secrets13(reply.suite, k.ap, k.exporter, dh.secret)]
        /\ session' = [session EXCEPT !["client"] =
             Session(reply.suite, s, hello, k.ap_cipher, k.exporter)]
        /\ installed' = installed \cup
             {Installed("client", "handshake", s, k.hs_cipher.client),
              Installed("client", "application", s, k.ap_cipher.client)}
        /\ Reply("client", answer)
        /\ updates' = updates
    BY <1>2, <1>6
  <2> HIDE DEF m, checked
  <2>10. IsSeq(m) /\ m[2] = reply /\ {1, 2} \subseteq DOMAIN m
    BY <2>6, <2>7
  <2>11. k = Schedule13("rfc", s, dh.secret, m)
    BY <1>4, <2>1, ScheduleSame
  <2> HIDE DEF k
  <2>12. SuiteIn(m) = s /\ Negotiated(m, "1.3") /\ m[2].suite = reply.suite
    BY <2>1, <2>10 DEF SuiteIn, Negotiated
  <2>13. k = Schedule(dh.secret, m)
    BY <2>11, <2>12 DEF Schedule
  <2>14. Takes("client") /\ Gets("server", answer)
    BY <1>1, <1>2, <2>9, Mails, TwoRoles
  <2> HIDE DEF answer
  <2>15. pc["server"] \notin {"start", "wait_client"}
    BY <1>1, <1>2, <1>3 DEF OrderInv, Kinds
  <2>16. session'["client"] # NoSession
    BY <1>1, <2>1, <2>9, SomeSession, TwoRoles
  <2>17. Agrees13(dh.secret, m)
    BY <1>1, <1>2, <2>9, <2>12, <2>13, <2>14, <2>15, <2>16, TwoRoles DEF Agrees13, Rests
  <2> QED
    BY <2>17
<1> QED
  BY <1>5, <1>6

\* What HandleClientFinished does: the server's own schedule, and the client has
\* accepted before.
LEMMA Confirms13Effect ==
  ASSUME HsInv, HandleClientFinished
  PROVE  Stops("server") \/ \E dh, m : Confirms13(dh, m)
<1> DEFINE i == impl["server"]
           s == MySuite("server")
           mine == secrets["server"]
           m == transcript["server"]
           flight == Head(inbox["server"])
           k == Schedule13(i, s, mine.dh, m)
           checked == /\ Opens(s, k.hs_cipher.client, flight.sealed)
                      /\ flight.sealed.msgs = <<k.client_finished>>
<1>1. /\ StateOk /\ InboxInv /\ ServerInv /\ DOMAIN pc = Roles /\ DOMAIN transcript = Roles
      /\ DOMAIN secrets = Roles /\ DOMAIN session = Roles
  BY DEF HsInv, HandshakeTypeOK, StateOk
<1>2. /\ pc["server"] = "wait_finished" /\ inbox["server"] # <<>> /\ flight.kind = "finished"
      /\ IF ~checked THEN GiveUp("server", "failed")
         ELSE /\ pc' = [pc EXCEPT !["server"] = "connected"]
              /\ transcript' = [transcript EXCEPT !["server"] = Append(m, k.client_finished)]
              /\ secrets' = [secrets EXCEPT !["server"].traffic = k.ap]
              /\ session' = [session EXCEPT !["server"] =
                   Session(mine.suite, s, m[1], k.ap_cipher, mine.exporter)]
              /\ NoReply("server")
              /\ updates' = updates /\ installed' = installed
  BY DEF HandleClientFinished, Pending, Goto
<1>3. FlightOk("server", flight)
  BY <1>1, <1>2, FirstFlight, TwoRoles
<1>4. i \in Impls
  BY <1>1, TwoRoles DEF StateOk, Impls
<1>5. CASE ~checked
  BY <1>2, <1>5, GiveUpEffect, TwoRoles
<1>6. CASE checked
  <2>1. Negotiated(m, "1.3") /\ mine.suite = m[2].suite
    BY <1>1, <1>2 DEF ServerInv
  <2>2. /\ IsSeq(m) /\ m[2].suite \in AllSuites /\ s = SuiteIn(m)
        /\ s.kdf \in Hashes /\ s.aead_alg \in Aeads /\ s.version = "1.3"
    BY <1>4, <2>1, SuiteHeld DEF Negotiated, SuiteIn, MySuite
  <2>3. /\ pc' = [pc EXCEPT !["server"] = "connected"]
        /\ transcript' = [transcript EXCEPT !["server"] = Append(m, k.client_finished)]
        /\ secrets' = [secrets EXCEPT !["server"].traffic = k.ap]
        /\ session' = [session EXCEPT !["server"] =
             Session(mine.suite, s, m[1], k.ap_cipher, mine.exporter)]
        /\ NoReply("server")
        /\ updates' = updates /\ installed' = installed
        /\ Opens(s, k.hs_cipher.client, flight.sealed)
    BY <1>2, <1>6
  <2> HIDE DEF s, m, checked, flight, mine
  <2>4. k = Schedule(mine.dh, m)
    BY <1>4, <2>2, ScheduleSame DEF Schedule
  <2>5. WireKey(s, k.hs_cipher.client) # NoCipher
    <3>1. k.hs_cipher["client"].aead = s.aead_alg
      BY <1>4, <2>2, ScheduleMade, TwoRoles
    <3> HIDE DEF k
    <3>2. WireKey(s, k.hs_cipher.client) = k.hs_cipher.client
      BY <2>2 DEF WireKey
    <3> QED
      BY <2>2, <3>1, <3>2 DEF NoCipher, Aeads
  <2> HIDE DEF k, i
  <2>6. Accepted13("client")
    BY <1>2, <1>3, <2>3, <2>5, OpensSealed DEF FlightOk, SealedOk
  <2>7. session["client"] # NoSession
    BY <2>6, AcceptedSession, TwoRoles DEF Accepted
  <2>8. Takes("server") /\ Waits("client")
    BY <1>1, <1>2, <2>3, Mails, TwoRoles
  <2>9. session'["server"] # NoSession
    BY <1>1, <2>1, <2>2, <2>3, SomeSession, TwoRoles
  <2>10. /\ secrets'["server"] = [mine EXCEPT !.traffic = k.ap]
         /\ secrets'["client"] = secrets["client"]
    BY <1>1, <2>3, TwoRoles DEF mine
  <2>11. Confirms13(mine.dh, m)
    BY <1>1, <1>2, <2>1, <2>3, <2>4, <2>7, <2>8, <2>9, <2>10, TwoRoles
    DEF Confirms13, Rests, mine, m
  <2> QED
    BY <2>11
<1> QED
  BY <1>5, <1>6

\* What HandleServerFlight12 does.
LEMMA Agrees12Effect ==
  ASSUME HsInv, HandleServerFlight12
  PROVE  Stops("client") \/ Agrees12
<1> DEFINE i == impl["client"]
           flight == Head(inbox["client"])
           reply == flight.clear[1]
           skx == flight.clear[3]
           s == SuiteOf(i, reply.suite)
           hello == transcript["client"][1]
           cke == ClientKeyExchange(start(group, nextKey))
           m == <<hello>> \o flight.clear \o <<cke>>
           ms == MasterSecret12(i, s, start(group, nextKey), skx.share, m)
           block == KeyBlock(i, s, ms, hello.random, reply.random)
           writer == Write12(s, block, "client")
           fin == Finished(FinishedMac12(i, s, ms, "client finished", m))
           checked == /\ reply.suite \in Range(suites["client"]) /\ s.version = "1.2"
                      /\ flight.clear[2].key = cert
                      /\ skx.scheme \in hello.schemes
                      /\ verify_signature(skx.scheme, cert, Params(hello, reply, skx.share),
                                          skx.sig)
                      /\ ms # NoBytes
           answer == Flight("client12", <<cke>>, Sealed(s, writer, <<fin>>))
<1>1. /\ StateOk /\ DOMAIN pc = Roles /\ DOMAIN transcript = Roles
      /\ DOMAIN secrets = Roles /\ DOMAIN session = Roles
  BY DEF HsInv, HandshakeTypeOK, StateOk
<1>2. /\ pc["client"] = "wait_server" /\ inbox["client"] # <<>>
      /\ IF ~checked THEN GiveUp("client", "failed")
         ELSE IfMade("client", /\ KeysMade12(i, s, ms, hello.random, reply.random, "client")
                               /\ fin.mac # Panic,
               /\ Goto("client", "wait_finished")
               /\ kx' = [kx EXCEPT !["client"] = None]
               /\ nextKey' = nextKey + 1
               /\ transcript' = [transcript EXCEPT !["client"] = Append(m, fin)]
               /\ secrets' = [secrets EXCEPT !["client"] =
                    Secrets12(reply.suite, block, ms, hello.random, reply.random)]
               /\ installed' = installed \cup {Installed("client", "application", s, writer)}
               /\ Reply("client", answer)
               /\ UNCHANGED <<session, updates>>)
  BY DEF HandleServerFlight12, Pending
<1>3. i \in Impls
  BY <1>1, TwoRoles DEF StateOk, Impls
<1>4. CASE ~checked
  BY <1>2, <1>4, GiveUpEffect, TwoRoles
<1>5. CASE checked
  <2>1. /\ reply.suite \in AllSuites /\ s = RfcSuite(reply.suite)
        /\ s.aead_alg \in Aeads /\ s.version = "1.2"
    BY <1>1, <1>3, <1>5, ListsOfSuites, SuiteHeld
  <2> HIDE DEF flight, reply, s, hello, skx, cke
  <2>2. /\ block = KeyBlock("rfc", s, ms, hello.random, reply.random)
        /\ KeysMade12(i, s, ms, hello.random, reply.random, "client") /\ fin.mac # Panic
    <3>1. "client" \in Roles
      BY TwoRoles
    <3> DEFINE cr == hello.random
               sr == reply.random
    <3>3. fin.mac # Panic
      BY <1>3, FinishedSame12
    <3> HIDE DEF m, ms, cr, sr, i, fin
    <3>2. /\ KeyBlock(i, s, ms, cr, sr) = KeyBlock("rfc", s, ms, cr, sr)
          /\ KeysMade12(i, s, ms, cr, sr, "client")
          /\ KeyFits(Installed("client", "application", s,
                               Write12(s, KeyBlock(i, s, ms, cr, sr), "client")))
      BY <1>3, <2>1, <3>1, Made12
    <3> QED
      BY <3>2, <3>3 DEF cr, sr
  <2>3. /\ pc' = [pc EXCEPT !["client"] = "wait_finished"]
        /\ transcript' = [transcript EXCEPT !["client"] = Append(m, fin)]
        /\ secrets' = [secrets EXCEPT !["client"] =
             Secrets12(reply.suite, block, ms, hello.random, reply.random)]
        /\ installed' = installed \cup {Installed("client", "application", s, writer)}
        /\ Reply("client", answer)
        /\ session' = session /\ updates' = updates
    BY <1>2, <1>5, <2>2 DEF IfMade, Goto
  <2> HIDE DEF m, ms, checked, answer, fin
  <2>4. Takes("client") /\ Gets("server", answer)
    BY <1>1, <1>2, <2>3, Mails, TwoRoles
  <2>5. Holds("client", reply.suite, ms, hello.random, reply.random)
    BY <1>1, <2>1, <2>2, <2>3, TwoRoles DEF Holds
  <2> QED
    BY <1>1, <1>2, <2>3, <2>4, <2>5, TwoRoles DEF Agrees12, Rests
<1> QED
  BY <1>4, <1>5

\* What HandleClientFlight12 does.
LEMMA Accepts12Effect ==
  ASSUME HsInv, HandleClientFlight12
  PROVE  Stops("server") \/ Accepts12
<1> DEFINE i == impl["server"]
           flight == Head(inbox["server"])
           reply == transcript["server"][2]
           s == SuiteOf(i, reply.suite)
           m == transcript["server"] \o flight.clear
           ms == MasterSecret12(i, s, kx["server"], flight.clear[1].share, m)
           block == KeyBlock(i, s, ms, m[1].random, reply.random)
           fin == Finished(FinishedMac12(i, s, ms, "server finished", m \o flight.sealed.msgs))
           writer == Write12(s, block, "server")
           reader == Read12(s, block, "server")
           hers == Finished(FinishedMac12(i, s, ms, "client finished", m))
           checked == Opens(s, reader, flight.sealed) /\ flight.sealed.msgs = <<hers>>
           answer == Flight("finished", <<>>, Sealed(s, writer, <<fin>>))
<1>1. /\ pc["server"] = "wait_client" /\ inbox["server"] # <<>> /\ flight.kind = "client12"
      /\ IF ms = NoBytes THEN GiveUp("server", "failed")
         ELSE IfMade("server", /\ KeysMade12(i, s, ms, m[1].random, reply.random, "server")
                               /\ Panic \notin {hers.mac, fin.mac},
                IF ~checked THEN GiveUp("server", "failed")
                ELSE /\ Goto("server", "connected")
                     /\ kx' = [kx EXCEPT !["server"] = None]
                     /\ transcript' = [transcript EXCEPT !["server"] =
                          m \o flight.sealed.msgs \o <<fin>>]
                     /\ secrets' = [secrets EXCEPT !["server"] =
                          Secrets12(reply.suite, block, ms, m[1].random, reply.random)]
                     /\ session' = [session EXCEPT !["server"] =
                          Session(reply.suite, s, m[1], [client |-> reader, server |-> writer], ms)]
                     /\ installed' = installed \cup {Installed("server", "application", s, writer)}
                     /\ Reply("server", answer)
                     /\ UNCHANGED <<nextKey, updates>>)
  BY DEF HandleClientFlight12, AcceptClient12, Pending
<1>2. /\ StateOk /\ InboxInv /\ OrderInv /\ ServerInv
      /\ DOMAIN pc = Roles /\ DOMAIN transcript = Roles
      /\ DOMAIN secrets = Roles /\ DOMAIN session = Roles
  BY DEF HsInv, HandshakeTypeOK, StateOk
<1>3. i \in Impls
  BY <1>2, TwoRoles DEF StateOk, Impls
<1>4. Negotiated(transcript["server"], "1.2")
  BY <1>1, <1>2 DEF ServerInv
<1>5. s = RfcSuite(reply.suite) /\ reply.suite \in AllSuites /\ s.aead_alg \in Aeads
      /\ s.version = "1.2"
  BY <1>3, <1>4, SuiteHeld DEF Negotiated, SuiteIn
<1>6. pc["client"] \notin {"start", "wait_server"}
  <2>1. flight \in Range(inbox["server"])
    BY <1>1, <1>2, FirstFlight, TwoRoles
  <2> QED
    BY <1>1, <1>2, <2>1 DEF OrderInv, Kinds
<1> HIDE DEF i, s, m, reply
<1>7. /\ block = KeyBlock("rfc", s, ms, m[1].random, reply.random)
      /\ KeysMade12(i, s, ms, m[1].random, reply.random, "server")
      /\ Panic \notin {hers.mac, fin.mac}
  <2>1. hers.mac # Panic /\ fin.mac # Panic
    BY <1>3, FinishedSame12
  <2> HIDE DEF ms, hers, fin
  <2> QED
    BY <1>3, <1>5, <2>1, Made12, TwoRoles
<1>8. CASE ms = NoBytes \/ ~checked
  <2>1. GiveUp("server", "failed")
    BY <1>1, <1>7, <1>8 DEF IfMade
  <2> QED
    BY <2>1, GiveUpEffect, TwoRoles
<1>9. CASE ~(ms = NoBytes \/ ~checked)
  <2>1. /\ pc' = [pc EXCEPT !["server"] = "connected"]
        /\ transcript' = [transcript EXCEPT !["server"] = m \o flight.sealed.msgs \o <<fin>>]
        /\ secrets' = [secrets EXCEPT !["server"] =
             Secrets12(reply.suite, block, ms, m[1].random, reply.random)]
        /\ session' = [session EXCEPT !["server"] =
             Session(reply.suite, s, m[1], [client |-> reader, server |-> writer], ms)]
        /\ installed' = installed \cup {Installed("server", "application", s, writer)}
        /\ Reply("server", answer)
        /\ updates' = updates
    BY <1>1, <1>7, <1>9 DEF IfMade, Goto
  <2> HIDE DEF flight, ms, checked, answer, fin
  <2>2. Takes("server") /\ Gets("client", answer)
    <3>1. StateOk /\ inbox["server"] # <<>> /\ Reply("server", answer)
      BY <1>1, <1>2, <2>1
    <3> QED
      BY <3>1, Mails, TwoRoles
  <2>3. Holds("server", reply.suite, ms, m[1].random, reply.random)
    BY <1>2, <1>5, <1>7, <2>1, TwoRoles DEF Holds
  <2> QED
    BY <1>1, <1>2, <1>6, <2>1, <2>2, <2>3, TwoRoles DEF Accepts12, Rests
<1> QED
  BY <1>8, <1>9

\* What HandleServerFinished does.
LEMMA Confirms12Effect ==
  ASSUME HsInv, HandleServerFinished
  PROVE  Stops("client") \/ Confirms12
<1> DEFINE i == impl["client"]
           s == MySuite("client")
           mine == secrets["client"]
           ms == mine.exporter
           m == transcript["client"]
           fin == Finished(FinishedMac12(i, s, ms, "server finished", m))
           flight == Head(inbox["client"])
           reader == Reader("client")
           made == Session(mine.suite, s, m[1],
                           [client |-> Writer("client"), server |-> reader], ms)
           checked == Opens(s, reader, flight.sealed) /\ flight.sealed.msgs = <<fin>>
<1>1. /\ StateOk /\ InboxInv /\ ClientInv /\ OrderInv /\ DOMAIN pc = Roles
      /\ DOMAIN transcript = Roles /\ DOMAIN session = Roles
  BY DEF HsInv, HandshakeTypeOK, StateOk
<1>4. i \in Impls
  BY <1>1, TwoRoles DEF StateOk, Impls
<1>2. /\ pc["client"] = "wait_finished" /\ inbox["client"] # <<>> /\ flight.kind = "finished"
      /\ IF ~checked THEN GiveUp("client", "failed")
         ELSE /\ pc' = [pc EXCEPT !["client"] = "connected"]
              /\ transcript' = [transcript EXCEPT !["client"] = Append(m, fin)]
              /\ session' = [session EXCEPT !["client"] = made]
              /\ NoReply("client")
              /\ secrets' = secrets /\ updates' = updates /\ installed' = installed
  <2>1. fin.mac # Panic
    <3> HIDE DEF i, s, ms, m
    <3> QED
      BY <1>4, FinishedSame12
  <2> QED
    BY <2>1 DEF HandleServerFinished, Pending, IfMade, Goto
<1>3. FlightOk("client", flight)
  BY <1>1, <1>2, FirstFlight, TwoRoles
<1>5. CASE ~checked
  BY <1>2, <1>5, GiveUpEffect, TwoRoles
<1>6. CASE checked
  <2>1. Holds12("client", m)
    BY <1>1, <1>2 DEF ClientInv
  <2>2. /\ m[2].suite \in AllSuites /\ SuiteIn(m).version = "1.2"
        /\ mine.suite = m[2].suite /\ mine.block = Block(ms, m)
    BY <2>1 DEF Holds12, Negotiated, Secrets12
  <2>3. s = SuiteIn(m) /\ s.aead_alg \in Aeads /\ s.version = "1.2"
    BY <1>4, <2>2, SuiteHeld DEF SuiteIn, MySuite
  <2>4. RfcSuite(mine.suite).version = "1.2"
    BY <2>2 DEF SuiteIn
  <2>5. reader = Read12(s, Block(ms, m), "client")
    BY <2>2, <2>3 DEF Reader
  <2>6. Opens(s, reader, flight.sealed)
    BY <1>6
  <2>7. WireKey(s, reader) # NoCipher
    <3>1. "rfc" \in Impls /\ Block(ms, m) = KeyBlock("rfc", s, ms, m[1].random, m[2].random)
      BY <2>3 DEF Impls, Block
    <3>2. "client" \in Roles
      BY TwoRoles
    <3> DEFINE cr == m[1].random
               sr == m[2].random
    <3> HIDE DEF s, m, mine, ms, reader, cr, sr
    <3>3. WireKey(s, Read12(s, KeyBlock("rfc", s, ms, cr, sr), "client")) # NoCipher
      BY <2>3, <3>1, <3>2, Made12
    <3> QED
      BY <2>5, <3>1, <3>3 DEF cr, sr
  <2> HIDE DEF reader, flight, s, made, fin
  <2>8. Accepted12("server")
    <3>1. SealedOk("client", "finished", flight.sealed.msgs)
      BY <1>2, <1>3, <2>6, <2>7, OpensSealed DEF FlightOk
    <3> QED
      BY <3>1 DEF SealedOk
  <2>9. session["server"] # NoSession
    BY <2>8, AcceptedSession, TwoRoles DEF Accepted
  <2>10. pc["server"] # "wait_finished"
    BY <1>1, <2>9, TwoRoles DEF OrderInv
  <2>11. /\ pc' = [pc EXCEPT !["client"] = "connected"]
         /\ transcript' = [transcript EXCEPT !["client"] = Append(m, fin)]
         /\ session' = [session EXCEPT !["client"] = made]
         /\ NoReply("client")
         /\ secrets' = secrets /\ updates' = updates /\ installed' = installed
    BY <1>2, <1>6
  <2>12. Takes("client") /\ Waits("server")
    BY <1>1, <1>2, <2>11, Mails, TwoRoles
  <2> QED
    BY <1>1, <1>2, <2>4, <2>10, <2>11, <2>12, TwoRoles DEF Confirms12, Rests
<1> QED
  BY <1>5, <1>6

\* The next traffic secret does not depend on who computes it.
LEMMA NextSame ==
  ASSUME NEW i \in Impls, NEW s, s.kdf \in Hashes, NEW okm
  PROVE  NextTrafficSecret(i, s, okm) = NextTrafficSecret("rfc", s, okm)
<1>1. "rfc" \in Impls
  BY DEF Impls
<1>2. \A j \in Impls : FromOkm(j, s, okm) = WolfHkdfExpander(okm, s.kdf)
  BY OkmSame
<1> DEFINE h == s.kdf
           label == "traffic upd"
           context == <<>>
<1>3. h \in Hashes
  OBVIOUS
<1> HIDE DEF h, label, context
<1>4. DeriveBlock(i, WolfHkdfExpander(okm, h), label, context) =
        DeriveBlock("rfc", WolfHkdfExpander(okm, h), label, context)
  BY <1>1, <1>3, BlockSame
<1> QED
  BY <1>1, <1>2, <1>4 DEF NextTrafficSecret, h, label, context

\* What SendKeyUpdate does: a flight sealed under the secret that is replaced.
LEMMA RekeysEffect ==
  ASSUME HsInv, NEW r \in Roles, SendKeyUpdate(r)
  PROVE  Rekeys(r)
<1> DEFINE s == MySuite(r)
           t == secrets[r].traffic[r]
           u == RfcSuite(secrets[r].suite)
<1>1. /\ StateOk /\ DOMAIN secrets = Roles /\ DOMAIN updates = Roles
  BY DEF HsInv, HandshakeTypeOK, StateOk
<1>2. /\ pc[r] = "connected" /\ s.version = "1.3"
      /\ Post(r, Flight("key_update", <<>>, Sealed(s, Writer(r), <<>>)))
      /\ secrets' = Updated(r, r)
      /\ updates' = [updates EXCEPT ![r] = @ + 1]
      /\ installed' = installed \cup
           {Installed(r, "update", s, TrafficCipher(impl[r], s, Updated(r, r)[r].traffic[r]))}
      /\ pc' = pc /\ transcript' = transcript /\ session' = session
  <2>1. NextMade(r, r)
    BY UpdateMade DEF SendKeyUpdate
  <2> QED
    BY <2>1 DEF SendKeyUpdate, IfMade
<1>3. /\ Accepted13(r) /\ impl[r] \in Impls /\ secrets[r].suite \in AllSuites
      /\ s = u
  BY <1>2, ConnectedAccepted
<1>4. u.kdf \in Hashes /\ u.aead_alg \in Aeads /\ u.version = "1.3"
  BY <1>2, <1>3, SuiteHeld
<1>5. Writer(r) = TrafficCipher("rfc", u, t)
  BY <1>2, <1>3, <1>4, TrafficCipherMade DEF Writer
<1>6. NextTrafficSecret(impl[r], s, t) = NextTrafficSecret("rfc", u, t)
  BY <1>3, <1>4, NextSame
<1>7. /\ secrets'[r] = [secrets[r] EXCEPT !.traffic[r] = NextTrafficSecret("rfc", u, t)]
      /\ secrets'[Other(r)] = secrets[Other(r)]
  BY <1>1, <1>2, <1>6, TwoRoles DEF Updated

<1>8. TrafficCipher(impl[r], s, secrets'[r].traffic[r]) =
        TrafficCipher("rfc", u, secrets'[r].traffic[r])
  BY <1>3, <1>4, TrafficCipherMade
<1>9. installed' = installed \cup
        {Installed(r, "update", u, TrafficCipher("rfc", u, secrets'[r].traffic[r]))}
  <2>1. Updated(r, r)[r].traffic[r] = secrets'[r].traffic[r]
    BY <1>2
  <2> QED
    BY <1>2, <1>3, <1>8, <2>1
<1>10. Waits(r) /\ Gets(Other(r), KeyUpdate(u, t))
  <2>1. Post(r, KeyUpdate(u, t))
    BY <1>2, <1>3, <1>5 DEF KeyUpdate
  <2> QED
    BY <1>1, <2>1, Mails
<1>11. updates'[r] = updates[r] + 1 /\ updates'[Other(r)] = updates[Other(r)]
  BY <1>1, <1>2, TwoRoles
<1> HIDE DEF s
<1> QED
  BY <1>2, <1>3, <1>7, <1>9, <1>10, <1>11 DEF Rekeys, Rests

\* What HandleKeyUpdate does: the secret of the other direction is replaced.
LEMMA FollowsEffect ==
  ASSUME HsInv, NEW r \in Roles, HandleKeyUpdate(r)
  PROVE  Stops(r) \/ Follows(r)
<1> DEFINE flight == Head(inbox[r])
           t == secrets[r].traffic[Other(r)]
           u == RfcSuite(secrets[r].suite)
           opens == Opens(MySuite(r), Reader(r), flight.sealed)
<1>1. /\ StateOk /\ InboxInv /\ AgreeInv /\ DOMAIN secrets = Roles
  BY DEF HsInv, StateOk
<1>2. /\ pc[r] = "connected" /\ inbox[r] # <<>> /\ flight.kind = "key_update"
      /\ IF ~opens THEN GiveUp(r, "failed")
         ELSE /\ secrets' = Updated(r, Other(r))
              /\ NoReply(r)
              /\ pc' = pc /\ transcript' = transcript
              /\ session' = session /\ updates' = updates /\ installed' = installed
  <2>1. NextMade(r, Other(r))
    BY UpdateMade DEF HandleKeyUpdate
  <2> QED
    BY <2>1 DEF HandleKeyUpdate, Pending, IfMade
<1>3. FlightOk(r, flight)
  BY <1>1, <1>2, FirstFlight
<1>4. CASE ~opens
  BY <1>2, <1>4, GiveUpEffect
<1>5. CASE opens
  <2>1. Accepted13(Other(r))
    BY <1>2, <1>3 DEF FlightOk, ClearOk
  <2>2. Accepted13(r) /\ impl[r] \in Impls /\ secrets[r].suite \in AllSuites /\ MySuite(r) = u
    <3>1. /\ session[Other(r)] # NoSession
          /\ RfcSuite(session[Other(r)].suite).version = "1.3"
      BY <2>1, AcceptedSession, TwoRoles DEF Accepted
    <3>2. /\ session[r] # NoSession /\ MySuite(r) = RfcSuite(session[r].suite)
          /\ Accepted13(r) <=> MySuite(r).version = "1.3"
          /\ secrets[r].suite = session[r].suite /\ session[r].suite \in AllSuites
          /\ impl[r] \in Impls
      BY <1>2, ConnectedAccepted
    <3>3. session["client"] = session["server"]
      BY <1>1, <3>1, <3>2, TwoRoles DEF AgreeInv, Both
    <3>4. session[r] = session[Other(r)]
      BY <3>3 DEF Roles, Other
    <3> QED
      BY <3>1, <3>2, <3>4
  <2>3. u.kdf \in Hashes
    BY <2>2, SuiteHeld
  <2>4. NextTrafficSecret(impl[r], MySuite(r), t) = NextTrafficSecret("rfc", u, t)
    BY <2>2, <2>3, NextSame
  <2>5. /\ secrets' = Updated(r, Other(r))
        /\ NoReply(r)
        /\ pc' = pc /\ transcript' = transcript
        /\ session' = session /\ updates' = updates /\ installed' = installed
    BY <1>2, <1>5
  <2>6. /\ secrets'[r] = [secrets[r] EXCEPT !.traffic[Other(r)] = NextTrafficSecret("rfc", u, t)]
        /\ secrets'[Other(r)] = secrets[Other(r)]
    BY <1>1, <2>4, <2>5, TwoRoles DEF Updated
  <2>7. Takes(r) /\ Waits(Other(r))
    BY <1>1, <1>2, <2>5, Mails
  <2> QED
    BY <1>2, <2>1, <2>2, <2>5, <2>6, <2>7 DEF Follows, Rests
<1> QED
  BY <1>4, <1>5

\* What Alter does to the inbox it touches: no flight comes or goes.
LEMMA SuffersEffect ==
  ASSUME HsInv, NEW r \in Roles, Alter(r)
  PROVE  Suffers(r)
<1> DEFINE q == inbox[r]
<1>1. /\ inbox[r] # <<>> /\ altered' = altered + 1
      /\ pc' = pc /\ transcript' = transcript /\ secrets' = secrets /\ session' = session
      /\ updates' = updates /\ installed' = installed
  BY DEF Alter
<1>2. /\ IsSeq(q) /\ 1 \in DOMAIN q /\ DOMAIN inbox = Roles /\ altered \in Nat
  BY <1>1, TailSeq DEF HsInv, InboxInv, StateOk, HandshakeTypeOK
<1>3. PICK v : inbox' = [inbox EXCEPT ![r] = [n \in DOMAIN q |-> IF n = 1 THEN v ELSE q[n]]]
  <2>1. \A j, m : [inbox EXCEPT ![r][1].clear[j] = m] =
          [inbox EXCEPT ![r] = [n \in DOMAIN q |->
             IF n = 1 THEN [q[1] EXCEPT !.clear[j] = m] ELSE q[n]]]
    BY <1>2
  <2>2. [inbox EXCEPT ![r][1].sealed = NothingSealed] =
          [inbox EXCEPT ![r] = [n \in DOMAIN q |->
             IF n = 1 THEN [q[1] EXCEPT !.sealed = NothingSealed] ELSE q[n]]]
    BY <1>2
  <2>3. CASE \E j, m : inbox' = [inbox EXCEPT ![r][1].clear[j] = m]
    <3>1. PICK j, m : inbox' = [inbox EXCEPT ![r][1].clear[j] = m]
      BY <2>3
    <3> QED
      BY <2>1, <3>1
  <2>4. CASE inbox' = [inbox EXCEPT ![r][1].sealed = NothingSealed]
    BY <2>2, <2>4
  <2> QED
    BY <2>3, <2>4 DEF Alter
<1> DEFINE p == [n \in DOMAIN q |-> IF n = 1 THEN v ELSE q[n]]
<1>4. inbox'[r] = p /\ inbox'[Other(r)] = inbox[Other(r)]
  BY <1>2, <1>3, TwoRoles
<1> HIDE DEF q
<1>5. p \in [DOMAIN q -> Range(q) \cup {v}]
  BY DEF Range
<1> HIDE DEF p
<1>6. IsSeq(p) /\ Len(p) = Len(q)
  BY <1>2, <1>5, Replaced
<1>7. altered' > 0
  BY <1>1, <1>2
<1> QED
  BY <1>1, <1>4, <1>6, <1>7 DEF Suffers, Rests, Waits, q

\* Every step is one of these.
LEMMA StepEffects ==
  ASSUME HsInv, [Next]_vars
  PROVE  (altered' = altered /\ Effects) \/ \E r \in Roles : Suffers(r)
<1>1. CASE UNCHANGED vars
  <2>1. Rest /\ altered' = altered
    BY <1>1 DEF vars, Rest, Rests, Waits
  <2> QED
    BY <2>1 DEF Effects
<1>2. CASE Step
  <2>1. altered' = altered
    BY <1>2 DEF Step
  <2>2. Effects
    <3>1. CASE SendClientHello
      BY <3>1, HelloEffect DEF Effects
    <3>2. CASE HandleClientHello
      BY <3>2, ClientHelloEffect, TwoRoles DEF Effects
    <3>3. CASE HandleServerFlight13
      BY <3>3, Agrees13Effect, TwoRoles DEF Effects
    <3>4. CASE HandleClientFinished
      BY <3>4, Confirms13Effect, TwoRoles DEF Effects
    <3>5. CASE HandleServerFlight12
      BY <3>5, Agrees12Effect, TwoRoles DEF Effects
    <3>6. CASE HandleClientFlight12
      BY <3>6, Accepts12Effect, TwoRoles DEF Effects
    <3>7. CASE HandleServerFinished
      BY <3>7, Confirms12Effect, TwoRoles DEF Effects
    <3>8. CASE \E r \in Roles : HandleKeyUpdate(r)
      BY <3>8, FollowsEffect DEF Effects
    <3> QED
      BY <1>2, <3>1, <3>2, <3>3, <3>4, <3>5, <3>6, <3>7, <3>8 DEF Step
  <2> QED
    BY <2>1, <2>2
<1>3. CASE Update
  <2>1. PICK r \in Roles : SendKeyUpdate(r)
    BY <1>3 DEF Update
  <2>2. altered' = altered
    BY <1>3 DEF Update
  <2> QED
    BY <2>1, <2>2, RekeysEffect DEF Effects
<1>4. CASE \E r \in Roles, how \in {"failed", "panicked"} : Fault(r, how)
  <2>1. PICK r \in Roles, how \in {"failed", "panicked"} : Fault(r, how)
    BY <1>4
  <2>2. GiveUp(r, how) /\ altered' = altered
    BY <2>1 DEF Fault
  <2>3. Stops(r)
    BY <2>2, GiveUpEffect
  <2> QED
    BY <2>2, <2>3 DEF Effects
<1>5. CASE \E r \in Roles : Alter(r)
  BY <1>5, SuffersEffect
<1> QED
  BY <1>1, <1>2, <1>3, <1>4, <1>5 DEF Next

-----------------------------------------------------------------------------
(* Secrets are where their ratchets say                                    *)

\* What r holds, in the registered terms: its suite, the messages up to the
\* server's Finished, and the schedule of them.
HeldSuite(r) == RfcSuite(secrets[r].suite)
HeldMsgs(r) == IF session[r] = NoSession THEN transcript[r] ELSE Front(transcript[r])
HeldSchedule(r) == Schedule(secrets[r].dh, HeldMsgs(r))
\* The secrets that w writes with, one after another, as r knows them.
Chain(r, w) == Ratchet(HeldSuite(r), HeldSchedule(r).ap[w])

\* How many flights are on their way, by where the two ends are: to a server that
\* waits for the client's Finished this one and the client's key updates, no more
\* than one before.  It is why HandleClientFinished starts the ratchet at the right
\* place however many key updates came first.
CountInv ==
  /\ pc["client"] = "start" =>
       /\ Len(inbox["client"]) = 0 /\ Len(inbox["server"]) = 0
       /\ pc["server"] \in {"start", "failed", "panicked"}
  /\ pc["server"] = "start" => Len(inbox["client"]) = 0
  /\ pc["client"] = "wait_server" =>
       /\ Len(inbox["client"]) <= 1
       /\ pc["server"] = "start" => Len(inbox["server"]) <= 1
       /\ pc["server"] = "wait_finished" => Len(inbox["server"]) = 0
  /\ pc["server"] = "wait_finished" /\ session["client"] # NoSession =>
       Len(inbox["server"]) = updates["client"] + 1
  /\ \A r \in Roles : session[r] = NoSession => updates[r] = 0

\* Every traffic secret is where its ratchet says: an end writes with the secret
\* that its own key updates lead to, and once connected reads with the one that
\* the other's key updates lead to, less those that are still on their way.
RatchetAt(r) ==
  session[r] # NoSession /\ Accepted13(r) =>
    /\ DOMAIN secrets[r].traffic = Roles
    /\ secrets[r].traffic[r] = Chain(r, r)[updates[r]]
    /\ pc[r] = "connected" =>
       /\ Len(inbox[r]) <= updates[Other(r)]
       /\ secrets[r].traffic[Other(r)] = Chain(r, Other(r))[updates[Other(r)] - Len(inbox[r])]
RatchetInv == \A r \in Roles : RatchetAt(r)

\* Lengths of the inboxes before and after a step.
LEMMA Lengths ==
  ASSUME HsInv, NEW r \in Roles
  PROVE  /\ Len(inbox[r]) \in Nat /\ updates[r] \in Nat
         /\ Len(inbox[r]) = 0 <=> inbox[r] = <<>>
         /\ \A f : Gets(r, f) => Len(inbox'[r]) = Len(inbox[r]) + 1
         /\ Takes(r) => Len(inbox[r]) > 0 /\ Len(inbox'[r]) = Len(inbox[r]) - 1
         /\ Waits(r) => Len(inbox'[r]) = Len(inbox[r])
         /\ inbox'[r] = <<>> => Len(inbox'[r]) = 0
<1> DEFINE q == inbox[r]
<1>1. q \in Seq(Range(q)) /\ updates[r] \in Nat
  BY DEF HsInv, InboxInv, IsSeq, HandshakeTypeOK
<1>2. /\ Len(q) \in Nat /\ (Len(q) = 0 <=> q = <<>>)
  BY <1>1, EmptySeq
<1>3. \A f : Len(Append(q, f)) = Len(q) + 1
  <2> TAKE f
  <2>1. q \in Seq(Range(q) \cup {f}) /\ f \in Range(q) \cup {f}
    BY <1>1
  <2> QED
    BY <2>1, AppendProperties
<1>4. q # <<>> => Len(Tail(q)) = Len(q) - 1
  BY <1>1, HeadTailProperties
<1>5. q # <<>> => Len(q) > 0
  BY <1>2
<1>6. Len(<<>>) = 0
  OBVIOUS
<1>7. q = inbox[r]
  OBVIOUS
<1> HIDE DEF q
<1> QED
  BY <1>1, <1>2, <1>3, <1>4, <1>5, <1>6, <1>7 DEF Gets, Takes, Waits

\* Every step keeps the counts.
LEMMA CountKept ==
  ASSUME HsInv, HsInv', CountInv, [Next]_vars
  PROVE  CountInv'
<1> DEFINE c == "client"
           s == "server"
<1>1. /\ Len(inbox[c]) \in Nat /\ updates[c] \in Nat
      /\ \A f : Gets(c, f) => Len(inbox'[c]) = Len(inbox[c]) + 1
      /\ Takes(c) => Len(inbox[c]) > 0 /\ Len(inbox'[c]) = Len(inbox[c]) - 1
      /\ Waits(c) => Len(inbox'[c]) = Len(inbox[c])
      /\ inbox'[c] = <<>> => Len(inbox'[c]) = 0
  BY Lengths, TwoRoles
<1>2. /\ Len(inbox[s]) \in Nat /\ updates[s] \in Nat
      /\ \A f : Gets(s, f) => Len(inbox'[s]) = Len(inbox[s]) + 1
      /\ Takes(s) => Len(inbox[s]) > 0 /\ Len(inbox'[s]) = Len(inbox[s]) - 1
      /\ Waits(s) => Len(inbox'[s]) = Len(inbox[s])
      /\ inbox'[s] = <<>> => Len(inbox'[s]) = 0
  BY Lengths, TwoRoles
<1>3. /\ pc[s] \in {"start", "wait_client"} => session[c] = NoSession
      /\ pc[c] \in {"start", "wait_server"} => session[s] = NoSession
      /\ \A r \in Roles : pc[r] \in {"start", "wait_server", "wait_client", "wait_finished"} =>
            session[r] = NoSession
  BY DEF HsInv, OrderInv
<1>4. \A r \in Roles : Accepted13(r) => session[r] # NoSession
  BY AcceptedSession DEF Accepted
<1>5. \A r \in Roles : session[r] = NoSession => updates[r] = 0
  BY DEF CountInv
<1>6. CASE Rest
  BY <1>1, <1>2, <1>6, TwoRoles DEF CountInv, Rest, Rests
<1>7. CASE Greets
  BY <1>1, <1>2, <1>3, <1>7, TwoRoles DEF CountInv, Greets, Rests
<1>8. CASE Answers12
  BY <1>1, <1>2, <1>3, <1>8, TwoRoles DEF CountInv, Answers12, Rests
<1>9. CASE Agrees12
  BY <1>1, <1>2, <1>3, <1>9, TwoRoles DEF CountInv, Agrees12, Rests
<1>10. CASE Accepts12
  BY <1>1, <1>2, <1>3, <1>10, TwoRoles DEF CountInv, Accepts12, Rests
<1>11. CASE Confirms12
  BY <1>1, <1>2, <1>3, <1>11, TwoRoles DEF CountInv, Confirms12, Rests
<1>12. ASSUME NEW dh, NEW m, Answers13(dh, m) PROVE CountInv'
  BY <1>1, <1>2, <1>3, <1>12, TwoRoles DEF CountInv, Answers13, Rests
<1>13. ASSUME NEW dh, NEW m, Agrees13(dh, m) PROVE CountInv'
  BY <1>1, <1>2, <1>3, <1>13, TwoRoles DEF CountInv, Agrees13, Rests
<1>14. ASSUME NEW dh, NEW m, Confirms13(dh, m) PROVE CountInv'
  BY <1>1, <1>2, <1>3, <1>14, TwoRoles DEF CountInv, Confirms13, Rests
<1>15. ASSUME NEW r \in Roles, Stops(r) PROVE CountInv'
  BY <1>1, <1>2, <1>3, <1>15, TwoRoles DEF CountInv, Stops, Rests
<1>16. ASSUME NEW r \in Roles, Rekeys(r) PROVE CountInv'
  BY <1>1, <1>2, <1>3, <1>4, <1>16, TwoRoles DEF CountInv, Rekeys, Rests
<1>17. ASSUME NEW r \in Roles, Follows(r) PROVE CountInv'
  BY <1>1, <1>2, <1>3, <1>17, TwoRoles DEF CountInv, Follows, Rests
<1>18. ASSUME NEW r \in Roles, Suffers(r) PROVE CountInv'
  BY <1>1, <1>2, <1>18, TwoRoles DEF CountInv, Suffers, Rests
<1> QED
  BY <1>6, <1>7, <1>8, <1>9, <1>10, <1>11, <1>12, <1>13, <1>14, <1>15, <1>16, <1>17, <1>18,
     StepEffects DEF Effects

\* The ratchets of r depend on its messages, its suite and its shared secret.
LEMMA ChainKept ==
  ASSUME NEW r, transcript'[r] = transcript[r], session'[r] = session[r],
         secrets'[r].suite = secrets[r].suite, secrets'[r].dh = secrets[r].dh
  PROVE  /\ HeldSuite(r)' = HeldSuite(r) /\ HeldMsgs(r)' = HeldMsgs(r)
         /\ HeldSchedule(r)' = HeldSchedule(r)
         /\ \A w : Chain(r, w)' = Chain(r, w)
<1>1. HeldSuite(r)' = HeldSuite(r) /\ HeldMsgs(r)' = HeldMsgs(r)
  BY DEF HeldSuite, HeldMsgs
<1>2. HeldSchedule(r)' = HeldSchedule(r)
  BY <1>1 DEF HeldSchedule
<1> QED
  BY <1>1, <1>2 DEF Chain

\* A step that changes nothing r holds, and as many key updates sent as on their
\* way, keeps its secrets in place.
LEMMA RatchetSame ==
  ASSUME NEW r \in Roles, RatchetAt(r), transcript'[r] = transcript[r], session'[r] = session[r],
         secrets'[r] = secrets[r], updates'[r] = updates[r],
         pc'[r] = "connected" =>
           /\ pc[r] = "connected" /\ Len(inbox'[r]) <= updates'[Other(r)]
           /\ updates'[Other(r)] - Len(inbox'[r]) = updates[Other(r)] - Len(inbox[r])
  PROVE  RatchetAt(r)'
<1>1. \A w : Chain(r, w)' = Chain(r, w)
  BY ChainKept
<1>2. Accepted13(r)' = Accepted13(r)
  BY DEF Accepted13
<1> QED
  BY <1>1, <1>2 DEF RatchetAt

\* The chain that r knows at the beginning.
LEMMA ChainStarts ==
  ASSUME NEW r \in Roles, NEW w \in Roles, NEW dh, NEW m, IsSeq(m), session'[r] # NoSession,
         transcript'[r] = Append(m, Schedule(dh, m).client_finished),
         secrets'[r].dh = dh
  PROVE  /\ Chain(r, w)'[0] = Schedule(dh, m).ap[w]
         /\ HeldMsgs(r)' = m
<1> DEFINE k == Schedule(dh, m)
<1> HIDE DEF k
<1>1. Front(Append(m, k.client_finished)) = m
  BY AppendSeq
<1>2. HeldMsgs(r)' = m
  BY <1>1 DEF HeldMsgs, k
<1>3. HeldSchedule(r)' = k
  BY <1>2 DEF HeldSchedule, k
<1> DEFINE u == HeldSuite(r)'
<1> HIDE DEF u
<1>4. Ratchet(u, k.ap[w])[0] = k.ap[w]
  BY RatchetSteps
<1> QED
  BY <1>2, <1>3, <1>4 DEF Chain, u, k

\* The next secret of a ratchet.
LEMMA ChainNext ==
  ASSUME NEW r, NEW w, NEW n \in Nat
  PROVE  Chain(r, w)[n + 1] = NextTrafficSecret("rfc", HeldSuite(r), Chain(r, w)[n])
<1> DEFINE u == HeldSuite(r)
           b == HeldSchedule(r).ap[w]
<1>1. Chain(r, w) = Ratchet(u, b)
  BY DEF Chain
<1> HIDE DEF u, b
<1>2. \A j \in Nat : Ratchet(u, b)[j + 1] = NextTrafficSecret("rfc", u, Ratchet(u, b)[j])
  BY RatchetSteps
<1>3. Ratchet(u, b)[n + 1] = NextTrafficSecret("rfc", u, Ratchet(u, b)[n])
  BY <1>2
<1> QED
  BY <1>1, <1>3 DEF u

\* A schedule has an application secret for each end.
LEMMA ApRoles == \A dh, m : DOMAIN Schedule(dh, m).ap = Roles
BY DEF Schedule, Schedule13, ApplicationTraffic, Roles

\* Every step keeps the secrets in place: a key update moves the writer, reading
\* it moves the reader, and in between it is on its way.
LEMMA RatchetKept ==
  ASSUME HsInv, HsInv', CountInv, RatchetInv, [Next]_vars
  PROVE  RatchetInv'
<1> DEFINE c == "client"
           s == "server"
<1>1. /\ Len(inbox[c]) \in Nat /\ updates[c] \in Nat
      /\ \A f : Gets(c, f) => Len(inbox'[c]) = Len(inbox[c]) + 1
      /\ Takes(c) => Len(inbox[c]) > 0 /\ Len(inbox'[c]) = Len(inbox[c]) - 1
      /\ Waits(c) => Len(inbox'[c]) = Len(inbox[c])
  BY Lengths, TwoRoles
<1>2. /\ Len(inbox[s]) \in Nat /\ updates[s] \in Nat
      /\ \A f : Gets(s, f) => Len(inbox'[s]) = Len(inbox[s]) + 1
      /\ Takes(s) => Len(inbox[s]) > 0 /\ Len(inbox'[s]) = Len(inbox[s]) - 1
      /\ Waits(s) => Len(inbox'[s]) = Len(inbox[s])
  BY Lengths, TwoRoles
<1>3. /\ pc[s] \in {"start", "wait_client"} => session[c] = NoSession
      /\ pc[c] \in {"start", "wait_server"} => session[s] = NoSession
      /\ \A r \in Roles : pc[r] \in {"start", "wait_server", "wait_client", "wait_finished"} =>
            session[r] = NoSession
  BY DEF HsInv, OrderInv
<1>4. \A r \in Roles : session[r] = NoSession => updates[r] = 0
  BY DEF CountInv
<1>5. \A r \in Roles : session'[r] = NoSession => RatchetAt(r)'
  BY DEF RatchetAt
<1>6. RatchetAt(c) /\ RatchetAt(s) /\ \A r \in Roles : RatchetAt(r)
  BY TwoRoles DEF RatchetInv
<1>7. RatchetAt(c)' /\ RatchetAt(s)' => RatchetInv'
  BY TwoRoles DEF RatchetInv
<1>8. ASSUME NEW r \in Roles, Rests(r), Waits(r), updates'[Other(r)] = updates[Other(r)]
      PROVE  RatchetAt(r)'
  <2>1. inbox'[r] = inbox[r] /\ Other(r) \in Roles
    BY <1>8, TwoRoles DEF Waits
  <2>2. /\ transcript'[r] = transcript[r] /\ session'[r] = session[r]
        /\ secrets'[r] = secrets[r] /\ updates'[r] = updates[r] /\ pc'[r] = pc[r]
    BY <1>8 DEF Rests
  <2>3. \A w : Chain(r, w)' = Chain(r, w)
    BY <2>2, ChainKept
  <2>4. Accepted13(r)' = Accepted13(r)
    BY <2>2 DEF Accepted13
  <2> QED
    BY <1>6, <1>8, <2>1, <2>2, <2>3, <2>4 DEF RatchetAt
<1>9. \A r \in Roles : Accepted13(r)' => RfcSuite(secrets'[r].suite).version = "1.3"
  BY DEF Accepted13, Negotiated, SuiteIn
<1>10. CASE Rest
  BY <1>7, <1>8, <1>10, TwoRoles DEF Rest, Rests
<1>11. CASE Greets
  <2>1. RatchetAt(c)'
    BY <1>3, <1>5, <1>11, TwoRoles DEF Greets
  <2>2. RatchetAt(s)'
    <3>1. pc'[s] # "connected" /\ Rests(s)
      BY <1>11 DEF Greets, Rests, CountInv
    <3> QED
      BY <1>6, <3>1, RatchetSame, TwoRoles DEF Rests
  <2> QED
    BY <1>7, <2>1, <2>2
<1>12. CASE Answers12
  BY <1>3, <1>5, <1>7, <1>12, TwoRoles DEF Answers12, Rests
<1>13. CASE Agrees12
  BY <1>3, <1>5, <1>7, <1>13, TwoRoles DEF Agrees12, Rests
<1>14. CASE Accepts12
  <2>1. RfcSuite(secrets'[s].suite).version = "1.2"
    BY <1>14 DEF Accepts12, Holds, Secrets12
  <2>2. RatchetAt(s)'
    BY <1>9, <2>1, TwoRoles DEF RatchetAt
  <2>3. RatchetAt(c)'
    BY <1>3, <1>5, <1>14, TwoRoles DEF Accepts12, Rests
  <2> QED
    BY <1>7, <2>2, <2>3
<1>15. CASE Confirms12
  <2>1. RatchetAt(c)'
    BY <1>9, <1>15, TwoRoles DEF RatchetAt, Confirms12
  <2>2. RatchetAt(s)'
    BY <1>8, <1>15, TwoRoles DEF Confirms12
  <2> QED
    BY <1>7, <2>1, <2>2
<1>16. ASSUME NEW dh, NEW m, Answers13(dh, m) PROVE RatchetInv'
  BY <1>3, <1>5, <1>7, <1>16, TwoRoles DEF Answers13, Rests
<1>17. ASSUME NEW dh, NEW m, Agrees13(dh, m) PROVE RatchetInv'
  <2> DEFINE k == Schedule(dh, m)
  <2>1. /\ secrets'[c] = Secrets13(m[2].suite, k.ap, k.exporter, dh) /\ IsSeq(m)
        /\ transcript'[c] = Append(m, k.client_finished) /\ session'[c] # NoSession
        /\ updates'[c] = updates[c] /\ updates'[s] = updates[s]
    BY <1>17 DEF Agrees13, Negotiated, Rests
  <2>2. /\ updates'[c] = 0 /\ updates'[s] = 0 /\ Len(inbox'[c]) = 0
    BY <1>1, <1>3, <1>4, <1>17, <2>1, TwoRoles DEF Agrees13, CountInv
  <2>3. secrets'[c].dh = dh /\ secrets'[c].traffic = k.ap
    BY <2>1 DEF Secrets13
  <2>4. \A w \in Roles : Chain(c, w)'[0] = k.ap[w]
    BY <2>1, <2>3, ChainStarts, TwoRoles
  <2>5. DOMAIN k.ap = Roles
    BY ApRoles
  <2> HIDE DEF k
  <2>6. RatchetAt(c)'
    BY <2>2, <2>3, <2>4, <2>5, TwoRoles DEF RatchetAt
  <2>7. RatchetAt(s)'
    BY <1>3, <1>5, <1>17, TwoRoles DEF Agrees13, Rests
  <2> QED
    BY <1>7, <2>6, <2>7
<1>18. ASSUME NEW dh, NEW m, Confirms13(dh, m) PROVE RatchetInv'
  <2> DEFINE k == Schedule(dh, m)
  <2>1. /\ secrets'[s] = [secrets[s] EXCEPT !.traffic = k.ap] /\ IsSeq(m) /\ secrets[s].dh = dh
        /\ transcript'[s] = Append(m, k.client_finished) /\ session'[s] # NoSession
        /\ updates'[c] = updates[c] /\ updates'[s] = updates[s]
    BY <1>18 DEF Confirms13, Negotiated, Rests
  <2>2. DOMAIN secrets[s] = {"suite", "traffic", "exporter", "dh", "block", "client_random",
                             "server_random"}
    <3>1. secrets[s].suite \in AllSuites
      BY <1>18 DEF Confirms13, HsInv, ServerInv, Negotiated
    <3>2. secrets[s] # NoSecrets
      BY <3>1, NoSuiteIsNone DEF NoSecrets
    <3> QED
      BY <3>2, TwoRoles DEF HsInv, StateOk
  <2>3. secrets'[s].dh = dh /\ secrets'[s].traffic = k.ap
    BY <2>1, <2>2
  <2>4. /\ updates'[s] = 0 /\ Len(inbox'[s]) = updates'[c]
    BY <1>1, <1>2, <1>3, <1>4, <1>18, <2>1, TwoRoles DEF Confirms13, CountInv
  <2>5. \A w \in Roles : Chain(s, w)'[0] = k.ap[w]
    <3>1. /\ IsSeq(m) /\ transcript'[s] = Append(m, k.client_finished) /\ session'[s] # NoSession
          /\ secrets'[s].dh = dh
      BY <2>1, <2>3
    <3> QED
      BY <3>1, ChainStarts, TwoRoles
  <2>6. DOMAIN k.ap = Roles
    BY ApRoles
  <2> HIDE DEF k
  <2>7. RatchetAt(s)'
    <3>1. updates'[c] \in Nat /\ Len(inbox'[s]) <= updates'[c] /\ updates'[c] - Len(inbox'[s]) = 0
      BY <1>1, <2>1, <2>4
    <3> QED
      BY <2>3, <2>4, <2>5, <2>6, <3>1, TwoRoles DEF RatchetAt
  <2>8. RatchetAt(c)'
    BY <1>8, <1>18, TwoRoles DEF Confirms13
  <2> QED
    BY <1>7, <2>7, <2>8
<1>19. ASSUME NEW r \in Roles, Stops(r) PROVE RatchetInv'
  <2>1. RatchetAt(r)'
    BY <1>6, <1>19, RatchetSame DEF Stops
  <2>2. RatchetAt(Other(r))'
    BY <1>8, <1>19, TwoRoles DEF Stops
  <2> QED
    BY <2>1, <2>2, TwoRoles DEF RatchetInv
<1>20. ASSUME NEW r \in Roles, Rekeys(r) PROVE RatchetInv'
  <2> DEFINE o == Other(r)
             u == HeldSuite(r)
             t == secrets[r].traffic[r]
             n == updates[r]
  <2>1. /\ o \in Roles /\ o # r /\ Other(o) = r /\ n \in Nat
        /\ Len(inbox[o]) \in Nat /\ Len(inbox'[o]) = Len(inbox[o]) + 1 /\ inbox'[r] = inbox[r]
    BY <1>1, <1>2, <1>20, TwoRoles DEF Rekeys, Waits
  <2>2. /\ transcript'[r] = transcript[r] /\ session'[r] = session[r] /\ Accepted13(r)
        /\ updates'[r] = n + 1 /\ updates'[o] = updates[o] /\ pc'[r] = pc[r] /\ pc[r] = "connected"
        /\ secrets'[r] = [secrets[r] EXCEPT !.traffic[r] = NextTrafficSecret("rfc", u, t)]
    BY <1>20 DEF Rekeys, HeldSuite, Rests
  <2>3. session[r] # NoSession
    BY <2>2, AcceptedSession DEF Accepted
  <2>4. /\ DOMAIN secrets[r].traffic = Roles
        /\ t = Chain(r, r)[n]
        /\ Len(inbox[r]) <= updates[o]
        /\ secrets[r].traffic[o] = Chain(r, o)[updates[o] - Len(inbox[r])]
    BY <1>6, <2>2, <2>3 DEF RatchetAt
  <2>5. DOMAIN secrets[r] = {"suite", "traffic", "exporter", "dh", "block", "client_random",
                             "server_random"}
    <3>1. secrets[r].suite \in AllSuites
      BY <2>2, AcceptedSession DEF Accepted
    <3>2. secrets[r] # NoSecrets
      BY <3>1, NoSuiteIsNone DEF NoSecrets
    <3> QED
      BY <3>2 DEF HsInv, StateOk
  <2>6. /\ secrets'[r].suite = secrets[r].suite /\ secrets'[r].dh = secrets[r].dh
        /\ secrets'[r].traffic = [secrets[r].traffic EXCEPT ![r] = NextTrafficSecret("rfc", u, t)]
    BY <2>2, <2>5
  <2>7. \A w : Chain(r, w)' = Chain(r, w)
    BY <2>2, <2>6, ChainKept
  <2>8. Chain(r, r)[n + 1] = NextTrafficSecret("rfc", u, Chain(r, r)[n])
    <3>1. \A k \in Nat : Chain(r, r)[k + 1] =
                          NextTrafficSecret("rfc", HeldSuite(r), Chain(r, r)[k])
      BY ChainNext
    <3>2. n \in Nat /\ u = HeldSuite(r)
      BY <2>1 DEF HeldSuite
    <3> HIDE DEF n, u
    <3> QED
      BY <3>1, <3>2
  <2> HIDE DEF o, u, t, n
  <2>9. /\ DOMAIN secrets'[r].traffic = Roles
        /\ secrets'[r].traffic[r] = Chain(r, r)'[n + 1]
        /\ secrets'[r].traffic[o] = secrets[r].traffic[o]
    BY <2>1, <2>4, <2>6, <2>7, <2>8
  <2>10. RatchetAt(r)'
    <3>1. /\ DOMAIN secrets'[r].traffic = Roles
          /\ secrets'[r].traffic[r] = Chain(r, r)'[updates'[r]]
          /\ Len(inbox'[r]) <= updates'[o]
          /\ secrets'[r].traffic[o] = Chain(r, o)'[updates'[o] - Len(inbox'[r])]
      BY <2>1, <2>2, <2>4, <2>7, <2>9
    <3> QED
      BY <3>1 DEF RatchetAt, o
  <2>11. RatchetAt(o)'
    <3>1. /\ transcript'[o] = transcript[o] /\ session'[o] = session[o] /\ secrets'[o] = secrets[o]
          /\ pc'[o] = pc[o]
      BY <1>20 DEF Rekeys, Rests, o
    <3>2. Accepted13(o)' = Accepted13(o)
      BY <3>1 DEF Accepted13
    <3>3. CASE Accepted13(o)
      <4>1. session[o] # NoSession
        BY <2>1, <3>3, AcceptedSession DEF Accepted
      <4>2. pc[o] = "connected" => Len(inbox[o]) <= n
        BY <1>6, <2>1, <3>3, <4>1 DEF RatchetAt, n
      <4>3. pc[o] = "connected" => /\ Len(inbox'[o]) <= updates'[r]
                                   /\ updates'[r] - Len(inbox'[o]) = n - Len(inbox[o])
        BY <2>1, <2>2, <4>2
      <4>4. \A w : Chain(o, w)' = Chain(o, w)
        BY <3>1, ChainKept
      <4> QED
        BY <1>6, <2>1, <2>2, <3>1, <3>3, <4>1, <4>3, <4>4 DEF RatchetAt, n
    <3> QED
      BY <3>2, <3>3 DEF RatchetAt
  <2> QED
    BY <2>1, <2>10, <2>11, TwoRoles DEF RatchetInv, o
<1>21. ASSUME NEW r \in Roles, Follows(r) PROVE RatchetInv'
  <2> DEFINE o == Other(r)
             u == HeldSuite(r)
             t == secrets[r].traffic[o]
             n == updates[o] - Len(inbox[r])
  <2>1. /\ o \in Roles /\ o # r /\ updates[o] \in Nat /\ Len(inbox[r]) \in Nat
        /\ Len(inbox'[r]) = Len(inbox[r]) - 1 /\ Len(inbox[r]) > 0
    BY <1>1, <1>2, <1>21, TwoRoles DEF Follows
  <2>2. /\ transcript'[r] = transcript[r] /\ session'[r] = session[r] /\ Accepted13(r)
        /\ updates'[r] = updates[r] /\ updates'[o] = updates[o] /\ pc'[r] = pc[r]
        /\ pc[r] = "connected"
        /\ secrets'[r] = [secrets[r] EXCEPT !.traffic[o] = NextTrafficSecret("rfc", u, t)]
    BY <1>21 DEF Follows, HeldSuite, Rests
  <2>3. session[r] # NoSession
    BY <2>2, AcceptedSession DEF Accepted
  <2>4. /\ DOMAIN secrets[r].traffic = Roles
        /\ secrets[r].traffic[r] = Chain(r, r)[updates[r]]
        /\ Len(inbox[r]) <= updates[o]
        /\ t = Chain(r, o)[n]
    BY <1>6, <2>2, <2>3 DEF RatchetAt
  <2>5. DOMAIN secrets[r] = {"suite", "traffic", "exporter", "dh", "block", "client_random",
                             "server_random"}
    <3>1. secrets[r].suite \in AllSuites
      BY <2>2, AcceptedSession DEF Accepted
    <3>2. secrets[r] # NoSecrets
      BY <3>1, NoSuiteIsNone DEF NoSecrets
    <3> QED
      BY <3>2 DEF HsInv, StateOk
  <2>6. /\ secrets'[r].suite = secrets[r].suite /\ secrets'[r].dh = secrets[r].dh
        /\ secrets'[r].traffic = [secrets[r].traffic EXCEPT ![o] = NextTrafficSecret("rfc", u, t)]
    BY <2>2, <2>5
  <2>7. \A w : Chain(r, w)' = Chain(r, w)
    BY <2>2, <2>6, ChainKept
  <2>8. n \in Nat /\ updates'[o] - Len(inbox'[r]) = n + 1 /\ Len(inbox'[r]) <= updates'[o]
    BY <2>1, <2>2, <2>4
  <2>9. Chain(r, o)[n + 1] = NextTrafficSecret("rfc", u, Chain(r, o)[n])
    <3>1. \A k \in Nat : Chain(r, o)[k + 1] =
                          NextTrafficSecret("rfc", HeldSuite(r), Chain(r, o)[k])
      BY ChainNext
    <3>2. n \in Nat /\ u = HeldSuite(r)
      BY <2>8 DEF HeldSuite
    <3> HIDE DEF n, u
    <3> QED
      BY <3>1, <3>2
  <2> HIDE DEF o, u, t, n
  <2>10. /\ DOMAIN secrets'[r].traffic = Roles
         /\ secrets'[r].traffic[o] = Chain(r, o)'[n + 1]
         /\ secrets'[r].traffic[r] = secrets[r].traffic[r]
    BY <2>1, <2>4, <2>6, <2>7, <2>9
  <2>11. RatchetAt(r)'
    <3>1. /\ DOMAIN secrets'[r].traffic = Roles
          /\ secrets'[r].traffic[r] = Chain(r, r)'[updates'[r]]
          /\ Len(inbox'[r]) <= updates'[o]
          /\ secrets'[r].traffic[o] = Chain(r, o)'[updates'[o] - Len(inbox'[r])]
      BY <2>1, <2>2, <2>4, <2>7, <2>8, <2>10
    <3> QED
      BY <3>1 DEF RatchetAt, o
  <2>12. RatchetAt(o)'
    BY <1>8, <1>21, <2>1, <2>2, TwoRoles DEF Follows, o
  <2> QED
    BY <2>1, <2>11, <2>12, TwoRoles DEF RatchetInv, o
<1>22. ASSUME NEW r \in Roles, Suffers(r) PROVE RatchetInv'
  <2>1. Len(inbox'[r]) = Len(inbox[r]) /\ Rests(r) /\ updates'[Other(r)] = updates[Other(r)]
    BY <1>22 DEF Suffers, Rests
  <2>2. RatchetAt(r)'
    <3>1. pc[r] = "connected" => Len(inbox[r]) <= updates[Other(r)] \/ ~Accepted13(r)
      BY <1>6 DEF RatchetAt, HsInv, HandshakeTypeOK
    <3>2. Accepted13(r)' = Accepted13(r)
      BY <2>1 DEF Accepted13, Rests
    <3>3. CASE ~Accepted13(r)
      BY <3>2, <3>3 DEF RatchetAt
    <3>4. CASE Accepted13(r)
      BY <1>6, <2>1, <3>1, <3>4, RatchetSame DEF Rests
    <3> QED
      BY <3>3, <3>4
  <2>3. RatchetAt(Other(r))'
    BY <1>8, <1>22, TwoRoles DEF Suffers, Rests
  <2> QED
    BY <2>2, <2>3, TwoRoles DEF RatchetInv
<1> QED
  BY <1>10, <1>11, <1>12, <1>13, <1>14, <1>15, <1>16, <1>17, <1>18, <1>19, <1>20, <1>21, <1>22,
     StepEffects DEF Effects

-----------------------------------------------------------------------------
(* Both ends extract the same keys                                         *)

\* Ends with the same exporter secret and the same messages have the same
\* traffic secrets.
LEMMA ApSame ==
  ASSUME NEW m, m[2].suite \in AllSuites, NEW dh, NEW eh,
         Schedule(dh, m).exporter = Schedule(eh, m).exporter
  PROVE  Schedule(dh, m).ap = Schedule(eh, m).ap
<1> DEFINE s == SuiteIn(m)
           context == Hash(s.hash_provider, m)
           label == "exp master"
<1>1. "rfc" \in Impls /\ s.kdf \in Hashes
  BY SuiteTyped DEF SuiteIn, Impls
<1>2. PICK a : MasterSecret("rfc", s, dh) = WolfHkdfExpander(a, s.kdf)
  BY <1>1, MasterSecretSame
<1>3. PICK b : MasterSecret("rfc", s, eh) = WolfHkdfExpander(b, s.kdf)
  BY <1>1, MasterSecretSame
<1>4. /\ Schedule(dh, m).exporter = DeriveBlock("rfc", WolfHkdfExpander(a, s.kdf), label, context)
      /\ Schedule(eh, m).exporter = DeriveBlock("rfc", WolfHkdfExpander(b, s.kdf), label, context)
  BY <1>2, <1>3 DEF Schedule, Schedule13, TrafficSecret
<1> HIDE DEF s, context, label
<1>5. /\ DeriveBlock("rfc", WolfHkdfExpander(a, s.kdf), label, context)[1].of.prk = a
      /\ DeriveBlock("rfc", WolfHkdfExpander(b, s.kdf), label, context)[1].of.prk = b
  BY <1>1, BlockTells
<1>6. a = b
  BY <1>4, <1>5
<1> QED
  BY <1>2, <1>3, <1>6 DEF Schedule, Schedule13, ApplicationTraffic, s

\* extract_keys hands out what a cipher of TLS 1.2 was made of.
LEMMA Extracts12 ==
  ASSUME NEW a, NEW k, NEW iv, NEW extra, Tls12Encrypter(a, k, iv, extra) # NoCipher
  PROVE  extract_keys12(a, k, iv, extra) = Tls12Encrypter(a, k, iv, extra)
BY DEF Tls12Encrypter, ChachaCipher, Tls12GcmEncrypter, extract_keys12, ChachaExtractKeys12,
       GcmExtractKeys12, NONCE_LEN, GCM_NONCE_LENGTH

\* When nothing is on its way the ratchets of the two ends are equally far, so that
\* each reads with what the other writes with and extract_keys gives out the same.
LEMMA SettledAgrees ==
  ASSUME HsInv, RatchetInv
  PROVE  ExtractedAgree
<1> SUFFICES ASSUME Settled, NEW r \in Roles
             PROVE  /\ Opens(MySuite(r), Reader(Other(r)), Sealed(MySuite(r), Writer(r), <<>>))
                    /\ Extracted(r, r) = Writer(r)
                    /\ Extracted(Other(r), r) = Extracted(r, r)
  BY DEF ExtractedAgree
<1> DEFINE o == Other(r)
           x == session["client"].suite
           s == RfcSuite(x)
           m == Front(transcript["client"])
<1>1. o \in Roles /\ Other(o) = r /\ "client" \in Roles /\ "server" \in Roles
  BY TwoRoles
<1>2. \A q \in Roles : pc[q] = "connected" /\ inbox[q] = <<>>
  BY DEF Settled
<1>3. ASSUME NEW q \in Roles
      PROVE  /\ Accepted(q) /\ session[q] # NoSession /\ impl[q] \in Impls
             /\ secrets[q].suite = session[q].suite /\ session[q].suite \in AllSuites
             /\ MySuite(q) = RfcSuite(session[q].suite)
             /\ Accepted13(q) <=> MySuite(q).version = "1.3"
  BY <1>2, <1>3, ConnectedAccepted
<1>4. /\ session["client"] = session["server"]
      /\ Front(transcript["client"]) = Front(transcript["server"])
  BY <1>3 DEF HsInv, AgreeInv, Both
<1>5. \A q \in Roles : session[q] = session["client"] /\ Front(transcript[q]) = m
  BY <1>4, TwoRoles
<1>6. \A q \in Roles : /\ MySuite(q) = s /\ secrets[q].suite = x
                       /\ secrets[q].exporter = session["client"].exporter
  BY <1>3, <1>5, AcceptedSession
<1>7. x \in AllSuites /\ s.kdf \in Hashes /\ s.aead_alg \in Aeads /\ s.version \in {"1.3", "1.2"}
  BY <1>1, <1>3, SuiteTyped
<1>8. CASE s.version = "1.3"
  <2>1. \A q \in Roles : Accepted13(q) /\ session[q] # NoSession
    BY <1>3, <1>6, <1>8
  <2>2. \A q \in Roles : /\ Negotiated(m, "1.3") /\ m[2].suite = x
                         /\ Schedule(secrets[q].dh, m).exporter = session["client"].exporter
    BY <1>5, <1>6, <2>1 DEF Accepted13
  <2>3. Schedule(secrets[r].dh, m).ap = Schedule(secrets[o].dh, m).ap
    BY <1>1, <1>7, <2>2, ApSame
  <2>4. \A q \in Roles : HeldMsgs(q) = m /\ HeldSuite(q) = s
    BY <1>5, <1>6, <2>1 DEF HeldMsgs, HeldSuite
  <2>5. Chain(r, r) = Chain(o, r)
    BY <1>1, <2>3, <2>4 DEF Chain, HeldSchedule
  <2>6. secrets[r].traffic[r] = Chain(r, r)[updates[r]]
    BY <2>1 DEF RatchetInv, RatchetAt
  <2>7. Len(inbox[o]) = 0 /\ updates[r] \in Nat
    BY <1>1, <1>2, Lengths
  <2>8. secrets[o].traffic[r] = Chain(o, r)[updates[r]]
    BY <1>1, <1>2, <2>1, <2>7 DEF RatchetInv, RatchetAt
  <2> DEFINE t == secrets[r].traffic[r]
             cipher == [aead |-> s.aead_alg, key |-> TrafficKey("rfc", s, t),
                        iv |-> TrafficIv("rfc", s, t)]
  <2>9. t = secrets[o].traffic[r]
    BY <2>5, <2>6, <2>8
  <2> HIDE DEF t, s
  <2>10. \A q \in Roles : /\ TrafficCipher(impl[q], s, t) = cipher
                          /\ TrafficKey(impl[q], s, t) = TrafficKey("rfc", s, t)
                          /\ TrafficIv(impl[q], s, t) = TrafficIv("rfc", s, t)
    BY <1>3, <1>7, TrafficCipherMade, TrafficKeys
  <2>11. Writer(r) = cipher
    BY <1>6, <1>8, <2>10 DEF Writer, t
  <2>12. Reader(o) = cipher
    BY <1>1, <1>6, <1>8, <2>9, <2>10 DEF Reader
  <2>13. Extracted(r, r) = cipher
    BY <1>6, <1>8, <2>10 DEF Extracted, extract_keys13, t
  <2>14. Extracted(o, r) = cipher
    BY <1>1, <1>6, <1>8, <2>9, <2>10 DEF Extracted, extract_keys13
  <2> HIDE DEF cipher, o
  <2> QED
    BY <1>6, <2>11, <2>12, <2>13, <2>14 DEF Opens, Sealed, o
<1>9. CASE s.version = "1.2"
  <2> DEFINE ms == session["client"].exporter
             cr == m[1].random
             sr == m[2].random
             b == KeyBlock("rfc", s, ms, cr, sr)
  <2>1. ASSUME NEW q \in Roles PROVE secrets[q].block = b
    <3>1. Accepted12(q)
      BY <1>3, <1>6, <1>9, <2>1 DEF Accepted
    <3>2. Holds12(q, m) /\ secrets[q].exporter = ms
      BY <1>5, <1>6, <2>1, <3>1 DEF Accepted12
    <3>3. SuiteIn(m) = s
      BY <1>6, <2>1, <3>2 DEF Holds12, Secrets12, SuiteIn
    <3>4. secrets[q].block = Block(ms, m)
      BY <3>2 DEF Holds12, Secrets12
    <3> QED
      BY <3>3, <3>4 DEF Block
  <2> DEFINE w == Write12(s, b, r)
             d == Read12(s, b, o)
  <2>2. Writer(r) = w /\ Reader(o) = d
    BY <1>1, <1>6, <1>9, <2>1 DEF Writer, Reader
  <2>3. /\ Extracted(r, r) = extract_keys12(s.aead_alg, b[r].key, b[r].iv, b.extra)
        /\ Extracted(o, r) = extract_keys12(s.aead_alg, b[r].key, b[r].iv, b.extra)
    BY <1>1, <1>6, <1>9, <2>1 DEF Extracted
  <2> HIDE DEF ms, cr, sr, s
  <2>4. w # NoCipher /\ WireKey(s, d) = WireKey(s, w)
    <3> DEFINE e == BlockTerm(s, ms, cr, sr)
    <3>1. b = Cut(s.aead_alg, e)
      BY <1>7, BlockCut DEF Impls
    <3> HIDE DEF e, b
    <3> QED
      BY <1>7, <1>9, <3>1, Ciphers12
  <2>5. extract_keys12(s.aead_alg, b[r].key, b[r].iv, b.extra) = w
    <3> HIDE DEF b
    <3> QED
      BY <2>4, Extracts12 DEF Write12
  <2> HIDE DEF w, d, o, b
  <2> QED
    BY <1>6, <2>2, <2>3, <2>4, <2>5 DEF Opens, Sealed, o
<1> QED
  BY <1>7, <1>8, <1>9

\* However the handshake and the key updates interleave, and whatever is altered,
\* the traffic secrets of both ends are where their ratchets say (the counts are
\* part of the argument), for any number of key updates.
THEOREM SecretsReached == Spec => [](CountInv /\ RatchetInv)
<1>1. Init => CountInv /\ RatchetInv
  <2> SUFFICES ASSUME Init PROVE CountInv /\ RatchetInv
    OBVIOUS
  <2>1. /\ pc = [r \in Roles |-> "start"] /\ session = [r \in Roles |-> NoSession]
        /\ inbox = [r \in Roles |-> <<>>] /\ updates = [r \in Roles |-> 0]
    BY DEF Init
  <2>2. \A r \in Roles : /\ pc[r] = "start" /\ session[r] = NoSession /\ inbox[r] = <<>>
                         /\ updates[r] = 0 /\ Len(inbox[r]) = 0
    BY <2>1
  <2> QED
    BY <2>2, TwoRoles DEF CountInv, RatchetInv, RatchetAt
<1>2. HsInv /\ HsInv' /\ CountInv /\ RatchetInv /\ [Next]_vars => CountInv' /\ RatchetInv'
  BY CountKept, RatchetKept
<1> QED
  BY <1>1, <1>2, Invariant, PTL DEF Spec

\* Two ends that are connected and have read everything agree on the keys of both
\* directions, and extract_keys of either gives exactly those: for every suite,
\* group, key and implementation, and after any number of key updates.
THEOREM SameKeysExtracted == Spec => []ExtractedAgree
<1>1. HsInv /\ CountInv /\ RatchetInv => ExtractedAgree
  BY SettledAgrees
<1> QED
  BY <1>1, Invariant, SecretsReached, PTL

-----------------------------------------------------------------------------
(* What was ever written with                                              *)

\* The ciphers that r has written with, told from what it holds.
Written13(r) ==
  {Installed(r, "handshake", HeldSuite(r), HeldSchedule(r).hs_cipher[r]),
   Installed(r, "application", HeldSuite(r), HeldSchedule(r).ap_cipher[r])}
  \cup {Installed(r, "update", HeldSuite(r), TrafficCipher("rfc", HeldSuite(r), Chain(r, r)[n])) :
          n \in 1 .. updates[r]}
Written12(r) ==
  {Installed(r, "application", HeldSuite(r), Write12(HeldSuite(r), secrets[r].block, r))}
Written(r) ==
  IF secrets[r] = NoSecrets THEN {}
  ELSE IF HeldSuite(r).version = "1.3" THEN Written13(r) ELSE Written12(r)

\* What r holds is well-formed: a registered suite, that of its messages, and under
\* TLS 1.2 the key block of its master secret.
SecretsOk(r) ==
  /\ secrets[r].suite \in AllSuites
  /\ HeldSuite(r).version = "1.3" => HeldMsgs(r)[2].suite = secrets[r].suite
  /\ HeldSuite(r).version = "1.2" =>
       secrets[r].block = KeyBlock("rfc", HeldSuite(r), secrets[r].exporter,
                                   secrets[r].client_random, secrets[r].server_random)
\* Nothing was ever written with but what the two ends hold accounts for, and an
\* end that has not agreed holds nothing.
WrittenInv ==
  /\ installed = Written("client") \cup Written("server")
  /\ \A r \in Roles :
       /\ pc[r] \in {"start", "wait_server", "wait_client"} => secrets[r] = NoSecrets
       /\ secrets[r] # NoSecrets => SecretsOk(r)

\* The fields of what r holds.
LEMMA SecretsDomain ==
  ASSUME HsInv, NEW r \in Roles, secrets[r].suite \in AllSuites
  PROVE  DOMAIN secrets[r] = {"suite", "traffic", "exporter", "dh", "block", "client_random",
                             "server_random"}
<1>1. secrets[r] # NoSecrets
  BY NoSuiteIsNone DEF NoSecrets
<1> QED
  BY <1>1 DEF HsInv, StateOk

\* A step that leaves what r holds leaves what it has written.
LEMMA WrittenSame ==
  ASSUME NEW r \in Roles, (secrets'[r] = NoSecrets) <=> (secrets[r] = NoSecrets),
         secrets[r] # NoSecrets =>
           /\ secrets'[r].suite = secrets[r].suite /\ secrets'[r].block = secrets[r].block
           /\ secrets'[r].exporter = secrets[r].exporter
           /\ secrets'[r].client_random = secrets[r].client_random
           /\ secrets'[r].server_random = secrets[r].server_random
           /\ HeldSuite(r).version = "1.3" =>
                /\ secrets'[r].dh = secrets[r].dh /\ updates'[r] = updates[r]
                /\ HeldMsgs(r)' = HeldMsgs(r)
  PROVE  Written(r)' = Written(r) /\ (secrets[r] # NoSecrets /\ SecretsOk(r) => SecretsOk(r)')
<1>1. CASE secrets[r] = NoSecrets
  BY <1>1 DEF Written
<1>2. CASE secrets[r] # NoSecrets
  <2>1. HeldSuite(r)' = HeldSuite(r)
    BY <1>2 DEF HeldSuite
  <2>2. CASE HeldSuite(r).version = "1.3"
    <3>1. HeldMsgs(r)' = HeldMsgs(r) /\ updates'[r] = updates[r]
      BY <1>2, <2>2
    <3>2. HeldSchedule(r)' = HeldSchedule(r)
      BY <1>2, <2>2 DEF HeldSchedule
    <3>3. Chain(r, r)' = Chain(r, r)
      BY <2>1, <3>2 DEF Chain
    <3>4. Written13(r)' = Written13(r)
      BY <2>1, <3>1, <3>2, <3>3 DEF Written13
    <3>5. SecretsOk(r) => SecretsOk(r)'
      BY <1>2, <2>1, <2>2, <3>1 DEF SecretsOk
    <3> QED
      BY <1>2, <2>1, <2>2, <3>4, <3>5 DEF Written
  <2>3. CASE HeldSuite(r).version # "1.3"
    <3>1. Written12(r)' = Written12(r)
      BY <1>2, <2>1 DEF Written12
    <3>2. SecretsOk(r) => SecretsOk(r)'
      BY <1>2, <2>1, <2>3 DEF SecretsOk
    <3> QED
      BY <1>2, <2>1, <2>3, <3>1, <3>2 DEF Written
  <2> QED
    BY <2>2, <2>3
<1> QED
  BY <1>1, <1>2

\* An end that rests has written with nothing new.
LEMMA RestsWritten ==
  ASSUME NEW r \in Roles, transcript'[r] = transcript[r], secrets'[r] = secrets[r],
         session'[r] = session[r], updates'[r] = updates[r]
  PROVE  Written(r)' = Written(r) /\ (secrets[r] # NoSecrets /\ SecretsOk(r) => SecretsOk(r)')
<1>1. HeldMsgs(r)' = HeldMsgs(r)
  BY DEF HeldMsgs
<1> QED
  BY <1>1, WrittenSame

\* The first ciphers of TLS 1.3.
LEMMA Begins13 ==
  ASSUME NEW r \in Roles, NEW dh, NEW m, Negotiated(m, "1.3"), HeldMsgs(r)' = m,
         secrets'[r].suite = m[2].suite, secrets'[r].dh = dh, updates'[r] = 0
  PROVE  /\ secrets'[r] # NoSecrets /\ SecretsOk(r)'
         /\ Written(r)' =
              {Installed(r, "handshake", SuiteIn(m), Schedule(dh, m).hs_cipher[r]),
               Installed(r, "application", SuiteIn(m), Schedule(dh, m).ap_cipher[r])}
<1>1. m[2].suite \in AllSuites /\ SuiteIn(m).version = "1.3"
  BY DEF Negotiated
<1>2. secrets'[r] # NoSecrets
  BY <1>1, NoSuiteIsNone DEF NoSecrets
<1>3. HeldSuite(r)' = SuiteIn(m)
  BY DEF HeldSuite, SuiteIn
<1>4. HeldSchedule(r)' = Schedule(dh, m)
  BY DEF HeldSchedule
<1>5. SecretsOk(r)'
  BY <1>1, <1>3 DEF SecretsOk
<1>6. Written13(r)' =
        {Installed(r, "handshake", SuiteIn(m), Schedule(dh, m).hs_cipher[r]),
         Installed(r, "application", SuiteIn(m), Schedule(dh, m).ap_cipher[r])}
  <2>1. 1 .. 0 = {}
    OBVIOUS
  <2> QED
    BY <1>3, <1>4, <2>1 DEF Written13
<1> QED
  BY <1>1, <1>2, <1>3, <1>5, <1>6 DEF Written

\* The cipher of TLS 1.2.
LEMMA Begins12 ==
  ASSUME NEW r \in Roles, NEW x, NEW ms, NEW cr, NEW sr, Holds(r, x, ms, cr, sr)
  PROVE  /\ secrets'[r] # NoSecrets /\ SecretsOk(r)'
         /\ installed' = installed \cup Written(r)'
<1> DEFINE s == RfcSuite(x)
           b == KeyBlock("rfc", s, ms, cr, sr)
<1> HIDE DEF b, s
<1>1. /\ x \in AllSuites /\ s.version = "1.2"
      /\ secrets'[r] = Secrets12(x, b, ms, cr, sr)
      /\ installed' = installed \cup {Installed(r, "application", s, Write12(s, b, r))}
  BY DEF Holds, b, s
<1>2. /\ secrets'[r].suite = x /\ secrets'[r].block = b /\ secrets'[r].exporter = ms
      /\ secrets'[r].client_random = cr /\ secrets'[r].server_random = sr
  BY <1>1 DEF Secrets12
<1>3. secrets'[r] # NoSecrets
  BY <1>1, <1>2, NoSuiteIsNone DEF NoSecrets
<1>4. HeldSuite(r)' = s
  BY <1>2 DEF HeldSuite, s
<1>5. SecretsOk(r)'
  BY <1>1, <1>2, <1>4 DEF SecretsOk, b
<1>6. Written(r)' = {Installed(r, "application", s, Write12(s, b, r))}
  BY <1>1, <1>2, <1>3, <1>4 DEF Written, Written12
<1> QED
  BY <1>1, <1>3, <1>5, <1>6

\* Every step keeps the account of what was written with.
LEMMA WrittenKept ==
  ASSUME HsInv, HsInv', CountInv, RatchetInv, RatchetInv', WrittenInv, [Next]_vars
  PROVE  WrittenInv'
<1> DEFINE c == "client"
           s == "server"
<1>1. /\ installed = Written(c) \cup Written(s)
      /\ \A r \in Roles :
           /\ pc[r] \in {"start", "wait_server", "wait_client"} => secrets[r] = NoSecrets
           /\ secrets[r] # NoSecrets => SecretsOk(r)
  BY DEF WrittenInv
<1>2. \A r \in Roles : pc[r] \in {"start", "wait_server", "wait_client", "wait_finished"} =>
         session[r] = NoSession
  BY DEF HsInv, OrderInv
<1>3. \A r \in Roles : session[r] = NoSession => updates[r] = 0
  BY DEF CountInv
<1>4. \A r \in Roles : Rests(r) =>
        /\ Written(r)' = Written(r) /\ pc'[r] = pc[r] /\ secrets'[r] = secrets[r]
        /\ (secrets[r] # NoSecrets /\ SecretsOk(r) => SecretsOk(r)')
  BY RestsWritten DEF Rests
<1>5. ASSUME NEW r \in Roles, Rests(Other(r)),
             pc'[r] \in {"start", "wait_server", "wait_client"} => secrets'[r] = NoSecrets,
             secrets'[r] # NoSecrets => SecretsOk(r)',
             \/ installed' = installed /\ Written(r)' = Written(r)
             \/ installed' = installed \cup Written(r)' /\ Written(r) \subseteq Written(r)'
      PROVE  WrittenInv'
  <2>1. /\ Other(r) \in Roles /\ Written(Other(r))' = Written(Other(r))
        /\ pc'[Other(r)] = pc[Other(r)] /\ secrets'[Other(r)] = secrets[Other(r)]
        /\ (secrets'[Other(r)] # NoSecrets => SecretsOk(Other(r))')
    BY <1>1, <1>4, <1>5, TwoRoles
  <2>2. installed = Written(r) \cup Written(Other(r))
    BY <1>1, TwoRoles
  <2>3. installed' = Written(r)' \cup Written(Other(r))'
    BY <1>5, <2>1, <2>2
  <2>4. installed' = Written(c)' \cup Written(s)'
    BY <2>3, TwoRoles
  <2>5. \A q \in Roles :
           /\ pc'[q] \in {"start", "wait_server", "wait_client"} => secrets'[q] = NoSecrets
           /\ secrets'[q] # NoSecrets => SecretsOk(q)'
    BY <1>1, <1>5, <2>1, TwoRoles
  <2> QED
    BY <2>4, <2>5 DEF WrittenInv
<1>6. \A r \in Roles : secrets[r] = NoSecrets => Written(r) = {}
  BY DEF Written
<1>7. \A r \in Roles : secrets'[r] = NoSecrets => Written(r)' = {}
  BY DEF Written
<1>10. CASE Rest
  BY <1>1, <1>4, <1>5, <1>10, TwoRoles DEF Rest
<1>11. CASE Greets
  BY <1>1, <1>5, <1>6, <1>7, <1>11, TwoRoles DEF Greets
<1>12. CASE Answers12
  BY <1>1, <1>5, <1>6, <1>7, <1>12, TwoRoles DEF Answers12
<1>13. CASE Agrees12
  <2>1. PICK x, ms, cr, sr : Holds(c, x, ms, cr, sr)
    BY <1>13 DEF Agrees12
  <2>2. secrets'[c] # NoSecrets /\ SecretsOk(c)' /\ installed' = installed \cup Written(c)'
    BY <2>1, Begins12, TwoRoles
  <2>3. Written(c) = {} /\ Rests(s) /\ pc'[c] = "wait_finished"
    BY <1>1, <1>6, <1>13, TwoRoles DEF Agrees12
  <2> QED
    BY <1>5, <2>2, <2>3, TwoRoles
<1>14. CASE Accepts12
  <2>1. PICK x, ms, cr, sr : Holds(s, x, ms, cr, sr)
    BY <1>14 DEF Accepts12
  <2>2. secrets'[s] # NoSecrets /\ SecretsOk(s)' /\ installed' = installed \cup Written(s)'
    BY <2>1, Begins12, TwoRoles
  <2>3. Written(s) = {} /\ Rests(c) /\ pc'[s] = "connected"
    BY <1>1, <1>6, <1>14, TwoRoles DEF Accepts12
  <2> QED
    BY <1>5, <2>2, <2>3, TwoRoles
<1>15. CASE Confirms12
  <2>1. /\ secrets'[c] = secrets[c] /\ RfcSuite(secrets[c].suite).version = "1.2"
        /\ pc'[c] = "connected" /\ Rests(s) /\ installed' = installed
    BY <1>15 DEF Confirms12
  <2>2. HeldSuite(c).version # "1.3"
    BY <2>1 DEF HeldSuite
  <2>3. Written(c)' = Written(c) /\ (secrets[c] # NoSecrets /\ SecretsOk(c) => SecretsOk(c)')
    BY <2>1, <2>2, WrittenSame, TwoRoles
  <2> QED
    BY <1>1, <1>5, <2>1, <2>3, TwoRoles
<1>16. ASSUME NEW dh, NEW m, Answers13(dh, m) PROVE WrittenInv'
  <2>1. /\ pc[s] = "start" /\ pc'[s] = "wait_finished" /\ Negotiated(m, "1.3")
        /\ transcript'[s] = m /\ session'[s] = session[s] /\ updates'[s] = updates[s] /\ Rests(c)
    BY <1>16 DEF Answers13
  <2>2. secrets'[s].suite = m[2].suite /\ secrets'[s].dh = dh
    BY <1>16 DEF Answers13, Secrets13
  <2>3. HeldMsgs(s)' = m /\ updates'[s] = 0 /\ Written(s) = {}
    BY <1>1, <1>2, <1>3, <1>6, <2>1, TwoRoles DEF HeldMsgs
  <2>4. /\ secrets'[s] # NoSecrets /\ SecretsOk(s)'
        /\ Written(s)' =
              {Installed(s, "handshake", SuiteIn(m), Schedule(dh, m).hs_cipher[s]),
               Installed(s, "application", SuiteIn(m), Schedule(dh, m).ap_cipher[s])}
    BY <2>1, <2>2, <2>3, Begins13, TwoRoles
  <2>5. installed' = installed \cup Written(s)'
    BY <1>16, <2>4 DEF Answers13
  <2> QED
    BY <1>5, <2>1, <2>3, <2>4, <2>5, TwoRoles
<1>17. ASSUME NEW dh, NEW m, Agrees13(dh, m) PROVE WrittenInv'
  <2>1. /\ pc[c] = "wait_server" /\ pc'[c] = "connected" /\ Negotiated(m, "1.3")
        /\ transcript'[c] = Append(m, Schedule(dh, m).client_finished) /\ session'[c] # NoSession
        /\ updates'[c] = updates[c] /\ Rests(s)
    BY <1>17 DEF Agrees13
  <2>2. secrets'[c].suite = m[2].suite /\ secrets'[c].dh = dh /\ IsSeq(m)
    BY <1>17 DEF Agrees13, Secrets13, Negotiated
  <2>3. HeldMsgs(c)' = m
    BY <2>1, <2>2, ChainStarts, TwoRoles
  <2>4. updates'[c] = 0 /\ Written(c) = {}
    BY <1>1, <1>2, <1>3, <1>6, <2>1, TwoRoles
  <2>5. /\ secrets'[c] # NoSecrets /\ SecretsOk(c)'
        /\ Written(c)' =
              {Installed(c, "handshake", SuiteIn(m), Schedule(dh, m).hs_cipher[c]),
               Installed(c, "application", SuiteIn(m), Schedule(dh, m).ap_cipher[c])}
    BY <2>1, <2>2, <2>3, <2>4, Begins13, TwoRoles
  <2>6. installed' = installed \cup Written(c)'
    BY <1>17, <2>5 DEF Agrees13
  <2> QED
    BY <1>5, <2>1, <2>4, <2>5, <2>6, TwoRoles
<1>18. ASSUME NEW dh, NEW m, Confirms13(dh, m) PROVE WrittenInv'
  <2>1. /\ pc[s] = "wait_finished" /\ pc'[s] = "connected" /\ Negotiated(m, "1.3")
        /\ transcript[s] = m /\ transcript'[s] = Append(m, Schedule(dh, m).client_finished)
        /\ session'[s] # NoSession /\ updates'[s] = updates[s] /\ Rests(c)
        /\ secrets'[s] = [secrets[s] EXCEPT !.traffic = Schedule(dh, m).ap]
        /\ installed' = installed /\ IsSeq(m) /\ secrets[s].dh = dh
    BY <1>18 DEF Confirms13, Negotiated
  <2>2. secrets[s].suite \in AllSuites
    BY <2>1 DEF HsInv, ServerInv, Negotiated
  <2>3. DOMAIN secrets[s] = {"suite", "traffic", "exporter", "dh", "block", "client_random",
                             "server_random"}
    BY <2>2, SecretsDomain, TwoRoles
  <2>4. /\ secrets'[s].suite = secrets[s].suite /\ secrets'[s].block = secrets[s].block
        /\ secrets'[s].exporter = secrets[s].exporter
        /\ secrets'[s].client_random = secrets[s].client_random
        /\ secrets'[s].server_random = secrets[s].server_random /\ secrets'[s].dh = secrets[s].dh
    BY <2>1, <2>3
  <2>5. secrets[s] # NoSecrets /\ secrets'[s] # NoSecrets
    BY <2>2, <2>4, NoSuiteIsNone DEF NoSecrets
  <2>6. HeldMsgs(s)' = m
    <3>1. /\ transcript'[s] = Append(m, Schedule(dh, m).client_finished) /\ session'[s] # NoSession
          /\ IsSeq(m) /\ secrets'[s].dh = dh
      BY <2>1, <2>4
    <3> QED
      BY <3>1, ChainStarts, TwoRoles
  <2>7. HeldMsgs(s)' = HeldMsgs(s)
    BY <1>2, <2>1, <2>6, TwoRoles DEF HeldMsgs
  <2>8. Written(s)' = Written(s) /\ (secrets[s] # NoSecrets /\ SecretsOk(s) => SecretsOk(s)')
    <3>1. updates'[s] = updates[s]
      BY <2>1
    <3> QED
      BY <2>4, <2>5, <2>7, <3>1, WrittenSame, TwoRoles
  <2>9. Rests(c) /\ installed' = installed /\ pc'[s] = "connected"
    BY <2>1
  <2> QED
    BY <1>1, <1>5, <2>5, <2>8, <2>9, TwoRoles
<1>19. ASSUME NEW r \in Roles, Stops(r) PROVE WrittenInv'
  <2>1. /\ transcript'[r] = transcript[r] /\ secrets'[r] = secrets[r] /\ session'[r] = session[r]
        /\ updates'[r] = updates[r] /\ Rests(Other(r)) /\ installed' = installed
        /\ pc'[r] \in {"failed", "panicked"}
    BY <1>19 DEF Stops
  <2> QED
    BY <1>1, <1>5, <2>1, RestsWritten
<1>20. ASSUME NEW r \in Roles, Rekeys(r) \/ Follows(r)
       PROVE  /\ pc'[r] = "connected" /\ Rests(Other(r)) /\ Accepted13(r)
              /\ secrets[r] # NoSecrets /\ secrets'[r] # NoSecrets
              /\ secrets'[r].suite = secrets[r].suite /\ secrets'[r].block = secrets[r].block
              /\ secrets'[r].exporter = secrets[r].exporter
              /\ secrets'[r].client_random = secrets[r].client_random
              /\ secrets'[r].server_random = secrets[r].server_random
              /\ secrets'[r].dh = secrets[r].dh /\ session[r] # NoSession /\ session'[r] # NoSession
              /\ HeldMsgs(r)' = HeldMsgs(r) /\ HeldSuite(r)' = HeldSuite(r)
              /\ HeldSchedule(r)' = HeldSchedule(r) /\ Chain(r, r)' = Chain(r, r)
              /\ HeldSuite(r).version = "1.3"
  <2>1. /\ pc[r] = "connected" /\ pc'[r] = "connected" /\ Rests(Other(r)) /\ Accepted13(r)
        /\ transcript'[r] = transcript[r] /\ session'[r] = session[r]
    BY <1>20 DEF Rekeys, Follows
  <2>2. PICK t, w : secrets'[r] = [secrets[r] EXCEPT !.traffic[w] = t]
    BY <1>20 DEF Rekeys, Follows
  <2>3. session[r] # NoSession /\ secrets[r].suite \in AllSuites
    BY <2>1, AcceptedSession DEF Accepted
  <2>4. DOMAIN secrets[r] = {"suite", "traffic", "exporter", "dh", "block", "client_random",
                             "server_random"}
    BY <2>3, SecretsDomain
  <2>5. /\ secrets'[r].suite = secrets[r].suite /\ secrets'[r].block = secrets[r].block
        /\ secrets'[r].exporter = secrets[r].exporter
        /\ secrets'[r].client_random = secrets[r].client_random
        /\ secrets'[r].server_random = secrets[r].server_random
        /\ secrets'[r].dh = secrets[r].dh
    BY <2>2, <2>4
  <2>6. secrets[r] # NoSecrets /\ secrets'[r] # NoSecrets
    BY <2>3, <2>5, NoSuiteIsNone DEF NoSecrets
  <2>7. /\ HeldSuite(r)' = HeldSuite(r) /\ HeldMsgs(r)' = HeldMsgs(r)
        /\ HeldSchedule(r)' = HeldSchedule(r) /\ Chain(r, r)' = Chain(r, r)
    BY <2>1, <2>5, ChainKept
  <2>8. HeldSuite(r).version = "1.3"
    BY <2>1 DEF Accepted13, Negotiated, SuiteIn, HeldSuite
  <2> QED
    BY <2>1, <2>3, <2>5, <2>6, <2>7, <2>8
<1>21. ASSUME NEW r \in Roles, Rekeys(r) PROVE WrittenInv'
  <2> DEFINE u == HeldSuite(r)
             n == updates[r]
             New == Installed(r, "update", u, TrafficCipher("rfc", u, secrets'[r].traffic[r]))
  <2>1. /\ n \in Nat /\ updates'[r] = n + 1 /\ installed' = installed \cup {New}
    BY <1>21 DEF Rekeys, HeldSuite, HsInv, HandshakeTypeOK
  <2>2. /\ secrets[r] # NoSecrets /\ secrets'[r] # NoSecrets /\ session'[r] # NoSession
        /\ pc'[r] = "connected" /\ Rests(Other(r)) /\ HeldMsgs(r)' = HeldMsgs(r)
        /\ HeldSuite(r)' = u /\ u.version = "1.3"
        /\ HeldSchedule(r)' = HeldSchedule(r) /\ Chain(r, r)' = Chain(r, r)
        /\ secrets'[r].suite = secrets[r].suite
    BY <1>20, <1>21
  <2>3. Accepted13(r)'
    <3>1. Accepted(r)' /\ RfcSuite(session'[r].suite).version = "1.3"
      <4>1. Accepted(r)'
        BY <2>2, TwoRoles DEF HsInv, ClientInv, ServerInv
      <4>2. session'[r] = session[r] /\ Accepted13(r)
        BY <1>21 DEF Rekeys
      <4>3. RfcSuite(session[r].suite).version = "1.3"
        BY <4>2, AcceptedSession DEF Accepted
      <4> QED
        BY <4>1, <4>2, <4>3
    <3> QED
      BY <1>20, <1>21, <3>1, <2>2
      DEF Accepted, Accepted12, Accepted13, Holds12, Negotiated, SuiteIn, Session12, Session13,
          Session, Secrets12
  <2>4. secrets'[r].traffic[r] = Chain(r, r)[n + 1]
    BY <2>1, <2>2, <2>3 DEF RatchetInv, RatchetAt
  <2> DEFINE f(k) == Installed(r, "update", u, TrafficCipher("rfc", u, Chain(r, r)[k]))
             base == {Installed(r, "handshake", u, HeldSchedule(r).hs_cipher[r]),
                      Installed(r, "application", u, HeldSchedule(r).ap_cipher[r])}
  <2>5. Written(r) = base \cup {f(k) : k \in 1 .. n}
    BY <2>2 DEF Written, Written13
  <2>6. Written(r)' = base \cup {f(k) : k \in 1 .. (n + 1)}
    BY <2>1, <2>2 DEF Written, Written13
  <2>7. New = f(n + 1)
    BY <2>4
  <2> HIDE DEF New, f, base, n
  <2>8. 1 .. (n + 1) = (1 .. n) \cup {n + 1}
    BY <2>1
  <2>9. Written(r)' = Written(r) \cup {New}
    BY <2>5, <2>6, <2>7, <2>8
  <2>10. Written(r) \subseteq installed
    BY <1>1, TwoRoles
  <2>11. installed' = installed \cup Written(r)'
    BY <2>1, <2>9, <2>10
  <2>12. SecretsOk(r)'
    BY <1>1, <2>2 DEF SecretsOk
  <2> QED
    BY <1>5, <2>2, <2>9, <2>11, <2>12
<1>22. ASSUME NEW r \in Roles, Follows(r) PROVE WrittenInv'
  <2>1. installed' = installed /\ updates'[r] = updates[r]
    BY <1>22 DEF Follows
  <2>2. Written(r)' = Written(r) /\ (secrets[r] # NoSecrets /\ SecretsOk(r) => SecretsOk(r)')
    BY <1>20, <1>22, <2>1, WrittenSame
  <2> QED
    BY <1>1, <1>5, <1>20, <1>22, <2>1, <2>2
<1>23. ASSUME NEW r \in Roles, Suffers(r) PROVE WrittenInv'
  BY <1>1, <1>4, <1>5, <1>23, TwoRoles DEF Suffers
<1> QED
  BY <1>10, <1>11, <1>12, <1>13, <1>14, <1>15, <1>16, <1>17, <1>18, <1>19, <1>21, <1>22, <1>23,
     StepEffects DEF Effects

-----------------------------------------------------------------------------
(* No two keys are the same                                                *)

\* Three pieces of input, one after another.
Joined(a, b, c) == (a \o b) \o c

\* FlattenSeq joins three pieces.
LEMMA FlattenThree ==
  ASSUME NEW a, NEW b, NEW c, NEW q, q = <<a, b, c>>
  PROVE  FlattenSeq(q) = Joined(a, b, c)
<1> DEFINE flatten == CHOOSE f : f = [k \in 1 .. 3 |-> IF k = 1 THEN q[k] ELSE f[k - 1] \o q[k]]
           g == [k \in 1 .. 3 |-> IF k = 1 THEN a ELSE IF k = 2 THEN a \o b ELSE (a \o b) \o c]
<1>1. Len(q) = 3 /\ q[1] = a /\ q[2] = b /\ q[3] = c
  OBVIOUS
<1>2. FlattenSeq(q) = flatten[3]
  BY <1>1 DEF FlattenSeq
<1>3. g = [k \in 1 .. 3 |-> IF k = 1 THEN q[k] ELSE g[k - 1] \o q[k]]
  <2>1. g[1] = a /\ g[2] = a \o b /\ g[3] = (a \o b) \o c
    OBVIOUS
  <2>2. \A k \in 1 .. 3 : g[k] = IF k = 1 THEN q[k] ELSE g[k - 1] \o q[k]
    <3> HIDE DEF g
    <3>1. \A k \in 1 .. 3 : k = 1 \/ (k = 2 /\ k - 1 = 1) \/ (k = 3 /\ k - 1 = 2)
      OBVIOUS
    <3> QED
      BY <1>1, <2>1, <3>1
  <2>3. g = [k \in 1 .. 3 |-> g[k]]
    OBVIOUS
  <2> HIDE DEF g
  <2> QED
    BY <2>2, <2>3
<1> HIDE DEF g
<1>4. flatten = [k \in 1 .. 3 |-> IF k = 1 THEN q[k] ELSE flatten[k - 1] \o q[k]]
  BY <1>3
<1> HIDE DEF flatten
<1>5. flatten[1] = q[1] /\ flatten[2] = flatten[1] \o q[2] /\ flatten[3] = flatten[2] \o q[3]
  <2>1. \A k \in 1 .. 3 : flatten[k] = IF k = 1 THEN q[k] ELSE flatten[k - 1] \o q[k]
    BY <1>4
  <2>2. 1 \in 1 .. 3 /\ 2 \in 1 .. 3 /\ 3 \in 1 .. 3 /\ 2 - 1 = 1 /\ 3 - 1 = 2
    OBVIOUS
  <2>3. flatten[1] = q[1]
    BY <2>1, <2>2
  <2> DEFINE P(k) == flatten[k] = flatten[k - 1] \o q[k]
  <2>4. \A k \in 1 .. 3 : k # 1 => P(k)
    BY <2>1
  <2> HIDE DEF P
  <2>5. P(2) /\ P(3)
    BY <2>2, <2>4
  <2> QED
    BY <2>2, <2>3, <2>5 DEF P
<1> QED
  BY <1>1, <1>2, <1>5 DEF Joined

\* The label that a derived secret names.
LabelOf(okm) == okm[1].of.info[2].of.name

\* The input to a derivation names its label.
LEMMA InfoNames ==
  ASSUME NEW len, NEW label, NEW context, IsSeq(context)
  PROVE  FlattenSeq(Label(len, label, context))[2].of.name = label
<1> DEFINE n == Number(len)
           t == Text(label)
           p == n \o t
<1>1. Label(len, label, context) = <<n, t, context>>
  BY DEF Label
<1>2. IsSeq(n) /\ Len(n) = 1 /\ IsSeq(t) /\ Len(t) = 1
  BY ShortSeq DEF Number, Text, Slice
<1>3. t[1].of.name = label
  BY DEF Text, Slice
<1> HIDE DEF n, t
<1>4. FlattenSeq(Label(len, label, context)) = p \o context
  <2>1. FlattenSeq(Label(len, label, context)) = Joined(n, t, context)
    BY <1>1, FlattenThree
  <2> QED
    BY <2>1 DEF Joined
<1>5. /\ IsSeq(p) /\ Len(p) = Len(n) + Len(t)
      /\ \A k \in 1 .. Len(n) + Len(t) : p[k] = IF k <= Len(n) THEN n[k] ELSE t[k - Len(n)]
  BY <1>2, JoinSeq
<1>6. Len(p) = 2 /\ p[2] = t[1]
  BY <1>2, <1>5
<1> HIDE DEF p
<1>7. /\ Len(context) \in Nat
      /\ \A k \in 1 .. Len(p) + Len(context) :
           (p \o context)[k] = IF k <= Len(p) THEN p[k] ELSE context[k - Len(p)]
  BY <1>5, JoinSeq
<1>8. (p \o context)[2] = p[2]
  BY <1>6, <1>7
<1> QED
  BY <1>1, <1>3, <1>4, <1>6, <1>8

\* A derived secret tells its label and what it was derived from.
LEMMA SecretTells ==
  ASSUME NEW i \in Impls, NEW h \in Hashes, NEW okm, NEW label, NEW context, IsSeq(context)
  PROVE  LET x == DeriveBlock(i, WolfHkdfExpander(okm, h), label, context)
         IN  LabelOf(x) = label /\ x[1].of.prk = okm
<1> DEFINE info == FlattenSeq(Label(hash_len(h), label, context))
<1>1. DeriveBlock(i, WolfHkdfExpander(okm, h), label, context) =
        hkdf_expand(h, okm, info, hash_len(h))
  BY BlockSame
<1>2. info[2].of.name = label
  BY InfoNames
<1> HIDE DEF info
<1>3. /\ hkdf_expand(h, okm, info, hash_len(h))[1].of.info = info
      /\ hkdf_expand(h, okm, info, hash_len(h))[1].of.prk = okm
  BY DEF hkdf_expand, Slice
<1> QED
  BY <1>1, <1>2, <1>3 DEF LabelOf

\* A chain of secrets: all but the first are of the label of a key update, and
\* each of them tells the one before it.
Linked(f) ==
  /\ LabelOf(f[0]) # "traffic upd"
  /\ \A n \in Nat : LabelOf(f[n + 1]) = "traffic upd" /\ f[n + 1][1].of.prk = f[n]

\* Arithmetic of the number before.
LEMMA Before == \A k \in Nat : k # 0 => k - 1 \in Nat /\ (k - 1) + 1 = k
OBVIOUS

\* A secret of a linked chain names the secret before it.
LEMMA LinkedStep ==
  ASSUME NEW f, Linked(f), NEW k \in Nat, k # 0
  PROVE  LabelOf(f[k]) = "traffic upd" /\ f[k][1].of.prk = f[k - 1]
<1>1. \A n \in Nat : LabelOf(f[n + 1]) = "traffic upd" /\ f[n + 1][1].of.prk = f[n]
  BY DEF Linked
<1>2. k - 1 \in Nat /\ (k - 1) + 1 = k
  BY Before
<1>3. LabelOf(f[(k - 1) + 1]) = "traffic upd" /\ f[(k - 1) + 1][1].of.prk = f[k - 1]
  BY <1>1, <1>2
<1> QED
  BY <1>2, <1>3

\* Two chains meet nowhere, unless they start under the same label, and then only
\* at the same step.
LEMMA ChainsApart ==
  ASSUME NEW f, NEW g, Linked(f), Linked(g)
  PROVE  \A n, k \in Nat : f[n] = g[k] => n = k /\ LabelOf(f[0]) = LabelOf(g[0])
<1> DEFINE Meets(n) == \A k \in Nat : f[n] = g[k] => n = k /\ LabelOf(f[0]) = LabelOf(g[0])
           S == {n \in Nat : Meets(n)}
<1>1. Meets(0)
  <2> SUFFICES ASSUME NEW k \in Nat, f[0] = g[k] PROVE 0 = k
    OBVIOUS
  <2>1. k # 0 => LabelOf(g[k]) = "traffic upd"
    BY LinkedStep
  <2> QED
    BY <2>1 DEF Linked
<1>2. ASSUME NEW n \in Nat, Meets(n) PROVE Meets(n + 1)
  <2> SUFFICES ASSUME NEW k \in Nat, f[n + 1] = g[k]
               PROVE  n + 1 = k /\ LabelOf(f[0]) = LabelOf(g[0])
    OBVIOUS
  <2>1. n + 1 \in Nat /\ n + 1 # 0 /\ (n + 1) - 1 = n
    OBVIOUS
  <2>2. LabelOf(f[n + 1]) = "traffic upd" /\ f[n + 1][1].of.prk = f[n]
    BY <2>1 DEF Linked
  <2>3. k # 0
    BY <2>2 DEF Linked
  <2>4. g[k][1].of.prk = g[k - 1]
    BY <2>3, LinkedStep
  <2>5. k - 1 \in Nat /\ (k - 1) + 1 = k
    BY <2>3, Before
  <2>6. f[n] = g[k - 1]
    BY <2>2, <2>4
  <2>7. n = k - 1 /\ LabelOf(f[0]) = LabelOf(g[0])
    BY <1>2, <2>5, <2>6
  <2> QED
    BY <2>5, <2>7
<1> HIDE DEF Meets
<1>3. 0 \in S /\ \A n \in S : n + 1 \in S
  BY <1>1, <1>2
<1>4. S \subseteq Nat
  OBVIOUS
<1> HIDE DEF S
<1>5. S = Nat
  BY <1>3, <1>4, Induction
<1>6. \A n \in Nat : Meets(n)
  BY <1>5 DEF S
<1> QED
  BY <1>6 DEF Meets

\* The labels of the traffic secrets of a role.
HsLabel(r) == IF r = "client" THEN "c hs traffic" ELSE "s hs traffic"
ApLabel(r) == IF r = "client" THEN "c ap traffic" ELSE "s ap traffic"

\* The first secrets of a schedule name their labels.
LEMMA ScheduleLabels ==
  ASSUME NEW m, m[2].suite \in AllSuites, NEW dh, NEW r \in Roles
  PROVE  /\ LabelOf(Schedule(dh, m).hs[r]) = HsLabel(r)
         /\ LabelOf(Schedule(dh, m).ap[r]) = ApLabel(r)
<1> DEFINE s == SuiteIn(m)
           two == Hash(s.hash_provider, SubSeq(m, 1, 2))
           all == Hash(s.hash_provider, m)
<1>1. "rfc" \in Impls /\ s.kdf \in Hashes
  BY SuiteTyped DEF SuiteIn, Impls
<1>2. PICK a : MasterSecret("rfc", s, dh) = WolfHkdfExpander(a, s.kdf)
  BY <1>1, MasterSecretSame
<1>3. PICK b : HandshakeSecret("rfc", s, dh) = WolfHkdfExpander(b, s.kdf)
  BY <1>1, HandshakeSecretSame
<1>4. IsSeq(two) /\ IsSeq(all)
  BY ShortSeq DEF Hash, Slice
<1>5. /\ Schedule(dh, m).hs[r] = DeriveBlock("rfc", WolfHkdfExpander(b, s.kdf), HsLabel(r), two)
      /\ Schedule(dh, m).ap[r] = DeriveBlock("rfc", WolfHkdfExpander(a, s.kdf), ApLabel(r), all)
  <2>1. Schedule(dh, m).hs = HandshakeTraffic("rfc", s, dh, m)
        /\ Schedule(dh, m).ap = ApplicationTraffic("rfc", s, dh, m)
    BY DEF Schedule, Schedule13
  <2>2. HandshakeTraffic("rfc", s, dh, m)[r] =
          DeriveBlock("rfc", HandshakeSecret("rfc", s, dh), HsLabel(r), two)
    <3>1. CASE r = "client"
      BY <3>1 DEF HandshakeTraffic, TrafficSecret, HsLabel
    <3>2. CASE r = "server"
      BY <3>2 DEF HandshakeTraffic, TrafficSecret, HsLabel
    <3> QED
      BY <3>1, <3>2 DEF Roles
  <2>3. ApplicationTraffic("rfc", s, dh, m)[r] =
          DeriveBlock("rfc", MasterSecret("rfc", s, dh), ApLabel(r), all)
    <3>1. CASE r = "client"
      BY <3>1 DEF ApplicationTraffic, TrafficSecret, ApLabel
    <3>2. CASE r = "server"
      BY <3>2 DEF ApplicationTraffic, TrafficSecret, ApLabel
    <3> QED
      BY <3>1, <3>2 DEF Roles
  <2> QED
    BY <1>2, <1>3, <2>1, <2>2, <2>3
<1> HIDE DEF s, two, all
<1>6. \A label :
        /\ LabelOf(DeriveBlock("rfc", WolfHkdfExpander(b, s.kdf), label, two)) = label
        /\ LabelOf(DeriveBlock("rfc", WolfHkdfExpander(a, s.kdf), label, all)) = label
  BY <1>1, <1>4, SecretTells
<1> QED
  BY <1>5, <1>6

\* The next traffic secret names the one it is derived from.
LEMMA NextTells ==
  ASSUME NEW s, s.kdf \in Hashes, NEW okm
  PROVE  /\ LabelOf(NextTrafficSecret("rfc", s, okm)) = "traffic upd"
         /\ NextTrafficSecret("rfc", s, okm)[1].of.prk = okm
<1>1. "rfc" \in Impls /\ IsSeq(<<>>)
  BY EmptyIsSeq DEF Impls
<1>2. \A label : LET x == DeriveBlock("rfc", WolfHkdfExpander(okm, s.kdf), label, <<>>)
                 IN  LabelOf(x) = label /\ x[1].of.prk = okm
  BY <1>1, SecretTells
<1>3. NextTrafficSecret("rfc", s, okm) =
        DeriveBlock("rfc", WolfHkdfExpander(okm, s.kdf), "traffic upd", <<>>)
  BY <1>1, OkmSame DEF NextTrafficSecret
<1> QED
  BY <1>2, <1>3

\* A key of TLS 1.3 tells the traffic secret it is from.
LEMMA KeyTells13 ==
  ASSUME NEW s, s.kdf \in Hashes, s.aead_alg \in Aeads, s.version = "1.3", NEW okm
  PROVE  LET key13 == WireKey(s, TrafficCipher("rfc", s, okm)).key
         IN  key13[1].of.prk = okm /\ DOMAIN key13[1].of = {"hkdf", "prk", "info"}
<1> DEFINE cipher == TrafficCipher("rfc", s, okm)
<1>1. "rfc" \in Impls
  BY DEF Impls
<1>2. cipher.key = TrafficKey("rfc", s, okm)
  BY <1>1, TrafficCipherMade
<1>3. WireKey(s, cipher) = cipher
  BY DEF WireKey
<1>4. PICK info, len : TrafficKey("rfc", s, okm) = hkdf_expand(s.kdf, okm, info, len)
  BY <1>1, TrafficKeys
<1>5. /\ hkdf_expand(s.kdf, okm, info, len)[1].of.prk = okm
      /\ DOMAIN hkdf_expand(s.kdf, okm, info, len)[1].of = {"hkdf", "prk", "info"}
  BY DEF hkdf_expand, Slice
<1> HIDE DEF cipher
<1> QED
  BY <1>2, <1>3, <1>4, <1>5 DEF cipher

\* A key of TLS 1.2 tells whose it is.
LEMMA KeyTells12 ==
  ASSUME NEW s, s.aead_alg \in Aeads, s.version = "1.2", NEW ms, NEW cr, NEW sr, NEW r \in Roles
  PROVE  LET key12 == WireKey(s, Write12(s, KeyBlock("rfc", s, ms, cr, sr), r)).key
         IN  /\ DOMAIN key12[1].of = {"prf", "secret", "seed"}
             /\ (key12[1].at = 0) <=> (r = "client")
<1> DEFINE t == BlockTerm(s, ms, cr, sr)
           a == s.aead_alg
           b == Cut(a, t)
           w == Write12(s, b, r)
<1>1. KeyBlock("rfc", s, ms, cr, sr) = b
  BY BlockCut DEF Impls
<1>2. DOMAIN t = {"prf", "secret", "seed"}
  BY DEF BlockTerm
<1>3. /\ b[r].key = Slice(t, IF r = "client" THEN 0 ELSE RfcShape(a).enc_key_len,
                          RfcShape(a).enc_key_len)
      /\ RfcShape(a).enc_key_len \in Nat /\ RfcShape(a).enc_key_len # 0
  BY DEF Cut, Roles, RfcShape
<1> HIDE DEF t
<1>4. w # NoCipher /\ WireKey(s, w).key = w.key
  BY Ciphers12
<1> HIDE DEF b
<1>5. w.key = b[r].key
  BY <1>4 DEF Write12, Tls12Encrypter, Tls12GcmEncrypter, ChachaCipher
<1> HIDE DEF w
<1>6. b[r].key[1].of = t /\ (b[r].key[1].at = 0 <=> r = "client")
  BY <1>3 DEF Slice, Roles
<1> QED
  BY <1>1, <1>2, <1>4, <1>5, <1>6 DEF w

\* What is written with under TLS 1.3 is of the handshake, or of a step of the chain.
Step13(r, n) ==
  Installed(r, IF n = 0 THEN "application" ELSE "update", HeldSuite(r),
            TrafficCipher("rfc", HeldSuite(r), Chain(r, r)[n]))
Early13(r) ==
  Installed(r, "handshake", HeldSuite(r), TrafficCipher("rfc", HeldSuite(r), HeldSchedule(r).hs[r]))

\* What an end has written with: the handshake key or a secret of its ratchet under
\* TLS 1.3, its half of the key block under TLS 1.2.
LEMMA WrittenIs ==
  ASSUME HsInv, WrittenInv, NEW r \in Roles, NEW x \in Written(r)
  PROVE  /\ secrets[r].suite \in AllSuites
         /\ \/ HeldSuite(r).version = "1.3" /\ x = Early13(r)
            \/ HeldSuite(r).version = "1.3" /\ \E n \in Nat : x = Step13(r, n)
            \/ /\ HeldSuite(r).version = "1.2"
               /\ DOMAIN x.cipher.key[1].of = {"prf", "secret", "seed"}
               /\ (x.cipher.key[1].at = 0) <=> (r = "client")
               /\ Written(r) = {x}
<1> DEFINE s == HeldSuite(r)
           k == HeldSchedule(r)
<1>1. secrets[r] # NoSecrets /\ SecretsOk(r)
  BY DEF Written, WrittenInv
<1>2. /\ secrets[r].suite \in AllSuites /\ s.kdf \in Hashes /\ s.aead_alg \in Aeads
      /\ s.version \in {"1.3", "1.2"}
  BY <1>1, SuiteTyped DEF SecretsOk, HeldSuite
<1>3. CASE s.version = "1.3"
  <2>1. SuiteIn(HeldMsgs(r)) = s
    BY <1>1, <1>3 DEF SecretsOk, SuiteIn, HeldSuite
  <2>2. /\ k.hs_cipher[r] = TrafficCipher("rfc", s, k.hs[r])
        /\ k.ap_cipher[r] = TrafficCipher("rfc", s, k.ap[r])
    BY <2>1 DEF HeldSchedule, Schedule, Schedule13, Ciphers13
  <2>3. Chain(r, r)[0] = k.ap[r]
    <3> DEFINE b == k.ap[r]
    <3> HIDE DEF b, s
    <3>1. Ratchet(s, b)[0] = b
      BY RatchetSteps
    <3> QED
      BY <3>1 DEF Chain, b, s
  <2>4. x \in Written13(r)
    BY <1>1, <1>3 DEF Written
  <2>5. updates[r] \in Nat
    BY Lengths
  <2>6. \/ x = Installed(r, "handshake", s, k.hs_cipher[r])
        \/ x = Installed(r, "application", s, k.ap_cipher[r])
        \/ \E n \in 1 .. updates[r] :
             x = Installed(r, "update", s, TrafficCipher("rfc", s, Chain(r, r)[n]))
    BY <2>4 DEF Written13
  <2>7. CASE x = Installed(r, "handshake", s, k.hs_cipher[r])
    BY <1>2, <1>3, <2>2, <2>7 DEF Early13
  <2>8. CASE x = Installed(r, "application", s, k.ap_cipher[r])
    <3>1. x = Step13(r, 0)
      BY <2>2, <2>3, <2>8 DEF Step13
    <3> QED
      BY <1>2, <1>3, <3>1
  <2>9. CASE \E n \in 1 .. updates[r] :
               x = Installed(r, "update", s, TrafficCipher("rfc", s, Chain(r, r)[n]))
    <3>1. PICK n \in 1 .. updates[r] :
               x = Installed(r, "update", s, TrafficCipher("rfc", s, Chain(r, r)[n]))
      BY <2>9
    <3>2. n \in Nat /\ n # 0
      BY <2>5
    <3>3. x = Step13(r, n)
      BY <3>1, <3>2 DEF Step13
    <3> QED
      BY <1>2, <1>3, <3>2, <3>3
  <2> QED
    BY <2>6, <2>7, <2>8, <2>9
<1>4. CASE s.version = "1.2"
  <2> DEFINE b == KeyBlock("rfc", s, secrets[r].exporter, secrets[r].client_random,
                           secrets[r].server_random)
  <2>1. Written(r) = Written12(r) /\ secrets[r].block = b
    BY <1>1, <1>4 DEF Written, SecretsOk
  <2>2. Written(r) = {x} /\ x = Installed(r, "application", s, Write12(s, b, r))
    BY <2>1 DEF Written12
  <2>3. x.cipher = WireKey(s, Write12(s, b, r))
    BY <2>2 DEF Installed
  <2>4. /\ DOMAIN WireKey(s, Write12(s, b, r)).key[1].of = {"prf", "secret", "seed"}
        /\ (WireKey(s, Write12(s, b, r)).key[1].at = 0) <=> (r = "client")
    <3> DEFINE ms == secrets[r].exporter
               cr == secrets[r].client_random
               sr == secrets[r].server_random
    <3>1. b = KeyBlock("rfc", s, ms, cr, sr)
      OBVIOUS
    <3> HIDE DEF b, ms, cr, sr, s
    <3> QED
      BY <1>2, <1>4, <3>1, KeyTells12
  <2> HIDE DEF b, s
  <2> QED
    BY <1>2, <1>4, <2>2, <2>3, <2>4 DEF s
<1> QED
  BY <1>2, <1>3, <1>4

\* What was written with is told apart by the key: the labels separate the two
\* stages and the two ends, the ratchet never comes back to a secret, and the halves
\* of a key block begin at different places.
LEMMA WrittenApart ==
  ASSUME HsInv, WrittenInv
  PROVE  KeysSeparated
<1> SUFFICES ASSUME NEW a \in installed, NEW b \in installed, a.cipher.key = b.cipher.key
             PROVE  a = b
  BY DEF KeysSeparated
<1>1. PICK r \in Roles : a \in Written(r)
  BY TwoRoles DEF WrittenInv
<1>2. PICK q \in Roles : b \in Written(q)
  BY TwoRoles DEF WrittenInv
<1>3. /\ secrets[r].suite \in AllSuites
      /\ \/ HeldSuite(r).version = "1.3" /\ a = Early13(r)
         \/ HeldSuite(r).version = "1.3" /\ \E n \in Nat : a = Step13(r, n)
         \/ /\ HeldSuite(r).version = "1.2" /\ DOMAIN a.cipher.key[1].of = {"prf", "secret", "seed"}
            /\ (a.cipher.key[1].at = 0) <=> (r = "client")
            /\ Written(r) = {a}
  BY <1>1, WrittenIs
<1>4. /\ secrets[q].suite \in AllSuites
      /\ \/ HeldSuite(q).version = "1.3" /\ b = Early13(q)
         \/ HeldSuite(q).version = "1.3" /\ \E n \in Nat : b = Step13(q, n)
         \/ /\ HeldSuite(q).version = "1.2" /\ DOMAIN b.cipher.key[1].of = {"prf", "secret", "seed"}
            /\ (b.cipher.key[1].at = 0) <=> (q = "client")
            /\ Written(q) = {b}
  BY <1>2, WrittenIs
<1>5. ASSUME NEW p \in Roles, secrets[p].suite \in AllSuites, HeldSuite(p).version = "1.3",
             NEW okm, NEW stage
      PROVE  LET x == Installed(p, stage, HeldSuite(p), TrafficCipher("rfc", HeldSuite(p), okm))
             IN  /\ x.cipher.key[1].of.prk = okm
                 /\ DOMAIN x.cipher.key[1].of # {"prf", "secret", "seed"}
  <2> DEFINE s == HeldSuite(p)
             w == WireKey(s, TrafficCipher("rfc", s, okm))
  <2>1. s.kdf \in Hashes /\ s.aead_alg \in Aeads
    BY <1>5, SuiteTyped DEF HeldSuite
  <2>2. w.key[1].of.prk = okm /\ DOMAIN w.key[1].of = {"hkdf", "prk", "info"}
    BY <1>5, <2>1, KeyTells13
  <2>3. {"hkdf", "prk", "info"} # {"prf", "secret", "seed"}
    OBVIOUS
  <2>4. Installed(p, stage, s, TrafficCipher("rfc", s, okm)).cipher = w
    BY DEF Installed
  <2> HIDE DEF w, s
  <2> QED
    BY <2>2, <2>3, <2>4 DEF s
<1>6. \A p \in Roles : secrets[p].suite \in AllSuites /\ HeldSuite(p).version = "1.3" =>
        /\ Early13(p).cipher.key[1].of.prk = HeldSchedule(p).hs[p]
        /\ DOMAIN Early13(p).cipher.key[1].of # {"prf", "secret", "seed"}
        /\ \A n \in Nat : /\ Step13(p, n).cipher.key[1].of.prk = Chain(p, p)[n]
                          /\ DOMAIN Step13(p, n).cipher.key[1].of # {"prf", "secret", "seed"}
  BY <1>5 DEF Early13, Step13
<1>7. ASSUME NEW p \in Roles, secrets[p] # NoSecrets, HeldSuite(p).version = "1.3"
      PROVE  /\ LabelOf(HeldSchedule(p).hs[p]) = HsLabel(p)
             /\ LabelOf(Chain(p, p)[0]) = ApLabel(p) /\ Linked(Chain(p, p))
  <2> DEFINE s == HeldSuite(p)
             k == HeldSchedule(p)
  <2>1. SecretsOk(p)
    BY <1>7 DEF WrittenInv
  <2>2. HeldMsgs(p)[2].suite \in AllSuites /\ s.kdf \in Hashes
    BY <1>7, <2>1, SuiteTyped DEF SecretsOk, HeldSuite
  <2>3. LabelOf(k.hs[p]) = HsLabel(p) /\ LabelOf(k.ap[p]) = ApLabel(p)
    BY <2>2, ScheduleLabels DEF HeldSchedule
  <2>4. Chain(p, p)[0] = k.ap[p]
    <3> DEFINE e == k.ap[p]
    <3> HIDE DEF e, s
    <3>1. Ratchet(s, e)[0] = e
      BY RatchetSteps
    <3> QED
      BY <3>1 DEF Chain, e, s
  <2>5. ASSUME NEW n \in Nat
        PROVE  /\ LabelOf(Chain(p, p)[n + 1]) = "traffic upd"
               /\ Chain(p, p)[n + 1][1].of.prk = Chain(p, p)[n]
    <3>1. Chain(p, p)[n + 1] = NextTrafficSecret("rfc", s, Chain(p, p)[n])
      BY ChainNext
    <3> DEFINE okm == Chain(p, p)[n]
    <3> HIDE DEF okm, s
    <3>2. /\ LabelOf(NextTrafficSecret("rfc", s, okm)) = "traffic upd"
          /\ NextTrafficSecret("rfc", s, okm)[1].of.prk = okm
      BY <2>2, NextTells
    <3> QED
      BY <3>1, <3>2 DEF okm
  <2>6. ApLabel(p) # "traffic upd"
    BY DEF ApLabel
  <2> QED
    BY <2>3, <2>4, <2>5, <2>6 DEF Linked
<1>8. secrets[r] # NoSecrets /\ secrets[q] # NoSecrets
  BY <1>1, <1>2 DEF Written
<1>9. \A p \in Roles : /\ HsLabel(p) # "traffic upd" /\ ApLabel(p) # "traffic upd"
                       /\ \A o \in Roles : HsLabel(p) # ApLabel(o)
                       /\ \A o \in Roles : HsLabel(p) = HsLabel(o) => p = o
                       /\ \A o \in Roles : ApLabel(p) = ApLabel(o) => p = o
  BY DEF HsLabel, ApLabel, Roles
<1>10. ASSUME NEW p \in Roles, NEW o \in Roles, NEW n \in Nat, secrets[p] # NoSecrets,
              secrets[o] # NoSecrets, HeldSuite(p).version = "1.3", HeldSuite(o).version = "1.3"
       PROVE  HeldSchedule(p).hs[p] # Chain(o, o)[n]
  <2> DEFINE g == Chain(o, o)
             h == HeldSchedule(p).hs[p]
  <2>1. LabelOf(h) = HsLabel(p)
    BY <1>7, <1>10
  <2>2. LabelOf(g[0]) = ApLabel(o) /\ Linked(g)
    BY <1>7, <1>10
  <2> HIDE DEF g, h
  <2>3. LabelOf(g[n]) = ApLabel(o) \/ LabelOf(g[n]) = "traffic upd"
    BY <2>2, LinkedStep
  <2>4. HsLabel(p) # ApLabel(o) /\ HsLabel(p) # "traffic upd"
    BY <1>9
  <2>5. h # g[n]
    BY <2>1, <2>3, <2>4
  <2> QED
    BY <2>5 DEF g, h
<1>11. CASE HeldSuite(r).version = "1.3" /\ HeldSuite(q).version = "1.3"
  <2>1. CASE a = Early13(r) /\ b = Early13(q)
    <3>1. HeldSchedule(r).hs[r] = HeldSchedule(q).hs[q]
      BY <1>3, <1>4, <1>6, <1>11, <2>1
    <3>2. LabelOf(HeldSchedule(r).hs[r]) = HsLabel(r) /\ LabelOf(HeldSchedule(q).hs[q]) = HsLabel(q)
      BY <1>7, <1>8, <1>11
    <3>3. r = q
      BY <1>9, <3>1, <3>2
    <3> QED
      BY <2>1, <3>3
  <2>2. ASSUME NEW n \in Nat, a = Early13(r), b = Step13(q, n) PROVE FALSE
    <3>1. HeldSchedule(r).hs[r] = Chain(q, q)[n]
      BY <1>3, <1>4, <1>6, <1>11, <2>2
    <3> QED
      BY <1>8, <1>10, <1>11, <3>1
  <2>3. ASSUME NEW n \in Nat, a = Step13(r, n), b = Early13(q) PROVE FALSE
    <3>1. HeldSchedule(q).hs[q] = Chain(r, r)[n]
      BY <1>3, <1>4, <1>6, <1>11, <2>3
    <3> QED
      BY <1>8, <1>10, <1>11, <3>1
  <2>4. ASSUME NEW n \in Nat, NEW k \in Nat, a = Step13(r, n), b = Step13(q, k) PROVE a = b
    <3>1. Chain(r, r)[n] = Chain(q, q)[k]
      BY <1>3, <1>4, <1>6, <1>11, <2>4
    <3> DEFINE f == Chain(r, r)
               g == Chain(q, q)
    <3>2. /\ LabelOf(f[0]) = ApLabel(r) /\ LabelOf(g[0]) = ApLabel(q)
          /\ Linked(f) /\ Linked(g) /\ f[n] = g[k]
      BY <1>7, <1>8, <1>11, <3>1
    <3> HIDE DEF f, g
    <3>4. n = k /\ LabelOf(f[0]) = LabelOf(g[0])
      BY <3>2, ChainsApart
    <3>5. r = q
      BY <1>9, <3>2, <3>4
    <3> QED
      BY <2>4, <3>4, <3>5
  <2> QED
    BY <1>3, <1>4, <1>11, <2>1, <2>2, <2>3, <2>4
<1>12. CASE HeldSuite(r).version = "1.2" /\ HeldSuite(q).version = "1.2"
  <2>1. /\ (a.cipher.key[1].at = 0) <=> (r = "client")
        /\ (b.cipher.key[1].at = 0) <=> (q = "client")
        /\ Written(r) = {a} /\ Written(q) = {b}
    BY <1>3, <1>4, <1>12
  <2>2. r = q
    BY <2>1 DEF Roles
  <2> QED
    BY <2>1, <2>2
<1>13. CASE HeldSuite(r).version = "1.3" /\ HeldSuite(q).version = "1.2"
  <2>1. DOMAIN a.cipher.key[1].of # {"prf", "secret", "seed"}
    BY <1>3, <1>6, <1>13
  <2> QED
    BY <1>4, <1>13, <2>1
<1>14. CASE HeldSuite(r).version = "1.2" /\ HeldSuite(q).version = "1.3"
  <2>1. DOMAIN b.cipher.key[1].of # {"prf", "secret", "seed"}
    BY <1>4, <1>6, <1>14
  <2> QED
    BY <1>3, <1>14, <2>1
<1> QED
  BY <1>3, <1>4, <1>11, <1>12, <1>13, <1>14

\* Every cipher that ever wrote is accounted for by what the two ends hold.
THEOREM WrittenKnown == Spec => []WrittenInv
<1>1. Init => WrittenInv
  <2> SUFFICES ASSUME Init PROVE WrittenInv
    OBVIOUS
  <2>1. \A r \in Roles : secrets[r] = NoSecrets
    BY DEF Init
  <2>2. installed = {} /\ \A r \in Roles : Written(r) = {}
    BY <2>1 DEF Init, Written
  <2> QED
    BY <2>1, <2>2, TwoRoles DEF WrittenInv
<1>2. HsInv /\ HsInv' /\ CountInv /\ RatchetInv /\ RatchetInv' /\ WrittenInv /\ [Next]_vars
        => WrittenInv'
  BY WrittenKept
<1> QED
  BY <1>1, <1>2, Invariant, SecretsReached, PTL DEF Spec

\* No two ciphers that ever wrote have the same key: not those of the two
\* directions, of handshake and application data, nor of two key updates, however
\* many there are.
THEOREM SeparateKeys == Spec => []KeysSeparated
<1>1. HsInv /\ WrittenInv => KeysSeparated
  BY WrittenApart
<1> QED
  BY <1>1, Invariant, WrittenKnown, PTL

-----------------------------------------------------------------------------
(* Undisturbed connections: what their course is                           *)

\* The last updates[r] flights on their way from r are its key updates, each
\* sealed under the secret before it.
SealAt(r) ==
  \A j \in 1 .. Len(inbox[Other(r)]) :
    LET n == updates[r] - (Len(inbox[Other(r)]) - j)
    IN  n > 0 => inbox[Other(r)][j] = KeyUpdate(HeldSuite(r), Chain(r, r)[n - 1])
\* As long as nothing is altered, key updates are on their way in the order in which
\* they were sent.
SealInv == altered = 0 => \A r \in Roles : SealAt(r)

\* An undisturbed connection, from the configuration alone: the client's exchange
\* and its hello, the suite the server picks and the scheme it signs with; ...
FirstBox == IF Speaks13(suites["client"]) THEN start(group, 1) ELSE None
OurHello == ClientHello("client", suites["client"], FirstBox)
Picked == Chosen(OurHello)
PickedSuite == RfcSuite(Picked)
Scheme == choose_scheme(Loaded, OfferedSchemes(OurHello, PickedSuite))
\* ... under TLS 1.3 the server's messages, the schedule of them, its flight and
\* the client's; ...
OurReply13 == ServerHello(Picked, start(group, 2))
OurSecret == complete(start(group, 2), start(group, 1).pub_key, TRUE).secret
OurMsgs13 == Messages13("rfc", PickedSuite, Scheme, OurSecret, <<OurHello, OurReply13>>)
OurSchedule == Schedule13("rfc", PickedSuite, OurSecret, OurMsgs13)
OurFlight13 ==
  Flight("server13", SubSeq(OurMsgs13, 2, 2),
         Sealed(PickedSuite, OurSchedule.hs_cipher["server"], SubSeq(OurMsgs13, 3, 5)))
OurFinished13 ==
  Flight("finished", <<>>,
         Sealed(PickedSuite, OurSchedule.hs_cipher["client"], <<OurSchedule.client_finished>>))

\* ... under TLS 1.2 the server's flight, the messages with the client's share, the
\* master secret, the key block, and the two Finished.
OurReply12 == ServerHello(Picked, None)
OurShares12 ==
  <<OurReply12, Certificate,
    ServerKeyExchange(start(group, 2), Scheme,
      sign([key |-> Loaded.key, scheme |-> Scheme],
           Params(OurHello, OurReply12, start(group, 2).pub_key), {}, 0, 0))>>
OurMsgs12 == <<OurHello>> \o OurShares12 \o <<ClientKeyExchange(start(group, 3))>>
OurMaster ==
  MasterSecret12("rfc", PickedSuite, start(group, 2), start(group, 3).pub_key, OurMsgs12)
OurBlock == KeyBlock("rfc", PickedSuite, OurMaster, fill("client"), fill("server"))
ClientFinished12 ==
  Finished(FinishedMac12("rfc", PickedSuite, OurMaster, "client finished", OurMsgs12))
OurMsgs12c == Append(OurMsgs12, ClientFinished12)
OurFinished12 ==
  Finished(FinishedMac12("rfc", PickedSuite, OurMaster, "server finished", OurMsgs12c))

\* Where the two ends are, and what is on its way to each.
At(c, s) == pc["client"] = c /\ pc["server"] = s
Boxes(c, s) == inbox["client"] = c /\ inbox["server"] = s
\* The phases of an undisturbed connection: before the hello, and the hello sent.
Starting == At("start", "start") /\ nextKey = 1 /\ Boxes(<<>>, <<>>)
Greeted ==
  /\ At("wait_server", "start") /\ nextKey = 2
  /\ Boxes(<<>>, <<Flight("hello", <<OurHello>>, NothingSealed)>>)
  /\ transcript["client"] = <<OurHello>> /\ kx["client"] = FirstBox
\* TLS 1.3: the server has answered; the client has accepted, and its key updates
\* may be on their way behind its Finished.
Replied13 ==
  /\ transcript["server"] = OurMsgs13 /\ secrets["server"].dh = OurSecret
  /\ secrets["server"].suite = Picked /\ PickedSuite.version = "1.3"
Answered13 ==
  /\ At("wait_server", "wait_finished") /\ Boxes(<<OurFlight13>>, <<>>)
  /\ transcript["client"] = <<OurHello>> /\ kx["client"] = FirstBox /\ Replied13
Agreed13 ==
  /\ At("connected", "wait_finished") /\ inbox["client"] = <<>>
  /\ inbox["server"] # <<>> /\ Head(inbox["server"]) = OurFinished13 /\ Replied13
\* TLS 1.2: the server has answered; the client has its keys and has sent its
\* Finished; the server has accepted and has sent its own.
Replied12 == transcript["server"] = <<OurHello>> \o OurShares12 /\ kx["server"] = start(group, 2)
Answered12 ==
  /\ At("wait_server", "wait_client") /\ nextKey = 3 /\ PickedSuite.version = "1.2"
  /\ Boxes(<<Flight("server12", OurShares12, NothingSealed)>>, <<>>)
  /\ transcript["client"] = <<OurHello>> /\ Replied12
Holding12 ==
  /\ transcript["client"] = OurMsgs12c /\ PickedSuite.version = "1.2"
  /\ secrets["client"] = Secrets12(Picked, OurBlock, OurMaster, fill("client"), fill("server"))
Agreed12 ==
  /\ At("wait_finished", "wait_client") /\ Holding12 /\ Replied12
  /\ Boxes(<<>>, <<Flight("client12", <<ClientKeyExchange(start(group, 3))>>,
                          Sealed(PickedSuite, Write12(PickedSuite, OurBlock, "client"),
                                 <<ClientFinished12>>))>>)
Confirmed12 ==
  /\ At("wait_finished", "connected") /\ Holding12 /\ secrets["server"].suite = Picked
  /\ Boxes(<<Flight("finished", <<>>,
                    Sealed(PickedSuite, Write12(PickedSuite, OurBlock, "server"),
                           <<OurFinished12>>))>>, <<>>)
\* Both ends are connected, with any number of key updates on their way.
Done == At("connected", "connected")
\* Ends that can connect and that nobody disturbs are in one of these phases: what
\* they send, accept and hold is what the configuration says, whichever of them is
\* this provider.
QuietInv ==
  Undisturbed /\ CanConnect =>
    \/ Starting \/ Greeted \/ Answered13 \/ Agreed13
    \/ Answered12 \/ Agreed12 \/ Confirmed12 \/ Done

-----------------------------------------------------------------------------
(* Key updates open                                                        *)

\* An end that has sent no key update.
LEMMA NoUpdatesSealed ==
  ASSUME HsInv', NEW r \in Roles, updates'[r] = 0
  PROVE  SealAt(r)'
<1> DEFINE o == Other(r)
<1>1. inbox'[o] \in Seq(Range(inbox'[o]))
  BY TwoRoles DEF HsInv, InboxInv, IsSeq
<1>2. Len(inbox'[o]) \in Nat
  BY <1>1
<1> QED
  BY <1>2 DEF SealAt

\* Key updates that are on their way stay as they were sealed, as others are read.
LEMMA SealKeptFor ==
  ASSUME HsInv, NEW r \in Roles, SealAt(r), updates'[r] = updates[r],
         transcript'[r] = transcript[r], session'[r] = session[r],
         secrets'[r].suite = secrets[r].suite, secrets'[r].dh = secrets[r].dh,
         Waits(Other(r)) \/ Takes(Other(r)) \/ inbox'[Other(r)] = <<>>
  PROVE  SealAt(r)'
<1> DEFINE o == Other(r)
           q == inbox[o]
           p == inbox'[o]
           u == HeldSuite(r)
           ch == Chain(r, r)
<1>1. HeldSuite(r)' = u /\ Chain(r, r)' = ch
  BY ChainKept
<1>2. q \in Seq(Range(q)) /\ updates[r] \in Nat
  BY TwoRoles DEF HsInv, InboxInv, IsSeq, HandshakeTypeOK
<1>3. \A j \in 1 .. Len(q) :
        updates[r] - (Len(q) - j) > 0 =>
          q[j] = KeyUpdate(u, ch[updates[r] - (Len(q) - j) - 1])
  BY DEF SealAt
<1>4. \A j \in 1 .. Len(p) :
        updates[r] - (Len(p) - j) > 0 =>
          p[j] = KeyUpdate(u, ch[updates[r] - (Len(p) - j) - 1])
  <2> HIDE DEF u, ch
  <2>1. CASE p = q
    BY <1>3, <2>1
  <2>2. CASE p = <<>>
    BY <2>2
  <2>3. CASE q # <<>> /\ p = Tail(q)
    <3>1. Len(q) \in Nat /\ Len(p) = Len(q) - 1 /\ \A j \in 1 .. Len(p) : p[j] = q[j + 1]
      BY <1>2, <2>3, HeadTailProperties
    <3> HIDE DEF p, q
    <3>2. ASSUME NEW j \in 1 .. Len(p), updates[r] - (Len(p) - j) > 0
          PROVE  p[j] = KeyUpdate(u, ch[updates[r] - (Len(p) - j) - 1])
      <4>1. /\ j + 1 \in 1 .. Len(q) /\ Len(q) - (j + 1) = Len(p) - j
        BY <1>2, <3>1
      <4> QED
        BY <1>3, <3>1, <3>2, <4>1
    <3> QED
      BY <3>2
  <2> QED
    BY <2>1, <2>2, <2>3 DEF Waits, Takes
<1> HIDE DEF u, ch
<1> QED
  BY <1>1, <1>4 DEF SealAt

\* The key updates of an end that rests.
LEMMA RestsSealed ==
  ASSUME HsInv, NEW r \in Roles, SealAt(r), Rests(r),
         Waits(Other(r)) \/ Takes(Other(r)) \/ inbox'[Other(r)] = <<>>
  PROVE  SealAt(r)'
BY SealKeptFor DEF Rests

\* A key update is sealed under the secret before it.
LEMMA RekeysSealed ==
  ASSUME HsInv, RatchetInv, NEW r \in Roles, SealAt(r), Rekeys(r)
  PROVE  SealAt(r)'
<1> DEFINE o == Other(r)
           u == HeldSuite(r)
           ch == Chain(r, r)
           t == secrets[r].traffic[r]
           n == updates[r]
           q == inbox[o]
           p == inbox'[o]
<1>1. /\ transcript'[r] = transcript[r] /\ session'[r] = session[r] /\ Accepted13(r)
      /\ updates'[r] = n + 1 /\ p = Append(q, KeyUpdate(u, t))
      /\ secrets'[r] = [secrets[r] EXCEPT !.traffic[r] = NextTrafficSecret("rfc", u, t)]
  BY DEF Rekeys, HeldSuite, Gets
<1>2. session[r] # NoSession /\ secrets[r].suite \in AllSuites
  BY <1>1, AcceptedSession DEF Accepted
<1>3. DOMAIN secrets[r] = {"suite", "traffic", "exporter", "dh", "block", "client_random",
                           "server_random"}
  <2>1. secrets[r] # NoSecrets
    BY <1>2, NoSuiteIsNone DEF NoSecrets
  <2> QED
    BY <2>1 DEF HsInv, StateOk
<1>4. secrets'[r].suite = secrets[r].suite /\ secrets'[r].dh = secrets[r].dh
  BY <1>1, <1>3
<1>5. HeldSuite(r)' = u /\ Chain(r, r)' = ch
  BY <1>1, <1>4, ChainKept
<1>6. t = ch[n]
  BY <1>1, <1>2 DEF RatchetInv, RatchetAt
<1>7. q \in Seq(Range(q)) /\ n \in Nat
  BY TwoRoles DEF HsInv, InboxInv, IsSeq, HandshakeTypeOK
<1>8. \A j \in 1 .. Len(q) :
        n - (Len(q) - j) > 0 => q[j] = KeyUpdate(u, ch[n - (Len(q) - j) - 1])
  BY DEF SealAt
<1> DEFINE f == KeyUpdate(u, t)
<1>9. /\ Len(q) \in Nat /\ Len(p) = Len(q) + 1 /\ p[Len(q) + 1] = f
      /\ \A j \in 1 .. Len(q) : p[j] = q[j]
  <2>1. q \in Seq(Range(q) \cup {f}) /\ f \in Range(q) \cup {f}
    BY <1>7
  <2> HIDE DEF f
  <2> QED
    BY <1>1, <1>7, <2>1, AppendProperties DEF f
<1>10. f = KeyUpdate(u, ch[n])
  BY <1>6
<1> HIDE DEF u, ch, f, p, q, n
<1>11. ASSUME NEW j \in 1 .. Len(p), (n + 1) - (Len(p) - j) > 0
       PROVE  p[j] = KeyUpdate(u, ch[(n + 1) - (Len(p) - j) - 1])
  <2>1. CASE j = Len(q) + 1
    <3>1. (n + 1) - (Len(p) - j) - 1 = n
      BY <1>7, <1>9, <2>1
    <3> QED
      BY <1>9, <1>10, <2>1, <3>1
  <2>2. CASE j \in 1 .. Len(q)
    <3>1. (n + 1) - (Len(p) - j) = n - (Len(q) - j)
      BY <1>7, <1>9, <2>2
    <3> QED
      BY <1>8, <1>9, <1>11, <2>2, <3>1
  <2> QED
    BY <1>9, <1>11, <2>1, <2>2
<1> QED
  BY <1>1, <1>5, <1>11 DEF SealAt, p

\* Reading a key update leaves the chain of its own that r knows.
LEMMA FollowsSealed ==
  ASSUME HsInv, NEW r \in Roles, SealAt(r), Follows(r)
  PROVE  SealAt(r)'
<1> DEFINE o == Other(r)
           v == NextTrafficSecret("rfc", HeldSuite(r), secrets[r].traffic[o])
<1>1. /\ transcript'[r] = transcript[r] /\ session'[r] = session[r] /\ Accepted13(r)
      /\ updates'[r] = updates[r] /\ Waits(o)
      /\ secrets'[r] = [secrets[r] EXCEPT !.traffic[o] = v]
  BY DEF Follows, HeldSuite
<1>2. session[r] # NoSession /\ secrets[r].suite \in AllSuites
  BY <1>1, AcceptedSession DEF Accepted
<1>3. DOMAIN secrets[r] = {"suite", "traffic", "exporter", "dh", "block", "client_random",
                           "server_random"}
  <2>1. secrets[r] # NoSecrets
    BY <1>2, NoSuiteIsNone DEF NoSecrets
  <2> QED
    BY <2>1 DEF HsInv, StateOk
<1> HIDE DEF v
<1>4. secrets'[r].suite = secrets[r].suite /\ secrets'[r].dh = secrets[r].dh
  BY <1>1, <1>3
<1> QED
  BY <1>1, <1>4, SealKeptFor

\* Every step keeps the key updates in order.
LEMMA SealKept ==
  ASSUME HsInv, HsInv', CountInv, RatchetInv, SealInv, [Next]_vars
  PROVE  SealInv'
<1> DEFINE c == "client"
           s == "server"
<1>1. CASE altered' # 0
  BY <1>1 DEF SealInv
<1>2. CASE altered' = 0
  <2>1. altered' = altered /\ Effects
    BY <1>2, StepEffects DEF Suffers
  <2>2. \A r \in Roles : SealAt(r)
    BY <1>2, <2>1 DEF SealInv
  <2>3. (\A r \in Roles : SealAt(r)') => SealInv'
    BY DEF SealInv
  <2>4. \A r \in Roles : updates'[r] = 0 => SealAt(r)'
    BY NoUpdatesSealed
  <2>5. /\ pc[s] \in {"start", "wait_client"} => session[c] = NoSession
        /\ pc[c] \in {"start", "wait_server"} => session[s] = NoSession
        /\ \A r \in Roles : pc[r] \in {"start", "wait_server", "wait_client", "wait_finished"} =>
              session[r] = NoSession
    BY DEF HsInv, OrderInv
  <2>6. \A r \in Roles : session[r] = NoSession => updates[r] = 0
    BY DEF CountInv
  <2>7. pc[s] \in {"start", "wait_client"} \/ pc[c] \in {"start", "wait_server"} =>
          updates[c] = 0 /\ updates[s] = 0
    BY <2>5, <2>6, TwoRoles
  <2>8. CASE Rest
    BY <2>2, <2>3, <2>8, RestsSealed, TwoRoles DEF Rest
  <2>9. CASE Greets \/ Answers12 \/ Agrees12 \/ Accepts12
    <3>1. updates'[c] = 0 /\ updates'[s] = 0
      BY <2>7, <2>9 DEF Greets, Answers12, Agrees12, Accepts12, Rests
    <3> QED
      BY <2>3, <2>4, <3>1, TwoRoles
  <2>10. ASSUME NEW dh, NEW m, Answers13(dh, m) \/ Agrees13(dh, m) PROVE SealInv'
    <3>1. updates'[c] = 0 /\ updates'[s] = 0
      BY <2>7, <2>10 DEF Answers13, Agrees13, Rests
    <3> QED
      BY <2>3, <2>4, <3>1, TwoRoles
  <2>11. CASE Confirms12
    <3>1. updates'[c] = 0 /\ Rests(s) /\ Takes(c)
      BY <2>5, <2>6, <2>11, TwoRoles DEF Confirms12
    <3> QED
      BY <2>2, <2>3, <2>4, <3>1, RestsSealed, TwoRoles
  <2>12. ASSUME NEW dh, NEW m, Confirms13(dh, m) PROVE SealInv'
    <3>1. updates'[s] = 0 /\ Rests(c) /\ Takes(s)
      BY <2>5, <2>6, <2>12, TwoRoles DEF Confirms13
    <3> QED
      BY <2>2, <2>3, <2>4, <3>1, RestsSealed, TwoRoles
  <2>13. ASSUME NEW r \in Roles, Stops(r) PROVE SealInv'
    <3>1. SealAt(r)'
      BY <2>2, <2>13, SealKeptFor DEF Stops
    <3>2. SealAt(Other(r))'
      BY <2>2, <2>13, RestsSealed, TwoRoles DEF Stops
    <3> QED
      BY <2>3, <3>1, <3>2, TwoRoles
  <2>14. ASSUME NEW r \in Roles, Rekeys(r) PROVE SealInv'
    <3>1. SealAt(r)'
      BY <2>2, <2>14, RekeysSealed
    <3>2. SealAt(Other(r))'
      BY <2>2, <2>14, RestsSealed, TwoRoles DEF Rekeys
    <3> QED
      BY <2>3, <3>1, <3>2, TwoRoles
  <2>15. ASSUME NEW r \in Roles, Follows(r) PROVE SealInv'
    <3>1. SealAt(r)'
      BY <2>2, <2>15, FollowsSealed
    <3>2. SealAt(Other(r))'
      BY <2>2, <2>15, RestsSealed, TwoRoles DEF Follows
    <3> QED
      BY <2>3, <3>1, <3>2, TwoRoles
  <2> QED
    BY <2>1, <2>8, <2>9, <2>10, <2>11, <2>12, <2>13, <2>14, <2>15 DEF Effects
<1> QED
  BY <1>1, <1>2

\* Whoever is connected opens every key update that nobody altered.
LEMMA UpdateOpens ==
  ASSUME HsInv, RatchetInv, SealInv, altered = 0, NEW r \in Roles,
         pc[r] = "connected", Pending(r, "key_update")
  PROVE  Opens(MySuite(r), Reader(r), Head(inbox[r]).sealed)
<1> DEFINE o == Other(r)
           flight == Head(inbox[r])
           m == Front(transcript[r])
           x == session[r].suite
           s == RfcSuite(x)
<1>1. StateOk /\ InboxInv /\ AgreeInv /\ o \in Roles /\ Other(o) = r
  BY TwoRoles DEF HsInv
<1>2. inbox[r] # <<>> /\ flight.kind = "key_update"
  BY DEF Pending
<1>3. Accepted13(o)
  <2>1. FlightOk(r, flight)
    BY <1>1, <1>2, FirstFlight
  <2> QED
    BY <1>2, <2>1 DEF FlightOk, ClearOk
<1>4. /\ session[o] # NoSession /\ RfcSuite(session[o].suite).version = "1.3"
      /\ secrets[o].suite = session[o].suite
  BY <1>1, <1>3, AcceptedSession DEF Accepted
<1>5. /\ session[r] # NoSession /\ MySuite(r) = s /\ x \in AllSuites
      /\ Accepted13(r) <=> MySuite(r).version = "1.3"
      /\ secrets[r].suite = x /\ impl[r] \in Impls
  BY ConnectedAccepted
<1>6. /\ session["client"] = session["server"]
      /\ Front(transcript["client"]) = Front(transcript["server"])
  BY <1>1, <1>4, <1>5, TwoRoles DEF AgreeInv, Both
<1>7. session[r] = session[o] /\ Front(transcript[o]) = m
  BY <1>6 DEF Roles, Other
<1>8. Accepted13(r) /\ s.version = "1.3" /\ secrets[o].suite = x
  BY <1>4, <1>5, <1>7
<1>9. s.kdf \in Hashes /\ s.aead_alg \in Aeads
  BY <1>5, SuiteTyped
<1>10. Schedule(secrets[r].dh, m).ap = Schedule(secrets[o].dh, m).ap
  <2>1. /\ m[2].suite \in AllSuites
        /\ secrets[r].exporter = Schedule(secrets[r].dh, m).exporter
        /\ secrets[o].exporter = Schedule(secrets[o].dh, m).exporter
    BY <1>3, <1>7, <1>8 DEF Accepted13, Negotiated
  <2>2. session[r].exporter = secrets[r].exporter /\ session[o].exporter = secrets[o].exporter
    BY <1>1, <1>3, <1>8, AcceptedSession DEF Accepted
  <2>3. Schedule(secrets[r].dh, m).exporter = Schedule(secrets[o].dh, m).exporter
    BY <1>7, <2>1, <2>2
  <2> DEFINE d == secrets[r].dh
             e == secrets[o].dh
  <2> HIDE DEF m, d, e
  <2>4. Schedule(d, m).ap = Schedule(e, m).ap
    BY <2>1, <2>3, ApSame DEF d, e
  <2> QED
    BY <2>4 DEF d, e
<1>11. /\ HeldMsgs(r) = m /\ HeldMsgs(o) = m /\ HeldSuite(r) = s /\ HeldSuite(o) = s
  BY <1>4, <1>5, <1>7, <1>8 DEF HeldMsgs, HeldSuite
<1>12. Chain(r, o) = Chain(o, o)
  BY <1>10, <1>11 DEF Chain, HeldSchedule
<1> DEFINE q == inbox[r]
           n == updates[o] - Len(q)
           t == secrets[r].traffic[o]
<1>13. Len(q) \in Nat /\ updates[o] \in Nat /\ Len(q) # 0
  BY <1>1, <1>2, Lengths
<1>14. Len(q) <= updates[o] /\ t = Chain(r, o)[n]
  BY <1>5, <1>8 DEF RatchetInv, RatchetAt
<1>15. q[1] = KeyUpdate(s, Chain(o, o)[n])
  <2>1. \A j \in 1 .. Len(q) :
          updates[o] - (Len(q) - j) > 0 =>
            q[j] = KeyUpdate(s, Chain(o, o)[updates[o] - (Len(q) - j) - 1])
    BY <1>1, <1>11 DEF SealInv, SealAt
  <2>2. 1 \in 1 .. Len(q) /\ updates[o] - (Len(q) - 1) > 0 /\ updates[o] - (Len(q) - 1) - 1 = n
    BY <1>13, <1>14
  <2> HIDE DEF n, q, s
  <2> QED
    BY <2>1, <2>2
<1>16. flight = q[1]
  BY <1>2, TailSeq DEF HsInv, InboxInv
<1>17. flight.sealed.by = WireKey(s, TrafficCipher("rfc", s, t))
  <2>1. flight = KeyUpdate(s, t)
    BY <1>12, <1>14, <1>15, <1>16
  <2> HIDE DEF flight, s, t
  <2> QED
    BY <2>1 DEF KeyUpdate, Flight, Sealed
<1>18. Reader(r) = TrafficCipher("rfc", s, t)
  <2>1. Reader(r) = TrafficCipher(impl[r], s, t)
    BY <1>5, <1>8 DEF Reader
  <2> HIDE DEF s, t
  <2> QED
    BY <1>5, <1>9, <2>1, TrafficCipherMade
<1> QED
  BY <1>5, <1>17, <1>18 DEF Opens

-----------------------------------------------------------------------------
(* What the server picks, and that it can sign                             *)

\* What load_private_key makes of a server's key: it is taken for the algorithm
\* it is of, except that an X25519 key is taken for an Ed25519 key.
LEMMA KeyTaken ==
  ASSUME NEW k \in ServerKeys
  PROVE  LET l == LoadedFrom(k)
             scheme == x963_len_to_scheme(X963Len(k.param))
         IN  \/ k.alg = "ECDSA" /\ l.alg = "ECDSA" /\ l.scheme = scheme /\ scheme # None
             \/ k.alg = "RSA" /\ l.alg = "RSA"
             \/ k.alg \in {"ED25519", "X25519"} /\ l.alg = "ED25519" /\ l.scheme = "ED25519"
<1> DEFINE der == [label |-> "Pkcs8", bytes |-> "pkcs8", key |-> k]
           ec == ecdsa_try_from(der, 1 \notin {})
           rsa == rsa_try_from(der, 2 \notin {})
           ed == eddsa_try_from(der, 3 \notin {})
           attempts == <<[alg |-> "ECDSA", result |-> ec], [alg |-> "RSA", result |-> rsa],
                         [alg |-> "ED25519", result |-> ed]>>
           loaded == {i \in DOMAIN attempts : attempts[i].result.ok}
           first == attempts[Min(loaded)]
           scheme == x963_len_to_scheme(X963Len(k.param))
<1>1. ec.ok => k.alg = "ECDSA" /\ ec.scheme = scheme /\ scheme # None
  <2>1. /\ der.key = k /\ der.bytes = "pkcs8"
    OBVIOUS
  <2>2. \A d \in Sec1Bytes(der) : d.bytes # "junk" /\ d.key.alg = "ECDSA" => k.alg = "ECDSA"
    BY DEF Sec1Bytes
  <2> HIDE DEF der
  <2> QED
    BY <2>1, <2>2 DEF ecdsa_try_from, Ok, Err
<1>2. rsa.ok => k.alg = "RSA"
  BY DEF rsa_try_from, Ok, Err
<1>3. ed.ok => k.alg \in {"ED25519", "X25519"} /\ ed.scheme = "ED25519"
  BY DEF eddsa_try_from, Ok, Err, HasEd25519Octets
<1> HIDE DEF ec, rsa, ed, scheme
<1>4. /\ DOMAIN attempts = 1 .. 3
      /\ attempts[1] = [alg |-> "ECDSA", result |-> ec]
      /\ attempts[2] = [alg |-> "RSA", result |-> rsa]
      /\ attempts[3] = [alg |-> "ED25519", result |-> ed]
  OBVIOUS
<1>5. LoadedFrom(k) = IF loaded = {} THEN None
                      ELSE [alg |-> first.alg, key |-> first.result.key,
                            scheme |-> first.result.scheme]
  BY DEF LoadedFrom, load_private_key, ec, rsa, ed
<1>6. LoadedFrom(k) # None
  BY ServerKeyAssumption
<1> HIDE DEF attempts
<1>7. loaded # {} /\ loaded \subseteq 1 .. 3
  BY <1>4, <1>5, <1>6
<1>8. Min(loaded) \in loaded
  BY <1>7, MinIsLeast
<1>9. /\ first.result.ok
      /\ \/ first.alg = "ECDSA" /\ first.result = ec
         \/ first.alg = "RSA" /\ first.result = rsa
         \/ first.alg = "ED25519" /\ first.result = ed
  BY <1>4, <1>7, <1>8
<1>10. LoadedFrom(k).alg = first.alg /\ LoadedFrom(k).scheme = first.result.scheme
  BY <1>5, <1>7
<1> HIDE DEF first, loaded
<1> QED
  BY <1>1, <1>2, <1>3, <1>9, <1>10 DEF scheme

\* The scheme that an ECDSA key has fits its curve.
LEMMA CurveScheme ==
  ASSUME NEW p, x963_len_to_scheme(X963Len(p)) # None
  PROVE  LET scheme == x963_len_to_scheme(X963Len(p))
         IN  scheme \in EcdsaSchemes /\ X963Len(p) = 1 + 2 * FieldSize(scheme)
<1> DEFINE n == X963Len(p)
<1> HIDE DEF n
<1>1. x963_len_to_scheme(n) # None => n = 65 \/ n = 97 \/ n = 133
  BY DEF x963_len_to_scheme
<1>2. /\ n = 65 => x963_len_to_scheme(n) = "ECDSA_NISTP256_SHA256"
      /\ n = 97 => x963_len_to_scheme(n) = "ECDSA_NISTP384_SHA384"
      /\ n = 133 => x963_len_to_scheme(n) = "ECDSA_NISTP521_SHA512"
  BY DEF x963_len_to_scheme
<1>3. /\ FieldSize("ECDSA_NISTP256_SHA256") = 32
      /\ FieldSize("ECDSA_NISTP384_SHA384") = 48
      /\ FieldSize("ECDSA_NISTP521_SHA512") = 66
  BY DEF FieldSize
<1> QED
  BY <1>1, <1>2, <1>3 DEF EcdsaSchemes, n

\* The first of the RSA schemes is chosen when it is offered.
LEMMA PssFirst ==
  ASSUME NEW offered, "RSA_PSS_SHA256" \in offered
  PROVE  ChooseRsaScheme(offered) = "RSA_PSS_SHA256"
<1> DEFINE common == {i \in DOMAIN ALL_RSA_SCHEMES : ALL_RSA_SCHEMES[i] \in offered}
<1>1. ALL_RSA_SCHEMES[1] = "RSA_PSS_SHA256" /\ DOMAIN ALL_RSA_SCHEMES = 1 .. 6
  BY DEF ALL_RSA_SCHEMES
<1>2. 1 \in common /\ common \subseteq Nat /\ \A j \in common : 1 <= j
  BY <1>1
<1>3. Min(common) = 1
  <2> HIDE DEF common
  <2> QED
    BY <1>2, LeastIsMin
<1> QED
  BY <1>1, <1>2, <1>3 DEF ChooseRsaScheme

\* A suite that the server may use for its key.
Allows(s, alg) == s.version = "1.3" \/ \E scheme \in s.sign : AlgorithmOf(scheme) = alg

\* The algorithm of a scheme.
LEMMA AlgorithmNames ==
  /\ \A scheme \in RsaSchemes : AlgorithmOf(scheme) = "RSA"
  /\ \A scheme \in EcdsaSchemes : AlgorithmOf(scheme) = "ECDSA"
  /\ AlgorithmOf("ED25519") = "ED25519"
  /\ RsaSchemes \cap EcdsaSchemes = {} /\ "ED25519" \notin RsaSchemes \cup EcdsaSchemes
BY SchemeNames DEF AlgorithmOf, EcdsaSchemes

\* The server signs under a suite that allows its key: it finds a scheme among
\* those that the client offers, and what it signs with it verifies.
LEMMA SchemeFits ==
  ASSUME StateOk, CanConnect, NEW x \in AllSuites, Allows(RfcSuite(x), key.alg),
         NEW hello, hello.schemes = Schemes
  PROVE  LET scheme == choose_scheme(Loaded, OfferedSchemes(hello, RfcSuite(x)))
         IN  /\ scheme # None /\ scheme \in OfferedSchemes(hello, RfcSuite(x))
             /\ Loaded.key = key
             /\ Fits([key |-> Loaded.key, scheme |-> scheme])
<1> DEFINE s == RfcSuite(x)
           offered == OfferedSchemes(hello, s)
           scheme == choose_scheme(Loaded, offered)
<1>1. key \in ServerKeys /\ Loaded.key = key
  BY KeyLoads DEF StateOk, Loaded
<1>2. /\ key.alg # "X25519" /\ (key.alg = "RSA" => key.param <= MAX_RSA_SIG_SIZE)
  BY DEF CanConnect
<1>3. s.version = "1.3" => offered = Schemes \ (RsaSchemes \ PssSchemes)
  BY DEF OfferedSchemes
<1>4. s.version # "1.3" =>
        /\ offered = Schemes \cap s.sign
        /\ s.sign = RsaSchemes \/ s.sign = EcdsaSchemes \cup {"ED25519"}
        /\ \E n \in s.sign : AlgorithmOf(n) = key.alg
  BY DEF OfferedSchemes, Allows, RfcSuite
<1> HIDE DEF s, offered
<1>5. /\ key.alg = "RSA" => "RSA_PSS_SHA256" \in offered
      /\ key.alg = "ECDSA" => EcdsaSchemes \subseteq offered
      /\ key.alg = "ED25519" => "ED25519" \in offered
  BY <1>3, <1>4, AlgorithmNames, SchemeNames DEF Schemes, PssSchemes
<1>6. /\ "RSA_PSS_SHA256" # None /\ "ED25519" # None
  BY NoneAssumption, SchemeNames DEF Schemes
<1>7. CASE key.alg = "RSA"
  <2>1. Loaded.alg = "RSA"
    BY <1>1, <1>7, KeyTaken DEF Loaded
  <2>2. scheme = "RSA_PSS_SHA256"
    BY <1>5, <1>7, <2>1, PssFirst DEF choose_scheme
  <2>3. Fits([key |-> key, scheme |-> scheme])
    BY <1>2, <1>7, <2>2 DEF Fits, PssSchemes
  <2> QED
    BY <1>1, <1>5, <1>6, <1>7, <2>2, <2>3 DEF offered, s
<1>8. CASE key.alg = "ECDSA"
  <2> DEFINE n == x963_len_to_scheme(X963Len(key.param))
  <2>1. Loaded.alg = "ECDSA" /\ Loaded.scheme = n /\ n # None
    BY <1>1, <1>8, KeyTaken DEF Loaded
  <2>2. n \in EcdsaSchemes /\ X963Len(key.param) = 1 + 2 * FieldSize(n)
    BY <2>1, CurveScheme
  <2> HIDE DEF n
  <2>3. scheme = n /\ n \in offered
    BY <1>5, <1>8, <2>1, <2>2 DEF choose_scheme
  <2>4. Fits([key |-> key, scheme |-> scheme])
    BY <1>8, <2>2, <2>3 DEF Fits
  <2> QED
    BY <1>1, <2>1, <2>3, <2>4 DEF offered, s
<1>9. CASE key.alg = "ED25519"
  <2>1. Loaded.alg = "ED25519" /\ Loaded.scheme = "ED25519"
    BY <1>1, <1>9, KeyTaken DEF Loaded
  <2>2. scheme = "ED25519"
    BY <1>5, <1>9, <2>1 DEF choose_scheme
  <2>3. Fits([key |-> key, scheme |-> scheme])
    BY <1>9, <2>2 DEF Fits
  <2> QED
    BY <1>1, <1>5, <1>6, <1>9, <2>2, <2>3 DEF offered, s
<1> QED
  BY <1>1, <1>2, <1>7, <1>8, <1>9, KeyTaken DEF Loaded

\* The server finds a suite when there is one.
LEMMA SuitePicked ==
  ASSUME StateOk, CanConnect, NEW hello, hello.suites = suites["client"]
  PROVE  /\ Chosen(hello) # NoSuite /\ Chosen(hello) \in AllSuites
         /\ Chosen(hello) \in Range(suites["client"])
         /\ Allows(RfcSuite(Chosen(hello)), key.alg)
<1> DEFINE usable == Usable(hello)
           i == impl["server"]
           list == suites["client"]
<1>1. list \in Seq(AllSuites) /\ i \in Impls /\ Range(list) \subseteq AllSuites
  BY HandshakeAssumption, ListsOfSuites, TwoRoles DEF StateOk, AllSuites, Impls
<1>2. PICK x \in Range(list) \cap Range(suites["server"]) :
        RfcSuite(x).version = Version(list) /\ Allows(RfcSuite(x), key.alg)
  BY DEF CanConnect, Allows
<1>3. PICK n \in DOMAIN list : list[n] = x
  BY <1>2 DEF Range
<1>4. \A y \in AllSuites : SuiteOf(i, y) = RfcSuite(y)
  BY <1>1, SuiteHeld
<1>5. usable = {j \in DOMAIN list :
                  /\ list[j] \in Range(suites["server"])
                  /\ SuiteOf(i, list[j]).version = Version(list)
                  /\ Allows(SuiteOf(i, list[j]), key.alg)}
  BY DEF Usable, Allows, usable_for_signature_algorithm
<1>6. n \in usable
  BY <1>1, <1>2, <1>3, <1>4, <1>5
<1>7. usable # {}
  BY <1>6
<1>8. usable \subseteq Nat /\ usable \subseteq DOMAIN list
  <2>1. DOMAIN list \subseteq Nat
    BY <1>1
  <2>2. usable \subseteq DOMAIN list
    BY <1>5
  <2> HIDE DEF usable, list
  <2> QED
    BY <2>1, <2>2
<1>9. Chosen(hello) = list[Min(usable)]
  BY <1>7 DEF Chosen
<1> HIDE DEF usable
<1>10. Min(usable) \in usable
  BY <1>7, <1>8, MinIsLeast
<1> DEFINE j == Min(usable)
<1> HIDE DEF j
<1>11. j \in DOMAIN list /\ Allows(SuiteOf(i, list[j]), key.alg)
  BY <1>5, <1>7, <1>8, <1>10 DEF j
<1>12. list[j] \in Range(list) /\ list[j] \in AllSuites
  BY <1>1, <1>11 DEF Range
<1> HIDE DEF list
<1> QED
  BY <1>4, <1>9, <1>11, <1>12, NoSuiteIsNone DEF j, list

\* Two exchanges of one group complete each other.
LEMMA ExchangesComplete ==
  ASSUME StateOk
  PROVE  /\ \A k \in 1 .. 3 : start(group, k) # None /\ start(group, k).pub_key # None
         /\ \A a, b \in 1 .. 3 :
              /\ complete(start(group, a), start(group, b).pub_key, TRUE).ok
              /\ complete(start(group, a), start(group, b).pub_key, TRUE) =
                   complete(start(group, b), start(group, a).pub_key, TRUE)
<1>1. group \in {"X25519", "secp256r1", "secp384r1", "secp521r1"}
  BY DEF StateOk, Groups, ALL_KX_GROUPS, Range
<1>2. \A k \in 1 .. 3 : start(group, k) # None /\ start(group, k).pub_key # None
  BY NoneAssumption DEF StateOk, MaxKey
<1>3. ASSUME NEW k \in 1 .. 3
      PROVE  start(group, k) = Started(group, k, PUB_KEY_SIZE(group))
  BY <1>1 DEF start, use_curve25519, use_secp256r1, use_secp384r1, use_secp521r1
<1>4. ASSUME NEW a \in 1 .. 3, NEW b \in 1 .. 3
      PROVE  complete(start(group, a), start(group, b).pub_key, TRUE) =
               [ok |-> TRUE, secret |-> [group |-> group, keys |-> {a, b}]]
  <2> DEFINE bytes == start(group, b).pub_key
  <2>1. /\ bytes.len = PUB_KEY_SIZE(group) /\ bytes.point = PointOf(group, b)
        /\ start(group, a).group = group /\ start(group, a).key = a
    BY <1>3 DEF Started
  <2>2. /\ bytes.point # BadPoint /\ bytes.point.group = group /\ bytes.point.key = b
    BY <2>1 DEF PointOf, BadPoint
  <2> HIDE DEF bytes
  <2>3. Accepts(group, bytes)
    BY <1>1, <2>1, <2>2 DEF Accepts, curve25519_accepts, secp256r1_accepts, secp384r1_accepts,
      secp521r1_accepts, check_public, import_x963
  <2> QED
    BY <2>1, <2>2, <2>3 DEF complete, Secret, bytes
<1>5. ASSUME NEW a \in 1 .. 3, NEW b \in 1 .. 3
      PROVE  /\ complete(start(group, a), start(group, b).pub_key, TRUE).ok
             /\ complete(start(group, a), start(group, b).pub_key, TRUE) =
                   complete(start(group, b), start(group, a).pub_key, TRUE)
  <2> DEFINE x == complete(start(group, a), start(group, b).pub_key, TRUE)
             y == complete(start(group, b), start(group, a).pub_key, TRUE)
  <2>1. /\ x = [ok |-> TRUE, secret |-> [group |-> group, keys |-> {a, b}]]
        /\ y = [ok |-> TRUE, secret |-> [group |-> group, keys |-> {b, a}]]
    BY <1>4
  <2>2. {a, b} = {b, a}
    OBVIOUS
  <2> HIDE DEF x, y
  <2>3. x = y /\ x.ok
    BY <2>1, <2>2
  <2> QED
    BY <2>3 DEF x, y
<1> QED
  BY <1>2, <1>5

-----------------------------------------------------------------------------
(* From the hello to the server's answer                                   *)

\* What the two ends make depends on their configuration only.
LEMMA OursKept ==
  ASSUME UNCHANGED config
  PROVE  /\ FirstBox' = FirstBox /\ OurHello' = OurHello /\ Picked' = Picked
         /\ PickedSuite' = PickedSuite /\ CanConnect' = CanConnect
         /\ OurSecret' = OurSecret /\ OurMsgs13' = OurMsgs13
         /\ OurFlight13' = OurFlight13 /\ OurFinished13' = OurFinished13
         /\ OurShares12' = OurShares12 /\ OurMsgs12' = OurMsgs12 /\ OurMaster' = OurMaster
         /\ OurBlock' = OurBlock /\ ClientFinished12' = ClientFinished12
         /\ OurMsgs12c' = OurMsgs12c /\ OurFinished12' = OurFinished12
<1>1. impl' = impl /\ suites' = suites /\ group' = group /\ key' = key /\ cert' = cert
  BY DEF config
<1>2. FirstBox' = FirstBox
  BY <1>1 DEF FirstBox
<1>3. OurHello' = OurHello
  BY <1>1, <1>2 DEF OurHello, ClientHello
<1>4. Picked' = Picked
  <2>1. Usable(OurHello)' = Usable(OurHello)
    BY <1>1, <1>3 DEF Usable, Version
  <2> QED
    BY <1>3, <2>1 DEF Picked, Chosen
<1>5. PickedSuite' = PickedSuite /\ Loaded' = Loaded /\ Certificate' = Certificate
  BY <1>1, <1>4 DEF PickedSuite, Loaded, Certificate
<1>6. Scheme' = Scheme
  BY <1>3, <1>5 DEF Scheme
<1>7. OurReply13' = OurReply13 /\ OurSecret' = OurSecret /\ OurReply12' = OurReply12
  BY <1>1, <1>4 DEF OurReply13, OurSecret, OurReply12
<1>8. OurMsgs13' = OurMsgs13
  <2>1. \A m : Signed13(PickedSuite, Scheme, m)' = Signed13(PickedSuite, Scheme, m)
    BY <1>5, <1>6 DEF Signed13
  <2> QED
    BY <1>3, <1>5, <1>6, <1>7, <2>1 DEF OurMsgs13, Messages13
<1>9. OurSchedule' = OurSchedule
  BY <1>5, <1>7, <1>8 DEF OurSchedule
<1>10. OurFlight13' = OurFlight13 /\ OurFinished13' = OurFinished13
  BY <1>5, <1>8, <1>9 DEF OurFlight13, OurFinished13
<1>11. OurShares12' = OurShares12
  BY <1>1, <1>3, <1>5, <1>6, <1>7 DEF OurShares12
<1>12. OurMsgs12' = OurMsgs12
  BY <1>1, <1>3, <1>11 DEF OurMsgs12
<1>13. OurMaster' = OurMaster
  BY <1>1, <1>5, <1>12 DEF OurMaster
<1>14. OurBlock' = OurBlock /\ ClientFinished12' = ClientFinished12
  BY <1>5, <1>12, <1>13 DEF OurBlock, ClientFinished12
<1>15. OurMsgs12c' = OurMsgs12c
  BY <1>12, <1>14 DEF OurMsgs12c
<1>16. OurFinished12' = OurFinished12
  BY <1>5, <1>13, <1>15 DEF OurFinished12
<1>17. CanConnect' = CanConnect
  BY <1>1 DEF CanConnect, Version
<1> QED
  BY <1>2, <1>3, <1>4, <1>5, <1>7, <1>8, <1>10, <1>11, <1>12, <1>13, <1>14, <1>15, <1>16, <1>17

\* A queue of one flight.
LEMMA OneFlight ==
  ASSUME NEW f
  PROVE  /\ Append(<<>>, f) = <<f>> /\ Tail(<<f>>) = <<>> /\ Head(<<f>>) = f /\ <<f>> # <<>>
OBVIOUS

\* What the server picks, and that it can sign with it.
LEMMA Ours ==
  ASSUME StateOk, CanConnect
  PROVE  /\ Picked # NoSuite /\ Picked \in AllSuites /\ Picked \in Range(suites["client"])
         /\ PickedSuite.kdf \in Hashes /\ PickedSuite.aead_alg \in Aeads
         /\ PickedSuite.version \in {"1.3", "1.2"}
         /\ \A r \in Roles : impl[r] \in Impls /\ SuiteOf(impl[r], Picked) = PickedSuite
         /\ OurHello.suites = suites["client"] /\ OurHello.schemes = Schemes
         /\ OurHello.random = fill("client") /\ OurHello.share = Share(FirstBox)
         /\ Scheme # None /\ Scheme \in OfferedSchemes(OurHello, PickedSuite)
         /\ Scheme \in Schemes
         /\ Loaded.key = key /\ Fits([key |-> key, scheme |-> Scheme])
         /\ PickedSuite.version = "1.3" => FirstBox = start(group, 1)
<1>1. /\ OurHello.suites = suites["client"] /\ OurHello.schemes = Schemes
      /\ OurHello.random = fill("client") /\ OurHello.share = Share(FirstBox)
  BY DEF OurHello, ClientHello, supported_schemes
<1>2. /\ Picked # NoSuite /\ Picked \in AllSuites /\ Picked \in Range(suites["client"])
      /\ Allows(PickedSuite, key.alg)
  BY <1>1, SuitePicked DEF Picked, PickedSuite
<1>3. \A r \in Roles : impl[r] \in Impls
  BY DEF StateOk, Impls
<1>4. /\ PickedSuite.kdf \in Hashes /\ PickedSuite.aead_alg \in Aeads
      /\ PickedSuite.version \in {"1.3", "1.2"}
      /\ \A r \in Roles : SuiteOf(impl[r], Picked) = PickedSuite
  BY <1>2, <1>3, SuiteTyped, SuiteIsRfc DEF PickedSuite
<1>5. /\ Scheme # None /\ Scheme \in OfferedSchemes(OurHello, PickedSuite)
      /\ Loaded.key = key /\ Fits([key |-> key, scheme |-> Scheme])
  BY <1>1, <1>2, SchemeFits DEF Scheme, PickedSuite
<1>6. Scheme \in Schemes
  BY <1>1, <1>5 DEF OfferedSchemes
<1>7. PickedSuite.version = "1.3" => FirstBox = start(group, 1)
  BY <1>2 DEF PickedSuite, RfcSuite, FirstBox, Speaks13
<1> QED
  BY <1>1, <1>2, <1>3, <1>4, <1>5, <1>6, <1>7

\* Its signatures are made and verify.
LEMMA OursSigned ==
  ASSUME StateOk, CanConnect, NEW m
  PROVE  LET x == sign([key |-> Loaded.key, scheme |-> Scheme], m, {}, 0, 0)
         IN  x # NoSignature /\ verify_signature(Scheme, key, m, x)
<1> DEFINE sg == [key |-> key, scheme |-> Scheme]
<1>1. Loaded.key = key /\ Fits(sg) /\ sg.key = key /\ sg.scheme = Scheme
  BY Ours
<1> HIDE DEF sg
<1>2. 0 \in Nat /\ 0 < 32
  OBVIOUS
<1>3. /\ sign(sg, m, {}, 0, 0) # NoSignature
      /\ verify_signature(sg.scheme, sg.key, m, sign(sg, m, {}, 0, 0))
  BY <1>1, <1>2, SignsVerifiably
<1> QED
  BY <1>1, <1>3 DEF sg

\* The client's hello.
LEMMA QuietHello ==
  ASSUME HsInv, UNCHANGED config, Starting, SendClientHello
  PROVE  Greeted'
<1> DEFINE f == Flight("hello", <<OurHello>>, NothingSealed)
<1>1. /\ DOMAIN pc = Roles /\ DOMAIN kx = Roles /\ DOMAIN transcript = Roles /\ DOMAIN inbox = Roles
  BY DEF HsInv, HandshakeTypeOK, StateOk
<1>2. /\ nextKey = 1 /\ inbox["client"] = <<>> /\ inbox["server"] = <<>> /\ pc["server"] = "start"
  BY DEF Starting, At, Boxes
<1>3. /\ pc' = [pc EXCEPT !["client"] = "wait_server"]
      /\ kx' = [kx EXCEPT !["client"] = FirstBox]
      /\ nextKey' = nextKey + 1
      /\ transcript' = [transcript EXCEPT !["client"] = <<OurHello>>]
      /\ Post("client", f)
  BY <1>2 DEF SendClientHello, Goto, FirstBox, OurHello
<1>4. Waits("client") /\ Gets("server", f)
  BY <1>3, Mails, TwoRoles DEF HsInv
<1> HIDE DEF f
<1>5. inbox'["client"] = <<>> /\ inbox'["server"] = <<f>>
  BY <1>2, <1>4, OneFlight DEF Waits, Gets
<1>6. /\ pc'["client"] = "wait_server" /\ pc'["server"] = "start" /\ nextKey' = 2
      /\ kx'["client"] = FirstBox /\ transcript'["client"] = <<OurHello>>
  BY <1>1, <1>2, <1>3, TwoRoles
<1> QED
  BY <1>5, <1>6, OursKept DEF Greeted, At, Boxes, f

\* The server answers under TLS 1.3: the exchange completes, a scheme is found, the
\* key signs and the ciphers are made.
LEMMA QuietAnswer13 ==
  ASSUME HsInv, CanConnect, UNCHANGED config, Greeted, PickedSuite.version = "1.3",
         ServerFlight13(OurHello, Picked)
  PROVE  Answered13'
<1> DEFINE i == impl["server"]
           s == PickedSuite
           box == start(group, 2)
           dh == complete(box, OurHello.share, TRUE)
           m == Messages13(i, s, Scheme, dh.secret, <<OurHello, OurReply13>>)
           k == Schedule13(i, s, dh.secret, m)
           f == Flight("server13", SubSeq(m, 2, 2), Sealed(s, k.hs_cipher.server, SubSeq(m, 3, 5)))
           g == Flight("hello", <<OurHello>>, NothingSealed)
<1>1. /\ StateOk /\ DOMAIN pc = Roles /\ DOMAIN transcript = Roles /\ DOMAIN secrets = Roles
  BY DEF HsInv, HandshakeTypeOK, StateOk
<1>2. /\ nextKey = 2 /\ inbox["client"] = <<>> /\ inbox["server"] = <<g>>
      /\ pc["client"] = "wait_server" /\ transcript["client"] = <<OurHello>>
      /\ kx["client"] = FirstBox
  BY DEF Greeted, At, Boxes
<1>3. /\ i \in Impls /\ SuiteOf(i, Picked) = s /\ s.kdf \in Hashes /\ s.aead_alg \in Aeads
      /\ Scheme # None /\ OurHello.share = Share(FirstBox) /\ FirstBox = start(group, 1)
  BY <1>1, Ours, TwoRoles
<1>4. /\ start(group, 1) # None /\ start(group, 1).pub_key # None
      /\ complete(box, start(group, 1).pub_key, TRUE).ok
  <2>1. 1 \in 1 .. 3 /\ 2 \in 1 .. 3
    OBVIOUS
  <2> QED
    BY <1>1, <2>1, ExchangesComplete
<1>5. OurHello.share = start(group, 1).pub_key
  BY <1>3, <1>4 DEF Share
<1>6. OurHello.share # None /\ dh.ok /\ dh.secret = OurSecret
  BY <1>4, <1>5 DEF OurSecret
<1>7. \A n : Signed13(s, Scheme, n) # NoSignature
  <2> TAKE n
  <2> DEFINE h == Hash(s.hash_provider, n)
  <2> HIDE DEF h
  <2>1. sign([key |-> Loaded.key, scheme |-> Scheme], h, {}, 0, 0) # NoSignature
    BY <1>1, OursSigned
  <2> QED
    BY <2>1 DEF Signed13, h
<1>8. Scheme = choose_scheme(Loaded, OfferedSchemes(OurHello, s))
  BY DEF Scheme
<1>9. OurReply13 = ServerHello(Picked, box)
  BY DEF OurReply13
<1>10. /\ HandshakeMade(i, s, dh.secret, <<OurHello, OurReply13>>)
       /\ ApplicationMade(i, s, dh.secret, m)
  BY <1>3, ScheduleMade
<1> HIDE DEF s
<1>11. /\ pc' = [pc EXCEPT !["server"] = "wait_finished"]
       /\ transcript' = [transcript EXCEPT !["server"] = m]
       /\ secrets' = [secrets EXCEPT !["server"] =
            Secrets13(Picked, [client |-> k.hs.client, server |-> k.ap.server],
                      k.exporter, dh.secret)]
       /\ Reply("server", f)
       /\ kx' = kx
  <2>1. ~(OurHello.share = None \/ ~dh.ok \/ Scheme = None
           \/ Signed13(s, Scheme, Append(<<OurHello, OurReply13>>, Certificate)) = NoSignature)
    BY <1>3, <1>6, <1>7
  <2> QED
    BY <1>2, <1>3, <1>8, <1>9, <1>10, <2>1 DEF ServerFlight13, IfMade, Goto
<1>12. m = OurMsgs13
  <2> DEFINE m3 == Append(<<OurHello, OurReply13>>, Certificate)
             m4 == Append(m3, CertificateVerify(Scheme, Signed13(s, Scheme, m3)))
  <2>1. m = Append(m4, ServerFinished13(i, s, OurSecret, m4))
    BY <1>6 DEF Messages13
  <2>2. OurMsgs13 = Append(m4, ServerFinished13("rfc", s, OurSecret, m4))
    BY DEF OurMsgs13, Messages13, s
  <2> HIDE DEF m, m3, m4
  <2>3. ServerFinished13(i, s, OurSecret, m4) = ServerFinished13("rfc", s, OurSecret, m4)
    BY <1>3, ScheduleSame
  <2> QED
    BY <2>1, <2>2, <2>3
<1>13. k = OurSchedule
  <2>1. k = Schedule13(i, s, OurSecret, OurMsgs13)
    BY <1>6, <1>12
  <2>2. Schedule13(i, s, OurSecret, OurMsgs13) = Schedule13("rfc", s, OurSecret, OurMsgs13)
    BY <1>3, ScheduleSame
  <2> HIDE DEF k
  <2> QED
    BY <2>1, <2>2 DEF OurSchedule, s
<1>14. f = OurFlight13
  <2> HIDE DEF k, m
  <2> QED
    BY <1>12, <1>13 DEF OurFlight13, s
<1> HIDE DEF f, k, m, g
<1>15. inbox'["server"] = <<>> /\ inbox'["client"] = <<OurFlight13>>
  <2>1. Takes("server") /\ Gets("client", f)
    BY <1>1, <1>2, <1>11, Mails, TwoRoles, OneFlight
  <2> QED
    BY <1>2, <1>14, <2>1, OneFlight DEF Takes, Gets
<1>16. /\ pc'["client"] = "wait_server" /\ pc'["server"] = "wait_finished"
       /\ transcript'["client"] = <<OurHello>> /\ transcript'["server"] = OurMsgs13
       /\ kx'["client"] = FirstBox
       /\ secrets'["server"].dh = OurSecret /\ secrets'["server"].suite = Picked
  BY <1>1, <1>2, <1>6, <1>11, <1>12, TwoRoles DEF Secrets13
<1> QED
  BY <1>15, <1>16, OursKept DEF Answered13, At, Boxes, Replied13

\* The server answers under TLS 1.2.
LEMMA QuietAnswer12 ==
  ASSUME HsInv, CanConnect, UNCHANGED config, Greeted, PickedSuite.version = "1.2",
         ServerFlight12(OurHello, Picked)
  PROVE  Answered12'
<1> DEFINE s == PickedSuite
           box == start(group, 2)
           signed == sign([key |-> Loaded.key, scheme |-> Scheme],
                          Params(OurHello, OurReply12, box.pub_key), {}, 0, 0)
           f == Flight("server12", OurShares12, NothingSealed)
           g == Flight("hello", <<OurHello>>, NothingSealed)
<1>1. /\ StateOk /\ DOMAIN pc = Roles /\ DOMAIN transcript = Roles /\ DOMAIN kx = Roles
  BY DEF HsInv, HandshakeTypeOK, StateOk
<1>2. /\ nextKey = 2 /\ inbox["client"] = <<>> /\ inbox["server"] = <<g>>
      /\ pc["client"] = "wait_server" /\ transcript["client"] = <<OurHello>>
  BY DEF Greeted, At, Boxes
<1>3. SuiteOf(impl["server"], Picked) = s /\ Scheme # None
  BY <1>1, Ours, TwoRoles
<1>4. signed # NoSignature
  <2> DEFINE p == Params(OurHello, OurReply12, box.pub_key)
  <2> HIDE DEF p
  <2>1. sign([key |-> Loaded.key, scheme |-> Scheme], p, {}, 0, 0) # NoSignature
    BY <1>1, OursSigned
  <2> QED
    BY <2>1 DEF p
<1>5. Scheme = choose_scheme(Loaded, OfferedSchemes(OurHello, s))
  BY DEF Scheme
<1>6. /\ OurReply12 = ServerHello(Picked, None)
      /\ OurShares12 = <<OurReply12, Certificate, ServerKeyExchange(box, Scheme, signed)>>
  BY DEF OurReply12, OurShares12
<1>7. /\ pc' = [pc EXCEPT !["server"] = "wait_client"]
      /\ kx' = [kx EXCEPT !["server"] = box]
      /\ nextKey' = nextKey + 1
      /\ transcript' = [transcript EXCEPT !["server"] = <<OurHello>> \o OurShares12]
      /\ Reply("server", f)
  <2> HIDE DEF s
  <2> QED
    BY <1>2, <1>3, <1>4, <1>5, <1>6 DEF ServerFlight12, Goto
<1> HIDE DEF f, g
<1>8. inbox'["server"] = <<>> /\ inbox'["client"] = <<f>>
  <2>1. inbox["server"] # <<>> /\ Reply("server", f)
    BY <1>2, <1>7, OneFlight
  <2>2. Takes("server") /\ Gets("client", f)
    BY <1>1, <2>1, Mails, TwoRoles
  <2> QED
    BY <1>2, <2>2, OneFlight DEF Takes, Gets
<1>9. /\ pc'["client"] = "wait_server" /\ pc'["server"] = "wait_client" /\ nextKey' = 3
      /\ transcript'["client"] = <<OurHello>> /\ transcript'["server"] = <<OurHello>> \o OurShares12
      /\ kx'["server"] = box
  BY <1>1, <1>2, <1>7, TwoRoles
<1>10. group' = group
  BY DEF config
<1> QED
  BY <1>8, <1>9, <1>10, OursKept DEF Answered12, At, Boxes, Replied12, f

\* The server answers the hello.
LEMMA QuietAnswer ==
  ASSUME HsInv, CanConnect, UNCHANGED config, Greeted, HandleClientHello
  PROVE  Answered13' \/ Answered12'
<1> DEFINE f == Flight("hello", <<OurHello>>, NothingSealed)
<1>1. StateOk /\ inbox["server"] = <<f>>
  BY DEF HsInv, Greeted, Boxes
<1>2. f.clear[1] = OurHello
  BY DEF Flight
<1> HIDE DEF f
<1>3. Head(inbox["server"]).clear[1] = OurHello
  BY <1>1, <1>2, OneFlight
<1>4. /\ Picked # NoSuite /\ SuiteOf(impl["server"], Picked) = PickedSuite
      /\ PickedSuite.version \in {"1.3", "1.2"}
  BY <1>1, Ours, TwoRoles
<1>5. IF PickedSuite.version = "1.3" THEN ServerFlight13(OurHello, Picked)
      ELSE ServerFlight12(OurHello, Picked)
  BY <1>3, <1>4 DEF HandleClientHello, Picked
<1> QED
  BY <1>4, <1>5, QuietAnswer13, QuietAnswer12

-----------------------------------------------------------------------------
(* TLS 1.3 to the end                                                      *)

\* The first three and the first four of five messages.
LEMMA Beginnings ==
  ASSUME NEW a, NEW b, NEW c, NEW d, NEW e
  PROVE  /\ SubSeq(<<a, b, c, d, e>>, 1, 3) = <<a, b, c>>
         /\ SubSeq(<<a, b, c, d, e>>, 1, 4) = <<a, b, c, d>>
<1> DEFINE q == <<a, b, c, d, e>>
           S == {a, b, c, d, e}
<1>1. q[1] = a /\ q[2] = b /\ q[3] = c /\ q[4] = d
  OBVIOUS
<1>2. a \in S /\ b \in S /\ c \in S /\ d \in S
  OBVIOUS
<1> HIDE DEF q, S
<1> DEFINE x == SubSeq(q, 1, 3)
           y == SubSeq(q, 1, 4)
<1>3. \A n \in 1 .. 4 : q[n] \in S
  <2>1. \A n \in 1 .. 4 : n = 1 \/ n = 2 \/ n = 3 \/ n = 4
    OBVIOUS
  <2> QED
    BY <1>1, <1>2, <2>1
<1>4. \A n \in 1 .. 3 : q[n] \in S
  BY <1>3
<1>5. x \in Seq(S) /\ Len(x) = 3 /\ \A n \in 1 .. 3 : x[n] = q[n]
  <2>1. /\ x \in Seq(S) /\ Len(x) = (IF 1 <= 3 THEN 3 - 1 + 1 ELSE 0)
        /\ \A n \in 1 .. 3 - 1 + 1 : x[n] = q[1 + n - 1]
    BY <1>4, SubSeqProperties
  <2> HIDE DEF x
  <2>2. \A n \in 1 .. 3 : x[n] = q[1 + n - 1] /\ 1 + n - 1 = n
    BY <2>1
  <2> QED
    BY <2>1, <2>2
<1>6. y \in Seq(S) /\ Len(y) = 4 /\ \A n \in 1 .. 4 : y[n] = q[n]
  <2>1. /\ y \in Seq(S) /\ Len(y) = (IF 1 <= 4 THEN 4 - 1 + 1 ELSE 0)
        /\ \A n \in 1 .. 4 - 1 + 1 : y[n] = q[1 + n - 1]
    BY <1>3, SubSeqProperties
  <2> HIDE DEF y
  <2>2. \A n \in 1 .. 4 : y[n] = q[1 + n - 1] /\ 1 + n - 1 = n
    BY <2>1
  <2> QED
    BY <2>1, <2>2
<1> HIDE DEF x, y
<1>7. x[1] = a /\ x[2] = b /\ x[3] = c /\ y[1] = a /\ y[2] = b /\ y[3] = c /\ y[4] = d
  BY <1>1, <1>5, <1>6
<1>8. IsSeq(x) /\ IsSeq(y)
  BY <1>5, <1>6, SeqIsSeq
<1>9. x = <<a, b, c>>
  BY <1>5, <1>7, <1>8, Tuples
<1>10. y = <<a, b, c, d>>
  BY <1>6, <1>7, <1>8, Tuples
<1> QED
  BY <1>9, <1>10 DEF x, y, q

\* The messages of a TLS 1.3 handshake, put together and taken apart.
Told(q, a, b, c, d, e) ==
  /\ SubSeq(q, 2, 2) = <<b>> /\ SubSeq(q, 3, 5) = <<c, d, e>>
  /\ SubSeq(q, 1, 3) = <<a, b, c>> /\ SubSeq(q, 1, 4) = <<a, b, c, d>>
  /\ <<a, b>> \o <<c, d, e>> = q
  /\ q[1] = a /\ q[2] = b /\ q[3] = c /\ q[4] = d /\ q[5] = e
\* Five messages tell what they are made of.
LEMMA FiveTold ==
  ASSUME NEW a, NEW b, NEW c, NEW d, NEW e, NEW q, q = <<a, b, c, d, e>>
  PROVE  Told(q, a, b, c, d, e)
<1>1. q[1] = a /\ q[2] = b /\ q[3] = c /\ q[4] = d /\ q[5] = e
  OBVIOUS
<1>2. <<a, b>> \o <<c, d, e>> = <<a, b, c, d, e>>
  BY JoinFive
<1>3. /\ SubSeq(<<a, b, c, d, e>>, 2, 2) = <<b>>
      /\ SubSeq(<<a, b, c, d, e>>, 3, 5) = <<c, d, e>>
      /\ SubSeq(<<a, b, c, d, e>>, 1, 3) = <<a, b, c>>
      /\ SubSeq(<<a, b, c, d, e>>, 1, 4) = <<a, b, c, d>>
  BY Parts, Beginnings
<1> QED
  BY <1>1, <1>2, <1>3 DEF Told

\* What Append makes, by position.
LEMMA AppendTells ==
  ASSUME NEW q, IsSeq(q), NEW v
  PROVE  /\ IsSeq(Append(q, v)) /\ Len(Append(q, v)) = Len(q) + 1
         /\ Append(q, v)[Len(q) + 1] = v
         /\ \A n \in 1 .. Len(q) : Append(q, v)[n] = q[n]
<1> DEFINE S == Range(q) \cup {v}
<1>1. q \in Seq(S) /\ v \in S
  BY DEF IsSeq
<1> HIDE DEF S
<1>2. /\ Append(q, v) \in Seq(S) /\ Len(Append(q, v)) = Len(q) + 1
      /\ \A j \in 1 .. Len(q) : Append(q, v)[j] = q[j]
      /\ Append(q, v)[Len(q) + 1] = v
  BY <1>1, AppendProperties
<1> QED
  BY <1>2, SeqIsSeq

\* Append makes the tuples one sees.
LEMMA Appended ==
  /\ \A a, b, c : Append(<<a, b>>, c) = <<a, b, c>>
  /\ \A a, b, c, d : Append(<<a, b, c>>, d) = <<a, b, c, d>>
  /\ \A a, b, c, d, e : Append(<<a, b, c, d>>, e) = <<a, b, c, d, e>>
<1>1. ASSUME NEW a, NEW b, NEW c PROVE Append(<<a, b>>, c) = <<a, b, c>>
  <2> DEFINE p == <<a, b>>
             r == Append(p, c)
  <2>1. IsSeq(p) /\ Len(p) = 2
    BY ShortSeq
  <2>2. p[1] = a /\ p[2] = b
    OBVIOUS
  <2> HIDE DEF p
  <2>7. IsSeq(p)
    BY <2>1
  <2>6. /\ IsSeq(r) /\ Len(r) = Len(p) + 1
        /\ r[Len(p) + 1] = c
        /\ \A n \in 1 .. Len(p) : r[n] = p[n]
    BY <2>7, AppendTells
  <2> HIDE DEF r
  <2>3. IsSeq(r) /\ Len(r) = 3 /\ r[3] = c /\ \A n \in 1 .. 2 : r[n] = p[n]
    BY <2>1, <2>6
  <2>4. r[1] = a /\ r[2] = b /\ r[3] = c
    BY <2>2, <2>3
  <2>5. r = <<a, b, c>>
    BY <2>3, <2>4, Tuples
  <2> QED
    BY <2>5 DEF r, p
<1>2. ASSUME NEW a, NEW b, NEW c, NEW d PROVE Append(<<a, b, c>>, d) = <<a, b, c, d>>
  <2> DEFINE p == <<a, b, c>>
             r == Append(p, d)
  <2>1. IsSeq(p) /\ Len(p) = 3
    BY ShortSeq
  <2>2. p[1] = a /\ p[2] = b /\ p[3] = c
    OBVIOUS
  <2> HIDE DEF p
  <2>7. IsSeq(p)
    BY <2>1
  <2>6. /\ IsSeq(r) /\ Len(r) = Len(p) + 1
        /\ r[Len(p) + 1] = d
        /\ \A n \in 1 .. Len(p) : r[n] = p[n]
    BY <2>7, AppendTells
  <2> HIDE DEF r
  <2>3. IsSeq(r) /\ Len(r) = 4 /\ r[4] = d /\ \A n \in 1 .. 3 : r[n] = p[n]
    BY <2>1, <2>6
  <2>4. r[1] = a /\ r[2] = b /\ r[3] = c /\ r[4] = d
    BY <2>2, <2>3
  <2>5. r = <<a, b, c, d>>
    BY <2>3, <2>4, Tuples
  <2> QED
    BY <2>5 DEF r, p
<1>3. ASSUME NEW a, NEW b, NEW c, NEW d, NEW e PROVE Append(<<a, b, c, d>>, e) = <<a, b, c, d, e>>
  <2> DEFINE p == <<a, b, c, d>>
             r == Append(p, e)
  <2>1. IsSeq(p) /\ Len(p) = 4
    BY ShortSeq
  <2>2. p[1] = a /\ p[2] = b /\ p[3] = c /\ p[4] = d
    OBVIOUS
  <2> HIDE DEF p
  <2>7. IsSeq(p)
    BY <2>1
  <2>6. /\ IsSeq(r) /\ Len(r) = Len(p) + 1
        /\ r[Len(p) + 1] = e
        /\ \A n \in 1 .. Len(p) : r[n] = p[n]
    BY <2>7, AppendTells
  <2> HIDE DEF r
  <2>3. IsSeq(r) /\ Len(r) = 5 /\ r[5] = e /\ \A n \in 1 .. 4 : r[n] = p[n]
    BY <2>1, <2>6
  <2>4. r[1] = a /\ r[2] = b /\ r[3] = c /\ r[4] = d /\ r[5] = e
    BY <2>2, <2>3
  <2>5. r = <<a, b, c, d, e>>
    BY <2>3, <2>4, Tuples
  <2> QED
    BY <2>5 DEF r, p
<1> QED
  BY <1>1, <1>2, <1>3

\* The messages of TLS 1.3 up to the server's Finished, one by one.
Signed3 == <<OurHello, OurReply13, Certificate>>
Verify3 == CertificateVerify(Scheme, Signed13(PickedSuite, Scheme, Signed3))
Signed4 == <<OurHello, OurReply13, Certificate, Verify3>>
Finished5 == ServerFinished13("rfc", PickedSuite, OurSecret, Signed4)

\* The messages of TLS 1.3 taken apart as the client does.
LEMMA FiveMessages ==
  /\ <<OurHello, OurReply13>> \o <<Certificate, Verify3, Finished5>> = OurMsgs13
  /\ OurMsgs13[3] = Certificate /\ OurMsgs13[4] = Verify3 /\ OurMsgs13[5] = Finished5
  /\ SubSeq(OurMsgs13, 2, 2) = <<OurReply13>>
  /\ SubSeq(OurMsgs13, 3, 5) = <<Certificate, Verify3, Finished5>>
  /\ SubSeq(OurMsgs13, 1, 3) = Signed3
  /\ SubSeq(OurMsgs13, 1, 4) = Signed4
<1> DEFINE m3 == Append(<<OurHello, OurReply13>>, Certificate)
           m4 == Append(m3, CertificateVerify(Scheme, Signed13(PickedSuite, Scheme, m3)))
<1>1. OurMsgs13 = Append(m4, ServerFinished13("rfc", PickedSuite, OurSecret, m4))
  BY DEF OurMsgs13, Messages13
<1>2. m3 = Signed3
  BY Appended DEF Signed3
<1>3. m4 = Append(Signed3, Verify3)
  BY <1>2 DEF Verify3
<1> DEFINE a == OurHello
           b == OurReply13
           c == Certificate
           d == Verify3
           e == Finished5
<1>9. Signed3 = <<a, b, c>> /\ Signed4 = <<a, b, c, d>>
  BY DEF Signed3, Signed4
<1> HIDE DEF a, b, c, d, e, m3, m4
<1>10. Append(<<a, b, c>>, d) = <<a, b, c, d>> /\ Append(<<a, b, c, d>>, e) = <<a, b, c, d, e>>
  BY Appended
<1>4. m4 = Signed4
  <2>1. m4 = Append(<<a, b, c>>, d)
    BY <1>3, <1>9 DEF d
  <2> QED
    BY <2>1, <1>9, <1>10
<1>5. OurMsgs13 = Append(Signed4, e)
  BY <1>1, <1>4 DEF Finished5, e
<1> DEFINE q == OurMsgs13
<1> HIDE DEF q
<1>7. q = <<a, b, c, d, e>>
  BY <1>5, <1>9, <1>10 DEF q
<1>8. Told(q, a, b, c, d, e)
  BY <1>7, FiveTold
<1>11. /\ SubSeq(q, 2, 2) = <<b>> /\ SubSeq(q, 3, 5) = <<c, d, e>>
       /\ SubSeq(q, 1, 3) = Signed3 /\ SubSeq(q, 1, 4) = Signed4
       /\ <<a, b>> \o <<c, d, e>> = q
       /\ q[3] = c /\ q[4] = d /\ q[5] = e
  BY <1>8, <1>9 DEF Told
<1> QED
  BY <1>11 DEF q, a, b, c, d, e

\* The client opens the flight, the signature verifies, the Finished is the one it
\* computes, and its schedule is the server's.
LEMMA QuietAgree13 ==
  ASSUME HsInv, CanConnect, UNCHANGED config, Answered13, HandleServerFlight13
  PROVE  Agreed13'
<1> DEFINE i == impl["client"]
           s == PickedSuite
           flight == Head(inbox["client"])
           reply == flight.clear[1]
           hello == transcript["client"][1]
           dh == complete(kx["client"], reply.share, TRUE)
           m == <<hello, reply>> \o flight.sealed.msgs
           k == Schedule13(i, s, dh.secret, m)
<1>1. /\ StateOk /\ DOMAIN pc = Roles /\ DOMAIN transcript = Roles /\ DOMAIN secrets = Roles
  BY DEF HsInv, HandshakeTypeOK, StateOk
<1>2. /\ inbox["client"] = <<OurFlight13>> /\ inbox["server"] = <<>>
      /\ pc["client"] = "wait_server" /\ pc["server"] = "wait_finished"
      /\ transcript["client"] = <<OurHello>> /\ kx["client"] = FirstBox
      /\ transcript["server"] = OurMsgs13 /\ secrets["server"].dh = OurSecret
      /\ secrets["server"].suite = Picked /\ s.version = "1.3"
  BY DEF Answered13, At, Boxes, Replied13
<1>3. /\ i \in Impls /\ SuiteOf(i, Picked) = s /\ s.kdf \in Hashes /\ s.aead_alg \in Aeads
      /\ FirstBox = start(group, 1) /\ Picked \in Range(suites["client"])
      /\ Scheme \in OfferedSchemes(OurHello, s)
  BY <1>1, <1>2, Ours, TwoRoles
<1>4. flight = OurFlight13 /\ hello = OurHello
  BY <1>2, OneFlight
<1>5. /\ flight.clear = <<OurReply13>>
      /\ flight.sealed.msgs = <<Certificate, Verify3, Finished5>>
      /\ flight.sealed.by = WireKey(s, OurSchedule.hs_cipher["server"])
  BY <1>4, FiveMessages DEF OurFlight13, Flight, Sealed
<1>6. reply = OurReply13
  BY <1>5
<1>7. m = OurMsgs13
  BY <1>4, <1>5, <1>6, FiveMessages
<1>8. reply.suite = Picked /\ reply.share # None /\ dh.ok /\ dh.secret = OurSecret
  <2> DEFINE a == start(group, 1)
             b == start(group, 2)
  <2>1. 1 \in 1 .. 3 /\ 2 \in 1 .. 3
    OBVIOUS
  <2>2. b # None /\ b.pub_key # None /\ complete(a, b.pub_key, TRUE).ok
        /\ complete(a, b.pub_key, TRUE) = complete(b, a.pub_key, TRUE)
    BY <1>1, <2>1, ExchangesComplete
  <2>3. reply.suite = Picked /\ reply.share = b.pub_key
    BY <1>6, <2>2 DEF OurReply13, ServerHello, Share
  <2> QED
    BY <1>2, <1>3, <2>2, <2>3 DEF OurSecret
<1> DEFINE hs == HandshakeTraffic(i, s, dh.secret, m).server
           checked ==
             /\ reply.suite \in Range(suites["client"]) /\ s.version = "1.3"
             /\ reply.share # None /\ dh.ok
             /\ Opens(s, TrafficCipher(i, s, hs), flight.sealed)
             /\ m[3].key = cert
             /\ m[4].scheme \in OfferedSchemes(hello, s)
             /\ verify_signature(m[4].scheme, cert, Hash(s.hash_provider, SubSeq(m, 1, 3)),
                                 m[4].sig)
             /\ m[5] = ServerFinished13(i, s, dh.secret, SubSeq(m, 1, 4))
<1>9. k = OurSchedule
  <2>1. Schedule13(i, s, OurSecret, OurMsgs13) = Schedule13("rfc", s, OurSecret, OurMsgs13)
    BY <1>3, ScheduleSame
  <2> QED
    BY <1>7, <1>8, <2>1 DEF OurSchedule
<1>10. Opens(s, TrafficCipher(i, s, hs), flight.sealed)
  <2> DEFINE rh == HandshakeTraffic("rfc", s, OurSecret, OurMsgs13)
  <2>1. HandshakeTraffic(i, s, OurSecret, OurMsgs13) = rh
    BY <1>3, ScheduleSame
  <2>4. hs = rh.server
    BY <1>7, <1>8, <2>1
  <2>2. TrafficCipher(i, s, rh.server) = TrafficCipher("rfc", s, rh.server)
    BY <1>3, TrafficCipherMade
  <2>3. OurSchedule.hs_cipher["server"] = TrafficCipher("rfc", s, rh.server)
    BY TwoRoles DEF OurSchedule, Schedule13, Ciphers13
  <2> HIDE DEF hs, rh
  <2> QED
    BY <1>5, <2>4, <2>2, <2>3 DEF Opens
<1>11. m[3].key = cert /\ m[4].scheme = Scheme /\ m[5] = Finished5
       /\ m[4].sig = Signed13(s, Scheme, Signed3)
  <2>1. m[3] = Certificate /\ m[4] = Verify3 /\ m[5] = Finished5
    BY <1>7, FiveMessages
  <2> HIDE DEF m
  <2> QED
    BY <2>1 DEF Certificate, Verify3, CertificateVerify
<1>12. verify_signature(Scheme, cert, Hash(s.hash_provider, SubSeq(m, 1, 3)), m[4].sig)
  <2> DEFINE h == Hash(s.hash_provider, Signed3)
  <2>1. cert = key /\ SubSeq(m, 1, 3) = Signed3
    BY <1>7, FiveMessages DEF CanConnect
  <2>2. m[4].sig = sign([key |-> Loaded.key, scheme |-> Scheme], h, {}, 0, 0)
    BY <1>11 DEF Signed13
  <2> HIDE DEF h
  <2>3. verify_signature(Scheme, key, h, sign([key |-> Loaded.key, scheme |-> Scheme], h, {}, 0, 0))
    BY <1>1, OursSigned
  <2> QED
    BY <2>1, <2>2, <2>3 DEF h
<1>13. Finished5 = ServerFinished13(i, s, dh.secret, SubSeq(m, 1, 4))
  <2>1. ServerFinished13(i, s, OurSecret, Signed4) = ServerFinished13("rfc", s, OurSecret, Signed4)
    BY <1>3, ScheduleSame
  <2> QED
    BY <1>7, <1>8, <2>1, FiveMessages DEF Finished5
<1>14. checked
  <2> HIDE DEF m, dh, hs, flight, hello
  <2> QED
    BY <1>2, <1>3, <1>4, <1>8, <1>10, <1>11, <1>12, <1>13
<1>15. HandshakeMade(i, s, dh.secret, m) /\ ApplicationMade(i, s, dh.secret, m)
  BY <1>3, ScheduleMade
<1> DEFINE f == Flight("finished", <<>>, Sealed(s, k.hs_cipher.client, <<k.client_finished>>))
<1>16. SuiteOf(i, reply.suite) = s
  BY <1>3, <1>8
<1>17. /\ pc' = [pc EXCEPT !["client"] = "connected"]
       /\ transcript' = [transcript EXCEPT !["client"] = Append(m, k.client_finished)]
       /\ secrets' = [secrets EXCEPT !["client"] =
                        Secrets13(reply.suite, k.ap, k.exporter, dh.secret)]
       /\ Reply("client", f)
  <2> HIDE DEF s
  <2> QED
    BY <1>14, <1>15, <1>16 DEF HandleServerFlight13, IfMade, Goto
<1>18. f = OurFinished13
  <2> HIDE DEF k
  <2> QED
    BY <1>9 DEF OurFinished13
<1> HIDE DEF f, k, m, dh, s
<1>19. inbox'["client"] = <<>> /\ inbox'["server"] = <<OurFinished13>>
  <2>1. inbox["client"] # <<>> /\ Reply("client", f)
    BY <1>2, <1>17, OneFlight
  <2>2. Takes("client") /\ Gets("server", f)
    BY <1>1, <2>1, Mails, TwoRoles
  <2> QED
    BY <1>2, <1>18, <2>2, OneFlight DEF Takes, Gets
<1>20. /\ pc'["client"] = "connected" /\ pc'["server"] = "wait_finished"
       /\ transcript'["server"] = OurMsgs13 /\ secrets'["server"] = secrets["server"]
  BY <1>1, <1>2, <1>17, TwoRoles
<1>21. inbox'["server"] # <<>> /\ Head(inbox'["server"]) = OurFinished13
  BY <1>19, OneFlight
<1> QED
  BY <1>2, <1>19, <1>20, <1>21, OursKept DEF Agreed13, At, Replied13, s

\* The server accepts the client's Finished.
LEMMA QuietConfirm13 ==
  ASSUME HsInv, CanConnect, Agreed13, HandleClientFinished
  PROVE  Done'
<1> DEFINE s == MySuite("server")
           flight == Head(inbox["server"])
           k == Schedule13(impl["server"], s, secrets["server"].dh, transcript["server"])
<1>1. StateOk /\ DOMAIN pc = Roles
  BY DEF HsInv, HandshakeTypeOK, StateOk
<1>2. /\ pc["client"] = "connected" /\ flight = OurFinished13
      /\ transcript["server"] = OurMsgs13 /\ secrets["server"].dh = OurSecret
      /\ secrets["server"].suite = Picked
  BY DEF Agreed13, At, Replied13
<1>3. /\ impl["server"] \in Impls /\ s = PickedSuite /\ s.kdf \in Hashes /\ s.aead_alg \in Aeads
  BY <1>1, <1>2, Ours, TwoRoles DEF MySuite
<1>4. k = OurSchedule
  <2>1. Schedule13(impl["server"], PickedSuite, OurSecret, OurMsgs13) =
          Schedule13("rfc", PickedSuite, OurSecret, OurMsgs13)
    BY <1>3, ScheduleSame
  <2> QED
    BY <1>2, <1>3, <2>1 DEF OurSchedule
<1> HIDE DEF k
<1>5. Opens(s, k.hs_cipher.client, flight.sealed) /\ flight.sealed.msgs = <<k.client_finished>>
  BY <1>2, <1>3, <1>4 DEF OurFinished13, Flight, Sealed, Opens
<1>6. pc' = [pc EXCEPT !["server"] = "connected"]
  BY <1>5 DEF HandleClientFinished, Goto, k
<1> QED
  BY <1>1, <1>2, <1>6, TwoRoles DEF Done, At

-----------------------------------------------------------------------------
(* TLS 1.2 to the end                                                      *)

\* Both ends of an exchange get one master secret, whoever computes it.
LEMMA MasterSame ==
  ASSUME StateOk, NEW i \in Impls, NEW s, NEW a \in 1 .. 3, NEW b \in 1 .. 3, NEW m
  PROVE  /\ MasterSecret12(i, s, start(group, a), start(group, b).pub_key, m) =
              MasterSecret12("rfc", s, start(group, b), start(group, a).pub_key, m)
         /\ MasterSecret12(i, s, start(group, a), start(group, b).pub_key, m) # NoBytes
<1> DEFINE x == complete(start(group, a), start(group, b).pub_key, TRUE)
           y == complete(start(group, b), start(group, a).pub_key, TRUE)
           label == Text("extended master secret")
           seed == Hash(s.hash_provider, m)
           out == prf(SecretBytes(x.secret), label \o seed, s.kdf, 48)
<1>1. x.ok /\ x = y
  BY ExchangesComplete
<1>2. i = "wolf" \/ i = "rfc"
  BY DEF Impls
<1> HIDE DEF x, y, label, seed
<1>3. MasterSecret12(i, s, start(group, a), start(group, b).pub_key, m) = out
  BY <1>1, <1>2 DEF MasterSecret12, for_key_exchange, wc_prf, x, label, seed
<1>4. MasterSecret12("rfc", s, start(group, b), start(group, a).pub_key, m) = out
  <2>1. MasterSecret12("rfc", s, start(group, b), start(group, a).pub_key, m) =
          IF ~y.ok THEN NoBytes ELSE prf(SecretBytes(y.secret), label \o seed, s.kdf, 48)
    BY DEF MasterSecret12, y, label, seed
  <2> QED
    BY <1>1, <2>1
<1>5. out # NoBytes
  <2>1. out[1].len = 48 /\ NoBytes[1].len = 0
    BY DEF prf, Slice, NoBytes
  <2> HIDE DEF out
  <2> QED
    BY <2>1
<1> QED
  BY <1>3, <1>4, <1>5

\* The messages of TLS 1.2, one by one.
OurSigned12 ==
  ServerKeyExchange(start(group, 2), Scheme,
    sign([key |-> Loaded.key, scheme |-> Scheme],
         Params(OurHello, OurReply12, start(group, 2).pub_key), {}, 0, 0))
\* The messages of TLS 1.2 taken apart as the two ends do.
LEMMA Messages12 ==
  /\ OurShares12[1] = OurReply12 /\ OurShares12[2] = Certificate /\ OurShares12[3] = OurSigned12
  /\ (<<OurHello>> \o OurShares12)[2] = OurReply12
  /\ OurMsgs12[1] = OurHello /\ IsSeq(OurMsgs12)
<1> DEFINE a == OurHello
           b == OurReply12
           c == Certificate
           d == OurSigned12
           e == ClientKeyExchange(start(group, 3))
<1>1. OurShares12 = <<b, c, d>>
  BY DEF OurShares12, OurSigned12
<1>2. OurMsgs12 = (<<a>> \o OurShares12) \o <<e>>
  BY DEF OurMsgs12
<1> HIDE DEF a, b, c, d, e
<1>3. <<a>> \o <<b, c, d>> = <<a, b, c, d>>
  BY JoinFour
<1>4. (<<a>> \o <<b, c, d>>) \o <<e>> = <<a, b, c, d, e>>
  BY JoinOuter
<1>5. IsSeq(<<a, b, c, d, e>>)
  BY ShortSeq
<1> DEFINE p == <<a, b, c, d>>
           q == <<a, b, c, d, e>>
<1>6. p[2] = b /\ q[1] = a
  OBVIOUS
<1>7. OurShares12[1] = b /\ OurShares12[2] = c /\ OurShares12[3] = d
  BY <1>1
<1> HIDE DEF p, q
<1>8. <<a>> \o OurShares12 = p
  BY <1>1, <1>3 DEF p
<1>9. OurMsgs12 = q
  BY <1>1, <1>2, <1>4 DEF q
<1>10. IsSeq(q)
  BY <1>5 DEF q
<1> QED
  BY <1>6, <1>7, <1>8, <1>9, <1>10 DEF a, b, c, d

\* What the two ends compute of them.
LEMMA Ours12 ==
  ASSUME StateOk, CanConnect, PickedSuite.version = "1.2", NEW r \in Roles
  PROVE  /\ MasterSecret12(impl[r], PickedSuite, start(group, 3), start(group, 2).pub_key,
                           OurMsgs12) = OurMaster
         /\ MasterSecret12(impl[r], PickedSuite, start(group, 2), start(group, 3).pub_key,
                           OurMsgs12) = OurMaster
         /\ OurMaster # NoBytes
         /\ KeyBlock(impl[r], PickedSuite, OurMaster, fill("client"), fill("server")) = OurBlock
         /\ KeysMade12(impl[r], PickedSuite, OurMaster, fill("client"), fill("server"), r)
         /\ ClientFinished12.mac # Panic /\ OurFinished12.mac # Panic
         /\ WireKey(PickedSuite, Read12(PickedSuite, OurBlock, r)) =
              WireKey(PickedSuite, Write12(PickedSuite, OurBlock, Other(r)))
         /\ Finished(FinishedMac12(impl[r], PickedSuite, OurMaster, "client finished", OurMsgs12)) =
              ClientFinished12
         /\ OurFinished12 =
              Finished(FinishedMac12(impl[r], PickedSuite, OurMaster, "server finished",
                                     OurMsgs12c))
<1> DEFINE i == impl[r]
           s == PickedSuite
           m == OurMsgs12
           M(j, a, b) == MasterSecret12(j, s, start(group, a), start(group, b).pub_key, m)
<1>1. i \in Impls /\ "rfc" \in Impls /\ s.aead_alg \in Aeads
  BY Ours DEF Impls
<1>2. 2 \in 1 .. 3 /\ 3 \in 1 .. 3
  OBVIOUS
<1> HIDE DEF m, s, i
<1>3. \A j \in Impls : \A a, b \in 1 .. 3 : M(j, a, b) = M("rfc", b, a) /\ M(j, a, b) # NoBytes
  BY MasterSame
<1>4. OurMaster = M("rfc", 2, 3)
  BY DEF OurMaster, m, s
<1> HIDE DEF M
<1>5. M(i, 3, 2) = OurMaster /\ M(i, 2, 3) = OurMaster /\ OurMaster # NoBytes
  BY <1>1, <1>2, <1>3, <1>4
<1>6. /\ KeyBlock(i, s, OurMaster, fill("client"), fill("server")) = OurBlock
      /\ KeysMade12(i, s, OurMaster, fill("client"), fill("server"), r)
      /\ WireKey(s, Read12(s, OurBlock, r)) = WireKey(s, Write12(s, OurBlock, Other(r)))
  <2> DEFINE cr == fill("client")
             sr == fill("server")
             b == KeyBlock(i, s, OurMaster, cr, sr)
  <2>1. s.version = "1.2"
    BY DEF s
  <2>2. /\ b = KeyBlock("rfc", s, OurMaster, cr, sr)
        /\ KeysMade12(i, s, OurMaster, cr, sr, r)
        /\ WireKey(s, Read12(s, b, r)) = WireKey(s, Write12(s, b, Other(r)))
    <3> DEFINE ms == OurMaster
    <3> HIDE DEF cr, sr, ms
    <3>1. /\ KeyBlock(i, s, ms, cr, sr) = KeyBlock("rfc", s, ms, cr, sr)
          /\ KeysMade12(i, s, ms, cr, sr, r)
          /\ WireKey(s, Read12(s, KeyBlock(i, s, ms, cr, sr), r)) =
               WireKey(s, Write12(s, KeyBlock(i, s, ms, cr, sr), Other(r)))
          /\ KeyFits(Installed(r, "application", s, Write12(s, KeyBlock(i, s, ms, cr, sr), r)))
      BY <1>1, <2>1, Made12
    <3> QED
      BY <3>1 DEF ms
  <2>3. KeyBlock("rfc", s, OurMaster, fill("client"), fill("server")) = OurBlock
    BY DEF OurBlock, s
  <2> HIDE DEF b
  <2>4. b = OurBlock
    BY <2>2, <2>3
  <2> QED
    BY <2>2, <2>4 DEF b
<1>7. \A role, n : FinishedMac12(i, s, OurMaster, role, n) =
                     FinishedMac12("rfc", s, OurMaster, role, n)
  BY <1>1, FinishedSame12
<1>8. /\ Finished(FinishedMac12(i, s, OurMaster, "client finished", m)) = ClientFinished12
      /\ Finished(FinishedMac12(i, s, OurMaster, "server finished", OurMsgs12c)) = OurFinished12
  BY <1>7 DEF ClientFinished12, OurFinished12, m, s
<1>9. ClientFinished12.mac # Panic /\ OurFinished12.mac # Panic
  BY <1>1, FinishedSame12 DEF ClientFinished12, OurFinished12
<1> QED
  BY <1>5, <1>6, <1>8, <1>9 DEF M, i, s, m

\* The client verifies the signed share and has the master secret and the keys.
LEMMA QuietAgree12 ==
  ASSUME HsInv, CanConnect, UNCHANGED config, Answered12, HandleServerFlight12
  PROVE  Agreed12'
<1> DEFINE i == impl["client"]
           s == PickedSuite
           flight == Head(inbox["client"])
           box == start(group, 3)
           share == start(group, 2).pub_key
           f0 == Flight("server12", OurShares12, NothingSealed)
           writer == Write12(s, OurBlock, "client")
           f == Flight("client12", <<ClientKeyExchange(box)>>,
                       Sealed(s, writer, <<ClientFinished12>>))
           held == Secrets12(Picked, OurBlock, OurMaster, fill("client"), fill("server"))
<1>1. /\ StateOk /\ DOMAIN pc = Roles /\ DOMAIN transcript = Roles /\ DOMAIN secrets = Roles
      /\ DOMAIN kx = Roles
  BY DEF HsInv, HandshakeTypeOK, StateOk
<1>2. /\ inbox["client"] = <<f0>> /\ inbox["server"] = <<>>
      /\ pc["client"] = "wait_server" /\ pc["server"] = "wait_client" /\ nextKey = 3
      /\ transcript["client"] = <<OurHello>> /\ s.version = "1.2"
      /\ transcript["server"] = <<OurHello>> \o OurShares12 /\ kx["server"] = start(group, 2)
  BY DEF Answered12, At, Boxes, Replied12
<1>3. /\ i \in Impls /\ SuiteOf(i, Picked) = s
      /\ Picked \in Range(suites["client"]) /\ OurHello.random = fill("client")
      /\ Scheme \in OurHello.schemes
  BY <1>1, <1>2, Ours, TwoRoles
<1>4. flight = f0 /\ transcript["client"][1] = OurHello
  BY <1>2, OneFlight
<1>5. flight.clear = OurShares12
  BY <1>4 DEF Flight
<1>6. /\ flight.clear[1] = OurReply12 /\ flight.clear[2] = Certificate
      /\ flight.clear[3] = OurSigned12
  BY <1>5, Messages12
<1>7. start(group, 2) # None
  <2>1. 2 \in 1 .. 3
    OBVIOUS
  <2> QED
    BY <1>1, <2>1, ExchangesComplete
<1> DEFINE x == sign([key |-> Loaded.key, scheme |-> Scheme],
                     Params(OurHello, OurReply12, share), {}, 0, 0)
<1>8. /\ OurReply12.suite = Picked /\ OurReply12.random = fill("server")
      /\ Certificate.key = cert
      /\ OurSigned12.share = share /\ OurSigned12.scheme = Scheme /\ OurSigned12.sig = x
  BY <1>7 DEF OurReply12, ServerHello, Certificate, OurSigned12, ServerKeyExchange, Share
<1>9. verify_signature(Scheme, cert, Params(OurHello, OurReply12, share), x)
  <2> DEFINE p == Params(OurHello, OurReply12, share)
  <2> HIDE DEF p
  <2>1. verify_signature(Scheme, key, p, sign([key |-> Loaded.key, scheme |-> Scheme], p, {}, 0, 0))
    BY <1>1, OursSigned
  <2>2. cert = key
    BY DEF CanConnect
  <2> QED
    BY <2>1, <2>2 DEF p
<1> HIDE DEF x
<1>10. <<OurHello>> \o OurShares12 \o <<ClientKeyExchange(box)>> = OurMsgs12
  BY DEF OurMsgs12
<1>11. /\ MasterSecret12(i, s, box, share, OurMsgs12) = OurMaster /\ OurMaster # NoBytes
       /\ KeyBlock(i, s, OurMaster, fill("client"), fill("server")) = OurBlock
       /\ KeysMade12(i, s, OurMaster, fill("client"), fill("server"), "client")
       /\ ClientFinished12.mac # Panic
       /\ Finished(FinishedMac12(i, s, OurMaster, "client finished", OurMsgs12)) = ClientFinished12
  BY <1>1, <1>2, Ours12, TwoRoles
<1> DEFINE m == <<transcript["client"][1]>> \o flight.clear
                  \o <<ClientKeyExchange(start(group, nextKey))>>
           ms == MasterSecret12(i, s, start(group, nextKey), flight.clear[3].share, m)
<1>12. m = OurMsgs12
  BY <1>2, <1>4, <1>5, <1>10
<1>13. ms = OurMaster
  BY <1>2, <1>6, <1>8, <1>11, <1>12
<1>14. /\ pc' = [pc EXCEPT !["client"] = "wait_finished"]
       /\ kx' = [kx EXCEPT !["client"] = None]
       /\ transcript' = [transcript EXCEPT !["client"] = Append(OurMsgs12, ClientFinished12)]
       /\ secrets' = [secrets EXCEPT !["client"] = held]
       /\ Reply("client", f)
  <2> HIDE DEF s
  <2>1. SuiteOf(i, flight.clear[1].suite) = s
    BY <1>3, <1>6, <1>8
  <2>2. KeyBlock(i, s, ms, transcript["client"][1].random, flight.clear[1].random) = OurBlock
    BY <1>3, <1>4, <1>6, <1>8, <1>11, <1>13
  <2>3. Finished(FinishedMac12(i, s, ms, "client finished", m)) = ClientFinished12
    BY <1>11, <1>12, <1>13
  <2>4. /\ flight.clear[1].suite \in Range(suites["client"]) /\ s.version = "1.2"
        /\ flight.clear[2].key = cert
        /\ flight.clear[3].scheme \in transcript["client"][1].schemes
        /\ verify_signature(flight.clear[3].scheme, cert,
             Params(transcript["client"][1], flight.clear[1], flight.clear[3].share),
             flight.clear[3].sig)
        /\ ms # NoBytes
    BY <1>2, <1>3, <1>4, <1>6, <1>8, <1>9, <1>11, <1>13
  <2>5. /\ flight.clear[1].suite = Picked /\ start(group, nextKey) = box
        /\ transcript["client"][1].random = fill("client")
        /\ flight.clear[1].random = fill("server")
    BY <1>2, <1>3, <1>4, <1>6, <1>8
  <2> HIDE DEF flight, box, writer, i
  <2>6. LET w == Write12(s, OurBlock, "client") IN
        IfMade("client", /\ KeysMade12(i, s, ms, transcript["client"][1].random,
                                       flight.clear[1].random, "client")
                         /\ ClientFinished12.mac # Panic,
             /\ Goto("client", "wait_finished")
             /\ kx' = [kx EXCEPT !["client"] = None]
             /\ nextKey' = nextKey + 1
             /\ transcript' = [transcript EXCEPT !["client"] = Append(m, ClientFinished12)]
             /\ secrets' = [secrets EXCEPT !["client"] =
                  Secrets12(flight.clear[1].suite, OurBlock, ms, transcript["client"][1].random,
                            flight.clear[1].random)]
             /\ installed' = installed \cup {Installed("client", "application", s, w)}
             /\ Reply("client", Flight("client12", <<ClientKeyExchange(start(group, nextKey))>>,
                                       Sealed(s, w, <<ClientFinished12>>)))
             /\ UNCHANGED <<session, updates>>)
    BY <2>1, <2>2, <2>3, <2>4 DEF HandleServerFlight12, flight, i
  <2> QED
    BY <1>11, <1>12, <1>13, <2>5, <2>6 DEF IfMade, Goto, writer
<1> HIDE DEF f, f0, held
<1>15. inbox'["client"] = <<>> /\ inbox'["server"] = <<f>>
  <2>1. inbox["client"] # <<>> /\ Reply("client", f)
    BY <1>2, <1>14, OneFlight
  <2>2. Takes("client") /\ Gets("server", f)
    BY <1>1, <2>1, Mails, TwoRoles
  <2> QED
    BY <1>2, <2>2, OneFlight DEF Takes, Gets
<1>16. /\ pc'["client"] = "wait_finished" /\ pc'["server"] = "wait_client"
       /\ transcript'["client"] = OurMsgs12c /\ secrets'["client"] = held
       /\ transcript'["server"] = <<OurHello>> \o OurShares12 /\ kx'["server"] = start(group, 2)
  BY <1>1, <1>2, <1>14, TwoRoles DEF OurMsgs12c
<1>17. group' = group
  BY DEF config
<1> QED
  BY <1>2, <1>15, <1>16, <1>17, OursKept DEF Agreed12, At, Boxes, Holding12, Replied12, f, held

\* The server has the same, opens the client's Finished and sends its own.
LEMMA QuietAccept12 ==
  ASSUME HsInv, CanConnect, UNCHANGED config, Agreed12, HandleClientFlight12
  PROVE  Confirmed12'
<1> DEFINE i == impl["server"]
           s == PickedSuite
           flight == Head(inbox["server"])
           reader == Read12(s, OurBlock, "server")
           writer == Write12(s, OurBlock, "server")
           f0 == Flight("client12", <<ClientKeyExchange(start(group, 3))>>,
                        Sealed(s, Write12(s, OurBlock, "client"), <<ClientFinished12>>))
           f == Flight("finished", <<>>, Sealed(s, writer, <<OurFinished12>>))
           held == Secrets12(Picked, OurBlock, OurMaster, fill("client"), fill("server"))
<1>1. /\ StateOk /\ DOMAIN pc = Roles /\ DOMAIN transcript = Roles /\ DOMAIN secrets = Roles
  BY DEF HsInv, HandshakeTypeOK, StateOk
<1>2. /\ inbox["server"] = <<f0>> /\ inbox["client"] = <<>>
      /\ pc["client"] = "wait_finished" /\ pc["server"] = "wait_client"
      /\ transcript["client"] = OurMsgs12c /\ s.version = "1.2" /\ secrets["client"] = held
      /\ transcript["server"] = <<OurHello>> \o OurShares12 /\ kx["server"] = start(group, 2)
  BY DEF Agreed12, At, Boxes, Replied12, Holding12
<1>3. /\ i \in Impls /\ SuiteOf(i, Picked) = s /\ OurHello.random = fill("client")
  BY <1>1, <1>2, Ours, TwoRoles
<1>4. flight = f0
  BY <1>2, OneFlight
<1>5. start(group, 3) # None
  <2>1. 3 \in 1 .. 3
    OBVIOUS
  <2> QED
    BY <1>1, <2>1, ExchangesComplete
<1>6. /\ flight.clear = <<ClientKeyExchange(start(group, 3))>>
      /\ flight.clear[1].share = start(group, 3).pub_key
      /\ flight.sealed.by = WireKey(s, Write12(s, OurBlock, "client"))
      /\ flight.sealed.msgs = <<ClientFinished12>>
  BY <1>4, <1>5 DEF Flight, Sealed, ClientKeyExchange, Share
<1>7. transcript["server"][2] = OurReply12
  BY <1>2, Messages12
<1>8. OurReply12.suite = Picked /\ OurReply12.random = fill("server")
  BY DEF OurReply12, ServerHello
<1> DEFINE m == transcript["server"] \o flight.clear
<1>9. m = OurMsgs12
  BY <1>2, <1>6 DEF OurMsgs12
<1>10. m[1] = OurHello /\ IsSeq(m)
  BY <1>9, Messages12
<1>11. m \o flight.sealed.msgs = OurMsgs12c
  BY <1>6, <1>9, <1>10, JoinLast DEF OurMsgs12c
<1>12. /\ MasterSecret12(i, s, start(group, 2), start(group, 3).pub_key, OurMsgs12) = OurMaster
       /\ OurMaster # NoBytes
       /\ KeyBlock(i, s, OurMaster, fill("client"), fill("server")) = OurBlock
       /\ KeysMade12(i, s, OurMaster, fill("client"), fill("server"), "server")
       /\ ClientFinished12.mac # Panic /\ OurFinished12.mac # Panic
       /\ WireKey(s, reader) = WireKey(s, Write12(s, OurBlock, "client"))
       /\ Finished(FinishedMac12(i, s, OurMaster, "client finished", OurMsgs12)) = ClientFinished12
       /\ Finished(FinishedMac12(i, s, OurMaster, "server finished", OurMsgs12c)) = OurFinished12
  <2>1. "server" \in Roles /\ Other("server") = "client"
    BY TwoRoles
  <2>2. /\ MasterSecret12(i, s, start(group, 2), start(group, 3).pub_key, OurMsgs12) = OurMaster
        /\ OurMaster # NoBytes
        /\ KeyBlock(i, s, OurMaster, fill("client"), fill("server")) = OurBlock
        /\ KeysMade12(i, s, OurMaster, fill("client"), fill("server"), "server")
        /\ ClientFinished12.mac # Panic /\ OurFinished12.mac # Panic
        /\ WireKey(s, reader) = WireKey(s, Write12(s, OurBlock, Other("server")))
        /\ Finished(FinishedMac12(i, s, OurMaster, "client finished", OurMsgs12)) =
             ClientFinished12
        /\ Finished(FinishedMac12(i, s, OurMaster, "server finished", OurMsgs12c)) =
             OurFinished12
    BY <1>1, <1>2, <2>1, Ours12
  <2> HIDE DEF reader, writer
  <2> QED
    BY <2>1, <2>2
<1> DEFINE ms == MasterSecret12(i, s, kx["server"], flight.clear[1].share, m)
<1>13. ms = OurMaster
  BY <1>2, <1>6, <1>9, <1>12
<1>14. SuiteOf(i, transcript["server"][2].suite) = s
  BY <1>3, <1>7, <1>8
<1>15. KeyBlock(i, s, ms, m[1].random, transcript["server"][2].random) = OurBlock
  BY <1>3, <1>7, <1>8, <1>10, <1>12, <1>13
<1>16. Finished(FinishedMac12(i, s, ms, "server finished", m \o flight.sealed.msgs)) = OurFinished12
  BY <1>11, <1>12, <1>13
<1>17. AcceptClient12(i, s, OurReply12, OurMaster, OurBlock, OurMsgs12, OurFinished12)
  <2> HIDE DEF s, m
  <2> QED
    BY <1>7, <1>9, <1>12, <1>13, <1>14, <1>15, <1>16 DEF HandleClientFlight12, m
<1>18. Opens(s, reader, flight.sealed)
  BY <1>6, <1>12 DEF Opens
<1>19. /\ pc' = [pc EXCEPT !["server"] = "connected"]
       /\ transcript' = [transcript EXCEPT !["server"] =
            OurMsgs12 \o flight.sealed.msgs \o <<OurFinished12>>]
       /\ secrets' = [secrets EXCEPT !["server"] =
            Secrets12(OurReply12.suite, OurBlock, OurMaster, OurMsgs12[1].random,
                      OurReply12.random)]
       /\ Reply("server", f)
  <2> HIDE DEF s
  <2>1. OurMsgs12[1].random = fill("client") /\ OurReply12.random = fill("server")
    BY <1>3, <1>8, <1>9, <1>10
  <2> QED
    BY <1>6, <1>12, <1>17, <1>18, <2>1 DEF AcceptClient12, IfMade, Goto
<1>20. Secrets12(OurReply12.suite, OurBlock, OurMaster, OurMsgs12[1].random,
                 OurReply12.random).suite = Picked
  BY <1>8 DEF Secrets12
<1> HIDE DEF f, f0, held
<1>21. inbox'["server"] = <<>> /\ inbox'["client"] = <<f>>
  <2>1. inbox["server"] # <<>> /\ Reply("server", f)
    BY <1>2, <1>19, OneFlight
  <2>2. Takes("server") /\ Gets("client", f)
    BY <1>1, <2>1, Mails, TwoRoles
  <2> QED
    BY <1>2, <2>2, OneFlight DEF Takes, Gets
<1>22. /\ pc'["client"] = "wait_finished" /\ pc'["server"] = "connected"
       /\ transcript'["client"] = OurMsgs12c /\ secrets'["client"] = held
       /\ secrets'["server"].suite = Picked
  BY <1>1, <1>2, <1>19, <1>20, TwoRoles
<1> QED
  BY <1>2, <1>21, <1>22, OursKept DEF Confirmed12, At, Boxes, Holding12, f, held

\* The client accepts the server's Finished.
LEMMA QuietConfirm12 ==
  ASSUME HsInv, CanConnect, Confirmed12, HandleServerFinished
  PROVE  Done'
<1> DEFINE i == impl["client"]
           s == PickedSuite
           flight == Head(inbox["client"])
           writer == Write12(s, OurBlock, "server")
           f0 == Flight("finished", <<>>, Sealed(s, writer, <<OurFinished12>>))
           held == Secrets12(Picked, OurBlock, OurMaster, fill("client"), fill("server"))
<1>1. StateOk /\ DOMAIN pc = Roles
  BY DEF HsInv, HandshakeTypeOK, StateOk
<1>2. /\ inbox["client"] = <<f0>> /\ pc["server"] = "connected" /\ s.version = "1.2"
      /\ transcript["client"] = OurMsgs12c /\ secrets["client"] = held
  BY DEF Confirmed12, At, Boxes, Holding12
<1>3. i \in Impls /\ SuiteOf(i, Picked) = s
  BY <1>1, Ours, TwoRoles
<1>4. held.suite = Picked /\ held.exporter = OurMaster /\ held.block = OurBlock
  BY DEF Secrets12
<1> HIDE DEF held
<1>5. MySuite("client") = s
  BY <1>2, <1>3, <1>4 DEF MySuite
<1>6. Reader("client") = Read12(s, OurBlock, "client")
  BY <1>2, <1>4, <1>5 DEF Reader
<1>7. /\ WireKey(s, Read12(s, OurBlock, "client")) = WireKey(s, writer)
      /\ Finished(FinishedMac12(i, s, OurMaster, "server finished", OurMsgs12c)) = OurFinished12
      /\ OurFinished12.mac # Panic
  BY <1>1, <1>2, Ours12, TwoRoles
<1>8. flight = f0
  BY <1>2, OneFlight
<1>9. flight.sealed.by = WireKey(s, writer) /\ flight.sealed.msgs = <<OurFinished12>>
  BY <1>8 DEF Flight, Sealed
<1>10. Opens(s, Reader("client"), flight.sealed)
  BY <1>6, <1>7, <1>9 DEF Opens
<1> DEFINE fin == Finished(FinishedMac12(i, s, secrets["client"].exporter, "server finished",
                                         transcript["client"]))
<1>11. flight.sealed.msgs = <<fin>> /\ fin.mac # Panic
  BY <1>2, <1>4, <1>7, <1>9
<1>12. pc' = [pc EXCEPT !["client"] = "connected"]
  <2> HIDE DEF s, flight
  <2> QED
    BY <1>5, <1>10, <1>11 DEF HandleServerFinished, IfMade, Goto, flight
<1> QED
  BY <1>1, <1>2, <1>12, TwoRoles DEF Done, At

-----------------------------------------------------------------------------
(* The whole course                                                        *)

\* What each step of the handshake waits for.
LEMMA Guards ==
  ASSUME Step
  PROVE  /\ UNCHANGED <<config, altered, faulted>>
         /\ \/ SendClientHello /\ pc["client"] = "start"
            \/ HandleClientHello /\ pc["server"] = "start" /\ Pending("server", "hello")
            \/ /\ HandleServerFlight13
               /\ pc["client"] = "wait_server" /\ Pending("client", "server13")
            \/ /\ HandleClientFinished
               /\ pc["server"] = "wait_finished" /\ Pending("server", "finished")
            \/ /\ HandleServerFlight12
               /\ pc["client"] = "wait_server" /\ Pending("client", "server12")
            \/ /\ HandleClientFlight12
               /\ pc["server"] = "wait_client" /\ Pending("server", "client12")
            \/ /\ HandleServerFinished
               /\ pc["client"] = "wait_finished" /\ Pending("client", "finished")
            \/ \E r \in Roles :
                 HandleKeyUpdate(r) /\ pc[r] = "connected" /\ Pending(r, "key_update")
<1>1. SendClientHello => pc["client"] = "start"
  BY DEF SendClientHello
<1>2. HandleClientHello => pc["server"] = "start" /\ Pending("server", "hello")
  BY DEF HandleClientHello
<1>3. HandleServerFlight13 => pc["client"] = "wait_server" /\ Pending("client", "server13")
  BY DEF HandleServerFlight13
<1>4. HandleClientFinished => pc["server"] = "wait_finished" /\ Pending("server", "finished")
  BY DEF HandleClientFinished
<1>5. HandleServerFlight12 => pc["client"] = "wait_server" /\ Pending("client", "server12")
  BY DEF HandleServerFlight12
<1>6. HandleClientFlight12 => pc["server"] = "wait_client" /\ Pending("server", "client12")
  BY DEF HandleClientFlight12
<1>7. HandleServerFinished => pc["client"] = "wait_finished" /\ Pending("client", "finished")
  BY DEF HandleServerFinished
<1>8. \A r \in Roles : HandleKeyUpdate(r) => pc[r] = "connected" /\ Pending(r, "key_update")
  BY DEF HandleKeyUpdate
<1> QED
  BY <1>1, <1>2, <1>3, <1>4, <1>5, <1>6, <1>7, <1>8 DEF Step

\* An inbox that is empty or holds one flight.
LEMMA WhatPends ==
  ASSUME NEW r \in Roles, NEW kind
  PROVE  /\ inbox[r] = <<>> => ~Pending(r, kind)
         /\ \A f : inbox[r] = <<f>> /\ Pending(r, kind) => f.kind = kind
BY OneFlight DEF Pending

\* Each phase but the last has one step that continues it.
LEMMA QuietStep ==
  ASSUME HsInv, CanConnect, Step,
         Starting \/ Greeted \/ Answered13 \/ Agreed13 \/ Answered12 \/ Agreed12 \/ Confirmed12
  PROVE  \/ Greeted' \/ Answered13' \/ Agreed13'
         \/ Answered12' \/ Agreed12' \/ Confirmed12' \/ Done'
<1>1. UNCHANGED config
  BY Guards
<1>2. "client" \in Roles /\ "server" \in Roles /\ \A r \in Roles : r = "client" \/ r = "server"
  BY TwoRoles
<1>3. CASE Starting
  <2>1. /\ pc["client"] = "start" /\ pc["server"] = "start"
        /\ inbox["client"] = <<>> /\ inbox["server"] = <<>>
    BY <1>3 DEF Starting, At, Boxes
  <2>2. \A r \in Roles : \A kind : ~Pending(r, kind)
    BY <1>2, <2>1, WhatPends
  <2>3. SendClientHello
    BY <2>2, <1>2, Guards
  <2> QED
    BY <1>1, <1>3, <2>3, QuietHello
<1>4. CASE Greeted
  <2>1. /\ pc["client"] = "wait_server" /\ pc["server"] = "start" /\ inbox["client"] = <<>>
    BY <1>4 DEF Greeted, At, Boxes
  <2>2. \A kind : ~Pending("client", kind)
    BY <1>2, <2>1, WhatPends
  <2>3. HandleClientHello
    BY <1>2, <2>1, <2>2, Guards
  <2> QED
    BY <1>1, <1>4, <2>3, QuietAnswer
<1>5. CASE Answered13
  <2>1. /\ pc["client"] = "wait_server" /\ pc["server"] = "wait_finished"
        /\ inbox["server"] = <<>> /\ inbox["client"] = <<OurFlight13>>
    BY <1>5 DEF Answered13, At, Boxes
  <2>2. \A kind : ~Pending("server", kind)
    BY <1>2, <2>1, WhatPends
  <2>3. OurFlight13.kind = "server13"
    BY DEF OurFlight13, Flight
  <2>4. ~Pending("client", "server12")
    BY <1>2, <2>1, <2>3, WhatPends
  <2>5. HandleServerFlight13
    BY <1>2, <2>1, <2>2, <2>4, Guards
  <2> QED
    BY <1>1, <1>5, <2>5, QuietAgree13
<1>6. CASE Agreed13
  <2>1. /\ pc["client"] = "connected" /\ pc["server"] = "wait_finished" /\ inbox["client"] = <<>>
    BY <1>6 DEF Agreed13, At
  <2>2. \A kind : ~Pending("client", kind)
    BY <1>2, <2>1, WhatPends
  <2>3. HandleClientFinished
    BY <1>2, <2>1, <2>2, Guards
  <2> QED
    BY <1>6, <2>3, QuietConfirm13
<1>7. CASE Answered12
  <2> DEFINE f == Flight("server12", OurShares12, NothingSealed)
  <2>1. /\ pc["client"] = "wait_server" /\ pc["server"] = "wait_client"
        /\ inbox["server"] = <<>> /\ inbox["client"] = <<f>>
    BY <1>7 DEF Answered12, At, Boxes
  <2>2. \A kind : ~Pending("server", kind)
    BY <1>2, <2>1, WhatPends
  <2>3. f.kind = "server12"
    BY DEF Flight
  <2> HIDE DEF f
  <2>4. ~Pending("client", "server13")
    BY <1>2, <2>1, <2>3, WhatPends
  <2>5. HandleServerFlight12
    BY <1>2, <2>1, <2>2, <2>4, Guards
  <2> QED
    BY <1>1, <1>7, <2>5, QuietAgree12
<1>8. CASE Agreed12
  <2>1. /\ pc["client"] = "wait_finished" /\ pc["server"] = "wait_client" /\ inbox["client"] = <<>>
    BY <1>8 DEF Agreed12, At, Boxes
  <2>2. \A kind : ~Pending("client", kind)
    BY <1>2, <2>1, WhatPends
  <2>3. HandleClientFlight12
    BY <1>2, <2>1, <2>2, Guards
  <2> QED
    BY <1>1, <1>8, <2>3, QuietAccept12
<1>9. CASE Confirmed12
  <2>1. /\ pc["client"] = "wait_finished" /\ pc["server"] = "connected" /\ inbox["server"] = <<>>
    BY <1>9 DEF Confirmed12, At, Boxes
  <2>2. \A kind : ~Pending("server", kind)
    BY <1>2, <2>1, WhatPends
  <2>3. HandleServerFinished
    BY <1>2, <2>1, <2>2, Guards
  <2> QED
    BY <1>9, <2>3, QuietConfirm12
<1> QED
  BY <1>3, <1>4, <1>5, <1>6, <1>7, <1>8, <1>9

\* Once both ends are connected, all they handle are key updates, which open.
LEMMA QuietDone ==
  ASSUME HsInv, RatchetInv, SealInv, altered = 0, Done, Step
  PROVE  Done'
<1>1. pc["client"] = "connected" /\ pc["server"] = "connected"
  BY DEF Done, At
<1>2. PICK r \in Roles : HandleKeyUpdate(r) /\ pc[r] = "connected" /\ Pending(r, "key_update")
  BY <1>1, Guards
<1>3. Opens(MySuite(r), Reader(r), Head(inbox[r]).sealed)
  BY <1>2, UpdateOpens
<1>4. pc' = pc
  <2>1. NextMade(r, Other(r))
    BY <1>2, UpdateMade
  <2> QED
    BY <1>2, <1>3, <2>1 DEF HandleKeyUpdate, IfMade
<1> QED
  BY <1>1, <1>4 DEF Done, At

\* A key update comes after what its receiver still has to read.
LEMMA QuietUpdate ==
  ASSUME HsInv, CanConnect, UNCHANGED config, NEW r \in Roles, SendKeyUpdate(r),
         \/ Starting \/ Greeted \/ Answered13 \/ Agreed13
         \/ Answered12 \/ Agreed12 \/ Confirmed12 \/ Done
  PROVE  Agreed13' \/ Done'
<1> DEFINE f == Flight("key_update", <<>>, Sealed(MySuite(r), Writer(r), <<>>))
<1>1. /\ pc[r] = "connected" /\ MySuite(r).version = "1.3" /\ Post(r, f)
      /\ pc' = pc /\ transcript' = transcript /\ secrets' = Updated(r, r)
  <2>1. NextMade(r, r)
    BY UpdateMade DEF SendKeyUpdate
  <2> QED
    BY <2>1 DEF SendKeyUpdate, IfMade
<1>2. StateOk /\ InboxInv /\ (r = "client" \/ r = "server")
  BY TwoRoles DEF HsInv
<1>3. CASE Done
  BY <1>1, <1>3 DEF Done, At
<1>4. CASE Confirmed12
  <2>1. /\ pc["client"] = "wait_finished" /\ secrets["server"].suite = Picked
        /\ PickedSuite.version = "1.2"
    BY <1>4 DEF Confirmed12, At, Holding12
  <2>2. SuiteOf(impl["server"], Picked) = PickedSuite
    BY <1>2, Ours, TwoRoles
  <2>3. MySuite("server").version = "1.2"
    BY <2>1, <2>2 DEF MySuite
  <2> QED
    BY <1>1, <1>2, <2>1, <2>3
<1>5. CASE Agreed13
  <2>1. /\ pc["client"] = "connected" /\ pc["server"] = "wait_finished" /\ inbox["client"] = <<>>
        /\ inbox["server"] # <<>> /\ Head(inbox["server"]) = OurFinished13
        /\ transcript["server"] = OurMsgs13 /\ secrets["server"].dh = OurSecret
        /\ secrets["server"].suite = Picked /\ PickedSuite.version = "1.3"
    BY <1>5 DEF Agreed13, At, Replied13
  <2>2. r = "client"
    BY <1>1, <1>2, <2>1
  <2> HIDE DEF f
  <2>3. Waits("client") /\ Gets("server", f)
    BY <1>1, <1>2, <2>2, Mails, TwoRoles
  <2>4. inbox'["client"] = <<>> /\ inbox'["server"] = Append(inbox["server"], f)
    BY <2>1, <2>3 DEF Waits, Gets
  <2>5. IsSeq(inbox["server"])
    BY <1>2, TwoRoles DEF InboxInv
  <2>6. inbox'["server"] # <<>> /\ Head(inbox'["server"]) = OurFinished13
    <3> DEFINE q == inbox["server"]
               S == Range(q) \cup {f}
    <3>1. q \in Seq(S) /\ f \in S /\ q # <<>>
      BY <2>1, <2>5 DEF IsSeq
    <3> HIDE DEF q, S
    <3>2. Append(q, f) # <<>> /\ Head(Append(q, f)) = Head(q)
      BY <3>1
    <3> QED
      BY <2>1, <2>4, <3>2 DEF q
  <2>7. secrets'["server"] = secrets["server"]
    BY <1>1, <1>2, <2>2, TwoRoles DEF Updated, StateOk
  <2> QED
    BY <1>1, <2>1, <2>4, <2>6, <2>7, OursKept DEF Agreed13, At, Replied13
<1>6. CASE Starting \/ Greeted \/ Answered13 \/ Answered12 \/ Agreed12
  BY <1>1, <1>2, <1>6 DEF Starting, Greeted, Answered13, Answered12, Agreed12, At
<1> QED
  BY <1>3, <1>4, <1>5, <1>6

\* Nothing happens.
LEMMA QuietStutter ==
  ASSUME UNCHANGED vars,
         \/ Starting \/ Greeted \/ Answered13 \/ Agreed13
         \/ Answered12 \/ Agreed12 \/ Confirmed12 \/ Done
  PROVE  \/ Starting' \/ Greeted' \/ Answered13' \/ Agreed13'
         \/ Answered12' \/ Agreed12' \/ Confirmed12' \/ Done'
<1>1. /\ UNCHANGED config /\ pc' = pc /\ kx' = kx /\ nextKey' = nextKey
      /\ transcript' = transcript /\ secrets' = secrets /\ inbox' = inbox
  BY DEF vars
<1>2. group' = group
  BY <1>1 DEF config
<1>3. \A c, s : At(c, s)' = At(c, s) /\ Boxes(c, s)' = Boxes(c, s)
  BY <1>1 DEF At, Boxes
<1>4. Starting => Starting'
  BY <1>1 DEF Starting, At, Boxes
<1>5. Greeted => Greeted'
  BY <1>1, OursKept DEF Greeted, At, Boxes
<1>6. Answered13 => Answered13'
  BY <1>1, OursKept DEF Answered13, At, Boxes, Replied13
<1>7. Agreed13 => Agreed13'
  BY <1>1, OursKept DEF Agreed13, At, Replied13
<1>8. Answered12 => Answered12'
  BY <1>1, <1>2, OursKept DEF Answered12, At, Boxes, Replied12
<1>9. Agreed12 => Agreed12'
  BY <1>1, <1>2, OursKept DEF Agreed12, At, Boxes, Replied12, Holding12
<1>10. Confirmed12 => Confirmed12'
  BY <1>1, <1>2, OursKept DEF Confirmed12, At, Boxes, Holding12
<1>11. Done => Done'
  BY <1>1 DEF Done, At
<1> QED
  BY <1>4, <1>5, <1>6, <1>7, <1>8, <1>9, <1>10, <1>11

\* Every step keeps an undisturbed connection on its course; what disturbs it is
\* counted.
LEMMA QuietKept ==
  ASSUME HsInv, RatchetInv, SealInv, QuietInv, [Next]_vars
  PROVE  QuietInv'
<1> SUFFICES ASSUME Undisturbed', CanConnect'
             PROVE  \/ Starting' \/ Greeted' \/ Answered13' \/ Agreed13'
                    \/ Answered12' \/ Agreed12' \/ Confirmed12' \/ Done'
  BY DEF QuietInv
<1>1. altered \in Nat /\ faulted \in [Roles -> BOOLEAN]
  BY HandshakeAssumption DEF HsInv, HandshakeTypeOK, StateOk
<1>2. altered' = 0 /\ \A r \in Roles : ~faulted'[r]
  BY DEF Undisturbed
<1>3. ASSUME NEW r \in Roles, NEW how \in {"failed", "panicked"}, Fault(r, how) PROVE FALSE
  BY <1>1, <1>2, <1>3 DEF Fault
<1>4. ASSUME NEW r \in Roles, Alter(r) PROVE FALSE
  BY <1>1, <1>2, <1>4 DEF Alter
<1>5. ASSUME UNCHANGED <<config, altered, faulted>>
      PROVE  /\ altered = 0 /\ CanConnect
             /\ \/ Starting \/ Greeted \/ Answered13 \/ Agreed13
                \/ Answered12 \/ Agreed12 \/ Confirmed12 \/ Done
  <2>1. UNCHANGED config /\ altered = 0 /\ \A r \in Roles : ~faulted[r]
    BY <1>2, <1>5
  <2>2. CanConnect
    BY <2>1, OursKept
  <2> QED
    BY <2>1, <2>2 DEF QuietInv, Undisturbed
<1>6. CASE Step
  <2>1. UNCHANGED <<config, altered, faulted>>
    BY <1>6, Guards
  <2> QED
    BY <1>5, <1>6, <2>1, QuietStep, QuietDone
<1>7. CASE Update
  <2>1. UNCHANGED <<config, altered, faulted>> /\ UNCHANGED config
    BY <1>7 DEF Update
  <2>2. PICK r \in Roles : SendKeyUpdate(r)
    BY <1>7 DEF Update
  <2> QED
    BY <1>5, <2>1, <2>2, QuietUpdate
<1>8. CASE UNCHANGED vars
  <2>1. UNCHANGED <<config, altered, faulted>>
    BY <1>8 DEF vars
  <2> QED
    BY <1>5, <1>8, <2>1, QuietStutter
<1> QED
  BY <1>3, <1>4, <1>6, <1>7, <1>8 DEF Next

\* An undisturbed connection has not failed, and has something to handle.
LEMMA QuietIsAlive == QuietInv => NeverStuck
<1> SUFFICES ASSUME QuietInv, Undisturbed, CanConnect
             PROVE  /\ \A r \in Roles : pc[r] \notin {"failed", "panicked"}
                    /\ Connected \/ pc["client"] = "start" \/ \E r \in Roles : inbox[r] # <<>>
  BY DEF NeverStuck
<1>1. "client" \in Roles /\ "server" \in Roles /\ \A r \in Roles : r = "client" \/ r = "server"
  BY TwoRoles
<1>2. \A f : <<f>> # <<>>
  BY OneFlight
<1>3. CASE Starting
  BY <1>1, <1>3 DEF Starting, At
<1>4. CASE Done
  BY <1>1, <1>4 DEF Done, At, Connected
<1>5. CASE Greeted \/ Answered13 \/ Agreed13 \/ Answered12 \/ Agreed12 \/ Confirmed12
  <2>1. \E r \in Roles : inbox[r] # <<>>
    BY <1>1, <1>2, <1>5
    DEF Greeted, Answered13, Agreed13, Answered12, Agreed12, Confirmed12, Boxes
  <2>2. /\ pc["client"] \notin {"failed", "panicked"} /\ pc["server"] \notin {"failed", "panicked"}
    BY <1>5 DEF Greeted, Answered13, Agreed13, Answered12, Agreed12, Confirmed12, At
  <2> QED
    BY <1>1, <2>1, <2>2
<1> QED
  BY <1>3, <1>4, <1>5 DEF QuietInv

\* As long as nothing is altered, every key update that is on its way was sealed
\* under the secret before it, in the order in which they were sent: the reader,
\* whose ratchet follows, opens each.
THEOREM UpdatesSealed == Spec => []SealInv
<1>1. Init => SealInv
  <2> SUFFICES ASSUME Init, NEW r \in Roles PROVE SealAt(r)
    BY DEF SealInv
  <2>1. inbox[Other(r)] = <<>>
    BY TwoRoles DEF Init
  <2>2. Len(inbox[Other(r)]) = 0
    BY <2>1
  <2> QED
    BY <2>2 DEF SealAt
<1>2. HsInv /\ HsInv' /\ CountInv /\ RatchetInv /\ SealInv /\ [Next]_vars => SealInv'
  BY SealKept
<1> QED
  BY <1>1, <1>2, Invariant, SecretsReached, PTL DEF Spec

\* What the two ends hold and have written with, in all: which secrets, through
\* which key updates, and nothing else.
KeysInv == CountInv /\ RatchetInv /\ WrittenInv /\ SealInv

\* Through every interleaving of handshake, key updates, failures and alterations, the
\* secrets of both ends are where their ratchets say, key updates are on their way in
\* order, and no cipher ever wrote that this does not account for.
THEOREM KeysHeld == Spec => []KeysInv
<1>1. CountInv /\ RatchetInv /\ WrittenInv /\ SealInv => KeysInv
  BY DEF KeysInv
<1> QED
  BY <1>1, SecretsReached, WrittenKnown, UpdatesSealed, PTL

\* Ends that can connect and that nobody disturbs go through the phases above and no
\* others, for every pair of suite lists, every group and server key, and with this
\* provider at either end and any implementation at the other.
THEOREM QuietCourse == Spec => []QuietInv
<1>1. Init => QuietInv
  <2> SUFFICES ASSUME Init PROVE Starting
    BY DEF QuietInv
  <2> QED
    BY TwoRoles DEF Init, Starting, At, Boxes
<1>2. HsInv /\ RatchetInv /\ SealInv /\ QuietInv /\ [Next]_vars => QuietInv'
  BY QuietKept
<1> QED
  BY <1>1, <1>2, Invariant, SecretsReached, UpdatesSealed, PTL DEF Spec

\* They never fail or panic, and until both are connected one of them has something
\* to handle.
THEOREM NotStuck == Spec => []NeverStuck
<1>1. QuietInv => NeverStuck
  BY QuietIsAlive
<1> QED
  BY <1>1, QuietCourse, PTL

=============================================================================

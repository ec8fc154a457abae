----------------------------- MODULE Handshake -----------------------------
(***************************************************************************)
(* A whole connection: suites, key exchange, signatures, key schedule and  *)
(* key updates of the provider put together by the handshakes of rustls,   *)
(* TLS 1.3 and TLS 1.2, over a network that may alter a message.  Either   *)
(* end is this provider ("wolf") or another implementation ("rfc").        *)
(*                                                                         *)
(* Messages that travel together are one flight.  rustls is external: the  *)
(* order of messages, what the transcript holds, which keys are installed  *)
(* when.  Alerts are left out: an end that gives up stays silent.          *)
(***************************************************************************)
EXTENDS KeySchedule

CONSTANTS
  ClientLists,   \* the lists of suites a client may be configured with
  ServerLists,   \* and a server
  ServerKeys,    \* the private keys a server may have
  OtherKey,      \* a key that is not the server's, for a wrong certificate
  MaxAltered,    \* bound: messages the network alters
  MaxUpdates     \* bound: key updates of each end

Roles == {"client", "server"}
Other(r) == IF r = "client" THEN "server" ELSE "client"

ASSUME HandshakeAssumption ==
  /\ ClientLists \cup ServerLists \subseteq Seq(Range(ALL_CIPHER_SUITES)) \ {<<>>}
  /\ OtherKey \notin ServerKeys
  /\ MaxAltered \in Nat /\ MaxUpdates \in Nat

VARIABLES
  impl,        \* impl[r]: "wolf" or "rfc"
  suites,      \* suites[r]: its cipher_suites
  group,       \* the group that both ends use (KeyExchange is about the choice)
  key,         \* the server's signing key
  cert,        \* the key in the server's certificate, which the client trusts
  pc,          \* pc[r]: where the handshake of r is
  kx,          \* kx[r]: its ActiveKeyExchange, or None
  nextKey,     \* private keys below this one are generated
  transcript,  \* transcript[r]: the handshake messages it has sent and read
  secrets,     \* secrets[r]: what its key schedule holds, or NoSecrets
  session,     \* session[r]: what it accepted, or NoSession
  inbox,       \* inbox[r]: the flights on their way to r
  updates,     \* updates[r]: key updates it has sent
  installed,   \* history: the ciphers each end has written with
  altered,     \* history: messages the network altered
  faulted      \* history: faulted[r]: a wolfCrypt call of r failed

config == <<impl, suites, group, key, cert>>
vars == <<config, pc, kx, nextKey, transcript, secrets, session, inbox, updates,
          installed, altered, faulted>>

-----------------------------------------------------------------------------
(* Negotiation: rustls, from the provider's tables                         *)

\* random::wolfcrypt_random_buffer_generator fills every hello with its own.
fill(r) == IF r = "client" THEN 1 ELSE 2

\* verify::ALGORITHMS: the schemes a client offers.
supported_schemes == Schemes

AlgorithmOf(scheme) ==
  IF scheme \in RsaSchemes THEN "RSA" ELSE IF scheme \in EcdsaSchemes THEN "ECDSA" ELSE "ED25519"
usable_for_signature_algorithm(s, alg) ==
  s.version = "1.3" \/ \E scheme \in s.sign : AlgorithmOf(scheme) = alg

\* The version comes first: TLS 1.3 if both lists have a suite of it.  A hello
\* offers the versions of its suites.
Speaks13(list) == Range(list) \cap Range(Tls13Suites) # {}
Version(list) == IF Speaks13(list) /\ Speaks13(suites["server"]) THEN "1.3" ELSE "1.2"

\* The server's choice among the suites of that version that its key can sign
\* for, in the order of the client.  Without one the handshake fails, even if
\* the two have a suite of the other version in common.
NoSuite == "none"
Usable(hello) ==
  {n \in DOMAIN hello.suites :
     LET x == hello.suites[n]
         s == SuiteOf(impl["server"], x)
     IN  /\ x \in Range(suites["server"]) /\ s.version = Version(hello.suites)
         /\ usable_for_signature_algorithm(s, key.alg)}
Chosen(hello) ==
  IF Usable(hello) = {} THEN NoSuite ELSE hello.suites[Min(Usable(hello))]

OfferedSchemes(hello, s) ==
  IF s.version = "1.3" THEN hello.schemes \ (RsaSchemes \ PssSchemes) ELSE hello.schemes \cap s.sign

\* The signing key as load_private_key leaves it; a server has one that loads.
LoadedFrom(k) == load_private_key([label |-> "Pkcs8", bytes |-> "pkcs8", key |-> k], {})
Loaded == LoadedFrom(key)
ASSUME ServerKeyAssumption == \A k \in ServerKeys : LoadedFrom(k) # None

\* None is neither a scheme nor an exchange nor a share.
ASSUME NoneAssumption ==
  /\ None \notin Schemes
  /\ \A g \in Groups, k \in 1 .. MaxKey : None \notin {start(g, k), start(g, k).pub_key}

-----------------------------------------------------------------------------
(* Messages                                                                *)

Share(box) == IF box = None THEN None ELSE box.pub_key
ClientHello(r, list, box) ==
  [msg |-> "client_hello", random |-> fill(r), suites |-> list, share |-> Share(box),
   schemes |-> supported_schemes]
ServerHello(suite, box) ==
  [msg |-> "server_hello", random |-> fill("server"), suite |-> suite, share |-> Share(box)]
Certificate == [msg |-> "certificate", key |-> cert]
CertificateVerify(scheme, x) == [msg |-> "certificate_verify", scheme |-> scheme, sig |-> x]
ServerKeyExchange(box, scheme, x) ==
  [msg |-> "server_key_exchange", share |-> Share(box), scheme |-> scheme, sig |-> x]
ClientKeyExchange(box) == [msg |-> "client_key_exchange", share |-> Share(box)]
Finished(mac) == [msg |-> "finished", mac |-> mac]

\* What sealing and opening have in common: of the IV of TLS 1.2 AES-GCM only
\* the fixed part, as the rest travels with the record.
WireKey(s, cipher) ==
  IF s.version = "1.2" /\ s.aead_alg # "Chacha20Poly1305"
    THEN [cipher EXCEPT !.iv = SubSeq(cipher.iv, 1, 1)] ELSE cipher
Sealed(s, cipher, msgs) == [by |-> WireKey(s, cipher), msgs |-> msgs]
Opens(s, cipher, sealed) == sealed.by = WireKey(s, cipher)
NothingSealed == [by |-> NoCipher, msgs |-> <<>>]

Flight(kind, clear, sealed) == [kind |-> kind, clear |-> clear, sealed |-> sealed]
Pending(r, kind) == inbox[r] # <<>> /\ Head(inbox[r]).kind = kind
Post(r, flight) == inbox' = [inbox EXCEPT ![Other(r)] = Append(@, flight)]
Reply(r, flight) == inbox' = [inbox EXCEPT ![r] = Tail(@), ![Other(r)] = Append(@, flight)]
NoReply(r) == inbox' = [inbox EXCEPT ![r] = Tail(@)]

-----------------------------------------------------------------------------
(* Keys                                                                    *)

\* TLS 1.3: all that follows from a Diffie-Hellman secret and the messages up
\* to the server's Finished.
HandshakeTraffic(i, s, dh, msgs) ==
  [client |-> TrafficSecret(i, s, HandshakeSecret(i, s, dh), "c hs traffic", SubSeq(msgs, 1, 2)),
   server |-> TrafficSecret(i, s, HandshakeSecret(i, s, dh), "s hs traffic", SubSeq(msgs, 1, 2))]
ApplicationTraffic(i, s, dh, msgs) ==
  [client |-> TrafficSecret(i, s, MasterSecret(i, s, dh), "c ap traffic", msgs),
   server |-> TrafficSecret(i, s, MasterSecret(i, s, dh), "s ap traffic", msgs)]
Ciphers13(i, s, traffic) == [r \in Roles |-> TrafficCipher(i, s, traffic[r])]

Schedule13(i, s, dh, msgs) ==
  LET hs == HandshakeTraffic(i, s, dh, msgs)
      ap == ApplicationTraffic(i, s, dh, msgs)
  IN  [hs |-> hs, hs_cipher |-> Ciphers13(i, s, hs), ap |-> ap, ap_cipher |-> Ciphers13(i, s, ap),
       exporter |-> TrafficSecret(i, s, MasterSecret(i, s, dh), "exp master", msgs),
       client_finished |-> Finished(FinishedMac13(i, s, hs.client, msgs))]
ServerFinished13(i, s, dh, msgs) ==
  Finished(FinishedMac13(i, s, HandshakeTraffic(i, s, dh, msgs).server, msgs))

\* What each stage unwraps has been made: the blocks and the ciphers.
HandshakeMade(i, s, dh, msgs) ==
  LET traffic == HandshakeTraffic(i, s, dh, msgs)
  IN  /\ DerivedSalt(i, s, ExtractFromZero(i, s.kdf, NoBytes)) # Panic
      /\ \A r \in Roles :
           /\ traffic[r] # Panic /\ FinishedKey(i, s, traffic[r]) # Panic
           /\ TrafficCipher(i, s, traffic[r]) # NoCipher
ApplicationMade(i, s, dh, msgs) ==
  LET traffic == ApplicationTraffic(i, s, dh, msgs)
  IN  /\ DerivedSalt(i, s, HandshakeSecret(i, s, dh)) # Panic
      /\ TrafficSecret(i, s, MasterSecret(i, s, dh), "exp master", msgs) # Panic
      /\ \A r \in Roles :
           traffic[r] # Panic /\ TrafficCipher(i, s, traffic[r]) # NoCipher

\* TLS 1.2 ciphers of role r: what it writes with and what it reads with.
Write12(s, block, r) == Tls12Encrypter(s.aead_alg, block[r].key, block[r].iv, block.extra)
Read12(s, block, r) == Tls12Decrypter(s.aead_alg, block[Other(r)].key, block[Other(r)].iv)

\* And what r unwraps to make them.
KeysMade12(i, s, ms, client_random, server_random, r) ==
  LET block == KeyBlock(i, s, ms, client_random, server_random)
  IN  /\ KeyMaterial(i, s, ms, client_random, server_random) # Panic
      /\ NoCipher \notin {Write12(s, block, r), Read12(s, block, r)}

\* The ciphers of r under what its key schedule holds.
MySuite(r) == SuiteOf(impl[r], secrets[r].suite)
Writer(r) ==
  IF MySuite(r).version = "1.3" THEN TrafficCipher(impl[r], MySuite(r), secrets[r].traffic[r])
  ELSE Write12(MySuite(r), secrets[r].block, r)
Reader(r) ==
  IF MySuite(r).version = "1.3"
    THEN TrafficCipher(impl[r], MySuite(r), secrets[r].traffic[Other(r)])
    ELSE Read12(MySuite(r), secrets[r].block, r)

\* extract_keys of both directions.
Extracted(r, writer) ==
  LET s == MySuite(r)
      t == secrets[r].traffic[writer]
      b == secrets[r].block
  IN  IF s.version = "1.3"
        THEN extract_keys13(s.aead_alg, TrafficKey(impl[r], s, t), TrafficIv(impl[r], s, t))
        ELSE extract_keys12(s.aead_alg, b[writer].key, b[writer].iv, b.extra)

Export(r, len) ==
  LET s == MySuite(r)
  IN  IF s.version = "1.3" THEN Export13(impl[r], s, secrets[r].exporter, len)
      ELSE Export12(impl[r], s, secrets[r].exporter, secrets[r].client_random,
                    secrets[r].server_random, len)

-----------------------------------------------------------------------------
(* Outcomes of a step of r                                                 *)

Goto(r, where) == pc' = [pc EXCEPT ![r] = where]
GiveUp(r, how) ==
  /\ Goto(r, how)
  /\ kx' = [kx EXCEPT ![r] = None]
  /\ inbox' = [inbox EXCEPT ![r] = <<>>]
  /\ UNCHANGED <<nextKey, transcript, secrets, session, updates, installed>>

\* A block or a cipher that cannot be made is a panic.  What a step derives, or
\* a stage of it, it derives here before it checks anything with it.
IfMade(r, made, Continue) == IF made THEN Continue ELSE GiveUp(r, "panicked")

Installed(r, stage, s, cipher) == [role |-> r, stage |-> stage, cipher |-> WireKey(s, cipher)]

NoSession == [suite |-> NoSuite]
NoSecrets == [suite |-> NoSuite]
Session(suite, s, hello, ciphers, exporter) ==
  [suite |-> suite, hello |-> hello, exporter |-> exporter,
   ciphers |-> [r \in Roles |-> WireKey(s, ciphers[r])]]

Secrets13(suite, traffic, exporter, dh) ==
  [suite |-> suite, traffic |-> traffic, exporter |-> exporter, dh |-> dh, block |-> None,
   client_random |-> 0, server_random |-> 0]
Secrets12(suite, block, ms, client_random, server_random) ==
  [suite |-> suite, traffic |-> None, exporter |-> ms, dh |-> None, block |-> block,
   client_random |-> client_random, server_random |-> server_random]

-----------------------------------------------------------------------------
(* The handshake                                                           *)

Init ==
  /\ impl \in {f \in [Roles -> {"wolf", "rfc"}] : \E r \in Roles : f[r] = "wolf"}
  /\ suites \in [client : ClientLists, server : ServerLists]
  /\ group \in Groups
  /\ key \in ServerKeys
  /\ cert \in {key, OtherKey}
  /\ pc = [r \in Roles |-> "start"]
  /\ kx = [r \in Roles |-> None]
  /\ nextKey = 1
  /\ transcript = [r \in Roles |-> <<>>]
  /\ secrets = [r \in Roles |-> NoSecrets]
  /\ session = [r \in Roles |-> NoSession]
  /\ inbox = [r \in Roles |-> <<>>]
  /\ updates = [r \in Roles |-> 0]
  /\ installed = {}
  /\ altered = 0
  /\ faulted = [r \in Roles |-> FALSE]

\* A client that can do TLS 1.3 sends a share with its hello.
SendClientHello ==
  LET box == IF Speaks13(suites["client"]) THEN start(group, nextKey) ELSE None
      hello == ClientHello("client", suites["client"], box)
  IN  /\ pc["client"] = "start"
      /\ Goto("client", "wait_server")
      /\ kx' = [kx EXCEPT !["client"] = box]
      /\ nextKey' = nextKey + 1
      /\ transcript' = [transcript EXCEPT !["client"] = <<hello>>]
      /\ Post("client", Flight("hello", <<hello>>, NothingSealed))
      /\ UNCHANGED <<secrets, session, updates, installed>>

\* The server answers under TLS 1.3: its share, and sealed its certificate,
\* its signature and its Finished.
Signed13(s, scheme, msgs) ==
  sign([key |-> Loaded.key, scheme |-> scheme], Hash(s.hash_provider, msgs), {}, 0, 0)
Messages13(i, s, scheme, dh, msgs) ==
  LET m3 == Append(msgs, Certificate)
      m4 == Append(m3, CertificateVerify(scheme, Signed13(s, scheme, m3)))
  IN  Append(m4, ServerFinished13(i, s, dh, m4))
ServerFlight13(hello, suite) ==
  LET i == impl["server"]
      s == SuiteOf(i, suite)
      box == start(group, nextKey)
      dh == complete(box, hello.share, TRUE)
      scheme == choose_scheme(Loaded, OfferedSchemes(hello, s))
      m2 == <<hello, ServerHello(suite, box)>>
  IN  IF hello.share = None \/ ~dh.ok THEN GiveUp("server", "failed")
      ELSE IfMade("server", HandshakeMade(i, s, dh.secret, m2),
        IF scheme = None \/ Signed13(s, scheme, Append(m2, Certificate)) = NoSignature
        THEN GiveUp("server", "failed")
        ELSE LET m == Messages13(i, s, scheme, dh.secret, m2)
                 k == Schedule13(i, s, dh.secret, m)
             IN  IfMade("server", ApplicationMade(i, s, dh.secret, m),
                 /\ Goto("server", "wait_finished")
                 /\ nextKey' = nextKey + 1
                 /\ transcript' = [transcript EXCEPT !["server"] = m]
                 /\ secrets' = [secrets EXCEPT !["server"] =
                      Secrets13(suite, [client |-> k.hs.client, server |-> k.ap.server],
                                k.exporter, dh.secret)]
                 /\ installed' = installed \cup
                      {Installed("server", "handshake", s, k.hs_cipher.server),
                       Installed("server", "application", s, k.ap_cipher.server)}
                 /\ Reply("server", Flight("server13", SubSeq(m, 2, 2),
                                           Sealed(s, k.hs_cipher.server, SubSeq(m, 3, 5))))
                 /\ UNCHANGED <<kx, session, updates>>))

\* The server answers under TLS 1.2: its certificate and its signed share.
Params(hello, reply, share) ==
  [client_random |-> hello.random, server_random |-> reply.random, share |-> share]
ServerFlight12(hello, suite) ==
  LET s == SuiteOf(impl["server"], suite)
      box == start(group, nextKey)
      scheme == choose_scheme(Loaded, OfferedSchemes(hello, s))
      reply == ServerHello(suite, None)
      signed == sign([key |-> Loaded.key, scheme |-> scheme],
                     Params(hello, reply, box.pub_key), {}, 0, 0)
      flight == <<reply, Certificate, ServerKeyExchange(box, scheme, signed)>>
  IN  IF scheme = None \/ signed = NoSignature
        THEN GiveUp("server", "failed")
        ELSE /\ Goto("server", "wait_client")
             /\ kx' = [kx EXCEPT !["server"] = box]
             /\ nextKey' = nextKey + 1
             /\ transcript' = [transcript EXCEPT !["server"] = <<hello>> \o flight]
             /\ Reply("server", Flight("server12", flight, NothingSealed))
             /\ UNCHANGED <<secrets, session, updates, installed>>

HandleClientHello ==
  /\ pc["server"] = "start" /\ Pending("server", "hello")
  /\ LET hello == Head(inbox["server"]).clear[1]
         chosen == Chosen(hello)
     IN  IF chosen = NoSuite THEN GiveUp("server", "failed")
         ELSE IF SuiteOf(impl["server"], chosen).version = "1.3"
                THEN ServerFlight13(hello, chosen)
                ELSE ServerFlight12(hello, chosen)

-----------------------------------------------------------------------------
(* TLS 1.3, continued                                                      *)

\* The client opens and checks the server's flight, accepts, and sends its
\* own Finished.
HandleServerFlight13 ==
  LET i == impl["client"]
      flight == Head(inbox["client"])
      reply == flight.clear[1]
      s == SuiteOf(i, reply.suite)
      hello == transcript["client"][1]
      dh == complete(kx["client"], reply.share, TRUE)
      m == <<hello, reply>> \o flight.sealed.msgs
  IN  /\ pc["client"] = "wait_server" /\ Pending("client", "server13")
      /\ IF ~( /\ reply.suite \in Range(suites["client"]) /\ s.version = "1.3"
               /\ reply.share # None /\ dh.ok)
         THEN GiveUp("client", "failed")
         ELSE IfMade("client", HandshakeMade(i, s, dh.secret, m),
           IF ~( /\ Opens(s, TrafficCipher(i, s, HandshakeTraffic(i, s, dh.secret, m).server),
                          flight.sealed)
                 /\ m[3].key = cert
                 /\ m[4].scheme \in OfferedSchemes(hello, s)
                 /\ verify_signature(m[4].scheme, cert, Hash(s.hash_provider, SubSeq(m, 1, 3)),
                                     m[4].sig)
                 /\ m[5] = ServerFinished13(i, s, dh.secret, SubSeq(m, 1, 4)))
           THEN GiveUp("client", "failed")
           ELSE LET k == Schedule13(i, s, dh.secret, m) IN
             IfMade("client", ApplicationMade(i, s, dh.secret, m),
               /\ Goto("client", "connected")
               /\ kx' = [kx EXCEPT !["client"] = None]
               /\ transcript' = [transcript EXCEPT !["client"] = Append(m, k.client_finished)]
               /\ secrets' = [secrets EXCEPT !["client"] =
                    Secrets13(reply.suite, k.ap, k.exporter, dh.secret)]
               /\ session' = [session EXCEPT !["client"] =
                    Session(reply.suite, s, hello, k.ap_cipher, k.exporter)]
               /\ installed' = installed \cup
                    {Installed("client", "handshake", s, k.hs_cipher.client),
                     Installed("client", "application", s, k.ap_cipher.client)}
               /\ Reply("client", Flight("finished", <<>>,
                                         Sealed(s, k.hs_cipher.client, <<k.client_finished>>)))
               /\ UNCHANGED <<nextKey, updates>>))

HandleClientFinished ==
  LET s == MySuite("server")
      mine == secrets["server"]
      m == transcript["server"]
      flight == Head(inbox["server"])
      k == Schedule13(impl["server"], s, mine.dh, m)
  IN  /\ pc["server"] = "wait_finished" /\ Pending("server", "finished")
      /\ IF ~(Opens(s, k.hs_cipher.client, flight.sealed)
                /\ flight.sealed.msgs = <<k.client_finished>>)
             THEN GiveUp("server", "failed")
             ELSE /\ Goto("server", "connected")
                  /\ transcript' = [transcript EXCEPT !["server"] = Append(m, k.client_finished)]
                  /\ secrets' = [secrets EXCEPT !["server"].traffic = k.ap]
                  /\ session' = [session EXCEPT !["server"] =
                       Session(mine.suite, s, m[1], k.ap_cipher, mine.exporter)]
                  /\ NoReply("server")
                  /\ UNCHANGED <<kx, nextKey, updates, installed>>

-----------------------------------------------------------------------------
(* TLS 1.2, continued                                                      *)

\* The client checks the signed share and completes the exchange.
HandleServerFlight12 ==
  LET i == impl["client"]
      flight == Head(inbox["client"])
      reply == flight.clear[1]
      skx == flight.clear[3]
      s == SuiteOf(i, reply.suite)
      hello == transcript["client"][1]
      box == start(group, nextKey)
      m == <<hello>> \o flight.clear \o <<ClientKeyExchange(box)>>
      ms == MasterSecret12(i, s, box, skx.share, m)
      block == KeyBlock(i, s, ms, hello.random, reply.random)
      writer == Write12(s, block, "client")
      fin == Finished(FinishedMac12(i, s, ms, "client finished", m))
  IN  /\ pc["client"] = "wait_server" /\ Pending("client", "server12")
      /\ IF ~( /\ reply.suite \in Range(suites["client"]) /\ s.version = "1.2"
               /\ flight.clear[2].key = cert
               /\ skx.scheme \in hello.schemes
               /\ verify_signature(skx.scheme, cert, Params(hello, reply, skx.share), skx.sig)
               /\ ms # NoBytes)
           THEN GiveUp("client", "failed")
           ELSE IfMade("client", /\ KeysMade12(i, s, ms, hello.random, reply.random, "client")
                                 /\ fin.mac # Panic,
             /\ Goto("client", "wait_finished")
             /\ kx' = [kx EXCEPT !["client"] = None]
             /\ nextKey' = nextKey + 1
             /\ transcript' = [transcript EXCEPT !["client"] = Append(m, fin)]
             /\ secrets' = [secrets EXCEPT !["client"] =
                  Secrets12(reply.suite, block, ms, hello.random, reply.random)]
             /\ installed' = installed \cup {Installed("client", "application", s, writer)}
             /\ Reply("client", Flight("client12", <<ClientKeyExchange(box)>>,
                                       Sealed(s, writer, <<fin>>)))
             /\ UNCHANGED <<session, updates>>)

\* The server completes it, checks the client's Finished and sends its own.
AcceptClient12(i, s, reply, ms, block, m, fin) ==
  LET writer == Write12(s, block, "server")
      reader == Read12(s, block, "server")
      theirs == Finished(FinishedMac12(i, s, ms, "client finished", m))
  IN  IfMade("server", /\ KeysMade12(i, s, ms, m[1].random, reply.random, "server")
                       /\ Panic \notin {theirs.mac, fin.mac},
        IF ~( /\ Opens(s, reader, Head(inbox["server"]).sealed)
              /\ Head(inbox["server"]).sealed.msgs = <<theirs>>)
          THEN GiveUp("server", "failed")
          ELSE /\ Goto("server", "connected")
               /\ kx' = [kx EXCEPT !["server"] = None]
               /\ transcript' = [transcript EXCEPT !["server"] =
                    m \o Head(inbox["server"]).sealed.msgs \o <<fin>>]
               /\ secrets' = [secrets EXCEPT !["server"] =
                    Secrets12(reply.suite, block, ms, m[1].random, reply.random)]
               /\ session' = [session EXCEPT !["server"] =
                    Session(reply.suite, s, m[1], [client |-> reader, server |-> writer], ms)]
               /\ installed' = installed \cup {Installed("server", "application", s, writer)}
               /\ Reply("server", Flight("finished", <<>>, Sealed(s, writer, <<fin>>)))
               /\ UNCHANGED <<nextKey, updates>>)
HandleClientFlight12 ==
  LET i == impl["server"]
      flight == Head(inbox["server"])
      reply == transcript["server"][2]
      s == SuiteOf(i, reply.suite)
      m == transcript["server"] \o flight.clear
      ms == MasterSecret12(i, s, kx["server"], flight.clear[1].share, m)
      block == KeyBlock(i, s, ms, m[1].random, reply.random)
      fin == Finished(FinishedMac12(i, s, ms, "server finished", m \o flight.sealed.msgs))
  IN  /\ pc["server"] = "wait_client" /\ Pending("server", "client12")
      /\ IF ms = NoBytes THEN GiveUp("server", "failed")
         ELSE AcceptClient12(i, s, reply, ms, block, m, fin)

HandleServerFinished ==
  LET i == impl["client"]
      s == MySuite("client")
      mine == secrets["client"]
      m == transcript["client"]
      fin == Finished(FinishedMac12(i, s, mine.exporter, "server finished", m))
      flight == Head(inbox["client"])
  IN  /\ pc["client"] = "wait_finished" /\ Pending("client", "finished")
      /\ IfMade("client", fin.mac # Panic,
           IF ~(Opens(s, Reader("client"), flight.sealed) /\ flight.sealed.msgs = <<fin>>)
           THEN GiveUp("client", "failed")
           ELSE /\ Goto("client", "connected")
                /\ transcript' = [transcript EXCEPT !["client"] = Append(m, fin)]
                /\ session' = [session EXCEPT !["client"] =
                     Session(mine.suite, s, m[1],
                             [client |-> Writer("client"), server |-> Reader("client")],
                             mine.exporter)]
                /\ NoReply("client")
                /\ UNCHANGED <<kx, nextKey, secrets, updates, installed>>)

-----------------------------------------------------------------------------
(* Key updates, failures and the network                                   *)

Updated(r, writer) ==
  [secrets EXCEPT ![r].traffic[writer] = NextTrafficSecret(impl[r], MySuite(r), @)]

NextMade(r, writer) ==
  LET next == NextTrafficSecret(impl[r], MySuite(r), secrets[r].traffic[writer])
  IN  next # Panic /\ TrafficCipher(impl[r], MySuite(r), next) # NoCipher

SendKeyUpdate(r) ==
  LET next == Updated(r, r)[r].traffic[r]
      s == MySuite(r)
  IN  /\ pc[r] = "connected" /\ s.version = "1.3" /\ updates[r] < MaxUpdates
      /\ IfMade(r, NextMade(r, r),
           /\ Post(r, Flight("key_update", <<>>, Sealed(s, Writer(r), <<>>)))
           /\ secrets' = Updated(r, r)
           /\ updates' = [updates EXCEPT ![r] = @ + 1]
           /\ installed' = installed \cup
                {Installed(r, "update", s, TrafficCipher(impl[r], s, next))}
           /\ UNCHANGED <<pc, kx, nextKey, transcript, session>>)

HandleKeyUpdate(r) ==
  /\ pc[r] = "connected" /\ Pending(r, "key_update")
  /\ IF ~Opens(MySuite(r), Reader(r), Head(inbox[r]).sealed)
       THEN GiveUp(r, "failed")
       ELSE IfMade(r, NextMade(r, Other(r)),
              /\ secrets' = Updated(r, Other(r))
              /\ NoReply(r)
              /\ UNCHANGED <<pc, kx, nextKey, transcript, session, updates, installed>>)

Step ==
  /\ \/ SendClientHello
     \/ HandleClientHello
     \/ HandleServerFlight13
     \/ HandleClientFinished
     \/ HandleServerFlight12
     \/ HandleClientFlight12
     \/ HandleServerFinished
     \/ \E r \in Roles : HandleKeyUpdate(r)
  /\ UNCHANGED <<config, altered, faulted>>

Update ==
  /\ \E r \in Roles : SendKeyUpdate(r)
  /\ UNCHANGED <<config, altered, faulted>>

\* A wolfCrypt call fails while r has something to do.  Random numbers, key
\* exchange, signatures and decryption report an error, and the handshake
\* fails; hashes, HKDF, for_secret and an unwrapped encrypt error panic.
Fault(r, how) ==
  /\ impl[r] = "wolf" /\ pc[r] \notin {"failed", "panicked"}
  /\ inbox[r] # <<>> \/ (r = "client" /\ pc[r] = "start")
  /\ GiveUp(r, how)
  /\ faulted' = [faulted EXCEPT ![r] = TRUE]
  /\ UNCHANGED <<config, altered>>

\* What the network can make of a message that is not sealed.
ForeignShares ==
  {[len |-> PUB_KEY_SIZE(group), point |-> x] : x \in {PointOf(group, ForeignKey), BadPoint}}
Altered(m) ==
  CASE m.msg = "client_hello" ->
         {[m EXCEPT !.suites = x] : x \in ClientLists} \cup {[m EXCEPT !.random = 0]}
           \cup {[m EXCEPT !.share = x] : x \in ForeignShares}
    [] m.msg = "server_hello" ->
         {[m EXCEPT !.suite = x] : x \in Range(ALL_CIPHER_SUITES)} \cup {[m EXCEPT !.random = 0]}
           \cup {[m EXCEPT !.share = x] : x \in ForeignShares}
    [] m.msg = "certificate" -> {[m EXCEPT !.key = OtherKey]}
    [] m.msg = "server_key_exchange" ->
         {[m EXCEPT !.share = x] : x \in ForeignShares} \cup {[m EXCEPT !.scheme = x] : x \in Schemes}
    [] m.msg = "client_key_exchange" -> {[m EXCEPT !.share = x] : x \in ForeignShares}
Alter(r) ==
  /\ altered < MaxAltered /\ inbox[r] # <<>>
  /\ \/ \E j \in DOMAIN Head(inbox[r]).clear :
          \E m \in Altered(Head(inbox[r]).clear[j]) \ {Head(inbox[r]).clear[j]} :
            inbox' = [inbox EXCEPT ![r][1].clear[j] = m]
     \/ inbox' = [inbox EXCEPT ![r][1].sealed = NothingSealed] /\ inbox' # inbox
  /\ altered' = altered + 1
  /\ UNCHANGED <<config, pc, kx, nextKey, transcript, secrets, session, updates, installed, faulted>>

Next ==
  \/ Step
  \/ Update
  \/ \E r \in Roles, how \in {"failed", "panicked"} : Fault(r, how)
  \/ \E r \in Roles : Alter(r)

Spec == Init /\ [][Next]_vars

-----------------------------------------------------------------------------
(* Properties                                                              *)

Both == \A r \in Roles : session[r] # NoSession
Undisturbed == altered = 0 /\ \A r \in Roles : ~faulted[r]

\* Every variable has its type; an end that is connected has a session and no
\* exchange left, and every key written with has the length of its algorithm.
HandshakeTypeOK ==
  /\ pc \in [Roles -> {"start", "wait_server", "wait_client", "wait_finished", "connected",
                       "failed", "panicked"}]
  /\ nextKey \in 1 .. 4
  /\ updates \in [Roles -> 0 .. MaxUpdates]
  /\ altered \in 0 .. MaxAltered
  /\ \A r \in Roles :
       pc[r] = "connected" => session[r] # NoSession /\ secrets[r] # NoSecrets /\ kx[r] = None
  /\ \A x \in installed :
       ByteLen(x.cipher.key) = RfcShape(x.cipher.aead).enc_key_len

\* Whatever the network alters, two ends that both accept have agreed on the
\* best the two configurations allow: the suite the server picks from the list
\* the client really has, so nothing that either end takes from an altered
\* hello survives Finished.
NoDowngrade ==
  Both => /\ session["client"].hello.suites = suites["client"]
          /\ session["client"].suite = Chosen(session["client"].hello)

\* No two keys that ever encrypted anything are the same: not those of the two
\* directions, of handshake and application data, nor of a key update and what
\* came before.
KeysSeparated ==
  \A a, b \in installed : a # b => a.cipher.key # b.cipher.key

\* An end panics only when a call that cannot report an error failed; no
\* negotiated suite, and nothing the peer or the network sends, leads to a key
\* or an IV of a length that a cipher cannot take, or to a length that HKDF or
\* the PRF refuses where the error is unwrapped.
PanicsOnlyOnFaults == \A r \in Roles : pc[r] = "panicked" => faulted[r]

\* Once both ends are connected and have read everything, each reads with what
\* the other writes with, through every key update, and extract_keys hands out
\* exactly that: a kernel that takes over at either end goes on where it was.
Settled ==
  /\ \A r \in Roles : pc[r] = "connected" /\ inbox[r] = <<>>
ExtractedAgree ==
  Settled =>
    \A r \in Roles :
      /\ Opens(MySuite(r), Reader(Other(r)), Sealed(MySuite(r), Writer(r), <<>>))
      /\ Extracted(r, r) = Writer(r)
      /\ Extracted(Other(r), r) = Extracted(r, r)

\* Both ends export the same keying material for every length an application
\* may ask for, up to the limit of HKDF, and refuse the same lengths without a
\* panic.
ExportLengths == {1, 48, 255 * 32, 255 * 32 + 1, 255 * 48, 255 * 48 + 1}
ExportsAgree ==
  Both => \A r \in Roles, len \in ExportLengths :
            secrets[r] # NoSecrets =>
              /\ Export(r, len) = Export(Other(r), len) /\ Export(r, len) # Panic
              /\ (Export(r, len) = NoBytes) <=>
                   (RfcSuite(secrets[r].suite).version = "1.3"
                    /\ len > 255 * hash_len(RfcHash(secrets[r].suite)))

Exchange == INSTANCE AuthenticatedExchange
              WITH None <- NoSession,
                   alive <- [r \in Roles |-> pc[r] \notin {"failed", "panicked"}],
                   genuine <- (cert = key)

\* The provider's parts, as rustls puts them together, implement the abstract
\* exchange: one session for both ends, and only with the certified key.
ExchangeSpec == Exchange!Spec

\* Of the newest version that both ends have suites of, both have one whose
\* registered meaning allows the server's key; the certificate is its own, and
\* the key can sign: an X25519 key loads but does not, nor does an RSA key that
\* is longer than the buffer for PSS.
CanConnect ==
  /\ cert = key
  /\ key.alg # "X25519" /\ (key.alg = "RSA" => key.param <= MAX_RSA_SIG_SIZE)
  /\ \E x \in Range(suites["client"]) \cap Range(suites["server"]) :
       LET s == RfcSuite(x)
       IN  /\ s.version = Version(suites["client"])
           /\ s.version = "1.3" \/ \E scheme \in s.sign : AlgorithmOf(scheme) = key.alg
Connected == \A r \in Roles : pc[r] = "connected"
\* Ends that nobody disturbs and that can connect never fail, and until both
\* are connected one of them has something to handle, with this provider at
\* either end and any implementation at the other.
NeverStuck ==
  Undisturbed /\ CanConnect =>
    /\ \A r \in Roles : pc[r] \notin {"failed", "panicked"}
    /\ Connected \/ pc["client"] = "start" \/ \E r \in Roles : inbox[r] # <<>>

=============================================================================

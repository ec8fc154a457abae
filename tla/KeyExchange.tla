----------------------------- MODULE KeyExchange -----------------------------
(***************************************************************************)
(* The key exchange groups (KxGroups) driven by the rustls handshake: TLS  *)
(* 1.3, where the client sends the first share and may be asked to retry   *)
(* with another group, and TLS 1.2, where the server does.  Completing an  *)
(* exchange consumes it, whatever comes of it.  rustls is external.        *)
(***************************************************************************)
EXTENDS KxGroups

CONSTANTS
  Configs,  \* the kx_groups of a configured provider, in order of preference
  None      \* no exchange, no message, no secret

VARIABLES
  version,  \* "1.3" or "1.2"
  groups,   \* groups[r]: the kx_groups of role r
  pc,       \* pc[r]: where the handshake of role r is
  kx,       \* kx[r]: its Box<dyn ActiveKeyExchange>, or None
  shared,   \* shared[r]: its secret with the bytes it came from, or None
  inbox,    \* inbox[r]: the message on its way to r, or None
  nextKey,  \* private keys below this one are generated
  clean     \* history: no message was altered and no wolfCrypt call failed

vars == <<version, groups, pc, kx, shared, inbox, nextKey, clean>>

Roles == {"client", "server"}

ASSUME ConfigAssumption == Configs \subseteq (Seq(Groups) \ {<<>>})

-----------------------------------------------------------------------------
(* The handshake                                                           *)

Share(kind, box) == [kind |-> kind, group |-> box.group, bytes |-> box.pub_key]
Retry(g) == [kind |-> "retry", group |-> g, bytes |-> [len |-> 0, point |-> BadPoint]]

Pending(r, kind) == inbox[r] # None /\ inbox[r].kind = kind
Other(r) == IF r = "client" THEN "server" ELSE "client"

\* rustls' find_kx_group, where in the server's list the groups are that both
\* have, and the one of them that the server prefers.
Has(r, g) == g \in Range(groups[r])
Mutual == {i \in DOMAIN groups["server"] : Has("client", groups["server"][i])}
Preferred == groups["server"][Min(Mutual)]

\* Role r takes the message in its inbox, if any, and answers with m.
Answer(r, m) == inbox' = [inbox EXCEPT ![r] = None, ![Other(r)] = m]
NoAnswer(r) == inbox' = [inbox EXCEPT ![r] = None]

Goto(r, where) == pc' = [pc EXCEPT ![r] = where]
Fail(r) ==
  /\ Goto(r, "failed")
  /\ kx' = [kx EXCEPT ![r] = None]
  /\ NoAnswer(r)
  /\ UNCHANGED <<shared, nextKey>>

\* r starts an exchange, keeps it and sends its share.
StartAndSend(r, g, kind, where, ffiOk) ==
  LET box == start(g, nextKey)
  IN  IF ffiOk
        THEN /\ kx' = [kx EXCEPT ![r] = box]
             /\ Answer(r, Share(kind, box))
             /\ Goto(r, where)
             /\ nextKey' = nextKey + 1
             /\ UNCHANGED shared
        ELSE Fail(r)

\* r completes with the bytes in its inbox the exchange it has.
Complete(r, ffiOk) ==
  LET result == complete(kx[r], inbox[r].bytes, ffiOk)
  IN  IF result.ok
        THEN /\ shared' = [shared EXCEPT ![r] =
                    [secret |-> result.secret, own |-> kx[r].pub_key, peer |-> inbox[r].bytes]]
             /\ kx' = [kx EXCEPT ![r] = None]
             /\ NoAnswer(r)
             /\ Goto(r, "done")
             /\ UNCHANGED nextKey
        ELSE Fail(r)

\* start_and_complete: the exchange is started and completed in one call, and
\* its share is sent once it has.
StartAndComplete(r, g, kind, ffiOk) ==
  LET box == start(g, nextKey)
      result == complete(box, inbox[r].bytes, ffiOk)
  IN  IF result.ok
        THEN /\ shared' = [shared EXCEPT ![r] =
                    [secret |-> result.secret, own |-> box.pub_key, peer |-> inbox[r].bytes]]
             /\ Answer(r, Share(kind, box))
             /\ Goto(r, "done")
             /\ nextKey' = nextKey + 1
             /\ UNCHANGED kx
        ELSE Fail(r)

Init ==
  /\ version \in {"1.3", "1.2"}
  /\ groups \in [Roles -> Configs]
  /\ pc = [r \in Roles |-> "start"]
  /\ kx = [r \in Roles |-> None]
  /\ shared = [r \in Roles |-> None]
  /\ inbox = [r \in Roles |-> None]
  /\ nextKey = 1
  /\ clean = TRUE

\* TLS 1.3: the client sends a share of its first group.
ClientHello(ffiOk) ==
  /\ version = "1.3" /\ pc["client"] = "start"
  /\ StartAndSend("client", Head(groups["client"]), "hello", "wait", ffiOk)

\* The server completes with it, or asks for a group that both have.
ServerHello(ffiOk) ==
  /\ version = "1.3" /\ pc["server"] \in {"start", "retried"}
  /\ Pending("server", "hello")
  /\ \/ /\ Has("server", inbox["server"].group)
        /\ StartAndComplete("server", inbox["server"].group, "reply", ffiOk)
     \/ /\ ~Has("server", inbox["server"].group)
        /\ IF pc["server"] = "retried" \/ Mutual = {}
             THEN Fail("server")
             ELSE /\ Answer("server", Retry(Preferred))
                  /\ Goto("server", "retried")
                  /\ UNCHANGED <<kx, shared, nextKey>>

\* The client drops its exchange and starts one of the group asked for.
ClientRetry(ffiOk) ==
  /\ version = "1.3" /\ pc["client"] \in {"wait", "retried"}
  /\ Pending("client", "retry")
  /\ LET g == inbox["client"].group
     IN  IF pc["client"] = "retried" \/ ~Has("client", g) \/ g = kx["client"].group
           THEN Fail("client")
           ELSE StartAndSend("client", g, "hello", "retried", ffiOk)

ClientFinish(ffiOk) ==
  /\ version = "1.3" /\ pc["client"] \in {"wait", "retried"}
  /\ Pending("client", "reply")
  /\ IF inbox["client"].group # kx["client"].group
       THEN Fail("client")
       ELSE Complete("client", ffiOk)

\* TLS 1.2: the server sends the first share, the client answers it.
ServerKeyExchange(ffiOk) ==
  /\ version = "1.2" /\ pc["server"] = "start"
  /\ IF Mutual = {}
       THEN Fail("server")
       ELSE StartAndSend("server", Preferred, "hello", "wait", ffiOk)

ClientKeyExchange(ffiOk) ==
  /\ version = "1.2" /\ pc["client"] = "start"
  /\ Pending("client", "hello")
  /\ IF ~Has("client", inbox["client"].group)
       THEN Fail("client")
       ELSE StartAndComplete("client", inbox["client"].group, "reply", ffiOk)

ServerFinish(ffiOk) ==
  /\ version = "1.2" /\ pc["server"] = "wait"
  /\ Pending("server", "reply")
  /\ Complete("server", ffiOk)

Step(ffiOk) ==
  /\ \/ ClientHello(ffiOk)
     \/ ServerHello(ffiOk)
     \/ ClientRetry(ffiOk)
     \/ ClientFinish(ffiOk)
     \/ ServerKeyExchange(ffiOk)
     \/ ClientKeyExchange(ffiOk)
     \/ ServerFinish(ffiOk)
  /\ clean' = (clean /\ ffiOk)
  /\ UNCHANGED <<version, groups>>

\* The network replaces a message by another of the same handshake.
Generated(b) == b.point.key < nextKey
Alter(r) ==
  /\ inbox[r] # None
  /\ \/ \E g \in Groups, b \in Bytes :
          Generated(b) /\ inbox' = [inbox EXCEPT ![r].group = g, ![r].bytes = b]
     \/ \E g \in Groups :
          version = "1.3" /\ r = "client" /\ inbox' = [inbox EXCEPT ![r] = Retry(g)]
  /\ clean' = FALSE
  /\ UNCHANGED <<version, groups, pc, kx, shared, nextKey>>

Next == (\E ffiOk \in BOOLEAN : Step(ffiOk)) \/ \E r \in Roles : Alter(r)

\* Each end handles the message it has received, as rustls does whenever its
\* caller reads.
Spec == Init /\ [][Next]_vars /\ WF_vars(Step(TRUE))

-----------------------------------------------------------------------------
(* Properties                                                              *)

Box == [group : Groups, key : 1 .. MaxKey, pub_key : Bytes]
Result == [secret : [group : Groups, keys : SUBSET (0 .. MaxKey)], own : Bytes, peer : Bytes]
Msg == [kind : {"hello", "retry", "reply"}, group : Groups, bytes : Bytes]

ASSUME NoneAssumption == None \notin Box \cup Result \cup Msg

\* Every variable has its type; in particular every share that start exports
\* is one of the byte strings that are keys of its group.
KxTypeOK ==
  /\ version \in {"1.3", "1.2"}
  /\ groups \in [Roles -> Configs]
  /\ pc \in [Roles -> {"start", "wait", "retried", "done", "failed"}]
  /\ kx \in [Roles -> Box \cup {None}]
  /\ shared \in [Roles -> Result \cup {None}]
  /\ inbox \in [Roles -> Msg \cup {None}]
  /\ nextKey \in 1 .. MaxKey + 1
  /\ clean \in BOOLEAN

Both == shared["client"] # None /\ shared["server"] # None

\* Two ends have the same secret exactly when each completed with the share
\* of the other, whatever the network did: in particular no bytes it can put
\* in place of the shares lead both ends to one secret.
SecretsMatchShares ==
  Both => (shared["client"].secret = shared["server"].secret <=>
             /\ shared["client"].peer = shared["server"].own
             /\ shared["server"].peer = shared["client"].own)

\* A private key is only ever combined with a valid point of its own group,
\* and only while the exchange it belongs to is the one in use: a retry never
\* brings back the key of the exchange it replaced.
OwnGroupOnly ==
  \A r \in Roles : shared[r] # None =>
    LET s == shared[r]
    IN  /\ s.peer.point.group = s.own.point.group
        /\ s.secret.keys = {s.own.point.key, s.peer.point.key}
        /\ s.secret.group = s.own.point.group
        /\ Has(r, s.secret.group)
        /\ kx[r] = None

\* An end has an exchange while it waits for an answer and a secret once it is
\* done; the exchange is one that start made, of a group the end has.
Exchanging(r) == pc[r] = "wait" \/ (r = "client" /\ pc[r] = "retried")
ExchangeOk(r) ==
  /\ (kx[r] # None) <=> Exchanging(r)
  /\ (shared[r] # None) <=> pc[r] = "done"
  /\ kx[r] # None =>
       /\ kx[r] = start(kx[r].group, kx[r].key)
       /\ kx[r].key < nextKey
       /\ Has(r, kx[r].group)
ExchangeInv == \A r \in Roles : ExchangeOk(r)

\* A secret is of one generated key and one point of the same group.
SharedOk(r) ==
  shared[r] # None =>
    LET s == shared[r]
        g == s.own.point.group
    IN  /\ s.own = start(g, s.own.point.key).pub_key
        /\ s.peer = start(g, s.peer.point.key).pub_key
        /\ s.own.point.key \in 1 .. nextKey - 1
        /\ s.secret = [group |-> g, keys |-> {s.own.point.key, s.peer.point.key}]
        /\ g \in Groups /\ Has(r, g)
SharedInv == \A r \in Roles : SharedOk(r)

\* The two ends never have the same private key, and the keys that have been
\* generated are no more than the places the ends have reached account for: a
\* retry makes a client generate a second key, and nothing a third.
KeyOf(r) ==
  IF kx[r] # None THEN kx[r].key
  ELSE IF shared[r] # None THEN shared[r].own.point.key ELSE ForeignKey
KeysInv ==
  /\ KeyOf("client") # ForeignKey => KeyOf("client") # KeyOf("server")
  /\ nextKey <= 1 + (CASE pc["client"] = "start" -> 0 [] pc["client"] = "wait" -> 1 [] OTHER -> 2)
                  + (IF pc["server"] \in {"start", "retried"} THEN 0 ELSE 1)

\* The inductive invariant.
KxInv == KxTypeOK /\ ExchangeInv /\ SharedInv /\ KeysInv

\* When the two ends have a group in common, no message is altered and no
\* call fails, both end up with a secret: every group accepts the shares it
\* exports, under both versions and through a retry.
Connects ==
  <>(~clean \/ Mutual = {} \/ (pc["client"] = "done" /\ pc["server"] = "done" /\ Both))

=============================================================================

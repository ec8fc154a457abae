------------------------- MODULE KeyExchangeProofs -------------------------
(***************************************************************************)
(* Proofs about KeyExchange.  KxInv is inductive: the lemmas of the first  *)
(* part say what the groups' operators return, those of the second what    *)
(* failing, starting and completing an exchange preserve, those of the     *)
(* third that every action of the handshake is one of these.               *)
(***************************************************************************)
EXTENDS KeyExchange, WellFoundedInduction, TLAPS

-----------------------------------------------------------------------------
(* The groups                                                              *)

\* The groups of ALL_KX_GROUPS.
LEMMA GroupNames == Groups = {"X25519", "secp256r1", "secp384r1", "secp521r1"}
BY DEF Groups, ALL_KX_GROUPS, Range

\* The sizes of their public keys, which tell the groups apart.
LEMMA KeySizes ==
  /\ PUB_KEY_SIZE("X25519") = 32 /\ PUB_KEY_SIZE("secp256r1") = 65
  /\ PUB_KEY_SIZE("secp384r1") = 97 /\ PUB_KEY_SIZE("secp521r1") = 133
BY DEF PUB_KEY_SIZE, COORD_SIZE

\* What start returns is the same for the four groups: the key it generated
\* and its point, exported at the size of the group.
LEMMA StartedAs ==
  ASSUME NEW g \in Groups, NEW k
  PROVE  start(g, k) =
           [group |-> g, key |-> k, pub_key |-> [len |-> PUB_KEY_SIZE(g), point |-> PointOf(g, k)]]
BY GroupNames DEF start, use_curve25519, use_secp256r1, use_secp384r1, use_secp521r1, Started

\* An exchange that start made with a generated key has its type.
LEMMA ShareTyped ==
  ASSUME NEW g \in Groups, NEW k \in 1 .. MaxKey
  PROVE  start(g, k) \in Box
<1>1. [len |-> PUB_KEY_SIZE(g), point |-> PointOf(g, k)] \in Bytes
  BY DEF Bytes, MaxKey
<1> QED
  BY <1>1, StartedAs DEF Box

\* The bytes that a group accepts are those start exports for some key of the
\* same group: a length and a point of another group never pass.
LEMMA AcceptedKey ==
  ASSUME NEW g \in Groups, NEW b \in Bytes, Accepts(g, b)
  PROVE  /\ b.point # BadPoint /\ b.point.key \in 0 .. MaxKey
         /\ b = start(g, b.point.key).pub_key
<1>1. b.len = PUB_KEY_SIZE(g) /\ b.point # BadPoint
  BY GroupNames DEF Accepts, curve25519_accepts, secp256r1_accepts, secp384r1_accepts,
     secp521r1_accepts, check_public, import_x963
<1>2. PICK h \in Groups, k \in 0 .. MaxKey : b = [len |-> PUB_KEY_SIZE(h), point |-> PointOf(h, k)]
  BY <1>1 DEF Bytes
<1>3. g = h
  BY <1>1, <1>2, GroupNames, KeySizes
<1> QED
  BY <1>1, <1>2, <1>3, StartedAs DEF PointOf

\* When complete succeeds its secret is of the exchange's own key and of the
\* key whose public key the peer sent, both of the exchange's group.
LEMMA CompletedSecret ==
  ASSUME NEW g \in Groups, NEW k, NEW b \in Bytes, NEW ffiOk \in BOOLEAN,
         complete(start(g, k), b, ffiOk).ok
  PROVE  /\ complete(start(g, k), b, ffiOk).secret = [group |-> g, keys |-> {k, b.point.key}]
         /\ b = start(g, b.point.key).pub_key /\ b.point.key \in 0 .. MaxKey
<1>1. start(g, k).group = g /\ start(g, k).key = k
  BY StartedAs
<1>2. Accepts(g, b)
  BY <1>1 DEF complete
<1> QED
  BY <1>1, <1>2, AcceptedKey DEF complete, Secret

\* The first entry of a list that will do is one that will do.
LEMMA MinIsLeast ==
  ASSUME NEW S, S \subseteq Nat, S # {}
  PROVE  Min(S) \in S
<1> DEFINE R == {ss \in Nat \X Nat : ss[1] < ss[2]}
<1>1. IsWellFoundedOn(R, Nat)
  <2>1. R = OpToRel(<, Nat)
    BY DEF OpToRel
  <2> QED
    BY <2>1, NatLessThanWellFounded
<1>2. PICK i \in S : \A j \in S : <<j, i>> \notin R
  <2> HIDE DEF R
  <2> QED
    BY <1>1, WFMin
<1>3. \A j \in S : i <= j
  <2>1. \A j \in S : <<j, i>> \in R <=> j < i
    OBVIOUS
  <2> HIDE DEF R
  <2>2. \A j \in S : ~(j < i)
    BY <1>2, <2>1
  <2> QED
    BY <2>2, i \in Nat
<1> QED
  BY <1>3 DEF Min

\* The group a server picks is one that both ends have.
LEMMA PreferredShared ==
  ASSUME KxTypeOK, Mutual # {}
  PROVE  Preferred \in Groups /\ Has("server", Preferred) /\ Has("client", Preferred)
<1>1. Mutual \subseteq Nat /\ Mutual \subseteq DOMAIN groups["server"]
  BY ConfigAssumption DEF KxTypeOK, Mutual, Roles
<1>2. Min(Mutual) \in Mutual
  BY <1>1, MinIsLeast
<1>3. /\ Min(Mutual) \in DOMAIN groups["server"] /\ Preferred = groups["server"][Min(Mutual)]
      /\ Has("client", Preferred)
  BY <1>2 DEF Preferred, Mutual
<1>4. Preferred \in Groups
  BY <1>3, ConfigAssumption DEF KxTypeOK, Roles
<1> QED
  BY <1>3, <1>4 DEF Has, Range

-----------------------------------------------------------------------------
(* The parts that the actions are made of                                  *)

\* What a step leaves alone, whatever it does otherwise.
Kept == UNCHANGED <<version, groups>> /\ clean' \in BOOLEAN

\* An end that fails, dropping the exchange it may have, preserves KxInv.
LEMMA FailInv ==
  ASSUME KxInv, Kept, NEW r \in Roles, shared[r] = None, Fail(r)
  PROVE  KxInv'
<1> USE DEF KxInv, Fail, Goto, NoAnswer, Kept
<1>1. KxTypeOK'
  BY DEF KxTypeOK
<1>2. ExchangeInv'
  BY DEF ExchangeInv, ExchangeOk, KxTypeOK, Exchanging, Has
<1>3. SharedInv'
  BY DEF SharedInv, SharedOk, Has
<1>4. KeysInv'
  <2>1. KeyOf(r)' = ForeignKey /\ KeyOf(Other(r))' = KeyOf(Other(r))
    BY DEF KeyOf, KxTypeOK, Other, Roles
  <2> QED
    BY <2>1 DEF KeysInv, KxTypeOK, Other, Roles
<1> QED
  BY <1>1, <1>2, <1>3, <1>4

\* The steps that start an exchange and keep it.
Starts(r, where) ==
  \/ r = "client" /\ pc[r] = "start" /\ where = "wait"
  \/ r = "client" /\ pc[r] = "wait" /\ where = "retried"
  \/ r = "server" /\ pc[r] = "start" /\ where = "wait"

\* What r has after it generated a key for group g.
LEMMA NewKey ==
  ASSUME KxInv, NEW g \in Groups, nextKey <= MaxKey
  PROVE  LET box == start(g, nextKey)
         IN  /\ box \in Box /\ box # None /\ box.group = g /\ box.key = nextKey
             /\ box.pub_key.point = PointOf(g, nextKey)
             /\ box = start(box.group, box.key)
<1>1. nextKey \in 1 .. MaxKey
  BY DEF KxInv, KxTypeOK, MaxKey
<1> QED
  BY <1>1, ShareTyped, StartedAs, NoneAssumption

\* Starting an exchange and sending its share preserves KxInv.
LEMMA StartAndSendInv ==
  ASSUME KxInv, Kept, NEW r \in Roles, NEW g \in Groups, NEW where, NEW ffiOk \in BOOLEAN,
         Has(r, g), Starts(r, where), StartAndSend(r, g, "hello", where, ffiOk)
  PROVE  KxInv'
<1> DEFINE box == start(g, nextKey)
<1>1. shared[r] = None
  BY DEF KxInv, ExchangeInv, ExchangeOk, Starts
<1>2. CASE Fail(r)
  BY <1>1, <1>2, FailInv
<1>3. CASE ffiOk
  <2>1. nextKey <= MaxKey /\ nextKey \in Nat
    BY DEF KxInv, KeysInv, KxTypeOK, Starts, MaxKey
  <2>2. /\ box \in Box /\ box # None /\ box.group = g /\ box.key = nextKey
        /\ box = start(box.group, box.key)
    BY <2>1, NewKey
  <2>3. /\ kx' = [kx EXCEPT ![r] = box] /\ pc' = [pc EXCEPT ![r] = where]
        /\ inbox' = [inbox EXCEPT ![r] = None, ![Other(r)] = Share("hello", box)]
        /\ nextKey' = nextKey + 1 /\ shared' = shared
    BY <1>3 DEF StartAndSend, Answer, Goto
  <2> HIDE DEF box
  <2>4. KxTypeOK'
    <3>1. Share("hello", box) \in Msg
      BY <2>2 DEF Share, Msg, Box
    <3>2. inbox' \in [Roles -> Msg \cup {None}]
      BY <2>3, <3>1 DEF KxInv, KxTypeOK
    <3>3. kx' \in [Roles -> Box \cup {None}] /\ shared' \in [Roles -> Result \cup {None}]
      BY <2>2, <2>3 DEF KxInv, KxTypeOK
    <3>4. pc' \in [Roles -> {"start", "wait", "retried", "done", "failed"}]
      BY <2>3 DEF KxInv, KxTypeOK, Starts
    <3>5. nextKey' \in 1 .. MaxKey + 1
      BY <2>1, <2>3 DEF KxInv, KxTypeOK, MaxKey
    <3> QED
      BY <3>2, <3>3, <3>4, <3>5 DEF KxInv, KxTypeOK, Kept
  <2>5. ExchangeInv'
    BY <1>1, <2>1, <2>2, <2>3 DEF KxInv, ExchangeInv, ExchangeOk, KxTypeOK, Kept, Starts,
       Exchanging, Has, Box
  <2>6. SharedInv'
    BY <2>1, <2>3 DEF KxInv, SharedInv, SharedOk, Has, Kept
  <2>7. KeysInv'
    <3>1. KeyOf(r)' = nextKey /\ KeyOf(Other(r))' = KeyOf(Other(r))
      BY <2>2, <2>3 DEF KxInv, KxTypeOK, KeyOf, Other, Roles
    <3>2. KeyOf(Other(r)) < nextKey
      BY <2>1 DEF KxInv, KeyOf, ExchangeInv, ExchangeOk, SharedInv, SharedOk, KxTypeOK,
         ForeignKey, Other, Roles
    <3> QED
      BY <2>1, <2>3, <3>1, <3>2 DEF KxInv, KeysInv, KxTypeOK, Starts, Other, Roles, ForeignKey
  <2> QED
    BY <2>4, <2>5, <2>6, <2>7 DEF KxInv
<1> QED
  BY <1>2, <1>3 DEF StartAndSend

\* The outcome that completing an exchange of key k and group g leaves with r.
Completed(r, g, k) ==
  /\ inbox[r].bytes = start(g, inbox[r].bytes.point.key).pub_key
  /\ inbox[r].bytes.point.key \in 0 .. MaxKey
  /\ shared' = [shared EXCEPT ![r] =
       [secret |-> [group |-> g, keys |-> {k, inbox[r].bytes.point.key}],
        own |-> start(g, k).pub_key, peer |-> inbox[r].bytes]]
  /\ pc' = [pc EXCEPT ![r] = "done"]
  /\ kx' = [kx EXCEPT ![r] = None]

\* An end that comes by a secret of its key k and a point of the same group g
\* preserves KxInv, provided that the other end's key is another.
LEMMA CompletedInv ==
  ASSUME KxInv, Kept, NEW r \in Roles, NEW g \in Groups, NEW k \in 1 .. MaxKey,
         inbox[r] # None, Has(r, g), Completed(r, g, k),
         k < nextKey', KeyOf(Other(r)) # k,
         inbox' \in [Roles -> Msg \cup {None}],
         \/ pc[r] \in {"start", "retried"} /\ ~Exchanging(r) /\ nextKey' = nextKey + 1
         \/ Exchanging(r) /\ nextKey' = nextKey
  PROVE  KxInv'
<1> DEFINE own == start(g, k).pub_key
           peer == inbox[r].bytes
           p == peer.point.key
           res == [secret |-> [group |-> g, keys |-> {k, p}], own |-> own, peer |-> peer]
<1>1. /\ own \in Bytes /\ own.point = PointOf(g, k)
      /\ peer \in Bytes /\ peer.point = PointOf(g, p) /\ p \in 0 .. MaxKey
  <2>1. start(g, k) \in Box /\ start(g, k).pub_key.point = PointOf(g, k)
    BY ShareTyped, StartedAs
  <2>2. peer \in Bytes
    BY DEF KxInv, KxTypeOK, Msg
  <2>3. start(g, p).pub_key.point = PointOf(g, p)
    BY StartedAs
  <2> QED
    BY <2>1, <2>2, <2>3 DEF Box, Completed
<1>2. res \in Result /\ res # None
  <2>1. res \in Result
    BY <1>1 DEF Result, MaxKey
  <2> QED
    BY <2>1, NoneAssumption
<1>3. own = start(g, own.point.key).pub_key /\ peer = start(g, p).pub_key
  BY <1>1 DEF Completed, PointOf
<1>4. /\ res.own = own /\ res.peer = peer /\ res.secret = [group |-> g, keys |-> {k, p}]
      /\ own.point.group = g /\ own.point.key = k /\ peer.point.key = p
  BY <1>1 DEF PointOf
<1>5. /\ shared' = [shared EXCEPT ![r] = res] /\ pc' = [pc EXCEPT ![r] = "done"]
      /\ kx' = [kx EXCEPT ![r] = None]
  BY DEF Completed
<1> HIDE DEF own, peer, p, res
<1>6. nextKey \in Nat /\ nextKey' \in 1 .. MaxKey + 1
  BY DEF KxInv, KxTypeOK, KeysInv, Exchanging, MaxKey, Roles
<1>7. KxTypeOK'
  BY <1>2, <1>5, <1>6 DEF KxInv, KxTypeOK, Kept
<1>8. ASSUME NEW q \in Roles, q # r
      PROVE  pc'[q] = pc[q] /\ kx'[q] = kx[q] /\ shared'[q] = shared[q] /\ nextKey <= nextKey'
  BY <1>5, <1>6, <1>8 DEF KxInv, KxTypeOK
<1>9. pc'[r] = "done" /\ kx'[r] = None /\ shared'[r] = res
  BY <1>5 DEF KxInv, KxTypeOK
<1>11. ExchangeInv'
  <2>1. ExchangeOk(r)'
    BY <1>2, <1>9 DEF ExchangeOk, Exchanging
  <2>2. ASSUME NEW q \in Roles, q # r
        PROVE  ExchangeOk(q)'
    <3>1. kx[q] # None => kx[q].key \in Nat
      BY DEF KxInv, KxTypeOK, Box
    <3> QED
      BY <1>6, <1>8, <2>2, <3>1 DEF KxInv, ExchangeInv, ExchangeOk, Exchanging, Kept, Has
  <2> QED
    BY <2>1, <2>2 DEF ExchangeInv
<1>12. SharedInv'
  <2>1. ASSUME NEW q \in Roles, q # r
        PROVE  SharedOk(q)'
    BY <1>6, <1>8, <2>1 DEF KxInv, SharedInv, SharedOk, Kept, Has
  <2>2. SharedOk(r)'
    <3>1. /\ res.own = start(g, res.own.point.key).pub_key
          /\ res.peer = start(g, res.peer.point.key).pub_key
          /\ res.own.point.key \in 1 .. nextKey' - 1
          /\ res.secret = [group |-> g, keys |-> {res.own.point.key, res.peer.point.key}]
          /\ Has(r, g)' /\ res.own.point.group = g
      BY <1>3, <1>4, <1>6 DEF Kept, Has
    <3> QED
      BY <1>9, <3>1 DEF SharedOk
  <2> QED
    BY <2>1, <2>2 DEF SharedInv
<1>10. KeysInv'
  <2>1. KeyOf(r)' = k /\ KeyOf(Other(r))' = KeyOf(Other(r))
    BY <1>2, <1>4, <1>5 DEF KxInv, KxTypeOK, KeyOf, Other, Roles
  <2> QED
    BY <1>5, <1>6, <2>1 DEF KxInv, KeysInv, KxTypeOK, Exchanging, Other, Roles
<1> QED
  BY <1>7, <1>10, <1>11, <1>12 DEF KxInv

\* Completing the exchange an end has preserves KxInv, whatever bytes arrived.
LEMMA CompleteInv ==
  ASSUME KxInv, Kept, NEW r \in Roles, NEW ffiOk \in BOOLEAN,
         Exchanging(r), inbox[r] # None, Complete(r, ffiOk)
  PROVE  KxInv'
<1> DEFINE g == kx[r].group
           k == kx[r].key
           b == inbox[r].bytes
<1>1. /\ kx[r] # None /\ shared[r] = None /\ kx[r] = start(g, k)
      /\ k < nextKey /\ Has(r, g)
  BY DEF KxInv, ExchangeInv, ExchangeOk, Exchanging
<1>2. g \in Groups /\ k \in 1 .. MaxKey /\ b \in Bytes /\ nextKey \in Nat
  BY <1>1 DEF KxInv, KxTypeOK, Box, Msg
<1>3. CASE Fail(r)
  BY <1>1, <1>3, FailInv
<1>4. CASE complete(kx[r], b, ffiOk).ok
  <2>1. /\ complete(kx[r], b, ffiOk).secret = [group |-> g, keys |-> {k, b.point.key}]
        /\ b = start(g, b.point.key).pub_key /\ b.point.key \in 0 .. MaxKey
    <3> HIDE DEF g, k, b
    <3> QED
      BY <1>1, <1>2, <1>4, CompletedSecret
  <2>2. Completed(r, g, k) /\ NoAnswer(r) /\ nextKey' = nextKey
    BY <1>1, <1>4, <2>1 DEF Complete, Completed, Goto
  <2>3. KeyOf(Other(r)) # k
    <3>1. KeyOf(r) = k /\ k # ForeignKey
      BY <1>1, <1>2 DEF KeyOf, ForeignKey
    <3> QED
      BY <3>1 DEF KxInv, KeysInv, Other, Roles
  <2>4. inbox' \in [Roles -> Msg \cup {None}]
    BY <2>2 DEF KxInv, KxTypeOK, NoAnswer
  <2> HIDE DEF g, k, b
  <2> QED
    BY <1>1, <1>2, <2>2, <2>3, <2>4, CompletedInv
<1> QED
  BY <1>3, <1>4 DEF Complete

\* start_and_complete preserves KxInv, whatever bytes arrived.
LEMMA StartAndCompleteInv ==
  ASSUME KxInv, Kept, NEW r \in Roles, NEW g \in Groups, NEW ffiOk \in BOOLEAN,
         pc[r] \in {"start", "retried"}, ~Exchanging(r), inbox[r] # None, Has(r, g),
         StartAndComplete(r, g, "reply", ffiOk)
  PROVE  KxInv'
<1> DEFINE box == start(g, nextKey)
           b == inbox[r].bytes
<1>1. kx[r] = None /\ shared[r] = None
  BY DEF KxInv, ExchangeInv, ExchangeOk
<1>2. nextKey \in 1 .. MaxKey /\ b \in Bytes
  BY DEF KxInv, KeysInv, KxTypeOK, Exchanging, MaxKey, Msg, Roles
<1>3. CASE Fail(r)
  BY <1>1, <1>3, FailInv
<1>4. CASE complete(box, b, ffiOk).ok
  <2>1. /\ complete(box, b, ffiOk).secret = [group |-> g, keys |-> {nextKey, b.point.key}]
        /\ b = start(g, b.point.key).pub_key /\ b.point.key \in 0 .. MaxKey
    BY <1>2, <1>4, CompletedSecret
  <2>2. kx = [kx EXCEPT ![r] = None]
    BY <1>1 DEF KxInv, KxTypeOK
  <2>3. /\ Completed(r, g, nextKey) /\ nextKey' = nextKey + 1
        /\ inbox' = [inbox EXCEPT ![r] = None, ![Other(r)] = Share("reply", box)]
    BY <1>4, <2>1, <2>2 DEF StartAndComplete, Completed, Goto, Answer
  <2>4. box \in Box /\ box.group = g
    BY <1>2, ShareTyped, StartedAs
  <2>5. KeyOf(Other(r)) # nextKey
    BY <1>2 DEF KxInv, KeyOf, ExchangeInv, ExchangeOk, SharedInv, SharedOk, KxTypeOK,
       ForeignKey, Other, Roles
  <2>6. inbox' \in [Roles -> Msg \cup {None}]
    <3>1. Share("reply", box) \in Msg
      BY <2>4 DEF Share, Msg, Box
    <3> HIDE DEF box
    <3> QED
      BY <2>3, <3>1 DEF KxInv, KxTypeOK
  <2>7. nextKey < nextKey'
    BY <1>2, <2>3
  <2> HIDE DEF box, b
  <2> QED
    BY <1>2, <2>3, <2>5, <2>6, <2>7, CompletedInv
<1> QED
  BY <1>3, <1>4 DEF StartAndComplete

-----------------------------------------------------------------------------
(* The actions of the handshake                                            *)

\* An end that is not done has no secret.
LEMMA NoSecretYet ==
  ASSUME KxInv, NEW r \in Roles, pc[r] # "done"
  PROVE  shared[r] = None
BY DEF KxInv, ExchangeInv, ExchangeOk

\* A message that an end is about to handle names a group.
LEMMA InboxTyped ==
  ASSUME KxInv, NEW r \in Roles, NEW kind, Pending(r, kind)
  PROVE  inbox[r] # None /\ inbox[r].group \in Groups
BY DEF KxInv, KxTypeOK, Pending, Msg

\* The client's first share, of the first group of its list.
LEMMA ClientHelloInv ==
  ASSUME KxInv, Kept, NEW ffiOk \in BOOLEAN, ClientHello(ffiOk)
  PROVE  KxInv'
<1>1. groups["client"] \in Seq(Groups) /\ groups["client"] # <<>>
  BY ConfigAssumption DEF KxInv, KxTypeOK, Roles
<1>2. Head(groups["client"]) \in Groups /\ Has("client", Head(groups["client"]))
  BY <1>1 DEF Has, Range
<1>3. Starts("client", "wait") /\ "client" \in Roles
  BY DEF ClientHello, Starts, Roles
<1> QED
  BY <1>2, <1>3, StartAndSendInv DEF ClientHello

\* A request to retry is a message.
LEMMA RetryTyped ==
  ASSUME NEW g \in Groups
  PROVE  Retry(g) \in Msg
<1>1. 0 \in Sizes
  BY DEF Sizes
<1>2. [len |-> 0, point |-> BadPoint] \in Bytes
  BY <1>1 DEF Bytes
<1> QED
  BY <1>2 DEF Retry, Msg

\* The server asks for another group and starts nothing.
LEMMA RetryInv ==
  ASSUME KxInv, Kept, Mutual # {}, pc["server"] = "start",
         Answer("server", Retry(Preferred)), Goto("server", "retried"),
         UNCHANGED <<kx, shared, nextKey>>
  PROVE  KxInv'
<1>1. Preferred \in Groups
  BY PreferredShared DEF KxInv
<1>2. Retry(Preferred) \in Msg
  BY <1>1, RetryTyped
<1>3. pc' = [pc EXCEPT !["server"] = "retried"]
      /\ inbox' = [inbox EXCEPT !["server"] = None, !["client"] = Retry(Preferred)]
  BY DEF Goto, Answer, Other
<1>4. KxTypeOK'
  BY <1>2, <1>3 DEF KxInv, KxTypeOK, Kept, Roles
<1>5. ExchangeInv'
  BY <1>3 DEF KxInv, KxTypeOK, ExchangeInv, ExchangeOk, Exchanging, Has, Kept, Roles
<1>6. SharedInv'
  BY DEF KxInv, SharedInv, SharedOk, Has, Kept
<1>7. KeysInv'
  BY <1>3 DEF KxInv, KxTypeOK, KeysInv, KeyOf, Roles
<1> QED
  BY <1>4, <1>5, <1>6, <1>7 DEF KxInv

\* The server completes with the client's share, asks to retry, or fails.
LEMMA ServerHelloInv ==
  ASSUME KxInv, Kept, NEW ffiOk \in BOOLEAN, ServerHello(ffiOk)
  PROVE  KxInv'
<1> DEFINE g == inbox["server"].group
<1>1. "server" \in Roles /\ pc["server"] \in {"start", "retried"} /\ ~Exchanging("server")
  BY DEF ServerHello, Roles, Exchanging
<1>2. inbox["server"] # None /\ g \in Groups /\ shared["server"] = None
  BY <1>1, InboxTyped, NoSecretYet DEF ServerHello
<1>3. CASE Has("server", g) /\ StartAndComplete("server", g, "reply", ffiOk)
  BY <1>1, <1>2, <1>3, StartAndCompleteInv
<1>4. CASE Fail("server")
  BY <1>1, <1>2, <1>4, FailInv
<1>5. CASE /\ Mutual # {} /\ pc["server"] = "start"
           /\ Answer("server", Retry(Preferred)) /\ Goto("server", "retried")
           /\ UNCHANGED <<kx, shared, nextKey>>
  BY <1>5, RetryInv
<1> QED
  BY <1>1, <1>3, <1>4, <1>5 DEF ServerHello

\* The client replaces its exchange at most once.
LEMMA ClientRetryInv ==
  ASSUME KxInv, Kept, NEW ffiOk \in BOOLEAN, ClientRetry(ffiOk)
  PROVE  KxInv'
<1> DEFINE g == inbox["client"].group
<1>1. "client" \in Roles /\ pc["client"] \in {"wait", "retried"}
  BY DEF ClientRetry, Roles
<1>2. g \in Groups /\ shared["client"] = None
  BY <1>1, InboxTyped, NoSecretYet DEF ClientRetry
<1>3. CASE Fail("client")
  BY <1>1, <1>2, <1>3, FailInv
<1>4. CASE /\ pc["client"] = "wait" /\ Has("client", g)
           /\ StartAndSend("client", g, "hello", "retried", ffiOk)
  <2>1. Starts("client", "retried")
    BY <1>4 DEF Starts
  <2> QED
    BY <1>1, <1>2, <1>4, <2>1, StartAndSendInv
<1> QED
  BY <1>1, <1>3, <1>4 DEF ClientRetry

\* The client completes the exchange it has with the server's share.
LEMMA ClientFinishInv ==
  ASSUME KxInv, Kept, NEW ffiOk \in BOOLEAN, ClientFinish(ffiOk)
  PROVE  KxInv'
<1>1. "client" \in Roles /\ Exchanging("client")
  BY DEF ClientFinish, Roles, Exchanging
<1>2. inbox["client"] # None /\ shared["client"] = None
  BY <1>1, NoSecretYet DEF ClientFinish, Pending
<1> QED
  BY <1>1, <1>2, FailInv, CompleteInv DEF ClientFinish

\* TLS 1.2: the server starts an exchange of the group it prefers.
LEMMA ServerKeyExchangeInv ==
  ASSUME KxInv, Kept, NEW ffiOk \in BOOLEAN, ServerKeyExchange(ffiOk)
  PROVE  KxInv'
<1>1. "server" \in Roles /\ Starts("server", "wait") /\ shared["server"] = None
  BY NoSecretYet DEF ServerKeyExchange, Roles, Starts
<1>2. CASE Mutual = {}
  BY <1>1, <1>2, FailInv DEF ServerKeyExchange
<1>3. CASE Mutual # {}
  <2>1. Preferred \in Groups /\ Has("server", Preferred)
    BY <1>3, PreferredShared DEF KxInv
  <2> QED
    BY <1>1, <1>3, <2>1, StartAndSendInv DEF ServerKeyExchange
<1> QED
  BY <1>2, <1>3

\* TLS 1.2: the client starts and completes one of the same group.
LEMMA ClientKeyExchangeInv ==
  ASSUME KxInv, Kept, NEW ffiOk \in BOOLEAN, ClientKeyExchange(ffiOk)
  PROVE  KxInv'
<1>1. "client" \in Roles /\ pc["client"] = "start" /\ ~Exchanging("client")
  BY DEF ClientKeyExchange, Roles, Exchanging
<1>2. /\ inbox["client"] # None /\ inbox["client"].group \in Groups
      /\ shared["client"] = None
  BY <1>1, InboxTyped, NoSecretYet DEF ClientKeyExchange
<1> QED
  BY <1>1, <1>2, FailInv, StartAndCompleteInv DEF ClientKeyExchange

\* TLS 1.2: the server completes its exchange.
LEMMA ServerFinishInv ==
  ASSUME KxInv, Kept, NEW ffiOk \in BOOLEAN, ServerFinish(ffiOk)
  PROVE  KxInv'
<1>1. "server" \in Roles /\ Exchanging("server") /\ inbox["server"] # None
  BY DEF ServerFinish, Roles, Exchanging, Pending
<1> QED
  BY <1>1, CompleteInv DEF ServerFinish

\* The network may put any message of its own in an inbox.
LEMMA AlterInv ==
  ASSUME KxInv, NEW r \in Roles, Alter(r)
  PROVE  KxInv'
<1>1. inbox' \in [Roles -> Msg \cup {None}]
  <2>1. ASSUME NEW g \in Groups, NEW b \in Bytes,
               inbox' = [inbox EXCEPT ![r].group = g, ![r].bytes = b]
        PROVE  inbox' \in [Roles -> Msg \cup {None}]
    <3>1. inbox[r] \in Msg
      BY DEF KxInv, KxTypeOK, Alter
    <3>2. [inbox[r] EXCEPT !.group = g, !.bytes = b] \in Msg
      BY <3>1 DEF Msg
    <3>3. inbox' = [inbox EXCEPT ![r] = [inbox[r] EXCEPT !.group = g, !.bytes = b]]
      BY <2>1 DEF KxInv, KxTypeOK
    <3> QED
      BY <3>2, <3>3 DEF KxInv, KxTypeOK
  <2>2. ASSUME NEW g \in Groups, inbox' = [inbox EXCEPT ![r] = Retry(g)]
        PROVE  inbox' \in [Roles -> Msg \cup {None}]
    <3>1. Retry(g) \in Msg
      BY RetryTyped
    <3> QED
      BY <2>2, <3>1 DEF KxInv, KxTypeOK
  <2> QED
    BY <2>1, <2>2 DEF Alter
<1>2. UNCHANGED <<version, groups, pc, kx, shared, nextKey>> /\ clean' = FALSE
  BY DEF Alter
<1> QED
  BY <1>1, <1>2 DEF KxInv, KxTypeOK, ExchangeInv, ExchangeOk, Exchanging, SharedInv, SharedOk,
     KeysInv, KeyOf, Has

\* Every step of the two ends, whether or not a wolfCrypt call fails in it.
LEMMA StepInv ==
  ASSUME KxInv, NEW ffiOk \in BOOLEAN, Step(ffiOk)
  PROVE  KxInv'
<1>1. Kept
  BY DEF Step, Kept, KxInv, KxTypeOK
<1> QED
  BY <1>1, ClientHelloInv, ServerHelloInv, ClientRetryInv, ClientFinishInv,
     ServerKeyExchangeInv, ClientKeyExchangeInv, ServerFinishInv DEF Step

-----------------------------------------------------------------------------
(* The theorems                                                            *)

\* KxInv is an invariant: the exchange, the secret and the private key each end
\* has are those its place in the handshake calls for, whatever the network did.
THEOREM Invariant == Spec => []KxInv
<1>1. Init => KxInv
  <2> SUFFICES ASSUME Init PROVE KxInv
    OBVIOUS
  <2> QED
    BY DEF Init, KxInv, KxTypeOK, ExchangeInv, ExchangeOk, Exchanging, SharedInv, SharedOk, KeysInv,
       KeyOf, Roles, MaxKey
<1>2. KxInv /\ [Next]_vars => KxInv'
  <2>1. ASSUME KxInv, UNCHANGED vars PROVE KxInv'
    BY <2>1 DEF vars, KxInv, KxTypeOK, ExchangeInv, ExchangeOk, Exchanging, SharedInv, SharedOk,
       KeysInv, KeyOf, Has
  <2> QED
    BY <2>1, StepInv, AlterInv DEF Next
<1> QED
  BY <1>1, <1>2, PTL DEF Spec

\* Every variable has its type; in particular a handshake never generates more
\* than MaxKey keys, however often it is asked to retry.
THEOREM TypeCorrect == Spec => []KxTypeOK
<1>1. KxInv => KxTypeOK
  BY DEF KxInv
<1> QED
  BY <1>1, Invariant, PTL

\* Two ends have the same secret exactly when each completed with the share of
\* the other.  It needs KeysInv: were the two private keys equal, an end could
\* agree with its peer on a share that the peer did not send.
THEOREM SameSecret == Spec => []SecretsMatchShares
<1>1. KxInv => SecretsMatchShares
  <2> SUFFICES ASSUME KxInv, Both
               PROVE  SecretsMatchShares
    BY DEF SecretsMatchShares
  <2> DEFINE c == shared["client"]
             s == shared["server"]
             g == c.own.point.group
             h == s.own.point.group
  <2>1. /\ c.own = start(g, c.own.point.key).pub_key
        /\ c.peer = start(g, c.peer.point.key).pub_key
        /\ c.secret = [group |-> g, keys |-> {c.own.point.key, c.peer.point.key}]
        /\ s.own = start(h, s.own.point.key).pub_key
        /\ s.peer = start(h, s.peer.point.key).pub_key
        /\ s.secret = [group |-> h, keys |-> {s.own.point.key, s.peer.point.key}]
        /\ g \in Groups /\ h \in Groups
    BY DEF KxInv, SharedInv, SharedOk, Both, Roles
  <2>2. c.own.point.key # s.own.point.key
    BY DEF KxInv, ExchangeInv, ExchangeOk, Exchanging, SharedInv, SharedOk, KeysInv, KeyOf, Both,
       Roles, ForeignKey, KxTypeOK
  <2>3. c.peer.point = PointOf(g, c.peer.point.key) /\ s.peer.point = PointOf(h, s.peer.point.key)
    BY <2>1, StartedAs
  <2> HIDE DEF c, s
  <2>4. ASSUME c.secret = s.secret
        PROVE  c.peer = s.own /\ s.peer = c.own
    <3>1. g = h /\ {c.own.point.key, c.peer.point.key} = {s.own.point.key, s.peer.point.key}
      BY <2>1, <2>4
    <3>2. c.peer.point.key = s.own.point.key /\ s.peer.point.key = c.own.point.key
      BY <2>2, <3>1
    <3> QED
      BY <2>1, <3>1, <3>2
  <2>5. ASSUME c.peer = s.own, s.peer = c.own
        PROVE  c.secret = s.secret
    <3>1. g = h
      BY <2>3, <2>5 DEF PointOf
    <3> QED
      BY <2>1, <2>5, <3>1
  <2> QED
    BY <2>4, <2>5 DEF SecretsMatchShares, c, s
<1> QED
  BY <1>1, Invariant, PTL

\* A private key is only ever combined with a point of its own group, one of a
\* group its end has, and the exchange it belongs to is used up.
THEOREM OwnGroup == Spec => []OwnGroupOnly
<1>1. KxInv => OwnGroupOnly
  <2> SUFFICES ASSUME KxInv, NEW r \in Roles, shared[r] # None
               PROVE  LET s == shared[r]
                      IN  /\ s.peer.point.group = s.own.point.group
                          /\ s.secret.keys = {s.own.point.key, s.peer.point.key}
                          /\ s.secret.group = s.own.point.group
                          /\ Has(r, s.secret.group)
                          /\ kx[r] = None
    BY DEF OwnGroupOnly
  <2> DEFINE s == shared[r]
             g == s.own.point.group
  <2>1. /\ s.peer = start(g, s.peer.point.key).pub_key
        /\ s.secret = [group |-> g, keys |-> {s.own.point.key, s.peer.point.key}]
        /\ g \in Groups /\ Has(r, g)
    BY DEF KxInv, SharedInv, SharedOk
  <2>2. s.peer.point.group = g
    BY <2>1, StartedAs DEF PointOf
  <2>3. kx[r] = None
    BY DEF KxInv, ExchangeInv, ExchangeOk, Exchanging
  <2> QED
    BY <2>1, <2>2, <2>3
<1> QED
  BY <1>1, Invariant, PTL

=============================================================================

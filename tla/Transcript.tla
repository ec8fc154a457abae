----------------------------- MODULE Transcript -----------------------------
(***************************************************************************)
(* What a hash context promises: it is a value.  A context holds the bytes *)
(* it was given, a fork is a second, independent value, and a digest is    *)
(* the digest of exactly the bytes its context holds.                      *)
(***************************************************************************)
EXTENDS Sequences

CONSTANTS
  Handles,  \* names for contexts
  Chunks,   \* byte sequences passed to update and hash
  NoBytes   \* a handle that names no context

VARIABLES
  bytes,    \* bytes[h]: what context h was given, or NoBytes
  output    \* the byte sequence whose digest was returned last, or NoBytes

vars == <<bytes, output>>

Live(h) == bytes[h] # NoBytes

Init == bytes = [h \in Handles |-> NoBytes] /\ output = NoBytes

Start(h) ==
  /\ ~Live(h)
  /\ bytes' = [bytes EXCEPT ![h] = <<>>]
  /\ UNCHANGED output

Update(h, chunk) ==
  /\ Live(h)
  /\ bytes' = [bytes EXCEPT ![h] = @ \o chunk]
  /\ UNCHANGED output

Fork(h, g) ==
  /\ Live(h) /\ ~Live(g)
  /\ bytes' = [bytes EXCEPT ![g] = bytes[h]]
  /\ UNCHANGED output

ForkFinish(h) ==
  /\ Live(h)
  /\ output' = bytes[h]
  /\ UNCHANGED bytes

Finish(h) ==
  /\ Live(h)
  /\ output' = bytes[h]
  /\ bytes' = [bytes EXCEPT ![h] = NoBytes]

Drop(h) ==
  /\ Live(h)
  /\ bytes' = [bytes EXCEPT ![h] = NoBytes]
  /\ UNCHANGED output

Hash(chunk) ==
  /\ output' = chunk
  /\ UNCHANGED bytes

Next ==
  \/ \E h \in Handles :
       \/ Start(h)
       \/ \E chunk \in Chunks : Update(h, chunk)
       \/ \E g \in Handles : Fork(h, g)
       \/ ForkFinish(h)
       \/ Finish(h)
       \/ Drop(h)
  \/ \E chunk \in Chunks : Hash(chunk)

Spec == Init /\ [][Next]_vars

=============================================================================

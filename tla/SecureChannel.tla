---------------------------- MODULE SecureChannel ----------------------------
(***************************************************************************)
(* What a record cipher promises the two ends of a TLS connection: the     *)
(* reader sees the messages the writer sent, in that order, until its end  *)
(* is closed for good.  There is no network here, and nothing in it that   *)
(* could be cut, repeated, reordered or altered.                           *)
(***************************************************************************)
EXTENDS Naturals, Sequences

CONSTANT Messages

VARIABLES
  sent,       \* the messages the writer sent
  delivered,  \* the messages the reader was given
  open        \* whether the reading end is open

vars == <<sent, delivered, open>>

Init == sent = <<>> /\ delivered = <<>> /\ open = TRUE

Send ==
  /\ \E m \in Messages : sent' = Append(sent, m)
  /\ UNCHANGED <<delivered, open>>

Deliver ==
  /\ open
  /\ Len(delivered) < Len(sent)
  /\ delivered' = Append(delivered, sent[Len(delivered) + 1])
  /\ UNCHANGED <<sent, open>>

Close ==
  /\ open
  /\ open' = FALSE
  /\ UNCHANGED <<sent, delivered>>

Next == Send \/ Deliver \/ Close

Spec == Init /\ [][Next]_vars

=============================================================================

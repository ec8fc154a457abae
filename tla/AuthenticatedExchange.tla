----------------------- MODULE AuthenticatedExchange -----------------------
(***************************************************************************)
(* What a handshake promises its two ends.  Each accepts at most one       *)
(* session, or gives up; the second to accept has the session the first    *)
(* one has; a client accepts only when the server has the key that its     *)
(* certificate names.                                                      *)
(***************************************************************************)
CONSTANT None  \* no session

VARIABLES
  session,  \* session[r]: the session role r has accepted, or None
  alive,    \* alive[r]: r has not given up
  genuine   \* the server's key is the one its certificate names

Roles == DOMAIN session

Init ==
  /\ session = [r \in {"client", "server"} |-> None]
  /\ alive = [r \in {"client", "server"} |-> TRUE]
  /\ genuine \in BOOLEAN

Accept(r) ==
  /\ alive[r] /\ session[r] = None
  /\ r = "client" => genuine
  /\ session'[r] # None
  /\ session' = [session EXCEPT ![r] = session'[r]]
  /\ \A q \in Roles \ {r} : session[q] # None => session'[r] = session[q]
  /\ UNCHANGED <<alive, genuine>>

GiveUp(r) ==
  /\ alive[r]
  /\ alive' = [alive EXCEPT ![r] = FALSE]
  /\ UNCHANGED <<session, genuine>>

Next == \E r \in Roles : Accept(r) \/ GiveUp(r)

Spec == Init /\ [][Next]_<<session, alive, genuine>>

=============================================================================

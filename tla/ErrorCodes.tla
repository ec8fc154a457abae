----------------------------- MODULE ErrorCodes -----------------------------
(***************************************************************************)
(* error.rs: what a wolfCrypt return code means to a caller, under each of *)
(* the three conventions wolfCrypt has for reporting success.  A caller    *)
(* makes calls one after the other and stops at the first error (?).       *)
(***************************************************************************)
EXTENDS Integers, Sequences

CONSTANTS
  Codes,    \* the return codes that calls may give
  MaxCalls  \* bound: calls made in one behaviour

ASSUME CodesAssumption == Codes \subseteq Int /\ MaxCalls \in Nat

Ok == "Ok"
WCError ==
  {"Success", "Failure", "Memory", "InvalidArgument", "Buffer", "Authentication",
   "RandomError", "ASNParse", "KeyError", "NotAvailable"}

check_error(ret) ==
  CASE ret = 0                             -> Ok
    [] ret = -125                          -> "Memory"
    [] ret = -173                          -> "InvalidArgument"
    [] ret = -132                          -> "Buffer"
    [] ret \in -181 .. -180 \cup {-213}    -> "Authentication"
    [] ret \in {-199, -236}                -> "RandomError"
    [] ret \in -162 .. -140                -> "ASNParse"
    [] ret \in {-262, -216}                -> "KeyError"
    [] ret \in {-174, -271}                -> "NotAvailable"
    [] OTHER                               -> "Failure"

check_if_zero(ret) == check_error(ret)

BugCheckIfOne(stat) == IF stat = 1 THEN Ok ELSE check_error(stat)
check_if_one(stat) ==
  CASE stat = 1 -> Ok
    [] stat = 0 -> "Failure"
    [] OTHER    -> check_error(stat)

check_if_greater_than_zero(ret) ==
  CASE ret > 0 -> Ok
    [] ret = 0 -> "Failure"
    [] OTHER   -> check_error(ret)

Checks == {"check_if_zero", "check_if_one", "check_if_greater_than_zero"}
Check(check, ret) ==
  CASE check = "check_if_zero"              -> check_if_zero(ret)
    [] check = "check_if_one"               -> check_if_one(ret)
    [] check = "check_if_greater_than_zero" -> check_if_greater_than_zero(ret)

-----------------------------------------------------------------------------
VARIABLES
  calls,   \* history: [check, ret] of the calls made
  result   \* what the caller has: Ok, or the error it returned with

vars == <<calls, result>>

Init == calls = <<>> /\ result = Ok

\* One FFI call and the check of what it returned.
Call(check, ret) ==
  /\ result = Ok
  /\ Len(calls) < MaxCalls
  /\ calls' = Append(calls, [check |-> check, ret |-> ret])
  /\ result' = Check(check, ret)

Next == \E check \in Checks, ret \in Codes : Call(check, ret)

Spec == Init /\ [][Next]_vars

-----------------------------------------------------------------------------
(* Properties                                                              *)

Succeeded(c) ==
  CASE c.check = "check_if_zero"              -> c.ret = 0
    [] c.check = "check_if_one"               -> c.ret = 1
    [] c.check = "check_if_greater_than_zero" -> c.ret > 0

\* A caller goes on if and only if every call so far reported success by its
\* own convention: what is success for one check (0, 1, a length) never passes
\* another, and no error is called a success.
GoesOnOnlyOnSuccess ==
  /\ (result = Ok) <=> \A i \in DOMAIN calls : Succeeded(calls[i])
  /\ result \in {Ok} \cup (WCError \ {"Success"})

\* What the caller holds is what the last call gave it, and it made no call
\* after an error.
CallsInv ==
  /\ calls \in Seq([check : Checks, ret : Int])
  /\ calls # <<>> => result = Check(calls[Len(calls)].check, calls[Len(calls)].ret)
  /\ calls = <<>> => result = Ok
  /\ \A i \in DOMAIN calls : i # Len(calls) => Succeeded(calls[i])

\* The codes that the comments on WCError name, by wolfCrypt's numbers, with
\* the variant each comment is on.
Named ==
  {<<-125, "Memory">>,          \* MEMORY_E
   <<-2,   "Memory">>,          \* MP_MEM
   <<-173, "InvalidArgument">>, \* BAD_FUNC_ARG
   <<-192, "InvalidArgument">>, \* BAD_STATE_E
   <<-132, "Buffer">>,          \* BUFFER_E
   <<-131, "Buffer">>,          \* RSA_BUFFER_E
   <<-213, "Authentication">>,  \* MAC_CMP_FAILED_E
   <<-180, "Authentication">>,  \* AES_GCM_AUTH_E
   <<-199, "RandomError">>,     \* RNG_FAILURE_E
   <<-236, "RandomError">>,     \* MISSING_RNG_E
   <<-140, "ASNParse">>,        \* ASN_PARSE_E
   <<-262, "KeyError">>,        \* RSA_KEY_PAIR_E
   <<-216, "KeyError">>,        \* ECC_PRIV_KEY_E
   <<-174, "NotAvailable">>,    \* NOT_COMPILED_IN
   <<-271, "NotAvailable">>}    \* CRYPTOCB_UNAVAILABLE

\* The comments on WCError: a named code becomes the variant it is listed under.
\* The code does not do so for MP_MEM, BAD_STATE_E and RSA_BUFFER_E.
NamedCodesClassified ==
  \A n \in Named :
    calls # <<>> /\ calls[Len(calls)].ret = n[1] => result = n[2]

=============================================================================

-------------------------- MODULE ErrorCodesProofs --------------------------
(***************************************************************************)
(* ErrorCodes proved for every integer as a return code and every number   *)
(* of calls.                                                               *)
(***************************************************************************)
EXTENDS ErrorCodes, SequenceTheorems, TLAPS

\* A check passes exactly the values that mean success by its convention, and
\* every other value is an error with a name.
LEMMA CheckSound ==
  ASSUME NEW c \in [check : Checks, ret : Int]
  PROVE  /\ Check(c.check, c.ret) \in {Ok} \cup (WCError \ {"Success"})
         /\ (Check(c.check, c.ret) = Ok) <=> Succeeded(c)
<1>1. c.ret \in Int /\ c.check \in Checks
  OBVIOUS
<1>2. /\ check_error(c.ret) \in {Ok} \cup (WCError \ {"Success"})
      /\ (check_error(c.ret) = Ok) <=> c.ret = 0
  BY <1>1 DEF check_error, Ok, WCError
<1>3. CASE c.check = "check_if_zero"
  BY <1>1, <1>2, <1>3 DEF Check, Succeeded, check_if_zero
<1>4. CASE c.check = "check_if_one"
  BY <1>1, <1>2, <1>4 DEF Check, Succeeded, check_if_one, Ok, WCError
<1>5. CASE c.check = "check_if_greater_than_zero"
  BY <1>1, <1>2, <1>5 DEF Check, Succeeded, check_if_greater_than_zero, Ok, WCError
<1> QED
  BY <1>1, <1>3, <1>4, <1>5 DEF Checks

\* The caller's result is that of its last call.
LEMMA CallsInvariant == Spec => []CallsInv
<1>1. Init => CallsInv
  BY DEF Init, CallsInv
<1>2. CallsInv /\ [Next]_vars => CallsInv'
  <2> SUFFICES ASSUME CallsInv, [Next]_vars PROVE CallsInv'
    OBVIOUS
  <2>1. CASE UNCHANGED vars
    BY <2>1 DEF vars, CallsInv
  <2>2. CASE Next
    <3>1. PICK check \in Checks, ret \in Codes : Call(check, ret)
      BY <2>2 DEF Next
    <3> DEFINE c == [check |-> check, ret |-> ret]
               n == Len(calls)
    <3>2. c \in [check : Checks, ret : Int] /\ c.check = check /\ c.ret = ret
      BY <3>1, CodesAssumption
    <3>3. /\ calls' = Append(calls, c) /\ result' = Check(check, ret) /\ result = Ok
          /\ calls \in Seq([check : Checks, ret : Int])
      BY <3>1 DEF Call, CallsInv
    <3> HIDE DEF c
    <3>4. /\ calls' \in Seq([check : Checks, ret : Int])
          /\ n \in Nat /\ Len(calls') = n + 1 /\ calls' # <<>>
          /\ DOMAIN calls = 1 .. n /\ DOMAIN calls' = 1 .. n + 1
          /\ \A i \in 1 .. n : calls'[i] = calls[i]
          /\ calls'[n + 1] = c
      BY <3>2, <3>3
    <3>5. \A i \in 1 .. n : Succeeded(calls[i])
      <4>1. ASSUME NEW i \in 1 .. n PROVE Succeeded(calls[i])
        <5>1. CASE i # n
          BY <3>4, <5>1 DEF CallsInv
        <5>2. CASE i = n
          <6>0. i \in DOMAIN calls
            BY <3>4
          <6>1. calls # <<>> /\ calls[i] \in [check : Checks, ret : Int]
            <7>1. calls # <<>>
              BY <6>0
            <7>2. i \in 1 .. Len(calls)
              BY <3>4
            <7> QED
              BY <3>3, <7>1, <7>2, ElementOfSeq
          <6>2. Check(calls[i].check, calls[i].ret) = Ok
            BY <3>3, <5>2, <6>1 DEF CallsInv
          <6> QED
            BY <6>1, <6>2, CheckSound
        <5> QED
          BY <5>1, <5>2
      <4> QED
        BY <4>1
    <3>6. \A i \in DOMAIN calls' : i # Len(calls') => Succeeded(calls'[i])
      BY <3>4, <3>5
    <3>7. result' = Check(calls'[Len(calls')].check, calls'[Len(calls')].ret)
      BY <3>2, <3>3, <3>4
    <3> QED
      BY <3>4, <3>6, <3>7 DEF CallsInv
  <2> QED
    BY <2>1, <2>2
<1> QED
  BY <1>1, <1>2, PTL DEF Spec

\* A caller of check_if_zero, check_if_one and check_if_greater_than_zero goes on
\* only when every call reported success.
THEOREM ErrorsStop == Spec => []GoesOnOnlyOnSuccess
<1>1. CallsInv => GoesOnOnlyOnSuccess
  <2> SUFFICES ASSUME CallsInv PROVE GoesOnOnlyOnSuccess
    OBVIOUS
  <2> DEFINE n == Len(calls)
  <2>1. calls \in Seq([check : Checks, ret : Int]) /\ n \in Nat /\ DOMAIN calls = 1 .. n
    BY LenProperties DEF CallsInv
  <2>2. CASE calls = <<>>
    BY <2>2 DEF CallsInv, GoesOnOnlyOnSuccess
  <2>3. CASE calls # <<>>
    <3>0. n \in 1 .. n
      BY <2>1, <2>3, EmptySeq
    <3>1. n \in 1 .. n /\ calls[n] \in [check : Checks, ret : Int]
      BY <2>1, <3>0, ElementOfSeq
    <3>2. result = Check(calls[n].check, calls[n].ret)
      BY <2>3 DEF CallsInv
    <3>3. /\ result \in {Ok} \cup (WCError \ {"Success"})
          /\ (result = Ok) <=> Succeeded(calls[n])
      BY <3>1, <3>2, CheckSound
    <3>4. \A i \in DOMAIN calls : i # n => Succeeded(calls[i])
      BY DEF CallsInv
    <3> QED
      BY <2>1, <3>1, <3>3, <3>4 DEF GoesOnOnlyOnSuccess
  <2> QED
    BY <2>2, <2>3
<1> QED
  BY <1>1, CallsInvariant, PTL

=============================================================================

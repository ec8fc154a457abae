-------------------------- MODULE HashContextProofs --------------------------
(***************************************************************************)
(* Proofs about HashContext.  HashInv is inductive: one lemma per action.  *)
(* From it follow type correctness, the absence of data races, that every  *)
(* C state is freed exactly once, and, in the last part, that the contexts *)
(* implement Transcript.                                                   *)
(***************************************************************************)
EXTENDS HashContext, SequenceTheorems, TLAPS

-----------------------------------------------------------------------------
(* HashInv is inductive                                                    *)

\* The bytes of a new C state are bytes, and not the mark of a free place.
LEMMA EmptyBytes == <<>> \in Seq(Nat) /\ <<>> # None
<1>1. <<>> \in Seq(Nat)
  OBVIOUS
<1> QED
  BY <1>1, HashAssumption

\* The step that ends an update, with b for the bytes it leaves.
Appends(t, b) ==
  /\ b # None /\ call[t] \in Call /\ heap[call[t].obj] # None
  /\ In(t, "update") /\ End(t)
  /\ heap' = [heap EXCEPT ![call[t].obj] = b]
  /\ UNCHANGED <<sha, output, panicked>>

\* An update leaves the bytes it found followed by the bytes it was given.
LEMMA Appended ==
  ASSUME HashInv, NEW t \in Threads, EndUpdate(t)
  PROVE  LET b == heap[call[t].obj] \o call[t].chunk IN b \in Seq(Nat) /\ Appends(t, b)
<1> DEFINE b == heap[call[t].obj] \o call[t].chunk
<1>1. call[t] \in Call /\ heap[call[t].obj] \in Seq(Nat)
  BY DEF HashInv, HashTypeOK, EndUpdate, In, Call
<1>2. call[t].chunk \in Seq(Nat)
  BY <1>1, HashAssumption, EmptyBytes DEF Call
<1>3. b \in Seq(Nat)
  BY <1>1, <1>2
<1>4. b # None /\ heap[call[t].obj] # None
  BY <1>1, <1>3, HashAssumption
<1>5. heap' = [heap EXCEPT ![call[t].obj] = b]
  BY DEF EndUpdate
<1> HIDE DEF b
<1>6. b \in Seq(Nat) /\ Appends(t, b)
  BY <1>1, <1>3, <1>4, <1>5 DEF EndUpdate, Appends
<1> QED
  BY <1>6 DEF b

\* start keeps the invariant: the place it takes was free, so nothing else
\* refers to it.
LEMMA startInv ==
  ASSUME HashInv, NEW t \in Threads, NEW h \in Handles, NEW o \in Objects, start(t, h, o)
  PROVE  HashInv'
<1>1. HashTypeOK'
  <2>1. heap' \in [Objects -> Seq(Nat) \cup {None}]
    BY DEF HashInv, HashTypeOK, start
  <2>2. sha' \in [Handles -> Objects \cup {None}]
    BY DEF HashInv, HashTypeOK, start
  <2>3. call' \in [Threads -> Call \cup {None}]
    BY DEF HashInv, HashTypeOK, start
  <2>4. output' \in Seq(Nat) \cup {None}
    BY DEF HashInv, HashTypeOK, start
  <2>5. panicked' \subseteq Threads
    BY DEF HashInv, HashTypeOK, start
  <2>6. \A k \in Handles : sha'[k] # None => heap'[sha'[k]] # None
    BY EmptyBytes DEF HashInv, HashTypeOK, start
  <2>7. \A u \in Threads : call'[u] # None => heap'[call'[u].obj] # None
    BY DEF HashInv, HashTypeOK, start
  <2> QED
    BY <2>1, <2>2, <2>3, <2>4, <2>5, <2>6, <2>7 DEF HashTypeOK
<1>2. ReferenceInv'
  BY DEF HashInv, InUse, Borrows, Unused, ReferenceInv, start
<1>3. ValueInv'
  BY DEF HashInv, InUse, HashTypeOK, ValueInv, start
<1>4. ExclusiveInv'
  BY DEF HashInv, InUse, Borrows, Unused, ExclusiveInv, start
<1>5. CopyInv'
  BY DEF HashInv, InUse, Unused, HashTypeOK, CopyInv, start
<1>6. ContextsInv'
  BY DEF HashInv, HashTypeOK, ContextsInv, start
<1>7. NoLeak'
  BY HashAssumption, CallAssumption
     DEF HashInv, InUse, ByReference, ByValue, Call, Ops, Idle, Borrows, Unused, HashTypeOK,
     ReferenceInv, ValueInv, ExclusiveInv, CopyInv, ContextsInv, NoLeak, start
<1>8. (\A x \in panicked : call[x] = None)'
  BY DEF HashInv, start
<1> QED
  BY <1>1, <1>2, <1>3, <1>4, <1>5, <1>6, <1>7, <1>8 DEF HashInv

\* The end of fork keeps it: the copy has a place and a handle of its own, and
\* no call can be at work on either.
LEMMA EndForkInv ==
  ASSUME HashInv, NEW t \in Threads, NEW g \in Handles, NEW o \in Objects, EndFork(t, g, o)
  PROVE  HashInv'
<1>1. HashTypeOK'
  BY DEF HashInv, Call, In, End, HashTypeOK, EndFork
<1>2. ReferenceInv'
  BY DEF HashInv, InUse, End, Borrows, Unused, ReferenceInv, EndFork
<1>3. ValueInv'
  BY DEF HashInv, InUse, End, HashTypeOK, ValueInv, EndFork
<1>4. ExclusiveInv'
  BY DEF HashInv, InUse, End, Borrows, Unused, ExclusiveInv, EndFork
<1>5. CopyInv'
  BY DEF HashInv, InUse, End, Unused, HashTypeOK, CopyInv, EndFork
<1>6. ContextsInv'
  BY DEF HashInv, HashTypeOK, ContextsInv, EndFork
<1>7. NoLeak'
  <2> SUFFICES ASSUME NEW x \in Objects, heap'[x] # None
               PROVE  \/ \E k \in Handles : sha'[k] = x
                      \/ \E u \in Threads : InUse(u)' /\ ByValue(call[u])' /\ call'[u].obj = x
    BY DEF NoLeak
  <2>1. CASE heap[x] = None
    BY <2>1 DEF HashInv, HashTypeOK, EndFork
  <2>2. CASE heap[x] # None
    <3>1. CASE \E k \in Handles : sha[k] = x
      <4>1. PICK k \in Handles : sha[k] = x
        BY <3>1
      <4> QED
        BY HashAssumption, CallAssumption
           DEF HashInv, InUse, ByValue, Call, Ops, In, End, Unused, HashTypeOK, ExclusiveInv,
           CopyInv, NoLeak, EndFork
    <3>2. CASE \E u \in Threads : InUse(u) /\ ByValue(call[u]) /\ call[u].obj = x
      <4>1. PICK u \in Threads : InUse(u) /\ ByValue(call[u]) /\ call[u].obj = x
        BY <3>2
      <4> QED
        BY <2>2, HashAssumption
           DEF HashInv, InUse, ByReference, ByValue, In, End, Unused, NoLeak, EndFork
    <3> QED
      BY <2>2, <3>1, <3>2 DEF HashInv, NoLeak
  <2> QED
    BY <2>1, <2>2
<1>8. (\A x \in panicked : call[x] = None)'
  BY DEF HashInv, End, EndFork
<1> QED
  BY <1>1, <1>2, <1>3, <1>4, <1>5, <1>6, <1>7, <1>8 DEF HashInv

\* The begin of update keeps it: a context that can be changed is borrowed by
\* no other call.
LEMMA BeginUpdateInv ==
  ASSUME HashInv, NEW t \in Threads, NEW h \in Handles, NEW chunk \in Chunks, BeginUpdate(t, h,
         chunk)
  PROVE  HashInv'
<1>1. HashTypeOK'
  BY DEF HashInv, Call, Ops, Begin, CanMutate, HashTypeOK, BeginUpdate
<1>2. ReferenceInv'
  BY DEF HashInv, InUse, Begin, ReferenceInv, BeginUpdate
<1>3. ValueInv'
  BY DEF HashInv, InUse, ByValue, Begin, ValueInv, BeginUpdate
<1>4. ExclusiveInv'
  BY DEF HashInv, InUse, Begin, Borrows, CanMutate, ExclusiveInv, BeginUpdate
<1>5. CopyInv'
  BY DEF HashInv, InUse, Begin, CopyInv, BeginUpdate
<1>6. ContextsInv'
  BY DEF HashInv, ContextsInv, BeginUpdate
<1>7. NoLeak'
  BY HashAssumption, CallAssumption
     DEF HashInv, InUse, ByReference, ByValue, Call, Ops, Idle, Begin, Borrows, CanMutate,
     HashTypeOK, ReferenceInv, ValueInv, ExclusiveInv, CopyInv, ContextsInv, NoLeak,
     BeginUpdate
<1>8. (\A x \in panicked : call[x] = None)'
  BY DEF HashInv, Idle, Begin, BeginUpdate
<1> QED
  BY <1>1, <1>2, <1>3, <1>4, <1>5, <1>6, <1>7, <1>8 DEF HashInv

\* The begin of fork keeps it: the calls that share the context with it only
\* read.
LEMMA BeginForkInv ==
  ASSUME HashInv, NEW t \in Threads, NEW h \in Handles, BeginFork(t, h)
  PROVE  HashInv'
<1>1. HashTypeOK'
  BY DEF HashInv, Call, Ops, Begin, CanShare, HashTypeOK, BeginFork
<1>2. ReferenceInv'
  BY DEF HashInv, InUse, Begin, ReferenceInv, BeginFork
<1>3. ValueInv'
  BY DEF HashInv, InUse, ByValue, Begin, ValueInv, BeginFork
<1>4. ExclusiveInv'
  BY DEF HashInv, InUse, Begin, Borrows, CanShare, ExclusiveInv, BeginFork
<1>5. CopyInv'
  BY DEF HashInv, InUse, Begin, CopyInv, BeginFork
<1>6. ContextsInv'
  BY DEF HashInv, ContextsInv, BeginFork
<1>7. NoLeak'
  BY CallAssumption DEF HashInv, InUse, ByValue, Call, Idle, Begin, NoLeak, BeginFork
<1>8. (\A x \in panicked : call[x] = None)'
  BY DEF HashInv, Idle, Begin, BeginFork
<1> QED
  BY <1>1, <1>2, <1>3, <1>4, <1>5, <1>6, <1>7, <1>8 DEF HashInv

\* So does the begin of fork_finish.
LEMMA BeginForkFinishInv ==
  ASSUME HashInv, NEW t \in Threads, NEW h \in Handles, BeginForkFinish(t, h)
  PROVE  HashInv'
<1>1. HashTypeOK'
  BY DEF HashInv, Call, Ops, Begin, CanShare, HashTypeOK, BeginForkFinish
<1>2. ReferenceInv'
  BY DEF HashInv, InUse, Begin, ReferenceInv, BeginForkFinish
<1>3. ValueInv'
  BY DEF HashInv, InUse, ByValue, Begin, ValueInv, BeginForkFinish
<1>4. ExclusiveInv'
  BY DEF HashInv, InUse, Begin, Borrows, CanShare, ExclusiveInv, BeginForkFinish
<1>5. CopyInv'
  BY DEF HashInv, InUse, Begin, CopyInv, BeginForkFinish
<1>6. ContextsInv'
  BY DEF HashInv, ContextsInv, BeginForkFinish
<1>7. NoLeak'
  BY CallAssumption DEF HashInv, InUse, ByValue, Call, Idle, Begin, NoLeak, BeginForkFinish
<1>8. (\A x \in panicked : call[x] = None)'
  BY DEF HashInv, Idle, Begin, BeginForkFinish
<1> QED
  BY <1>1, <1>2, <1>3, <1>4, <1>5, <1>6, <1>7, <1>8 DEF HashInv

\* The begin of finish keeps it: the C state passes from the context, which
\* nobody borrows, to the call.
LEMMA BeginFinishInv ==
  ASSUME HashInv, NEW t \in Threads, NEW h \in Handles, BeginFinish(t, h)
  PROVE  HashInv'
<1>1. HashTypeOK'
  BY DEF HashInv, Call, Ops, Begin, CanMutate, HashTypeOK, BeginFinish
<1>2. ReferenceInv'
  BY DEF HashInv, InUse, ByReference, Begin, Borrows, CanMutate, ReferenceInv, BeginFinish
<1>3. ValueInv'
  <2> SUFFICES ASSUME NEW u \in Threads, InUse(u)', ByValue(call[u])'
               PROVE  /\ \A k \in Handles : sha'[k] # call'[u].obj
                      /\ \A v \in Threads \ {u} : InUse(v)' => call'[v].obj # call'[u].obj
    BY DEF ValueInv
  <2>1. CASE u = t
    <3>1. \A k \in Handles : sha'[k] # call'[u].obj
      BY HashAssumption
         DEF HashInv, InUse, Call, Begin, CanMutate, HashTypeOK, ValueInv, ContextsInv,
         BeginFinish
    <3>2. ASSUME NEW v \in Threads \ {u}, InUse(v)' PROVE call'[v].obj # call'[u].obj
      BY <3>2, <2>1
         DEF HashInv, InUse, ByReference, ByValue, Call, Ops, Begin, Borrows, CanMutate,
         HashTypeOK, ReferenceInv, ValueInv, ContextsInv, BeginFinish
    <3> QED
      BY <3>1, <3>2
  <2>2. CASE u # t
    <3>1. \A k \in Handles : sha'[k] # call'[u].obj
      BY HashAssumption
         DEF HashInv, InUse, Call, Begin, CanMutate, HashTypeOK, ValueInv, ContextsInv,
         BeginFinish
    <3>2. ASSUME NEW v \in Threads \ {u}, InUse(v)' PROVE call'[v].obj # call'[u].obj
      BY <3>2, <2>2 DEF HashInv, InUse, Begin, ValueInv, BeginFinish
    <3> QED
      BY <3>1, <3>2
  <2> QED
    BY <2>1, <2>2
<1>4. ExclusiveInv'
  BY DEF HashInv, InUse, Begin, Borrows, CanMutate, HashTypeOK, ExclusiveInv, BeginFinish
<1>5. CopyInv'
  BY DEF HashInv, InUse, Begin, Borrows, CanMutate, CopyInv, BeginFinish
<1>6. ContextsInv'
  BY DEF HashInv, ContextsInv, BeginFinish
<1>7. NoLeak'
  <2> SUFFICES ASSUME NEW x \in Objects, heap'[x] # None
               PROVE  \/ \E k \in Handles : sha'[k] = x
                      \/ \E u \in Threads : InUse(u)' /\ ByValue(call[u])' /\ call'[u].obj = x
    BY DEF NoLeak
  <2>1. CASE heap[x] = None
    BY <2>1 DEF BeginFinish
  <2>2. CASE heap[x] # None
    <3>1. CASE \E k \in Handles : sha[k] = x
      <4>1. PICK k \in Handles : sha[k] = x
        BY <3>1
      <4> QED
        BY CallAssumption
           DEF HashInv, InUse, ByValue, Call, Ops, Idle, Begin, Borrows, CanMutate, HashTypeOK,
           NoLeak, BeginFinish
    <3>2. CASE \E u \in Threads : InUse(u) /\ ByValue(call[u]) /\ call[u].obj = x
      <4>1. PICK u \in Threads : InUse(u) /\ ByValue(call[u]) /\ call[u].obj = x
        BY <3>2
      <4> QED
        BY CallAssumption
           DEF HashInv, InUse, ByValue, Call, Ops, Idle, Begin, Borrows, CanMutate, HashTypeOK,
           NoLeak, BeginFinish
    <3> QED
      BY <2>2, <3>1, <3>2 DEF HashInv, NoLeak
  <2> QED
    BY <2>1, <2>2
<1>8. (\A x \in panicked : call[x] = None)'
  BY DEF HashInv, Idle, Begin, BeginFinish
<1> QED
  BY <1>1, <1>2, <1>3, <1>4, <1>5, <1>6, <1>7, <1>8 DEF HashInv

\* drop keeps it: no call is at work on a context that nobody borrows.
LEMMA dropInv ==
  ASSUME HashInv, NEW t \in Threads, NEW h \in Handles, drop(t, h)
  PROVE  HashInv'
<1>1. HashTypeOK'
  BY
     DEF HashInv, InUse, ByReference, ByValue, Call, Ops, Idle, Borrows, CanMutate, HashTypeOK,
     ReferenceInv, ValueInv, ExclusiveInv, ContextsInv, NoLeak, drop
<1>2. ReferenceInv'
  BY DEF HashInv, InUse, Borrows, CanMutate, ReferenceInv, drop
<1>3. ValueInv'
  BY HashAssumption DEF HashInv, InUse, Call, HashTypeOK, ValueInv, drop
<1>4. ExclusiveInv'
  BY DEF HashInv, InUse, ExclusiveInv, drop
<1>5. CopyInv'
  BY
     DEF HashInv, InUse, ByValue, Call, Borrows, CanMutate, HashTypeOK, ValueInv, CopyInv,
     ContextsInv, drop
<1>6. ContextsInv'
  BY DEF HashInv, ContextsInv, drop
<1>7. NoLeak'
  BY HashAssumption, CallAssumption
     DEF HashInv, InUse, ByReference, ByValue, Call, Ops, Idle, Borrows, CanMutate, HashTypeOK,
     ReferenceInv, ValueInv, ExclusiveInv, CopyInv, ContextsInv, NoLeak, drop
<1>8. (\A x \in panicked : call[x] = None)'
  BY DEF HashInv, drop
<1> QED
  BY <1>1, <1>2, <1>3, <1>4, <1>5, <1>6, <1>7, <1>8 DEF HashInv

\* The copy that fork_finish makes keeps it: the copy is in a place that was
\* free, and the context it was made of still holds the same bytes.
LEMMA ForkFinishCopiedInv ==
  ASSUME HashInv, NEW t \in Threads, NEW o \in Objects, ForkFinishCopied(t, o)
  PROVE  HashInv'
<1>1. HashTypeOK'
  BY DEF HashInv, Call, Ops, In, Begin, HashTypeOK, ForkFinishCopied
<1>2. ReferenceInv'
  BY DEF HashInv, InUse, ByReference, Begin, ReferenceInv, ForkFinishCopied
<1>3. ValueInv'
  BY HashAssumption DEF HashInv, InUse, Begin, HashTypeOK, ValueInv, ForkFinishCopied
<1>4. ExclusiveInv'
  BY DEF HashInv, InUse, In, Begin, ExclusiveInv, ForkFinishCopied
<1>5. CopyInv'
  BY HashAssumption
     DEF HashInv, InUse, ByReference, Call, In, Begin, HashTypeOK, ReferenceInv, CopyInv,
     ForkFinishCopied
<1>6. ContextsInv'
  BY DEF HashInv, ContextsInv, ForkFinishCopied
<1>7. NoLeak'
  <2> SUFFICES ASSUME NEW x \in Objects, heap'[x] # None
               PROVE  \/ \E k \in Handles : sha'[k] = x
                      \/ \E u \in Threads : InUse(u)' /\ ByValue(call[u])' /\ call'[u].obj = x
    BY DEF NoLeak
  <2>1. CASE heap[x] = None
    BY <2>1, CallAssumption
       DEF HashInv, InUse, ByValue, Call, Ops, Begin, HashTypeOK, ForkFinishCopied
  <2>2. CASE heap[x] # None
    <3>1. CASE \E k \in Handles : sha[k] = x
      <4>1. PICK k \in Handles : sha[k] = x
        BY <3>1
      <4> QED
        BY CallAssumption
           DEF HashInv, InUse, ByReference, ByValue, Call, Ops, In, Begin, HashTypeOK, NoLeak,
           ForkFinishCopied
    <3>2. CASE \E u \in Threads : InUse(u) /\ ByValue(call[u]) /\ call[u].obj = x
      <4>1. PICK u \in Threads : InUse(u) /\ ByValue(call[u]) /\ call[u].obj = x
        BY <3>2
      <4> QED
        BY HashAssumption, CallAssumption
           DEF HashInv, InUse, ByReference, ByValue, Call, Ops, In, Begin, HashTypeOK, NoLeak,
           ForkFinishCopied
    <3> QED
      BY <2>2, <3>1, <3>2 DEF HashInv, NoLeak
  <2> QED
    BY <2>1, <2>2
<1>8. (\A x \in panicked : call[x] = None)'
  BY DEF HashInv, In, Begin, ForkFinishCopied
<1> QED
  BY <1>1, <1>2, <1>3, <1>4, <1>5, <1>6, <1>7, <1>8 DEF HashInv

\* The end of update keeps it: no copy that fork_finish has under way is of
\* the context it changes, as update had the context to itself.
LEMMA EndUpdateInv ==
  ASSUME HashInv, NEW t \in Threads, EndUpdate(t)
  PROVE  HashInv'
<1>0. PICK b \in Seq(Nat) : Appends(t, b)
  BY Appended
<1>1. HashTypeOK'
  <2>1. heap' \in [Objects -> Seq(Nat) \cup {None}]
    BY <1>0 DEF Appends, HashInv, Call, HashTypeOK
  <2>2. sha' \in [Handles -> Objects \cup {None}]
    BY <1>0 DEF Appends, HashInv, HashTypeOK
  <2>3. call' \in [Threads -> Call \cup {None}]
    BY <1>0 DEF Appends, HashInv, End, HashTypeOK
  <2>4. output' \in Seq(Nat) \cup {None}
    BY <1>0 DEF Appends, HashInv, HashTypeOK
  <2>5. panicked' \subseteq Threads
    BY <1>0 DEF Appends, HashInv, HashTypeOK
  <2>6. \A k \in Handles : sha'[k] # None => heap'[sha'[k]] # None
    BY <1>0 DEF Appends, HashInv, HashTypeOK
  <2>7. \A u \in Threads : call'[u] # None => heap'[call'[u].obj] # None
    BY <1>0 DEF Appends, HashInv, End, HashTypeOK
  <2> QED
    BY <2>1, <2>2, <2>3, <2>4, <2>5, <2>6, <2>7 DEF HashTypeOK
<1>2. ReferenceInv'
  BY <1>0 DEF Appends, HashInv, InUse, End, ReferenceInv
<1>3. ValueInv'
  BY <1>0 DEF Appends, HashInv, InUse, End, ValueInv
<1>4. ExclusiveInv'
  BY <1>0 DEF Appends, HashInv, InUse, End, ExclusiveInv
<1>5. CopyInv'
  BY <1>0
     DEF Appends, HashInv, InUse, ByReference, ByValue, Call, In, End, HashTypeOK,
     ReferenceInv, ValueInv, ExclusiveInv, CopyInv, ContextsInv
<1>6. ContextsInv'
  BY <1>0 DEF Appends, HashInv, ContextsInv
<1>7. NoLeak'
  <2> SUFFICES ASSUME NEW x \in Objects, heap'[x] # None
               PROVE  \/ \E k \in Handles : sha'[k] = x
                      \/ \E u \in Threads : InUse(u)' /\ ByValue(call[u])' /\ call'[u].obj = x
    BY DEF NoLeak
  <2>1. CASE heap[x] = None
    BY <2>1, <1>0 DEF Appends
  <2>2. CASE heap[x] # None
    <3>1. CASE \E k \in Handles : sha[k] = x
      <4>1. PICK k \in Handles : sha[k] = x
        BY <3>1
      <4> QED
        BY <4>1, <1>0 DEF Appends
    <3>2. CASE \E u \in Threads : InUse(u) /\ ByValue(call[u]) /\ call[u].obj = x
      <4>1. PICK u \in Threads : InUse(u) /\ ByValue(call[u]) /\ call[u].obj = x
        BY <3>2
      <4> QED
        BY <4>1, <1>0 DEF Appends, InUse, ByValue, In, End
    <3> QED
      BY <2>2, <3>1, <3>2 DEF HashInv, NoLeak
  <2> QED
    BY <2>1, <2>2
<1>8. (\A x \in panicked : call[x] = None)'
  BY <1>0 DEF Appends, HashInv, End
<1> QED
  BY <1>1, <1>2, <1>3, <1>4, <1>5, <1>6, <1>7, <1>8 DEF HashInv

\* The end of fork_finish keeps it: only this call had the copy that it frees.
LEMMA EndForkFinishInv ==
  ASSUME HashInv, NEW t \in Threads, EndForkFinish(t)
  PROVE  HashInv'
<1>1. HashTypeOK'
  BY
     DEF HashInv, InUse, ByValue, Call, In, End, FinalizeAndFree, HashTypeOK, ValueInv,
     EndForkFinish
<1>2. ReferenceInv'
  BY DEF HashInv, InUse, End, ReferenceInv, EndForkFinish
<1>3. ValueInv'
  BY DEF HashInv, InUse, End, ValueInv, EndForkFinish
<1>4. ExclusiveInv'
  BY DEF HashInv, InUse, End, ExclusiveInv, EndForkFinish
<1>5. CopyInv'
  BY
     DEF HashInv, InUse, ByValue, Call, In, End, FinalizeAndFree, HashTypeOK, ValueInv,
     CopyInv, EndForkFinish
<1>6. ContextsInv'
  BY DEF HashInv, ContextsInv, EndForkFinish
<1>7. NoLeak'
  BY HashAssumption
     DEF HashInv, InUse, ByValue, End, FinalizeAndFree, HashTypeOK, NoLeak, EndForkFinish
<1>8. (\A x \in panicked : call[x] = None)'
  BY DEF HashInv, End, EndForkFinish
<1> QED
  BY <1>1, <1>2, <1>3, <1>4, <1>5, <1>6, <1>7, <1>8 DEF HashInv

\* The end of finish keeps it, for the same reason.
LEMMA EndFinishInv ==
  ASSUME HashInv, NEW t \in Threads, EndFinish(t)
  PROVE  HashInv'
<1>1. HashTypeOK'
  BY DEF HashInv, InUse, ByValue, Call, In, End, FinalizeAndFree, HashTypeOK, ValueInv, EndFinish
<1>2. ReferenceInv'
  BY DEF HashInv, InUse, End, ReferenceInv, EndFinish
<1>3. ValueInv'
  BY DEF HashInv, InUse, End, ValueInv, EndFinish
<1>4. ExclusiveInv'
  BY DEF HashInv, InUse, End, ExclusiveInv, EndFinish
<1>5. CopyInv'
  BY
     DEF HashInv, InUse, ByValue, Call, In, End, FinalizeAndFree, HashTypeOK, ValueInv,
     CopyInv, EndFinish
<1>6. ContextsInv'
  BY DEF HashInv, ContextsInv, EndFinish
<1>7. NoLeak'
  <2> SUFFICES ASSUME NEW x \in Objects, heap'[x] # None
               PROVE  \/ \E k \in Handles : sha'[k] = x
                      \/ \E u \in Threads : InUse(u)' /\ ByValue(call[u])' /\ call'[u].obj = x
    BY DEF NoLeak
  <2>1. CASE heap[x] = None
    BY DEF HashInv, InUse, ByValue, End, FinalizeAndFree, HashTypeOK, NoLeak, EndFinish
  <2>2. CASE heap[x] # None
    <3>1. CASE \E k \in Handles : sha[k] = x
      <4>1. PICK k \in Handles : sha[k] = x
        BY <3>1
      <4> QED
        BY <4>1 DEF EndFinish
    <3>2. CASE \E u \in Threads : InUse(u) /\ ByValue(call[u]) /\ call[u].obj = x
      <4>1. PICK u \in Threads : InUse(u) /\ ByValue(call[u]) /\ call[u].obj = x
        BY <3>2
      <4> QED
        BY HashAssumption, CallAssumption
           DEF HashInv, InUse, ByValue, End, FinalizeAndFree, HashTypeOK, NoLeak, EndFinish
    <3> QED
      BY <2>2, <3>1, <3>2 DEF HashInv, NoLeak
  <2> QED
    BY <2>1, <2>2
<1>8. (\A x \in panicked : call[x] = None)'
  BY DEF HashInv, End, EndFinish
<1> QED
  BY <1>1, <1>2, <1>3, <1>4, <1>5, <1>6, <1>7, <1>8 DEF HashInv

\* hash keeps it, as its context is seen by nobody else.
LEMMA hashInv ==
  ASSUME HashInv, NEW t \in Threads, NEW chunk \in Chunks, hash(t, chunk)
  PROVE  HashInv'
<1>1. HashTypeOK'
  BY HashAssumption DEF HashInv, HashTypeOK, hash
<1>2. ReferenceInv'
  BY DEF HashInv, InUse, ReferenceInv, hash
<1>3. ValueInv'
  BY DEF HashInv, InUse, ValueInv, hash
<1>4. ExclusiveInv'
  BY DEF HashInv, InUse, ExclusiveInv, hash
<1>5. CopyInv'
  BY DEF HashInv, InUse, CopyInv, hash
<1>6. ContextsInv'
  BY DEF HashInv, ContextsInv, hash
<1>7. NoLeak'
  BY HashAssumption, CallAssumption
     DEF HashInv, InUse, ByReference, ByValue, Call, Ops, Idle, HashTypeOK, ReferenceInv,
     ValueInv, ExclusiveInv, CopyInv, ContextsInv, NoLeak, hash
<1>8. (\A x \in panicked : call[x] = None)'
  BY DEF HashInv, hash
<1> QED
  BY <1>1, <1>2, <1>3, <1>4, <1>5, <1>6, <1>7, <1>8 DEF HashInv

\* A panic keeps it: unwinding frees what the thread had by value or by &mut,
\* and nothing that another call refers to.
LEMMA PanicInv ==
  ASSUME HashInv, NEW t \in Threads, Panic(t)
  PROVE  HashInv'
<1>1. HashTypeOK'
  <2>1. heap' \in [Objects -> Seq(Nat) \cup {None}]
    BY DEF HashInv, HashTypeOK, Panic
  <2>2. sha' \in [Handles -> Objects \cup {None}]
    BY DEF HashInv, HashTypeOK, Panic
  <2>3. call' \in [Threads -> Call \cup {None}]
    BY DEF HashInv, End, HashTypeOK, Panic
  <2>4. output' \in Seq(Nat) \cup {None}
    BY DEF HashInv, HashTypeOK, Panic
  <2>5. panicked' \subseteq Threads
    BY DEF HashInv, HashTypeOK, Panic
  <2>6. \A k \in Handles : sha'[k] # None => heap'[sha'[k]] # None
    BY DEF HashInv, HashTypeOK, Panic
  <2>7. \A u \in Threads : call'[u] # None => heap'[call'[u].obj] # None
    BY HashAssumption, CallAssumption
       DEF HashInv, InUse, ByReference, ByValue, Call, Ops, End, Unwound, HashTypeOK,
       ReferenceInv, ValueInv, ExclusiveInv, CopyInv, ContextsInv, NoLeak, Panic
  <2> QED
    BY <2>1, <2>2, <2>3, <2>4, <2>5, <2>6, <2>7 DEF HashTypeOK
<1>2. ReferenceInv'
  BY
     DEF HashInv, InUse, ByReference, ByValue, Call, End, Unwound, HashTypeOK, ReferenceInv,
     ValueInv, ExclusiveInv, ContextsInv, Panic
<1>3. ValueInv'
  BY HashAssumption DEF HashInv, InUse, Call, End, HashTypeOK, ValueInv, Panic
<1>4. ExclusiveInv'
  BY DEF HashInv, InUse, Call, End, HashTypeOK, ExclusiveInv, Panic
<1>5. CopyInv'
  BY
     DEF HashInv, InUse, ByReference, ByValue, Call, End, Unwound, HashTypeOK, ReferenceInv,
     ValueInv, ExclusiveInv, CopyInv, ContextsInv, Panic
<1>6. ContextsInv'
  BY DEF HashInv, ContextsInv, Panic
<1>7. NoLeak'
  BY HashAssumption DEF HashInv, InUse, ByReference, ByValue, End, Unwound, NoLeak, Panic
<1>8. (\A x \in panicked : call[x] = None)'
  BY DEF HashInv, End, HashTypeOK, Panic
<1> QED
  BY <1>1, <1>2, <1>3, <1>4, <1>5, <1>6, <1>7, <1>8 DEF HashInv

-----------------------------------------------------------------------------
\* So does a step that changes nothing.
LEMMA UnchangedInv == HashInv /\ UNCHANGED vars => HashInv'
BY
   DEF vars, HashInv, HashTypeOK, ReferenceInv, ValueInv, ExclusiveInv, CopyInv, ContextsInv,
   NoLeak, InUse

-----------------------------------------------------------------------------
(* What follows from it                                                    *)

\* Every reachable state has the inductive invariant.
THEOREM Invariant == Spec => []HashInv
<1>1. Init => HashInv
  BY
     DEF Init, HashInv, HashTypeOK, ReferenceInv, ValueInv, ExclusiveInv, CopyInv, ContextsInv,
     NoLeak, InUse
<1>2. HashInv /\ [Next]_vars => HashInv'
  BY UnchangedInv, startInv, EndForkInv, BeginUpdateInv, BeginForkInv, BeginForkFinishInv,
     BeginFinishInv, dropInv, ForkFinishCopiedInv, EndUpdateInv, EndForkFinishInv,
     EndFinishInv, hashInv, PanicInv
     DEF Next
<1> QED
  BY <1>1, <1>2, PTL DEF Spec

\* Every variable has its type, and no call and no context refers to a freed C
\* state: no use after free in update, fork, fork_finish, finish and hash.
THEOREM TypeCorrect == Spec => []HashTypeOK
<1>1. HashInv => HashTypeOK
  BY DEF HashInv
<1> QED
  BY <1>1, Invariant, PTL

\* What "unsafe impl Sync" of the contexts claims, for every number of threads:
\* no call writes a C state while another thread's call touches it.
THEOREM RaceFree == Spec => []NoDataRace
<1>1. ASSUME HashInv, NEW t \in Threads, NEW u \in Threads \ {t},
             InUse(t), InUse(u), Writes(call[t])
      PROVE  call[t].obj # call[u].obj
  <2>1. call[t] \in Call /\ call[u] \in Call
    BY <1>1 DEF HashInv, HashTypeOK, InUse
  <2>2. CASE ByValue(call[t]) \/ ByValue(call[u])
    BY <1>1, <2>2 DEF HashInv, ValueInv
  <2>3. CASE ByReference(call[t]) /\ ByReference(call[u])
    <3>1. call[t].op = "update"
      BY <1>1, <2>3 DEF Writes, ByReference
    <3>2. call[t].handle # call[u].handle
      BY <1>1, <3>1 DEF HashInv, ExclusiveInv
    <3>3. sha[call[t].handle] = call[t].obj /\ sha[call[u].handle] = call[u].obj
      BY <1>1, <2>3 DEF HashInv, ReferenceInv
    <3> QED
      BY <1>1, <2>1, <3>2, <3>3, HashAssumption DEF HashInv, ContextsInv, Call
  <2> QED
    BY <2>1, <2>2, <2>3 DEF Call, Ops, ByReference, ByValue
<1>2. HashInv => NoDataRace
  BY <1>1 DEF NoDataRace, InUse
<1> QED
  BY <1>2, Invariant, PTL

\* Every C state is freed by exactly one owner, for every number of threads,
\* contexts and panics: no leak and no double free.
THEOREM MemorySafe == Spec => []OwnedOnce
<1>1. ASSUME HashInv, NEW o \in Objects, heap[o] = None
      PROVE  Owners(o) = {}
  BY <1>1, HashAssumption DEF Owners, HashInv, HashTypeOK
<1>2. ASSUME HashInv, NEW o \in Objects, heap[o] # None
      PROVE  \E w \in Owners(o) : Owners(o) = {w}
  <2>1. CASE \E h \in Handles : sha[h] = o
    <3>1. PICK h \in Handles : sha[h] = o
      BY <2>1
    <3>2. \A g \in Handles : sha[g] = o => g = h
      BY <1>2, <3>1, HashAssumption DEF HashInv, ContextsInv
    <3>3. \A t \in Threads :
            ~(call[t] # None /\ call[t].obj = o /\ call[t].op \in {"finish", "fork_finalize"})
      BY <1>2, <3>1 DEF HashInv, ValueInv, InUse, ByValue
    <3>4. Owners(o) = {<<"context", h>>}
      BY <3>1, <3>2, <3>3 DEF Owners
    <3> QED
      BY <3>4
  <2>2. CASE \E t \in Threads : InUse(t) /\ ByValue(call[t]) /\ call[t].obj = o
    <3>1. PICK t \in Threads : InUse(t) /\ ByValue(call[t]) /\ call[t].obj = o
      BY <2>2
    <3>2. \A g \in Handles : sha[g] # o
      BY <1>2, <3>1 DEF HashInv, ValueInv
    <3>3. \A u \in Threads :
            call[u] # None /\ call[u].obj = o /\ call[u].op \in {"finish", "fork_finalize"} <=> u = t
      BY <1>2, <3>1 DEF HashInv, ValueInv, InUse, ByValue
    <3>4. Owners(o) = {<<"call", t>>}
      BY <3>2, <3>3 DEF Owners
    <3> QED
      BY <3>4
  <2> QED
    BY <1>2, <2>1, <2>2 DEF HashInv, NoLeak
<1>3. HashInv => OwnedOnce
  BY <1>1, <1>2 DEF OwnedOnce
<1> QED
  BY <1>3, Invariant, PTL

-----------------------------------------------------------------------------
(* The refinement                                                          *)

\* t is in a finish of what was context h.
Finishes(t, h) == InUse(t) /\ call[t].op = "finish" /\ call[t].handle = h
\* The abstract value of every context, without CHOOSE.
BytesInv ==
  \A h \in Handles :
    /\ sha[h] # None => BytesOf(h) = heap[sha[h]]
    /\ \A t \in Threads : Finishes(t, h) => BytesOf(h) = heap[call[t].obj]
    /\ sha[h] = None /\ (\A t \in Threads : ~Finishes(t, h)) => BytesOf(h) = None

\* It is what BytesOf says, as only one call can finish a context.
LEMMA BytesKnown == HashInv => BytesInv
<1> SUFFICES ASSUME HashInv, NEW h \in Handles
             PROVE  /\ sha[h] # None => BytesOf(h) = heap[sha[h]]
                    /\ \A t \in Threads : Finishes(t, h) => BytesOf(h) = heap[call[t].obj]
                    /\ sha[h] = None /\ (\A t \in Threads : ~Finishes(t, h)) => BytesOf(h) = None
  BY DEF BytesInv
<1>1. sha[h] # None => BytesOf(h) = heap[sha[h]]
  BY DEF BytesOf
<1>2. ASSUME NEW t \in Threads, Finishes(t, h) PROVE BytesOf(h) = heap[call[t].obj]
  <2>1. Finishing(h) = {t}
    BY <1>2 DEF HashInv, ExclusiveInv, Finishes, Finishing, Borrows, InUse
  <2>2. sha[h] = None
    BY <1>2 DEF HashInv, ExclusiveInv, Finishes
  <2>3. (CHOOSE u \in Finishing(h) : TRUE) = t
    BY <2>1
  <2> QED
    BY <2>1, <2>2 DEF BytesOf
<1>3. sha[h] = None /\ (\A t \in Threads : ~Finishes(t, h)) => BytesOf(h) = None
  <2>1. (\A t \in Threads : ~Finishes(t, h)) => Finishing(h) = {}
    BY DEF Finishes, Finishing, Borrows, InUse
  <2> QED
    BY <2>1 DEF BytesOf
<1> QED
  BY <1>1, <1>2, <1>3

\* What a step does to context k when it does nothing to its value.
Untouched(k) ==
  \/ sha[k] # None /\ sha'[k] = sha[k] /\ heap'[sha[k]] = heap[sha[k]]
  \/ \E u \in Threads :
       Finishes(u, k) /\ Finishes(u, k)' /\ call'[u].obj = call[u].obj
         /\ heap'[call[u].obj] = heap[call[u].obj]
  \/ sha[k] = None /\ sha'[k] = None /\ \A u \in Threads : ~Finishes(u, k) /\ ~Finishes(u, k)'

\* Such a step leaves the abstract value as it was.
LEMMA Kept ==
  ASSUME BytesInv, BytesInv', NEW k \in Handles, Untouched(k)
  PROVE  BytesOf(k)' = BytesOf(k)
<1>1. CASE sha[k] # None /\ sha'[k] = sha[k] /\ heap'[sha[k]] = heap[sha[k]]
  <2>1. BytesOf(k) = heap[sha[k]] /\ BytesOf(k)' = heap'[sha'[k]]
    BY <1>1 DEF BytesInv
  <2> QED
    BY <1>1, <2>1
<1>2. ASSUME NEW u \in Threads, Finishes(u, k), Finishes(u, k)', call'[u].obj = call[u].obj,
             heap'[call[u].obj] = heap[call[u].obj]
      PROVE  BytesOf(k)' = BytesOf(k)
  <2>1. BytesOf(k) = heap[call[u].obj] /\ BytesOf(k)' = heap'[call'[u].obj]
    BY <1>2 DEF BytesInv
  <2> QED
    BY <1>2, <2>1
<1>3. CASE sha[k] = None /\ sha'[k] = None /\ \A u \in Threads : ~Finishes(u, k) /\ ~Finishes(u, k)'
  <2>1. BytesOf(k) = None /\ BytesOf(k)' = None
    BY <1>3 DEF BytesInv
  <2> QED
    BY <2>1
<1> QED
  BY <1>1, <1>2, <1>3 DEF Untouched

\* start makes a new, empty value.
LEMMA startBytes ==
  ASSUME HashInv, BytesInv, BytesInv', NEW t \in Threads, NEW h \in Handles, NEW o \in Objects,
         start(t, h, o)
  PROVE  Value!Next
<1>1. ASSUME NEW k \in Handles PROVE BytesOf(k)' = IF k = h THEN <<>> ELSE BytesOf(k)
  <2>1. CASE sha[k] # None
    BY HashAssumption DEF HashInv, HashTypeOK, InUse, Borrows, Unused, start, BytesInv, Finishes
  <2>2. CASE sha[k] = None /\ \E u \in Threads : Finishes(u, k)
    BY HashAssumption DEF HashInv, HashTypeOK, InUse, Borrows, Unused, start, BytesInv, Finishes
  <2>3. CASE sha[k] = None /\ \A u \in Threads : ~Finishes(u, k)
    BY HashAssumption DEF HashInv, HashTypeOK, InUse, Borrows, Unused, start, BytesInv, Finishes
  <2> QED
    BY <2>1, <2>2, <2>3
<1>2. BytesOf(h) = None
  BY DEF InUse, Borrows, Unused, start, BytesInv, Finishes
<1>3. Value!Start(h)
  BY <1>1, <1>2 DEF Value!Start, Value!Live, start
<1> QED
  BY <1>3 DEF Value!Next

\* fork takes effect when its copy is complete: the new value is what the
\* original holds at that moment.
LEMMA EndForkBytes ==
  ASSUME HashInv, BytesInv, BytesInv', NEW t \in Threads, NEW h \in Handles, NEW o \in Objects,
         EndFork(t, h, o)
  PROVE  Value!Next
<1>1. ASSUME NEW k \in Handles
      PROVE  BytesOf(k)' = IF k = h THEN BytesOf(call[t].handle) ELSE BytesOf(k)
  <2>1. CASE sha[k] # None
    BY <2>1 DEF HashInv, HashTypeOK, Unused, EndFork, BytesInv
  <2>2. CASE sha[k] = None /\ \E u \in Threads : Finishes(u, k)
    BY <2>2 DEF HashInv, HashTypeOK, InUse, In, End, Borrows, Unused, EndFork, BytesInv, Finishes
  <2>3. CASE sha[k] = None /\ \A u \in Threads : ~Finishes(u, k)
    BY <2>3, HashAssumption, CallAssumption
       DEF HashInv, HashTypeOK, ReferenceInv, ValueInv, ExclusiveInv, CopyInv, ContextsInv,
       NoLeak, InUse, ByReference, ByValue, Call, Ops, In, End, Borrows, Unused, EndFork,
       BytesInv, Finishes
  <2> QED
    BY <2>1, <2>2, <2>3
<1>2. BytesOf(h) = None /\ BytesOf(call[t].handle) # None /\ call[t].handle \in Handles
  BY HashAssumption
     DEF HashInv, HashTypeOK, ReferenceInv, InUse, ByReference, Call, In, Borrows, Unused,
     EndFork, BytesInv, Finishes
<1>3. Value!Fork(call[t].handle, h)
  BY <1>1, <1>2 DEF Value!Fork, Value!Live, EndFork
<1> QED
  BY <1>2, <1>3 DEF Value!Next

\* The begin of a call changes no value.
LEMMA BeginUpdateBytes ==
  ASSUME HashInv, BytesInv, BytesInv', NEW t \in Threads, NEW h \in Handles,
         NEW chunk \in Chunks, BeginUpdate(t, h, chunk)
  PROVE  UNCHANGED Value!vars
<1>1. \A u \in Threads, k \in Handles : Finishes(u, k)' <=> Finishes(u, k)
  BY DEF BeginUpdate, Idle, Begin, Finishes, InUse
<1>2. \A k \in Handles : Untouched(k)
  BY DEF BeginUpdate, Idle, Begin, Finishes, InUse, Untouched
<1> QED
  BY <1>2, Kept DEF Value!vars, BeginUpdate

\* The same for fork,
LEMMA BeginForkBytes ==
  ASSUME HashInv, BytesInv, BytesInv', NEW t \in Threads, NEW h \in Handles, BeginFork(t, h)
  PROVE  UNCHANGED Value!vars
<1>1. ASSUME NEW k \in Handles PROVE BytesOf(k)' = BytesOf(k)
  <2>1. CASE sha[k] # None
    BY DEF InUse, Idle, Begin, BeginFork, BytesInv, Finishes
  <2>2. CASE sha[k] = None /\ \E u \in Threads : Finishes(u, k)
    BY DEF InUse, Idle, Begin, BeginFork, BytesInv, Finishes
  <2>3. CASE sha[k] = None /\ \A u \in Threads : ~Finishes(u, k)
    BY DEF InUse, Idle, Begin, BeginFork, BytesInv, Finishes
  <2> QED
    BY <2>1, <2>2, <2>3
<1> QED
  BY <1>1 DEF Value!vars, BeginFork

\* for fork_finish,
LEMMA BeginForkFinishBytes ==
  ASSUME HashInv, BytesInv, BytesInv', NEW t \in Threads, NEW h \in Handles, BeginForkFinish(t, h)
  PROVE  UNCHANGED Value!vars
<1>1. ASSUME NEW k \in Handles PROVE BytesOf(k)' = BytesOf(k)
  <2>1. CASE sha[k] # None
    BY DEF InUse, Idle, Begin, BeginForkFinish, BytesInv, Finishes
  <2>2. CASE sha[k] = None /\ \E u \in Threads : Finishes(u, k)
    BY DEF InUse, Idle, Begin, BeginForkFinish, BytesInv, Finishes
  <2>3. CASE sha[k] = None /\ \A u \in Threads : ~Finishes(u, k)
    BY DEF InUse, Idle, Begin, BeginForkFinish, BytesInv, Finishes
  <2> QED
    BY <2>1, <2>2, <2>3
<1> QED
  BY <1>1 DEF Value!vars, BeginForkFinish

\* and for finish, whose context keeps its value while the call has it.
LEMMA BeginFinishBytes ==
  ASSUME HashInv, BytesInv, BytesInv', NEW t \in Threads, NEW h \in Handles, BeginFinish(t, h)
  PROVE  UNCHANGED Value!vars
<1>1. ASSUME NEW k \in Handles PROVE BytesOf(k)' = BytesOf(k)
  <2>1. CASE sha[k] # None
    BY <2>1, CallAssumption
       DEF HashInv, HashTypeOK, InUse, Call, Ops, Begin, BeginFinish, BytesInv, Finishes
  <2>2. CASE sha[k] = None /\ \E u \in Threads : Finishes(u, k)
    BY <2>2 DEF InUse, Idle, Begin, BeginFinish, BytesInv, Finishes
  <2>3. CASE sha[k] = None /\ \A u \in Threads : ~Finishes(u, k)
    BY <2>3 DEF InUse, Begin, CanMutate, BeginFinish, BytesInv, Finishes
  <2> QED
    BY <2>1, <2>2, <2>3
<1> QED
  BY <1>1 DEF Value!vars, BeginFinish

\* drop ends the value of one context and of no other.
LEMMA dropBytes ==
  ASSUME HashInv, BytesInv, BytesInv', NEW t \in Threads, NEW h \in Handles, drop(t, h)
  PROVE  Value!Next
<1>1. ASSUME NEW k \in Handles PROVE BytesOf(k)' = IF k = h THEN None ELSE BytesOf(k)
  <2>1. CASE sha[k] # None
    BY
       DEF HashInv, HashTypeOK, ValueInv, ContextsInv, InUse, ByValue, Call, Borrows,
       CanMutate, drop, BytesInv, Finishes
  <2>2. CASE sha[k] = None /\ \E u \in Threads : Finishes(u, k)
    BY
       DEF HashInv, HashTypeOK, ValueInv, ContextsInv, InUse, ByValue, Call, Borrows,
       CanMutate, drop, BytesInv, Finishes
  <2>3. CASE sha[k] = None /\ \A u \in Threads : ~Finishes(u, k)
    BY
       DEF HashInv, HashTypeOK, ValueInv, ContextsInv, InUse, ByValue, Call, Borrows,
       CanMutate, drop, BytesInv, Finishes
  <2> QED
    BY <2>1, <2>2, <2>3
<1>2. BytesOf(h) # None
  BY DEF HashInv, HashTypeOK, CanMutate, drop, BytesInv
<1>3. Value!Drop(h)
  BY <1>1, <1>2 DEF Value!Drop, Value!Live, drop
<1> QED
  BY <1>3 DEF Value!Next

\* The copy inside fork_finish is the value of no context.
LEMMA ForkFinishCopiedBytes ==
  ASSUME HashInv, BytesInv, BytesInv', NEW t \in Threads, NEW o \in Objects, ForkFinishCopied(t, o)
  PROVE  UNCHANGED Value!vars
<1>1. ASSUME NEW k \in Handles PROVE BytesOf(k)' = BytesOf(k)
  <2>1. CASE sha[k] # None
    BY <2>1 DEF HashInv, HashTypeOK, ForkFinishCopied, BytesInv
  <2>2. CASE sha[k] = None /\ \E u \in Threads : Finishes(u, k)
    BY <2>2
       DEF HashInv, HashTypeOK, CopyInv, ContextsInv, InUse, In, Begin, ForkFinishCopied,
       BytesInv, Finishes
  <2>3. CASE sha[k] = None /\ \A u \in Threads : ~Finishes(u, k)
    BY <2>3 DEF InUse, Begin, ForkFinishCopied, BytesInv, Finishes
  <2> QED
    BY <2>1, <2>2, <2>3
<1> QED
  BY <1>1 DEF Value!vars, ForkFinishCopied

\* update appends to the value of its own context only.
LEMMA EndUpdateBytes ==
  ASSUME HashInv, BytesInv, BytesInv', NEW t \in Threads, EndUpdate(t)
  PROVE  Value!Next
<1> DEFINE b == heap[call[t].obj] \o call[t].chunk
<1>1. b \in Seq(Nat) /\ Appends(t, b)
  BY Appended
<1> HIDE DEF b
<1>2. PICK h \in Handles : h = call[t].handle
  BY <1>1 DEF Appends, Call
<1>3. /\ call[t].obj \in Objects /\ call[t].chunk \in Chunks
      /\ sha[h] = call[t].obj /\ call[t].obj # None
  BY <1>1, <1>2, HashAssumption
     DEF Appends, In, InUse, HashInv, ReferenceInv, ByReference, ExclusiveInv, Call
<1>4. BytesOf(h) = heap[call[t].obj] /\ BytesOf(h) # None /\ BytesOf(h)' = b
  <2>1. BytesOf(h) = heap[call[t].obj]
    BY <1>3 DEF BytesInv
  <2>2. sha'[h] = call[t].obj /\ heap'[call[t].obj] = b
    BY <1>1, <1>3 DEF Appends, HashInv, HashTypeOK
  <2>3. sha'[h] # None => BytesOf(h)' = heap'[sha'[h]]
    BY DEF BytesInv
  <2> QED
    BY <1>1, <1>3, <2>1, <2>2, <2>3 DEF Appends
<1>5. ASSUME NEW k \in Handles \ {h} PROVE BytesOf(k)' = BytesOf(k)
  <2>1. CASE sha[k] # None
    BY <1>1, <1>3, <2>1, Kept DEF Appends, HashInv, ContextsInv, Untouched
  <2>2. CASE \E u \in Threads : Finishes(u, k)
    <3>1. PICK u \in Threads : Finishes(u, k)
      BY <2>2
    <3>2. u # t /\ call'[u] = call[u] /\ call[u].obj \in Objects /\ call[u].obj # call[t].obj
      BY <1>1, <3>1
         DEF Appends, In, End, InUse, Finishes, HashInv, HashTypeOK, ValueInv, ByValue, Call
    <3> QED
      BY <1>1, <3>1, <3>2, Kept DEF Appends, Untouched, HashInv, HashTypeOK, Finishes, InUse
  <2>3. CASE sha[k] = None /\ \A u \in Threads : ~Finishes(u, k)
    BY <1>1, <2>3, Kept DEF Appends, End, Untouched, Finishes, InUse
  <2> QED
    BY <2>1, <2>2, <2>3
<1>6. Value!Update(h, call[t].chunk)
  BY <1>1, <1>4, <1>5 DEF Value!Update, Value!Live, Appends, b
<1> QED
  BY <1>3, <1>6 DEF Value!Next

\* fork_finish returns the digest of what its context holds now, although the
\* copy was made some steps ago.
LEMMA EndForkFinishBytes ==
  ASSUME HashInv, BytesInv, BytesInv', NEW t \in Threads, EndForkFinish(t)
  PROVE  Value!Next
<1>1. ASSUME NEW k \in Handles PROVE BytesOf(k)' = BytesOf(k)
  <2>1. CASE sha[k] # None
    BY <2>1 DEF HashInv, ValueInv, InUse, ByValue, In, FinalizeAndFree, EndForkFinish, BytesInv
  <2>2. CASE sha[k] = None /\ \E u \in Threads : Finishes(u, k)
    BY <2>2, HashAssumption, CallAssumption
       DEF HashInv, HashTypeOK, ReferenceInv, ValueInv, ExclusiveInv, CopyInv, ContextsInv,
       NoLeak, InUse, ByReference, ByValue, Call, Ops, In, End, FinalizeAndFree, EndForkFinish,
       BytesInv, Finishes
  <2>3. CASE sha[k] = None /\ \A u \in Threads : ~Finishes(u, k)
    BY <2>3 DEF InUse, End, EndForkFinish, BytesInv, Finishes
  <2> QED
    BY <2>1, <2>2, <2>3
<1>2. /\ call[t].handle \in Handles
      /\ BytesOf(call[t].handle) # None /\ output' = BytesOf(call[t].handle)
  BY DEF HashInv, HashTypeOK, CopyInv, InUse, Call, In, FinalizeAndFree, EndForkFinish, BytesInv
<1>3. Value!ForkFinish(call[t].handle)
  BY <1>1, <1>2 DEF Value!ForkFinish, Value!Live
<1> QED
  BY <1>2, <1>3 DEF Value!Next

\* finish returns the digest of its context's value and ends it.
LEMMA EndFinishBytes ==
  ASSUME HashInv, BytesInv, BytesInv', NEW t \in Threads, EndFinish(t)
  PROVE  Value!Next
<1>1. ASSUME NEW k \in Handles PROVE BytesOf(k)' = IF k = call[t].handle THEN None ELSE BytesOf(k)
  <2>1. CASE sha[k] # None
    BY <2>1
       DEF HashInv, ValueInv, ExclusiveInv, InUse, ByValue, In, FinalizeAndFree, EndFinish,
       BytesInv
  <2>2. CASE sha[k] = None /\ \E u \in Threads : Finishes(u, k)
    BY <2>2
       DEF HashInv, HashTypeOK, ValueInv, ExclusiveInv, InUse, ByValue, In, End,
       FinalizeAndFree, EndFinish, BytesInv, Finishes
  <2>3. CASE sha[k] = None /\ \A u \in Threads : ~Finishes(u, k)
    BY <2>3 DEF InUse, End, EndFinish, BytesInv, Finishes
  <2> QED
    BY <2>1, <2>2, <2>3
<1>2. /\ call[t].handle \in Handles
      /\ BytesOf(call[t].handle) # None /\ output' = BytesOf(call[t].handle)
  BY DEF HashInv, HashTypeOK, InUse, Call, In, FinalizeAndFree, EndFinish, BytesInv, Finishes
<1>3. Value!Finish(call[t].handle)
  BY <1>1, <1>2 DEF Value!Finish, Value!Live
<1> QED
  BY <1>2, <1>3 DEF Value!Next

\* A panic drops the context the thread had to itself, if it had one, and
\* changes no other value.
LEMMA PanicBytes ==
  ASSUME HashInv, BytesInv, BytesInv', NEW t \in Threads, Panic(t)
  PROVE  Value!Next \/ UNCHANGED Value!vars
<1> DEFINE o == call[t].obj
           h == call[t].handle
<1>0. /\ call \in [Threads -> Call \cup {None}] /\ call' = [call EXCEPT ![t] = None]
      /\ sha \in [Handles -> Objects \cup {None}] /\ heap \in [Objects -> Seq(Nat) \cup {None}]
  BY DEF HashInv, HashTypeOK, Panic, End
<1>1. CASE InUse(t) /\ call[t].op \in {"update", "finish"}
  <2>0. h \in Handles /\ o \in Objects
    BY <1>0, <1>1 DEF Call, InUse
  <2>1. /\ heap' = [x \in Objects |-> IF x = o THEN None ELSE heap[x]]
        /\ sha' = [k \in Handles |-> IF sha[k] = o THEN None ELSE sha[k]]
    BY <1>1 DEF Panic, Unwound, InUse
  <2>2. \A k \in Handles \ {h} : sha[k] # o
    BY <1>1, HashAssumption, <2>0
       DEF HashInv, ReferenceInv, ValueInv, ContextsInv, ByReference, ByValue
  <2>3. \A k \in Handles : \A u \in Threads \ {t} : Finishes(u, k) => k # h /\ call[u].obj # o
    BY <1>1 DEF HashInv, ValueInv, ExclusiveInv, ByValue, Finishes
  <2>4. sha'[h] = None
    BY <1>1, <2>0, <2>1 DEF HashInv, ReferenceInv, ExclusiveInv, ByReference
  <2>5. \A u \in Threads, k \in Handles : Finishes(u, k)' <=> u # t /\ Finishes(u, k)
    BY <1>0 DEF Finishes, InUse
  <2>6. ASSUME NEW k \in Handles PROVE BytesOf(k)' = IF k = h THEN None ELSE BytesOf(k)
    <3>1. CASE k = h
      BY <2>3, <2>4, <2>5, <3>1 DEF BytesInv
    <3>2. CASE k # h /\ sha[k] # None
      BY <1>0, <2>1, <2>2, <3>2, Kept DEF Untouched
    <3>3. CASE k # h /\ \E u \in Threads : Finishes(u, k)
      <4>1. PICK u \in Threads : Finishes(u, k)
        BY <3>3
      <4>2. u # t /\ call'[u] = call[u] /\ call[u].obj # o /\ call[u].obj \in Objects
        BY <1>0, <2>3, <3>3, <4>1 DEF Finishes, InUse, Call
      <4> QED
        BY <2>1, <2>5, <3>3, <4>1, <4>2, Kept DEF Untouched
    <3>4. CASE k # h /\ sha[k] = None /\ \A u \in Threads : ~Finishes(u, k)
      BY <2>1, <2>5, <3>4, Kept DEF Untouched
    <3> QED
      BY <3>1, <3>2, <3>3, <3>4
  <2>7. BytesOf(h) # None
    BY <1>1, <2>0, HashAssumption
       DEF HashInv, HashTypeOK, ReferenceInv, ByReference, BytesInv, Finishes, InUse
  <2>8. Value!Drop(h)
    BY <2>0, <2>6, <2>7 DEF Value!Drop, Value!Live, Panic
  <2> QED
    BY <2>0, <2>8 DEF Value!Next
<1>2. CASE InUse(t) /\ call[t].op = "fork_finalize"
  <2>0. o \in Objects
    BY <1>0, <1>2 DEF Call, InUse
  <2>1. /\ heap' = [x \in Objects |-> IF x = o THEN None ELSE heap[x]]
        /\ \A k \in Handles : sha[k] # o
        /\ sha' = sha
    BY <1>0, <1>2 DEF Panic, Unwound, InUse, HashInv, ValueInv, ByValue
  <2>2. \A k \in Handles : \A u \in Threads : Finishes(u, k) => u # t /\ call[u].obj # o
    BY <1>2 DEF HashInv, ValueInv, ByValue, Finishes
  <2>3. \A u \in Threads, k \in Handles : Finishes(u, k)' <=> Finishes(u, k)
    BY <1>0, <2>2 DEF Finishes, InUse
  <2>4. ASSUME NEW k \in Handles PROVE BytesOf(k)' = BytesOf(k)
    <3>1. CASE sha[k] # None
      BY <1>0, <2>1, <3>1, Kept DEF Untouched
    <3>2. CASE \E u \in Threads : Finishes(u, k)
      <4>1. PICK u \in Threads : Finishes(u, k)
        BY <3>2
      <4>2. call'[u] = call[u] /\ call[u].obj # o /\ call[u].obj \in Objects
        BY <1>0, <2>2, <4>1 DEF Finishes, InUse, Call
      <4> QED
        BY <2>1, <2>3, <4>1, <4>2, Kept DEF Untouched
    <3>3. CASE sha[k] = None /\ \A u \in Threads : ~Finishes(u, k)
      BY <2>1, <2>3, <3>3, Kept DEF Untouched
    <3> QED
      BY <3>1, <3>2, <3>3
  <2> QED
    BY <2>4 DEF Value!vars, Panic
<1>3. CASE ~(InUse(t) /\ call[t].op \in {"update", "finish", "fork_finalize"})
  <2>1. heap' = heap /\ sha' = sha
    BY <1>0, <1>3 DEF Panic, Unwound, InUse
  <2>2. \A u \in Threads, k \in Handles : Finishes(u, k)' <=> Finishes(u, k)
    BY <1>0, <1>3 DEF Finishes, InUse
  <2>3. ASSUME NEW k \in Handles PROVE BytesOf(k)' = BytesOf(k)
    <3>1. \A u \in Threads : Finishes(u, k) => call'[u] = call[u]
      BY <1>0, <1>3 DEF Finishes
    <3> QED
      BY <2>1, <2>2, <3>1, Kept DEF Untouched
  <2> QED
    BY <2>3 DEF Value!vars, Panic
<1> QED
  BY <1>1, <1>2, <1>3

\* hash returns the digest of its data and changes no value.
LEMMA hashBytes ==
  ASSUME NEW t \in Threads, NEW chunk \in Chunks, hash(t, chunk)
  PROVE  Value!Next
<1>1. \A k \in Handles : BytesOf(k)' = BytesOf(k)
  BY DEF hash, BytesOf, Finishing, Borrows
<1>2. Value!Hash(chunk)
  BY <1>1 DEF Value!Hash, hash
<1> QED
  BY <1>2 DEF Value!Next

\* Hash contexts behave as values, for every number of threads: the detailed
\* specification, with its heap, its overlapping calls and its panics,
\* implements Transcript.
THEOREM Refinement == Spec => TranscriptSpec
<1>1. Init => Value!Init
  BY HashAssumption DEF Init, Value!Init, BytesOf, Finishing, Borrows
<1>2. /\ HashInv /\ HashInv' /\ BytesInv /\ BytesInv'
      /\ [Next]_vars
      => [Value!Next]_(Value!vars)
  <2> SUFFICES ASSUME HashInv, BytesInv, BytesInv', [Next]_vars
               PROVE  Value!Next \/ UNCHANGED Value!vars
    OBVIOUS
  <2>1. CASE UNCHANGED vars
    BY <2>1 DEF vars, Value!vars, BytesOf, Finishing, Borrows
  <2>2. CASE Next
    BY <2>2, startBytes, EndForkBytes, BeginUpdateBytes, BeginForkBytes, BeginForkFinishBytes,
       BeginFinishBytes, dropBytes, ForkFinishCopiedBytes, EndUpdateBytes, EndForkFinishBytes,
       EndFinishBytes, PanicBytes, hashBytes
       DEF Next
  <2> QED
    BY <2>1, <2>2
<1> QED
  BY <1>1, <1>2, Invariant, BytesKnown, PTL DEF Spec, TranscriptSpec, Value!Spec

=============================================================================

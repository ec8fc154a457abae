----------------------------- MODULE HashContext -----------------------------
(***************************************************************************)
(* The hash contexts of hash/sha256.rs and hash/sha384.rs (the two files   *)
(* are the same code): each WCSha256Context owns one C hash state, and     *)
(* "unsafe impl Sync" lets threads that share a context run its &self      *)
(* operations (fork, fork_finish) at the same time.                        *)
(*                                                                         *)
(* The C states live on a heap here, a call takes place between its begin  *)
(* and its end, and Rust's borrow rules say which calls may overlap.  The  *)
(* hash traits cannot return an error, so every result is expect()ed: a    *)
(* wolfCrypt call that fails panics its thread, which unwinds.             *)
(***************************************************************************)
EXTENDS Naturals, Sequences

CONSTANTS
  Threads,   \* threads of the program
  Handles,   \* names for Box<dyn hash::Context>
  Objects,   \* places for C hash states
  Chunks,    \* byte sequences passed to update and hash
  MaxBytes,  \* bound: bytes in one context
  None       \* no object, no call, no bytes

ASSUME HashAssumption ==
  /\ MaxBytes \in Nat
  /\ Chunks \subseteq Seq(Nat)
  /\ None \notin Objects \cup Handles \cup Seq(Nat)

VARIABLES
  heap,     \* heap[o]: the bytes C state o has absorbed, or None when free
  sha,      \* sha[h]: the C state of context h, or None
  call,     \* call[t]: the call thread t is in, or None
  output,   \* the byte sequence whose digest was returned last, or None
  panicked  \* the threads that an expect() ended

vars == <<heap, sha, call, output, panicked>>

-----------------------------------------------------------------------------
Idle(t) == t \notin panicked /\ call[t] = None
In(t, op) == call[t] # None /\ call[t].op = op

\* The borrow rules: fork and fork_finish borrow a context by &, update by
\* &mut, finish takes the box.  A handle is reused when nothing is left of it.
Borrows(h) == {t \in Threads : call[t] # None /\ call[t].handle = h}
CanShare(h) == sha[h] # None /\ \A t \in Borrows(h) : call[t].op # "update"
CanMutate(h) == sha[h] # None /\ Borrows(h) = {}
Unused(h) == sha[h] = None /\ Borrows(h) = {}

Begin(t, op, h, obj, chunk) ==
  call' = [call EXCEPT ![t] = [op |-> op, handle |-> h, obj |-> obj, chunk |-> chunk]]
End(t) == call' = [call EXCEPT ![t] = None]

\* finalize and the free that follows when the box is dropped.
FinalizeAndFree(o) ==
  /\ output' = heap[o]
  /\ heap' = [heap EXCEPT ![o] = None]

Init ==
  /\ heap = [o \in Objects |-> None]
  /\ sha = [h \in Handles |-> None]
  /\ call = [t \in Threads |-> None]
  /\ output = None
  /\ panicked = {}

\* start(): a new C state in a new box.
start(t, h, o) ==
  /\ Idle(t) /\ Unused(h) /\ heap[o] = None
  /\ heap' = [heap EXCEPT ![o] = <<>>]
  /\ sha' = [sha EXCEPT ![h] = o]
  /\ UNCHANGED <<call, output, panicked>>

\* update(&mut self, chunk)
BeginUpdate(t, h, chunk) ==
  /\ Idle(t) /\ CanMutate(h)
  /\ Len(heap[sha[h]]) + Len(chunk) <= MaxBytes
  /\ Begin(t, "update", h, sha[h], chunk)
  /\ UNCHANGED <<heap, sha, output, panicked>>

EndUpdate(t) ==
  /\ In(t, "update")
  /\ heap' = [heap EXCEPT ![call[t].obj] = @ \o call[t].chunk]
  /\ End(t)
  /\ UNCHANGED <<sha, output, panicked>>

\* fork(&self): copy the C state into a new box.
BeginFork(t, h) ==
  /\ Idle(t) /\ CanShare(h)
  /\ Begin(t, "fork", h, sha[h], <<>>)
  /\ UNCHANGED <<heap, sha, output, panicked>>

BugEndFork(t, g, o) ==
  /\ In(t, "fork") /\ Unused(g) /\ heap[o] = None
  /\ sha' = [sha EXCEPT ![g] = call[t].obj]
  /\ End(t)
  /\ UNCHANGED <<heap, output, panicked>>
EndFork(t, g, o) ==
  /\ In(t, "fork") /\ Unused(g) /\ heap[o] = None
  /\ heap' = [heap EXCEPT ![o] = heap[call[t].obj]]
  /\ sha' = [sha EXCEPT ![g] = o]
  /\ End(t)
  /\ UNCHANGED <<output, panicked>>

\* fork_finish(&self): copy the C state, then finalize and drop the copy.
BeginForkFinish(t, h) ==
  /\ Idle(t) /\ CanShare(h)
  /\ Begin(t, "fork_copy", h, sha[h], <<>>)
  /\ UNCHANGED <<heap, sha, output, panicked>>

BugForkFinishCopied(t, o) ==
  /\ In(t, "fork_copy") /\ heap[o] = None
  /\ Begin(t, "fork_finalize", call[t].handle, call[t].obj, <<>>)
  /\ UNCHANGED <<heap, sha, output, panicked>>
ForkFinishCopied(t, o) ==
  /\ In(t, "fork_copy") /\ heap[o] = None
  /\ heap' = [heap EXCEPT ![o] = heap[call[t].obj]]
  /\ Begin(t, "fork_finalize", call[t].handle, o, <<>>)
  /\ UNCHANGED <<sha, output, panicked>>

EndForkFinish(t) ==
  /\ In(t, "fork_finalize")
  /\ FinalizeAndFree(call[t].obj)
  /\ End(t)
  /\ UNCHANGED <<sha, panicked>>

\* finish(self: Box<Self>): finalize the C state, drop the box.
BugBeginFinish(t, h) ==
  /\ Idle(t) /\ CanMutate(h)
  /\ Begin(t, "finish", h, sha[h], <<>>)
  /\ UNCHANGED <<heap, sha, output, panicked>>
BeginFinish(t, h) ==
  /\ Idle(t) /\ CanMutate(h)
  /\ Begin(t, "finish", h, sha[h], <<>>)
  /\ sha' = [sha EXCEPT ![h] = None]
  /\ UNCHANGED <<heap, output, panicked>>

BugEndFinish(t) ==
  /\ In(t, "finish")
  /\ output' = heap[call[t].obj]
  /\ End(t)
  /\ UNCHANGED <<heap, sha, panicked>>
EndFinish(t) ==
  /\ In(t, "finish")
  /\ FinalizeAndFree(call[t].obj)
  /\ End(t)
  /\ UNCHANGED <<sha, panicked>>

\* A context is dropped unfinished.
drop(t, h) ==
  /\ Idle(t) /\ CanMutate(h)
  /\ heap' = [heap EXCEPT ![sha[h]] = None]
  /\ sha' = [sha EXCEPT ![h] = None]
  /\ UNCHANGED <<call, output, panicked>>

\* hash(data): start, update and finish of a context nobody else can see.
hash(t, chunk) ==
  /\ Idle(t)
  /\ \E o \in Objects : heap[o] = None
  /\ output' = chunk
  /\ UNCHANGED <<heap, sha, call, panicked>>

\* A wolfCrypt call fails and its expect() panics.  Unwinding drops what the
\* thread was at work on: the box that finish took or that fork_finish made,
\* and the context that update was changing.
Unwound(t) ==
  IF call[t] # None /\ call[t].op \in {"update", "finish", "fork_finalize"}
    THEN {call[t].obj} ELSE {}
BugPanic(t) ==
  /\ t \notin panicked
  /\ panicked' = panicked \cup {t}
  /\ End(t)
  /\ UNCHANGED <<heap, sha, output>>
Panic(t) ==
  /\ t \notin panicked
  /\ panicked' = panicked \cup {t}
  /\ heap' = [o \in Objects |-> IF o \in Unwound(t) THEN None ELSE heap[o]]
  /\ sha' = [h \in Handles |-> IF sha[h] \in Unwound(t) THEN None ELSE sha[h]]
  /\ End(t)
  /\ UNCHANGED output

Next ==
  \E t \in Threads :
       \/ \E h \in Handles :
            \/ \E o \in Objects : start(t, h, o) \/ EndFork(t, h, o)
            \/ \E chunk \in Chunks : BeginUpdate(t, h, chunk)
            \/ BeginFork(t, h)
            \/ BeginForkFinish(t, h)
            \/ BeginFinish(t, h)
            \/ drop(t, h)
       \/ \E o \in Objects : ForkFinishCopied(t, o)
       \/ EndUpdate(t)
       \/ EndForkFinish(t)
       \/ EndFinish(t)
       \/ \E chunk \in Chunks : hash(t, chunk)
       \/ Panic(t)

Spec == Init /\ [][Next]_vars

-----------------------------------------------------------------------------
(* Properties                                                              *)

Ops == {"update", "fork", "fork_copy", "fork_finalize", "finish"}
Call == [op : Ops, handle : Handles, obj : Objects, chunk : Chunks \cup {<<>>}]

ASSUME CallAssumption == None \notin Call

\* Every variable has its type; in particular a call under way and a live
\* context refer to a C state that is not freed.
HashTypeOK ==
  /\ heap \in [Objects -> Seq(Nat) \cup {None}]
  /\ sha \in [Handles -> Objects \cup {None}]
  /\ call \in [Threads -> Call \cup {None}]
  /\ output \in Seq(Nat) \cup {None}
  /\ panicked \subseteq Threads
  /\ \A h \in Handles : sha[h] # None => heap[sha[h]] # None
  /\ \A t \in Threads : call[t] # None => heap[call[t].obj] # None

Writes(c) == c.op \in {"update", "finish", "fork_finalize"}

\* While one thread's call writes a C state, no other thread's call touches
\* it: what "unsafe impl Sync for WCSha256Context" claims.
NoDataRace ==
  \A t, u \in Threads :
    (t # u /\ call[t] # None /\ call[u] # None /\ call[t].obj = call[u].obj) =>
      ~Writes(call[t]) /\ ~Writes(call[u])

\* The contexts and the calls that are to free a C state.
Owners(o) ==
  {<<"context", h>> : h \in {x \in Handles : sha[x] = o}} \cup
  {<<"call", t>> : t \in {x \in Threads : call[x] # None /\ call[x].obj = o /\
                                         call[x].op \in {"finish", "fork_finalize"}}}

\* Every C state that is not freed belongs to exactly one context, or to the
\* one call that will free it, and none of them refers to a freed state: no
\* leak, no double free, no use after free, through every path of fork,
\* fork_finish, finish and drop and through every panic.
OwnedOnce ==
  \A o \in Objects :
    IF heap[o] = None THEN Owners(o) = {}
                      ELSE \E w \in Owners(o) : Owners(o) = {w}

\* What the calls under way have a claim to.  By reference: the C state of the
\* context they borrow.  By value: a C state that no context and no other call
\* has.
InUse(t) == call[t] # None
ByReference(c) == c.op \in {"update", "fork", "fork_copy"}
ByValue(c) == c.op \in {"finish", "fork_finalize"}
ReferenceInv ==
  \A t \in Threads : InUse(t) /\ ByReference(call[t]) => sha[call[t].handle] = call[t].obj
ValueInv ==
  \A t \in Threads : InUse(t) /\ ByValue(call[t]) =>
    /\ \A h \in Handles : sha[h] # call[t].obj
    /\ \A u \in Threads \ {t} : InUse(u) => call[u].obj # call[t].obj

\* A call that changes or ends a context is alone with it.  finish has taken
\* the context, and what update appends is what it was given.
ExclusiveInv ==
  \A t \in Threads : InUse(t) /\ call[t].op \in {"update", "finish"} =>
    /\ \A u \in Threads \ {t} : InUse(u) => call[u].handle # call[t].handle
    /\ call[t].op = "finish" => sha[call[t].handle] = None
    /\ call[t].op = "update" => call[t].chunk \in Chunks

\* While fork_finish is at work its context lives, and the copy it is about to
\* finalize holds the bytes that the context holds still.
CopyInv ==
  \A t \in Threads : InUse(t) /\ call[t].op = "fork_finalize" =>
    sha[call[t].handle] # None /\ heap[call[t].obj] = heap[sha[call[t].handle]]

\* No two contexts have one C state, and nothing that is not freed is lost.
ContextsInv == \A g, h \in Handles : sha[g] # None /\ sha[g] = sha[h] => g = h
NoLeak ==
  \A o \in Objects : heap[o] # None =>
    \/ \E h \in Handles : sha[h] = o
    \/ \E t \in Threads : InUse(t) /\ ByValue(call[t]) /\ call[t].obj = o

\* The inductive invariant: with it a digest is always of what its context
\* holds at the moment it is returned, although fork_finish took its copy some
\* steps before, and other threads share the context meanwhile.
HashInv ==
  /\ HashTypeOK /\ ReferenceInv /\ ValueInv /\ ExclusiveInv /\ CopyInv /\ ContextsInv /\ NoLeak
  /\ \A t \in panicked : call[t] = None

-----------------------------------------------------------------------------
(* The abstract transcript                                                 *)

\* A context being finished keeps its value until its digest is returned.
Finishing(h) == {t \in Borrows(h) : call[t].op = "finish"}
BytesOf(h) ==
  IF sha[h] # None THEN heap[sha[h]]
  ELSE IF Finishing(h) # {} THEN heap[call[CHOOSE t \in Finishing(h) : TRUE].obj]
  ELSE None

Value == INSTANCE Transcript
           WITH bytes <- [h \in Handles |-> BytesOf(h)], NoBytes <- None

\* Contexts behave as values, whatever the threads that share them do: a fork
\* never sees a later update of the original or the other way round, and each
\* digest is of the bytes of one context at one moment.
TranscriptSpec == Value!Spec

=============================================================================

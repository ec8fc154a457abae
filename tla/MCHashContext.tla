---------------------------- MODULE MCHashContext ----------------------------
(* A small instance of HashContext for TLC.                                *)
EXTENDS HashContext, TLC

CONSTANTS t1, t2, h1, h2, o1, o2, o3, o4

MCThreads == {t1, t2}
MCHandles == {h1, h2}
MCObjects == {o1, o2, o3, o4}
MCChunks == {<<1>>, <<2>>}
Symmetric == Permutations(MCThreads) \cup Permutations(MCHandles) \cup Permutations(MCObjects)

=============================================================================

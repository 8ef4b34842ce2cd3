----------------------------- MODULE MCPdaProxy -----------------------------
EXTENDS PdaProxy, TLC

CONSTANTS k1, k2, n1, n2, ours, theirs, now, old

B(n, k) == [ns |-> n, text |-> k]

(* Two blobs, the first of them alone, and one text in two namespaces.     *)
TwoJobs == {<<B(n1, k1), B(n2, k2)>>, <<B(n1, k1)>>, <<B(n1, k2), B(n2, k2)>>}
OneJob  == {<<B(n1, k1)>>, <<B(n1, k1), B(n2, k1)>>}
OneBlob == {<<B(n1, k1)>>}

Ours == {[secret |-> ours, program |-> now]}

(* Before and after a change of the key.                                   *)
Rotated  == {[secret |-> s, program |-> now] : s \in {ours, theirs}}

Nobody == {<< >>}

(* A block with a blob of the same key and program, and one that differs   *)
(* in one of them or is not a proof at all.                                *)
Others ==
  {<<<<[ns |-> n1, text |-> k1, seal |-> [secret |-> ours, program |-> now]],
       [ns |-> n1, text |-> k1, seal |-> seal]>>>> :
       seal \in {Clear, [secret |-> theirs, program |-> now], [secret |-> ours, program |-> old]}}

Symmetry == Permutations(Handlers) \cup Permutations(Tasks)
=============================================================================

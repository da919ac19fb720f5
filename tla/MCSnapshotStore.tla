-------------------------- MODULE MCSnapshotStore --------------------------
(***************************************************************************)
(* Two datasets, three bundles: the second differs from the first in edges *)
(* and limitations, so that artifacts of both make up a valid bundle; the  *)
(* third is another dataset with other nodes, whose edges fit no other     *)
(* nodes.                                                                  *)
(***************************************************************************)
EXTENDS SnapshotStore, TLC

Nodes == "nodes.parquet"
Edges == "edges.parquet"
Limitations == "limitations.json"

First == [dataset |-> "x", files |-> [f \in Files |-> 1]]

Second == [First EXCEPT !.files[Edges] = 2, !.files[Limitations] = 2]

Other == [dataset |-> "y", files |-> [f \in Files |-> IF f = Limitations THEN 1 ELSE 3]]

MCBundles == {First, Second, Other}

MCValid == {a \in [Files -> 1..3] : a[Nodes] = 3 <=> a[Edges] = 3}

ReaderSymmetry == Permutations(Readers)
=============================================================================

---------------------------- MODULE MCGhostScores ----------------------------
(***************************************************************************)
(* Every communication graph of four people for the exact count and of     *)
(* five people for the bounded search, each asked once; and a chain with a *)
(* stub and a diamond under two threads that ask twice and once.           *)
(***************************************************************************)
EXTENDS GhostScores

CONSTANTS t1, t2

Call(e) == [from |-> Min(e), to |-> Max(e)]

\* Person 3 is the most senior, everybody else is the same.
BundleWith(people, strangers, pairs) ==
    [people |-> people, strangers |-> strangers,
     rank |-> [p \in people |-> IF p = 3 THEN 6 ELSE 1],
     calls |-> {Call(e) : e \in pairs}]

Pairs(people) == {e \in SUBSET people : Cardinality(e) = 2}

Once == [t \in Threads |-> IF t = t1 THEN <<{}>> ELSE <<>>]

Racing == [t \in Threads |-> IF t = t1 THEN <<{1}, {}>> ELSE <<{2}>>]

\* With the edges of person 1 in key order, so that few are copies of others.
OfFive == {g \in SUBSET Pairs(1..5) : \A i \in 2..4 : {1, i + 1} \in g => {1, i} \in g}

EveryGraph ==
    {[bundle |-> BundleWith(1..4, {}, g), left |-> Once] : g \in SUBSET Pairs(1..4)}
    \union {[bundle |-> BundleWith(1..5, {}, g), left |-> Once] : g \in OfFive}

Stub == [bundle |-> BundleWith(1..3, {4}, {{1, 2}, {2, 4}, {3, 4}}), left |-> Racing]

CrowdedStub ==
    [bundle |-> BundleWith(1..5, {6}, {{1, 2}, {2, 6}, {3, 4}}), left |-> Once]

Diamond == [bundle |-> BundleWith(1..4, {}, {{1, 2}, {1, 3}, {2, 4}, {3, 4}}), left |-> Racing]

AllWorkloads == EveryGraph \union {Stub, CrowdedStub, Diamond}
=============================================================================

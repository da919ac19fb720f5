--------------------------- MODULE MCRepairLedger ---------------------------
(***************************************************************************)
(* Small instances of RepairLedger.                                        *)
(*                                                                         *)
(* "demo": owners 1 and 4 of dependent modules are three hops apart (weak  *)
(* coordination), owner 5 has no path to owner 1, and one approval is      *)
(* missing.  "upload" has the same dataset id as "demo", "other" another.  *)
(***************************************************************************)
EXTENDS RepairLedger, TLC

CONSTANTS g1, demo, other, upload, d1, d2, good, bad

Inferred(m, p, conf, rank) ==
    [module |-> m, owner |-> p, authority |-> 0, active |-> TRUE, epoch |-> 0,
     confidence |-> conf, ownerRank |-> rank, key |-> <<10 * m + p>>]

Chain == {{1, 2}, {2, 3}, {3, 4}}

DemoSource(d) ==
    [dataset |-> d, phantoms |-> {g1}, modules |-> 1..3, people |-> 1..5,
     resolved |-> 1..5, communicates |-> Chain,
     owns |-> {Inferred(1, 1, 60, 1), Inferred(2, 4, 60, 1), Inferred(2, 2, 70, 2),
               Inferred(3, 5, 90, 1)},
     depends |-> {[id |-> 1, source |-> 1, target |-> 2, weight |-> 1],
                  [id |-> 2, source |-> 1, target |-> 3, weight |-> 2]}]

MCSourceData ==
    [s \in Sources |-> DemoSource(IF s = other THEN d2 ELSE d1)]

MCCatalog ==
    [n \in Names |->
        CASE n = "demo"   -> [source |-> demo, kind |-> "fixture"]
          [] n = "other"  -> [source |-> other, kind |-> "fixture"]
          [] n = "upload" -> [source |-> upload, kind |-> "snapshot"]]

Faultline(sm, tm, so, to) ==
    [lens |-> "faultline", sourceModule |-> sm, targetModule |-> tm,
     sourceOwner |-> so, targetOwner |-> to]

WeakLine == Faultline(1, 2, 1, 4)

NoPathLine == Faultline(1, 3, 1, 5)

AllRepairs == {Gap(g1), WeakLine, NoPathLine}

GapAndBridge == {Gap(g1), NoPathLine}

\* Threads are interchangeable.
ThreadSymmetry == Permutations(Threads)
=============================================================================

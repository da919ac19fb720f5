---------------------------- MODULE LoadBatches ----------------------------
(***************************************************************************)
(* How HydraLoader cuts the rows of a staged snapshot into batches: node   *)
(* rows by label, edge rows by shape (relation type and the labels of both *)
(* ends), each group in chunks of batch_size, nodes before edges.          *)
(*                                                                         *)
(* Labels and relation types are numbers, because the code sorts by them.  *)
(***************************************************************************)
EXTENDS Integers, Sequences, SequencesExt

\* A staged snapshot holds nodes [id, label] and edges [id, type, source, target].

Chunks(rows, size) ==
    [i \in 1..((Len(rows) + size - 1) \div size) |->
        SubSeq(rows, (i - 1) * size + 1, Min({i * size, Len(rows)}))]

Ids(rows) == {rows[i].id : i \in DOMAIN rows}

\* Rows are [key, id] here: one batch for each chunk of each group, the groups
\* in the order of their keys.
Grouped(rows, keys, size) ==
    FlattenSeq([k \in DOMAIN keys |->
        LET chunks == Chunks(SelectSeq(rows, LAMBDA r : r.key = keys[k]), size)
        IN  [c \in DOMAIN chunks |-> [key |-> keys[k], ids |-> Ids(chunks[c])]]])

NodeBatches(nodes, size) ==
    LET rows   == [i \in DOMAIN nodes |-> [key |-> nodes[i].label, id |-> nodes[i].id]]
        groups == Grouped(rows, SetToSortSeq({rows[i].key : i \in DOMAIN rows}, <), size)
    IN  [b \in DOMAIN groups |->
            [name |-> <<"nodes", groups[b].key>>, nodes |-> groups[b].ids, edges |-> {}]]

EdgeBatches(nodes, edges, size) ==
    LET LabelOf(id)  == nodes[CHOOSE i \in DOMAIN nodes : nodes[i].id = id].label
        Shape(edge)  == <<edge.type, LabelOf(edge.source), LabelOf(edge.target)>>
        Before(x, y) == \E i \in 1..3 : x[i] < y[i] /\ \A j \in 1..(i - 1) : x[j] = y[j]
        rows   == [i \in DOMAIN edges |-> [key |-> Shape(edges[i]), id |-> edges[i].id]]
        groups == Grouped(rows, SetToSortSeq({rows[i].key : i \in DOMAIN rows}, Before), size)
    IN  [b \in DOMAIN groups |->
            [name |-> <<"edges">> \o groups[b].key, nodes |-> {}, edges |-> groups[b].ids]]

SnapshotBatches(nodes, edges, size) ==
    NodeBatches(nodes, size) \o EdgeBatches(nodes, edges, size)
=============================================================================

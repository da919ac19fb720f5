--------------------------- MODULE MCHydraLoader ---------------------------
(***************************************************************************)
(* Small instances of HydraLoader: a first snapshot with two people, one   *)
(* module and two edges, and a second one of the same dataset in which one *)
(* more person has taken an edge over.                                     *)
(***************************************************************************)
EXTENDS HydraLoader, LoadBatches

Person == 2
Module == 1
Owns == 1
Talks == 2

Node(id, label) == [id |-> id, label |-> label]

Edge(id, type, source, target) ==
    [id |-> id, type |-> type, source |-> source, target |-> target]

FirstNodes == <<Node("m", Module), Node("p", Person), Node("q", Person)>>

SecondNodes == FirstNodes \o <<Node("r", Person)>>

FirstEdges == <<Edge("pm", Owns, "p", "m"), Edge("pq", Talks, "p", "q")>>

SecondEdges == <<Edge("pm", Owns, "p", "m"), Edge("rm", Owns, "r", "m")>>

AllEdges == FirstEdges \o SecondEdges

RowsOf(s) ==
    IF s = "first" THEN [nodes |-> FirstNodes, edges |-> FirstEdges]
                   ELSE [nodes |-> SecondNodes, edges |-> SecondEdges]

MCEdges == Ids(AllEdges)

MCEdge(e) == AllEdges[CHOOSE i \in DOMAIN AllEdges : AllEdges[i].id = e]

MCEnds == [e \in Edges |-> {MCEdge(e).source, MCEdge(e).target}]

MCRelType == [e \in Edges |-> MCEdge(e).type]

MCRelTypes == <<Owns, Talks>>

MCManifest ==
    [s \in Staged |-> [nodes |-> Ids(RowsOf(s).nodes), edges |-> Ids(RowsOf(s).edges)]]

MCBatches ==
    [s \in Staged |-> [z \in BatchSizes |-> SnapshotBatches(RowsOf(s).nodes, RowsOf(s).edges, z)]]
=============================================================================

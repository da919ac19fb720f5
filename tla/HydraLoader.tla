---------------------------- MODULE HydraLoader ----------------------------
(***************************************************************************)
(* HydraLoader.load: staged snapshots of one dataset are written to the    *)
(* graph database batch by batch; a checkpoint lets a later load of the    *)
(* same loader skip what an earlier one wrote; the load then compares the  *)
(* database's row counts with the manifest's.                              *)
(*                                                                         *)
(* seed_bundle creates a loader for every request, so several loaders may  *)
(* write to the database at once, and none is used twice; a caller that    *)
(* keeps its loader, or gives it a CheckpointStore that outlives the       *)
(* process, loads again with the checkpoints of before.  Every statement   *)
(* commits on its own: HydraDB has no transactions.                        *)
(***************************************************************************)
EXTENDS Integers, Sequences, FiniteSets

CONSTANTS
    Loaders,
    Staged,         \* snapshot ids of the staged snapshots
    Nodes, Edges,   \* row ids of all of them
    Ends,           \* the source and the target of an edge
    RelType,        \* its relation type
    RelTypes,       \* RELATION_TYPES, sorted
    Manifest,       \* the rows of each staged snapshot
    BatchSizes,
    Batches,        \* snapshot and batch size -> its batches, in order
    KeepsLoader,    \* a loader is used for several loads
    DurableStore,   \* its CheckpointStore survives a crash
    MaxLoads,       \* bound: loads started in a behaviour
    MaxFaults       \* bound: failed statements and crashes

Rows == [nodes: SUBSET Nodes, edges: SUBSET Edges]

BatchIn(names) == [name: names, nodes: SUBSET Nodes, edges: SUBSET Edges]

ASSUME RowsAssumption ==
    /\ Staged # {} /\ BatchSizes # {}
    /\ IsFiniteSet(Nodes) /\ IsFiniteSet(Edges)
    /\ Ends \in [Edges -> SUBSET Nodes]
    /\ RelTypes \in Seq({RelTypes[i] : i \in DOMAIN RelTypes})
    /\ \A i, j \in DOMAIN RelTypes : RelTypes[i] = RelTypes[j] => i = j
    /\ RelType \in [Edges -> {RelTypes[i] : i \in DOMAIN RelTypes}]
    /\ Manifest \in [Staged -> Rows]
    /\ KeepsLoader \in BOOLEAN /\ DurableStore \in BOOLEAN
    /\ MaxLoads \in Nat /\ MaxFaults \in Nat

\* Every row is in a batch and no other row is; a batch holds nodes or edges,
\* and an edge comes after its snapshot's nodes.
ASSUME BatchesAssumption ==
    \A s \in Staged, z \in BatchSizes :
        LET batches == Batches[s][z]
        IN  /\ batches \in Seq(BatchIn({batches[i].name : i \in DOMAIN batches}))
            /\ Manifest[s].nodes = UNION {batches[i].nodes : i \in DOMAIN batches}
            /\ Manifest[s].edges = UNION {batches[i].edges : i \in DOMAIN batches}
            /\ \A e \in Manifest[s].edges : Ends[e] \subseteq Manifest[s].nodes
            /\ \A i, j \in DOMAIN batches :
                  batches[i].edges # {} /\ batches[j].nodes # {} => j < i

VARIABLES
    graph,    \* the rows HydraDB holds for the dataset
    store,    \* each loader's checkpoints: (snapshot, name, index) -> row hash
    load,     \* each loader's current or last load
    loads,    \* number of loads started so far
    faults    \* number of faults so far

vars == <<graph, store, load, loads, faults>>

NoRows == [nodes |-> {}, edges |-> {}]

Phase == {"idle", "batch", "put", "nodes", "edges", "reported", "raised"}

\* Why a load raised: a checkpoint of other rows, a failed verification query,
\* or a count that is not the manifest's.
Reason == {"none", "checkpoint", "query", "count"}

Load == [phase: Phase, snapshot: Staged, size: BatchSizes, index: Nat \ {0}, attempt: {1, 2},
         completed: Nat, resumed: Nat, failed: SUBSET Nat,
         types: Nat, node_count: Nat, edge_count: Nat, reason: Reason]

NewLoad(phase, s, z) ==
    [phase |-> phase, snapshot |-> s, size |-> z, index |-> 1, attempt |-> 1,
     completed |-> 0, resumed |-> 0, failed |-> {},
     types |-> 0, node_count |-> 0, edge_count |-> 0, reason |-> "none"]

NoLoad == NewLoad("idle", CHOOSE s \in Staged : TRUE, CHOOSE z \in BatchSizes : TRUE)

Pending(l) == Batches[load[l].snapshot][load[l].size]

Batch(l) == Pending(l)[load[l].index]

InBatches(l) == load[l].phase = "batch" /\ load[l].index <= Len(Pending(l))

CheckpointKey(l) == <<load[l].snapshot, Batch(l).name, load[l].index>>

-----------------------------------------------------------------------------
(* Writing.                                                                *)

\* MERGE the nodes; MATCH both ends of an edge before its MERGE: a row whose
\* ends are missing is silently left out.
Upsert(g, batch) ==
    [nodes |-> g.nodes \union batch.nodes,
     edges |-> g.edges \union {e \in batch.edges : Ends[e] \subseteq g.nodes}]

Start(l, s, z) ==
    /\ load[l].phase \in {"idle", "reported", "raised"}
    /\ loads < MaxLoads
    /\ load' = [load EXCEPT ![l] = NewLoad("batch", s, z)]
    /\ store' = IF KeepsLoader THEN store ELSE [store EXCEPT ![l] = << >>]
    /\ loads' = loads + 1
    /\ UNCHANGED <<graph, faults>>

\* Mutant of Checkpointed: the row hash is not compared.
Checkpointed_AnyRows(l) == CheckpointKey(l) \in DOMAIN store[l]

\* The rows of this batch were written by an earlier load.
Checkpointed(l) ==
    CheckpointKey(l) \in DOMAIN store[l] /\ store[l][CheckpointKey(l)] = Batch(l)

SkipBatch(l) ==
    /\ InBatches(l)
    /\ Checkpointed(l)
    /\ load' = [load EXCEPT ![l].resumed = @ + 1, ![l].completed = @ + 1, ![l].index = @ + 1]
    /\ UNCHANGED <<graph, store, loads, faults>>

\* checkpoint mismatch: the batch was cut differently before.
RejectCheckpoint(l) ==
    /\ InBatches(l)
    /\ CheckpointKey(l) \in DOMAIN store[l]
    /\ ~Checkpointed(l)
    /\ load' = [load EXCEPT ![l].phase = "raised", ![l].reason = "checkpoint"]
    /\ UNCHANGED <<graph, store, loads, faults>>

\* A transient failure of the first attempt; the database may have committed.
Retry(l) ==
    /\ InBatches(l)
    /\ CheckpointKey(l) \notin DOMAIN store[l]
    /\ load[l].attempt = 1
    /\ faults < MaxFaults
    /\ faults' = faults + 1
    /\ graph' \in {graph, Upsert(graph, Batch(l))}
    /\ load' = [load EXCEPT ![l].attempt = 2]
    /\ UNCHANGED <<store, loads>>

RunBatch(l) ==
    /\ InBatches(l)
    /\ CheckpointKey(l) \notin DOMAIN store[l]
    /\ graph' = Upsert(graph, Batch(l))
    /\ load' = [load EXCEPT ![l].phase = "put"]
    /\ UNCHANGED <<store, loads, faults>>

\* Mutant of PutCheckpoint: the index is the number of completed batches.
PutCheckpoint_ByCompleted(l) ==
    /\ load[l].phase = "put"
    /\ LET key == <<load[l].snapshot, Batch(l).name, load[l].completed + 1>>
       IN  store' = [store EXCEPT ![l] =
                       [k \in (DOMAIN @) \union {key} |-> IF k = key THEN Batch(l) ELSE @[k]]]
    /\ load' = [load EXCEPT ![l].completed = @ + 1, ![l].index = @ + 1, ![l].attempt = 1,
                            ![l].phase = "batch"]
    /\ UNCHANGED <<graph, loads, faults>>

PutCheckpoint(l) ==
    /\ load[l].phase = "put"
    /\ store' = [store EXCEPT ![l] =
                    [k \in (DOMAIN @) \union {CheckpointKey(l)} |->
                        IF k = CheckpointKey(l) THEN Batch(l) ELSE @[k]]]
    /\ load' = [load EXCEPT ![l].completed = @ + 1, ![l].index = @ + 1, ![l].attempt = 1,
                            ![l].phase = "batch"]
    /\ UNCHANGED <<graph, loads, faults>>

\* Mutant of FailBatch: a failed batch is counted as completed.
FailBatch_Completed(l) ==
    /\ InBatches(l)
    /\ CheckpointKey(l) \notin DOMAIN store[l]
    /\ faults < MaxFaults
    /\ faults' = faults + 1
    /\ graph' \in {graph, Upsert(graph, Batch(l))}
    /\ load' = [load EXCEPT ![l].failed = @ \union {load[l].index},
                            ![l].completed = @ + 1, ![l].index = @ + 1, ![l].attempt = 1]
    /\ UNCHANGED <<store, loads>>

\* Mutant of FailBatch: the failure is logged and not reported.
FailBatch_Swallowed(l) ==
    /\ InBatches(l)
    /\ CheckpointKey(l) \notin DOMAIN store[l]
    /\ faults < MaxFaults
    /\ faults' = faults + 1
    /\ graph' \in {graph, Upsert(graph, Batch(l))}
    /\ load' = [load EXCEPT ![l].completed = @ + 1, ![l].index = @ + 1, ![l].attempt = 1]
    /\ UNCHANGED <<store, loads>>

\* The driver raised for good; the database may have committed all the same.
FailBatch(l) ==
    /\ InBatches(l)
    /\ CheckpointKey(l) \notin DOMAIN store[l]
    /\ faults < MaxFaults
    /\ faults' = faults + 1
    /\ graph' \in {graph, Upsert(graph, Batch(l))}
    /\ load' = [load EXCEPT ![l].failed = @ \union {load[l].index},
                            ![l].index = @ + 1, ![l].attempt = 1]
    /\ UNCHANGED <<store, loads>>

-----------------------------------------------------------------------------
(* Counting.                                                               *)

OfType(edges, type) == {e \in edges : RelType[e] = type}

CountNodes(l) ==
    /\ load[l].phase = "batch"
    /\ load[l].index > Len(Pending(l))
    /\ load' = [load EXCEPT ![l].node_count = Cardinality(graph.nodes), ![l].phase = "edges"]
    /\ UNCHANGED <<graph, store, loads, faults>>

\* One query per relation type, each of them reading the graph as it is then.
CountEdges(l) ==
    /\ load[l].phase = "edges"
    /\ load[l].types < Len(RelTypes)
    /\ load' = [load EXCEPT
                  ![l].edge_count = @ + Cardinality(OfType(graph.edges, RelTypes[load[l].types + 1])),
                  ![l].types = @ + 1]
    /\ UNCHANGED <<graph, store, loads, faults>>

FailQuery(l) ==
    /\ \/ load[l].phase = "batch" /\ load[l].index > Len(Pending(l))
       \/ load[l].phase = "edges" /\ load[l].types < Len(RelTypes)
    /\ faults < MaxFaults
    /\ faults' = faults + 1
    /\ load' = [load EXCEPT ![l].phase = "raised", ![l].reason = "query"]
    /\ UNCHANGED <<graph, store, loads>>

\* Mutant of Verified: only the nodes are compared.
Verified_NodesOnly(l) ==
    load[l].node_count = Cardinality(Manifest[load[l].snapshot].nodes)

Verified(l) ==
    /\ load[l].node_count = Cardinality(Manifest[load[l].snapshot].nodes)
    /\ load[l].edge_count = Cardinality(Manifest[load[l].snapshot].edges)

\* The counts are compared only when no batch failed.
Finish(l) ==
    /\ load[l].phase = "edges"
    /\ load[l].types = Len(RelTypes)
    /\ load' = IF load[l].failed # {} \/ Verified(l)
               THEN [load EXCEPT ![l].phase = "reported"]
               ELSE [load EXCEPT ![l].phase = "raised", ![l].reason = "count"]
    /\ UNCHANGED <<graph, store, loads, faults>>

-----------------------------------------------------------------------------

\* The process dies: what it has sent to the database stays there.
Crash ==
    /\ faults < MaxFaults
    /\ faults' = faults + 1
    /\ load' = [l \in Loaders |-> NoLoad]
    /\ store' = IF DurableStore THEN store ELSE [l \in Loaders |-> << >>]
    /\ UNCHANGED <<graph, loads>>

\* Every load has ended and no other is asked for.
Quiet ==
    /\ loads = MaxLoads
    /\ \A l \in Loaders : load[l].phase \in {"idle", "reported", "raised"}
    /\ UNCHANGED vars

Init ==
    /\ graph = NoRows
    /\ store = [l \in Loaders |-> << >>]
    /\ load = [l \in Loaders |-> NoLoad]
    /\ loads = 0
    /\ faults = 0

Step(l) ==
    \/ \E s \in Staged, z \in BatchSizes : Start(l, s, z)
    \/ SkipBatch(l)
    \/ RejectCheckpoint(l)
    \/ Retry(l)
    \/ RunBatch(l)
    \/ PutCheckpoint(l)
    \/ FailBatch(l)
    \/ CountNodes(l)
    \/ CountEdges(l)
    \/ FailQuery(l)
    \/ Finish(l)

Next == (\E l \in Loaders : Step(l)) \/ Crash \/ Quiet

Spec == Init /\ [][Next]_vars

-----------------------------------------------------------------------------

\* Every variable has its type, and a checkpoint is one of a batch that its
\* snapshot is cut into.
TypeOK ==
    /\ graph \in Rows
    /\ load \in [Loaders -> Load]
    /\ \A l \in Loaders : load[l].phase = "put" => load[l].index \in 1..Len(Pending(l))
    /\ DOMAIN store = Loaders
    /\ \A l \in Loaders : \A k \in DOMAIN store[l] :
          \E s \in Staged, z \in BatchSizes : \E i \in DOMAIN Batches[s][z] :
              k = <<s, Batches[s][z][i].name, i>> /\ store[l][k] = Batches[s][z][i]
    /\ loads \in 0..MaxLoads
    /\ faults \in 0..MaxFaults

Complete(l) == load[l].phase = "reported" /\ load[l].failed = {}

\* A report without failed batches means that the database holds every row of
\* the snapshot, and it keeps holding them whatever other loaders do (seed_bundle
\* answers "complete" on the strength of row counts read one query at a time).
CompleteMeansLoaded ==
    \A l \in Loaders : Complete(l) =>
        /\ Manifest[load[l].snapshot].nodes \subseteq graph.nodes
        /\ Manifest[load[l].snapshot].edges \subseteq graph.edges

\* When a load in which nothing failed starts to count, all of its nodes are in
\* the database, also those of the batches it skipped: a checkpoint written by
\* an earlier load, with another batch size, or before a crash, never hides a
\* node row (the row hash in CheckpointStore).
NodesBeforeCounting ==
    \A l \in Loaders : load[l].phase = "edges" /\ load[l].failed = {} =>
        Manifest[load[l].snapshot].nodes \subseteq graph.nodes

\* A report accounts for each attempted batch exactly once (LoadReport rejects
\* counts that do not add up; the loader's loop has four ways through it).
BatchesAccounted ==
    \A l \in Loaders : load[l].phase = "reported" =>
        /\ load[l].completed + Cardinality(load[l].failed) = Len(Pending(l))
        /\ load[l].resumed <= load[l].completed
=============================================================================

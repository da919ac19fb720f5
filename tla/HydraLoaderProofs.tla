------------------------- MODULE HydraLoaderProofs -------------------------
(***************************************************************************)
(* Proofs about HydraLoader, for any snapshots, batch sizes and loaders.   *)
(***************************************************************************)
EXTENDS HydraLoader, FiniteSetTheorems, TLAPS

-----------------------------------------------------------------------------
(* Facts about batches and the graph.                                      *)

LEMMA BatchType ==
    ASSUME NEW s \in Staged, NEW z \in BatchSizes
    PROVE  /\ Len(Batches[s][z]) \in Nat
           /\ DOMAIN Batches[s][z] = 1..Len(Batches[s][z])
           /\ \A i \in 1..Len(Batches[s][z]) :
                 /\ Batches[s][z][i].nodes \subseteq Manifest[s].nodes
                 /\ Batches[s][z][i].edges \subseteq Manifest[s].edges
           /\ Manifest[s].nodes \subseteq Nodes /\ Manifest[s].edges \subseteq Edges
           /\ \A n \in Manifest[s].nodes : \E i \in 1..Len(Batches[s][z]) : n \in Batches[s][z][i].nodes
           /\ \A e \in Manifest[s].edges : \E i \in 1..Len(Batches[s][z]) : e \in Batches[s][z][i].edges
<1> DEFINE batches == Batches[s][z]
           names == {batches[i].name : i \in DOMAIN batches}
<1>1. batches \in Seq(BatchIn(names))
  BY BatchesAssumption
<1>2. Len(batches) \in Nat /\ DOMAIN batches = 1..Len(batches)
  BY <1>1
<1>3. \A i \in DOMAIN batches : /\ batches[i].nodes \subseteq Manifest[s].nodes
                                /\ batches[i].edges \subseteq Manifest[s].edges
  <2>1. /\ Manifest[s].nodes = UNION {batches[i].nodes : i \in DOMAIN batches}
        /\ Manifest[s].edges = UNION {batches[i].edges : i \in DOMAIN batches}
    BY BatchesAssumption
  <2> HIDE DEF batches
  <2> QED BY <2>1
<1>4. Manifest[s].nodes \subseteq Nodes /\ Manifest[s].edges \subseteq Edges
  BY RowsAssumption DEF Rows
<1>5. /\ \A n \in Manifest[s].nodes : \E i \in DOMAIN batches : n \in batches[i].nodes
      /\ \A e \in Manifest[s].edges : \E i \in DOMAIN batches : e \in batches[i].edges
  <2>1. /\ Manifest[s].nodes = UNION {batches[i].nodes : i \in DOMAIN batches}
        /\ Manifest[s].edges = UNION {batches[i].edges : i \in DOMAIN batches}
    BY BatchesAssumption
  <2> HIDE DEF batches
  <2> QED BY <2>1
<1> QED BY <1>2, <1>3, <1>4, <1>5

LEMMA UpsertGrows ==
    ASSUME NEW g \in Rows, NEW b, b.nodes \subseteq Nodes, b.edges \subseteq Edges
    PROVE  /\ Upsert(g, b) \in Rows
           /\ g.nodes \subseteq Upsert(g, b).nodes /\ g.edges \subseteq Upsert(g, b).edges
           /\ b.nodes \subseteq Upsert(g, b).nodes
           /\ Upsert(g, b).nodes \subseteq g.nodes \union b.nodes
           /\ Upsert(g, b).edges \subseteq g.edges \union b.edges
           /\ \A e \in b.edges : Ends[e] \subseteq g.nodes => e \in Upsert(g, b).edges
BY DEF Upsert, Rows

-----------------------------------------------------------------------------
(* Every variable keeps its type.                                          *)

LEMMA NewLoadType ==
    ASSUME NEW s \in Staged, NEW z \in BatchSizes, NEW phase \in {"idle", "batch"}
    PROVE  NewLoad(phase, s, z) \in Load
BY DEF NewLoad, Load, Phase, Reason

\* The batch a loader is working on.
LEMMA CurrentBatch ==
    ASSUME TypeOK, NEW l \in Loaders, load[l].index \in 1..Len(Pending(l))
    PROVE  /\ load[l].snapshot \in Staged /\ load[l].size \in BatchSizes
           /\ load[l].index \in DOMAIN Batches[load[l].snapshot][load[l].size]
           /\ Batch(l).nodes \subseteq Nodes /\ Batch(l).edges \subseteq Edges
           /\ Batch(l).nodes \subseteq Manifest[load[l].snapshot].nodes
           /\ Batch(l).edges \subseteq Manifest[load[l].snapshot].edges
<1>1. load[l].snapshot \in Staged /\ load[l].size \in BatchSizes
  BY DEF TypeOK, Load
<1> QED BY <1>1, BatchType DEF Pending, Batch

\* A step of one loader that keeps the graph's and the store's types.
LEMMA LoadTypeOK ==
    ASSUME TypeOK, NEW l \in Loaders, NEW c \in Load, load' = [load EXCEPT ![l] = c],
           c.phase # "put",
           graph' \in Rows, store' = store, loads' \in 0..MaxLoads, faults' \in 0..MaxFaults
    PROVE  TypeOK'
<1>1. load' \in [Loaders -> Load] /\ load'[l] = c /\ \A k \in Loaders \ {l} : load'[k] = load[k]
  BY DEF TypeOK
<1>2. \A k \in Loaders : load'[k].phase = "put" => load'[k].index \in 1..Len(Pending(k)')
  BY <1>1 DEF TypeOK, Pending
<1> QED BY <1>1, <1>2 DEF TypeOK

LEMMA StepTypeOK ==
    ASSUME TypeOK, NEW l \in Loaders, Step(l)
    PROVE  TypeOK'
<1>0. /\ load[l] \in Load /\ graph \in Rows /\ loads \in 0..MaxLoads /\ faults \in 0..MaxFaults
      /\ MaxLoads \in Nat /\ MaxFaults \in Nat /\ load \in [Loaders -> Load]
  BY RowsAssumption DEF TypeOK
<1>a. InBatches(l) => load[l].index \in 1..Len(Pending(l))
  <2>1. load[l].snapshot \in Staged /\ load[l].size \in BatchSizes /\ load[l].index \in Nat \ {0}
    BY <1>0 DEF Load
  <2> QED BY <2>1, BatchType DEF InBatches, Pending
<1>1. ASSUME NEW s \in Staged, NEW z \in BatchSizes, Start(l, s, z)
      PROVE  TypeOK'
  <2>1. /\ load' \in [Loaders -> Load]
        /\ \A k \in Loaders \ {l} : load'[k] = load[k]
        /\ load'[l].phase # "put"
    BY <1>0, <1>1, NewLoadType DEF Start, NewLoad
  <2>2. loads' \in 0..MaxLoads
    BY <1>0, <1>1 DEF Start
  <2>3. \A k \in Loaders : load'[k].phase = "put" => load'[k].index \in 1..Len(Pending(k)')
    <3>1. \A k \in Loaders \ {l} : load'[k] = load[k] /\ Pending(k)' = Pending(k)
      BY <2>1 DEF Pending
    <3> QED BY <2>1, <3>1 DEF TypeOK
  <2>4. DOMAIN store' = Loaders /\ \A k \in Loaders : store'[k] = store[k] \/ store'[k] = << >>
    BY <1>1 DEF Start, TypeOK
  <2>5. \A k \in Loaders : \A x \in DOMAIN store'[k] : x \in DOMAIN store[k] /\ store'[k] = store[k]
    BY <2>4
  <2> QED BY <1>0, <1>1, <2>1, <2>2, <2>3, <2>4, <2>5 DEF TypeOK, Start
<1>2. CASE SkipBatch(l)
  <2> DEFINE c == [load[l] EXCEPT !.resumed = @ + 1, !.completed = @ + 1, !.index = @ + 1]
  <2>1. c \in Load /\ c.phase # "put" /\ load' = [load EXCEPT ![l] = c]
    BY <1>0, <1>2 DEF SkipBatch, InBatches, Load
  <2> HIDE DEF c
  <2> QED BY <1>0, <1>2, <2>1, LoadTypeOK DEF SkipBatch
<1>3. CASE RejectCheckpoint(l)
  <2> DEFINE c == [load[l] EXCEPT !.phase = "raised", !.reason = "checkpoint"]
  <2>1. c \in Load /\ c.phase # "put" /\ load' = [load EXCEPT ![l] = c]
    BY <1>0, <1>3 DEF RejectCheckpoint, Load, Phase, Reason
  <2> HIDE DEF c
  <2> QED BY <1>0, <1>3, <2>1, LoadTypeOK DEF RejectCheckpoint
<1>4. CASE RunBatch(l)
  <2>1. load[l].index \in 1..Len(Pending(l))
    BY <1>4, <1>a DEF RunBatch
  <2>2. graph' \in Rows
    BY <1>0, <1>4, <2>1, CurrentBatch, UpsertGrows DEF RunBatch
  <2>3. load' = [load EXCEPT ![l] = [load[l] EXCEPT !.phase = "put"]]
    BY <1>0, <1>4 DEF RunBatch
  <2>4. load' \in [Loaders -> Load]
    BY <1>0, <2>3 DEF Load, Phase
  <2>5. \A k \in Loaders : load'[k].phase = "put" => load'[k].index \in 1..Len(Pending(k)')
    <3>1. Pending(l)' = Pending(l) /\ load'[l].index = load[l].index
      BY <1>0, <2>3 DEF Pending, Load
    <3>2. \A k \in Loaders \ {l} : load'[k] = load[k]
      BY <1>0, <2>3
    <3>3. \A k \in Loaders \ {l} : Pending(k)' = Pending(k)
      BY <3>2 DEF Pending
    <3>4. \A k \in Loaders : load[k].phase = "put" => load[k].index \in 1..Len(Pending(k))
      BY DEF TypeOK
    <3> QED BY <2>1, <3>1, <3>2, <3>3, <3>4
  <2> QED BY <1>0, <1>4, <2>2, <2>4, <2>5 DEF TypeOK, RunBatch
<1>5. CASE PutCheckpoint(l)
  <2> DEFINE c == [load[l] EXCEPT !.completed = @ + 1, !.index = @ + 1, !.attempt = 1,
                                  !.phase = "batch"]
             key == CheckpointKey(l)
  <2>1. load[l].index \in 1..Len(Pending(l))
    BY <1>5 DEF PutCheckpoint, TypeOK
  <2>2. c \in Load /\ c.phase = "batch" /\ load' = [load EXCEPT ![l] = c]
    BY <1>0, <1>5 DEF PutCheckpoint, Load, Phase
  <2>3. load' \in [Loaders -> Load] /\ load'[l].phase = "batch" /\ \A k \in Loaders \ {l} : load'[k] = load[k]
    <3> HIDE DEF c
    <3> QED BY <1>0, <2>2
  <2>4. \A k \in Loaders : load'[k].phase = "put" => load'[k].index \in 1..Len(Pending(k)')
    BY <2>3 DEF TypeOK, Pending
  <2>5. /\ DOMAIN store' = Loaders
        /\ \A k \in Loaders \ {l} : store'[k] = store[k]
        /\ DOMAIN store'[l] = DOMAIN store[l] \union {key}
        /\ \A x \in DOMAIN store[l] \ {key} : store'[l][x] = store[l][x]
        /\ store'[l][key] = Batch(l)
    BY <1>5 DEF PutCheckpoint, TypeOK
  <2>6. \E s \in Staged, z \in BatchSizes : \E i \in DOMAIN Batches[s][z] :
           key = <<s, Batches[s][z][i].name, i>> /\ Batch(l) = Batches[s][z][i]
    BY <2>1, CurrentBatch DEF CheckpointKey, Batch, Pending
  <2> HIDE DEF key
  <2>7. \A k \in Loaders : \A x \in DOMAIN store'[k] :
           \E s \in Staged, z \in BatchSizes : \E i \in DOMAIN Batches[s][z] :
              x = <<s, Batches[s][z][i].name, i>> /\ store'[k][x] = Batches[s][z][i]
    <3> SUFFICES ASSUME NEW k \in Loaders, NEW x \in DOMAIN store'[k]
                 PROVE  \E s \in Staged, z \in BatchSizes : \E i \in DOMAIN Batches[s][z] :
                           x = <<s, Batches[s][z][i].name, i>> /\ store'[k][x] = Batches[s][z][i]
      OBVIOUS
    <3>1. CASE k = l /\ x = key
      BY <2>5, <2>6, <3>1
    <3>2. CASE ~(k = l /\ x = key)
      <4>1. x \in DOMAIN store[k] /\ store'[k][x] = store[k][x]
        BY <2>5, <3>2
      <4> QED BY <4>1 DEF TypeOK
    <3> QED BY <3>1, <3>2
  <2> QED BY <1>0, <1>5, <2>3, <2>4, <2>5, <2>7 DEF TypeOK, PutCheckpoint
<1>6. CASE FailBatch(l)
  <2> DEFINE c == [load[l] EXCEPT !.failed = @ \union {load[l].index}, !.index = @ + 1,
                                  !.attempt = 1]
  <2>1. load[l].index \in 1..Len(Pending(l))
    BY <1>6, <1>a DEF FailBatch
  <2>2. graph' \in Rows
    BY <1>0, <1>6, <2>1, CurrentBatch, UpsertGrows DEF FailBatch
  <2>3. c \in Load /\ c.phase # "put" /\ load' = [load EXCEPT ![l] = c]
    <3>1. load[l].failed \union {load[l].index} \in SUBSET Nat /\ load[l].index + 1 \in Nat \ {0}
      BY <1>0 DEF Load
    <3> QED BY <1>0, <1>6, <3>1 DEF FailBatch, InBatches, Load
  <2>4. faults' \in 0..MaxFaults
    BY <1>0, <1>6 DEF FailBatch
  <2> HIDE DEF c
  <2> QED BY <1>0, <1>6, <2>2, <2>3, <2>4, LoadTypeOK DEF FailBatch
<1>7. CASE CountNodes(l)
  <2> DEFINE c == [load[l] EXCEPT !.node_count = Cardinality(graph.nodes), !.phase = "edges"]
  <2>1. Cardinality(graph.nodes) \in Nat
    BY <1>0, RowsAssumption, FS_Subset, FS_CardinalityType DEF Rows
  <2>2. c \in Load /\ c.phase # "put" /\ load' = [load EXCEPT ![l] = c]
    BY <1>0, <1>7, <2>1 DEF CountNodes, Load, Phase
  <2> HIDE DEF c
  <2> QED BY <1>0, <1>7, <2>2, LoadTypeOK DEF CountNodes
<1>8. CASE CountEdges(l)
  <2> DEFINE n == Cardinality(OfType(graph.edges, RelTypes[load[l].types + 1]))
             c == [load[l] EXCEPT !.edge_count = @ + n, !.types = @ + 1]
  <2>1. n \in Nat
    BY <1>0, RowsAssumption, FS_Subset, FS_CardinalityType DEF Rows, OfType
  <2>2. c.phase = load[l].phase /\ load' = [load EXCEPT ![l] = c]
    BY <1>0, <1>8 DEF CountEdges, Load
  <2>3. c \in Load
    <3> HIDE DEF n
    <3>1. load[l].edge_count + n \in Nat /\ load[l].types + 1 \in Nat
      BY <1>0, <2>1 DEF Load
    <3> QED BY <1>0, <3>1 DEF Load
  <2> HIDE DEF c
  <2> QED BY <1>0, <1>8, <2>2, <2>3, LoadTypeOK DEF CountEdges
<1>9. CASE FailQuery(l)
  <2> DEFINE c == [load[l] EXCEPT !.phase = "raised", !.reason = "query"]
  <2>1. c \in Load /\ c.phase # "put" /\ load' = [load EXCEPT ![l] = c]
    BY <1>0, <1>9 DEF FailQuery, Load, Phase, Reason
  <2>2. faults' \in 0..MaxFaults
    BY <1>0, <1>9 DEF FailQuery
  <2> HIDE DEF c
  <2> QED BY <1>0, <1>9, <2>1, <2>2, LoadTypeOK DEF FailQuery
<1>10. CASE Finish(l)
  <2>1. PICK c : c \in Load /\ c.phase # "put" /\ load' = [load EXCEPT ![l] = c]
    <3>1. CASE load[l].failed # {} \/ Verified(l)
      <4> DEFINE c == [load[l] EXCEPT !.phase = "reported"]
      <4>1. c \in Load /\ c.phase # "put"
        BY <1>0 DEF Load, Phase
      <4>2. load' = [load EXCEPT ![l] = c]
        BY <1>0, <1>10, <3>1 DEF Finish
      <4> QED BY <4>1, <4>2
    <3>2. CASE ~(load[l].failed # {} \/ Verified(l))
      <4> DEFINE c == [load[l] EXCEPT !.phase = "raised", !.reason = "count"]
      <4>1. c \in Load /\ c.phase # "put"
        BY <1>0 DEF Load, Phase, Reason
      <4>2. load' = [load EXCEPT ![l] = c]
        BY <1>0, <1>10, <3>2 DEF Finish
      <4> QED BY <4>1, <4>2
    <3> QED BY <3>1, <3>2
  <2> QED BY <1>0, <1>10, <2>1, LoadTypeOK DEF Finish
<1>11. CASE Retry(l)
  <2> DEFINE c == [load[l] EXCEPT !.attempt = 2]
  <2>1. load[l].index \in 1..Len(Pending(l))
    BY <1>11, <1>a DEF Retry
  <2>2. graph' \in Rows
    BY <1>0, <1>11, <2>1, CurrentBatch, UpsertGrows DEF Retry
  <2>3. c \in Load /\ c.phase # "put" /\ load' = [load EXCEPT ![l] = c]
    BY <1>0, <1>11 DEF Retry, InBatches, Load
  <2>4. faults' \in 0..MaxFaults
    BY <1>0, <1>11 DEF Retry
  <2> HIDE DEF c
  <2> QED BY <1>0, <1>11, <2>2, <2>3, <2>4, LoadTypeOK DEF Retry
<1> QED BY <1>1, <1>2, <1>3, <1>4, <1>5, <1>6, <1>7, <1>8, <1>9, <1>10, <1>11 DEF Step

LEMMA InitTypeOK ==
    Init => TypeOK
<1> SUFFICES ASSUME Init PROVE TypeOK
  OBVIOUS
<1>1. NoLoad \in Load /\ NoLoad.phase = "idle"
  BY NewLoadType, RowsAssumption DEF NoLoad, NewLoad
<1> QED BY <1>1, RowsAssumption DEF Init, TypeOK, NoRows, Rows

LEMMA NextTypeOK ==
    TypeOK /\ [Next]_vars => TypeOK'
<1> SUFFICES ASSUME TypeOK, [Next]_vars PROVE TypeOK'
  OBVIOUS
<1>1. ASSUME NEW l \in Loaders, Step(l) PROVE TypeOK'
  BY <1>1, StepTypeOK
<1>2. CASE Crash
  <2>1. NoLoad \in Load /\ NoLoad.phase = "idle"
    BY NewLoadType, RowsAssumption DEF NoLoad, NewLoad
  <2>2. /\ load' \in [Loaders -> Load]
        /\ \A l \in Loaders : load'[l].phase = "idle"
    BY <1>2, <2>1 DEF Crash
  <2>3. /\ DOMAIN store' = Loaders
        /\ \A l \in Loaders : \A k \in DOMAIN store'[l] :
              k \in DOMAIN store[l] /\ store'[l] = store[l]
    BY <1>2 DEF Crash, TypeOK
  <2>4. faults' \in 0..MaxFaults
    BY <1>2, RowsAssumption DEF Crash, TypeOK
  <2> QED BY <1>2, <2>2, <2>3, <2>4 DEF Crash, TypeOK
<1>3. CASE UNCHANGED vars
  BY <1>3 DEF vars, TypeOK, Pending
<1> QED BY <1>1, <1>2, <1>3 DEF Next, Quiet

\* The checkpoints, the graph and the loads have their types, and every
\* checkpoint names a batch its snapshot really is cut into, whatever batch
\* sizes the loader is given.
THEOREM TypeCorrect ==
    Spec => []TypeOK
BY InitTypeOK, NextTypeOK, PTL DEF Spec

-----------------------------------------------------------------------------
(* What a load has dealt with stays in the graph.                          *)

Running(l) == load[l].phase \in {"batch", "put", "edges", "reported"}

\* Batch j was skipped or written by this load.
Done(l, j) == j < load[l].index /\ j \notin load[l].failed

NodesLoaded(l) ==
    /\ Running(l) => \A j \in 1..Len(Pending(l)) :
                        Done(l, j) => Pending(l)[j].nodes \subseteq graph.nodes
    /\ load[l].phase = "put" => Batch(l).nodes \subseteq graph.nodes
    /\ load[l].phase \in {"edges", "reported"} => load[l].index > Len(Pending(l))

\* The inductive invariant: NodesBeforeCounting says nothing of the checkpoints,
\* on whose strength batches are skipped, nor of a load that is still writing.
NodesInv ==
    /\ \A l \in Loaders : \A k \in DOMAIN store[l] : store[l][k].nodes \subseteq graph.nodes
    /\ \A l \in Loaders : NodesLoaded(l)

\* A step of one loader only adds to the graph and leaves the others alone.
LEMMA StepGrows ==
    ASSUME TypeOK, NEW l \in Loaders, Step(l)
    PROVE  /\ graph.nodes \subseteq graph'.nodes
           /\ graph.edges \subseteq graph'.edges
           /\ \A k \in Loaders \ {l} : load'[k] = load[k] /\ store'[k] = store[k]
<1>1. graph' = graph \/ graph' = Upsert(graph, Batch(l))
  BY DEF Step, Start, SkipBatch, RejectCheckpoint, Retry, RunBatch, PutCheckpoint, FailBatch,
         CountNodes, CountEdges, FailQuery, Finish
<1>2. graph.nodes \subseteq graph'.nodes /\ graph.edges \subseteq graph'.edges
  BY <1>1 DEF Upsert
<1>3. \A k \in Loaders \ {l} : load'[k] = load[k]
  BY DEF Step, Start, SkipBatch, RejectCheckpoint, Retry, RunBatch, PutCheckpoint, FailBatch,
         CountNodes, CountEdges, FailQuery, Finish, TypeOK
<1>4. \A k \in Loaders \ {l} : store'[k] = store[k]
  BY DEF Step, Start, SkipBatch, RejectCheckpoint, Retry, RunBatch, PutCheckpoint, FailBatch,
         CountNodes, CountEdges, FailQuery, Finish, TypeOK
<1> QED BY <1>2, <1>3, <1>4

\* A loader's place in its batches.
LEMMA LoadPlace ==
    ASSUME TypeOK, NEW l \in Loaders
    PROVE  /\ load[l].snapshot \in Staged /\ load[l].size \in BatchSizes
           /\ load[l].index \in Nat \ {0} /\ load[l].failed \in SUBSET Nat
           /\ load[l].completed \in Nat /\ load[l].resumed \in Nat
           /\ Len(Pending(l)) \in Nat
           /\ load \in [Loaders -> Load] /\ load[l] \in Load
           /\ (InBatches(l) \/ load[l].phase = "put") => load[l].index \in 1..Len(Pending(l))
<1>1. load \in [Loaders -> Load] /\ load[l] \in Load
  BY DEF TypeOK
<1>2. /\ load[l].snapshot \in Staged /\ load[l].size \in BatchSizes
      /\ load[l].index \in Nat \ {0} /\ load[l].failed \in SUBSET Nat
      /\ load[l].completed \in Nat /\ load[l].resumed \in Nat
  BY <1>1 DEF Load
<1>3. Len(Pending(l)) \in Nat
  BY <1>2, BatchType DEF Pending
<1>4. InBatches(l) => load[l].index \in 1..Len(Pending(l))
  BY <1>2, <1>3 DEF InBatches
<1>5. load[l].phase = "put" => load[l].index \in 1..Len(Pending(l))
  BY DEF TypeOK
<1> QED BY <1>1, <1>2, <1>3, <1>4, <1>5

\* A step leaves a load where it was, moves it to the next batch, begins or ends
\* its counting, begins a new one or stops it.
LEMMA StepMoves ==
    ASSUME TypeOK, NEW l \in Loaders, Step(l)
    PROVE  \/ /\ load'[l].phase = "batch" /\ load'[l].index = 1
              /\ load'[l].failed = {} /\ load'[l].completed = 0 /\ load'[l].resumed = 0
              /\ store'[l] = IF KeepsLoader THEN store[l] ELSE << >>
           \/ load'[l].phase = "raised" /\ store' = store
           \/ /\ Pending(l)' = Pending(l) /\ load'[l].snapshot = load[l].snapshot
              /\ \/ SkipBatch(l) \/ Retry(l) \/ RunBatch(l) \/ PutCheckpoint(l) \/ FailBatch(l)
                 \/ /\ load[l].phase = "batch" /\ load[l].index > Len(Pending(l))
                    /\ load'[l].phase = "edges"
                    /\ store' = store /\ graph' = graph
                    /\ load'[l].index = load[l].index /\ load'[l].failed = load[l].failed
                    /\ load'[l].completed = load[l].completed
                    /\ load'[l].resumed = load[l].resumed
                 \/ /\ load[l].phase = "edges" /\ load'[l].phase \in {"edges", "reported"}
                    /\ store' = store /\ graph' = graph
                    /\ load'[l].index = load[l].index /\ load'[l].failed = load[l].failed
                    /\ load'[l].completed = load[l].completed
                    /\ load'[l].resumed = load[l].resumed
<1>0. load \in [Loaders -> Load] /\ load[l] \in Load /\ DOMAIN store = Loaders
  BY DEF TypeOK
<1>1. ASSUME NEW s \in Staged, NEW z \in BatchSizes, Start(l, s, z)
      PROVE  /\ load'[l].phase = "batch" /\ load'[l].index = 1
             /\ load'[l].failed = {} /\ load'[l].completed = 0 /\ load'[l].resumed = 0
             /\ store'[l] = IF KeepsLoader THEN store[l] ELSE << >>
  BY <1>0, <1>1 DEF Start, NewLoad
<1>2. CASE RejectCheckpoint(l) \/ FailQuery(l)
  <2>1. load'[l].phase = "raised" /\ store' = store
    BY <1>0, <1>2 DEF RejectCheckpoint, FailQuery, Load
  <2> QED BY <2>1
<1>3. CASE SkipBatch(l) \/ Retry(l) \/ RunBatch(l) \/ PutCheckpoint(l) \/ FailBatch(l)
  <2>1. load'[l].snapshot = load[l].snapshot /\ load'[l].size = load[l].size
    BY <1>0, <1>3 DEF SkipBatch, Retry, RunBatch, PutCheckpoint, FailBatch, Load
  <2> QED BY <1>3, <2>1 DEF Pending
<1>4. CASE CountNodes(l)
  BY <1>0, <1>4 DEF CountNodes, Load, Pending
<1>5. CASE CountEdges(l)
  BY <1>0, <1>5 DEF CountEdges, Load, Pending
<1>6. CASE Finish(l)
  <2>1. CASE load[l].failed # {} \/ Verified(l)
    BY <1>0, <1>6, <2>1 DEF Finish, Load, Pending
  <2>2. CASE ~(load[l].failed # {} \/ Verified(l))
    <3>1. load'[l].phase = "raised" /\ store' = store
      BY <1>0, <1>6, <2>2 DEF Finish, Load
    <3> QED BY <3>1
  <2> QED BY <2>1, <2>2
<1> QED BY <1>1, <1>2, <1>3, <1>4, <1>5, <1>6 DEF Step

LEMMA SkipEffect ==
    ASSUME TypeOK, NEW l \in Loaders, SkipBatch(l)
    PROVE  /\ InBatches(l) /\ Checkpointed(l) /\ load'[l].phase = "batch"
           /\ load'[l].index = load[l].index + 1 /\ load'[l].failed = load[l].failed
           /\ load'[l].completed = load[l].completed + 1
           /\ load'[l].resumed = load[l].resumed + 1
           /\ graph' = graph /\ store' = store
<1>1. load \in [Loaders -> Load] /\ load[l] \in Load
  BY DEF TypeOK
<1> QED BY <1>1 DEF SkipBatch, InBatches, Load

LEMMA RetryEffect ==
    ASSUME TypeOK, NEW l \in Loaders, Retry(l)
    PROVE  /\ InBatches(l) /\ load[l].phase = "batch" /\ load'[l].phase = "batch"
           /\ load'[l].index = load[l].index /\ load'[l].failed = load[l].failed
           /\ load'[l].completed = load[l].completed
           /\ load'[l].resumed = load[l].resumed
           /\ store' = store
<1>1. load \in [Loaders -> Load] /\ load[l] \in Load
  BY DEF TypeOK
<1> QED BY <1>1 DEF Retry, InBatches, Load

LEMMA RunEffect ==
    ASSUME TypeOK, NEW l \in Loaders, RunBatch(l)
    PROVE  /\ InBatches(l) /\ load'[l].phase = "put"
           /\ load'[l].index = load[l].index /\ load'[l].failed = load[l].failed
           /\ load'[l].completed = load[l].completed
           /\ load'[l].resumed = load[l].resumed
           /\ graph' = Upsert(graph, Batch(l)) /\ store' = store
<1>1. load \in [Loaders -> Load] /\ load[l] \in Load
  BY DEF TypeOK
<1> QED BY <1>1 DEF RunBatch, InBatches, Load

LEMMA PutEffect ==
    ASSUME TypeOK, NEW l \in Loaders, PutCheckpoint(l)
    PROVE  /\ load[l].phase = "put" /\ load'[l].phase = "batch"
           /\ load'[l].index = load[l].index + 1 /\ load'[l].failed = load[l].failed
           /\ load'[l].completed = load[l].completed + 1
           /\ load'[l].resumed = load[l].resumed
           /\ graph' = graph
           /\ DOMAIN store'[l] = DOMAIN store[l] \union {CheckpointKey(l)}
           /\ \A k \in DOMAIN store'[l] :
                 store'[l][k] = IF k = CheckpointKey(l) THEN Batch(l) ELSE store[l][k]
<1>1. load \in [Loaders -> Load] /\ load[l] \in Load /\ DOMAIN store = Loaders
  BY DEF TypeOK
<1>2. /\ load[l].phase = "put" /\ load'[l].phase = "batch"
      /\ load'[l].index = load[l].index + 1 /\ load'[l].failed = load[l].failed
      /\ load'[l].completed = load[l].completed + 1
      /\ load'[l].resumed = load[l].resumed
      /\ graph' = graph
  BY <1>1 DEF PutCheckpoint, Load
<1>3. store'[l] = [k \in DOMAIN store[l] \union {CheckpointKey(l)} |->
                     IF k = CheckpointKey(l) THEN Batch(l) ELSE store[l][k]]
  BY <1>1 DEF PutCheckpoint
<1> QED BY <1>2, <1>3

LEMMA FailEffect ==
    ASSUME TypeOK, NEW l \in Loaders, FailBatch(l)
    PROVE  /\ InBatches(l) /\ load'[l].phase = "batch"
           /\ load'[l].index = load[l].index + 1
           /\ load'[l].failed = load[l].failed \union {load[l].index}
           /\ load'[l].completed = load[l].completed
           /\ load'[l].resumed = load[l].resumed
           /\ store' = store
<1>1. load \in [Loaders -> Load] /\ load[l] \in Load
  BY DEF TypeOK
<1> QED BY <1>1 DEF FailBatch, InBatches, Load

LEMMA StepNodes ==
    ASSUME TypeOK, NodesInv, NEW l \in Loaders, Step(l)
    PROVE  NodesInv'
<1> DEFINE Stored(k) == \A x \in DOMAIN store'[k] : store'[k][x].nodes \subseteq graph'.nodes
<1>0. /\ load[l].index \in Nat \ {0} /\ Len(Pending(l)) \in Nat
      /\ (InBatches(l) \/ load[l].phase = "put") => load[l].index \in 1..Len(Pending(l))
  BY LoadPlace
<1>1. graph.nodes \subseteq graph'.nodes
  BY StepGrows
<1>2. ASSUME NEW k \in Loaders \ {l}
      PROVE  NodesLoaded(k)' /\ Stored(k)
  <2>1. load'[k] = load[k] /\ store'[k] = store[k]
    BY StepGrows
  <2>2. Pending(k)' = Pending(k) /\ Batch(k)' = Batch(k)
    BY <2>1 DEF Pending, Batch
  <2>3. Running(k)' = Running(k) /\ \A j : Done(k, j)' = Done(k, j)
    BY <2>1 DEF Running, Done
  <2> QED BY <1>1, <2>1, <2>2, <2>3 DEF NodesInv, NodesLoaded
<1>3. NodesLoaded(l)' /\ Stored(l)
  <2>1. CASE load'[l].phase = "batch" /\ load'[l].index = 1 /\ store'[l] = IF KeepsLoader THEN store[l] ELSE << >>
    <3>1. Stored(l)
      BY <1>1, <2>1 DEF NodesInv
    <3>2. NodesLoaded(l)'
      BY <2>1 DEF NodesLoaded, Done
    <3> QED BY <3>1, <3>2
  <2>2. CASE load'[l].phase = "raised" /\ store' = store
    BY <1>1, <2>2 DEF NodesInv, NodesLoaded, Running
  <2>3. CASE /\ Pending(l)' = Pending(l) /\ load'[l].index = load[l].index
             /\ load'[l].failed = load[l].failed /\ store' = store /\ graph' = graph
             /\ \/ load[l].phase = "batch" /\ load[l].index > Len(Pending(l)) /\ load'[l].phase = "edges"
                \/ load[l].phase = "edges" /\ load'[l].phase \in {"edges", "reported"}
    BY <2>3 DEF NodesInv, NodesLoaded, Running, Done
  <2>4. CASE SkipBatch(l) /\ Pending(l)' = Pending(l)
    <3>1. /\ InBatches(l) /\ Checkpointed(l) /\ load'[l].phase = "batch"
          /\ load'[l].index = load[l].index + 1 /\ load'[l].failed = load[l].failed
          /\ graph' = graph /\ store' = store
      BY <2>4, SkipEffect
    <3>2. Batch(l).nodes \subseteq graph.nodes
      BY <3>1 DEF Checkpointed, NodesInv
    <3>3. \A j \in 1..Len(Pending(l)) : Done(l, j)' => Done(l, j) \/ j = load[l].index
      BY <1>0, <3>1 DEF Done
    <3> QED BY <2>4, <3>1, <3>2, <3>3 DEF NodesInv, NodesLoaded, Running, InBatches, Batch
  <2>5. CASE RunBatch(l) /\ Pending(l)' = Pending(l)
    <3>1. /\ InBatches(l) /\ load'[l].phase = "put"
          /\ load'[l].index = load[l].index /\ load'[l].failed = load[l].failed
          /\ graph' = Upsert(graph, Batch(l)) /\ store' = store
      BY <2>5, RunEffect
    <3>2. Batch(l)' = Batch(l) /\ Batch(l).nodes \subseteq graph'.nodes
      BY <2>5, <3>1 DEF Upsert, Batch
    <3>3. \A j : Done(l, j)' = Done(l, j)
      BY <3>1 DEF Done
    <3> QED BY <1>1, <2>5, <3>1, <3>2, <3>3 DEF NodesInv, NodesLoaded, Running, InBatches
  <2>6. CASE PutCheckpoint(l) /\ Pending(l)' = Pending(l)
    <3>1. /\ load[l].phase = "put" /\ load'[l].phase = "batch"
          /\ load'[l].index = load[l].index + 1 /\ load'[l].failed = load[l].failed
          /\ graph' = graph
          /\ DOMAIN store'[l] = DOMAIN store[l] \union {CheckpointKey(l)}
          /\ \A k \in DOMAIN store'[l] :
                store'[l][k] = IF k = CheckpointKey(l) THEN Batch(l) ELSE store[l][k]
      BY <2>6, PutEffect
    <3>2. Batch(l).nodes \subseteq graph.nodes
      BY <3>1 DEF NodesInv, NodesLoaded
    <3>3. Stored(l)
      BY <3>1, <3>2 DEF NodesInv
    <3>4. \A j \in 1..Len(Pending(l)) : Done(l, j)' => Done(l, j) \/ j = load[l].index
      BY <1>0, <3>1 DEF Done
    <3>5. NodesLoaded(l)'
      BY <2>6, <3>1, <3>2, <3>4 DEF NodesInv, NodesLoaded, Running, Batch
    <3> QED BY <3>3, <3>5
  <2>7. CASE FailBatch(l) /\ Pending(l)' = Pending(l)
    <3>1. /\ InBatches(l) /\ load'[l].phase = "batch"
          /\ load'[l].index = load[l].index + 1
          /\ load'[l].failed = load[l].failed \union {load[l].index}
          /\ store' = store
      BY <2>7, FailEffect
    <3>2. \A j \in 1..Len(Pending(l)) : Done(l, j)' => Done(l, j)
      BY <1>0, <3>1 DEF Done
    <3> QED BY <1>1, <2>7, <3>1, <3>2 DEF NodesInv, NodesLoaded, Running, InBatches
  <2>8. CASE Retry(l) /\ Pending(l)' = Pending(l)
    <3>1. /\ load[l].phase = "batch" /\ load'[l].phase = "batch"
          /\ load'[l].index = load[l].index /\ load'[l].failed = load[l].failed
          /\ store' = store
      BY <2>8, RetryEffect
    <3>2. \A j : Done(l, j)' = Done(l, j)
      BY <3>1 DEF Done
    <3> QED BY <1>1, <2>8, <3>1, <3>2 DEF NodesInv, NodesLoaded, Running
  <2> QED BY <2>1, <2>2, <2>3, <2>4, <2>5, <2>6, <2>7, <2>8, StepMoves
<1>4. \A k \in Loaders : NodesLoaded(k)' /\ Stored(k)
  BY <1>2, <1>3
<1> QED BY <1>4 DEF NodesInv

\* A crash and a step that changes nothing.
LEMMA CrashForgets ==
    ASSUME TypeOK, Crash
    PROVE  /\ graph' = graph
           /\ \A l \in Loaders : load'[l].phase = "idle"
           /\ \A l \in Loaders : store'[l] = store[l] \/ store'[l] = << >>
<1>1. \A l \in Loaders : load'[l].phase = "idle"
  BY DEF Crash, NoLoad, NewLoad
<1>2. \A l \in Loaders : store'[l] = store[l] \/ store'[l] = << >>
  BY DEF Crash, TypeOK
<1> QED BY <1>1, <1>2 DEF Crash

LEMMA NextNodes ==
    TypeOK /\ NodesInv /\ [Next]_vars => NodesInv'
<1> SUFFICES ASSUME TypeOK, NodesInv, [Next]_vars PROVE NodesInv'
  OBVIOUS
<1>1. ASSUME NEW l \in Loaders, Step(l) PROVE NodesInv'
  BY <1>1, StepNodes
<1>2. CASE Crash
  <2>1. /\ graph' = graph
        /\ \A l \in Loaders : load'[l].phase = "idle"
        /\ \A l \in Loaders : store'[l] = store[l] \/ store'[l] = << >>
    BY <1>2, CrashForgets
  <2>2. \A l \in Loaders : \A k \in DOMAIN store'[l] : store'[l][k].nodes \subseteq graph'.nodes
    <3> SUFFICES ASSUME NEW l \in Loaders, NEW k \in DOMAIN store'[l]
                 PROVE  store'[l][k].nodes \subseteq graph'.nodes
      OBVIOUS
    <3>1. k \in DOMAIN store[l] /\ store'[l][k] = store[l][k]
      BY <2>1
    <3> QED BY <2>1, <3>1 DEF NodesInv
  <2>3. ASSUME NEW l \in Loaders PROVE NodesLoaded(l)'
    <3>1. load'[l].phase = "idle"
      BY <2>1
    <3> QED BY <3>1 DEF NodesLoaded, Running
  <2> QED BY <2>2, <2>3 DEF NodesInv
<1>3. CASE UNCHANGED vars
  <2>1. graph' = graph /\ store' = store /\ load' = load
    BY <1>3 DEF vars
  <2>2. \A l \in Loaders : NodesLoaded(l) => NodesLoaded(l)'
    BY <2>1 DEF NodesLoaded, Running, Done, Pending, Batch
  <2>3. \A l \in Loaders : \A k \in DOMAIN store'[l] : store'[l][k].nodes \subseteq graph'.nodes
    BY <2>1 DEF NodesInv
  <2>4. \A l \in Loaders : NodesLoaded(l)'
    BY <2>2 DEF NodesInv
  <2> QED BY <2>3, <2>4 DEF NodesInv
<1> QED BY <1>1, <1>2, <1>3 DEF Next, Quiet

LEMMA AllDone ==
    ASSUME TypeOK, NEW l \in Loaders, load[l].failed = {}, load[l].index > Len(Pending(l)),
           NodesLoaded(l), Running(l)
    PROVE  Manifest[load[l].snapshot].nodes \subseteq graph.nodes
<1>1. /\ load[l].snapshot \in Staged /\ load[l].size \in BatchSizes
      /\ load[l].index \in Nat \ {0} /\ Len(Pending(l)) \in Nat
  BY LoadPlace
<1>2. \A j \in 1..Len(Pending(l)) : Pending(l)[j].nodes \subseteq graph.nodes
  BY <1>1 DEF NodesLoaded, Done
<1> QED BY <1>1, <1>2, BatchType DEF Pending

\* A load in which nothing failed has all of its nodes in the database when it
\* starts to count, whatever batches it skipped on the strength of checkpoints:
\* for any snapshots, batch sizes, loaders and number of crashes.
THEOREM NodesAreLoaded ==
    Spec => []NodesBeforeCounting
<1>1. Init => NodesInv
  <2> SUFFICES ASSUME Init PROVE NodesInv
    OBVIOUS
  <2>1. \A l \in Loaders : load[l].phase = "idle" /\ DOMAIN store[l] = {}
    BY DEF Init, NoLoad, NewLoad
  <2> QED BY <2>1 DEF NodesInv, NodesLoaded, Running
<1>2. TypeOK /\ NodesInv => NodesBeforeCounting
  BY AllDone DEF NodesInv, NodesLoaded, NodesBeforeCounting, Running
<1> QED BY <1>1, <1>2, NextNodes, TypeCorrect, PTL DEF Spec

-----------------------------------------------------------------------------
(* Every attempted batch is accounted for.                                 *)

LEMMA FinitePart ==
    ASSUME NEW n \in Nat, NEW S \in SUBSET (1..n)
    PROVE  IsFiniteSet(S) /\ Cardinality(S) \in Nat
<1>1. IsFiniteSet(1..n)
  BY FS_Interval
<1> QED BY <1>1, FS_Subset, FS_CardinalityType

\* The part of AccountInv that is about batches.
Adds(index, completed, resumed, failed, len) ==
    /\ index <= len + 1
    /\ failed \subseteq 1..(index - 1)
    /\ completed + Cardinality(failed) = index - 1
    /\ resumed <= completed

\* BatchesAccounted for a load on its way: index counts what has been attempted.
AccountInv ==
    \A l \in Loaders : Running(l) =>
        /\ Adds(load[l].index, load[l].completed, load[l].resumed, load[l].failed, Len(Pending(l)))
        /\ load[l].phase \in {"edges", "reported"} => load[l].index = Len(Pending(l)) + 1

LEMMA AddsNext ==
    ASSUME NEW len \in Nat, NEW index \in 1..len, NEW completed \in Nat, NEW resumed \in Nat,
           NEW failed, Adds(index, completed, resumed, failed, len)
    PROVE  /\ Adds(index + 1, completed + 1, resumed + 1, failed, len)
           /\ Adds(index + 1, completed + 1, resumed, failed, len)
           /\ Adds(index + 1, completed, resumed, failed \union {index}, len)
<1>1. IsFiniteSet(failed) /\ Cardinality(failed) \in Nat
  <2>1. index - 1 \in Nat
    OBVIOUS
  <2> QED BY <2>1, FinitePart DEF Adds
<1>2. index \notin failed
  BY DEF Adds
<1>3. Cardinality(failed \union {index}) = Cardinality(failed) + 1
  BY <1>1, <1>2, FS_AddElement
<1> QED BY <1>1, <1>3 DEF Adds

LEMMA StepAccount ==
    ASSUME TypeOK, AccountInv, NEW l \in Loaders, Step(l)
    PROVE  AccountInv'
<1> DEFINE Accounted(k) ==
        Running(k) =>
            /\ Adds(load[k].index, load[k].completed, load[k].resumed, load[k].failed, Len(Pending(k)))
            /\ load[k].phase \in {"edges", "reported"} => load[k].index = Len(Pending(k)) + 1
<1>0. /\ load[l].index \in Nat \ {0} /\ Len(Pending(l)) \in Nat
      /\ load[l].completed \in Nat /\ load[l].resumed \in Nat /\ load[l].failed \in SUBSET Nat
      /\ (InBatches(l) \/ load[l].phase = "put") => load[l].index \in 1..Len(Pending(l))
  BY LoadPlace
<1>1. ASSUME NEW k \in Loaders \ {l}
      PROVE  Accounted(k)'
  <2>1. load'[k] = load[k]
    BY StepGrows
  <2>2. Pending(k)' = Pending(k) /\ Running(k)' = Running(k)
    BY <2>1 DEF Pending, Running
  <2> QED BY <2>1, <2>2 DEF AccountInv
<1>2. Accounted(l)'
  <2>1. CASE /\ load'[l].phase = "batch" /\ load'[l].index = 1
             /\ load'[l].failed = {} /\ load'[l].completed = 0 /\ load'[l].resumed = 0
    <3>1. Len(Pending(l))' \in Nat
      BY NextTypeOK, LoadPlace DEF Next
    <3> QED BY <2>1, <3>1, FS_EmptySet DEF Adds
  <2>2. CASE load'[l].phase = "raised"
    BY <2>2 DEF Running
  <2>3. CASE /\ Pending(l)' = Pending(l) /\ load'[l].index = load[l].index
             /\ load'[l].failed = load[l].failed
             /\ load'[l].completed = load[l].completed /\ load'[l].resumed = load[l].resumed
             /\ \/ load[l].phase = "batch" /\ load[l].index > Len(Pending(l)) /\ load'[l].phase = "edges"
                \/ load[l].phase = "edges" /\ load'[l].phase \in {"edges", "reported"}
    BY <1>0, <2>3 DEF AccountInv, Running, Adds
  <2>4. CASE SkipBatch(l) /\ Pending(l)' = Pending(l)
    <3>1. /\ load[l].phase = "batch" /\ load'[l].phase = "batch"
          /\ load'[l].index = load[l].index + 1 /\ load'[l].failed = load[l].failed
          /\ load'[l].completed = load[l].completed + 1 /\ load'[l].resumed = load[l].resumed + 1
          /\ load[l].index \in 1..Len(Pending(l))
      BY <1>0, <2>4, SkipEffect DEF InBatches
    <3>2. Adds(load[l].index, load[l].completed, load[l].resumed, load[l].failed, Len(Pending(l)))
      BY <3>1 DEF AccountInv, Running
    <3> QED BY <1>0, <2>4, <3>1, <3>2, AddsNext
  <2>5. CASE RunBatch(l) /\ Pending(l)' = Pending(l)
    <3>1. /\ load[l].phase = "batch" /\ load'[l].phase = "put"
          /\ load'[l].index = load[l].index /\ load'[l].failed = load[l].failed
          /\ load'[l].completed = load[l].completed /\ load'[l].resumed = load[l].resumed
          /\ load[l].index <= Len(Pending(l))
      BY <1>0, <2>5, RunEffect DEF InBatches
    <3> QED BY <1>0, <2>5, <3>1 DEF AccountInv, Running
  <2>6. CASE PutCheckpoint(l) /\ Pending(l)' = Pending(l)
    <3>1. /\ load[l].phase = "put" /\ load'[l].phase = "batch"
          /\ load'[l].index = load[l].index + 1 /\ load'[l].failed = load[l].failed
          /\ load'[l].completed = load[l].completed + 1 /\ load'[l].resumed = load[l].resumed
      BY <2>6, PutEffect
    <3>2. Adds(load[l].index, load[l].completed, load[l].resumed, load[l].failed, Len(Pending(l)))
      BY <3>1 DEF AccountInv, Running
    <3>3. Adds(load[l].index + 1, load[l].completed + 1, load[l].resumed, load[l].failed, Len(Pending(l)))
      BY <1>0, <3>1, <3>2, AddsNext
    <3> QED BY <2>6, <3>1, <3>3
  <2>7. CASE FailBatch(l) /\ Pending(l)' = Pending(l)
    <3>1. /\ InBatches(l) /\ load'[l].phase = "batch"
          /\ load'[l].index = load[l].index + 1
          /\ load'[l].failed = load[l].failed \union {load[l].index}
          /\ load'[l].completed = load[l].completed /\ load'[l].resumed = load[l].resumed
      BY <2>7, FailEffect
    <3> QED BY <1>0, <2>7, <3>1, AddsNext DEF AccountInv, Running, InBatches
  <2>8. CASE Retry(l) /\ Pending(l)' = Pending(l)
    BY <1>0, <2>8, RetryEffect DEF AccountInv, Running
  <2> QED BY <2>1, <2>2, <2>3, <2>4, <2>5, <2>6, <2>7, <2>8, StepMoves
<1> QED BY <1>1, <1>2 DEF AccountInv

LEMMA NextAccount ==
    TypeOK /\ AccountInv /\ [Next]_vars => AccountInv'
<1> SUFFICES ASSUME TypeOK, AccountInv, [Next]_vars PROVE AccountInv'
  OBVIOUS
<1>1. ASSUME NEW l \in Loaders, Step(l) PROVE AccountInv'
  BY <1>1, StepAccount
<1>2. CASE Crash
  <2>1. ASSUME NEW l \in Loaders PROVE ~Running(l)'
    <3>1. load'[l].phase = "idle"
      BY <1>2, CrashForgets
    <3> QED BY <3>1 DEF Running
  <2> QED BY <2>1 DEF AccountInv
<1>3. CASE UNCHANGED vars
  BY <1>3 DEF vars, AccountInv, Running, Pending
<1> QED BY <1>1, <1>2, <1>3 DEF Next, Quiet

\* A report accounts for each attempted batch exactly once, however batches
\* were skipped, written or failed: LoadReport's own check never rejects it.
THEOREM ReportsAddUp ==
    Spec => []BatchesAccounted
<1>1. Init => AccountInv
  BY DEF Init, NoLoad, NewLoad, AccountInv, Running
<1>2. TypeOK /\ AccountInv => BatchesAccounted
  <2> SUFFICES ASSUME TypeOK, AccountInv, NEW l \in Loaders, load[l].phase = "reported"
               PROVE  /\ load[l].completed + Cardinality(load[l].failed) = Len(Pending(l))
                      /\ load[l].resumed <= load[l].completed
    BY DEF BatchesAccounted
  <2>1. /\ Adds(load[l].index, load[l].completed, load[l].resumed, load[l].failed, Len(Pending(l)))
        /\ load[l].index = Len(Pending(l)) + 1
    BY DEF AccountInv, Running
  <2>2. Len(Pending(l)) \in Nat
    BY LoadPlace
  <2> QED BY <2>1, <2>2 DEF Adds
<1> QED BY <1>1, <1>2, NextAccount, TypeCorrect, PTL DEF Spec

-----------------------------------------------------------------------------
(* A loader used once, as seed_bundle uses it.                             *)

EdgesLoaded(l) ==
    /\ Running(l) /\ load[l].failed = {} =>
          \A j \in 1..Len(Pending(l)) :
              j < load[l].index => Pending(l)[j].edges \subseteq graph.edges
    /\ load[l].phase = "put" /\ load[l].failed = {} => Batch(l).edges \subseteq graph.edges
    /\ load[l].phase \in {"batch", "put"} =>
          \A k \in DOMAIN store[l] : k[3] < load[l].index

\* A load without failure has written its edges itself: no checkpoint is ahead of
\* it.  It needs NodesInv, because an edge whose ends are missing is left out.
EdgesInv == \A l \in Loaders : EdgesLoaded(l)

LEMMA EndsLoaded ==
    ASSUME TypeOK, NodesInv, NEW l \in Loaders, InBatches(l), load[l].failed = {},
           NEW e \in Batch(l).edges
    PROVE  Ends[e] \subseteq graph.nodes
<1> DEFINE s == load[l].snapshot
           batches == Batches[s][load[l].size]
<1>1. /\ s \in Staged /\ load[l].size \in BatchSizes
      /\ load[l].index \in Nat \ {0} /\ load[l].index \in 1..Len(Pending(l))
      /\ Len(Pending(l)) \in Nat
  BY LoadPlace
<1>2. Pending(l) = batches /\ Batch(l) = batches[load[l].index]
  BY DEF Pending, Batch
<1>3. DOMAIN batches = 1..Len(batches) /\ e \in Manifest[s].edges
  BY <1>1, <1>2, BatchType
<1>4. /\ Ends[e] \subseteq Manifest[s].nodes
      /\ \A i, j \in DOMAIN batches : batches[i].edges # {} /\ batches[j].nodes # {} => j < i
  BY <1>1, <1>3, BatchesAssumption
<1>5. ASSUME NEW n \in Ends[e]
      PROVE  n \in graph.nodes
  <2>1. PICK i \in 1..Len(batches) : n \in batches[i].nodes
    BY <1>1, <1>4, BatchType
  <2>2. i < load[l].index
    BY <1>1, <1>2, <1>3, <1>4, <2>1
  <2>3. NodesLoaded(l) /\ Running(l)
    BY DEF NodesInv, InBatches, Running
  <2> QED BY <1>2, <2>1, <2>2, <2>3 DEF NodesLoaded, Done
<1> QED BY <1>5

LEMMA KeyIndex ==
    ASSUME TypeOK, NEW l \in Loaders, NEW k \in DOMAIN store[l]
    PROVE  k[3] \in Nat
<1>1. PICK s \in Staged, z \in BatchSizes : \E i \in DOMAIN Batches[s][z] :
          k = <<s, Batches[s][z][i].name, i>>
  BY DEF TypeOK
<1>2. PICK i \in 1..Len(Batches[s][z]) : k = <<s, Batches[s][z][i].name, i>>
  BY <1>1, BatchType
<1> QED BY <1>2, BatchType

LEMMA StepEdges ==
    ASSUME ~KeepsLoader, TypeOK, NodesInv, EdgesInv, NEW l \in Loaders, Step(l)
    PROVE  EdgesInv'
<1>0. /\ load[l].index \in Nat \ {0} /\ Len(Pending(l)) \in Nat
      /\ (InBatches(l) \/ load[l].phase = "put") => load[l].index \in 1..Len(Pending(l))
  BY LoadPlace
<1>1. graph.edges \subseteq graph'.edges
  BY StepGrows
<1>2. ASSUME NEW k \in Loaders \ {l}
      PROVE  EdgesLoaded(k)'
  <2>1. load'[k] = load[k] /\ store'[k] = store[k]
    BY StepGrows
  <2>2. Pending(k)' = Pending(k) /\ Batch(k)' = Batch(k) /\ Running(k)' = Running(k)
    BY <2>1 DEF Pending, Batch, Running
  <2> QED BY <1>1, <2>1, <2>2 DEF EdgesInv, EdgesLoaded
<1>3. EdgesLoaded(l)'
  <2>1. CASE load'[l].phase = "batch" /\ load'[l].index = 1 /\ store'[l] = << >>
    BY <2>1 DEF EdgesLoaded
  <2>2. CASE load'[l].phase = "raised"
    BY <2>2 DEF EdgesLoaded, Running
  <2>3. CASE /\ Pending(l)' = Pending(l) /\ load'[l].index = load[l].index
             /\ load'[l].failed = load[l].failed /\ graph' = graph
             /\ load[l].phase \in {"batch", "edges"} /\ load'[l].phase \in {"edges", "reported"}
    BY <2>3 DEF EdgesInv, EdgesLoaded, Running
  <2>4. CASE SkipBatch(l)
    <3>1. InBatches(l) /\ Checkpointed(l)
      BY <2>4, SkipEffect
    <3>2. CheckpointKey(l) \in DOMAIN store[l] /\ CheckpointKey(l)[3] = load[l].index
      BY <3>1 DEF Checkpointed, CheckpointKey
    <3>3. CheckpointKey(l)[3] < load[l].index
      BY <3>1, <3>2 DEF EdgesInv, EdgesLoaded, InBatches
    <3> QED BY <1>0, <3>2, <3>3
  <2>5. CASE RunBatch(l) /\ Pending(l)' = Pending(l)
    <3>1. /\ InBatches(l) /\ load[l].phase = "batch" /\ load'[l].phase = "put"
          /\ load'[l].index = load[l].index /\ load'[l].failed = load[l].failed
          /\ graph' = Upsert(graph, Batch(l)) /\ store' = store
      BY <2>5, RunEffect DEF InBatches
    <3>2. Batch(l)' = Batch(l)
      BY <2>5, <3>1 DEF Batch
    <3>3. load[l].failed = {} => Batch(l).edges \subseteq graph'.edges
      BY <3>1, EndsLoaded DEF Upsert
    <3> QED BY <1>1, <2>5, <3>1, <3>2, <3>3 DEF EdgesInv, EdgesLoaded, Running
  <2>6. CASE PutCheckpoint(l) /\ Pending(l)' = Pending(l)
    <3>1. /\ load[l].phase = "put" /\ load'[l].phase = "batch"
          /\ load'[l].index = load[l].index + 1 /\ load'[l].failed = load[l].failed
          /\ graph' = graph
          /\ DOMAIN store'[l] = DOMAIN store[l] \union {CheckpointKey(l)}
      BY <2>6, PutEffect
    <3>2. CheckpointKey(l)[3] = load[l].index
      BY DEF CheckpointKey
    <3>3. /\ load[l].failed = {} =>
                \A j \in 1..Len(Pending(l)) :
                    j <= load[l].index => Pending(l)[j].edges \subseteq graph.edges
      BY <1>0, <3>1 DEF EdgesInv, EdgesLoaded, Running, Batch
    <3>4. \A k \in DOMAIN store'[l] : k[3] < load[l].index + 1
      <4>1. \A k \in DOMAIN store[l] : k[3] < load[l].index /\ k[3] \in Nat
        <5> SUFFICES ASSUME NEW k \in DOMAIN store[l]
                     PROVE  k[3] < load[l].index /\ k[3] \in Nat
          OBVIOUS
        <5> QED BY <3>1, KeyIndex DEF EdgesInv, EdgesLoaded
      <4> QED BY <1>0, <3>1, <3>2, <4>1
    <3> QED BY <1>0, <2>6, <3>1, <3>3, <3>4 DEF EdgesLoaded
  <2>7. CASE FailBatch(l) /\ Pending(l)' = Pending(l)
    <3>1. /\ InBatches(l) /\ load[l].phase = "batch" /\ load'[l].phase = "batch"
          /\ load'[l].index = load[l].index + 1
          /\ load'[l].failed # {} /\ store' = store
      BY <2>7, FailEffect DEF InBatches
    <3>2. \A k \in DOMAIN store[l] : k[3] < load[l].index + 1
      <4> SUFFICES ASSUME NEW k \in DOMAIN store[l]
                   PROVE  k[3] < load[l].index + 1
        OBVIOUS
      <4>1. k[3] \in Nat
        BY KeyIndex
      <4>2. k[3] < load[l].index
        BY <3>1 DEF EdgesInv, EdgesLoaded
      <4> QED BY <1>0, <4>1, <4>2
    <3> QED BY <3>1, <3>2 DEF EdgesLoaded
  <2>8. CASE Retry(l) /\ Pending(l)' = Pending(l)
    <3>1. /\ load[l].phase = "batch" /\ load'[l].phase = "batch"
          /\ load'[l].index = load[l].index /\ load'[l].failed = load[l].failed
          /\ store' = store
      BY <2>8, RetryEffect
    <3> QED BY <1>1, <2>8, <3>1 DEF EdgesInv, EdgesLoaded, Running
  <2> QED BY <2>1, <2>2, <2>3, <2>4, <2>5, <2>6, <2>7, <2>8, StepMoves
<1> QED BY <1>2, <1>3 DEF EdgesInv

LEMMA NextEdges ==
    ASSUME ~KeepsLoader
    PROVE  TypeOK /\ NodesInv /\ EdgesInv /\ [Next]_vars => EdgesInv'
<1> SUFFICES ASSUME TypeOK, NodesInv, EdgesInv, [Next]_vars PROVE EdgesInv'
  OBVIOUS
<1>1. ASSUME NEW l \in Loaders, Step(l) PROVE EdgesInv'
  BY <1>1, StepEdges
<1>2. CASE Crash
  <2>1. ASSUME NEW l \in Loaders PROVE EdgesLoaded(l)'
    <3>1. load'[l].phase = "idle"
      BY <1>2, CrashForgets
    <3> QED BY <3>1 DEF EdgesLoaded, Running
  <2> QED BY <2>1 DEF EdgesInv
<1>3. CASE UNCHANGED vars
  <2>1. graph' = graph /\ store' = store /\ load' = load
    BY <1>3 DEF vars
  <2>2. \A l \in Loaders : EdgesLoaded(l) => EdgesLoaded(l)'
    BY <2>1 DEF EdgesLoaded, Running, Pending, Batch
  <2> QED BY <2>2 DEF EdgesInv
<1> QED BY <1>1, <1>2, <1>3 DEF Next, Quiet

\* Used as seed_bundle uses it, a new loader for every load, a report without
\* failed batches means that the database holds the snapshot: for any number of
\* loaders, snapshots of the dataset, failed statements and crashes, although
\* the counts the report rests on prove nothing.  The hypothesis is needed: run
\* HydraLoader_stale refutes it for a loader that is kept.
THEOREM FreshLoadsAreLoaded ==
    ASSUME ~KeepsLoader
    PROVE  Spec => []CompleteMeansLoaded
<1>1. Init => NodesInv /\ EdgesInv
  <2> SUFFICES ASSUME Init PROVE NodesInv /\ EdgesInv
    OBVIOUS
  <2>1. \A l \in Loaders : load[l].phase = "idle" /\ DOMAIN store[l] = {}
    BY DEF Init, NoLoad, NewLoad
  <2> QED BY <2>1 DEF NodesInv, NodesLoaded, EdgesInv, EdgesLoaded, Running
<1>2. TypeOK /\ NodesInv /\ EdgesInv => CompleteMeansLoaded
  <2> SUFFICES ASSUME TypeOK, NodesInv, EdgesInv, NEW l \in Loaders, Complete(l)
               PROVE  /\ Manifest[load[l].snapshot].nodes \subseteq graph.nodes
                      /\ Manifest[load[l].snapshot].edges \subseteq graph.edges
    BY DEF CompleteMeansLoaded
  <2>1. /\ load[l].phase = "reported" /\ Running(l) /\ load[l].failed = {}
        /\ NodesLoaded(l) /\ EdgesLoaded(l)
    BY DEF Complete, Running, NodesInv, EdgesInv
  <2>2. load[l].index > Len(Pending(l))
    BY <2>1 DEF NodesLoaded
  <2>3. Manifest[load[l].snapshot].nodes \subseteq graph.nodes
    BY <2>1, <2>2, AllDone
  <2>4. /\ load[l].snapshot \in Staged /\ load[l].size \in BatchSizes
        /\ load[l].index \in Nat \ {0} /\ Len(Pending(l)) \in Nat
    BY LoadPlace
  <2>5. \A j \in 1..Len(Pending(l)) : Pending(l)[j].edges \subseteq graph.edges
    BY <2>1, <2>2, <2>4 DEF EdgesLoaded
  <2>6. Manifest[load[l].snapshot].edges \subseteq graph.edges
    BY <2>4, <2>5, BatchType DEF Pending
  <2> QED BY <2>3, <2>6
<1>3. TypeOK /\ NodesInv /\ EdgesInv /\ [Next]_vars => NodesInv' /\ EdgesInv'
  BY NextNodes, NextEdges
<1> QED BY <1>1, <1>2, <1>3, TypeCorrect, PTL DEF Spec
=============================================================================

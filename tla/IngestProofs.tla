---------------------------- MODULE IngestProofs ----------------------------
(***************************************************************************)
(* What an ingest keeps for every input, every order of the records and    *)
(* every function of digests, however its values collide: the id registry  *)
(* is one to one, the nodes and edges of the builder are a graph, replies  *)
(* are linked once, an export is refused for a reason, messages are        *)
(* counted once each, and owners are those who wrote the most.             *)
(*                                                                         *)
(* That no two nodes share an id rests on the registry: each node's id is  *)
(* the one its identity is registered under.  That nothing is refused      *)
(* without a reason rests on what the registered ids, the nodes and the    *)
(* edges are of: rows of the input, and digests of what those rows name.   *)
(* What is counted rests on edges that no merge has changed, and on sums   *)
(* over finite sets, by induction over their subsets.                      *)
(***************************************************************************)
EXTENDS Ingest, SequenceTheorems, FiniteSetTheorems, WellFoundedInduction, TLAPS

LEMMA RegisterKeeps ==
    ASSUME RegistryOneToOne, NEW i, NEW id, Registrable(i, id), register(i, id)
    PROVE  /\ RegistryOneToOne'
           /\ i \in DOMAIN byIdentity' /\ byIdentity'[i] = id
           /\ \A j \in DOMAIN byIdentity :
                 j \in DOMAIN byIdentity' /\ byIdentity'[j] = byIdentity[j]
<1>1. CASE i \in DOMAIN byIdentity
  BY <1>1 DEF Registrable, register, RegistryOneToOne
<1>2. CASE i \notin DOMAIN byIdentity
  <2>1. /\ DOMAIN byId' = DOMAIN byId \union {id}
        /\ \A x \in DOMAIN byId' : byId'[x] = IF x = id THEN i ELSE byId[x]
    BY <1>2 DEF register, Put
  <2>2. /\ DOMAIN byIdentity' = DOMAIN byIdentity \union {i}
        /\ \A x \in DOMAIN byIdentity' : byIdentity'[x] = IF x = i THEN id ELSE byIdentity[x]
    BY <1>2 DEF register, Put
  <2>3. id \notin DOMAIN byId
    BY <1>2 DEF Registrable, RegistryOneToOne
  <2> QED
    BY <1>2, <2>1, <2>2, <2>3 DEF RegistryOneToOne
<1> QED
  BY <1>1, <1>2

\* The stages that register nothing.
LEMMA RegistryUntouched ==
    ASSUME [Next]_vars, ~AddNode, ~AddEdge
    PROVE  UNCHANGED <<byId, byIdentity>>
BY DEF vars, Next, PrepareRecords, RefuseRecords, RefuseNode, AddObservedEdges, RefuseEdge,
       Derive, RefuseDerivation, DetectGaps, Compose, RefuseBundle, Refuse

\* An id stands for one identity and an identity has one id, for any inputs and
\* whatever the digests of stable_id are.
THEOREM RegistryFailsClosed == Spec => []RegistryOneToOne
<1>1. Init => RegistryOneToOne
  BY DEF Init, RegistryOneToOne
<1>2. RegistryOneToOne /\ [Next]_vars => RegistryOneToOne'
  <2> SUFFICES ASSUME RegistryOneToOne, [Next]_vars PROVE RegistryOneToOne'
    OBVIOUS
  <2>1. CASE AddNode
    BY <2>1, RegisterKeeps DEF AddNode, CanAddNode
  <2>2. CASE AddEdge
    BY <2>2, RegisterKeeps DEF AddEdge, CanAddEdge
  <2>3. CASE ~AddNode /\ ~AddEdge
    BY <2>3, RegistryUntouched DEF RegistryOneToOne
  <2> QED
    BY <2>1, <2>2, <2>3
<1> QED
  BY <1>1, <1>2, PTL DEF Spec

-----------------------------------------------------------------------------
(* The graph.                                                              *)

NodeFields == {"id", "label", "epoch", "props", "evidence"}

EdgeFields == {"rel", "source", "target", "disc", "epoch", "evidence"}

\* Every node is registered under its label and key.
NodesRegistered ==
    \A k \in DOMAIN nodes :
        /\ DOMAIN nodes[k] = NodeFields
        /\ <<nodes[k].label, k>> \in DOMAIN byIdentity
        /\ byIdentity[<<nodes[k].label, k>>] = nodes[k].id

EdgesClosed ==
    \A k \in DOMAIN edges :
        /\ DOMAIN edges[k] = EdgeFields
        /\ {edges[k].source, edges[k].target} \subseteq DOMAIN nodes

EdgesQueued == pc = "edges" => \A e \in queue : DOMAIN e = EdgeFields

GInv == RegistryOneToOne /\ NodesRegistered /\ EdgesClosed /\ EdgesQueued

LEMMA FirstQueued == queue # {} => First \in queue
BY DEF First

\* A row of a node that is there already changes its evidence alone.
LEMMA AddNodeStep ==
    ASSUME GInv, AddNode
    PROVE  GInv'
<1> DEFINE r == First
           k == r.subject
           n == Node(r)
           i == <<NodeLabel(r), k>>
           m == Merged(nodes, k, n)
<1>1. /\ CanAddNode(r)
      /\ register(i, n.id)
      /\ nodes' = Put(nodes, k, m)
      /\ pc' = pc /\ edges' = edges /\ pc = "nodes"
  BY DEF AddNode
<1>2. DOMAIN n = NodeFields /\ n.label = NodeLabel(r) /\ n.id = stable_id(i)
  BY DEF Node, NodeFields
<1> HIDE DEF n
<1>3. Registrable(i, n.id) /\ (k \in DOMAIN nodes => SameBut(nodes[k], n))
  BY <1>1 DEF CanAddNode, n
<1>4. /\ RegistryOneToOne'
      /\ i \in DOMAIN byIdentity' /\ byIdentity'[i] = n.id
      /\ \A j \in DOMAIN byIdentity : j \in DOMAIN byIdentity' /\ byIdentity'[j] = byIdentity[j]
  BY <1>1, <1>3, RegisterKeeps DEF GInv
<1>5. DOMAIN m = NodeFields /\ m.label = n.label /\ m.id = n.id
  <2>1. CASE k \notin DOMAIN nodes
    BY <1>2, <2>1 DEF Merged
  <2>2. CASE k \in DOMAIN nodes
    <3> DEFINE a == nodes[k]
    <3>1. DOMAIN a = NodeFields /\ SameBut(a, n)
      BY <1>3, <2>2 DEF GInv, NodesRegistered
    <3>2. m = [a EXCEPT !.evidence = a.evidence \union n.evidence]
      BY <2>2 DEF Merged
    <3> HIDE DEF a
    <3>3. /\ [a EXCEPT !.evidence = {}].id = a.id /\ [a EXCEPT !.evidence = {}].label = a.label
          /\ [n EXCEPT !.evidence = {}].id = n.id /\ [n EXCEPT !.evidence = {}].label = n.label
      BY <1>2, <3>1 DEF NodeFields
    <3>4. a.id = n.id /\ a.label = n.label
      BY <3>1, <3>3 DEF SameBut
    <3>5. DOMAIN m = NodeFields /\ m.id = a.id /\ m.label = a.label
      BY <3>1, <3>2 DEF NodeFields
    <3> QED
      BY <3>4, <3>5
  <2> QED
    BY <2>1, <2>2
<1> HIDE DEF m, k
<1>6. /\ DOMAIN nodes' = DOMAIN nodes \union {k}
      /\ nodes'[k] = m
      /\ \A x \in DOMAIN nodes : x # k => nodes'[x] = nodes[x]
  BY <1>1 DEF Put
<1>7. NodesRegistered'
  BY <1>2, <1>4, <1>5, <1>6 DEF GInv, NodesRegistered
<1>8. EdgesClosed'
  BY <1>1, <1>6 DEF GInv, EdgesClosed
<1> QED
  BY <1>1, <1>4, <1>7, <1>8 DEF GInv, EdgesQueued

LEMMA AddEdgeStep ==
    ASSUME GInv, AddEdge
    PROVE  GInv'
<1> DEFINE e == First
           k == EdgeKey(e)
           m == Merged(edges, k, e)
<1>1. /\ CanAddEdge(e)
      /\ register(<<e.rel, k>>, EdgeId(e))
      /\ edges' = Put(edges, k, m)
      /\ queue' \subseteq queue
      /\ nodes' = nodes /\ pc' = pc /\ pc = "edges" /\ queue # {}
  BY DEF AddEdge
<1>2. DOMAIN e = EdgeFields
  BY <1>1, FirstQueued DEF GInv, EdgesQueued
<1> HIDE DEF e
<1>3. /\ {e.source, e.target} \subseteq DOMAIN nodes
      /\ Registrable(<<e.rel, k>>, EdgeId(e))
      /\ k \in DOMAIN edges => SameBut(edges[k], e)
  BY <1>1 DEF CanAddEdge
<1>4. /\ RegistryOneToOne'
      /\ \A j \in DOMAIN byIdentity : j \in DOMAIN byIdentity' /\ byIdentity'[j] = byIdentity[j]
  BY <1>1, <1>3, RegisterKeeps DEF GInv
<1>5. DOMAIN m = EdgeFields /\ {m.source, m.target} \subseteq DOMAIN nodes
  <2>1. CASE k \notin DOMAIN edges
    BY <1>2, <1>3, <2>1 DEF Merged
  <2>2. CASE k \in DOMAIN edges
    <3> DEFINE a == edges[k]
    <3>1. DOMAIN a = EdgeFields /\ {a.source, a.target} \subseteq DOMAIN nodes
      BY <2>2 DEF GInv, EdgesClosed
    <3>2. m = [a EXCEPT !.evidence = a.evidence \union e.evidence]
      BY <2>2 DEF Merged
    <3> HIDE DEF a
    <3>3. DOMAIN m = EdgeFields /\ m.source = a.source /\ m.target = a.target
      BY <3>1, <3>2 DEF EdgeFields
    <3> QED
      BY <3>1, <3>3
  <2> QED
    BY <2>1, <2>2
<1> HIDE DEF m, k
<1>6. /\ DOMAIN edges' = DOMAIN edges \union {k}
      /\ edges'[k] = m
      /\ \A x \in DOMAIN edges : x # k => edges'[x] = edges[x]
  BY <1>1 DEF Put
<1>7. EdgesClosed'
  BY <1>1, <1>5, <1>6 DEF GInv, EdgesClosed
<1>8. NodesRegistered'
  BY <1>1, <1>4 DEF GInv, NodesRegistered
<1> QED
  BY <1>1, <1>4, <1>7, <1>8 DEF GInv, EdgesQueued

LEMMA ObservedFields ==
    ASSUME NEW r, NEW e \in ObservedEdges(r)
    PROVE  DOMAIN e = EdgeFields
BY DEF ObservedEdges, ReportingEdges, AuthorshipEdges, AboutEdges, ReplyEdges, Edge, EdgeFields

LEMMA GInvStep ==
    ASSUME GInv, [Next]_vars
    PROVE  GInv'
<1>1. CASE AddNode
  BY <1>1, AddNodeStep
<1>2. CASE AddEdge
  BY <1>2, AddEdgeStep
<1>3. CASE AddObservedEdges
  BY <1>3, ObservedFields
     DEF AddObservedEdges, GInv, RegistryOneToOne, NodesRegistered, EdgesClosed, EdgesQueued
<1>4. CASE UNCHANGED vars \/ ~(AddNode \/ AddEdge \/ AddObservedEdges)
  <2>1. UNCHANGED <<byId, byIdentity, nodes, edges>>
    BY <1>4 DEF vars, Next, PrepareRecords, RefuseRecords, RefuseNode, RefuseEdge, Derive,
                RefuseDerivation, DetectGaps, Compose, RefuseBundle, Refuse
  <2>2. pc' = "edges" => pc = "edges" /\ queue' = queue
    BY <1>4 DEF vars, Next, PrepareRecords, RefuseRecords, RefuseNode, RefuseEdge, Derive,
                RefuseDerivation, DetectGaps, Compose, RefuseBundle, Refuse
  <2> QED
    BY <2>1, <2>2 DEF GInv, RegistryOneToOne, NodesRegistered, EdgesClosed, EdgesQueued
<1> QED
  BY <1>1, <1>2, <1>3, <1>4

LEMMA AlwaysAGraph == Spec => []GInv
<1>1. Init => GInv
  BY DEF Init, GInv, RegistryOneToOne, NodesRegistered, EdgesClosed, EdgesQueued
<1> QED
  BY <1>1, GInvStep, PTL DEF Spec

\* No two nodes share an id, and both ends of every edge are nodes, for any
\* inputs and whatever the digests are.
THEOREM BuilderHoldsGraph == Spec => []GraphClosed
<1>1. GInv => GraphClosed
  <2> SUFFICES ASSUME GInv PROVE GraphClosed
    OBVIOUS
  <2>1. ASSUME NEW k \in DOMAIN nodes, NEW l \in DOMAIN nodes, nodes[k].id = nodes[l].id
        PROVE  k = l
    <3>1. <<nodes[k].label, k>> = <<nodes[l].label, l>>
      BY <2>1 DEF GInv, NodesRegistered, RegistryOneToOne
    <3> QED
      BY <3>1
  <2> QED
    BY <2>1 DEF GInv, EdgesClosed, GraphClosed
<1> QED
  BY <1>1, AlwaysAGraph, PTL

-----------------------------------------------------------------------------
(* The stages: what is queued, and what a finished stage has built.        *)

NodeRecords == {r \in AllRecords : NodeLabel(r) # None}

SubjectsOf(rs) == {r.subject : r \in rs}

\* The edges the records ask for, once all nodes are there.
Observed == UNION {ObservedEdges(r) : r \in AllRecords}

KeysOf(es) == {EdgeKey(e) : e \in es}

Labels == {"Person", "Artifact", "Module"}

NodesDone == pc \in {"edges", "gaps", "compose", "done"}

EdgesDone == pc \in {"gaps", "compose", "done"}

\* A gap edge is a reply's or orders the steps of a contract.
GapsFound ==
    /\ ReplyGapEdges \subseteq gaps.edges
    /\ \A e \in gaps.edges : e \in ReplyGapEdges \/ e.key[1] = "PRECEDED_BY"
    /\ \A k \in DOMAIN gaps.phantoms :
          gaps.phantoms[k].reason = "dangling_thread_parent" =>
              \E r \in Dangling : ReplyKey(r) = k

StageInv ==
    /\ input \in Inputs
    /\ pc = "records" => nodes = <<>>
    /\ pc \in {"records", "nodes"} => edges = <<>>
    /\ pc = "nodes" => /\ records = AllRecords
                       /\ queue \subseteq NodeRecords
                       /\ DOMAIN nodes \union SubjectsOf(queue) = SubjectsOf(NodeRecords)
    /\ NodesDone => records = AllRecords /\ DOMAIN nodes = SubjectsOf(NodeRecords)
    /\ pc = "edges" => DOMAIN edges \union KeysOf(queue) = KeysOf(Observed)
    /\ EdgesDone => DOMAIN edges = KeysOf(Observed)
    /\ pc \in {"compose", "done"} => GapsFound

LEMMA LabelsOfNodes ==
    ASSUME NEW r, NodeLabel(r) # None
    PROVE  NodeLabel(r) \in Labels
BY DEF NodeLabel, Labels

\* Records depend on the input alone, which never changes.
LEMMA SameInput ==
    ASSUME UNCHANGED input
    PROVE  AllRecords' = AllRecords /\ NodeRecords' = NodeRecords
<1>1. LoweredMap' = LoweredMap
  BY DEF LoweredMap
<1>2. Rows' = Rows /\ UnresolvedIds' = UnresolvedIds
  BY <1>1 DEF Rows, UnresolvedIds
<1>3. unresolved_directory_records' = unresolved_directory_records
  BY <1>2 DEF unresolved_directory_records, PersonRecord, ManagerKey
<1>4. DirectoryRecords' = DirectoryRecords
  BY DEF DirectoryRecords, PersonRecord, ManagerKey
<1>5. AllRecords' = AllRecords
  BY <1>2, <1>3, <1>4 DEF AllRecords
<1> QED
  BY <1>5 DEF NodeRecords

\* The edges a record asks for depend on the nodes alone.
LEMMA SameNodes ==
    ASSUME UNCHANGED <<input, nodes>>
    PROVE  Observed' = Observed
<1>1. AllRecords' = AllRecords
  BY SameInput
<1>2. \A r : ObservedEdges(r)' = ObservedEdges(r)
  BY DEF ObservedEdges, ReportingEdges, AuthorshipEdges, AboutEdges, ReplyEdges
<1> QED
  BY <1>1, <1>2 DEF Observed

LEMMA StageStart == Init => StageInv
BY DEF Init, StageInv, NodesDone, EdgesDone

LEMMA StageNode ==
    ASSUME StageInv, AddNode
    PROVE  StageInv'
<1> DEFINE r == First
<1>1. /\ pc = "nodes" /\ pc' = "nodes" /\ edges' = edges /\ input' = input /\ records' = records
      /\ r \in queue /\ queue' = queue \ {r}
      /\ nodes' = Put(nodes, r.subject, Merged(nodes, r.subject, Node(r)))
  BY FirstQueued DEF AddNode
<1>2. DOMAIN nodes' = DOMAIN nodes \union {r.subject}
  BY <1>1 DEF Put
<1> HIDE DEF r
<1>3. SubjectsOf(queue) = SubjectsOf(queue') \union {r.subject}
  BY <1>1 DEF SubjectsOf
<1>4. AllRecords' = AllRecords /\ NodeRecords' = NodeRecords
  BY <1>1, SameInput
<1>5. SubjectsOf(NodeRecords)' = SubjectsOf(NodeRecords)
  BY <1>4 DEF SubjectsOf
<1> QED
  BY <1>1, <1>2, <1>3, <1>4, <1>5 DEF StageInv, NodesDone, EdgesDone, SubjectsOf

LEMMA StageEdge ==
    ASSUME StageInv, AddEdge
    PROVE  StageInv'
<1> DEFINE e == First
<1>1. /\ pc = "edges" /\ pc' = "edges"
      /\ input' = input /\ records' = records /\ nodes' = nodes
      /\ e \in queue /\ queue' = queue \ {e}
      /\ edges' = Put(edges, EdgeKey(e), Merged(edges, EdgeKey(e), e))
  BY FirstQueued DEF AddEdge
<1>2. DOMAIN edges' = DOMAIN edges \union {EdgeKey(e)}
  BY <1>1 DEF Put
<1> HIDE DEF e
<1>3. KeysOf(queue) = KeysOf(queue') \union {EdgeKey(e)}
  BY <1>1 DEF KeysOf
<1>4. AllRecords' = AllRecords /\ NodeRecords' = NodeRecords /\ Observed' = Observed
  BY <1>1, SameInput, SameNodes
<1>5. /\ SubjectsOf(NodeRecords)' = SubjectsOf(NodeRecords)
      /\ KeysOf(Observed)' = KeysOf(Observed)
  BY <1>4 DEF SubjectsOf, KeysOf
<1> QED
  BY <1>1, <1>2, <1>3, <1>4, <1>5 DEF StageInv, NodesDone, EdgesDone, KeysOf

LEMMA StageQueued ==
    ASSUME StageInv, PrepareRecords \/ AddObservedEdges
    PROVE  StageInv'
<1>1. UNCHANGED <<input, nodes, edges>>
  BY DEF PrepareRecords, AddObservedEdges
<1>2. AllRecords' = AllRecords /\ NodeRecords' = NodeRecords /\ Observed' = Observed
  BY <1>1, SameInput, SameNodes
<1>3. /\ SubjectsOf(NodeRecords)' = SubjectsOf(NodeRecords)
      /\ KeysOf(Observed)' = KeysOf(Observed)
  BY <1>2 DEF SubjectsOf, KeysOf
<1>4. CASE PrepareRecords
  <2>1. /\ pc = "records" /\ pc' = "nodes" /\ records' = AllRecords /\ queue' = NodeRecords
    BY <1>4 DEF PrepareRecords, NodeRecords
  <2>2. SubjectsOf(queue)' = SubjectsOf(NodeRecords)
    BY <2>1 DEF SubjectsOf
  <2> QED
    BY <1>1, <1>2, <1>3, <2>1, <2>2 DEF StageInv, NodesDone, EdgesDone
<1>5. CASE AddObservedEdges
  <2>1. /\ pc = "nodes" /\ pc' = "edges" /\ records' = records /\ queue = {}
        /\ queue' = UNION {ObservedEdges(r) : r \in records}
    BY <1>5 DEF AddObservedEdges
  <2>2. SubjectsOf(queue) = {}
    BY <2>1 DEF SubjectsOf
  <2>3. /\ records = AllRecords /\ edges = <<>>
        /\ DOMAIN nodes \union SubjectsOf(queue) = SubjectsOf(NodeRecords)
    BY <2>1 DEF StageInv
  <2>4. DOMAIN nodes = SubjectsOf(NodeRecords) /\ DOMAIN edges = {}
    BY <2>2, <2>3
  <2>5. queue' = Observed
    BY <2>1, <2>3 DEF Observed
  <2>6. KeysOf(queue)' = KeysOf(Observed)
    BY <2>5 DEF KeysOf
  <2> QED
    BY <1>1, <1>2, <1>3, <2>1, <2>3, <2>4, <2>6 DEF StageInv, NodesDone, EdgesDone
<1> QED
  BY <1>4, <1>5

LEMMA SameReplies ==
    ASSUME UNCHANGED <<records, nodes>>
    PROVE  Dangling' = Dangling /\ ReplyGapEdges' = ReplyGapEdges
<1>1. Dangling' = Dangling
  BY DEF Dangling
<1> QED
  BY <1>1 DEF ReplyGapEdges

\* Phantoms of missing steps have a reason of their own.
LEMMA GapsAreFound ==
    ASSUME DetectGaps
    PROVE  GapsFound'
<1> DEFINE steps == UNION {MissingSteps(c) : c \in input.contracts}
<1>1. PICK last \in LastReplies :
        gaps' = [phantoms |->
                   [k \in DOMAIN last \union steps |->
                       IF k \in steps THEN StepPhantom(k) ELSE ThreadPhantom(last[k])],
                 edges |-> ReplyGapEdges \union UNION {PrecededBy(c) : c \in input.contracts}]
  BY DEF DetectGaps
<1>2. UNCHANGED <<input, records, nodes>>
  BY DEF DetectGaps
<1> HIDE DEF steps
<1>3. /\ gaps'.edges = ReplyGapEdges \union UNION {PrecededBy(c) : c \in input.contracts}
      /\ DOMAIN gaps'.phantoms = DOMAIN last \union steps
      /\ \A k \in DOMAIN gaps'.phantoms :
            gaps'.phantoms[k] = IF k \in steps THEN StepPhantom(k) ELSE ThreadPhantom(last[k])
  BY <1>1
<1>4. Dangling' = Dangling /\ ReplyGapEdges' = ReplyGapEdges
  BY <1>2, SameReplies
<1>5. ASSUME NEW k \in DOMAIN gaps'.phantoms,
             gaps'.phantoms[k].reason = "dangling_thread_parent"
      PROVE  \E r \in Dangling : ReplyKey(r) = k
  <2>1. k \notin steps
    <3>1. StepPhantom(k).reason = "required_sequence_step_missing"
      BY DEF StepPhantom
    <3> QED
      BY <1>3, <1>5, <3>1
  <2>2. k \in DOMAIN last
    BY <1>3, <2>1
  <2> QED
    BY <2>2 DEF LastReplies
<1>6. ASSUME NEW c, NEW e \in PrecededBy(c)
      PROVE  e.key[1] = "PRECEDED_BY"
  BY <1>6 DEF PrecededBy, GapEdge
<1> QED
  BY <1>3, <1>4, <1>5, <1>6 DEF GapsFound

LEMMA StageLater ==
    ASSUME StageInv, [Next]_vars,
           ~AddNode, ~AddEdge, ~PrepareRecords, ~AddObservedEdges
    PROVE  StageInv'
<1>1. UNCHANGED <<input, records, nodes, edges>>
  BY DEF vars, Next, RefuseRecords, RefuseNode, RefuseEdge, Derive, RefuseDerivation,
         DetectGaps, Compose, RefuseBundle, Refuse
<1>2. AllRecords' = AllRecords /\ NodeRecords' = NodeRecords /\ Observed' = Observed
  BY <1>1, SameInput, SameNodes
<1>3. /\ SubjectsOf(NodeRecords)' = SubjectsOf(NodeRecords)
      /\ KeysOf(Observed)' = KeysOf(Observed)
  BY <1>2 DEF SubjectsOf, KeysOf
<1>4. CASE UNCHANGED vars
  <2>1. UNCHANGED <<pc, queue, gaps>>
    BY <1>4 DEF vars
  <2>2. GapsFound' = GapsFound
    BY <1>1, <2>1, SameReplies DEF GapsFound
  <2>3. SubjectsOf(queue)' = SubjectsOf(queue) /\ KeysOf(queue)' = KeysOf(queue)
    BY <2>1 DEF SubjectsOf, KeysOf
  <2> QED
    BY <1>1, <1>2, <1>3, <2>1, <2>2, <2>3 DEF StageInv, NodesDone, EdgesDone
<1>5. CASE pc' = "refused"
  BY <1>1, <1>5 DEF StageInv, NodesDone, EdgesDone
<1>6. CASE Derive
  <2>1. pc = "edges" /\ queue = {} /\ pc' = "gaps"
    BY <1>6 DEF Derive
  <2>2. KeysOf(queue) = {}
    BY <2>1 DEF KeysOf
  <2> QED
    BY <1>1, <1>2, <1>3, <2>1, <2>2 DEF StageInv, NodesDone, EdgesDone
<1>7. CASE DetectGaps
  <2>1. pc = "gaps" /\ pc' = "compose" /\ GapsFound'
    BY <1>7, GapsAreFound DEF DetectGaps
  <2> QED
    BY <1>1, <1>2, <1>3, <2>1 DEF StageInv, NodesDone, EdgesDone
<1>8. CASE Compose
  <2>1. pc = "compose" /\ pc' = "done" /\ gaps' = gaps
    BY <1>8 DEF Compose
  <2>2. GapsFound' = GapsFound
    BY <1>1, <2>1, SameReplies DEF GapsFound
  <2> QED
    BY <1>1, <1>2, <1>3, <2>1, <2>2 DEF StageInv, NodesDone, EdgesDone
<1> QED
  BY <1>4, <1>5, <1>6, <1>7, <1>8
     DEF Next, RefuseRecords, RefuseNode, RefuseEdge, RefuseDerivation, RefuseBundle, Refuse

LEMMA AlwaysStaged == Spec => []StageInv
<1>1. StageInv /\ [Next]_vars => StageInv'
  BY StageNode, StageEdge, StageQueued, StageLater
<1> QED
  BY <1>1, StageStart, PTL DEF Spec

-----------------------------------------------------------------------------
(* Labels and keys of what was built.                                      *)

\* The queue of nodes has a label for each (StageInv), and an edge has its
\* fields (GInv): a row that is merged keeps both.
LEMMA TypeStep ==
    ASSUME TypeOK, GInv, StageInv, [Next]_vars
    PROVE  TypeOK'
<1>1. CASE AddNode
  <2> DEFINE r == First
             m == Merged(nodes, r.subject, Node(r))
  <2>1. /\ pc = "nodes" /\ pc' = pc /\ edges' = edges /\ r \in queue
        /\ nodes' = Put(nodes, r.subject, m)
    BY <1>1, FirstQueued DEF AddNode
  <2>2. NodeLabel(r) # None
    BY <2>1 DEF StageInv, NodeRecords
  <2>3. Node(r).label \in Labels
    BY <2>2, LabelsOfNodes DEF Node
  <2>4. m.label \in Labels
    <3>1. CASE r.subject \notin DOMAIN nodes
      BY <2>3, <3>1 DEF Merged
    <3>2. CASE r.subject \in DOMAIN nodes
      <4>1. /\ nodes[r.subject].label \in Labels
            /\ DOMAIN nodes[r.subject] = NodeFields
        BY <3>2 DEF TypeOK, Labels, GInv, NodesRegistered
      <4>2. m = [nodes[r.subject] EXCEPT !.evidence = @ \union Node(r).evidence]
        BY <3>2 DEF Merged
      <4> QED
        BY <4>1, <4>2 DEF NodeFields
    <3> QED
      BY <3>1, <3>2
  <2> HIDE DEF m, r
  <2>5. \A k \in DOMAIN nodes' : nodes'[k].label \in Labels
    BY <2>1, <2>4 DEF Put, TypeOK, Labels
  <2> QED
    BY <2>1, <2>5 DEF TypeOK, Labels, EdgeKey
<1>2. CASE AddEdge
  <2> DEFINE e == First
             k == EdgeKey(e)
             m == Merged(edges, k, e)
  <2>1. /\ pc = "edges" /\ pc' = pc /\ nodes' = nodes /\ e \in queue
        /\ edges' = Put(edges, k, m)
    BY <1>2, FirstQueued DEF AddEdge
  <2> HIDE DEF e
  <2>2. EdgeKey(m) = k
    <3>1. CASE k \notin DOMAIN edges
      BY <3>1 DEF Merged
    <3>2. CASE k \in DOMAIN edges
      <4> DEFINE a == edges[k]
      <4>1. EdgeKey(a) = k /\ DOMAIN a = EdgeFields
        BY <3>2 DEF TypeOK, GInv, EdgesClosed
      <4>2. m = [a EXCEPT !.evidence = a.evidence \union e.evidence]
        BY <3>2 DEF Merged
      <4> HIDE DEF a, m, k
      <4>3. m.rel = a.rel /\ m.source = a.source /\ m.target = a.target
        BY <4>1, <4>2 DEF EdgeFields
      <4> QED
        BY <4>1, <4>3 DEF EdgeKey
    <3> QED
      BY <3>1, <3>2
  <2> HIDE DEF m, k
  <2>3. \A x \in DOMAIN edges' : EdgeKey(edges'[x]) = x
    BY <2>1, <2>2 DEF Put, TypeOK
  <2>4. \A x \in DOMAIN edges' : EdgeKey(edges[x])' = x
    BY <2>3 DEF EdgeKey
  <2> QED
    BY <2>1, <2>4 DEF TypeOK
<1>3. CASE ~AddNode /\ ~AddEdge
  <2>1. UNCHANGED <<nodes, edges>>
    BY <1>3 DEF vars, Next, PrepareRecords, RefuseRecords, RefuseNode, AddObservedEdges,
                RefuseEdge, Derive, RefuseDerivation, DetectGaps, Compose, RefuseBundle, Refuse
  <2>2. pc' \in {"records", "nodes", "edges", "gaps", "compose", "done", "refused"}
    BY <1>3 DEF TypeOK, vars, Next, PrepareRecords, RefuseRecords, RefuseNode, AddObservedEdges,
                RefuseEdge, Derive, RefuseDerivation, DetectGaps, Compose, RefuseBundle, Refuse
  <2> QED
    BY <2>1, <2>2 DEF TypeOK, EdgeKey
<1> QED
  BY <1>1, <1>2, <1>3

\* Every node of the builder has a label of the schema and every edge stands
\* under its own key, for any inputs and whatever the digests are.
THEOREM TypeCorrect == Spec => []TypeOK
<1>1. Init => TypeOK
  BY DEF Init, TypeOK
<1> QED
  BY <1>1, TypeStep, AlwaysAGraph, AlwaysStaged, PTL DEF Spec

-----------------------------------------------------------------------------
(* Rows as they are resolved.                                              *)

LEMMA ResolvedName ==
    ASSUME StageInv, NEW raw \in DOMAIN Normal
    PROVE  resolve_one(raw, LoweredMap) # None
<1> DEFINE k == Normal[raw]
           map == input.identityMap
           names == input.people \union Range(map)
<1>1. None \notin names /\ Unresolved(k) # None
  BY NoneIsNobody DEF StageInv
<1>2. LoweredMap = [j \in {Normal[x] : x \in input.people \union DOMAIN map} |->
                      IF \E x \in DOMAIN map : Normal[x] = j
                      THEN map[CHOOSE x \in DOMAIN map : Normal[x] = j]
                      ELSE CHOOSE h \in input.people : Normal[h] = j]
  BY DEF LoweredMap, Lowered
<1>3. \A j \in DOMAIN LoweredMap : LoweredMap[j] \in names
  <2> TAKE j \in DOMAIN LoweredMap
  <2>1. CASE \E x \in DOMAIN map : Normal[x] = j
    <3>1. (CHOOSE x \in DOMAIN map : Normal[x] = j) \in DOMAIN map
      BY <2>1
    <3>2. map[CHOOSE x \in DOMAIN map : Normal[x] = j] \in Range(map)
      BY <3>1 DEF Range
    <3> QED
      BY <1>2, <2>1, <3>2
  <2>2. CASE ~ \E x \in DOMAIN map : Normal[x] = j
    <3>1. \E h \in input.people : Normal[h] = j
      BY <1>2, <2>2
    <3>2. (CHOOSE h \in input.people : Normal[h] = j) \in input.people
      BY <3>1
    <3> QED
      BY <1>2, <2>2, <3>2
  <2> QED
    BY <2>1, <2>2
<1>4. Range(LoweredMap) \subseteq names
  BY <1>3 DEF Range
<1> QED
  BY <1>1, <1>3, <1>4 DEF resolve_one

\* What resolving a row and dropping modules leaves as it is.
LEMMA ResolvedRow ==
    ASSUME StageInv, NEW row \in Rows
    PROVE  /\ row.kind \in {"slack", "email", "ticket", "git"}
           /\ row.author # None
           /\ row.kind \in {"ticket", "git"} => row.to = {} /\ row.pauthor = None
<1>1. PICK raw \in input.rows :
        row = drop_unknown_modules(resolve_row(raw, LoweredMap), input.modules)
  BY DEF Rows
<1>2. /\ DOMAIN raw = RowFields /\ raw.kind \in {"slack", "email", "ticket", "git"}
      /\ raw.author \in DOMAIN Normal
      /\ raw.kind \in {"ticket", "git"} => raw.to = {} /\ raw.pauthor = None
  BY InputAssumption DEF StageInv
<1> DEFINE r == resolve_row(raw, LoweredMap)
<1>3. /\ DOMAIN r = RowFields /\ r.kind = raw.kind
      /\ r.author = resolve_one(raw.author, LoweredMap)
      /\ r.pauthor = ResolveOptional(raw.pauthor, LoweredMap)
      /\ r.to = {resolve_one(x, LoweredMap) : x \in raw.to}
  BY <1>2 DEF resolve_row, RowFields
<1>4. /\ r.author # None
      /\ r.kind \in {"ticket", "git"} => r.to = {} /\ r.pauthor = None
  BY <1>2, <1>3, ResolvedName DEF ResolveOptional
<1> HIDE DEF r
<1> DEFINE d == drop_unknown_modules(r, input.modules)
<1>5. d.kind = r.kind /\ d.author = r.author /\ d.to = r.to /\ d.pauthor = r.pauthor
  BY <1>3 DEF drop_unknown_modules, RowFields
<1> QED
  BY <1>1, <1>2, <1>3, <1>4, <1>5 DEF r

\* How a row says that it reaches somebody.
Way(row) == IF row.kind = "slack" THEN "mention" ELSE "email"

\* The records of a row, by what they state.
LEMMA RowRecords ==
    ASSUME StageInv, NEW row \in Rows
    PROVE  row_records(row) =
              {artifact(row)}
              \union {communication(row, h, "reply") : h \in Replied(row)}
              \union {communication(row, h, Way(row)) : h \in Named(row)}
              \union {dependency(row, p[1], p[2]) :
                        p \in {q \in row.mods \X row.deps : row.kind = "git"}}
              \union {cochange(row, p[1], p[2]) :
                        p \in {q \in row.mods \X row.mods : row.kind = "git" /\ Before(q[1], q[2])}}
<1>1. CASE row.kind = "slack"
  <2>1. row_records(row) = slack_records(row)
    BY <1>1 DEF row_records
  <2>2. Named(row) = row.to \ {row.author} /\ Way(row) = "mention"
    BY <1>1 DEF Named, Way
  <2> QED
    BY <1>1, <2>1, <2>2 DEF slack_records
<1>2. CASE row.kind = "email"
  <2>1. row_records(row) = email_records(row)
    BY <1>2 DEF row_records
  <2>2. Named(row) = row.to \ ({row.author} \union Replied(row)) /\ Way(row) = "email"
    BY <1>2 DEF Named, Way
  <2> QED
    BY <1>2, <2>1, <2>2 DEF email_records
<1>3. CASE row.kind \in {"ticket", "git"}
  <2>1. Replied(row) = {} /\ Named(row) = {}
    BY <1>3, ResolvedRow DEF Replied, Named
  <2>2. CASE row.kind = "ticket"
    <3>1. row_records(row) = ticket_records(row)
      BY <2>2 DEF row_records
    <3> QED
      BY <2>1, <2>2, <3>1 DEF ticket_records
  <2>3. CASE row.kind = "git"
    <3>1. row_records(row) = code_records(row)
      BY <2>3 DEF row_records
    <3> QED
      BY <2>1, <2>3, <3>1 DEF code_records
  <2> QED
    BY <1>3, <2>2, <2>3
<1> QED
  BY <1>1, <1>2, <1>3, ResolvedRow

\* The same, by the kind of a record.
LEMMA RecordOfRow ==
    ASSUME StageInv, NEW row \in Rows, NEW r \in row_records(row)
    PROVE  /\ r.source = row.kind
           /\ \/ r.kind = "artifact" /\ r = artifact(row)
              \/ /\ r.kind = "communication_aggregate"
                 /\ \E h \in Replied(row) : r = communication(row, h, "reply")
              \/ /\ r.kind = "communication_aggregate"
                 /\ \E h \in Named(row) : r = communication(row, h, Way(row))
              \/ /\ r.kind = "dependency" /\ row.kind = "git"
                 /\ \E m \in row.mods, d \in row.deps : r = dependency(row, m, d)
              \/ /\ r.kind = "cochange" /\ row.kind = "git"
                 /\ \E m, n \in row.mods : Before(m, n) /\ r = cochange(row, m, n)
<1>1. /\ artifact(row).kind = "artifact" /\ artifact(row).source = row.kind
      /\ \A h, what : /\ communication(row, h, what).kind = "communication_aggregate"
                      /\ communication(row, h, what).source = row.kind
      /\ \A m, d : /\ dependency(row, m, d).kind = "dependency"
                   /\ dependency(row, m, d).source = row.kind
      /\ \A m, n : cochange(row, m, n).kind = "cochange" /\ cochange(row, m, n).source = row.kind
  BY DEF artifact, communication, dependency, cochange, Record
<1>2. CASE r = artifact(row)
  BY <1>1, <1>2
<1>3. CASE r \in {communication(row, h, "reply") : h \in Replied(row)}
  BY <1>1, <1>3
<1>4. CASE r \in {communication(row, h, Way(row)) : h \in Named(row)}
  BY <1>1, <1>4
<1>5. CASE r \in {dependency(row, p[1], p[2]) :
                    p \in {q \in row.mods \X row.deps : row.kind = "git"}}
  <2>1. PICK p \in row.mods \X row.deps : row.kind = "git" /\ r = dependency(row, p[1], p[2])
    BY <1>5
  <2>2. p[1] \in row.mods /\ p[2] \in row.deps
    OBVIOUS
  <2> QED
    BY <1>1, <2>1, <2>2
<1>6. CASE r \in {cochange(row, p[1], p[2]) :
                    p \in {q \in row.mods \X row.mods : row.kind = "git" /\ Before(q[1], q[2])}}
  <2>1. PICK p \in row.mods \X row.mods :
          row.kind = "git" /\ Before(p[1], p[2]) /\ r = cochange(row, p[1], p[2])
    BY <1>6
  <2>2. p[1] \in row.mods /\ p[2] \in row.mods
    OBVIOUS
  <2> QED
    BY <1>1, <2>1, <2>2
<1> QED
  BY <1>2, <1>3, <1>4, <1>5, <1>6, RowRecords

-----------------------------------------------------------------------------
(* Replies.                                                                *)

\* A row gives one artifact; its other records are facts about nodes.
LEMMA RowArtifact ==
    ASSUME StageInv, NEW row \in Rows
    PROVE  /\ artifact(row) \in row_records(row)
           /\ artifact(row).kind = "artifact"
           /\ \A r \in row_records(row) :
                 r = artifact(row)
                 \/ r.kind \in {"communication_aggregate", "dependency", "cochange"}
<1>1. artifact(row).kind = "artifact" /\ artifact(row) \in row_records(row)
  BY RowRecords DEF artifact, Record
<1> QED
  BY <1>1, RecordOfRow

LEMMA DirectoryKinds ==
    ASSUME NEW r \in DirectoryRecords \union unresolved_directory_records
    PROVE  /\ r.kind \in {"directory_person", "module"}
           /\ r.subject[1] \in {"person", "module"}
BY DEF DirectoryRecords, unresolved_directory_records, PersonRecord, Record, PersonKey, ModuleKey

LEMMA ReplyKeysAreArtifacts == \A r : ReplyKey(r)[1] = "artifact"
BY FullKeyAssumption DEF ReplyKey, ArtifactKey

LEMMA ArtifactsOfRecords ==
    ASSUME StageInv
    PROVE  {r \in AllRecords : r.kind = "artifact"} = Artifacts
<1>1. ASSUME NEW r \in AllRecords, r.kind = "artifact"
      PROVE  r \in Artifacts
  <2>1. r \notin DirectoryRecords \union unresolved_directory_records
    BY <1>1, DirectoryKinds
  <2>2. r \in input.facts \/ \E row \in Rows : r \in row_records(row)
    BY <1>1, <2>1 DEF AllRecords
  <2> QED
    BY <1>1, <2>2, RowArtifact DEF Artifacts
<1>2. ASSUME NEW a \in Artifacts
      PROVE  a \in AllRecords /\ a.kind = "artifact"
  BY <1>2, RowArtifact DEF Artifacts, AllRecords
<1> QED
  BY <1>1, <1>2

\* The nodes a reply can answer are the artifacts, and nodes that came as facts.
LEMMA Answerable ==
    ASSUME StageInv, NEW a
    PROVE  ReplyKey(a) \in SubjectsOf(NodeRecords)
           <=> ReplyKey(a) \in {b.subject : b \in Artifacts
                                              \union {r \in input.facts : NodeLabel(r) # None}}
<1>1. ASSUME NEW r \in NodeRecords, r.subject = ReplyKey(a)
      PROVE  r \in Artifacts \union {f \in input.facts : NodeLabel(f) # None}
  <2>1. r \in AllRecords /\ NodeLabel(r) # None
    BY DEF NodeRecords
  <2>2. r \notin DirectoryRecords \union unresolved_directory_records
    BY <1>1, DirectoryKinds, ReplyKeysAreArtifacts
  <2>3. CASE r \in input.facts
    BY <2>1, <2>3
  <2>4. CASE \E row \in Rows : r \in row_records(row)
    <3>1. PICK row \in Rows : r \in row_records(row)
      BY <2>4
    <3>2. r.kind \notin {"communication_aggregate", "dependency", "cochange"}
      BY <2>1 DEF NodeLabel
    <3>3. r = artifact(row)
      BY <3>1, <3>2, RowArtifact
    <3> QED
      BY <3>3 DEF Artifacts
  <2> QED
    BY <2>1, <2>2, <2>3, <2>4 DEF AllRecords
<1>2. ASSUME NEW b \in Artifacts
      PROVE  b \in NodeRecords
  <2>1. b \in AllRecords /\ b.kind = "artifact"
    BY <1>2, ArtifactsOfRecords
  <2> QED
    BY <2>1, NoneIsNoLabel DEF NodeRecords, NodeLabel
<1>3. {f \in input.facts : NodeLabel(f) # None} \subseteq NodeRecords
  BY DEF NodeRecords, AllRecords
<1> QED
  BY <1>1, <1>2, <1>3 DEF SubjectsOf

\* An edge of the builder links a reply exactly when a record asked for it.
LEMMA LinkedWhenThere ==
    ASSUME StageInv, pc = "done", NEW a \in Artifacts, a.parent # None
    PROVE  <<"REPLIES_TO", a.subject, ReplyKey(a)>> \in DOMAIN edges
           <=> ReplyKey(a) \in DOMAIN nodes
<1> DEFINE key == <<"REPLIES_TO", a.subject, ReplyKey(a)>>
<1>1. DOMAIN edges = KeysOf(Observed)
  BY DEF StageInv, EdgesDone
<1>2. a \in AllRecords /\ a.kind = "artifact"
  BY ArtifactsOfRecords
<1>3. ASSUME ReplyKey(a) \in DOMAIN nodes
      PROVE  key \in KeysOf(Observed)
  <2> DEFINE e == Edge("REPLIES_TO", a.subject, ReplyKey(a), <<"thread_parent">>, a)
  <2>1. e \in ReplyEdges(a)
    BY <1>3 DEF ReplyEdges
  <2>2. e \in ObservedEdges(a)
    BY <1>2, <2>1 DEF ObservedEdges
  <2>3. EdgeKey(e) = key
    BY DEF EdgeKey, Edge
  <2> HIDE DEF e, key
  <2> QED
    BY <1>2, <2>2, <2>3 DEF KeysOf, Observed
<1>4. ASSUME key \in KeysOf(Observed)
      PROVE  ReplyKey(a) \in DOMAIN nodes
  <2>1. PICK r \in AllRecords : \E e \in ObservedEdges(r) : EdgeKey(e) = key
    BY <1>4 DEF KeysOf, Observed
  <2>2. PICK e \in ObservedEdges(r) : EdgeKey(e) = key
    BY <2>1
  <2>3. e.rel = "REPLIES_TO" /\ e.target = ReplyKey(a)
    BY <2>2 DEF EdgeKey
  <2>4. e \in ReplyEdges(r)
    BY <2>3 DEF ObservedEdges, ReportingEdges, AuthorshipEdges, AboutEdges, Edge
  <2> QED
    BY <2>3, <2>4 DEF ReplyEdges, Edge
<1> QED
  BY <1>1, <1>3, <1>4

\* A gap edge links a reply exactly when nothing else does.
LEMMA GapWhenMissing ==
    ASSUME StageInv, pc = "done", NEW a \in Artifacts, a.parent # None
    PROVE  (\E e \in gaps.edges :
               e.key = <<"REPLIES_TO", a.subject, ReplyKey(a), <<"dangling_thread_parent">>>>)
           <=> ReplyKey(a) \notin DOMAIN nodes
<1> DEFINE missing == <<"dangling_thread_parent">>
           key == <<"REPLIES_TO", a.subject, ReplyKey(a), missing>>
           link(r) == GapEdge("REPLIES_TO", r.subject, ReplyKey(r), missing)
<1>1. records = AllRecords /\ GapsFound
  BY DEF StageInv, NodesDone
<1>2. a \in AllRecords /\ a.kind = "artifact"
  BY ArtifactsOfRecords
<1>3. \A r : link(r).key = <<"REPLIES_TO", r.subject, ReplyKey(r), missing>>
  BY DEF GapEdge
<1>4. ReplyGapEdges = {link(r) : r \in Dangling}
  BY DEF ReplyGapEdges
<1> HIDE DEF link, missing
<1>5. ASSUME ReplyKey(a) \notin DOMAIN nodes
      PROVE  \E e \in gaps.edges : e.key = key
  <2>1. a \in Dangling
    BY <1>1, <1>2, <1>5 DEF Dangling
  <2>2. link(a) \in gaps.edges /\ link(a).key = key
    BY <1>1, <1>3, <1>4, <2>1 DEF GapsFound
  <2> QED
    BY <2>2
<1>6. ASSUME NEW e \in gaps.edges, e.key = key
      PROVE  ReplyKey(a) \notin DOMAIN nodes
  <2>1. key[1] = "REPLIES_TO"
    OBVIOUS
  <2>2. e \in ReplyGapEdges
    BY <1>1, <1>6, <2>1 DEF GapsFound
  <2>3. PICK r \in Dangling : e = link(r)
    BY <1>4, <2>2
  <2>4. ReplyKey(r) = ReplyKey(a)
    <3>1. <<"REPLIES_TO", r.subject, ReplyKey(r), missing>> = key
      BY <1>3, <1>6, <2>3
    <3> QED
      BY <3>1
  <2> QED
    BY <2>4 DEF Dangling
<1> QED
  BY <1>5, <1>6 DEF missing

\* Of a finished ingest, every reply is linked exactly once: to the node it
\* answers or, when there is none, to a phantom, and every phantom of a thread
\* has a reply; for any inputs, digests and contracts.
THEOREM EveryReplyIsLinked == Spec => []RepliesLinkedOnce
<1>1. ASSUME StageInv
      PROVE  RepliesLinkedOnce
  <2> SUFFICES ASSUME pc = "done" PROVE RepliesLinkedOnce
    BY DEF RepliesLinkedOnce
  <2> DEFINE key(a) == <<"REPLIES_TO", a.subject, ReplyKey(a)>>
             gapKey(a) == <<"REPLIES_TO", a.subject, ReplyKey(a), <<"dangling_thread_parent">>>>
             given == {b.subject : b \in Artifacts
                                         \union {r \in input.facts : NodeLabel(r) # None}}
             replies == {a \in Artifacts : a.parent # None}
  <2>1. /\ records = AllRecords /\ DOMAIN nodes = SubjectsOf(NodeRecords) /\ GapsFound
    BY <1>1 DEF StageInv, NodesDone
  <2>2. \A a : ReplyKey(a) \in DOMAIN nodes <=> ReplyKey(a) \in given
    BY <1>1, <2>1, Answerable
  <2> HIDE DEF given
  <2>3. \A a \in replies : key(a) \in DOMAIN edges <=> ReplyKey(a) \in given
    BY <1>1, <2>2, LinkedWhenThere
  <2>4. \A a \in replies : (\E e \in gaps.edges : e.key = gapKey(a)) <=> ReplyKey(a) \notin given
    BY <1>1, <2>2, GapWhenMissing
  <2>5. ASSUME NEW k \in DOMAIN gaps.phantoms,
               gaps.phantoms[k].reason = "dangling_thread_parent"
        PROVE  \E a \in replies : ReplyKey(a) = k /\ k \notin given
    <3>1. PICK r \in Dangling : ReplyKey(r) = k
      BY <2>1, <2>5 DEF GapsFound
    <3>2. r \in AllRecords /\ r.kind = "artifact" /\ r.parent # None /\ k \notin DOMAIN nodes
      BY <2>1, <3>1 DEF Dangling
    <3>3. r \in replies
      BY <1>1, <3>2, ArtifactsOfRecords
    <3> QED
      BY <2>2, <3>1, <3>2, <3>3
  <2> QED
    BY <2>3, <2>4, <2>5 DEF RepliesLinkedOnce, given
<1> QED
  BY <1>1, AlwaysStaged, PTL

-----------------------------------------------------------------------------
(* The records that become nodes.                                          *)

LEMMA Tuples ==
    /\ \A a, b, c, d : <<a, b>> = <<c, d>> => a = c /\ b = d
    /\ \A a, b, c, d, e, f : <<a, b, c>> = <<d, e, f>> => a = d /\ b = e /\ c = f
    /\ \A a, b, c, d, e, f, g, h :
          <<a, b, c, d>> = <<e, f, g, h>> => a = e /\ b = f /\ c = g /\ d = h
    /\ \A a, b, c, d, e, f, g, h, i, j :
          <<a, b, c, d, e>> = <<f, g, h, i, j>> => a = f /\ b = g /\ c = h /\ d = i /\ e = j
    /\ \A a, b, c, d, e, f : <<a, b>> # <<c, d, e, f>>
    /\ \A a, b, c, d, e, f, g : <<a, b>> # <<c, d, e, f, g>>
    /\ \A a, b, c, d, e, f, g, h, i : <<a, b, c, d>> # <<e, f, g, h, i>>
OBVIOUS

\* An artifact's external id names its node, whether it came as a row or not.
LEMMA ArtifactNamed ==
    ASSUME StageInv, NEW a \in Artifacts
    PROVE  /\ a \in AllRecords /\ a.kind = "artifact"
           /\ \E id : a.xid = <<a.source, id>> /\ a.subject = ArtifactKey(a.source, id)
<1>1. a \in AllRecords /\ a.kind = "artifact"
  BY ArtifactsOfRecords
<1>2. CASE a \in input.facts
  <2>1. a.xid = <<a.source, a.xid[2]>> /\ a.subject = ArtifactKey(a.source, a.xid[2])
    BY <1>1, <1>2, InputAssumption DEF StageInv
  <2> QED
    BY <1>1, <2>1
<1>3. CASE a \notin input.facts
  <2>1. PICK row \in Rows : a = artifact(row)
    BY <1>3 DEF Artifacts
  <2>2. a.source = row.kind /\ a.xid = <<row.kind, row.id>> /\ a.subject = ArtifactKey(row.kind, row.id)
    BY <2>1 DEF artifact, Record
  <2> QED
    BY <1>1, <2>2
<1> QED
  BY <1>2, <1>3

LEMMA PersonFields ==
    ASSUME NEW source, NEW h, NEW what
    PROVE  /\ PersonRecord(source, h, what).kind = "directory_person"
           /\ PersonRecord(source, h, what).source = source
           /\ PersonRecord(source, h, what).xid = <<source, h>>
           /\ PersonRecord(source, h, what).subject = PersonKey(h)
           /\ PersonRecord(source, h, what).parent = None
BY DEF PersonRecord, Record

\* A person is in the directory or stands for an unresolved id, never both.
APerson(r, h) ==
    /\ r.kind = "directory_person" /\ r.subject = PersonKey(h) /\ h \in Directory
    /\ r = IF h \in input.people THEN PersonRecord("directory", h, "directory")
                                 ELSE PersonRecord("identity", h, "unresolved")

AModule(r, m) ==
    r.kind = "module" /\ r.source = "directory" /\ r.xid = <<"directory", m>> /\ r.subject = ModuleKey(m)

AnArtifact(r, id) ==
    /\ r.kind = "artifact" /\ r \in Artifacts
    /\ r.xid = <<r.source, id>> /\ r.subject = ArtifactKey(r.source, id)

LEMMA NodeRecordOf ==
    ASSUME StageInv, NEW r \in NodeRecords
    PROVE  \E x : APerson(r, x) \/ AModule(r, x) \/ AnArtifact(r, x)
<1>1. r \in AllRecords /\ NodeLabel(r) # None
  BY DEF NodeRecords
<1>2. CASE r \in DirectoryRecords
  <2>1. CASE \E h \in input.people : r = PersonRecord("directory", h, "directory")
    BY <2>1, PersonFields DEF APerson, Directory
  <2>2. CASE \E m \in input.modules : r = Record("directory", <<"directory", m>>, "module", 0,
                None, None, ModuleKey(m), ModuleKey(m), {}, "module")
    BY <2>2 DEF AModule, Record
  <2> QED
    BY <1>2, <2>1, <2>2 DEF DirectoryRecords
<1>3. CASE r \in unresolved_directory_records
  <2>1. PICK h \in {Unresolved(k) : k \in UnresolvedIds} \ input.people :
          r = PersonRecord("identity", h, "unresolved")
    BY <1>3 DEF unresolved_directory_records
  <2> QED
    BY <2>1, PersonFields DEF APerson, Directory
<1>4. CASE r \in input.facts
  <2>1. r.kind \in FactKinds
    BY <1>4, InputAssumption DEF StageInv
  <2>2. r.kind \in {"artifact", "module"}
    BY <1>1, <2>1 DEF FactKinds, NodeLabel
  <2>3. CASE r.kind = "artifact"
    <3>1. r \in Artifacts
      BY <1>4, <2>3 DEF Artifacts
    <3> QED
      BY <2>3, <3>1, ArtifactNamed DEF AnArtifact
  <2>4. CASE r.kind = "module"
    BY <1>4, <2>4, InputAssumption DEF StageInv, AModule
  <2> QED
    BY <2>2, <2>3, <2>4
<1>5. CASE \E row \in Rows : r \in row_records(row)
  <2>1. PICK row \in Rows : r \in row_records(row)
    BY <1>5
  <2>2. r.kind \notin {"communication_aggregate", "dependency", "cochange"}
    BY <1>1 DEF NodeLabel
  <2>3. r = artifact(row)
    BY <2>1, <2>2, RowArtifact
  <2>4. r \in Artifacts
    BY <2>3 DEF Artifacts
  <2> QED
    BY <2>4, ArtifactNamed DEF AnArtifact
<1> QED
  BY <1>1, <1>2, <1>3, <1>4, <1>5 DEF AllRecords

LEMMA KeyKinds ==
    \A x, y, s, t :
        /\ PersonKey(x) = PersonKey(y) => x = y
        /\ ModuleKey(x) = ModuleKey(y) => x = y
        /\ ArtifactKey(s, x) = ArtifactKey(t, y) => s = t /\ x = y
        /\ PersonKey(x) # ModuleKey(y) /\ PersonKey(x) # ArtifactKey(t, y)
        /\ ModuleKey(x) # ArtifactKey(t, y)
        /\ PersonKey(x)[1] = "person" /\ ModuleKey(x)[1] = "module"
        /\ ArtifactKey(s, x)[1] = "artifact"
BY DEF PersonKey, ModuleKey, ArtifactKey

\* The label of a node is the one of its key.
LEMMA LabelOfKey ==
    ASSUME StageInv, NEW r \in NodeRecords
    PROVE  Labelled(r.subject) = <<NodeLabel(r), r.subject>>
<1>1. PICK x : APerson(r, x) \/ AModule(r, x) \/ AnArtifact(r, x)
  BY NodeRecordOf
<1>2. CASE APerson(r, x)
  BY <1>2, KeyKinds DEF APerson, Labelled, NodeLabel
<1>3. CASE AModule(r, x)
  BY <1>3, KeyKinds DEF AModule, Labelled, NodeLabel
<1>4. CASE AnArtifact(r, x)
  BY <1>4, KeyKinds DEF AnArtifact, Labelled, NodeLabel
<1> QED
  BY <1>1, <1>2, <1>3, <1>4

LEMMA NodesExpected ==
    ASSUME StageInv
    PROVE  SubjectsOf(NodeRecords) = ExpectedKeys
<1>1. ASSUME NEW r \in NodeRecords
      PROVE  r.subject \in ExpectedKeys
  <2>1. PICK x : APerson(r, x) \/ AModule(r, x) \/ AnArtifact(r, x)
    BY NodeRecordOf
  <2>2. CASE APerson(r, x)
    BY <2>2 DEF APerson, ExpectedKeys
  <2>3. CASE AModule(r, x)
    <3>1. r \notin unresolved_directory_records /\ ~ \E row \in Rows : r \in row_records(row)
      BY <2>3, RowArtifact, PersonFields DEF AModule, unresolved_directory_records
    <3>2. r \in DirectoryRecords \/ r \in input.facts
      BY <3>1 DEF NodeRecords, AllRecords
    <3>3. CASE r \in input.facts
      BY <2>3, <3>3 DEF AModule, ExpectedKeys
    <3>4. CASE r \in DirectoryRecords
      <4>1. PICK m \in input.modules : r = Record("directory", <<"directory", m>>, "module", 0,
                None, None, ModuleKey(m), ModuleKey(m), {}, "module")
        BY <2>3, <3>4, PersonFields DEF AModule, DirectoryRecords
      <4>2. r.subject = ModuleKey(m)
        BY <4>1 DEF Record
      <4> QED
        BY <4>2 DEF ExpectedKeys
    <3> QED
      BY <3>2, <3>3, <3>4
  <2>4. CASE AnArtifact(r, x)
    BY <2>4 DEF AnArtifact, ExpectedKeys
  <2> QED
    BY <2>1, <2>2, <2>3, <2>4
<1>2. \A r : r.kind \in {"directory_person", "module", "artifact"} => NodeLabel(r) # None
  BY NoneIsNoLabel DEF NodeLabel
<1>3. ASSUME NEW h \in Directory
      PROVE  \E r \in NodeRecords : r.subject = PersonKey(h)
  <2>1. CASE h \in input.people
    <3> DEFINE r == PersonRecord("directory", h, "directory")
    <3>1. r \in AllRecords
      BY <2>1 DEF AllRecords, DirectoryRecords
    <3> QED
      BY <1>2, <3>1, PersonFields DEF NodeRecords
  <2>2. CASE h \notin input.people
    <3> DEFINE r == PersonRecord("identity", h, "unresolved")
    <3>1. r \in unresolved_directory_records
      BY <1>3, <2>2 DEF Directory, unresolved_directory_records
    <3>2. r \in AllRecords
      BY <3>1 DEF AllRecords
    <3> QED
      BY <1>2, <3>2, PersonFields DEF NodeRecords
  <2> QED
    BY <2>1, <2>2
<1>4. ASSUME NEW m \in input.modules
      PROVE  \E r \in NodeRecords : r.subject = ModuleKey(m)
  <2> DEFINE r == Record("directory", <<"directory", m>>, "module", 0, None, None,
                         ModuleKey(m), ModuleKey(m), {}, "module")
  <2>1. r \in AllRecords
    BY DEF AllRecords, DirectoryRecords
  <2>2. r.kind = "module" /\ r.subject = ModuleKey(m)
    BY DEF Record
  <2> QED
    BY <1>2, <2>1, <2>2 DEF NodeRecords
<1>5. ASSUME NEW a \in Artifacts
      PROVE  a \in NodeRecords
  BY <1>2, ArtifactNamed DEF NodeRecords
<1>6. ASSUME NEW f \in input.facts, f.kind = "module"
      PROVE  f \in NodeRecords
  BY <1>2, <1>6 DEF NodeRecords, AllRecords
<1> QED
  BY <1>1, <1>3, <1>4, <1>5, <1>6 DEF ExpectedKeys, SubjectsOf

-----------------------------------------------------------------------------
(* Records that contradict one another.                                    *)

Conflict(r, s) == r # s /\ r.source = s.source /\ r.xid = s.xid

LEMMA ArtifactFields ==
    ASSUME NEW row
    PROVE  /\ artifact(row).source = row.kind
           /\ artifact(row).xid = <<row.kind, row.id>>
           /\ artifact(row).epoch = row.epoch
           /\ artifact(row).author = row.author
           /\ artifact(row).parent = row.parent
           /\ artifact(row).subject = ArtifactKey(row.kind, row.id)
           /\ artifact(row).mods = {ModuleKey(m) : m \in row.mods}
BY DEF artifact, Record

LEMMA CommunicationFields ==
    ASSUME NEW row, NEW h, NEW what
    PROVE  /\ communication(row, h, what).source = row.kind
           /\ communication(row, h, what).xid = <<row.kind, row.id, "communication", h>>
           /\ communication(row, h, what).subject = PersonKey(row.author)
           /\ communication(row, h, what).object = PersonKey(h)
           /\ communication(row, h, what).what = what
           /\ communication(row, h, what).kind = "communication_aggregate"
BY DEF communication, Record

LEMMA DependencyFields ==
    ASSUME NEW row, NEW m, NEW d
    PROVE  /\ dependency(row, m, d).source = row.kind
           /\ dependency(row, m, d).xid = <<row.kind, row.id, "dependency", d>>
           /\ dependency(row, m, d).subject = ModuleKey(m)
           /\ dependency(row, m, d).object = ModuleKey(d)
           /\ dependency(row, m, d).what = "explicit_reference"
           /\ dependency(row, m, d).kind = "dependency"
BY DEF dependency, Record

LEMMA CochangeFields ==
    ASSUME NEW row, NEW m, NEW n
    PROVE  /\ cochange(row, m, n).source = row.kind
           /\ cochange(row, m, n).xid = <<row.kind, row.id, "cochange", m, n>>
           /\ cochange(row, m, n).subject = ModuleKey(m)
           /\ cochange(row, m, n).object = ModuleKey(n)
           /\ cochange(row, m, n).kind = "cochange"
           /\ cochange(row, m, n).count = <<1, 1>>
BY DEF cochange, Record

LEMMA OfRows ==
    ASSUME NEW row \in Rows, NEW r \in row_records(row)
    PROVE  r \in AllRecords
BY DEF AllRecords

\* Two rows of one id with one artifact agree in what their facts quote.
LEMMA OneRow ==
    ASSUME StageInv, ~TwoRowsOfOneId, NEW a \in Rows, NEW b \in Rows,
           a.kind = b.kind, a.id = b.id
    PROVE  /\ a.epoch = b.epoch /\ a.author = b.author
           /\ {ModuleKey(m) : m \in a.mods} = {ModuleKey(m) : m \in b.mods}
<1>1. artifact(a) \in Artifacts /\ artifact(b) \in Artifacts
  BY DEF Artifacts
<1>2. artifact(a).subject = artifact(b).subject
  BY ArtifactFields
<1>3. artifact(a) = artifact(b)
  BY <1>1, <1>2 DEF TwoRowsOfOneId
<1> QED
  BY <1>3, ArtifactFields

LEMMA WaysApart ==
    \A a, b, c, d, e, f :
        <<a, b, "communication", c>> # <<d, e, "dependency", f>>
OBVIOUS

\* Records of two rows conflict only for one of three reasons.
LEMMA RowConflicts ==
    ASSUME StageInv, NEW a \in Rows, NEW b \in Rows,
           NEW r \in row_records(a), NEW s \in row_records(b), Conflict(r, s)
    PROVE  AnsweredAndNamed \/ TwoRowsOfOneId \/ DependencyTwice
<1> SUFFICES ASSUME ~TwoRowsOfOneId PROVE AnsweredAndNamed \/ DependencyTwice
  OBVIOUS
<1>1. r # s /\ r.source = s.source /\ r.xid = s.xid
  BY DEF Conflict
<1>2. a.kind = b.kind
  BY <1>1, RecordOfRow
<1> DEFINE reach(row, x) == \/ \E h \in Replied(row) : x = communication(row, h, "reply")
                            \/ \E h \in Named(row) : x = communication(row, h, Way(row))
           need(row, x) == row.kind = "git" /\ \E m \in row.mods, d \in row.deps : x = dependency(row, m, d)
           change(row, x) == \E m, n \in row.mods : x = cochange(row, m, n)
<1>3. ASSUME NEW row \in Rows, NEW x \in row_records(row)
      PROVE  x = artifact(row) \/ reach(row, x) \/ need(row, x) \/ change(row, x)
  BY RecordOfRow
<1>4. ASSUME NEW row, NEW x
      PROVE  /\ x = artifact(row) => x.xid = <<row.kind, row.id>>
             /\ reach(row, x) => \E h : x.xid = <<row.kind, row.id, "communication", h>>
             /\ need(row, x) => \E d : x.xid = <<row.kind, row.id, "dependency", d>>
             /\ change(row, x) => \E m, n : x.xid = <<row.kind, row.id, "cochange", m, n>>
  BY ArtifactFields, CommunicationFields, DependencyFields, CochangeFields
<1> HIDE DEF reach, need, change
<1>5. CASE r = artifact(a)
  <2>1. r.xid = <<a.kind, a.id>>
    BY <1>4, <1>5
  <2>2. s = artifact(b)
    <3>1. ~reach(b, s) /\ ~need(b, s) /\ ~change(b, s)
      <4>1. s.xid = <<a.kind, a.id>>
        BY <1>1, <2>1
      <4> QED
        BY <1>4, <4>1, Tuples, WaysApart
    <3> QED
      BY <1>3, <3>1
  <2>3. s.xid = <<b.kind, b.id>>
    BY <2>2, <1>4
  <2>4. a.id = b.id
    <3>1. <<a.kind, a.id>> = <<b.kind, b.id>>
      BY <1>1, <2>1, <2>3
    <3> QED
      BY <3>1, Tuples
  <2>5. r.subject = s.subject
    BY <1>2, <1>5, <2>2, <2>4, ArtifactFields
  <2>6. r \in Artifacts /\ s \in Artifacts
    BY <1>5, <2>2 DEF Artifacts
  <2> QED
    BY <1>1, <2>5, <2>6 DEF TwoRowsOfOneId
<1>6. CASE reach(a, r)
  <2>1. PICK h : r.xid = <<a.kind, a.id, "communication", h>>
    BY <1>4, <1>6
  <2>2. reach(b, s)
    <3>1. s # artifact(b) /\ ~need(b, s) /\ ~change(b, s)
      <4>1. s.xid = <<a.kind, a.id, "communication", h>>
        BY <1>1, <2>1
      <4>2. s # artifact(b)
        <5>1. artifact(b).xid = <<b.kind, b.id>>
          BY ArtifactFields
        <5>2. artifact(b).xid # s.xid
          BY <4>1, <5>1, Tuples
        <5> QED
          BY <5>2
      <4> QED
        BY <1>4, <4>1, <4>2, Tuples, WaysApart
    <3> QED
      BY <1>3, <3>1
  <2>3. PICK g, what : /\ r = communication(a, g, what)
                       /\ (g \in Replied(a) /\ what = "reply") \/ (g \in Named(a) /\ what = Way(a))
    BY <1>6 DEF reach
  <2>4. PICK k, way : /\ s = communication(b, k, way)
                      /\ (k \in Replied(b) /\ way = "reply") \/ (k \in Named(b) /\ way = Way(b))
    BY <2>2 DEF reach
  <2>5. <<a.kind, a.id, "communication", g>> = <<b.kind, b.id, "communication", k>>
    BY <1>1, <2>3, <2>4, CommunicationFields
  <2>6. a.id = b.id /\ g = k
    BY <2>5, Tuples
  <2>7. a.epoch = b.epoch /\ a.author = b.author
    BY <1>2, <2>6, OneRow
  <2>8. what # way
    <3>1. ASSUME what = way PROVE r = s
      BY <1>2, <2>3, <2>4, <2>6, <2>7, <3>1 DEF communication
    <3> QED
      BY <1>1, <3>1
  <2>9. Way(a) = Way(b)
    BY <1>2 DEF Way
  <2>10. \/ g \in Replied(a) /\ g \in Named(b)
         \/ g \in Replied(b) /\ g \in Named(a)
    BY <2>3, <2>4, <2>6, <2>8, <2>9
  <2> QED
    BY <1>2, <2>6, <2>10 DEF AnsweredAndNamed
<1>7. CASE need(a, r)
  <2>1. PICK m \in a.mods, d \in a.deps : r = dependency(a, m, d) /\ a.kind = "git"
    BY <1>7 DEF need
  <2>2. r.xid = <<a.kind, a.id, "dependency", d>>
    BY <2>1, DependencyFields
  <2>3. need(b, s)
    <3>1. s # artifact(b) /\ ~reach(b, s) /\ ~change(b, s)
      <4>1. s.xid = <<a.kind, a.id, "dependency", d>>
        BY <1>1, <2>2
      <4>2. s # artifact(b)
        <5>1. artifact(b).xid = <<b.kind, b.id>>
          BY ArtifactFields
        <5>2. artifact(b).xid # s.xid
          BY <4>1, <5>1, Tuples
        <5> QED
          BY <5>2
      <4> QED
        BY <1>4, <4>1, <4>2, Tuples, WaysApart
    <3> QED
      BY <1>3, <3>1
  <2>4. PICK n \in b.mods, e \in b.deps : s = dependency(b, n, e)
    BY <2>3 DEF need
  <2>5. <<a.kind, a.id, "dependency", d>> = <<b.kind, b.id, "dependency", e>>
    <3>1. s.xid = <<b.kind, b.id, "dependency", e>>
      BY <2>4, DependencyFields
    <3> QED
      BY <1>1, <2>2, <3>1
  <2>6. a.id = b.id /\ d = e
    BY <2>5, Tuples
  <2>7. /\ a.epoch = b.epoch
        /\ {ModuleKey(x) : x \in a.mods} = {ModuleKey(x) : x \in b.mods}
    BY <1>2, <2>6, OneRow
  <2>8. m # n
    <3>1. ASSUME m = n PROVE r = s
      BY <1>2, <2>1, <2>4, <2>6, <2>7, <3>1 DEF dependency
    <3> QED
      BY <1>1, <3>1
  <2>9. n \in a.mods
    <3>1. ModuleKey(n) \in {ModuleKey(x) : x \in a.mods}
      BY <2>4, <2>7, Zenon
    <3>2. PICK x \in a.mods : ModuleKey(n) = ModuleKey(x)
      BY <3>1, Zenon
    <3>3. n = x
      BY <3>2, KeyKinds
    <3> QED
      BY <3>3
  <2>10. a \in Rows /\ a.kind = "git" /\ a.deps # {} /\ m \in a.mods
    BY <2>1
  <2> QED
    BY <2>8, <2>9, <2>10, Zenon DEF DependencyTwice
<1>8. CASE change(a, r)
  <2>1. PICK m, n \in a.mods : r = cochange(a, m, n)
    BY <1>8 DEF change
  <2>2. r.xid = <<a.kind, a.id, "cochange", m, n>>
    BY <2>1, CochangeFields
  <2>3. change(b, s)
    <3>1. s # artifact(b) /\ ~reach(b, s) /\ ~need(b, s)
      <4>1. s.xid = <<a.kind, a.id, "cochange", m, n>>
        BY <1>1, <2>2
      <4>2. s # artifact(b)
        <5>1. artifact(b).xid = <<b.kind, b.id>>
          BY ArtifactFields
        <5>2. artifact(b).xid # s.xid
          BY <4>1, <5>1, Tuples
        <5> QED
          BY <5>2
      <4> QED
        BY <1>4, <4>1, <4>2, Tuples, WaysApart
    <3> QED
      BY <1>3, <3>1
  <2>4. PICK k, l \in b.mods : s = cochange(b, k, l)
    BY <2>3 DEF change
  <2>5. <<a.kind, a.id, "cochange", m, n>> = <<b.kind, b.id, "cochange", k, l>>
    <3>1. s.xid = <<b.kind, b.id, "cochange", k, l>>
      BY <2>4, CochangeFields
    <3> QED
      BY <1>1, <2>2, <3>1
  <2>6. a.id = b.id /\ m = k /\ n = l
    BY <2>5, Tuples
  <2>7. a.epoch = b.epoch
    BY <1>2, <2>6, OneRow
  <2>8. r = s
    BY <1>2, <2>1, <2>4, <2>6, <2>7 DEF cochange
  <2> QED
    BY <1>1, <2>8
<1> QED
  BY <1>3, <1>5, <1>6, <1>7, <1>8

LEMMA ConflictsExplained ==
    ASSUME StageInv, Conflicting(AllRecords)
    PROVE  AnsweredAndNamed \/ TwoRowsOfOneId \/ StatedOtherwise \/ DependencyTwice
<1>1. PICK r, s \in AllRecords : Conflict(r, s)
  BY DEF Conflicting, Conflict
<1> DEFINE given == input.facts \union DirectoryRecords
           ofRows(x) == \E row \in Rows : x \in row_records(row)
<1>2. CASE r \in given \/ s \in given
  BY <1>1, <1>2 DEF Conflict, StatedOtherwise
<1>3. CASE r \notin given /\ s \notin given
  <2>1. /\ r \in unresolved_directory_records \/ ofRows(r)
        /\ s \in unresolved_directory_records \/ ofRows(s)
    BY <1>1, <1>3 DEF AllRecords
  <2>2. /\ \A x \in unresolved_directory_records : x.source = "identity"
        /\ \A x \in unresolved_directory_records :
              \E h : x = PersonRecord("identity", h, "unresolved")
    BY PersonFields DEF unresolved_directory_records
  <2>3. \A x : ofRows(x) => x.source # "identity"
    BY RecordOfRow, ResolvedRow
  <2>4. CASE r \in unresolved_directory_records
    <3>1. s \in unresolved_directory_records
      BY <1>1, <2>1, <2>2, <2>3, <2>4 DEF Conflict
    <3>2. PICK g, h : /\ r = PersonRecord("identity", g, "unresolved")
                      /\ s = PersonRecord("identity", h, "unresolved")
      BY <2>2, <2>4, <3>1
    <3>3. <<"identity", g>> = <<"identity", h>>
      BY <1>1, <3>2, PersonFields DEF Conflict
    <3>4. g = h
      BY <3>3, Tuples
    <3> QED
      BY <1>1, <3>2, <3>4 DEF Conflict
  <2>5. CASE ofRows(r)
    <3>1. ofRows(s)
      BY <1>1, <2>1, <2>2, <2>3, <2>5 DEF Conflict
    <3> QED
      BY <1>1, <2>5, <3>1, RowConflicts
  <2> QED
    BY <2>1, <2>4, <2>5
<1> QED
  BY <1>2, <1>3

\* Records of the first three reasons are a conflict themselves.
LEMMA ConflictsMade ==
    ASSUME StageInv, ~Conflicting(AllRecords)
    PROVE  ~AnsweredAndNamed /\ ~TwoRowsOfOneId /\ ~StatedOtherwise
<1>1. \A r, s \in AllRecords : r.source = s.source /\ r.xid = s.xid => r = s
  BY DEF Conflicting
<1>2. ASSUME AnsweredAndNamed PROVE FALSE
  <2>1. PICK a, b \in Rows : a.kind = b.kind /\ a.id = b.id /\ Replied(a) \intersect Named(b) # {}
    BY <1>2 DEF AnsweredAndNamed
  <2>2. PICK h : h \in Replied(a) /\ h \in Named(b)
    BY <2>1
  <2> DEFINE r == communication(a, h, "reply")
             s == communication(b, h, Way(b))
  <2>3. r \in row_records(a) /\ s \in row_records(b)
    BY <2>2, RowRecords
  <2>4. r \in AllRecords /\ s \in AllRecords
    BY <2>3, OfRows
  <2>5. r.source = s.source /\ r.xid = s.xid
    BY <2>1, CommunicationFields
  <2>6. r.what = "reply" /\ s.what \in {"mention", "email"}
    BY CommunicationFields DEF Way
  <2> QED
    BY <1>1, <2>4, <2>5, <2>6
<1>3. ASSUME TwoRowsOfOneId PROVE FALSE
  <2>1. PICK a, b \in Artifacts : a # b /\ a.subject = b.subject
    BY <1>3 DEF TwoRowsOfOneId
  <2>2. a.source = b.source /\ a.xid = b.xid
    BY <2>1, ArtifactNamed, KeyKinds
  <2> QED
    BY <1>1, <2>1, <2>2, ArtifactNamed
<1>4. ASSUME StatedOtherwise PROVE FALSE
  BY <1>1, <1>4 DEF StatedOtherwise, AllRecords
<1> QED
  BY <1>2, <1>3, <1>4

-----------------------------------------------------------------------------
(* What an id can stand for.                                               *)

AllLinks == UNION {Links(a) : a \in Linking}

OfNode(i, id) == \E k \in ExpectedKeys : i = Labelled(k) /\ id = Digest(k)

OfLink(i, id) ==
    \E l \in AllLinks : i = <<l[1], <<l[1], l[2], l[3]>>>> /\ id = LinkDigest(l)

IdsKnown ==
    \A i \in DOMAIN byIdentity : OfNode(i, byIdentity[i]) \/ OfLink(i, byIdentity[i])

Relations == {"AUTHORED", "ABOUT", "REPLIES_TO", "REPORTS_TO"}

Discriminator(rel) ==
    CASE rel = "AUTHORED" -> <<"authored">> [] rel = "ABOUT" -> <<"about">>
      [] rel = "REPLIES_TO" -> <<"thread_parent">> [] rel = "REPORTS_TO" -> <<"reporting_line">>

\* What a link is of, by its relation.
LEMMA LinkParts ==
    ASSUME NEW a, NEW l \in Links(a)
    PROVE  /\ l = <<l[1], l[2], l[3], l[4]>> /\ l[1] \in Relations /\ l[4] = Discriminator(l[1])
           /\ l[1] = "AUTHORED" => a.author # None /\ l[2] = PersonKey(a.author) /\ l[3] = a.subject
           /\ l[1] = "ABOUT" => l[2] = a.subject /\ l[3] \in a.mods
           /\ l[1] = "REPLIES_TO" => /\ l[2] = a.subject /\ a.parent # None
                                     /\ l[3] = ReplyKey(a) /\ l[3] \in ExpectedKeys
           /\ l[1] = "REPORTS_TO" => l[2] = a.subject /\ a.object # None /\ l[3] = a.object
           /\ a.kind = IF l[1] = "REPORTS_TO" THEN "directory_person" ELSE "artifact"
<1>1. CASE l \in ArtifactLinks(a) /\ a.kind = "artifact"
  <2>1. CASE a.author # None /\ l = <<"AUTHORED", PersonKey(a.author), a.subject, <<"authored">>>>
    BY <1>1, <2>1 DEF Relations, Discriminator
  <2>2. CASE \E m \in a.mods : l = <<"ABOUT", a.subject, m, <<"about">>>>
    BY <1>1, <2>2 DEF Relations, Discriminator
  <2>3. CASE /\ a.parent # None /\ ReplyKey(a) \in ExpectedKeys
            /\ l = <<"REPLIES_TO", a.subject, ReplyKey(a), <<"thread_parent">>>>
    BY <1>1, <2>3 DEF Relations, Discriminator
  <2> QED
    BY <1>1, <2>1, <2>2, <2>3 DEF ArtifactLinks
<1>2. CASE /\ a.kind = "directory_person" /\ a.object # None
           /\ l = <<"REPORTS_TO", a.subject, a.object, <<"reporting_line">>>>
  BY <1>2 DEF Relations, Discriminator
<1>3. a.kind = "artifact" => Links(a) = ArtifactLinks(a)
  BY DEF Links
<1>4. a.kind # "artifact" => a.kind = "directory_person" /\ a.object # None
                             /\ l = <<"REPORTS_TO", a.subject, a.object, <<"reporting_line">>>>
  BY DEF Links
<1> QED
  BY <1>1, <1>2, <1>3, <1>4

LEMMA ExpectedKinds ==
    ASSUME StageInv, NEW k \in ExpectedKeys
    PROVE  k[1] \in {"person", "module", "artifact"} /\ Labelled(k)[1] \in Labels
           /\ Labelled(k) = <<Labelled(k)[1], k>>
<1>1. k[1] \in {"person", "module", "artifact"}
  <2>1. CASE \E a \in Artifacts : k = a.subject
    BY <2>1, ArtifactNamed, KeyKinds
  <2>2. CASE \E f \in input.facts : f.kind = "module" /\ k = f.subject
    <3>1. PICK f \in input.facts : f.kind = "module" /\ k = f.subject
      BY <2>2
    <3>2. f.subject = ModuleKey(f.xid[2])
      BY <3>1, InputAssumption DEF StageInv
    <3> QED
      BY <3>1, <3>2, KeyKinds
  <2> QED
    BY <2>1, <2>2, KeyKinds DEF ExpectedKeys
<1> QED
  BY <1>1 DEF Labelled, Labels

\* Without a collision an id stands for one thing.
LEMMA OneIdentity ==
    ASSUME StageInv, ~IdsCollide, NEW i, NEW j, NEW id,
           OfNode(i, id) \/ OfLink(i, id), OfNode(j, id) \/ OfLink(j, id)
    PROVE  i = j
<1> DEFINE pairs == {<<k, Digest(k)>> : k \in ExpectedKeys}
                    \union {<<l, LinkDigest(l)>> : l \in AllLinks}
<1>1. \A x, y \in pairs : x[2] = y[2] => x[1] = y[1]
  BY DEF IdsCollide, Distinct, AllLinks
<1>2. \A k \in ExpectedKeys : <<k, Digest(k)>> \in pairs
  OBVIOUS
<1>3. \A l \in AllLinks : <<l, LinkDigest(l)>> \in pairs
  OBVIOUS
<1> HIDE DEF pairs
<1>4. \A k, l \in ExpectedKeys : Digest(k) = Digest(l) => k = l
  BY <1>1, <1>2
<1>5. \A k, l \in AllLinks : LinkDigest(k) = LinkDigest(l) => k = l
  BY <1>1, <1>3
<1>6. \A k \in ExpectedKeys, l \in AllLinks : Digest(k) # LinkDigest(l)
  <2> SUFFICES ASSUME NEW k \in ExpectedKeys, NEW l \in AllLinks, Digest(k) = LinkDigest(l)
               PROVE  FALSE
    OBVIOUS
  <2>1. k = l
    BY <1>1, <1>2, <1>3
  <2>2. l[1] \in Relations
    BY LinkParts DEF AllLinks
  <2> QED
    BY <2>1, <2>2, ExpectedKinds DEF Relations
<1> QED
  BY <1>4, <1>5, <1>6 DEF OfNode, OfLink

\* Something has one id.
LEMMA OneId ==
    ASSUME StageInv, NEW i, NEW id, NEW jd,
           OfNode(i, id) \/ OfLink(i, id), OfNode(i, jd) \/ OfLink(i, jd)
    PROVE  id = jd
<1>1. \A k \in ExpectedKeys : Labelled(k) = <<Labelled(k)[1], k>> /\ Labelled(k)[1] \in Labels
  BY ExpectedKinds
<1>2. \A l \in AllLinks : /\ l = <<l[1], l[2], l[3], l[4]>> /\ l[1] \in Relations
                          /\ l[4] = Discriminator(l[1])
  BY LinkParts DEF AllLinks
<1>3. CASE OfNode(i, id) /\ OfNode(i, jd)
  <2>1. PICK k \in ExpectedKeys : i = Labelled(k) /\ id = Digest(k)
    BY <1>3 DEF OfNode
  <2>2. PICK l \in ExpectedKeys : i = Labelled(l) /\ jd = Digest(l)
    BY <1>3 DEF OfNode
  <2>3. <<Labelled(k)[1], k>> = <<Labelled(l)[1], l>>
    BY <1>1, <2>1, <2>2
  <2>4. k = l
    BY <2>3, Tuples
  <2> QED
    BY <2>1, <2>2, <2>4
<1>4. CASE OfLink(i, id) /\ OfLink(i, jd)
  <2>1. PICK k \in AllLinks : i = <<k[1], <<k[1], k[2], k[3]>>>> /\ id = LinkDigest(k)
    BY <1>4 DEF OfLink
  <2>2. PICK l \in AllLinks : i = <<l[1], <<l[1], l[2], l[3]>>>> /\ jd = LinkDigest(l)
    BY <1>4 DEF OfLink
  <2>3. <<k[1], k[2], k[3]>> = <<l[1], l[2], l[3]>>
    BY <2>1, <2>2, Tuples
  <2>4. k[1] = l[1] /\ k[2] = l[2] /\ k[3] = l[3]
    BY <2>3, Tuples
  <2>5. k = l
    BY <1>2, <2>4
  <2> QED
    BY <2>1, <2>2, <2>5
<1>5. ASSUME NEW d, NEW e, OfNode(i, d), OfLink(i, e)
      PROVE  FALSE
  <2>1. PICK k \in ExpectedKeys : i = Labelled(k)
    BY <1>5 DEF OfNode
  <2>2. PICK l \in AllLinks : i = <<l[1], <<l[1], l[2], l[3]>>>>
    BY <1>5 DEF OfLink
  <2>3. i[1] = l[1] /\ l[1] \in Relations
    BY <1>2, <2>2
  <2>4. i[1] \in Labels
    BY <1>1, <2>1
  <2> QED
    BY <2>3, <2>4 DEF Labels, Relations
<1> QED
  BY <1>3, <1>4, <1>5

LEMMA Registers ==
    ASSUME StageInv, RegistryOneToOne, IdsKnown, ~IdsCollide, NEW i, NEW id,
           OfNode(i, id) \/ OfLink(i, id)
    PROVE  Registrable(i, id)
<1>1. CASE i \in DOMAIN byIdentity
  BY <1>1, OneId DEF Registrable, IdsKnown
<1>2. CASE i \notin DOMAIN byIdentity
  <2> SUFFICES ASSUME id \in DOMAIN byId PROVE byId[id] = i
    BY <1>2 DEF Registrable
  <2>1. byId[id] \in DOMAIN byIdentity /\ byIdentity[byId[id]] = id
    BY DEF RegistryOneToOne
  <2>2. OfNode(byId[id], id) \/ OfLink(byId[id], id)
    BY <2>1 DEF IdsKnown
  <2> QED
    BY <2>2, OneIdentity
<1> QED
  BY <1>1, <1>2

\* The id of a node is the digest of its key.
LEMMA NodeIds ==
    ASSUME GInv, TypeOK, StageInv, IdsKnown, NEW k \in DOMAIN nodes
    PROVE  nodes[k].id = Digest(k)
<1> DEFINE i == <<nodes[k].label, k>>
<1>1. i \in DOMAIN byIdentity /\ byIdentity[i] = nodes[k].id
  BY DEF GInv, NodesRegistered
<1>2. i[1] \in Labels /\ i[2] = k
  BY DEF TypeOK, Labels
<1> HIDE DEF i
<1>3. ~OfLink(i, nodes[k].id)
  <2> SUFFICES ASSUME NEW l \in AllLinks, i = <<l[1], <<l[1], l[2], l[3]>>>>
               PROVE  FALSE
    BY DEF OfLink
  <2>1. l[1] \in Relations
    BY LinkParts DEF AllLinks
  <2> QED
    BY <1>2, <2>1 DEF Labels, Relations
<1>4. PICK j \in ExpectedKeys : i = Labelled(j) /\ nodes[k].id = Digest(j)
  BY <1>1, <1>3 DEF IdsKnown, OfNode
<1>5. j = k
  BY <1>2, <1>4, ExpectedKinds
<1> QED
  BY <1>4, <1>5

-----------------------------------------------------------------------------
(* Rows of one key.                                                        *)

LEMMA MergedAgrees ==
    ASSUME NEW f, NEW k, NEW v, k \in DOMAIN f => SameBut(f[k], v)
    PROVE  SameBut(Merged(f, k, v), v)
<1>1. CASE k \notin DOMAIN f
  BY <1>1 DEF Merged, SameBut
<1>2. CASE k \in DOMAIN f
  <2> DEFINE a == f[k]
             x == a.evidence \union v.evidence
  <2>1. Merged(f, k, v) = [a EXCEPT !.evidence = x] /\ SameBut(a, v)
    BY <1>2 DEF Merged
  <2> HIDE DEF a, x
  <2>2. [[a EXCEPT !.evidence = x] EXCEPT !.evidence = {}] = [a EXCEPT !.evidence = {}]
    OBVIOUS
  <2> QED
    BY <2>1, <2>2 DEF SameBut
<1> QED
  BY <1>1, <1>2

\* Without conflicts a node is of one record.
LEMMA OneRecordEach ==
    ASSUME StageInv, ~Conflicting(AllRecords), NEW r \in NodeRecords, NEW s \in NodeRecords,
           r.subject = s.subject
    PROVE  r = s
<1>1. PICK x : APerson(r, x) \/ AModule(r, x) \/ AnArtifact(r, x)
  BY NodeRecordOf
<1>2. PICK y : APerson(s, y) \/ AModule(s, y) \/ AnArtifact(s, y)
  BY NodeRecordOf
<1>3. r \in AllRecords /\ s \in AllRecords
  BY DEF NodeRecords
<1>4. CASE APerson(r, x)
  <2>1. APerson(s, y) /\ x = y
    BY <1>2, <1>4, KeyKinds DEF APerson, AModule, AnArtifact
  <2> QED
    BY <1>4, <2>1 DEF APerson
<1>5. CASE AModule(r, x)
  <2>1. AModule(s, y) /\ x = y
    BY <1>2, <1>5, KeyKinds DEF APerson, AModule, AnArtifact
  <2> QED
    BY <1>3, <1>5, <2>1 DEF AModule, Conflicting
<1>6. CASE AnArtifact(r, x)
  <2>1. AnArtifact(s, y) /\ x = y /\ r.source = s.source
    BY <1>2, <1>6, KeyKinds DEF APerson, AModule, AnArtifact
  <2> QED
    BY <1>3, <1>6, <2>1 DEF AnArtifact, Conflicting
<1> QED
  BY <1>1, <1>4, <1>5, <1>6

NodesFound ==
    \A k \in DOMAIN nodes : \E r \in NodeRecords : r.subject = k /\ SameBut(nodes[k], Node(r))

LEMMA NodeIdentity ==
    ASSUME StageInv, NEW r \in NodeRecords
    PROVE  /\ r.subject \in ExpectedKeys
           /\ <<NodeLabel(r), r.subject>> = Labelled(r.subject)
           /\ Node(r).id = Digest(r.subject)
<1>1. r.subject \in ExpectedKeys
  BY NodesExpected DEF SubjectsOf
<1> QED
  BY <1>1, LabelOfKey DEF Node, Digest

\* A node is refused for a collision of digests only.
LEMMA NodeRefused ==
    ASSUME StageInv, RegistryOneToOne, IdsKnown, NodesFound, ~Conflicting(AllRecords),
           NEW r \in NodeRecords, ~CanAddNode(r)
    PROVE  IdsCollide
<1> SUFFICES ASSUME ~IdsCollide PROVE CanAddNode(r)
  OBVIOUS
<1> DEFINE i == <<NodeLabel(r), r.subject>>
<1>1. OfNode(i, Node(r).id)
  BY NodeIdentity DEF OfNode
<1> HIDE DEF i
<1>2. Registrable(i, Node(r).id)
  BY <1>1, Registers
<1>3. ASSUME r.subject \in DOMAIN nodes
      PROVE  SameBut(nodes[r.subject], Node(r))
  <2>1. PICK s \in NodeRecords : s.subject = r.subject /\ SameBut(nodes[r.subject], Node(s))
    BY <1>3 DEF NodesFound
  <2>2. s = r
    BY <2>1, OneRecordEach
  <2> QED
    BY <2>1, <2>2
<1> QED
  BY <1>2, <1>3 DEF CanAddNode, i

-----------------------------------------------------------------------------
(* The edges that records ask for.                                         *)

LinkOf(e) == <<e.rel, e.source, e.target, e.disc>>

LEMMA LinkingRecords ==
    ASSUME StageInv, NEW a \in Linking
    PROVE  /\ a \in AllRecords /\ a \in NodeRecords /\ a.subject \in ExpectedKeys
           /\ \/ a \in Artifacts /\ a.kind = "artifact"
              \/ a \in DirectoryPeople /\ a.kind = "directory_person"
<1>1. a \in Artifacts => a \in AllRecords /\ a.kind = "artifact"
  BY ArtifactsOfRecords
<1>2. a \in DirectoryPeople => a \in AllRecords /\ a.kind = "directory_person"
  BY PersonFields DEF DirectoryPeople, AllRecords, DirectoryRecords
<1>3. a \in AllRecords /\ a.kind \in {"artifact", "directory_person"}
  BY <1>1, <1>2 DEF Linking
<1>4. a \in NodeRecords
  BY <1>3, NoneIsNoLabel DEF NodeRecords, NodeLabel
<1> QED
  BY <1>1, <1>2, <1>4, NodeIdentity DEF Linking

\* With all nodes there, they are the links of what states edges.
LEMMA ObservedLinks ==
    ASSUME StageInv, pc \in {"edges", "gaps", "compose", "done"}, NEW e
    PROVE  e \in Observed <=>
           \E a \in Linking : LinkOf(e) \in Links(a)
                               /\ e = Edge(e.rel, e.source, e.target, e.disc, a)
<1>1. DOMAIN nodes = ExpectedKeys
  BY NodesExpected DEF StageInv, NodesDone
<1>2. ASSUME NEW r \in AllRecords, r.kind = "directory_person", r.object # None
      PROVE  r \in DirectoryPeople
  <2>1. r \in NodeRecords
    BY <1>2, NoneIsNoLabel DEF NodeRecords, NodeLabel
  <2>2. PICK x : APerson(r, x) \/ AModule(r, x) \/ AnArtifact(r, x)
    BY <2>1, NodeRecordOf
  <2>3. APerson(r, x)
    BY <1>2, <2>2 DEF APerson, AModule, AnArtifact
  <2>4. x \in input.people
    <3> SUFFICES ASSUME x \notin input.people PROVE r.object = None
      BY <1>2
    <3> QED
      BY <2>3 DEF APerson, PersonRecord, ManagerKey, Record
  <2> QED
    BY <2>3, <2>4 DEF APerson, DirectoryPeople
<1>3. ASSUME NEW a \in Linking
      PROVE  ObservedEdges(a) = {Edge(l[1], l[2], l[3], l[4], a) : l \in Links(a)}
  <2> DEFINE edge(l) == Edge(l[1], l[2], l[3], l[4], a)
             authored == <<"AUTHORED", PersonKey(a.author), a.subject, <<"authored">>>>
             about(m) == <<"ABOUT", a.subject, m, <<"about">>>>
             replies == <<"REPLIES_TO", a.subject, ReplyKey(a), <<"thread_parent">>>>
             reports == <<"REPORTS_TO", a.subject, a.object, <<"reporting_line">>>>
  <2>1. AuthorshipEdges(a) = {edge(l) : l \in IF a.author = None THEN {} ELSE {authored}}
    <3>1. edge(authored) = Edge("AUTHORED", PersonKey(a.author), a.subject, <<"authored">>, a)
      OBVIOUS
    <3> HIDE DEF edge, authored
    <3> QED
      BY <3>1 DEF AuthorshipEdges
  <2>2. AboutEdges(a) = {edge(l) : l \in {about(m) : m \in a.mods}}
    <3>1. \A m : edge(about(m)) = Edge("ABOUT", a.subject, m, <<"about">>, a)
      OBVIOUS
    <3> HIDE DEF edge, about
    <3> QED
      BY <3>1 DEF AboutEdges
  <2>3. ReplyEdges(a) = {edge(l) : l \in IF a.parent = None \/ ReplyKey(a) \notin ExpectedKeys
                                         THEN {} ELSE {replies}}
    <3>1. edge(replies) = Edge("REPLIES_TO", a.subject, ReplyKey(a), <<"thread_parent">>, a)
      OBVIOUS
    <3> HIDE DEF edge, replies
    <3> QED
      BY <1>1, <3>1 DEF ReplyEdges
  <2>4. ReportingEdges(a) = {edge(l) : l \in IF a.object = None THEN {} ELSE {reports}}
    <3>1. edge(reports) = Edge("REPORTS_TO", a.subject, a.object, <<"reporting_line">>, a)
      OBVIOUS
    <3> HIDE DEF edge, reports
    <3> QED
      BY <3>1 DEF ReportingEdges
  <2>5. CASE a.kind = "artifact"
    <3>1. Links(a) = (IF a.author = None THEN {} ELSE {authored})
                     \union {about(m) : m \in a.mods}
                     \union (IF a.parent = None \/ ReplyKey(a) \notin ExpectedKeys
                             THEN {} ELSE {replies})
      BY <2>5 DEF Links, ArtifactLinks
    <3>2. ObservedEdges(a) = AuthorshipEdges(a) \union AboutEdges(a) \union ReplyEdges(a)
      BY <2>5 DEF ObservedEdges
    <3> HIDE DEF edge, authored, about, replies, reports
    <3>3. ObservedEdges(a) = {edge(l) : l \in Links(a)}
      BY <2>1, <2>2, <2>3, <3>1, <3>2
    <3> QED
      BY <3>3 DEF edge
  <2>6. CASE a.kind = "directory_person"
    <3>1. Links(a) = IF a.object = None THEN {} ELSE {reports}
      BY <2>6 DEF Links
    <3>2. ObservedEdges(a) = ReportingEdges(a)
      BY <2>6 DEF ObservedEdges
    <3> HIDE DEF edge, authored, about, replies, reports
    <3>3. ObservedEdges(a) = {edge(l) : l \in Links(a)}
      BY <2>4, <3>1, <3>2
    <3> QED
      BY <3>3 DEF edge
  <2> QED
    BY <2>5, <2>6, LinkingRecords
<1>4. ASSUME NEW a \in Linking, NEW x
      PROVE  x \in ObservedEdges(a)
             <=> LinkOf(x) \in Links(a) /\ x = Edge(x.rel, x.source, x.target, x.disc, a)
  <2> DEFINE edge(l) == Edge(l[1], l[2], l[3], l[4], a)
  <2>1. \A l : /\ edge(l).rel = l[1] /\ edge(l).source = l[2] /\ edge(l).target = l[3]
               /\ edge(l).disc = l[4]
    BY DEF Edge
  <2>2. ObservedEdges(a) = {edge(l) : l \in Links(a)}
    BY <1>3
  <2>3. \A l \in Links(a) : l = <<l[1], l[2], l[3], l[4]>>
    BY LinkParts
  <2>4. edge(LinkOf(x)) = Edge(x.rel, x.source, x.target, x.disc, a)
    BY DEF LinkOf
  <2> HIDE DEF edge
  <2>5. ASSUME NEW l \in Links(a), x = edge(l)
        PROVE  LinkOf(x) = l
    BY <2>1, <2>3, <2>5 DEF LinkOf
  <2> QED
    BY <2>2, <2>4, <2>5
<1>5. ASSUME e \in Observed
      PROVE  \E a \in Linking : e \in ObservedEdges(a)
  <2>1. PICK r \in AllRecords : e \in ObservedEdges(r)
    BY <1>5 DEF Observed
  <2>2. CASE r.kind = "directory_person"
    <3>1. r.object # None
      BY <2>1, <2>2 DEF ObservedEdges, ReportingEdges
    <3> QED
      BY <1>2, <2>1, <2>2, <3>1 DEF Linking
  <2>3. CASE r.kind # "directory_person"
    <3>1. r.kind = "artifact"
      BY <2>1, <2>3 DEF ObservedEdges
    <3> QED
      BY <2>1, <3>1, ArtifactsOfRecords DEF Linking
  <2> QED
    BY <2>2, <2>3
<1>6. ASSUME NEW a \in Linking, e \in ObservedEdges(a)
      PROVE  e \in Observed
  BY <1>6, LinkingRecords DEF Observed
<1> QED
  BY <1>4, <1>5, <1>6

\* Two that have one key are one.
LEMMA OneEdgeEach ==
    ASSUME StageInv, ~Conflicting(AllRecords), pc \in {"edges", "gaps", "compose", "done"},
           NEW e \in Observed, NEW f \in Observed, EdgeKey(e) = EdgeKey(f)
    PROVE  e = f
<1>1. PICK a \in Linking : LinkOf(e) \in Links(a) /\ e = Edge(e.rel, e.source, e.target, e.disc, a)
  BY ObservedLinks
<1>2. PICK b \in Linking : LinkOf(f) \in Links(b) /\ f = Edge(f.rel, f.source, f.target, f.disc, b)
  BY ObservedLinks
<1>3. e.rel = f.rel /\ e.source = f.source /\ e.target = f.target
  BY Tuples DEF EdgeKey
<1> DEFINE l == LinkOf(e)
           m == LinkOf(f)
<1>4. /\ l[1] = e.rel /\ l[2] = e.source /\ l[3] = e.target /\ l[4] = e.disc
      /\ m[1] = f.rel /\ m[2] = f.source /\ m[3] = f.target /\ m[4] = f.disc
  BY DEF LinkOf
<1> HIDE DEF l, m
<1>5. l \in Links(a) /\ m \in Links(b)
  BY <1>1, <1>2 DEF l, m
<1>6. e.disc = f.disc
  BY <1>3, <1>4, <1>5, LinkParts
<1>7. a.subject = b.subject
  <2>1. /\ l[1] \in Relations
        /\ l[1] = "AUTHORED" => l[3] = a.subject
        /\ l[1] \in {"ABOUT", "REPLIES_TO", "REPORTS_TO"} => l[2] = a.subject
    BY <1>5, LinkParts
  <2>2. /\ m[1] = "AUTHORED" => m[3] = b.subject
        /\ m[1] \in {"ABOUT", "REPLIES_TO", "REPORTS_TO"} => m[2] = b.subject
    BY <1>5, LinkParts
  <2> QED
    BY <1>3, <1>4, <2>1, <2>2 DEF Relations
<1>8. a = b
  BY <1>7, LinkingRecords, OneRecordEach
<1> QED
  BY <1>1, <1>2, <1>3, <1>6, <1>8

EdgesFound ==
    \A k \in DOMAIN edges : \E e \in Observed : EdgeKey(e) = k /\ SameBut(edges[k], e)

Unmet == MappedToNobody \/ ManagerUnknown \/ ModuleOfNoDirectory \/ FactOfUnknown

\* The manager of a person is nobody, or a person of the directory.
LEMMA ManagerUnmet ==
    ASSUME StageInv, NEW a \in DirectoryPeople, a.object # None, a.object \notin ExpectedKeys
    PROVE  ManagerUnknown
<1>1. PICK h \in input.people : a = PersonRecord("directory", h, "directory")
  BY DEF DirectoryPeople
<1>2. a.object = ManagerKey(h)
  BY <1>1 DEF PersonRecord, Record
<1>3. h \in DOMAIN input.reports /\ a.object = PersonKey(input.reports[h])
  BY <1>2 DEF ManagerKey
<1>4. input.reports[h] \notin Directory
  BY <1>3 DEF ExpectedKeys
<1> QED
  BY <1>3, <1>4 DEF ManagerUnknown

\* The ends of what a record states are nodes, or a row, a fact or the
\* directory names what nobody knows.
LEMMA LinkUnmet ==
    ASSUME StageInv, NEW a \in Linking, NEW l \in Links(a), ~ {l[2], l[3]} \subseteq ExpectedKeys
    PROVE  Unmet
<1>1. a.subject \in ExpectedKeys
  BY LinkingRecords
<1>2. \/ a \in DirectoryPeople /\ a.object # None /\ a.object \notin ExpectedKeys
      \/ a.kind = "artifact" /\ a.author # None /\ PersonKey(a.author) \notin ExpectedKeys
      \/ a.kind = "artifact" /\ \E m \in a.mods : m \notin ExpectedKeys
  BY <1>1, LinkParts, LinkingRecords DEF Relations
<1> SUFFICES ASSUME a \in Artifacts, \/ a.author # None /\ PersonKey(a.author) \notin ExpectedKeys
                                     \/ \E m \in a.mods : m \notin ExpectedKeys
             PROVE  Unmet
  BY <1>2, LinkingRecords, ManagerUnmet DEF Unmet
<1>3. CASE a \in input.facts
  <2>1. a.kind = "artifact"
    BY ArtifactNamed
  <2>2. ~ Needed(a) \subseteq ExpectedKeys
    BY <2>1 DEF Needed
  <2> QED
    BY <1>3, <2>2 DEF Unmet, FactOfUnknown
<1>4. CASE a \notin input.facts
  <2>1. PICK row \in Rows : a = artifact(row)
    BY <1>4 DEF Artifacts
  <2>2. a.author = row.author /\ a.mods = {ModuleKey(m) : m \in row.mods}
    BY <2>1, ArtifactFields
  <2>3. CASE PersonKey(row.author) \notin ExpectedKeys
    <3>1. row.author \notin Directory
      BY <2>3 DEF ExpectedKeys
    <3>2. row.author \in PeopleOf(row)
      BY DEF PeopleOf
    <3> QED
      BY <3>1, <3>2 DEF Unmet, MappedToNobody
  <2>4. CASE \E m \in row.mods : ModuleKey(m) \notin ExpectedKeys
    BY <2>4 DEF Unmet, ModuleOfNoDirectory
  <2> QED
    BY <2>2, <2>3, <2>4
<1> QED
  BY <1>3, <1>4

\* An edge is refused for a collision, or for an end that is not there.
LEMMA EdgeRefused ==
    ASSUME StageInv, TypeOK, GInv, IdsKnown, EdgesFound, ~Conflicting(AllRecords), pc = "edges",
           NEW e \in Observed, ~CanAddEdge(e)
    PROVE  IdsCollide \/ Unmet
<1> SUFFICES ASSUME ~IdsCollide, ~Unmet PROVE CanAddEdge(e)
  OBVIOUS
<1>1. PICK a \in Linking : LinkOf(e) \in Links(a) /\ e = Edge(e.rel, e.source, e.target, e.disc, a)
  BY ObservedLinks
<1> DEFINE l == LinkOf(e)
<1>2. l[1] = e.rel /\ l[2] = e.source /\ l[3] = e.target /\ l[4] = e.disc
  BY DEF LinkOf
<1>3. l \in Links(a) /\ l \in AllLinks
  BY <1>1 DEF AllLinks
<1> HIDE DEF l
<1>4. {e.source, e.target} \subseteq ExpectedKeys
  BY <1>2, <1>3, LinkUnmet
<1>5. DOMAIN nodes = ExpectedKeys
  BY NodesExpected DEF StageInv, NodesDone
<1>6. EdgeId(e) = LinkDigest(l)
  <2>1. nodes[e.source].id = Digest(e.source) /\ nodes[e.target].id = Digest(e.target)
    BY <1>4, <1>5, NodeIds
  <2> QED
    BY <1>2, <2>1 DEF EdgeId, LinkDigest
<1> DEFINE i == <<e.rel, EdgeKey(e)>>
<1>7. OfLink(i, EdgeId(e))
  <2>1. i = <<l[1], <<l[1], l[2], l[3]>>>>
    BY <1>2 DEF EdgeKey
  <2> HIDE DEF i
  <2> QED
    BY <1>3, <1>6, <2>1 DEF OfLink
<1> HIDE DEF i
<1>8. Registrable(i, EdgeId(e))
  BY <1>7, Registers DEF GInv
<1>9. ASSUME EdgeKey(e) \in DOMAIN edges
      PROVE  SameBut(edges[EdgeKey(e)], e)
  <2>1. PICK f \in Observed : EdgeKey(f) = EdgeKey(e) /\ SameBut(edges[EdgeKey(e)], f)
    BY <1>9 DEF EdgesFound
  <2>2. f = e
    BY <2>1, OneEdgeEach
  <2> QED
    BY <2>1, <2>2
<1> QED
  BY <1>4, <1>5, <1>8, <1>9 DEF CanAddEdge, i

-----------------------------------------------------------------------------
(* Whom and what the records name.                                         *)

StatingKinds ==
    {"communication_aggregate", "authorship_aggregate", "ownership_assertion", "dependency",
     "cochange"}

LEMMA StatingRecord ==
    ASSUME StageInv, NEW r \in AllRecords, r.kind \in StatingKinds
    PROVE  r \in input.facts \/ \E row \in Rows : r \in row_records(row)
BY DirectoryKinds DEF AllRecords, StatingKinds

\* What a record states is of nodes, or it is of what nobody knows.
LEMMA RecordUnmet ==
    ASSUME StageInv, NEW r \in AllRecords, r.kind \in StatingKinds,
           ~ {r.subject, r.object} \subseteq ExpectedKeys
    PROVE  Unmet
<1>1. CASE r \in input.facts
  <2>1. Needed(r) = {r.subject, r.object}
    BY DEF Needed, StatingKinds
  <2> QED
    BY <1>1, <2>1 DEF Unmet, FactOfUnknown
<1>2. CASE \E row \in Rows : r \in row_records(row)
  <2>1. PICK row \in Rows : r \in row_records(row)
    BY <1>2
  <2>2. \A h : PersonKey(h) \notin ExpectedKeys => h \notin Directory
    BY DEF ExpectedKeys
  <2>3. ASSUME NEW h \in Replied(row) \union Named(row), NEW what, r = communication(row, h, what)
        PROVE  Unmet
    <3>1. r.subject = PersonKey(row.author) /\ r.object = PersonKey(h)
      BY <2>3, CommunicationFields
    <3>2. {row.author, h} \subseteq PeopleOf(row)
      BY <2>3 DEF PeopleOf, Replied, Named
    <3>3. ~ {row.author, h} \subseteq Directory
      BY <2>2, <3>1
    <3> QED
      BY <3>2, <3>3 DEF Unmet, MappedToNobody
  <2> DEFINE named == row.mods \union (IF row.kind = "git" /\ row.mods # {} THEN row.deps ELSE {})
  <2>4. ASSUME NEW m \in named, NEW n \in named,
               r.subject = ModuleKey(m), r.object = ModuleKey(n)
        PROVE  Unmet
    <3>1. ~ {ModuleKey(x) : x \in named} \subseteq ExpectedKeys
      BY <2>4
    <3> QED
      BY <3>1 DEF Unmet, ModuleOfNoDirectory
  <2>5. CASE \E h \in Replied(row) : r = communication(row, h, "reply")
    BY <2>3, <2>5
  <2>6. CASE \E h \in Named(row) : r = communication(row, h, Way(row))
    BY <2>3, <2>6
  <2>7. CASE row.kind = "git" /\ \E m \in row.mods, d \in row.deps : r = dependency(row, m, d)
    BY <2>4, <2>7, DependencyFields
  <2>8. CASE \E m, n \in row.mods : r = cochange(row, m, n)
    BY <2>4, <2>8, CochangeFields
  <2>9. r.kind # "artifact"
    BY DEF StatingKinds
  <2> QED
    BY <2>1, <2>5, <2>6, <2>7, <2>8, <2>9, RecordOfRow
<1> QED
  BY <1>1, <1>2, StatingRecord

LEMMA PeopleExpected ==
    ASSUME StageInv, NEW h, PersonKey(h) \in ExpectedKeys
    PROVE  h \in Directory
<1>1. \A a \in Artifacts : a.subject # PersonKey(h)
  BY ArtifactNamed, KeyKinds
<1>2. ASSUME NEW f \in input.facts, f.kind = "module"
      PROVE  f.subject # PersonKey(h)
  <2>1. f.subject = ModuleKey(f.xid[2])
    BY <1>2, InputAssumption DEF StageInv
  <2> QED
    BY <2>1, KeyKinds
<1> QED
  BY <1>1, <1>2, KeyKinds DEF ExpectedKeys

\* Conversely, a link or a record shows it.
LEMMA UnmetShows ==
    ASSUME StageInv, Unmet
    PROVE  \/ \E a \in Linking : \E l \in Links(a) : ~ {l[2], l[3]} \subseteq ExpectedKeys
           \/ \E r \in AllRecords : /\ r.kind \in StatingKinds
                                    /\ ~ {r.subject, r.object} \subseteq ExpectedKeys
<1>1. ASSUME NEW a \in Artifacts, a.author # None, PersonKey(a.author) \notin ExpectedKeys
      PROVE  a \in Linking /\ \E l \in Links(a) : ~ {l[2], l[3]} \subseteq ExpectedKeys
  <2> DEFINE l == <<"AUTHORED", PersonKey(a.author), a.subject, <<"authored">>>>
  <2>1. l \in Links(a) /\ l[2] = PersonKey(a.author)
    BY <1>1, ArtifactsOfRecords DEF Links, ArtifactLinks
  <2> HIDE DEF l
  <2> QED
    BY <1>1, <2>1 DEF Linking
<1>2. ASSUME NEW a \in Artifacts, NEW m \in a.mods, m \notin ExpectedKeys
      PROVE  a \in Linking /\ \E l \in Links(a) : ~ {l[2], l[3]} \subseteq ExpectedKeys
  <2> DEFINE l == <<"ABOUT", a.subject, m, <<"about">>>>
  <2>1. l \in Links(a) /\ l[3] = m
    BY ArtifactsOfRecords DEF Links, ArtifactLinks
  <2> HIDE DEF l
  <2> QED
    BY <1>2, <2>1 DEF Linking
<1>3. ASSUME NEW row \in Rows
      PROVE  /\ artifact(row) \in Artifacts /\ artifact(row).author = row.author /\ row.author # None
             /\ artifact(row).mods = {ModuleKey(m) : m \in row.mods}
  BY ArtifactFields, ResolvedRow DEF Artifacts
<1>4. CASE MappedToNobody
  <2>1. PICK row \in Rows : \E h \in PeopleOf(row) : h \notin Directory
    BY <1>4 DEF MappedToNobody
  <2> PICK h \in PeopleOf(row) : h \notin Directory
    BY <2>1
  <2>2. PersonKey(h) \notin ExpectedKeys
    BY PeopleExpected
  <2>3. CASE h = row.author
    BY <1>1, <1>3, <2>2, <2>3
  <2>4. CASE h # row.author
    <3>1. h \in Replied(row) \union Named(row)
      BY <2>4 DEF PeopleOf, Replied, Named
    <3>2. \E what : communication(row, h, what) \in row_records(row)
      BY <3>1, RowRecords
    <3>3. PICK what : communication(row, h, what) \in AllRecords
      BY <3>2, OfRows
    <3> QED
      BY <2>2, <3>3, CommunicationFields DEF StatingKinds
  <2> QED
    BY <2>3, <2>4
<1>5. CASE ModuleOfNoDirectory
  <2>1. PICK row \in Rows :
          LET named == row.mods \union (IF row.kind = "git" /\ row.mods # {} THEN row.deps ELSE {})
          IN  ~ {ModuleKey(m) : m \in named} \subseteq ExpectedKeys
    BY <1>5 DEF ModuleOfNoDirectory
  <2>2. CASE \E m \in row.mods : ModuleKey(m) \notin ExpectedKeys
    BY <1>2, <1>3, <2>2
  <2>3. CASE row.kind = "git" /\ row.mods # {} /\ \E d \in row.deps : ModuleKey(d) \notin ExpectedKeys
    <3>1. PICK m \in row.mods, d \in row.deps : ModuleKey(d) \notin ExpectedKeys
      BY <2>3
    <3>2. dependency(row, m, d) \in row_records(row)
      <4>1. <<m, d>> \in {q \in row.mods \X row.deps : row.kind = "git"}
        BY <2>3
      <4>2. <<m, d>>[1] = m /\ <<m, d>>[2] = d
        OBVIOUS
      <4> QED
        BY <4>1, <4>2, RowRecords
    <3>3. dependency(row, m, d) \in AllRecords
      BY <3>2, OfRows
    <3> QED
      BY <3>1, <3>3, DependencyFields DEF StatingKinds
  <2> QED
    BY <2>1, <2>2, <2>3
<1>6. CASE FactOfUnknown
  <2>1. PICK f \in input.facts : ~ Needed(f) \subseteq ExpectedKeys
    BY <1>6 DEF FactOfUnknown
  <2>2. f.kind \in FactKinds /\ f \in AllRecords
    BY InputAssumption DEF StageInv, AllRecords
  <2>3. CASE f.kind = "artifact"
    <3>1. f \in Artifacts
      BY <2>3 DEF Artifacts
    <3>2. Needed(f) = f.mods \union (IF f.author = None THEN {} ELSE {PersonKey(f.author)})
      BY <2>3 DEF Needed
    <3> QED
      BY <1>1, <1>2, <2>1, <3>1, <3>2
  <2>4. CASE f.kind = "module"
    BY <2>1, <2>4 DEF Needed
  <2>5. CASE f.kind \in StatingKinds
    <3>1. Needed(f) = {f.subject, f.object}
      BY <2>5 DEF Needed, StatingKinds
    <3> QED
      BY <2>1, <2>2, <2>5, <3>1
  <2> QED
    BY <2>2, <2>3, <2>4, <2>5 DEF FactKinds, StatingKinds
<1>7. CASE ManagerUnknown
  <2>1. PICK h \in input.people \intersect DOMAIN input.reports : input.reports[h] \notin Directory
    BY <1>7 DEF ManagerUnknown
  <2> DEFINE a == PersonRecord("directory", h, "directory")
             m == PersonKey(input.reports[h])
  <2>2. m \notin ExpectedKeys
    BY <2>1, PeopleExpected
  <2>3. m # None
    BY <2>1, NoneIsNobody DEF StageInv
  <2>4. a \in Linking /\ a.kind = "directory_person" /\ a.object = m
    BY <2>1 DEF Linking, DirectoryPeople, PersonRecord, Record, ManagerKey
  <2> HIDE DEF a, m
  <2> DEFINE l == <<"REPORTS_TO", a.subject, a.object, <<"reporting_line">>>>
  <2>5. l \in Links(a) /\ l[3] = m
    BY <2>3, <2>4 DEF Links
  <2> HIDE DEF l
  <2> QED
    BY <2>2, <2>4, <2>5
<1> QED
  BY <1>4, <1>5, <1>6, <1>7 DEF Unmet

\* Only facts can be invalid: rows state what derive_edges accepts.
LEMMA RowsAreValid ==
    ASSUME StageInv, NEW r \in AllRecords, Invalid(r)
    PROVE  FactInvalid
<1>1. r.kind \in StatingKinds
  BY DEF Invalid, StatingKinds
<1>2. CASE r \in input.facts
  BY <1>2 DEF FactInvalid
<1>3. ASSUME NEW row \in Rows, r \in row_records(row)
      PROVE  FALSE
  <2>1. CASE \E h, what : r = communication(row, h, what) /\ what \in {"reply", "mention", "email"}
    BY <2>1, CommunicationFields DEF Invalid
  <2>2. CASE \E m, d : r = dependency(row, m, d)
    BY <2>2, DependencyFields DEF Invalid
  <2>3. CASE \E m, n : Before(m, n) /\ r = cochange(row, m, n)
    <3>1. PICK m, n : Before(m, n) /\ r = cochange(row, m, n)
      BY <2>3
    <3>2. r.kind = "cochange" /\ r.subject = ModuleKey(m) /\ r.object = ModuleKey(n) /\ r.count = <<1, 1>>
      BY <3>1, CochangeFields
    <3>3. m # n
      BY <3>1 DEF Before
    <3>4. r.subject # r.object /\ r.count[1] = 1
      BY <3>2, <3>3, KeyKinds
    <3> QED
      BY <3>2, <3>4 DEF Invalid
  <2>4. Way(row) \in {"mention", "email"}
    BY DEF Way
  <2>5. r.kind # "artifact"
    BY <1>1 DEF StatingKinds
  <2> QED
    BY <1>3, <2>1, <2>2, <2>3, <2>4, <2>5, RecordOfRow
<1> QED
  BY <1>1, <1>2, <1>3, StatingRecord

-----------------------------------------------------------------------------
(* The edges of derive_edges, each by what it is derived from.             *)

CommunicationEdge(s, o) ==
    LET between == {r \in OfKind("communication_aggregate") : <<r.subject, r.object>> = <<s, o>>}
    IN  Derived("COMMUNICATES", s, o, <<"aggregate">>, Total(between), 0, between)

ShareEdge(r) ==
    Derived("OWNS", r.subject, r.object, <<"authorship_density">>,
            Percent(r.count[1], r.count[2]), 0, {r})

AssertionEdge(r) ==
    Derived("OWNS", r.subject, r.object, <<"assertion", r.xid>>, r.count[1], 1, {r})

DensityEdge(a, m) ==
    Derived("OWNS", a, m, <<"authorship_density_derived">>, Confidence(m, a), Rank(m, a), {})

DependencyEdge(r) ==
    Derived("DEPENDS_ON", r.subject, r.object, <<r.what>>, r.count[1], 0, {r})

\* The smaller of two modules first.
Pair(r) == IF Before(r.object[2], r.subject[2]) THEN <<r.object, r.subject>>
                                               ELSE <<r.subject, r.object>>

CochangeEdge(p) ==
    LET of == {r \in OfKind("cochange") : Pair(r) = p}
    IN  Derived("DEPENDS_ON", p[1], p[2], <<"cochange">>, Total(of), 0, of)

LEMMA DerivedFields ==
    ASSUME NEW rel, NEW s, NEW t, NEW d, NEW w, NEW n, NEW ev
    PROVE  /\ Derived(rel, s, t, d, w, n, ev).key = <<rel, s, t, d>>
           /\ Derived(rel, s, t, d, w, n, ev).evidence = ev
           /\ Ends(Derived(rel, s, t, d, w, n, ev)) = {s, t}
BY DEF Derived, Ends

LEMMA EdgesDerived ==
    /\ communication_edges = {CommunicationEdge(r.subject, r.object) :
                                r \in OfKind("communication_aggregate")}
    /\ ownership_edges = {ShareEdge(r) : r \in OfKind("authorship_aggregate")}
    /\ ownership_assertion_edges = {AssertionEdge(r) : r \in OfKind("ownership_assertion")}
    /\ dependency_edges = {DependencyEdge(r) : r \in OfKind("dependency")}
    /\ cochange_dependency_edges = {CochangeEdge(Pair(r)) : r \in OfKind("cochange")}
    /\ \A e \in authorship_density_edges :
          \E m \in DerivedModules : \E a \in Authors(m) : e = DensityEdge(a, m)
<1>1. communication_edges = {CommunicationEdge(r.subject, r.object) :
                                r \in OfKind("communication_aggregate")}
  <2> DEFINE K == OfKind("communication_aggregate")
             pairs == {<<r.subject, r.object>> : r \in K}
             between(p) == {r \in K : <<r.subject, r.object>> = p}
             edge(p) == Derived("COMMUNICATES", p[1], p[2], <<"aggregate">>, Total(between(p)), 0,
                                between(p))
  <2>1. communication_edges = {edge(p) : p \in pairs}
    BY DEF communication_edges
  <2>2. \A r \in K : edge(<<r.subject, r.object>>) = CommunicationEdge(r.subject, r.object)
    BY DEF CommunicationEdge
  <2> HIDE DEF edge, K
  <2> QED
    BY <2>1, <2>2 DEF K
<1>2. cochange_dependency_edges = {CochangeEdge(Pair(r)) : r \in OfKind("cochange")}
  <2> DEFINE K == OfKind("cochange")
             of(p) == {r \in K : Pair(r) = p}
             edge(p) == Derived("DEPENDS_ON", p[1], p[2], <<"cochange">>, Total(of(p)), 0, of(p))
  <2>1. cochange_dependency_edges = {edge(p) : p \in {Pair(r) : r \in K}}
    BY DEF cochange_dependency_edges, Pair
  <2>2. \A p : edge(p) = CochangeEdge(p)
    BY DEF CochangeEdge
  <2> HIDE DEF edge, K
  <2> QED
    BY <2>1, <2>2 DEF K
<1>3. ownership_edges = {ShareEdge(r) : r \in OfKind("authorship_aggregate")}
  BY DEF ownership_edges, ShareEdge
<1>4. ownership_assertion_edges = {AssertionEdge(r) : r \in OfKind("ownership_assertion")}
  BY DEF ownership_assertion_edges, AssertionEdge
<1>5. dependency_edges = {DependencyEdge(r) : r \in OfKind("dependency")}
  BY DEF dependency_edges, DependencyEdge
<1>6. \A e \in authorship_density_edges :
          \E m \in DerivedModules : \E a \in Authors(m) : e = DensityEdge(a, m)
  BY DEF authorship_density_edges, DensityEdge
<1> QED
  BY <1>1, <1>2, <1>3, <1>4, <1>5, <1>6

LEMMA DerivedKeys ==
    /\ \A s, o : CommunicationEdge(s, o).key = <<"COMMUNICATES", s, o, <<"aggregate">>>>
    /\ \A r : /\ ShareEdge(r).key = <<"OWNS", r.subject, r.object, <<"authorship_density">>>>
              /\ ShareEdge(r).evidence = {r}
    /\ \A r : /\ AssertionEdge(r).key = <<"OWNS", r.subject, r.object, <<"assertion", r.xid>>>>
              /\ AssertionEdge(r).evidence = {r}
    /\ \A a, m : DensityEdge(a, m).key = <<"OWNS", a, m, <<"authorship_density_derived">>>>
    /\ \A r : /\ DependencyEdge(r).key = <<"DEPENDS_ON", r.subject, r.object, <<r.what>>>>
              /\ DependencyEdge(r).evidence = {r}
    /\ \A p : CochangeEdge(p).key = <<"DEPENDS_ON", p[1], p[2], <<"cochange">>>>
BY DerivedFields
   DEF CommunicationEdge, ShareEdge, AssertionEdge, DensityEdge, DependencyEdge, CochangeEdge

\* The records that edges are derived from, and the ends they give them.
LEMMA EndsOfRecords ==
    ASSUME records = AllRecords
    PROVE  /\ \A r \in AllRecords : r.kind \in StatingKinds =>
                 \E e \in derive_edges : Ends(e) = {r.subject, r.object}
           /\ \A e \in derive_edges :
                 \/ \E r \in AllRecords : r.kind \in StatingKinds /\ Ends(e) = {r.subject, r.object}
                 \/ \E m \in DerivedModules : \E a \in Authors(m) : Ends(e) = {a, m}
<1> DEFINE K(kind) == {r \in AllRecords : r.kind = kind}
<1>1. \A kind : OfKind(kind) = K(kind)
  BY DEF OfKind
<1>2. \A s, o : Ends(CommunicationEdge(s, o)) = {s, o}
  BY DerivedFields DEF CommunicationEdge
<1>3. \A r : /\ Ends(ShareEdge(r)) = {r.subject, r.object}
             /\ Ends(AssertionEdge(r)) = {r.subject, r.object}
             /\ Ends(DependencyEdge(r)) = {r.subject, r.object}
  BY DerivedFields DEF ShareEdge, AssertionEdge, DependencyEdge
<1>4. \A a, m : Ends(DensityEdge(a, m)) = {a, m}
  BY DerivedFields DEF DensityEdge
<1>5. \A r : Ends(CochangeEdge(Pair(r))) = {r.subject, r.object}
  <2> TAKE r
  <2>1. Ends(CochangeEdge(Pair(r))) = {Pair(r)[1], Pair(r)[2]}
    BY DerivedFields DEF CochangeEdge
  <2>2. {Pair(r)[1], Pair(r)[2]} = {r.subject, r.object}
    BY DEF Pair
  <2> QED
    BY <2>1, <2>2
<1>6. ASSUME NEW r \in AllRecords, r.kind \in StatingKinds
      PROVE  \E e \in derive_edges : Ends(e) = {r.subject, r.object}
  <2>1. CASE r.kind = "communication_aggregate"
    <3>1. r \in OfKind("communication_aggregate")
      BY <1>1, <2>1
    <3>2. CommunicationEdge(r.subject, r.object) \in communication_edges
      BY <3>1, EdgesDerived, Zenon
    <3>3. CommunicationEdge(r.subject, r.object) \in derive_edges
      BY <3>2, Zenon DEF derive_edges
    <3> QED
      BY <1>2, <3>3, Zenon
  <2>2. CASE r.kind = "authorship_aggregate"
    <3>1. r \in OfKind("authorship_aggregate")
      BY <1>1, <2>2
    <3>2. ShareEdge(r) \in ownership_edges
      BY <3>1, EdgesDerived, Zenon
    <3>3. ShareEdge(r) \in derive_edges
      BY <3>2, Zenon DEF derive_edges
    <3> QED
      BY <1>3, <3>3, Zenon
  <2>3. CASE r.kind = "ownership_assertion"
    <3>1. r \in OfKind("ownership_assertion")
      BY <1>1, <2>3
    <3>2. AssertionEdge(r) \in ownership_assertion_edges
      BY <3>1, EdgesDerived, Zenon
    <3>3. AssertionEdge(r) \in derive_edges
      BY <3>2, Zenon DEF derive_edges
    <3> QED
      BY <1>3, <3>3, Zenon
  <2>4. CASE r.kind = "dependency"
    <3>1. r \in OfKind("dependency")
      BY <1>1, <2>4
    <3>2. DependencyEdge(r) \in dependency_edges
      BY <3>1, EdgesDerived, Zenon
    <3>3. DependencyEdge(r) \in derive_edges
      BY <3>2, Zenon DEF derive_edges
    <3> QED
      BY <1>3, <3>3, Zenon
  <2>5. CASE r.kind = "cochange"
    <3>1. r \in OfKind("cochange")
      BY <1>1, <2>5
    <3>2. CochangeEdge(Pair(r)) \in cochange_dependency_edges
      BY <3>1, EdgesDerived, Zenon
    <3>3. CochangeEdge(Pair(r)) \in derive_edges
      BY <3>2, Zenon DEF derive_edges
    <3> QED
      BY <1>5, <3>3, Zenon
  <2> QED
    BY <1>6, <2>1, <2>2, <2>3, <2>4, <2>5 DEF StatingKinds
<1>7. ASSUME NEW e \in derive_edges
      PROVE  \/ \E r \in AllRecords : r.kind \in StatingKinds /\ Ends(e) = {r.subject, r.object}
             \/ \E m \in DerivedModules : \E a \in Authors(m) : Ends(e) = {a, m}
  <2>1. CASE e \in communication_edges
    BY <1>1, <1>2, <2>1, EdgesDerived DEF StatingKinds
  <2>2. CASE e \in ownership_edges \union ownership_assertion_edges \union dependency_edges
    BY <1>1, <1>3, <2>2, EdgesDerived DEF StatingKinds
  <2>3. CASE e \in cochange_dependency_edges
    BY <1>1, <1>5, <2>3, EdgesDerived DEF StatingKinds
  <2>4. CASE e \in authorship_density_edges
    BY <1>4, <2>4, EdgesDerived
  <2> QED
    BY <1>7, <2>1, <2>2, <2>3, <2>4 DEF derive_edges
<1> QED
  BY <1>6, <1>7

\* Owners that are derived, and what they own, are nodes already.
LEMMA DensityEnds ==
    ASSUME GInv, NEW m \in DerivedModules, NEW a \in Authors(m)
    PROVE  {a, m} \subseteq DOMAIN nodes
<1>1. \A e \in Range(edges) : {e.source, e.target} \subseteq DOMAIN nodes
  BY DEF GInv, EdgesClosed, Range
<1>2. m \in DOMAIN nodes
  BY <1>1 DEF DerivedModules
<1>3. PICK e \in AuthoredAbout(m) : a = AuthorOf(e.source).source
  BY DEF Authors
<1>4. \E x \in Range(edges) : x.rel = "AUTHORED" /\ x.target = e.source
  BY DEF AuthoredAbout
<1>5. AuthorOf(e.source) \in Range(edges)
  BY <1>4 DEF AuthorOf
<1> QED
  BY <1>1, <1>2, <1>3, <1>5

\* With the edges of the artifacts in place the derivation fails when a fact is
\* invalid or something stated is of what nobody knows, and only then.
LEMMA DerivableWhenMet ==
    ASSUME StageInv, TypeOK, GInv, pc = "edges", queue = {}
    PROVE  Derivable <=> ~FactInvalid /\ ~Unmet
<1>1. records = AllRecords /\ DOMAIN nodes = ExpectedKeys /\ DOMAIN edges = KeysOf(Observed)
  <2>1. KeysOf(queue) = {}
    BY DEF KeysOf
  <2> QED
    BY <2>1, NodesExpected DEF StageInv, NodesDone
<1>2. ASSUME NEW a \in Linking, NEW l \in Links(a)
      PROVE  {l[2], l[3]} \subseteq ExpectedKeys
  <2> DEFINE e == Edge(l[1], l[2], l[3], l[4], a)
  <2>1. l = <<l[1], l[2], l[3], l[4]>>
    BY LinkParts
  <2>2. e.rel = l[1] /\ e.source = l[2] /\ e.target = l[3] /\ e.disc = l[4]
    BY DEF Edge
  <2>3. e = Edge(e.rel, e.source, e.target, e.disc, a)
    BY <2>2
  <2> HIDE DEF e
  <2>4. LinkOf(e) = l
    BY <2>1, <2>2 DEF LinkOf
  <2>5. e \in Observed
    BY <2>3, <2>4, ObservedLinks
  <2> DEFINE k == EdgeKey(e)
  <2>6. k \in DOMAIN edges
    BY <1>1, <2>5 DEF KeysOf
  <2>7. EdgeKey(edges[k]) = k /\ {edges[k].source, edges[k].target} \subseteq ExpectedKeys
    BY <1>1, <2>6 DEF TypeOK, GInv, EdgesClosed
  <2>8. edges[k].source = e.source /\ edges[k].target = e.target
    BY <2>7, Tuples DEF EdgeKey
  <2> QED
    BY <2>2, <2>7, <2>8
<1>3. ASSUME Derivable
      PROVE  ~FactInvalid /\ ~Unmet
  <2>1. ~FactInvalid
    BY <1>1, <1>3 DEF Derivable, FactInvalid, AllRecords
  <2>2. \A e \in derive_edges : Ends(e) \subseteq ExpectedKeys
    BY <1>1, <1>3 DEF Derivable, Ends
  <2>3. \A r \in AllRecords : r.kind \in StatingKinds => {r.subject, r.object} \subseteq ExpectedKeys
    BY <1>1, <2>2, EndsOfRecords
  <2>4. ~Unmet
    BY <1>2, <2>3, UnmetShows
  <2> QED
    BY <2>1, <2>4
<1>4. ASSUME ~FactInvalid, ~Unmet
      PROVE  Derivable
  <2>1. ~ \E r \in records : Invalid(r)
    BY <1>1, <1>4, RowsAreValid
  <2>2. ASSUME NEW e \in derive_edges
        PROVE  Ends(e) \subseteq DOMAIN nodes
    <3>1. CASE \E r \in AllRecords : r.kind \in StatingKinds /\ Ends(e) = {r.subject, r.object}
      BY <1>1, <1>4, <3>1, RecordUnmet
    <3>2. CASE \E m \in DerivedModules : \E a \in Authors(m) : Ends(e) = {a, m}
      BY <3>2, DensityEnds
    <3> QED
      BY <1>1, <2>2, <3>1, <3>2, EndsOfRecords
  <2> QED
    BY <2>1, <2>2 DEF Derivable, Ends
<1> QED
  BY <1>3, <1>4

\* Two edges of one key are two records of one dependency, or two of which one
\* is a fact.
LEMMA SharesAreFacts ==
    ASSUME StageInv, NEW r \in AllRecords, r.kind \in {"authorship_aggregate", "ownership_assertion"}
    PROVE  r \in input.facts
<1>1. \A row \in Rows : r \notin row_records(row)
  BY RecordOfRow
<1> QED
  BY <1>1, StatingRecord DEF StatingKinds

LEMMA DependencyOnce ==
    ASSUME StageInv, ~Conflicting(AllRecords), ~DependencyTwice, ~FactTwice,
           NEW r \in AllRecords, NEW q \in AllRecords,
           r.kind = "dependency", q.kind = "dependency",
           r.subject = q.subject, r.object = q.object, r.what = q.what
    PROVE  r = q
<1>1. CASE r \in input.facts \/ q \in input.facts
  BY <1>1 DEF FactTwice
<1>2. CASE r \notin input.facts /\ q \notin input.facts
  <2>1. PICK a \in Rows : r \in row_records(a)
    BY <1>2, StatingRecord DEF StatingKinds
  <2>2. PICK b \in Rows : q \in row_records(b)
    BY <1>2, StatingRecord DEF StatingKinds
  <2>3. PICK m \in a.mods, d \in a.deps : r = dependency(a, m, d) /\ a.kind = "git"
    BY <2>1, RecordOfRow
  <2>4. PICK n \in b.mods, e \in b.deps : q = dependency(b, n, e) /\ b.kind = "git"
    BY <2>2, RecordOfRow
  <2>5. m = n /\ d = e
    BY <2>3, <2>4, DependencyFields, KeyKinds
  <2>6. a.id = b.id
    BY <2>3, <2>4, <2>5 DEF DependencyTwice
  <2>7. a.epoch = b.epoch
    BY <2>3, <2>4, <2>6, OneRow, ConflictsMade
  <2> QED
    BY <2>3, <2>4, <2>5, <2>6, <2>7 DEF dependency
<1> QED
  BY <1>1, <1>2

UniqueKeys(es) == \A d, e \in es : d.key = e.key => d = e

\* The discriminators that tell edges of one relation apart.
LEMMA DiscriminatorsApart ==
    /\ \A x : <<"authorship_density">> # <<"assertion", x>>
    /\ \A x : <<"authorship_density_derived">> # <<"assertion", x>>
    /\ <<"authorship_density">> # <<"authorship_density_derived">>
    /\ \A w \in {"import", "manifest", "runtime_call", "explicit_reference"} : <<w>> # <<"cochange">>
    /\ \A v, w : <<v>> = <<w>> => v = w
OBVIOUS

LEMMA KeysOnce ==
    ASSUME StageInv, records = AllRecords, ~Conflicting(AllRecords),
           ~DependencyTwice, ~FactTwice, \A r \in AllRecords : ~Invalid(r)
    PROVE  UniqueKeys(derive_edges)
<1> DEFINE K(kind) == {r \in AllRecords : r.kind = kind}
           sent(x) == \E s, o : x = CommunicationEdge(s, o)
           share(x) == \E r \in K("authorship_aggregate") : x = ShareEdge(r)
           assertion(x) == \E r \in K("ownership_assertion") : x = AssertionEdge(r)
           density(x) == \E a, m : x = DensityEdge(a, m)
           needs(x) == \E r \in K("dependency") : x = DependencyEdge(r)
           change(x) == \E s, t : x = CochangeEdge(<<s, t>>)
<1>1. ASSUME NEW x \in derive_edges
      PROVE  sent(x) \/ share(x) \/ assertion(x) \/ density(x) \/ needs(x) \/ change(x)
  <2>1. \A kind : OfKind(kind) = K(kind)
    BY DEF OfKind
  <2>2. \A r : \E s, t : Pair(r) = <<s, t>>
    BY DEF Pair
  <2>3. x \in communication_edges => sent(x)
    BY EdgesDerived
  <2>4. x \in ownership_edges => share(x)
    BY <2>1, EdgesDerived
  <2>5. x \in ownership_assertion_edges => assertion(x)
    BY <2>1, EdgesDerived
  <2>6. x \in authorship_density_edges => density(x)
    BY EdgesDerived
  <2>7. x \in dependency_edges => needs(x)
    BY <2>1, EdgesDerived
  <2>8. x \in cochange_dependency_edges => change(x)
    BY <2>2, EdgesDerived
  <2> HIDE DEF sent, share, assertion, density, needs, change
  <2> QED
    BY <1>1, <2>3, <2>4, <2>5, <2>6, <2>7, <2>8 DEF derive_edges
<1>2. ASSUME NEW r \in K("dependency")
      PROVE  r.what \in {"import", "manifest", "runtime_call", "explicit_reference"}
  BY DEF Invalid
<1>3. ASSUME NEW x
      PROVE  /\ sent(x) => x.key[1] = "COMMUNICATES"
             /\ share(x) => x.key[1] = "OWNS" /\ x.key[4] = <<"authorship_density">>
             /\ assertion(x) => x.key[1] = "OWNS" /\ \E y : x.key[4] = <<"assertion", y>>
             /\ density(x) => x.key[1] = "OWNS" /\ x.key[4] = <<"authorship_density_derived">>
             /\ needs(x) => /\ x.key[1] = "DEPENDS_ON"
                            /\ \E w \in {"import", "manifest", "runtime_call", "explicit_reference"} :
                                  x.key[4] = <<w>>
             /\ change(x) => x.key[1] = "DEPENDS_ON" /\ x.key[4] = <<"cochange">>
  <2>1. \A s, o : CommunicationEdge(s, o).key[1] = "COMMUNICATES"
    BY DerivedFields DEF CommunicationEdge
  <2>2. \A r : ShareEdge(r).key[1] = "OWNS" /\ ShareEdge(r).key[4] = <<"authorship_density">>
    BY DerivedFields DEF ShareEdge
  <2>3. \A r : AssertionEdge(r).key[1] = "OWNS" /\ AssertionEdge(r).key[4] = <<"assertion", r.xid>>
    BY DerivedFields DEF AssertionEdge
  <2>4. \A a, m : /\ DensityEdge(a, m).key[1] = "OWNS"
                  /\ DensityEdge(a, m).key[4] = <<"authorship_density_derived">>
    BY DerivedFields DEF DensityEdge
  <2>5. \A r : DependencyEdge(r).key[1] = "DEPENDS_ON" /\ DependencyEdge(r).key[4] = <<r.what>>
    BY DerivedFields DEF DependencyEdge
  <2>6. \A p : CochangeEdge(p).key[1] = "DEPENDS_ON" /\ CochangeEdge(p).key[4] = <<"cochange">>
    BY DerivedFields DEF CochangeEdge
  <2> QED
    BY <1>2, <2>1, <2>2, <2>3, <2>4, <2>5, <2>6
<1>4. SUFFICES ASSUME NEW d \in derive_edges, NEW e \in derive_edges, d.key = e.key
               PROVE  d = e
  BY DEF UniqueKeys
<1>5. \/ sent(d) /\ sent(e)
      \/ share(d) /\ share(e)
      \/ assertion(d) /\ assertion(e)
      \/ density(d) /\ density(e)
      \/ needs(d) /\ needs(e)
      \/ change(d) /\ change(e)
  <2> HIDE DEF sent, share, assertion, density, needs, change
  <2> QED
    BY <1>1, <1>3, <1>4, DiscriminatorsApart
<1>6. CASE sent(d) /\ sent(e)
  <2>1. PICK s, o : d = CommunicationEdge(s, o)
    BY <1>6
  <2>2. PICK t, p : e = CommunicationEdge(t, p)
    BY <1>6
  <2>3. <<"COMMUNICATES", s, o, <<"aggregate">>>> = <<"COMMUNICATES", t, p, <<"aggregate">>>>
    BY <1>4, <2>1, <2>2, DerivedFields DEF CommunicationEdge
  <2> QED
    BY <2>1, <2>2, <2>3, Tuples
<1>7. CASE share(d) /\ share(e)
  <2>1. PICK r \in K("authorship_aggregate") : d = ShareEdge(r)
    BY <1>7
  <2>2. PICK q \in K("authorship_aggregate") : e = ShareEdge(q)
    BY <1>7
  <2>3. <<"OWNS", r.subject, r.object, <<"authorship_density">>>>
        = <<"OWNS", q.subject, q.object, <<"authorship_density">>>>
    BY <1>4, <2>1, <2>2, DerivedFields DEF ShareEdge
  <2>4. r.subject = q.subject /\ r.object = q.object
    BY <2>3, Tuples
  <2>5. r = q
    BY <2>4, SharesAreFacts DEF FactTwice
  <2> QED
    BY <2>1, <2>2, <2>5
<1>8. CASE assertion(d) /\ assertion(e)
  <2>1. PICK r \in K("ownership_assertion") : d = AssertionEdge(r)
    BY <1>8
  <2>2. PICK q \in K("ownership_assertion") : e = AssertionEdge(q)
    BY <1>8
  <2>3. <<"OWNS", r.subject, r.object, <<"assertion", r.xid>>>>
        = <<"OWNS", q.subject, q.object, <<"assertion", q.xid>>>>
    BY <1>4, <2>1, <2>2, DerivedFields DEF AssertionEdge
  <2>4. r.subject = q.subject /\ r.object = q.object /\ <<"assertion", r.xid>> = <<"assertion", q.xid>>
    BY <2>3, Tuples
  <2>5. r.xid = q.xid
    BY <2>4, Tuples
  <2>6. r = q
    BY <2>4, <2>5, SharesAreFacts DEF FactTwice
  <2> QED
    BY <2>1, <2>2, <2>6
<1>9. CASE density(d) /\ density(e)
  <2>1. PICK a, m : d = DensityEdge(a, m)
    BY <1>9
  <2>2. PICK b, n : e = DensityEdge(b, n)
    BY <1>9
  <2>3. <<"OWNS", a, m, <<"authorship_density_derived">>>>
        = <<"OWNS", b, n, <<"authorship_density_derived">>>>
    BY <1>4, <2>1, <2>2, DerivedFields DEF DensityEdge
  <2> QED
    BY <2>1, <2>2, <2>3, Tuples
<1>10. CASE needs(d) /\ needs(e)
  <2>1. PICK r \in K("dependency") : d = DependencyEdge(r)
    BY <1>10
  <2>2. PICK q \in K("dependency") : e = DependencyEdge(q)
    BY <1>10
  <2>3. <<"DEPENDS_ON", r.subject, r.object, <<r.what>>>>
        = <<"DEPENDS_ON", q.subject, q.object, <<q.what>>>>
    BY <1>4, <2>1, <2>2, DerivedFields DEF DependencyEdge
  <2>4. r.subject = q.subject /\ r.object = q.object /\ <<r.what>> = <<q.what>>
    BY <2>3, Tuples
  <2>5. r.what = q.what
    BY <2>4, DiscriminatorsApart
  <2>6. r = q
    BY <2>4, <2>5, DependencyOnce
  <2> QED
    BY <2>1, <2>2, <2>6
<1>11. CASE change(d) /\ change(e)
  <2>1. PICK s, t : d = CochangeEdge(<<s, t>>)
    BY <1>11
  <2>2. PICK u, v : e = CochangeEdge(<<u, v>>)
    BY <1>11
  <2>3. \A x, y : CochangeEdge(<<x, y>>).key = <<"DEPENDS_ON", x, y, <<"cochange">>>>
    BY DerivedFields DEF CochangeEdge
  <2>4. <<"DEPENDS_ON", s, t, <<"cochange">>>> = <<"DEPENDS_ON", u, v, <<"cochange">>>>
    BY <1>4, <2>1, <2>2, <2>3
  <2>5. s = u /\ t = v
    BY <2>4, Tuples
  <2> QED
    BY <2>1, <2>2, <2>5
<1> QED
  BY <1>5, <1>6, <1>7, <1>8, <1>9, <1>10, <1>11

\* What is stated twice gives two edges of one key.
LEMMA TwiceShows ==
    ASSUME StageInv, records = AllRecords, ~Conflicting(AllRecords), UniqueKeys(derive_edges)
    PROVE  ~DependencyTwice /\ ~FactTwice
<1>1. ASSUME NEW r \in AllRecords, NEW q \in AllRecords, r # q, r.kind = q.kind,
             r.subject = q.subject, r.object = q.object,
             \/ r.kind = "authorship_aggregate"
             \/ r.kind = "ownership_assertion" /\ r.xid = q.xid
             \/ r.kind = "dependency" /\ r.what = q.what
      PROVE  FALSE
  <2>1. {r} # {q}
    BY <1>1
  <2>2. \A x \in AllRecords : x \in OfKind(x.kind)
    BY DEF OfKind
  <2>3. CASE r.kind = "authorship_aggregate"
    <3>1. ShareEdge(r) \in derive_edges /\ ShareEdge(q) \in derive_edges
      BY <1>1, <2>2, <2>3, EdgesDerived DEF derive_edges
    <3>2. ShareEdge(r).key = ShareEdge(q).key
      BY <1>1, DerivedFields DEF ShareEdge
    <3> QED
      BY <2>1, <3>1, <3>2, DerivedKeys DEF UniqueKeys
  <2>4. CASE r.kind = "ownership_assertion" /\ r.xid = q.xid
    <3>1. AssertionEdge(r) \in derive_edges /\ AssertionEdge(q) \in derive_edges
      BY <1>1, <2>2, <2>4, EdgesDerived DEF derive_edges
    <3>2. AssertionEdge(r).key = AssertionEdge(q).key
      BY <1>1, <2>4, DerivedFields DEF AssertionEdge
    <3> QED
      BY <2>1, <3>1, <3>2, DerivedKeys DEF UniqueKeys
  <2>5. CASE r.kind = "dependency" /\ r.what = q.what
    <3>1. DependencyEdge(r) \in derive_edges /\ DependencyEdge(q) \in derive_edges
      BY <1>1, <2>2, <2>5, EdgesDerived DEF derive_edges
    <3>2. DependencyEdge(r).key = DependencyEdge(q).key
      BY <1>1, <2>5, DerivedFields DEF DependencyEdge
    <3> QED
      BY <2>1, <3>1, <3>2, DerivedKeys DEF UniqueKeys
  <2> QED
    BY <1>1, <2>3, <2>4, <2>5
<1>2. ASSUME FactTwice
      PROVE  FALSE
  <2>1. PICK f \in input.facts : \E r \in AllRecords :
          /\ r # f /\ r.kind = f.kind /\ r.subject = f.subject /\ r.object = f.object
          /\ \/ f.kind = "authorship_aggregate"
             \/ f.kind = "ownership_assertion" /\ r.xid = f.xid
             \/ f.kind = "dependency" /\ r.what = f.what
    BY <1>2 DEF FactTwice
  <2>2. f \in AllRecords
    BY DEF AllRecords
  <2> QED
    BY <1>1, <2>1, <2>2
<1>3. ASSUME NEW row \in Rows, row.kind = "git", NEW m \in row.mods, NEW d \in row.deps
      PROVE  dependency(row, m, d) \in AllRecords
  <2>1. <<m, d>> \in {q \in row.mods \X row.deps : row.kind = "git"}
    BY <1>3
  <2>2. <<m, d>>[1] = m /\ <<m, d>>[2] = d
    OBVIOUS
  <2>3. dependency(row, m, d) \in row_records(row)
    BY <2>1, <2>2, RowRecords
  <2> QED
    BY <2>3, OfRows
<1>4. ASSUME NEW row \in Rows, row.kind = "git", row.deps # {},
             NEW m \in row.mods, NEW n \in row.mods, m # n
      PROVE  FALSE
  <2>1. PICK d \in row.deps : TRUE
    BY <1>4
  <2>2. dependency(row, m, d) \in AllRecords /\ dependency(row, n, d) \in AllRecords
    BY <1>3, <1>4
  <2>3. /\ dependency(row, m, d).source = dependency(row, n, d).source
        /\ dependency(row, m, d).xid = dependency(row, n, d).xid
        /\ dependency(row, m, d).subject = ModuleKey(m)
        /\ dependency(row, n, d).subject = ModuleKey(n)
    BY DependencyFields
  <2>4. ModuleKey(m) # ModuleKey(n)
    BY <1>4, KeyKinds
  <2> QED
    BY <2>2, <2>3, <2>4 DEF Conflicting
<1>5. ASSUME NEW a \in Rows, NEW b \in Rows, a.id # b.id, a.kind = "git", b.kind = "git",
             a.mods \intersect b.mods # {}, a.deps \intersect b.deps # {}
      PROVE  FALSE
  <2>1. PICK m \in a.mods \intersect b.mods : TRUE
    BY <1>5
  <2>2. PICK d \in a.deps \intersect b.deps : TRUE
    BY <1>5
  <2> DEFINE r == dependency(a, m, d)
             q == dependency(b, m, d)
  <2>3. r \in AllRecords /\ q \in AllRecords
    BY <1>3, <1>5
  <2>4. /\ r.xid = <<a.kind, a.id, "dependency", d>>
        /\ q.xid = <<b.kind, b.id, "dependency", d>>
        /\ r.subject = q.subject /\ r.object = q.object /\ r.what = q.what
        /\ r.kind = "dependency" /\ q.kind = "dependency"
    BY DependencyFields
  <2> HIDE DEF r, q
  <2>5. r # q
    <3>1. <<a.kind, a.id, "dependency", d>> # <<b.kind, b.id, "dependency", d>>
      BY <1>5, Tuples
    <3> QED
      BY <2>4, <3>1
  <2> QED
    BY <1>1, <2>3, <2>4, <2>5
<1> QED
  BY <1>2, <1>4, <1>5 DEF DependencyTwice

-----------------------------------------------------------------------------
(* What detect_gaps adds.                                                  *)

GapsClosed ==
    /\ DOMAIN nodes \intersect DOMAIN gaps.phantoms = {}
    /\ \A e \in gaps.edges : Ends(e) \subseteq AllNodes

\* A phantom stands where there is no node, and gap edges join what is there.
LEMMA GapsAreClosed ==
    ASSUME StageInv, DetectGaps
    PROVE  GapsClosed'
<1> DEFINE steps == UNION {MissingSteps(c) : c \in input.contracts}
<1>1. PICK last \in LastReplies :
        gaps' = [phantoms |->
                   [k \in DOMAIN last \union steps |->
                       IF k \in steps THEN StepPhantom(k) ELSE ThreadPhantom(last[k])],
                 edges |-> ReplyGapEdges \union UNION {PrecededBy(c) : c \in input.contracts}]
  BY DEF DetectGaps
<1>2. UNCHANGED <<input, records, nodes>> /\ pc = "gaps"
  BY DEF DetectGaps
<1>3. records = AllRecords /\ DOMAIN nodes = ExpectedKeys
  BY <1>2, NodesExpected DEF StageInv, NodesDone
<1> HIDE DEF steps
<1>4. /\ gaps'.edges = ReplyGapEdges \union UNION {PrecededBy(c) : c \in input.contracts}
      /\ DOMAIN gaps'.phantoms = DOMAIN last \union steps
  BY <1>1
<1>5. DOMAIN last = {ReplyKey(r) : r \in Dangling}
  BY DEF LastReplies
<1>6. DOMAIN nodes \intersect (DOMAIN last \union steps) = {}
  BY <1>5 DEF steps, MissingSteps, Missing, Dangling
<1> DEFINE all == DOMAIN nodes \union DOMAIN last \union steps
<1>7. \A rel, s, t, d : Ends(GapEdge(rel, s, t, d)) = {s, t}
  BY DEF Ends, GapEdge
<1>8. ASSUME NEW e \in ReplyGapEdges
      PROVE  Ends(e) \subseteq all
  <2>1. PICK r \in Dangling : Ends(e) = {r.subject, ReplyKey(r)}
    BY <1>7 DEF ReplyGapEdges
  <2>2. r.subject \in DOMAIN nodes
    BY <1>3, ArtifactsOfRecords DEF Dangling, ExpectedKeys
  <2> QED
    BY <1>5, <2>1, <2>2
<1>9. ASSUME NEW c \in input.contracts, NEW e \in PrecededBy(c)
      PROVE  Ends(e) \subseteq all
  <2>1. PICK p \in Consecutive(c) : Ends(e) = {c.steps[p[2]].key, c.steps[p[1]].key}
    BY <1>7 DEF PrecededBy
  <2>2. p[1] \in Kept(c) /\ p[2] \in Kept(c)
    BY DEF Consecutive
  <2>3. \A i \in Kept(c) : c.steps[i].key \in DOMAIN nodes \/ c.steps[i].key \in MissingSteps(c)
    BY DEF Kept, MissingSteps, Missing
  <2>4. MissingSteps(c) \subseteq steps
    BY DEF steps
  <2> QED
    BY <2>1, <2>2, <2>3, <2>4
<1>10. AllNodes' = all
  BY <1>2, <1>4 DEF AllNodes
<1> HIDE DEF all
<1>11. \A e \in gaps'.edges : Ends(e) \subseteq AllNodes'
  BY <1>4, <1>8, <1>9, <1>10
<1> QED
  BY <1>2, <1>4, <1>6, <1>11 DEF GapsClosed

-----------------------------------------------------------------------------
(* Digests of a bundle whose ids are all different.                        *)

LEMMA NoCollision ==
    ASSUME StageInv, TypeOK, GInv, IdsKnown, EdgesFound, pc = "done", ~Unmet, OneIdEach
    PROVE  ~IdsCollide
<1> DEFINE pairs == {<<k, NodeId(k)>> : k \in AllNodes}
                    \union {<<k, EdgeId(edges[k])>> : k \in DOMAIN edges}
                    \union {<<e.key, DerivedId(e)>> : e \in derived \union gaps.edges}
<1>1. \A x, y \in pairs : x[2] = y[2] => x[1] = y[1]
  BY DEF OneIdEach, Distinct
<1>2. DOMAIN nodes = ExpectedKeys /\ DOMAIN edges = KeysOf(Observed)
  BY NodesExpected DEF StageInv, NodesDone, EdgesDone
<1>3. ASSUME NEW k \in ExpectedKeys
      PROVE  <<k, Digest(k)>> \in pairs
  <2>1. NodeId(k) = Digest(k) /\ k \in AllNodes
    BY <1>2, NodeIds DEF NodeId, AllNodes
  <2> QED
    BY <2>1
<1>4. ASSUME NEW l \in AllLinks
      PROVE  <<<<l[1], l[2], l[3]>>, LinkDigest(l)>> \in pairs
  <2>1. PICK a \in Linking : l \in Links(a)
    BY DEF AllLinks
  <2> DEFINE e == Edge(l[1], l[2], l[3], l[4], a)
  <2>2. l = <<l[1], l[2], l[3], l[4]>>
    BY <2>1, LinkParts
  <2>3. e.rel = l[1] /\ e.source = l[2] /\ e.target = l[3] /\ e.disc = l[4] /\ DOMAIN e = EdgeFields
    BY DEF Edge, EdgeFields
  <2>4. e = Edge(e.rel, e.source, e.target, e.disc, a)
    BY <2>3
  <2> HIDE DEF e
  <2>5. LinkOf(e) = l
    BY <2>2, <2>3 DEF LinkOf
  <2>6. e \in Observed
    BY <2>1, <2>4, <2>5, ObservedLinks
  <2> DEFINE k == EdgeKey(e)
             f == edges[k]
  <2>7. k = <<l[1], l[2], l[3]>>
    BY <2>3 DEF EdgeKey
  <2>8. k \in DOMAIN edges
    BY <1>2, <2>6 DEF KeysOf
  <2> HIDE DEF k
  <2>9. PICK g \in Observed : EdgeKey(g) = k /\ SameBut(f, g)
    BY <2>8 DEF EdgesFound
  <2>10. g.rel = l[1] /\ g.source = l[2] /\ g.target = l[3] /\ DOMAIN g = EdgeFields
    <3>1. <<g.rel, g.source, g.target>> = <<l[1], l[2], l[3]>>
      BY <2>7, <2>9 DEF EdgeKey
    <3>2. DOMAIN g = EdgeFields
      BY ObservedFields DEF Observed
    <3> QED
      BY <3>1, <3>2, Tuples
  <2>11. g.disc = l[4]
    <3>1. PICK b \in Linking : LinkOf(g) \in Links(b)
      BY ObservedLinks
    <3> DEFINE m == LinkOf(g)
    <3>2. m[1] = l[1] /\ m[4] = g.disc
      BY <2>10 DEF LinkOf
    <3> HIDE DEF m
    <3>3. m[4] = Discriminator(m[1])
      BY <3>1, LinkParts DEF m
    <3> QED
      BY <2>1, <3>2, <3>3, LinkParts
  <2>12. DOMAIN f = EdgeFields /\ f \in Range(edges)
    BY <2>8 DEF GInv, EdgesClosed, Range
  <2> HIDE DEF f
  <2>13. /\ [f EXCEPT !.evidence = {}].disc = f.disc /\ [g EXCEPT !.evidence = {}].disc = g.disc
         /\ [f EXCEPT !.evidence = {}].rel = f.rel /\ [g EXCEPT !.evidence = {}].rel = g.rel
         /\ [f EXCEPT !.evidence = {}].source = f.source /\ [g EXCEPT !.evidence = {}].source = g.source
         /\ [f EXCEPT !.evidence = {}].target = f.target /\ [g EXCEPT !.evidence = {}].target = g.target
    BY <2>10, <2>12 DEF EdgeFields
  <2>14. f.disc = l[4] /\ f.rel = l[1] /\ f.source = l[2] /\ f.target = l[3]
    BY <2>9, <2>10, <2>11, <2>13 DEF SameBut
  <2>15. {l[2], l[3]} \subseteq DOMAIN nodes
    BY <1>2, <2>1, LinkUnmet
  <2>16. EdgeId(f) = LinkDigest(l)
    <3>1. nodes[l[2]].id = Digest(l[2]) /\ nodes[l[3]].id = Digest(l[3])
      BY <2>15, NodeIds
    <3> QED
      BY <2>14, <3>1 DEF EdgeId, LinkDigest
  <2>17. <<k, EdgeId(edges[k])>> \in pairs
    BY <2>8
  <2> QED
    BY <2>7, <2>16, <2>17 DEF f
<1> HIDE DEF pairs
<1>5. \A k, l \in ExpectedKeys : Digest(k) = Digest(l) => k = l
  BY <1>1, <1>3
<1>6. \A k, l \in AllLinks : LinkDigest(k) = LinkDigest(l) => k = l
  <2> TAKE k, l \in AllLinks
  <2> HAVE LinkDigest(k) = LinkDigest(l)
  <2>1. <<k[1], k[2], k[3]>> = <<l[1], l[2], l[3]>>
    BY <1>1, <1>4
  <2>2. k[1] = l[1] /\ k[2] = l[2] /\ k[3] = l[3]
    BY <2>1, Tuples
  <2>3. \A m \in AllLinks : m = <<m[1], m[2], m[3], m[4]>> /\ m[4] = Discriminator(m[1])
    BY LinkParts DEF AllLinks
  <2> QED
    BY <2>2, <2>3
<1>7. \A k \in ExpectedKeys, l \in AllLinks : Digest(k) # LinkDigest(l)
  <2> SUFFICES ASSUME NEW k \in ExpectedKeys, NEW l \in AllLinks, Digest(k) = LinkDigest(l)
               PROVE  FALSE
    OBVIOUS
  <2>1. k = <<l[1], l[2], l[3]>>
    BY <1>1, <1>3, <1>4
  <2>2. l[1] \in Relations
    BY LinkParts DEF AllLinks
  <2> QED
    BY <2>1, <2>2, ExpectedKinds DEF Relations
<1> DEFINE stated == {<<k, Digest(k)>> : k \in ExpectedKeys}
                     \union {<<l, LinkDigest(l)>> : l \in AllLinks}
<1>8. \A x, y \in stated : x[2] = y[2] => x[1] = y[1]
  BY <1>5, <1>6, <1>7
<1>9. Distinct(stated)
  BY <1>8 DEF Distinct
<1> QED
  BY <1>9 DEF IdsCollide, AllLinks

-----------------------------------------------------------------------------
(* Why an ingest is refused.                                               *)

\* The reasons that can be read off the input.
Reason ==
    \/ AnsweredAndNamed \/ TwoRowsOfOneId \/ StatedOtherwise
    \/ Unmet \/ DependencyTwice \/ FactTwice \/ FactInvalid \/ IdsCollide

LEMMA SameReasons ==
    ASSUME UNCHANGED input
    PROVE  /\ Reason' = Reason /\ Unmet' = Unmet /\ FactInvalid' = FactInvalid
           /\ DependencyTwice' = DependencyTwice /\ FactTwice' = FactTwice
           /\ ExpectedKeys' = ExpectedKeys /\ AllLinks' = AllLinks
<1>1. Rows' = Rows /\ UnresolvedIds' = UnresolvedIds
  <2>1. LoweredMap' = LoweredMap
    BY DEF LoweredMap
  <2> QED
    BY <2>1 DEF Rows, UnresolvedIds
<1>2. AllRecords' = AllRecords
  BY SameInput
<1>3. Directory' = Directory /\ Artifacts' = Artifacts
  BY <1>1 DEF Directory, Artifacts
<1>4. ExpectedKeys' = ExpectedKeys
  BY <1>3 DEF ExpectedKeys
<1>5. AllLinks' = AllLinks
  <2>1. Linking' = Linking
    BY <1>3 DEF Linking, DirectoryPeople, PersonRecord, ManagerKey
  <2>2. \A r : Links(r)' = Links(r)
    BY <1>4 DEF Links, ArtifactLinks
  <2> QED
    BY <2>1, <2>2 DEF AllLinks
<1>6. DirectoryRecords' = DirectoryRecords
  BY DEF DirectoryRecords, PersonRecord, ManagerKey
<1>7. AnsweredAndNamed' = AnsweredAndNamed
  BY <1>1 DEF AnsweredAndNamed
<1>8. TwoRowsOfOneId' = TwoRowsOfOneId
  BY <1>3 DEF TwoRowsOfOneId
<1>9. StatedOtherwise' = StatedOtherwise
  BY <1>2, <1>6 DEF StatedOtherwise
<1>10. MappedToNobody' = MappedToNobody
  BY <1>1, <1>3 DEF MappedToNobody
<1>11. ModuleOfNoDirectory' = ModuleOfNoDirectory
  BY <1>1, <1>4 DEF ModuleOfNoDirectory
<1>12. FactOfUnknown' = FactOfUnknown
  BY <1>4 DEF FactOfUnknown
<1>13. DependencyTwice' = DependencyTwice
  BY <1>1 DEF DependencyTwice
<1>14. FactTwice' = FactTwice
  BY <1>2 DEF FactTwice
<1>15. FactInvalid' = FactInvalid
  BY DEF FactInvalid
<1>16. IdsCollide' = IdsCollide
  BY <1>4, <1>5 DEF IdsCollide, AllLinks
<1>17. ManagerUnknown' = ManagerUnknown
  BY <1>3 DEF ManagerUnknown
<1>18. Unmet' = Unmet
  BY <1>10, <1>11, <1>12, <1>17 DEF Unmet
<1> QED
  BY <1>4, <1>5, <1>7, <1>8, <1>9, <1>13, <1>14, <1>15, <1>16, <1>18 DEF Reason

DerivedClosed == \A e \in derived : Ends(e) \subseteq DOMAIN nodes

\* What each stage has ruled out, and what its rows and edges are of.
RefusalInv ==
    /\ pc \notin {"records", "refused"} => ~Conflicting(AllRecords)
    /\ IdsKnown /\ NodesFound /\ EdgesFound
    /\ pc = "edges" => queue \subseteq Observed
    /\ EdgesDone => /\ ~FactInvalid /\ ~Unmet /\ DerivedClosed
                    /\ OneEdgePerKey <=> ~DependencyTwice /\ ~FactTwice
    /\ pc \in {"compose", "done"} => GapsClosed
    /\ pc = "done" => OneEdgePerKey /\ OneIdEach
    /\ pc = "refused" => Reason \/ ~OneIdEach

Inv == TypeOK /\ GInv /\ StageInv /\ RefusalInv

LEMMA RefusalStart == Init => RefusalInv
BY DEF Init, RefusalInv, IdsKnown, NodesFound, EdgesFound, EdgesDone

\* Nothing that the invariant is about but the stage has changed.
LEMMA RefusalKept ==
    ASSUME Inv, UNCHANGED <<input, byIdentity, nodes, edges>>
    PROVE  /\ IdsKnown' /\ NodesFound' /\ EdgesFound'
           /\ Conflicting(AllRecords)' = Conflicting(AllRecords)
           /\ Reason' = Reason /\ Unmet' = Unmet /\ FactInvalid' = FactInvalid
           /\ DependencyTwice' = DependencyTwice /\ FactTwice' = FactTwice
           /\ Observed' = Observed
<1>1. /\ Reason' = Reason /\ Unmet' = Unmet /\ FactInvalid' = FactInvalid
      /\ DependencyTwice' = DependencyTwice /\ FactTwice' = FactTwice
      /\ ExpectedKeys' = ExpectedKeys /\ AllLinks' = AllLinks
  BY SameReasons
<1>2. AllRecords' = AllRecords /\ NodeRecords' = NodeRecords /\ Observed' = Observed
  BY SameInput, SameNodes
<1>3. Conflicting(AllRecords)' = Conflicting(AllRecords)
  BY <1>2 DEF Conflicting
<1>4. IdsKnown'
  BY <1>1 DEF Inv, RefusalInv, IdsKnown, OfNode, OfLink
<1>5. NodesFound'
  BY <1>2 DEF Inv, RefusalInv, NodesFound, SameBut, Node
<1>6. EdgesFound'
  BY <1>2 DEF Inv, RefusalInv, EdgesFound, SameBut, EdgeKey
<1> QED
  BY <1>1, <1>2, <1>3, <1>4, <1>5, <1>6

\* A refusal changes the stage alone.
LEMMA RefusedFor ==
    ASSUME Inv, Refuse, Reason \/ ~OneIdEach
    PROVE  RefusalInv'
<1>1. /\ pc' = "refused"
      /\ UNCHANGED <<input, byIdentity, nodes, edges, derived, gaps>>
  BY DEF Refuse
<1>2. IdsKnown' /\ NodesFound' /\ EdgesFound' /\ Reason' = Reason
  BY <1>1, RefusalKept
<1>3. OneIdEach' = OneIdEach
  BY <1>1 DEF OneIdEach, Distinct, AllNodes, NodeId, EdgeId, DerivedId
<1> QED
  BY <1>1, <1>2, <1>3 DEF RefusalInv, EdgesDone

LEMMA RecordsRefused ==
    ASSUME Inv, RefuseRecords
    PROVE  RefusalInv'
<1>1. Conflicting(AllRecords) /\ Refuse
  BY DEF RefuseRecords
<1>2. Reason
  BY <1>1, ConflictsExplained DEF Inv, Reason
<1> QED
  BY <1>1, <1>2, RefusedFor

LEMMA FirstNodeRefused ==
    ASSUME Inv, RefuseNode
    PROVE  RefusalInv'
<1>1. pc = "nodes" /\ First \in queue /\ ~CanAddNode(First) /\ Refuse
  BY FirstQueued DEF RefuseNode
<1>2. First \in NodeRecords
  BY <1>1 DEF Inv, StageInv
<1>3. IdsCollide
  BY <1>1, <1>2, NodeRefused DEF Inv, RefusalInv, GInv
<1> QED
  BY <1>1, <1>3, RefusedFor DEF Reason

LEMMA FirstEdgeRefused ==
    ASSUME Inv, RefuseEdge
    PROVE  RefusalInv'
<1>1. pc = "edges" /\ First \in queue /\ ~CanAddEdge(First) /\ Refuse
  BY FirstQueued DEF RefuseEdge
<1>2. First \in Observed
  BY <1>1 DEF Inv, RefusalInv
<1>3. IdsCollide \/ Unmet
  BY <1>1, <1>2, EdgeRefused DEF Inv, RefusalInv
<1> QED
  BY <1>1, <1>3, RefusedFor DEF Reason

LEMMA DerivationRefused ==
    ASSUME Inv, RefuseDerivation
    PROVE  RefusalInv'
<1>1. pc = "edges" /\ queue = {} /\ ~Derivable /\ Refuse
  BY DEF RefuseDerivation
<1>2. FactInvalid \/ Unmet
  BY <1>1, DerivableWhenMet DEF Inv
<1> QED
  BY <1>1, <1>2, RefusedFor DEF Reason

LEMMA BundleRefused ==
    ASSUME Inv, RefuseBundle
    PROVE  RefusalInv'
<1>1. pc = "compose" /\ ~Valid /\ Refuse
  BY DEF RefuseBundle
<1>2. /\ OneEdgePerKey <=> ~DependencyTwice /\ ~FactTwice
      /\ DerivedClosed /\ GapsClosed
  BY <1>1 DEF Inv, RefusalInv, EdgesDone
<1>3. \A e \in derived \union gaps.edges : Ends(e) \subseteq AllNodes
  BY <1>2 DEF DerivedClosed, GapsClosed, AllNodes
<1>4. Reason \/ ~OneIdEach
  BY <1>1, <1>2, <1>3 DEF Valid, GapsClosed, Reason
<1> QED
  BY <1>1, <1>4, RefusedFor

-----------------------------------------------------------------------------
(* The stages.                                                             *)

\* What is registered next is known as well.
LEMMA RegisteredKnown ==
    ASSUME IdsKnown, NEW i, NEW id, register(i, id), OfNode(i, id) \/ OfLink(i, id),
           UNCHANGED input
    PROVE  IdsKnown'
<1>1. \A j \in DOMAIN byIdentity' :
         \/ j \in DOMAIN byIdentity /\ byIdentity'[j] = byIdentity[j]
         \/ j = i /\ byIdentity'[j] = id
  BY DEF register, Put
<1>2. \A j \in DOMAIN byIdentity' : OfNode(j, byIdentity'[j]) \/ OfLink(j, byIdentity'[j])
  BY <1>1 DEF IdsKnown
<1>3. ExpectedKeys' = ExpectedKeys /\ AllLinks' = AllLinks
  BY SameReasons
<1> QED
  BY <1>2, <1>3 DEF IdsKnown, OfNode, OfLink

LEMMA RefusalNode ==
    ASSUME Inv, AddNode
    PROVE  RefusalInv'
<1> DEFINE r == First
           m == Merged(nodes, r.subject, Node(r))
<1>1. /\ pc = "nodes" /\ pc' = "nodes" /\ UNCHANGED <<input, edges>> /\ r \in queue
      /\ CanAddNode(r) /\ register(<<NodeLabel(r), r.subject>>, Node(r).id)
      /\ nodes' = Put(nodes, r.subject, m)
  BY FirstQueued DEF AddNode
<1>2. r \in NodeRecords
  BY <1>1 DEF Inv, StageInv
<1>3. SameBut(m, Node(r))
  BY <1>1, MergedAgrees DEF CanAddNode
<1> HIDE DEF r
<1>4. OfNode(<<NodeLabel(r), r.subject>>, Node(r).id)
  BY <1>2, NodeIdentity DEF OfNode, Inv
<1>5. IdsKnown'
  BY <1>1, <1>4, RegisteredKnown DEF Inv, RefusalInv
<1>6. AllRecords' = AllRecords /\ NodeRecords' = NodeRecords
  BY <1>1, SameInput
<1> HIDE DEF m
<1>7. \A k \in DOMAIN nodes' : \E q \in NodeRecords : q.subject = k /\ SameBut(nodes'[k], Node(q))
  BY <1>1, <1>2, <1>3 DEF Inv, RefusalInv, NodesFound, Put
<1>8. NodesFound'
  BY <1>6, <1>7 DEF NodesFound, SameBut, Node
<1>9. EdgesFound'
  BY <1>1 DEF Inv, StageInv, EdgesFound
<1>10. ~Conflicting(AllRecords)'
  BY <1>1, <1>6 DEF Inv, RefusalInv, Conflicting
<1> QED
  BY <1>1, <1>5, <1>8, <1>9, <1>10 DEF RefusalInv, EdgesDone

LEMMA RefusalEdge ==
    ASSUME Inv, AddEdge
    PROVE  RefusalInv'
<1> DEFINE e == First
           k == EdgeKey(e)
           m == Merged(edges, k, e)
<1>1. /\ pc = "edges" /\ pc' = "edges" /\ UNCHANGED <<input, nodes>> /\ e \in queue
      /\ CanAddEdge(e) /\ register(<<e.rel, k>>, EdgeId(e))
      /\ edges' = Put(edges, k, m) /\ queue' \subseteq queue
  BY FirstQueued DEF AddEdge
<1>2. e \in Observed
  BY <1>1 DEF Inv, RefusalInv
<1>3. SameBut(m, e)
  BY <1>1, MergedAgrees DEF CanAddEdge
<1> HIDE DEF e, m
<1>4. OfLink(<<e.rel, k>>, EdgeId(e))
  <2>1. PICK a \in Linking : LinkOf(e) \in Links(a)
    BY <1>1, <1>2, ObservedLinks DEF Inv
  <2> DEFINE l == LinkOf(e)
  <2>2. l[1] = e.rel /\ l[2] = e.source /\ l[3] = e.target /\ l[4] = e.disc
    BY DEF LinkOf
  <2>3. l \in AllLinks
    BY <2>1 DEF AllLinks
  <2> HIDE DEF l
  <2>4. {e.source, e.target} \subseteq DOMAIN nodes
    BY <1>1 DEF CanAddEdge
  <2>5. nodes[e.source].id = Digest(e.source) /\ nodes[e.target].id = Digest(e.target)
    BY <2>4, NodeIds DEF Inv, RefusalInv
  <2>6. EdgeId(e) = LinkDigest(l)
    BY <2>2, <2>5 DEF EdgeId, LinkDigest
  <2>7. <<e.rel, k>> = <<l[1], <<l[1], l[2], l[3]>>>>
    BY <2>2 DEF EdgeKey
  <2> QED
    BY <2>3, <2>6, <2>7 DEF OfLink
<1>5. IdsKnown'
  BY <1>1, <1>4, RegisteredKnown DEF Inv, RefusalInv
<1>6. AllRecords' = AllRecords /\ NodeRecords' = NodeRecords /\ Observed' = Observed
  BY <1>1, SameInput, SameNodes
<1>7. NodesFound'
  BY <1>1, <1>6 DEF Inv, RefusalInv, NodesFound, SameBut, Node
<1>8. \A x \in DOMAIN edges' : \E f \in Observed : EdgeKey(f) = x /\ SameBut(edges'[x], f)
  BY <1>1, <1>2, <1>3 DEF Inv, RefusalInv, EdgesFound, Put
<1>9. EdgesFound'
  BY <1>6, <1>8 DEF EdgesFound, SameBut, EdgeKey
<1>10. ~Conflicting(AllRecords)'
  BY <1>1, <1>6 DEF Inv, RefusalInv, Conflicting
<1>11. (queue \subseteq Observed)'
  BY <1>1, <1>6 DEF Inv, RefusalInv
<1> QED
  BY <1>1, <1>5, <1>7, <1>9, <1>10, <1>11 DEF RefusalInv, EdgesDone

LEMMA RefusalQueued ==
    ASSUME Inv, PrepareRecords \/ AddObservedEdges
    PROVE  RefusalInv'
<1>1. UNCHANGED <<input, byIdentity, nodes, edges>>
  BY DEF PrepareRecords, AddObservedEdges
<1>2. /\ IdsKnown' /\ NodesFound' /\ EdgesFound' /\ Observed' = Observed
      /\ Conflicting(AllRecords)' = Conflicting(AllRecords)
  BY <1>1, RefusalKept
<1>3. CASE PrepareRecords
  <2>1. ~Conflicting(AllRecords) /\ pc' = "nodes"
    BY <1>3 DEF PrepareRecords
  <2> QED
    BY <1>2, <2>1 DEF RefusalInv, EdgesDone
<1>4. CASE AddObservedEdges
  <2>1. pc = "nodes" /\ pc' = "edges" /\ queue' = UNION {ObservedEdges(r) : r \in records}
    BY <1>4 DEF AddObservedEdges
  <2>2. ~Conflicting(AllRecords)
    BY <2>1 DEF Inv, RefusalInv
  <2>3. queue' = Observed
    BY <2>1 DEF Inv, StageInv, Observed
  <2> QED
    BY <1>2, <2>1, <2>2, <2>3 DEF RefusalInv, EdgesDone
<1> QED
  BY <1>3, <1>4

LEMMA RefusalDerived ==
    ASSUME Inv, Derive
    PROVE  RefusalInv'
<1>1. /\ pc = "edges" /\ queue = {} /\ Derivable /\ pc' = "gaps" /\ derived' = derive_edges
      /\ UNCHANGED <<input, byIdentity, nodes, edges>>
  BY DEF Derive
<1>2. /\ IdsKnown' /\ NodesFound' /\ EdgesFound'
      /\ Conflicting(AllRecords)' = Conflicting(AllRecords)
      /\ Unmet' = Unmet /\ FactInvalid' = FactInvalid
      /\ DependencyTwice' = DependencyTwice /\ FactTwice' = FactTwice
  BY <1>1, RefusalKept
<1>3. ~Conflicting(AllRecords) /\ records = AllRecords
  BY <1>1 DEF Inv, RefusalInv, StageInv, NodesDone
<1>4. ~FactInvalid /\ ~Unmet
  BY <1>1, DerivableWhenMet DEF Inv
<1>5. DerivedClosed'
  BY <1>1 DEF Derivable, DerivedClosed, Ends
<1>6. \A r \in AllRecords : ~Invalid(r)
  BY <1>1, <1>3 DEF Derivable
<1>7. UniqueKeys(derive_edges) <=> ~DependencyTwice /\ ~FactTwice
  BY <1>3, <1>6, KeysOnce, TwiceShows DEF Inv
<1>8. OneEdgePerKey' <=> UniqueKeys(derive_edges)
  BY <1>1 DEF OneEdgePerKey, UniqueKeys
<1> QED
  BY <1>1, <1>2, <1>3, <1>4, <1>5, <1>7, <1>8 DEF RefusalInv, EdgesDone

LEMMA RefusalLater ==
    ASSUME Inv, DetectGaps \/ Compose \/ UNCHANGED vars
    PROVE  RefusalInv'
<1>1. UNCHANGED <<input, byIdentity, nodes, edges, derived>>
  BY DEF DetectGaps, Compose, vars
<1>2. /\ IdsKnown' /\ NodesFound' /\ EdgesFound' /\ Observed' = Observed
      /\ Conflicting(AllRecords)' = Conflicting(AllRecords)
      /\ Reason' = Reason /\ Unmet' = Unmet /\ FactInvalid' = FactInvalid
      /\ DependencyTwice' = DependencyTwice /\ FactTwice' = FactTwice
  BY <1>1, RefusalKept
<1>3. DerivedClosed' = DerivedClosed /\ OneEdgePerKey' = OneEdgePerKey
  BY <1>1 DEF DerivedClosed, OneEdgePerKey, Ends
<1>4. CASE DetectGaps
  <2>1. pc = "gaps" /\ pc' = "compose" /\ GapsClosed'
    BY <1>4, GapsAreClosed DEF DetectGaps, Inv
  <2> QED
    BY <1>2, <1>3, <2>1 DEF Inv, RefusalInv, EdgesDone
<1>5. CASE Compose \/ UNCHANGED vars
  <2>1. gaps' = gaps
    BY <1>5 DEF Compose, vars
  <2>2. GapsClosed' = GapsClosed /\ OneIdEach' = OneIdEach
    BY <1>1, <2>1
       DEF GapsClosed, Ends, OneIdEach, Distinct, AllNodes, NodeId, EdgeId, DerivedId
  <2>3. CASE Compose
    <3>1. pc = "compose" /\ pc' = "done" /\ OneEdgePerKey /\ OneIdEach
      BY <2>3 DEF Compose, Valid
    <3> QED
      BY <1>2, <1>3, <2>2, <3>1 DEF Inv, RefusalInv, EdgesDone
  <2>4. CASE UNCHANGED vars
    <3>1. pc' = pc /\ queue' = queue
      BY <2>4 DEF vars
    <3> QED
      BY <1>2, <1>3, <2>2, <3>1 DEF Inv, RefusalInv, EdgesDone
  <2> QED
    BY <1>5, <2>3, <2>4
<1> QED
  BY <1>4, <1>5

LEMMA AlwaysInv == Spec => []Inv
<1>1. Inv /\ [Next]_vars => RefusalInv'
  BY RefusalNode, RefusalEdge, RefusalQueued, RefusalDerived, RefusalLater, RecordsRefused,
     FirstNodeRefused, FirstEdgeRefused, DerivationRefused, BundleRefused DEF Next
<1>2. TypeOK /\ GInv /\ StageInv /\ RefusalInv <=> Inv
  BY DEF Inv
<1> QED
  BY <1>1, <1>2, RefusalStart, TypeCorrect, AlwaysAGraph, AlwaysStaged, PTL DEF Spec

\* An export is refused for a reason that its rows and facts show, or because
\* two of its ids are one, and it is taken in when there is no such reason; for
\* any rows, facts and digests.
THEOREM RefusedForAReason == Spec => []RefusalExplained
<1>1. ASSUME Inv
      PROVE  RefusalExplained
  <2>1. CASE pc = "refused"
    <3>1. Reason \/ ~OneIdEach
      BY <1>1, <2>1 DEF Inv, RefusalInv
    <3> QED
      BY <2>1, <3>1 DEF RefusalExplained, Reason, Unmet
  <2>2. CASE pc = "done"
    <3>1. /\ ~Conflicting(AllRecords) /\ ~FactInvalid /\ ~Unmet /\ OneIdEach
          /\ ~DependencyTwice /\ ~FactTwice
      BY <1>1, <2>2 DEF Inv, RefusalInv, EdgesDone
    <3>2. ~AnsweredAndNamed /\ ~TwoRowsOfOneId /\ ~StatedOtherwise
      BY <1>1, <3>1, ConflictsMade DEF Inv
    <3>3. ~IdsCollide
      BY <1>1, <2>2, <3>1, NoCollision DEF Inv, RefusalInv
    <3> QED
      BY <2>2, <3>1, <3>2, <3>3 DEF RefusalExplained, Unmet
  <2> QED
    BY <2>1, <2>2 DEF RefusalExplained, Ended
<1> QED
  BY <1>1, AlwaysInv, PTL

-----------------------------------------------------------------------------
(* Sums.  FoldSet is a recursive function over the subsets of a finite set,*)
(* so that there is such a function, and what it computes, can be shown by *)
(* induction over subsets; the induction is about a set of subsets.        *)

\* Subsets without a counterexample: a least one has smaller subsets only.
LEMMA SubsetInduction ==
    ASSUME NEW S, IsFiniteSet(S), NEW P,
           \A s \in SUBSET S : (\A t \in SUBSET s : t # s => t \in P) => s \in P
    PROVE  \A s \in SUBSET S : s \in P
<1> DEFINE T == (SUBSET S) \ P
<1> SUFFICES ASSUME T # {} PROVE FALSE
  OBVIOUS
<1>1. \A s \in SUBSET S : IsFiniteSet(s)
  BY FS_Subset
<1>2. T \subseteq FiniteSubsetsOf(S)
  BY <1>1 DEF FiniteSubsetsOf
<1> HIDE DEF T
<1>3. PICK s \in T : \A t \in T : <<t, s>> \notin StrictSubsetOrdering(S)
  BY <1>2, FS_StrictSubsetOrderingWellFounded, WFMin
<1>4. ASSUME NEW t \in SUBSET s, t # s
      PROVE  t \in P
  <2>1. <<t, s>> \in StrictSubsetOrdering(S)
    BY <1>4 DEF StrictSubsetOrdering, T
  <2> QED
    BY <1>3, <2>1 DEF T
<1> QED
  BY <1>3, <1>4 DEF T

\* The element a fold takes first.
Taken(s) == CHOOSE x \in s : TRUE

Adds(sum, S, F) ==
    sum = [s \in SUBSET S |-> IF s = {} THEN 0 ELSE sum[s \ {Taken(s)}] + F[Taken(s)]]

LEMMA TakenFrom == \A s : s # {} => Taken(s) \in s
BY DEF Taken

LEMMA AddsValue ==
    ASSUME NEW S, NEW F, NEW sum, Adds(sum, S, F)
    PROVE  /\ sum[{}] = 0
           /\ \A s \in SUBSET S : s # {} => sum[s] = sum[s \ {Taken(s)}] + F[Taken(s)]
BY DEF Adds

\* Such a function of the subsets of at most n elements is extended by one.
LEMMA SumExists ==
    ASSUME NEW S, IsFiniteSet(S), NEW F
    PROVE  \E sum : Adds(sum, S, F)
<1> DEFINE Part(n) == {s \in SUBSET S : Cardinality(s) <= n}
           Value(sum, s) == IF s = {} THEN 0 ELSE sum[s \ {Taken(s)}] + F[Taken(s)]
           Upto(sum, n) == sum = [s \in Part(n) |-> Value(sum, s)]
           Without == {n \in Nat : ~ \E sum : Upto(sum, n)}
<1>1. \A s \in SUBSET S : IsFiniteSet(s) /\ Cardinality(s) \in Nat /\ Cardinality(s) <= Cardinality(S)
  BY FS_Subset, FS_CardinalityType
<1>2. ASSUME NEW s \in SUBSET S, s # {}
      PROVE  /\ s \ {Taken(s)} \in SUBSET S
             /\ Cardinality(s \ {Taken(s)}) = Cardinality(s) - 1
  BY <1>1, <1>2, TakenFrom, FS_RemoveElement
<1>3. \E sum : Upto(sum, 0)
  <2>1. \A s \in Part(0) : s = {}
    BY <1>1, FS_EmptySet
  <2>2. Upto([s \in Part(0) |-> 0], 0)
    BY <2>1
  <2> QED
    BY <2>2
<1>4. ASSUME NEW n \in Nat, NEW sum, Upto(sum, n)
      PROVE  \E next : Upto(next, n + 1)
  <2> DEFINE next == [s \in Part(n + 1) |-> Value(sum, s)]
  <2>1. \A s \in Part(n) : s \in Part(n + 1) /\ sum[s] = Value(sum, s)
    <3>1. \A s \in Part(n) : s \in Part(n + 1)
      BY <1>1
    <3> HIDE DEF Part, Value
    <3> QED
      BY <1>4, <3>1
  <2>2. \A s \in Part(n) : next[s] = sum[s]
    BY <2>1
  <2>3. ASSUME NEW s \in Part(n + 1), s # {}
        PROVE  s \ {Taken(s)} \in Part(n)
    BY <1>1, <1>2, <2>3
  <2>4. \A s \in Part(n + 1) : Value(next, s) = Value(sum, s)
    <3> HIDE DEF next, Part
    <3> QED
      BY <2>2, <2>3
  <2>5. next = [s \in Part(n + 1) |-> Value(next, s)]
    <3> HIDE DEF Value
    <3> QED
      BY <2>4
  <2> QED
    BY <2>5
<1> HIDE DEF Upto
<1>5. Without = {}
  <2> SUFFICES ASSUME Without # {} PROVE FALSE
    OBVIOUS
  <2>1. PICK n \in Without : \A m \in Without : <<m, n>> \notin OpToRel(<, Nat)
    BY NatLessThanWellFounded, WFMin
  <2>2. n \in Nat /\ ~ \E sum : Upto(sum, n)
    OBVIOUS
  <2>3. n # 0
    BY <1>3, <2>2
  <2>4. n - 1 \in Nat /\ <<n - 1, n>> \in OpToRel(<, Nat)
    BY <2>2, <2>3 DEF OpToRel
  <2>5. n - 1 \notin Without
    BY <2>1, <2>4
  <2>6. PICK sum : Upto(sum, n - 1)
    BY <2>4, <2>5
  <2>7. \E next : Upto(next, (n - 1) + 1)
    BY <1>4, <2>4, <2>6
  <2>8. (n - 1) + 1 = n
    BY <2>2
  <2> QED
    BY <2>2, <2>7, <2>8
<1>6. Cardinality(S) \in Nat
  BY FS_CardinalityType
<1>7. PICK sum : Upto(sum, Cardinality(S))
  BY <1>5, <1>6
<1>8. Part(Cardinality(S)) = SUBSET S
  BY <1>1
<1>9. Adds(sum, S, F)
  BY <1>7, <1>8 DEF Upto, Adds
<1> QED
  BY <1>9

\* Whatever is taken first, the sum is the same.
AnyFirst(sum, S, F) == \A s \in SUBSET S : \A x \in s : sum[s] = sum[s \ {x}] + F[x]

LEMMA SumRemoves ==
    ASSUME NEW S, IsFiniteSet(S), NEW F \in [S -> Int], NEW sum, Adds(sum, S, F)
    PROVE  sum \in [SUBSET S -> Int] /\ sum[{}] = 0 /\ AnyFirst(sum, S, F)
<1> DEFINE Typed == {s \in SUBSET S : sum[s] \in Int}
           P == {s \in SUBSET S : \A x \in s : sum[s] = sum[s \ {x}] + F[x]}
<1>1. /\ sum[{}] = 0
      /\ \A s \in SUBSET S : s # {} => sum[s] = sum[s \ {Taken(s)}] + F[Taken(s)]
  BY AddsValue
<1>2. ASSUME NEW s \in SUBSET S, \A t \in SUBSET s : t # s => t \in Typed
      PROVE  s \in Typed
  <2>1. CASE s = {}
    BY <1>1, <2>1
  <2>2. CASE s # {}
    <3>1. Taken(s) \in s
      BY <2>2, TakenFrom
    <3>2. s \ {Taken(s)} \in Typed /\ F[Taken(s)] \in Int
      BY <1>2, <3>1
    <3> QED
      BY <1>1, <2>2, <3>2
  <2> QED
    BY <2>1, <2>2
<1>3. \A s \in SUBSET S : s \in Typed
  <2> HIDE DEF Typed
  <2> QED
    BY <1>2, SubsetInduction
<1>4. ASSUME NEW s \in SUBSET S, \A t \in SUBSET s : t # s => t \in P, NEW x \in s
      PROVE  sum[s] = sum[s \ {x}] + F[x]
  <2> DEFINE y == Taken(s)
  <2>1. y \in s /\ sum[s] = sum[s \ {y}] + F[y]
    BY <1>1, <1>4, TakenFrom
  <2> HIDE DEF y
  <2>2. CASE x = y
    BY <2>1, <2>2
  <2>3. CASE x # y
    <3>1. s \ {y} \in P /\ x \in s \ {y} /\ s \ {x} \in P /\ y \in s \ {x}
      BY <1>4, <2>1, <2>3
    <3>2. (s \ {y}) \ {x} = (s \ {x}) \ {y}
      OBVIOUS
    <3> DEFINE rest == (s \ {x}) \ {y}
    <3>3. sum[s \ {y}] = sum[rest] + F[x] /\ sum[s \ {x}] = sum[rest] + F[y]
      BY <3>1, <3>2
    <3>4. sum[rest] \in Int /\ F[x] \in Int /\ F[y] \in Int
      BY <1>3, <2>1
    <3> HIDE DEF rest
    <3> QED
      BY <2>1, <3>3, <3>4
  <2> QED
    BY <2>2, <2>3
<1>5. \A s \in SUBSET S : s \in P
  <2>1. ASSUME NEW s \in SUBSET S, \A t \in SUBSET s : t # s => t \in P
        PROVE  s \in P
    BY <1>4, <2>1
  <2> HIDE DEF P
  <2> QED
    BY <2>1, SubsetInduction
<1>6. sum \in [SUBSET S -> Int]
  BY <1>3 DEF Adds
<1> QED
  BY <1>1, <1>5, <1>6 DEF AnyFirst

LEMMA SumOfParts ==
    ASSUME NEW S, IsFiniteSet(S), NEW F \in [S -> Int], NEW sum, Adds(sum, S, F)
    PROVE  \A s \in SUBSET S : \A t \in SUBSET S :
              s \intersect t = {} => sum[s \union t] = sum[s] + sum[t]
<1> DEFINE P == {s \in SUBSET S : \A t \in SUBSET S :
                    s \intersect t = {} => sum[s \union t] = sum[s] + sum[t]}
<1>0. sum \in [SUBSET S -> Int] /\ sum[{}] = 0 /\ AnyFirst(sum, S, F)
  BY SumRemoves
<1>1. /\ sum \in [SUBSET S -> Int] /\ sum[{}] = 0
      /\ \A s \in SUBSET S : \A x \in s : sum[s] = sum[s \ {x}] + F[x]
  BY <1>0 DEF AnyFirst
<1>2. ASSUME NEW s \in SUBSET S, \A r \in SUBSET s : r # s => r \in P,
             NEW t \in SUBSET S, s \intersect t = {}
      PROVE  sum[s \union t] = sum[s] + sum[t]
  <2>1. CASE s = {}
    <3>1. s \union t = t
      BY <2>1
    <3> QED
      BY <1>1, <2>1, <3>1
  <2>2. CASE s # {}
    <3>1. PICK x \in s : TRUE
      BY <2>2
    <3>2. s \ {x} \in P /\ (s \ {x}) \intersect t = {}
      BY <1>2
    <3>3. (s \union t) \ {x} = (s \ {x}) \union t
      BY <1>2
    <3>4. sum[s \union t] = sum[(s \ {x}) \union t] + F[x]
      BY <1>1, <3>3
    <3>5. sum[(s \ {x}) \union t] = sum[s \ {x}] + sum[t]
      BY <3>2
    <3>6. sum[s] = sum[s \ {x}] + F[x]
      BY <1>1
    <3>7. sum[s \ {x}] \in Int /\ sum[t] \in Int /\ F[x] \in Int
      BY <1>1
    <3> QED
      BY <3>4, <3>5, <3>6, <3>7
  <2> QED
    BY <2>1, <2>2
<1>3. ASSUME NEW s \in SUBSET S, \A r \in SUBSET s : r # s => r \in P
      PROVE  s \in P
  BY <1>2, <1>3
<1>4. \A s \in SUBSET S : s \in P
  <2> HIDE DEF P
  <2> QED
    BY <1>3, SubsetInduction
<1> QED
  BY <1>4

\* A sum of equal numbers.
LEMMA SumOfEqual ==
    ASSUME NEW S, IsFiniteSet(S), NEW F \in [S -> Int], NEW sum, Adds(sum, S, F), NEW c \in Int
    PROVE  \A s \in SUBSET S : (\A x \in s : F[x] = c) => sum[s] = c * Cardinality(s)
<1> DEFINE P == {s \in SUBSET S : (\A x \in s : F[x] = c) => sum[s] = c * Cardinality(s)}
<1>0. sum \in [SUBSET S -> Int] /\ sum[{}] = 0 /\ AnyFirst(sum, S, F)
  BY SumRemoves
<1>1. /\ sum \in [SUBSET S -> Int] /\ sum[{}] = 0
      /\ \A s \in SUBSET S : \A x \in s : sum[s] = sum[s \ {x}] + F[x]
  BY <1>0 DEF AnyFirst
<1>2. ASSUME NEW s \in SUBSET S, \A r \in SUBSET s : r # s => r \in P, \A x \in s : F[x] = c
      PROVE  sum[s] = c * Cardinality(s)
  <2>1. IsFiniteSet(s)
    BY FS_Subset
  <2>2. CASE s = {}
    <3>1. Cardinality(s) = 0
      BY <2>2, FS_EmptySet
    <3> QED
      BY <1>1, <2>2, <3>1
  <2>3. CASE s # {}
    <3>1. PICK x \in s : TRUE
      BY <2>3
    <3>2. sum[s] = sum[s \ {x}] + c
      BY <1>1, <1>2
    <3>3. sum[s \ {x}] = c * Cardinality(s \ {x})
      BY <1>2
    <3>4. Cardinality(s \ {x}) = Cardinality(s) - 1 /\ Cardinality(s) \in Nat
      BY <2>1, FS_RemoveElement, FS_CardinalityType
    <3> DEFINE n == Cardinality(s)
    <3>5. sum[s] = c * (n - 1) + c /\ n \in Nat
      BY <3>2, <3>3, <3>4
    <3> HIDE DEF n
    <3>6. c * (n - 1) + c = c * n
      BY <3>5
    <3> QED
      BY <3>5, <3>6 DEF n
  <2> QED
    BY <2>2, <2>3
<1>3. ASSUME NEW s \in SUBSET S, \A r \in SUBSET s : r # s => r \in P
      PROVE  s \in P
  BY <1>2, <1>3
<1>4. \A s \in SUBSET S : s \in P
  <2> HIDE DEF P
  <2> QED
    BY <1>3, SubsetInduction
<1> QED
  BY <1>4

\* The sum over a part does not depend on the whole.
LEMMA SumOfPart ==
    ASSUME NEW S, IsFiniteSet(S), NEW T \in SUBSET S, NEW F, NEW G, NEW sum, NEW part,
           Adds(sum, S, F), Adds(part, T, G), \A x \in T : G[x] = F[x]
    PROVE  part[T] = sum[T]
<1> DEFINE P == {s \in SUBSET T : part[s] = sum[s]}
<1>1. IsFiniteSet(T)
  BY FS_Subset
<1>2. ASSUME NEW s \in SUBSET T, \A t \in SUBSET s : t # s => t \in P
      PROVE  s \in P
  <2>1. CASE s = {}
    BY <2>1, AddsValue
  <2>2. CASE s # {}
    <3>1. Taken(s) \in s
      BY <2>2, TakenFrom
    <3>2. part[s \ {Taken(s)}] = sum[s \ {Taken(s)}]
      BY <1>2, <3>1
    <3>3. /\ part[s] = part[s \ {Taken(s)}] + G[Taken(s)]
          /\ sum[s] = sum[s \ {Taken(s)}] + F[Taken(s)]
      BY <2>2, AddsValue
    <3> QED
      BY <3>1, <3>2, <3>3
  <2> QED
    BY <2>1, <2>2
<1>3. \A s \in SUBSET T : s \in P
  <2> HIDE DEF P
  <2> QED
    BY <1>1, <1>2, SubsetInduction
<1> QED
  BY <1>3

-----------------------------------------------------------------------------
(* Cardinalities.                                                          *)

LEMMA Onto ==
    ASSUME NEW S, NEW T, NEW f \in [S -> T], IsFiniteSet(S), \A y \in T : \E x \in S : f[x] = y
    PROVE  IsFiniteSet(T)
BY FS_Surjection DEF Surjection

LEMMA Into ==
    ASSUME NEW S, NEW T, NEW f \in [S -> T], IsFiniteSet(T),
           \A x, y \in S : f[x] = f[y] => x = y
    PROVE  IsFiniteSet(S) /\ Cardinality(S) <= Cardinality(T)
<1>1. f \in Injection(S, T)
  BY DEF Injection, IsInjective
<1> QED
  BY <1>1, FS_Injection

LEMMA OneToOne ==
    ASSUME NEW S, NEW T, NEW f \in [S -> T], IsFiniteSet(T),
           \A x, y \in S : f[x] = f[y] => x = y, \A y \in T : \E x \in S : f[x] = y
    PROVE  IsFiniteSet(S) /\ Cardinality(S) = Cardinality(T)
<1>1. f \in Injection(S, T) /\ f \in Surjection(S, T)
  BY DEF Injection, IsInjective, Surjection
<1> QED
  BY <1>1, FS_Injection

-----------------------------------------------------------------------------
(* What is counted between two people.                                     *)

LEMMA TotalAdds ==
    ASSUME NEW rs, IsFiniteSet(rs)
    PROVE  \E sum : Adds(sum, rs, [r \in rs |-> r.count[1]]) /\ Total(rs) = sum[rs]
<1> DEFINE F == [r \in rs |-> r.count[1]]
           Folds(sum) == sum = [s \in SUBSET rs |->
               IF s = {} THEN 0 ELSE sum[s \ {Taken(s)}] + Taken(s).count[1]]
<1>1. ASSUME NEW sum
      PROVE  Adds(sum, rs, F) <=> Folds(sum)
  <2>1. \A s \in SUBSET rs : s # {} => F[Taken(s)] = Taken(s).count[1]
    BY TakenFrom
  <2> QED
    BY <2>1 DEF Adds
<1>2. \E sum : Folds(sum)
  BY <1>1, SumExists
<1>3. Folds(CHOOSE sum : Folds(sum))
  BY <1>2
<1>4. Total(rs) = (CHOOSE sum : Folds(sum))[rs]
  BY DEF Total, FoldSet, MapThenFoldSet, Taken
<1> QED
  BY <1>1, <1>3, <1>4

\* Records that count one each, and others.
LEMMA TotalOfParts ==
    ASSUME NEW ones, NEW rest, IsFiniteSet(ones), IsFiniteSet(rest), ones \intersect rest = {},
           \A r \in ones : r.count[1] = 1, \A r \in rest : r.count[1] \in Int
    PROVE  Total(ones \union rest) = Cardinality(ones) + Total(rest)
<1> DEFINE rs == ones \union rest
           F == [r \in rs |-> r.count[1]]
           G == [r \in rest |-> r.count[1]]
<1>1. IsFiniteSet(rs)
  BY FS_Union
<1>2. PICK sum : Adds(sum, rs, F) /\ Total(rs) = sum[rs]
  BY <1>1, TotalAdds
<1>3. PICK part : Adds(part, rest, G) /\ Total(rest) = part[rest]
  BY TotalAdds
<1>4. F \in [rs -> Int] /\ (\A r \in ones : F[r] = 1) /\ \A r \in rest : G[r] = F[r]
  OBVIOUS
<1> HIDE DEF F, G
<1>5. sum[rs] = sum[ones] + sum[rest]
  <2>1. ones \in SUBSET rs /\ rest \in SUBSET rs
    OBVIOUS
  <2> HIDE DEF rs
  <2>2. sum[ones \union rest] = sum[ones] + sum[rest]
    BY <1>1, <1>2, <1>4, <2>1, SumOfParts
  <2> QED
    BY <2>2 DEF rs
<1>6. sum[ones] = 1 * Cardinality(ones)
  <2>1. ones \in SUBSET rs
    OBVIOUS
  <2> HIDE DEF rs
  <2> QED
    BY <1>1, <1>2, <1>4, <2>1, SumOfEqual
<1>7. part[rest] = sum[rest]
  <2>1. rest \in SUBSET rs
    OBVIOUS
  <2> HIDE DEF rs
  <2> QED
    BY <1>1, <1>2, <1>3, <1>4, <2>1, SumOfPart
<1>8. Cardinality(ones) \in Nat
  BY FS_CardinalityType
<1> QED
  BY <1>2, <1>3, <1>5, <1>6, <1>7, <1>8

LEMMA RowsFinite ==
    ASSUME StageInv
    PROVE  IsFiniteSet(Rows)
<1> DEFINE ready(row) == drop_unknown_modules(resolve_row(row, LoweredMap), input.modules)
           f == [row \in input.rows |-> ready(row)]
<1>1. Rows = {ready(row) : row \in input.rows}
  BY DEF Rows
<1> HIDE DEF ready
<1>2. f \in [input.rows -> Rows] /\ \A y \in Rows : \E x \in input.rows : f[x] = y
  BY <1>1
<1>3. IsFiniteSet(input.rows)
  BY CountAssumption DEF StageInv
<1> HIDE DEF f
<1> QED
  BY <1>2, <1>3, Onto

LEMMA NobodyIsNone ==
    ASSUME StageInv, NEW h \in Directory
    PROVE  h # None
<1>1. ASSUME NEW k \in UnresolvedIds
      PROVE  Unresolved(k) # None
  <2>1. PICK row \in input.rows : k \in NamedIds(row)
    BY DEF UnresolvedIds
  <2>2. {row.author} \union row.to \union ({row.pauthor} \ {None}) \subseteq DOMAIN Normal
    BY InputAssumption DEF StageInv
  <2>3. \E raw \in DOMAIN Normal : k = Normal[raw]
    BY <2>1, <2>2 DEF NamedIds
  <2> QED
    BY <2>3, NoneIsNobody
<1> QED
  BY <1>1, NoneIsNobody DEF StageInv, Directory

\* A record that reaches somebody, and the message of a row that it is of.
LEMMA ReachingRecord ==
    ASSUME StageInv, NEW a \in Directory, NEW b \in Directory, NEW row \in Rows,
           NEW r \in row_records(row), r.kind = "communication_aggregate",
           r.subject = PersonKey(a), r.object = PersonKey(b)
    PROVE  /\ r.xid = <<row.kind, row.id, "communication", b>> /\ r.count = <<1, 1>>
           /\ row.author = a /\ b # a /\ b \in row.to \union {row.pauthor}
<1>1. PICK h, way : r = communication(row, h, way) /\ h \in Replied(row) \union Named(row)
  BY RecordOfRow
<1>2. /\ r.xid = <<row.kind, row.id, "communication", h>> /\ r.count = <<1, 1>>
      /\ r.subject = PersonKey(row.author) /\ r.object = PersonKey(h)
  BY <1>1 DEF communication, Record
<1>3. row.author = a /\ h = b
  BY <1>2, KeyKinds
<1>4. h # row.author /\ h \in row.to \union {row.pauthor}
  BY <1>1 DEF Replied, Named
<1> QED
  BY <1>2, <1>3, <1>4

LEMMA MessageReaches ==
    ASSUME StageInv, NEW a \in Directory, NEW b \in Directory, NEW row \in Rows,
           row.author = a, b # a, b \in row.to \union {row.pauthor}
    PROVE  \E r \in row_records(row) :
              /\ r.kind = "communication_aggregate"
              /\ r.subject = PersonKey(a) /\ r.object = PersonKey(b)
<1>1. b # None
  BY NobodyIsNone
<1>2. b \in Replied(row) \union Named(row)
  BY <1>1, ResolvedRow DEF Replied, Named
<1>3. \E way : communication(row, b, way) \in row_records(row)
  BY <1>2, RowRecords
<1>4. \A way : /\ communication(row, b, way).kind = "communication_aggregate"
               /\ communication(row, b, way).subject = PersonKey(row.author)
               /\ communication(row, b, way).object = PersonKey(b)
  BY DEF communication, Record
<1> QED
  BY <1>3, <1>4

Between(a, b) ==
    {r \in OfKind("communication_aggregate") : <<r.subject, r.object>> = <<PersonKey(a), PersonKey(b)>>}

\* The records between two people are those of the messages, one each, and
\* the facts that are none of them.
LEMMA BetweenCounts ==
    ASSUME StageInv, records = AllRecords, ~Conflicting(AllRecords),
           NEW a \in Directory, NEW b \in Directory
    PROVE  /\ Between(a, b) = {} <=> Messages(a, b) = {} /\ Counts(a, b) = {}
           /\ Total(Between(a, b)) = Interactions(a, b)
<1> DEFINE Stated(r) == \E row \in Rows : r \in row_records(row)
           ones == {r \in Between(a, b) : Stated(r)}
           reaching == {r \in Rows : r.author = a /\ b # a /\ b \in r.to \union {r.pauthor}}
           message(row) == <<row.kind, row.id>>
           f == [r \in ones |-> <<r.xid[1], r.xid[2]>>]
<1>1. \A r : r \in Between(a, b) <=> /\ r \in AllRecords /\ r.kind = "communication_aggregate"
                                     /\ r.subject = PersonKey(a) /\ r.object = PersonKey(b)
  BY Tuples DEF Between, OfKind
<1>2. Between(a, b) = ones \union Counts(a, b) /\ ones \intersect Counts(a, b) = {}
  <2>1. \A r \in Between(a, b) : Stated(r) \/ r \in input.facts
    BY <1>1, StatingRecord DEF StatingKinds
  <2>2. \A r : r \in Counts(a, b) <=> /\ r \in input.facts /\ r.kind = "communication_aggregate"
                                      /\ r.subject = PersonKey(a) /\ r.object = PersonKey(b)
                                      /\ ~Stated(r)
    BY DEF Counts
  <2>3. input.facts \subseteq AllRecords
    BY DEF AllRecords
  <2> QED
    BY <1>1, <2>1, <2>2, <2>3
<1>3. Messages(a, b) = {message(row) : row \in reaching}
  BY DEF Messages
<1>4. ASSUME NEW r \in ones
      PROVE  /\ f[r] \in Messages(a, b) /\ r.count[1] = 1 /\ r \in AllRecords
             /\ r.xid = <<f[r][1], f[r][2], "communication", b>> /\ r.source = f[r][1]
  <2>1. PICK row \in Rows : r \in row_records(row)
    OBVIOUS
  <2>2. /\ r.xid = <<row.kind, row.id, "communication", b>> /\ r.count = <<1, 1>>
        /\ row \in reaching
    BY <1>1, <2>1, ReachingRecord
  <2>3. r.source = row.kind
    BY <2>1, RecordOfRow
  <2>4. f[r] = message(row)
    BY <2>2
  <2> QED
    BY <1>1, <1>3, <2>2, <2>3, <2>4
<1>5. ASSUME NEW y \in Messages(a, b)
      PROVE  \E r \in ones : f[r] = y
  <2>1. PICK row \in reaching : y = message(row)
    BY <1>3
  <2>2. PICK r \in row_records(row) :
          r.kind = "communication_aggregate" /\ r.subject = PersonKey(a) /\ r.object = PersonKey(b)
    BY <2>1, MessageReaches
  <2>3. r \in ones
    BY <1>1, <2>2, OfRows
  <2>4. r.xid = <<row.kind, row.id, "communication", b>>
    BY <2>2, ReachingRecord
  <2>5. f[r] = <<r.xid[1], r.xid[2]>>
    BY <2>3
  <2>6. f[r] = y
    BY <2>1, <2>4, <2>5
  <2> QED
    BY <2>3, <2>6
<1>6. ASSUME NEW r \in ones, NEW s \in ones, f[r] = f[s]
      PROVE  r = s
  <2>1. /\ r \in AllRecords /\ s \in AllRecords
        /\ r.xid = <<f[r][1], f[r][2], "communication", b>> /\ r.source = f[r][1]
        /\ s.xid = <<f[s][1], f[s][2], "communication", b>> /\ s.source = f[s][1]
    BY <1>4
  <2> HIDE DEF f
  <2>2. r.xid = s.xid /\ r.source = s.source
    BY <1>6, <2>1
  <2> QED
    BY <2>1, <2>2 DEF Conflicting
<1>7. f \in [ones -> Messages(a, b)]
  BY <1>4
<1>8. IsFiniteSet(Messages(a, b))
  <2> DEFINE g == [row \in reaching |-> message(row)]
  <2>1. IsFiniteSet(reaching)
    BY RowsFinite, FS_Subset
  <2>2. g \in [reaching -> Messages(a, b)] /\ \A y \in Messages(a, b) : \E x \in reaching : g[x] = y
    BY <1>3
  <2> HIDE DEF g, reaching
  <2> QED
    BY <2>1, <2>2, Onto
<1> HIDE DEF f, message, reaching
<1>9. IsFiniteSet(ones) /\ Cardinality(ones) = Cardinality(Messages(a, b))
  <2> HIDE DEF ones
  <2> QED
    BY <1>5, <1>6, <1>7, <1>8, OneToOne
<1>10. IsFiniteSet(Counts(a, b)) /\ \A r \in Counts(a, b) : r.count[1] \in Int
  <2>1. /\ Counts(a, b) \subseteq input.facts
        /\ \A r \in Counts(a, b) : r.kind = "communication_aggregate"
    BY DEF Counts
  <2> QED
    BY <2>1, CountAssumption, FS_Subset DEF StageInv
<1>11. Total(ones \union Counts(a, b)) = Cardinality(ones) + Total(Counts(a, b))
  <2>1. \A r \in ones : r.count[1] = 1
    BY <1>4
  <2> HIDE DEF ones
  <2> QED
    BY <1>2, <1>9, <1>10, <2>1, TotalOfParts
<1>12. Interactions(a, b) = Cardinality(Messages(a, b)) + Total(Counts(a, b))
  BY DEF Interactions, Total
<1>13. ones = {} <=> Messages(a, b) = {}
  <2> HIDE DEF ones
  <2> QED
    BY <1>5, <1>7
<1> HIDE DEF ones
<1> QED
  BY <1>2, <1>9, <1>11, <1>12, <1>13

\* The same of a set of derived edges.
CommunicatedIn(es) ==
    \A a, b \in Directory :
        {e.weight : e \in {d \in es : d.key = <<"COMMUNICATES", PersonKey(a), PersonKey(b),
                                              <<"aggregate">>>>}}
        = IF Messages(a, b) = {} /\ Counts(a, b) = {} THEN {} ELSE {Interactions(a, b)}

\* What an edge is derived from can be told by its key.
LEMMA DerivedOf ==
    ASSUME NEW e \in derive_edges
    PROVE  /\ e.key[1] = "COMMUNICATES" => e \in communication_edges
           /\ e.key[1] = "OWNS" /\ e.key[4] = <<"authorship_density_derived">>
              => e \in authorship_density_edges
<1>1. \A x \in communication_edges : x.key[1] = "COMMUNICATES"
  <2>1. \A s, o : CommunicationEdge(s, o).key[1] = "COMMUNICATES"
    BY DerivedFields DEF CommunicationEdge
  <2> QED
    BY <2>1, EdgesDerived
<1>2. \A x \in ownership_edges : x.key[1] = "OWNS" /\ x.key[4] = <<"authorship_density">>
  <2>1. \A r : ShareEdge(r).key[1] = "OWNS" /\ ShareEdge(r).key[4] = <<"authorship_density">>
    BY DerivedFields DEF ShareEdge
  <2> QED
    BY <2>1, EdgesDerived
<1>3. \A x \in ownership_assertion_edges :
          x.key[1] = "OWNS" /\ \E y : x.key[4] = <<"assertion", y>>
  <2>1. \A r : AssertionEdge(r).key[1] = "OWNS" /\ AssertionEdge(r).key[4] = <<"assertion", r.xid>>
    BY DerivedFields DEF AssertionEdge
  <2> QED
    BY <2>1, EdgesDerived
<1>4. \A x \in authorship_density_edges : x.key[1] = "OWNS"
  <2>1. \A a, m : DensityEdge(a, m).key[1] = "OWNS"
    BY DerivedFields DEF DensityEdge
  <2> QED
    BY <2>1, EdgesDerived
<1>5. \A x \in dependency_edges \union cochange_dependency_edges : x.key[1] = "DEPENDS_ON"
  <2>1. \A r : DependencyEdge(r).key[1] = "DEPENDS_ON"
    BY DerivedFields DEF DependencyEdge
  <2>2. \A p : CochangeEdge(p).key[1] = "DEPENDS_ON"
    BY DerivedFields DEF CochangeEdge
  <2> QED
    BY <2>1, <2>2, EdgesDerived
<1> QED
  BY <1>1, <1>2, <1>3, <1>4, <1>5, DiscriminatorsApart DEF derive_edges

LEMMA CommunicationDerived ==
    ASSUME StageInv, records = AllRecords, ~Conflicting(AllRecords)
    PROVE  CommunicatedIn(derive_edges)
<1> SUFFICES ASSUME NEW a \in Directory, NEW b \in Directory
             PROVE  {e.weight : e \in {d \in derive_edges :
                        d.key = <<"COMMUNICATES", PersonKey(a), PersonKey(b), <<"aggregate">>>>}}
                    = IF Messages(a, b) = {} /\ Counts(a, b) = {} THEN {} ELSE {Interactions(a, b)}
  BY DEF CommunicatedIn
<1> DEFINE s == PersonKey(a)
           o == PersonKey(b)
           edge == CommunicationEdge(s, o)
           key == <<"COMMUNICATES", s, o, <<"aggregate">>>>
<1>1. edge.weight = Total(Between(a, b)) /\ edge.key = key
  BY DEF CommunicationEdge, Derived, Between
<1>2. ASSUME NEW d \in derive_edges, d.key = key
      PROVE  d = edge /\ Between(a, b) # {}
  <2>1. d.key[1] = "COMMUNICATES"
    BY <1>2
  <2>2. d \in communication_edges
    BY <2>1, DerivedOf
  <2>3. PICK r \in OfKind("communication_aggregate") : d = CommunicationEdge(r.subject, r.object)
    BY <2>2, EdgesDerived, Zenon
  <2>4. <<"COMMUNICATES", r.subject, r.object, <<"aggregate">>>> = key
    BY <1>2, <2>3, DerivedKeys
  <2>5. r.subject = s /\ r.object = o
    BY <2>4, Tuples
  <2> QED
    BY <2>3, <2>5 DEF Between
<1>3. ASSUME Between(a, b) # {}
      PROVE  edge \in derive_edges
  <2>1. PICK r \in OfKind("communication_aggregate") : <<r.subject, r.object>> = <<s, o>>
    BY <1>3 DEF Between
  <2>2. r.subject = s /\ r.object = o
    BY <2>1, Tuples
  <2>3. edge \in communication_edges
    BY <2>2, EdgesDerived, Zenon
  <2> QED
    BY <2>3, Zenon DEF derive_edges
<1> HIDE DEF edge, key
<1>4. {d \in derive_edges : d.key = key} = IF Between(a, b) = {} THEN {} ELSE {edge}
  BY <1>1, <1>2, <1>3
<1>5. {e.weight : e \in {d \in derive_edges : d.key = key}}
      = IF Between(a, b) = {} THEN {} ELSE {Total(Between(a, b))}
  BY <1>1, <1>4
<1> QED
  BY <1>5, BetweenCounts DEF key

-----------------------------------------------------------------------------
(* Who wrote about a module.                                               *)

\* No merge has changed an edge.
EdgesAre == \A k \in DOMAIN edges : edges[k] \in Observed

\* All edges of the artifacts are there.
Linked ==
    /\ StageInv /\ TypeOK /\ GInv /\ EdgesAre /\ ~Conflicting(AllRecords)
    /\ pc = "edges" /\ queue = {}

AboutEdge(a, m) == Edge("ABOUT", a.subject, m, <<"about">>, a)

AuthorEdge(a) == Edge("AUTHORED", PersonKey(a.author), a.subject, <<"authored">>, a)

\* The artifacts about a module that have an author.
About(m) == {a \in Artifacts : a.author # None /\ m \in a.mods}

LEMMA ArtifactEdgeFields ==
    ASSUME NEW a, NEW m
    PROVE  /\ AboutEdge(a, m).rel = "ABOUT" /\ AboutEdge(a, m).source = a.subject
           /\ AboutEdge(a, m).target = m /\ AboutEdge(a, m).evidence = {a}
           /\ AuthorEdge(a).rel = "AUTHORED" /\ AuthorEdge(a).source = PersonKey(a.author)
           /\ AuthorEdge(a).target = a.subject /\ AuthorEdge(a).evidence = {a}
BY DEF AboutEdge, AuthorEdge, Edge

LEMMA LinkedEdges ==
    ASSUME Linked
    PROVE  Range(edges) = Observed
<1>1. DOMAIN edges = KeysOf(Observed)
  <2>1. KeysOf(queue) = {}
    BY DEF Linked, KeysOf
  <2> QED
    BY <2>1 DEF Linked, StageInv
<1>2. ASSUME NEW e \in Observed
      PROVE  e \in Range(edges)
  <2> DEFINE k == EdgeKey(e)
  <2>1. k \in DOMAIN edges
    BY <1>1 DEF KeysOf
  <2>2. edges[k] \in Observed /\ EdgeKey(edges[k]) = k
    BY <2>1 DEF Linked, EdgesAre, TypeOK
  <2>3. edges[k] = e
    BY <2>2, OneEdgeEach DEF Linked
  <2> HIDE DEF k
  <2> QED
    BY <2>1, <2>3 DEF Range
<1> QED
  BY <1>2 DEF Range, Linked, EdgesAre

LEMMA ArtifactEdges ==
    ASSUME Linked
    PROVE  /\ \A a \in Artifacts : \A m \in a.mods : AboutEdge(a, m) \in Range(edges)
           /\ \A a \in Artifacts : a.author # None => AuthorEdge(a) \in Range(edges)
           /\ \A e \in Range(edges) : e.rel = "ABOUT" =>
                 \E a \in Artifacts : e.target \in a.mods /\ e = AboutEdge(a, e.target)
           /\ \A e \in Range(edges) : e.rel = "AUTHORED" =>
                 \E a \in Artifacts : a.author # None /\ e = AuthorEdge(a)
<1>1. StageInv /\ pc \in {"edges", "gaps", "compose", "done"}
  BY DEF Linked
<1>2. ASSUME NEW a \in Artifacts, NEW m \in a.mods
      PROVE  AboutEdge(a, m) \in Observed
  <2> DEFINE e == AboutEdge(a, m)
  <2>1. e.rel = "ABOUT" /\ e.source = a.subject /\ e.target = m /\ e.disc = <<"about">>
    BY DEF AboutEdge, Edge
  <2>2. e = Edge(e.rel, e.source, e.target, e.disc, a)
    BY <2>1 DEF AboutEdge
  <2> HIDE DEF e
  <2>3. LinkOf(e) \in Links(a)
    BY <1>1, <2>1, ArtifactsOfRecords DEF LinkOf, Links, ArtifactLinks
  <2> QED
    BY <1>1, <2>2, <2>3, ObservedLinks DEF e, Linking
<1>3. ASSUME NEW a \in Artifacts, a.author # None
      PROVE  AuthorEdge(a) \in Observed
  <2> DEFINE e == AuthorEdge(a)
  <2>1. /\ e.rel = "AUTHORED" /\ e.source = PersonKey(a.author) /\ e.target = a.subject
        /\ e.disc = <<"authored">>
    BY DEF AuthorEdge, Edge
  <2>2. e = Edge(e.rel, e.source, e.target, e.disc, a)
    BY <2>1 DEF AuthorEdge
  <2> HIDE DEF e
  <2>3. LinkOf(e) \in Links(a)
    BY <1>1, <1>3, <2>1, ArtifactsOfRecords DEF LinkOf, Links, ArtifactLinks
  <2> QED
    BY <1>1, <2>2, <2>3, ObservedLinks DEF e, Linking
<1>4. ASSUME NEW e \in Observed, e.rel \in {"ABOUT", "AUTHORED"}
      PROVE  \E a \in Artifacts :
                /\ e.rel = "ABOUT" => e.target \in a.mods /\ e = AboutEdge(a, e.target)
                /\ e.rel = "AUTHORED" => a.author # None /\ e = AuthorEdge(a)
  <2>1. PICK a \in Linking :
          LinkOf(e) \in Links(a) /\ e = Edge(e.rel, e.source, e.target, e.disc, a)
    BY <1>1, ObservedLinks
  <2> DEFINE l == LinkOf(e)
  <2>2. l[1] = e.rel /\ l[2] = e.source /\ l[3] = e.target /\ l[4] = e.disc
    BY DEF LinkOf
  <2> HIDE DEF l
  <2>3. l \in Links(a)
    BY <2>1 DEF l
  <2>4. e.disc = Discriminator(e.rel)
    BY <2>2, <2>3, LinkParts
  <2>5. a \in Artifacts
    BY <1>1, <1>4, <2>2, <2>3, LinkParts, LinkingRecords
  <2>6. CASE e.rel = "ABOUT"
    <3>1. e.source = a.subject /\ e.target \in a.mods
      BY <2>2, <2>3, <2>6, LinkParts
    <3>2. e.disc = <<"about">>
      BY <2>4, <2>6 DEF Discriminator
    <3> QED
      BY <2>1, <2>5, <2>6, <3>1, <3>2 DEF AboutEdge
  <2>7. CASE e.rel = "AUTHORED"
    <3>1. e.source = PersonKey(a.author) /\ e.target = a.subject /\ a.author # None
      BY <2>2, <2>3, <2>7, LinkParts
    <3>2. e.disc = <<"authored">>
      BY <2>4, <2>7 DEF Discriminator
    <3> QED
      BY <2>1, <2>5, <2>7, <3>1, <3>2 DEF AuthorEdge
  <2> QED
    BY <1>4, <2>6, <2>7
<1> QED
  BY <1>2, <1>3, <1>4, LinkedEdges

LEMMA OneArtifact ==
    ASSUME Linked, NEW a \in Artifacts, NEW b \in Artifacts, a.subject = b.subject
    PROVE  a = b
BY ConflictsMade DEF Linked, TwoRowsOfOneId

LEMMA AuthorOfArtifact ==
    ASSUME Linked, NEW a \in Artifacts, a.author # None
    PROVE  AuthorOf(a.subject) = AuthorEdge(a)
<1>1. AuthorEdge(a) \in Range(edges) /\ AuthorEdge(a).rel = "AUTHORED"
      /\ AuthorEdge(a).target = a.subject
  BY ArtifactEdges, ArtifactEdgeFields
<1>2. ASSUME NEW e \in Range(edges), e.rel = "AUTHORED", e.target = a.subject
      PROVE  e = AuthorEdge(a)
  <2>1. PICK b \in Artifacts : b.author # None /\ e = AuthorEdge(b)
    BY <1>2, ArtifactEdges
  <2>2. b.subject = a.subject
    BY <1>2, <2>1, ArtifactEdgeFields
  <2> QED
    BY <2>1, <2>2, OneArtifact
<1> QED
  BY <1>1, <1>2 DEF AuthorOf

LEMMA AuthoredOf ==
    ASSUME Linked, NEW m
    PROVE  /\ AuthoredAbout(m) = {AboutEdge(a, m) : a \in About(m)}
           /\ Authors(m) = {PersonKey(a.author) : a \in About(m)}
<1>1. ASSUME NEW e \in AuthoredAbout(m)
      PROVE  \E a \in About(m) : e = AboutEdge(a, m)
  <2>1. e \in Range(edges) /\ e.rel = "ABOUT" /\ e.target = m
    BY DEF AuthoredAbout
  <2>2. PICK x \in Range(edges) : x.rel = "AUTHORED" /\ x.target = e.source
    BY DEF AuthoredAbout
  <2>3. PICK a \in Artifacts : m \in a.mods /\ e = AboutEdge(a, m)
    BY <2>1, ArtifactEdges
  <2>4. PICK b \in Artifacts : b.author # None /\ x = AuthorEdge(b)
    BY <2>2, ArtifactEdges
  <2>5. x.target = b.subject /\ e.source = a.subject
    BY <2>3, <2>4, ArtifactEdgeFields
  <2>6. a = b
    BY <2>2, <2>5, OneArtifact
  <2> QED
    BY <2>3, <2>4, <2>6 DEF About
<1>2. ASSUME NEW a \in About(m)
      PROVE  AboutEdge(a, m) \in AuthoredAbout(m)
  <2>1. a \in Artifacts /\ m \in a.mods /\ a.author # None
    BY DEF About
  <2>2. AboutEdge(a, m) \in Range(edges) /\ AuthorEdge(a) \in Range(edges)
    BY <2>1, ArtifactEdges
  <2> QED
    BY <2>2, ArtifactEdgeFields DEF AuthoredAbout
<1>3. \A a \in About(m) : AuthorOf(AboutEdge(a, m).source).source = PersonKey(a.author)
  BY ArtifactEdgeFields, AuthorOfArtifact DEF About
<1>4. AuthoredAbout(m) = {AboutEdge(a, m) : a \in About(m)}
  BY <1>1, <1>2
<1>5. Authors(m) = {AuthorOf(e.source).source : e \in AuthoredAbout(m)}
  BY DEF Authors
<1> QED
  BY <1>3, <1>4, <1>5

LEMMA ArtifactsFinite ==
    ASSUME StageInv
    PROVE  IsFiniteSet(Artifacts)
<1> DEFINE A == {artifact(row) : row \in Rows}
           f == [row \in Rows |-> artifact(row)]
<1>1. f \in [Rows -> A] /\ \A y \in A : \E x \in Rows : f[x] = y
  OBVIOUS
<1> HIDE DEF f
<1>2. IsFiniteSet(A)
  BY <1>1, RowsFinite, Onto
<1>3. IsFiniteSet({r \in input.facts : r.kind = "artifact"})
  BY CountAssumption, FS_Subset DEF StageInv
<1> QED
  BY <1>2, <1>3, FS_Union DEF Artifacts

\* The artifacts of one person about a module.
WrittenBy(h, m) == {a \in Artifacts : a.author = h /\ m \in a.mods}

LEMMA WrittenAbout ==
    ASSUME StageInv, NEW m
    PROVE  IsFiniteSet(About(m)) /\ Written(m) \in Nat /\ (Written(m) > 0 <=> About(m) # {})
<1>1. IsFiniteSet(About(m))
  BY ArtifactsFinite, FS_Subset DEF About
<1>2. Written(m) = Cardinality(About(m))
  BY DEF Written, About
<1> QED
  BY <1>1, <1>2, FS_CardinalityType, FS_EmptySet

LEMMA WroteAtMost ==
    ASSUME StageInv, NEW m, NEW h, h # None
    PROVE  /\ Wrote(h, m) \in Nat /\ Wrote(h, m) <= Written(m)
           /\ Wrote(h, m) > 0 <=> WrittenBy(h, m) # {}
<1>1. IsFiniteSet(About(m))
  BY WrittenAbout
<1>2. WrittenBy(h, m) \subseteq About(m)
  BY DEF About, WrittenBy
<1>3. Wrote(h, m) = Cardinality(WrittenBy(h, m)) /\ Written(m) = Cardinality(About(m))
  BY DEF Wrote, Written, About, WrittenBy
<1>4. IsFiniteSet(WrittenBy(h, m)) /\ Cardinality(WrittenBy(h, m)) <= Cardinality(About(m))
  BY <1>1, <1>2, FS_Subset
<1>5. \A s : IsFiniteSet(s) => Cardinality(s) \in Nat /\ (Cardinality(s) > 0 <=> s # {})
  BY FS_CardinalityType, FS_EmptySet
<1> QED
  BY <1>1, <1>3, <1>4, <1>5

LEMMA AuthorsKnown ==
    ASSUME Linked, NEW m
    PROVE  /\ Authors(m) = {PersonKey(h) : h \in {g \in Directory : Wrote(g, m) > 0}}
           /\ IsFiniteSet(Authors(m))
           /\ IsFiniteSet(AuthoredAbout(m)) /\ Cardinality(AuthoredAbout(m)) = Written(m)
<1>0. StageInv
  BY DEF Linked
<1>1. ASSUME NEW a \in About(m)
      PROVE  a.author \in Directory
  <2>1. a \in Artifacts /\ a.author # None
    BY DEF About
  <2>2. AuthorEdge(a) \in Range(edges)
    BY <2>1, ArtifactEdges
  <2>3. AuthorEdge(a).source \in DOMAIN nodes
    BY <2>2 DEF Linked, GInv, EdgesClosed, Range
  <2>4. PersonKey(a.author) \in DOMAIN nodes
    BY <2>3, ArtifactEdgeFields
  <2>5. DOMAIN nodes = ExpectedKeys
    BY NodesExpected DEF Linked, StageInv, NodesDone
  <2> QED
    BY <1>0, <2>4, <2>5, PeopleExpected
<1>2. ASSUME NEW h \in Directory
      PROVE  Wrote(h, m) > 0 <=> \E a \in About(m) : a.author = h
  BY <1>0, WroteAtMost, NobodyIsNone DEF About, WrittenBy
<1>3. Authors(m) = {PersonKey(h) : h \in {g \in Directory : Wrote(g, m) > 0}}
  <2>1. Authors(m) = {PersonKey(a.author) : a \in About(m)}
    BY AuthoredOf
  <2>2. {PersonKey(a.author) : a \in About(m)} \subseteq
            {PersonKey(h) : h \in {g \in Directory : Wrote(g, m) > 0}}
    BY <1>1, <1>2
  <2>3. {PersonKey(h) : h \in {g \in Directory : Wrote(g, m) > 0}} \subseteq
            {PersonKey(a.author) : a \in About(m)}
    BY <1>2
  <2> QED
    BY <2>1, <2>2, <2>3
<1>4. IsFiniteSet(About(m))
  BY <1>0, WrittenAbout
<1>5. IsFiniteSet(Authors(m))
  <2> DEFINE f == [a \in About(m) |-> PersonKey(a.author)]
  <2>1. f \in [About(m) -> Authors(m)] /\ \A y \in Authors(m) : \E x \in About(m) : f[x] = y
    BY AuthoredOf
  <2> HIDE DEF f
  <2> QED
    BY <1>4, <2>1, Onto
<1>6. IsFiniteSet(AuthoredAbout(m)) /\ Cardinality(AuthoredAbout(m)) = Written(m)
  <2> DEFINE f == [a \in About(m) |-> AboutEdge(a, m)]
  <2>1. f \in [About(m) -> AuthoredAbout(m)] /\ \A y \in AuthoredAbout(m) : \E x \in About(m) : f[x] = y
    BY AuthoredOf
  <2>2. ASSUME NEW a \in About(m), NEW b \in About(m), f[a] = f[b]
        PROVE  a = b
    <3>1. a.subject = b.subject
      BY <2>2, ArtifactEdgeFields
    <3> QED
      BY <3>1, OneArtifact DEF About
  <2> HIDE DEF f
  <2>3. IsFiniteSet(AuthoredAbout(m))
    BY <1>4, <2>1, Onto
  <2>4. Cardinality(About(m)) = Cardinality(AuthoredAbout(m))
    BY <2>1, <2>2, <2>3, OneToOne
  <2> QED
    BY <2>3, <2>4 DEF Written, About
<1> QED
  BY <1>3, <1>5, <1>6

\* Each artifact adds two pieces of evidence to its author's.
LEMMA EvidenceCounted ==
    ASSUME Linked, NEW m, NEW h, h # None
    PROVE  EvidenceCount(m, PersonKey(h)) = 2 * Wrote(h, m)
<1> DEFINE of == {e \in AuthoredAbout(m) : AuthorOf(e.source).source = PersonKey(h)}
           wrote == WrittenBy(h, m)
           Step(sum, s) == sum[s \ {Taken(s)}] + Cardinality(Taken(s).evidence)
                               + Cardinality(AuthorOf(Taken(s).source).evidence)
           Folds(sum) == sum = [s \in SUBSET of |-> IF s = {} THEN 0 ELSE Step(sum, s)]
<1>1. of = {AboutEdge(a, m) : a \in wrote}
  <2>1. AuthoredAbout(m) = {AboutEdge(a, m) : a \in About(m)}
    BY AuthoredOf
  <2>2. \A a \in About(m) : AuthorOf(AboutEdge(a, m).source).source = PersonKey(a.author)
    BY ArtifactEdgeFields, AuthorOfArtifact DEF About
  <2>3. \A a \in About(m) : PersonKey(a.author) = PersonKey(h) <=> a \in wrote
    BY KeyKinds DEF About, WrittenBy
  <2>4. wrote \subseteq About(m)
    BY DEF About, WrittenBy
  <2> HIDE DEF wrote
  <2> QED
    BY <2>1, <2>2, <2>3, <2>4
<1>2. ASSUME NEW e \in of
      PROVE  Cardinality(e.evidence) = 1 /\ Cardinality(AuthorOf(e.source).evidence) = 1
  <2>1. PICK a \in wrote : e = AboutEdge(a, m)
    BY <1>1
  <2>2. a \in Artifacts /\ a.author # None
    BY DEF WrittenBy
  <2>3. e.evidence = {a} /\ AuthorOf(e.source).evidence = {a}
    BY <2>1, <2>2, ArtifactEdgeFields, AuthorOfArtifact
  <2> QED
    BY <2>3, FS_Singleton
<1>3. IsFiniteSet(of) /\ Cardinality(of) = Cardinality(wrote)
  <2> DEFINE f == [a \in wrote |-> AboutEdge(a, m)]
  <2>1. f \in [wrote -> of] /\ \A y \in of : \E x \in wrote : f[x] = y
    BY <1>1
  <2>2. ASSUME NEW a \in wrote, NEW b \in wrote, f[a] = f[b]
        PROVE  a = b
    <3>1. a.subject = b.subject
      BY <2>2, ArtifactEdgeFields
    <3> QED
      BY <3>1, OneArtifact DEF WrittenBy
  <2>3. IsFiniteSet(wrote)
    BY ArtifactsFinite, FS_Subset DEF WrittenBy, Linked
  <2> HIDE DEF f, of, wrote
  <2>4. IsFiniteSet(of)
    BY <2>1, <2>3, Onto
  <2> QED
    BY <2>1, <2>2, <2>4, OneToOne
<1> HIDE DEF of
<1>4. \E sum : Folds(sum)
  <2> DEFINE F == [e \in of |-> 2]
  <2>1. PICK sum : Adds(sum, of, F)
    BY <1>3, SumExists
  <2>2. F \in [of -> Int]
    OBVIOUS
  <2>3. sum \in [SUBSET of -> Int]
    <3> HIDE DEF F
    <3> QED
      BY <1>3, <2>1, <2>2, SumRemoves
  <2>4. ASSUME NEW s \in SUBSET of, s # {}
        PROVE  sum[s \ {Taken(s)}] + F[Taken(s)] = Step(sum, s)
    <3>1. Taken(s) \in of /\ sum[s \ {Taken(s)}] \in Int
      BY <2>3, <2>4, TakenFrom
    <3> QED
      BY <1>2, <3>1
  <2>5. Folds(sum)
    <3> HIDE DEF F, Step
    <3> QED
      BY <2>1, <2>4 DEF Adds
  <2> QED
    BY <2>5
<1>5. PICK sum : Folds(sum) /\ EvidenceCount(m, PersonKey(h)) = sum[of]
  <2>1. EvidenceCount(m, PersonKey(h)) = (CHOOSE sum : Folds(sum))[of]
    BY DEF EvidenceCount, FoldSet, MapThenFoldSet, Taken, of
  <2>2. Folds(CHOOSE sum : Folds(sum))
    BY <1>4
  <2> QED
    BY <2>1, <2>2
<1> DEFINE P == {s \in SUBSET of : sum[s] = 2 * Cardinality(s)}
<1>6. ASSUME NEW s \in SUBSET of, \A t \in SUBSET s : t # s => t \in P
      PROVE  s \in P
  <2>1. CASE s = {}
    BY <1>5, <2>1, FS_EmptySet
  <2>2. CASE s # {}
    <3> DEFINE x == Taken(s)
               n == Cardinality(s)
    <3>1. x \in s
      BY <2>2, TakenFrom
    <3>2. IsFiniteSet(s)
      BY <1>3, FS_Subset
    <3>3. n \in Nat /\ Cardinality(s \ {x}) = n - 1
      BY <3>1, <3>2, FS_RemoveElement, FS_CardinalityType
    <3>4. sum[s \ {x}] = 2 * (n - 1)
      BY <1>6, <3>1, <3>3
    <3>5. sum[s] = sum[s \ {x}] + 1 + 1
      BY <1>2, <1>5, <2>2, <3>1
    <3> HIDE DEF x, n
    <3>6. sum[s] = 2 * n
      BY <3>3, <3>4, <3>5
    <3> QED
      BY <3>6 DEF n
  <2> QED
    BY <2>1, <2>2
<1>7. \A s \in SUBSET of : s \in P
  <2> HIDE DEF P, Folds
  <2> QED
    BY <1>3, <1>6, SubsetInduction
<1>8. sum[of] = 2 * Cardinality(of)
  BY <1>7
<1> QED
  BY <1>3, <1>5, <1>8 DEF Wrote, WrittenBy

LEMMA PercentBounds ==
    ASSUME NEW part \in Nat, NEW whole \in Nat \ {0}, part <= whole
    PROVE  Percent(part, whole) \in 0..100
<1> DEFINE twice == (200 * part) \div whole
<1>1. twice \in Int /\ whole * twice <= 200 * part /\ 200 * part < whole * (twice + 1)
  OBVIOUS
<1>2. twice \in 0..200
  <2> HIDE DEF twice
  <2>1. ASSUME twice >= 201
        PROVE  FALSE
    <3>1. twice - 201 \in Nat /\ whole * (twice - 201) >= 0
      BY <1>1, <2>1
    <3>2. whole * (twice - 201) = whole * twice - 201 * whole
      BY <1>1
    <3> QED
      BY <1>1, <3>1, <3>2
  <2>2. ASSUME twice < 0
        PROVE  FALSE
    <3>1. -(twice + 1) \in Nat /\ whole * (-(twice + 1)) >= 0
      BY <1>1, <2>2
    <3>2. whole * (-(twice + 1)) = -(whole * (twice + 1))
      BY <1>1
    <3> QED
      BY <1>1, <3>1, <3>2
  <2> QED
    BY <1>1, <2>1, <2>2
<1>3. Percent(part, whole) \in {twice \div 2, (twice + 1) \div 2}
  BY DEF Percent
<1> HIDE DEF twice
<1>4. \A n \in 0..201 : n \div 2 \in 0..100
  OBVIOUS
<1>5. twice \in 0..201 /\ twice + 1 \in 0..201
  BY <1>2
<1> QED
  BY <1>3, <1>4, <1>5

\* The confidence in an author is the share of what was written about a module.
LEMMA ConfidenceShare ==
    ASSUME Linked, NEW m, NEW h \in Directory, Wrote(h, m) > 0
    PROVE  Confidence(m, PersonKey(h)) = Max({1, Percent(Wrote(h, m), Written(m))})
<1> DEFINE w == Wrote(h, m)
           n == Written(m)
<1>1. w \in Nat /\ n \in Nat \ {0} /\ w <= n /\ w > 0
  BY WroteAtMost, WrittenAbout, NobodyIsNone DEF Linked
<1>2. EvidenceCount(m, PersonKey(h)) = 2 * w
  BY EvidenceCounted, NobodyIsNone DEF Linked
<1>3. Cardinality(AuthoredAbout(m)) = n
  BY AuthorsKnown
<1> HIDE DEF w, n
<1>4. (2 * w) \div 2 = w
  BY <1>1
<1>5. Attributed(m, PersonKey(h)) = w
  BY <1>1, <1>2, <1>4 DEF Attributed, Max
<1>6. Percent(w, n) \in 0..100
  BY <1>1, PercentBounds
<1>7. Min({100, Percent(w, n)}) = Percent(w, n)
  <2>1. \A p \in 0..100 : Min({100, p}) = p
    BY DEF Min
  <2> QED
    BY <1>6, <2>1
<1> QED
  BY <1>3, <1>5, <1>7 DEF Confidence, w, n

LEMMA FiniteHasLeast ==
    ASSUME NEW S, IsFiniteSet(S), S # {}, NEW R,
           \A x \in S : <<x, x>> \notin R,
           \A x, y, z \in S : <<x, y>> \in R /\ <<y, z>> \in R => <<x, z>> \in R
    PROVE  \E x \in S : \A y \in S : <<y, x>> \notin R
<1> DEFINE Down(x) == {z \in S : <<z, x>> \in R}
           T == {Down(x) : x \in S}
<1>1. ASSUME NEW x \in S
      PROVE  Down(x) \in FiniteSubsetsOf(S)
  <2>1. Down(x) \in SUBSET S
    OBVIOUS
  <2> QED
    BY <2>1, FS_Subset DEF FiniteSubsetsOf
<1>2. \A x, y \in S : <<y, x>> \in R =>
          Down(y) \subseteq Down(x) /\ y \in Down(x) /\ y \notin Down(y)
  OBVIOUS
<1> HIDE DEF Down
<1>3. T \subseteq FiniteSubsetsOf(S) /\ T # {}
  BY <1>1
<1>4. PICK d \in T : \A c \in T : <<c, d>> \notin StrictSubsetOrdering(S)
  BY <1>3, FS_StrictSubsetOrderingWellFounded, WFMin
<1>5. PICK x \in S : d = Down(x)
  BY <1>4
<1>6. ASSUME NEW y \in S, <<y, x>> \in R
      PROVE  FALSE
  <2>1. Down(y) \subseteq Down(x) /\ Down(y) # Down(x)
    BY <1>2, <1>6
  <2>2. Down(y) \in T /\ Down(y) \in SUBSET S /\ Down(x) \in SUBSET S
    BY <1>1 DEF FiniteSubsetsOf
  <2>3. <<Down(y), Down(x)>> \in StrictSubsetOrdering(S)
    BY <2>1, <2>2 DEF StrictSubsetOrdering
  <2> QED
    BY <1>4, <1>5, <2>2, <2>3
<1> QED
  BY <1>6

\* Among a module's authors is one whom none comes before.
LEMMA SomeoneIsFirst ==
    ASSUME Linked, NEW m, Authors(m) # {}
    PROVE  \E a \in Authors(m) : Rank(m, a) = 1
<1> DEFINE A == Authors(m)
           R == {p \in A \X A : Ahead(m, p[1], p[2])}
<1>1. A = {PersonKey(h) : h \in {g \in Directory : Wrote(g, m) > 0}} /\ IsFiniteSet(A)
  BY AuthorsKnown
<1>2. \A a \in A : EvidenceCount(m, a) \in Int
  <2>1. \A h \in Directory : EvidenceCount(m, PersonKey(h)) = 2 * Wrote(h, m) /\ Wrote(h, m) \in Nat
    BY EvidenceCounted, WroteAtMost, NobodyIsNone DEF Linked
  <2> QED
    BY <1>1, <2>1
<1>3. \A a, b, c \in A : Before(a, b) /\ Before(b, c) => Before(a, c)
  <2> DEFINE people == input.people
                       \union {Unresolved(k) : k \in UNION {NamedIds(row) : row \in input.rows}}
  <2>1. \A a, b, c \in {PersonKey(h) : h \in people} : Before(a, b) /\ Before(b, c) => Before(a, c)
    BY OwnersAssumption DEF Linked, StageInv
  <2>2. Directory \subseteq people
    BY DEF Directory, UnresolvedIds
  <2>3. A \subseteq {PersonKey(h) : h \in people}
    BY <1>1, <2>2
  <2> QED
    BY <2>1, <2>3
<1>4. \A a \in A : ~Before(a, a)
  BY DEF Before
<1>5. \A a, b \in A : <<a, b>> \in R <=> Ahead(m, a, b)
  OBVIOUS
<1> HIDE DEF A, R
<1>6. \A a \in A : <<a, a>> \notin R
  BY <1>2, <1>4, <1>5 DEF Ahead
<1>7. \A a, b, c \in A : <<a, b>> \in R /\ <<b, c>> \in R => <<a, c>> \in R
  <2>1. ASSUME NEW a \in A, NEW b \in A, NEW c \in A, Ahead(m, a, b), Ahead(m, b, c)
        PROVE  Ahead(m, a, c)
    BY <1>2, <1>3, <2>1 DEF Ahead
  <2> QED
    BY <1>5, <2>1
<1>8. A # {}
  BY DEF A
<1>9. PICK a \in A : \A b \in A : <<b, a>> \notin R
  BY <1>1, <1>6, <1>7, <1>8, FiniteHasLeast
<1>10. {b \in Authors(m) : Ahead(m, b, a)} = {}
  BY <1>5, <1>9 DEF A
<1>11. Rank(m, a) = 1
  BY <1>10, FS_EmptySet DEF Rank
<1> QED
  BY <1>9, <1>11 DEF A

\* Everybody who wrote more comes before.
LEMMA RankBound ==
    ASSUME Linked, NEW m, NEW g \in Directory
    PROVE  Cardinality({h \in Directory : Wrote(h, m) > Wrote(g, m)}) < Rank(m, PersonKey(g))
<1> DEFINE more == {h \in Directory : Wrote(h, m) > Wrote(g, m)}
           ahead == {a \in Authors(m) : Ahead(m, a, PersonKey(g))}
           f == [h \in more |-> PersonKey(h)]
<1>1. Authors(m) = {PersonKey(h) : h \in {x \in Directory : Wrote(x, m) > 0}} /\ IsFiniteSet(Authors(m))
  BY AuthorsKnown
<1>2. \A h \in Directory : EvidenceCount(m, PersonKey(h)) = 2 * Wrote(h, m) /\ Wrote(h, m) \in Nat
  BY EvidenceCounted, WroteAtMost, NobodyIsNone DEF Linked
<1>3. IsFiniteSet(ahead)
  BY <1>1, FS_Subset
<1>4. ASSUME NEW h \in more
      PROVE  PersonKey(h) \in ahead
  <2>1. Wrote(h, m) > 0 /\ 2 * Wrote(h, m) > 2 * Wrote(g, m)
    BY <1>2
  <2> QED
    BY <1>1, <1>2, <2>1 DEF Ahead
<1>5. f \in [more -> ahead] /\ \A x, y \in more : f[x] = f[y] => x = y
  BY <1>4, KeyKinds
<1> HIDE DEF f, more, ahead
<1>6. IsFiniteSet(more) /\ Cardinality(more) <= Cardinality(ahead)
  BY <1>3, <1>5, Into
<1>7. Cardinality(more) \in Nat /\ Cardinality(ahead) \in Nat
  BY <1>3, <1>6, FS_CardinalityType
<1>8. Rank(m, PersonKey(g)) = 1 + Cardinality(ahead)
  BY DEF Rank, ahead
<1> QED
  BY <1>6, <1>7, <1>8 DEF more

\* The owners derived for a module, among a set of edges.
OwnersAmong(es, m) ==
    {e \in es : e.key[1] = "OWNS" /\ e.key[3] = m /\ e.key[4] = <<"authorship_density_derived">>}

OwnersIn(es) ==
    \A m \in ExpectedModules :
        /\ OwnersAmong(es, m) # {} <=> Written(m) > 0 /\ ~Aggregated(m)
        /\ \A e \in OwnersAmong(es, m) :
              /\ e.weight = Max({1, Percent(Wrote(e.key[2][2], m), Written(m))})
              /\ Cardinality({h \in Directory : Wrote(h, m) > Wrote(e.key[2][2], m)}) < e.rank
              /\ e.rank <= OwnersPerModule

LEMMA DensityFields ==
    ASSUME NEW a, NEW m
    PROVE  /\ DensityEdge(a, m).key[1] = "OWNS" /\ DensityEdge(a, m).key[2] = a
           /\ DensityEdge(a, m).key[3] = m
           /\ DensityEdge(a, m).key[4] = <<"authorship_density_derived">>
           /\ DensityEdge(a, m).weight = Confidence(m, a) /\ DensityEdge(a, m).rank = Rank(m, a)
BY DEF DensityEdge, Derived

LEMMA DensityEdges ==
    authorship_density_edges =
        UNION {{DensityEdge(a, m) : a \in {b \in Authors(m) : Rank(m, b) <= OwnersPerModule}} :
               m \in DerivedModules}
BY DEF authorship_density_edges, DensityEdge

LEMMA OwnersDerived ==
    ASSUME Linked
    PROVE  OwnersIn(derive_edges)
<1> SUFFICES ASSUME NEW m \in ExpectedModules
             PROVE  /\ OwnersAmong(derive_edges, m) # {} <=> Written(m) > 0 /\ ~Aggregated(m)
                    /\ \A e \in OwnersAmong(derive_edges, m) :
                          /\ e.weight = Max({1, Percent(Wrote(e.key[2][2], m), Written(m))})
                          /\ Cardinality({h \in Directory : Wrote(h, m) > Wrote(e.key[2][2], m)}) < e.rank
                          /\ e.rank <= OwnersPerModule
  BY DEF OwnersIn
<1> DEFINE O == OwnersAmong(derive_edges, m)
<1>1. Authors(m) = {PersonKey(h) : h \in {x \in Directory : Wrote(x, m) > 0}}
  BY AuthorsKnown
<1>2. Authors(m) # {} <=> Written(m) > 0
  <2>1. Authors(m) # {} <=> About(m) # {}
    BY AuthoredOf
  <2>2. Written(m) > 0 <=> About(m) # {}
    BY WrittenAbout DEF Linked
  <2> QED
    BY <2>1, <2>2
<1>3. ASSUME NEW e \in O
      PROVE  \E a \in Authors(m) : /\ e = DensityEdge(a, m) /\ Rank(m, a) <= OwnersPerModule
                                   /\ m \in DerivedModules
  <2>1. /\ e \in derive_edges /\ e.key[1] = "OWNS" /\ e.key[3] = m
        /\ e.key[4] = <<"authorship_density_derived">>
    BY DEF OwnersAmong
  <2>2. e \in authorship_density_edges
    BY <2>1, DerivedOf
  <2>3. PICK n \in DerivedModules : \E a \in Authors(n) :
           e = DensityEdge(a, n) /\ Rank(n, a) <= OwnersPerModule
    BY <2>2, DensityEdges
  <2>4. n = m
    BY <2>1, <2>3, DensityFields
  <2> QED
    BY <2>3, <2>4
<1>4. ASSUME NEW a \in Authors(m), Rank(m, a) <= OwnersPerModule, m \in DerivedModules
      PROVE  DensityEdge(a, m) \in O
  <2>1. DensityEdge(a, m) \in authorship_density_edges
    BY <1>4, DensityEdges
  <2>2. DensityEdge(a, m) \in derive_edges
    BY <2>1, Zenon DEF derive_edges
  <2> QED
    BY <2>2, DensityFields DEF OwnersAmong
<1>5. Authors(m) # {} => (m \in DerivedModules <=> ~Aggregated(m))
  <2>1. Aggregated(m) <=> m \in {r.object : r \in OfKind("authorship_aggregate")}
    BY DEF Aggregated
  <2>2. ASSUME Authors(m) # {}
        PROVE  m \in {e.target : e \in {f \in Range(edges) : f.rel = "ABOUT"}}
    BY <2>2 DEF Authors, AuthoredAbout
  <2> QED
    BY <2>1, <2>2 DEF DerivedModules
<1> HIDE DEF O
<1>6. O # {} <=> Written(m) > 0 /\ ~Aggregated(m)
  <2>1. ASSUME NEW e \in O
        PROVE  Written(m) > 0 /\ ~Aggregated(m)
    BY <1>2, <1>3, <1>5
  <2>2. ASSUME Written(m) > 0, ~Aggregated(m)
        PROVE  O # {}
    <3>1. PICK a \in Authors(m) : Rank(m, a) = 1
      BY <1>2, <2>2, SomeoneIsFirst
    <3>2. Rank(m, a) <= OwnersPerModule
      BY <3>1, OwnersAssumption
    <3>3. DensityEdge(a, m) \in O
      BY <1>4, <1>5, <2>2, <3>1, <3>2
    <3> QED
      BY <3>3
  <2> QED
    BY <2>1, <2>2
<1>7. ASSUME NEW e \in O
      PROVE  /\ e.weight = Max({1, Percent(Wrote(e.key[2][2], m), Written(m))})
             /\ Cardinality({h \in Directory : Wrote(h, m) > Wrote(e.key[2][2], m)}) < e.rank
             /\ e.rank <= OwnersPerModule
  <2>1. PICK a \in Authors(m) : e = DensityEdge(a, m) /\ Rank(m, a) <= OwnersPerModule
    BY <1>3
  <2>2. PICK g \in Directory : a = PersonKey(g) /\ Wrote(g, m) > 0
    BY <1>1, <2>1
  <2>3. e.key[2] = PersonKey(g) /\ e.weight = Confidence(m, PersonKey(g)) /\ e.rank = Rank(m, PersonKey(g))
    BY <2>1, <2>2, DensityFields
  <2>4. e.key[2][2] = g
    BY <2>3 DEF PersonKey
  <2>5. Confidence(m, PersonKey(g)) = Max({1, Percent(Wrote(g, m), Written(m))})
    BY <2>2, ConfidenceShare
  <2>6. Cardinality({h \in Directory : Wrote(h, m) > Wrote(g, m)}) < Rank(m, PersonKey(g))
    BY RankBound
  <2> QED
    BY <2>1, <2>2, <2>3, <2>4, <2>5, <2>6
<1> QED
  BY <1>6, <1>7 DEF O

LEMMA InteractionsCounted ==
    \A a, b : Interactions(a, b) = Cardinality(Messages(a, b)) + Total(Counts(a, b))
BY DEF Interactions, Total

\* What is counted depends on the rows, the facts and the records alone.
LEMMA SameCounts ==
    ASSUME UNCHANGED <<input, records>>
    PROVE  /\ Directory' = Directory /\ ExpectedModules' = ExpectedModules
           /\ \A a, b : /\ Messages(a, b)' = Messages(a, b) /\ Counts(a, b)' = Counts(a, b)
                        /\ Interactions(a, b)' = Interactions(a, b)
           /\ \A h, m : Wrote(h, m)' = Wrote(h, m)
           /\ \A m : Written(m)' = Written(m) /\ Aggregated(m)' = Aggregated(m)
<1>1. Rows' = Rows /\ UnresolvedIds' = UnresolvedIds
  <2>1. LoweredMap' = LoweredMap
    BY DEF LoweredMap
  <2> QED
    BY <2>1 DEF Rows, UnresolvedIds
<1>2. Directory' = Directory /\ Artifacts' = Artifacts
  BY <1>1 DEF Directory, Artifacts
<1>3. ExpectedModules' = ExpectedModules
  BY SameReasons DEF ExpectedModules
<1>4. \A a, b : Messages(a, b)' = Messages(a, b) /\ Counts(a, b)' = Counts(a, b)
  BY <1>1 DEF Messages, Counts
<1>5. \A a, b : Interactions(a, b)' = Interactions(a, b)
  <2>1. \A a, b : Interactions(a, b) = Cardinality(Messages(a, b)) + Total(Counts(a, b))
    BY InteractionsCounted
  <2>2. (\A a, b : Interactions(a, b) = Cardinality(Messages(a, b)) + Total(Counts(a, b)))'
    BY InteractionsCounted, PTL
  <2> QED
    BY <1>4, <2>1, <2>2
<1>6. /\ \A h, m : Wrote(h, m)' = Wrote(h, m)
      /\ \A m : Written(m)' = Written(m) /\ Aggregated(m)' = Aggregated(m)
  BY <1>2 DEF Wrote, Written, Aggregated, OfKind
<1> QED
  BY <1>2, <1>3, <1>4, <1>5, <1>6

LEMMA StillCounted ==
    ASSUME UNCHANGED <<input, records>>, NEW es, derived' = es, CommunicatedIn(es), OwnersIn(es)
    PROVE  CommunicatedIn(derived)' /\ OwnersIn(derived)'
<1>1. CommunicatedIn(derived)'
  <2> DEFINE Weights(ds, a, b) ==
                 {e.weight : e \in {d \in ds : d.key = <<"COMMUNICATES", PersonKey(a), PersonKey(b),
                                                        <<"aggregate">>>>}}
             Expected(a, b) == IF Messages(a, b) = {} /\ Counts(a, b) = {} THEN {} ELSE {Interactions(a, b)}
  <2>1. \A a, b \in Directory : Weights(es, a, b) = Expected(a, b)
    BY DEF CommunicatedIn
  <2>2. \A a, b : Expected(a, b)' = Expected(a, b)
    BY SameCounts
  <2>3. \A a, b \in Directory' : Weights(derived', a, b) = Expected(a, b)'
    <3> HIDE DEF Weights, Expected
    <3> QED
      BY <2>1, <2>2, SameCounts
  <2> QED
    BY <2>3 DEF CommunicatedIn
<1>2. OwnersIn(derived)'
  <2>1. \A m : OwnersAmong(derived, m)' = OwnersAmong(es, m)
    BY DEF OwnersAmong
  <2> QED
    BY <2>1, SameCounts DEF OwnersIn
<1> QED
  BY <1>1, <1>2

\* Edges are as the artifacts state them, and what is derived is counted.
CountInv == EdgesAre /\ (EdgesDone => CommunicatedIn(derived) /\ OwnersIn(derived))

LEMMA CountEdge ==
    ASSUME Inv, CountInv, AddEdge
    PROVE  CountInv'
<1> DEFINE e == First
           k == EdgeKey(e)
           m == Merged(edges, k, e)
<1>1. /\ pc = "edges" /\ pc' = "edges" /\ UNCHANGED <<input, nodes>> /\ e \in queue
      /\ edges' = Put(edges, k, m)
  BY FirstQueued DEF AddEdge
<1>2. e \in Observed /\ StageInv /\ TypeOK /\ ~Conflicting(AllRecords)
  BY <1>1 DEF Inv, RefusalInv
<1>3. m = e
  <2>1. CASE k \notin DOMAIN edges
    BY <2>1 DEF Merged
  <2>2. CASE k \in DOMAIN edges
    <3>1. edges[k] \in Observed /\ EdgeKey(edges[k]) = k
      BY <1>2, <2>2 DEF CountInv, EdgesAre, TypeOK
    <3>2. edges[k] = e
      BY <1>1, <1>2, <3>1, OneEdgeEach
    <3>3. \E a : e = Edge(e.rel, e.source, e.target, e.disc, a)
      BY <1>1, <1>2, ObservedLinks
    <3> HIDE DEF e, k
    <3>4. [e EXCEPT !.evidence = e.evidence \union e.evidence] = e
      BY <3>3 DEF Edge
    <3> QED
      BY <2>2, <3>2, <3>4 DEF Merged
  <2> QED
    BY <2>1, <2>2
<1> HIDE DEF e, m
<1>4. Observed' = Observed
  BY <1>1, SameNodes
<1>5. EdgesAre'
  BY <1>1, <1>2, <1>3, <1>4 DEF CountInv, EdgesAre, Put
<1> QED
  BY <1>1, <1>5 DEF CountInv, EdgesDone

LEMMA CountDerived ==
    ASSUME Inv, CountInv, Derive
    PROVE  CountInv'
<1>1. /\ pc = "edges" /\ queue = {} /\ pc' = "gaps" /\ derived' = derive_edges
      /\ UNCHANGED <<input, records, nodes, edges>>
  BY DEF Derive
<1>2. Linked /\ records = AllRecords
  BY <1>1 DEF Linked, Inv, CountInv, RefusalInv, StageInv, NodesDone
<1>3. StageInv /\ ~Conflicting(AllRecords)
  BY <1>2 DEF Linked
<1>4. CommunicatedIn(derive_edges) /\ OwnersIn(derive_edges)
  BY <1>2, <1>3, CommunicationDerived, OwnersDerived
<1>5. CommunicatedIn(derived)' /\ OwnersIn(derived)'
  BY <1>1, <1>4, StillCounted
<1>6. EdgesAre'
  BY <1>1, SameNodes DEF CountInv, EdgesAre
<1> QED
  BY <1>5, <1>6 DEF CountInv

LEMMA CountKept ==
    ASSUME Inv, CountInv, [Next]_vars, ~AddEdge, ~Derive
    PROVE  CountInv'
<1>1. CASE AddNode
  <2>1. pc = "nodes" /\ pc' = "nodes" /\ edges' = edges
    BY <1>1 DEF AddNode
  <2>2. edges = <<>>
    BY <2>1 DEF Inv, StageInv
  <2> QED
    BY <2>1, <2>2 DEF CountInv, EdgesAre, EdgesDone
<1>2. CASE PrepareRecords \/ AddObservedEdges
  <2>1. pc' \in {"nodes", "edges"} /\ UNCHANGED <<input, nodes, edges>>
    BY <1>2 DEF PrepareRecords, AddObservedEdges
  <2>2. EdgesAre'
    BY <2>1, SameNodes DEF CountInv, EdgesAre
  <2> QED
    BY <2>1, <2>2 DEF CountInv, EdgesDone
<1>3. CASE \/ RefuseRecords \/ RefuseNode \/ RefuseEdge \/ RefuseDerivation \/ RefuseBundle
           \/ DetectGaps \/ Compose \/ UNCHANGED vars
  <2>1. /\ UNCHANGED <<input, records, nodes, edges, derived>>
        /\ EdgesDone' => EdgesDone
    BY <1>3 DEF RefuseRecords, RefuseNode, RefuseEdge, RefuseDerivation, RefuseBundle, Refuse,
                DetectGaps, Compose, vars, EdgesDone
  <2>2. EdgesAre'
    BY <2>1, SameNodes DEF CountInv, EdgesAre
  <2>3. EdgesDone => CommunicatedIn(derived)' /\ OwnersIn(derived)'
    BY <2>1, StillCounted DEF CountInv
  <2> QED
    BY <2>1, <2>2, <2>3 DEF CountInv
<1> QED
  BY <1>1, <1>2, <1>3 DEF Next

LEMMA AlwaysCounted == Spec => [](EdgesDone => CommunicatedIn(derived) /\ OwnersIn(derived))
<1>1. Init => CountInv
  BY DEF Init, CountInv, EdgesAre, EdgesDone
<1>2. Inv /\ CountInv /\ [Next]_vars => CountInv'
  BY CountEdge, CountDerived, CountKept
<1>3. CountInv => (EdgesDone => CommunicatedIn(derived) /\ OwnersIn(derived))
  BY DEF CountInv
<1> QED
  BY <1>1, <1>2, <1>3, AlwaysInv, PTL DEF Spec

\* The weight between two people is the number of messages from one that reach
\* the other, with what facts count; for any rows, however often they or the
\* facts repeat a message.
THEOREM MessagesCounted == Spec => []CommunicationCounted
<1>1. (EdgesDone => CommunicatedIn(derived) /\ OwnersIn(derived)) => CommunicationCounted
  BY DEF EdgesDone, CommunicatedIn, CommunicationCounted
<1> QED
  BY <1>1, AlwaysCounted, PTL

\* The first owner derived for a module wrote the most about it, each with the
\* share of what was written as confidence and nobody who wrote more further
\* down, and none is derived where owners are stated; for any number of owners.
THEOREM OwnersRanked == Spec => []OwnersByAuthorship
<1>1. (EdgesDone => CommunicatedIn(derived) /\ OwnersIn(derived)) => OwnersByAuthorship
  BY DEF EdgesDone, OwnersIn, OwnersAmong, OwnersByAuthorship
<1> QED
  BY <1>1, AlwaysCounted, PTL
=============================================================================

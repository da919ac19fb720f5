------------------------------- MODULE Ingest -------------------------------
(***************************************************************************)
(* ingest_exports: from the rows of mixed exports to one canonical bundle. *)
(*                                                                         *)
(* canonicalize feeds the records one at a time to a BundleBuilder, whose  *)
(* IdRegistry refuses an id that stands for two identities; derive_edges   *)
(* and detect_gaps then add edges and phantoms to the base bundle, and the *)
(* validator of CanonicalBundle has the last word.  Any error ends the     *)
(* ingest without a bundle (pc = "refused").                               *)
(*                                                                         *)
(* Evidence is the record itself: a derived evidence row stands for the    *)
(* record it quotes.  Epochs are days.                                     *)
(***************************************************************************)
EXTENDS SourceRecords, Integers, FiniteSetsExt, SequencesExt

CONSTANTS
    Inputs,              \* the inputs of an instance (see Input)
    stable_id(_),        \* the 63-bit digest of an identity
    OwnersPerModule,     \* OWNERS_PER_MODULE
    BoundaryDays         \* EXPORT_BOUNDARY_DAYS

VARIABLES
    input,        \* what ingest_exports is called with
    pc,           \* the stage it has reached
    records,      \* the records, and with them the evidence, of the bundle
    queue,        \* what canonicalize has still to add
    byId,         \* IdRegistry._by_id
    byIdentity,   \* IdRegistry._by_identity
    nodes,        \* BundleBuilder.nodes: key -> node
    edges,        \* BundleBuilder.edges: key -> edge
    derived,      \* the edges of derive_edges
    gaps          \* what detect_gaps found: [phantoms, edges]

vars == <<input, pc, records, queue, byId, byIdentity, nodes, edges, derived, gaps>>

\* One list of rows for each of four adapters; the fields they agree on.
RowFields ==
    {"kind", "id", "epoch", "author", "parent", "pauthor", "to", "mods", "deps"}

FactKinds ==
    {"artifact", "module", "communication_aggregate", "authorship_aggregate",
     "ownership_assertion", "dependency", "cochange"}

\* A row names recipients and the author it answers only where its adapter
\* reads them.  Records that come as they are, are of these kinds; the key of
\* an artifact or a module among them is made of its external id.
ASSUME InputAssumption ==
    \A i \in Inputs :
        /\ \A row \in i.rows :
              /\ DOMAIN row = RowFields /\ row.kind \in {"slack", "email", "ticket", "git"}
              /\ {row.author} \union row.to \union ({row.pauthor} \ {None}) \subseteq DOMAIN Normal
              /\ row.kind \in {"ticket", "git"} => row.to = {} /\ row.pauthor = None
        /\ \A f \in i.facts :
              /\ f.kind \in FactKinds
              /\ f.kind = "artifact" => /\ f.xid = <<f.source, f.xid[2]>>
                                        /\ f.subject = ArtifactKey(f.source, f.xid[2])
              /\ f.kind = "module" => /\ f.source = "directory"
                                      /\ f.xid = <<"directory", f.xid[2]>>
                                      /\ f.subject = ModuleKey(f.xid[2])

\* Nobody's name is the value that stands for no name.
ASSUME NoneIsNobody ==
    /\ \A i \in Inputs :
          /\ None \notin i.people \union Range(i.identityMap)
          /\ \A h \in DOMAIN i.reports : PersonKey(i.reports[h]) # None
    /\ \A raw \in DOMAIN Normal : Unresolved(Normal[raw]) # None

\* An export is finite, and what a fact counts is a number of any sign.
ASSUME CountAssumption ==
    \A i \in Inputs :
        /\ IsFiniteSet(i.rows) /\ IsFiniteSet(i.facts)
        /\ \A f \in i.facts : f.kind = "communication_aggregate" => f.count[1] \in Int

\* Some owner is derived, and the keys of people are sorted by an order.
ASSUME OwnersAssumption ==
    /\ OwnersPerModule \in Nat \ {0}
    /\ \A i \in Inputs :
          LET people == i.people \union {Unresolved(k) : k \in UNION {NamedIds(row) : row \in i.rows}}
          IN  \A a, b, c \in {PersonKey(h) : h \in people} :
                  Before(a, b) /\ Before(b, c) => Before(a, c)

ASSUME NoneIsNoLabel == None \notin {"Person", "Artifact", "Module"}

Put(f, k, v) == [x \in DOMAIN f \union {k} |-> IF x = k THEN v ELSE f[x]]

-----------------------------------------------------------------------------
(* The records of an input.                                                *)

LoweredMap == Lowered(input.people, input.identityMap)

Rows ==
    LET lowered == LoweredMap
    IN  {drop_unknown_modules(resolve_row(row, lowered), input.modules) : row \in input.rows}

UnresolvedIds ==
    LET lowered == LoweredMap
    IN  {k \in UNION {NamedIds(row) : row \in input.rows} : IsUnresolved(k, lowered)}

\* The metadata of a person in the directory may name a manager, by a handle
\* that is taken as it is.
ManagerKey(h) ==
    IF h \in input.people \intersect DOMAIN input.reports THEN PersonKey(input.reports[h])
                                                        ELSE None

PersonRecord(source, h, what) ==
    Record(source, <<source, h>>, "directory_person", 0, None, None,
           PersonKey(h), ManagerKey(h), {}, what)

\* The stub of an unresolved id, unless the directory has its handle.
unresolved_directory_records ==
    {PersonRecord("identity", h, "unresolved") :
        h \in {Unresolved(k) : k \in UnresolvedIds} \ input.people}

DirectoryRecords ==
    {PersonRecord("directory", h, "directory") : h \in input.people}
    \union {Record("directory", <<"directory", m>>, "module", 0, None, None,
                   ModuleKey(m), ModuleKey(m), {}, "module") : m \in input.modules}

AllRecords ==
    DirectoryRecords \union unresolved_directory_records \union input.facts
    \union UNION {row_records(row) : row \in Rows}

\* _prepare_records: one payload per (source, external id).
Conflicting(rs) ==
    \E r, s \in rs : r # s /\ r.source = s.source /\ r.xid = s.xid

-----------------------------------------------------------------------------
(* canonicalize                                                            *)

Refuse ==
    /\ pc' = "refused"
    /\ UNCHANGED <<input, records, queue, byId, byIdentity, nodes, edges, derived, gaps>>

\* Mutant of NodeLabel: every record becomes a node.
NodeLabel_All(r) ==
    CASE r.kind = "directory_person" -> "Person"
      [] r.kind = "artifact" -> "Artifact"
      [] r.kind = "module" -> "Module"
      [] OTHER -> "Evidence"

NodeLabel(r) ==
    CASE r.kind = "directory_person" -> "Person"
      [] r.kind = "artifact" -> "Artifact"
      [] r.kind = "module" -> "Module"
      [] OTHER -> None

\* Envelopes are sorted by their external id and payload; which order that is
\* matters to no proof, and TLC takes one.
First == CHOOSE x \in queue : TRUE

PrepareRecords ==
    /\ pc = "records"
    /\ ~Conflicting(AllRecords)
    /\ pc' = "nodes"
    /\ records' = AllRecords
    /\ queue' = {r \in AllRecords : NodeLabel(r) # None}
    /\ UNCHANGED <<input, byId, byIdentity, nodes, edges, derived, gaps>>

RefuseRecords == pc = "records" /\ Conflicting(AllRecords) /\ Refuse

\* Mutant of Registrable: the identity an id stands for is not looked up.
Registrable_ByIdentity(identity, id) ==
    identity \in DOMAIN byIdentity => byIdentity[identity] = id

Registrable(identity, id) ==
    IF identity \in DOMAIN byIdentity
    THEN byIdentity[identity] = id
    ELSE id \in DOMAIN byId => byId[id] = identity

register(identity, id) ==
    IF identity \in DOMAIN byIdentity
    THEN UNCHANGED <<byId, byIdentity>>
    ELSE /\ byId' = Put(byId, id, identity)
         /\ byIdentity' = Put(byIdentity, identity, id)

stable_edge_id(rel, sourceId, targetId, disc) == stable_id(<<rel, sourceId, targetId, disc>>)

Node(r) ==
    [id |-> stable_id(<<NodeLabel(r), r.subject>>), label |-> NodeLabel(r),
     epoch |-> r.epoch, props |-> r.what, evidence |-> {r}]

\* Rows of one key must agree in everything but their evidence.
SameBut(a, b) == [a EXCEPT !.evidence = {}] = [b EXCEPT !.evidence = {}]

Merged(f, k, v) ==
    IF k \in DOMAIN f THEN [f[k] EXCEPT !.evidence = @ \union v.evidence] ELSE v

\* Mutant of CanAddNode: a node's id is not registered.
CanAddNode_Unregistered(r) ==
    r.subject \in DOMAIN nodes => SameBut(nodes[r.subject], Node(r))

CanAddNode(r) ==
    /\ Registrable(<<NodeLabel(r), r.subject>>, Node(r).id)
    /\ r.subject \in DOMAIN nodes => SameBut(nodes[r.subject], Node(r))

AddNode ==
    /\ pc = "nodes" /\ queue # {}
    /\ LET r == First
       IN  /\ CanAddNode(r)
           /\ register(<<NodeLabel(r), r.subject>>, Node(r).id)
           /\ nodes' = Put(nodes, r.subject, Merged(nodes, r.subject, Node(r)))
    /\ queue' = queue \ {First}
    /\ UNCHANGED <<input, pc, records, edges, derived, gaps>>

\* Mutant of RefuseNode: the error is swallowed and the node tried again.
RefuseNode_Retried ==
    pc = "nodes" /\ queue # {} /\ ~CanAddNode(First) /\ UNCHANGED vars

RefuseNode == pc = "nodes" /\ queue # {} /\ ~CanAddNode(First) /\ Refuse

Edge(rel, source, target, disc, r) ==
    [rel |-> rel, source |-> source, target |-> target, disc |-> disc,
     epoch |-> r.epoch, evidence |-> {r}]

EdgeKey(e) == <<e.rel, e.source, e.target>>

\* A parent is named by the key of an artifact, or by its id in the source.
ReplyKey(r) ==
    IF r.parent \in DOMAIN FullKey THEN FullKey[r.parent] ELSE ArtifactKey(r.source, r.parent)

AboutEdges(r) == {Edge("ABOUT", r.subject, m, <<"about">>, r) : m \in r.mods}

AuthorshipEdges(r) ==
    IF r.author = None THEN {}
    ELSE {Edge("AUTHORED", PersonKey(r.author), r.subject, <<"authored">>, r)}

\* Mutant of ReplyEdges: only messages have threads.
ReplyEdges_SlackOnly(r) ==
    IF r.parent = None \/ ReplyKey(r) \notin DOMAIN nodes \/ r.source # "slack" THEN {}
    ELSE {Edge("REPLIES_TO", r.subject, ReplyKey(r), <<"thread_parent">>, r)}

\* A reply to an artifact that is not in the export is left to detect_gaps.
ReplyEdges(r) ==
    IF r.parent = None \/ ReplyKey(r) \notin DOMAIN nodes THEN {}
    ELSE {Edge("REPLIES_TO", r.subject, ReplyKey(r), <<"thread_parent">>, r)}

ReportingEdges(r) ==
    IF r.object = None THEN {}
    ELSE {Edge("REPORTS_TO", r.subject, r.object, <<"reporting_line">>, r)}

ObservedEdges(r) ==
    CASE r.kind = "directory_person" -> ReportingEdges(r)
      [] r.kind = "artifact" -> AuthorshipEdges(r) \union AboutEdges(r) \union ReplyEdges(r)
      [] OTHER -> {}

AddObservedEdges ==
    /\ pc = "nodes" /\ queue = {}
    /\ pc' = "edges"
    /\ queue' = UNION {ObservedEdges(r) : r \in records}
    /\ UNCHANGED <<input, records, byId, byIdentity, nodes, edges, derived, gaps>>

EdgeId(e) == stable_edge_id(e.rel, nodes[e.source].id, nodes[e.target].id, e.disc)

CanAddEdge(e) ==
    /\ {e.source, e.target} \subseteq DOMAIN nodes
    /\ Registrable(<<e.rel, EdgeKey(e)>>, EdgeId(e))
    /\ EdgeKey(e) \in DOMAIN edges => SameBut(edges[EdgeKey(e)], e)

AddEdge ==
    /\ pc = "edges" /\ queue # {}
    /\ LET e == First
       IN  /\ CanAddEdge(e)
           /\ register(<<e.rel, EdgeKey(e)>>, EdgeId(e))
           /\ edges' = Put(edges, EdgeKey(e), Merged(edges, EdgeKey(e), e))
    /\ queue' = queue \ {First}
    /\ UNCHANGED <<input, pc, records, nodes, derived, gaps>>

RefuseEdge == pc = "edges" /\ queue # {} /\ ~CanAddEdge(First) /\ Refuse

-----------------------------------------------------------------------------
(* derive_edges: edges that aggregate the evidence of the base bundle.     *)

OfKind(kind) == {r \in records : r.kind = kind}

Derived(rel, source, target, disc, weight, rank, evidence) ==
    [key |-> <<rel, source, target, disc>>, weight |-> weight, rank |-> rank,
     evidence |-> evidence]

\* Mutant of Total: an aggregate is replaced instead of added to.
Total_Last(rs) == 1

Total(rs) == FoldSet(LAMBDA r, n : n + r.count[1], 0, rs)

communication_edges ==
    LET pairs == {<<r.subject, r.object>> : r \in OfKind("communication_aggregate")}
        between(p) == {r \in OfKind("communication_aggregate") : <<r.subject, r.object>> = p}
    IN  {Derived("COMMUNICATES", p[1], p[2], <<"aggregate">>, Total(between(p)), 0, between(p)) :
            p \in pairs}

\* round() of a percentage: halves go to the even neighbour.
Percent(part, whole) ==
    LET twice == (200 * part) \div whole
        exact == (200 * part) % whole = 0
    IN  IF exact /\ twice % 4 = 1 THEN twice \div 2 ELSE (twice + 1) \div 2

ownership_edges ==
    {Derived("OWNS", r.subject, r.object, <<"authorship_density">>,
             Percent(r.count[1], r.count[2]), 0, {r}) : r \in OfKind("authorship_aggregate")}

\* What makes the derivation from a record fail.
Invalid(r) ==
    CASE r.kind = "communication_aggregate" -> r.what \notin {"mention", "reply", "email"}
      [] r.kind = "authorship_aggregate" -> r.count[2] = 0 \/ r.count[1] > r.count[2]
      [] r.kind = "dependency" ->
            r.what \notin {"import", "manifest", "runtime_call", "explicit_reference"}
      [] r.kind = "cochange" -> r.subject = r.object \/ r.count[1] = 0
      [] OTHER -> FALSE

ownership_assertion_edges ==
    {Derived("OWNS", r.subject, r.object, <<"assertion", r.xid>>, r.count[1], 1, {r}) :
        r \in OfKind("ownership_assertion")}

\* Edges ABOUT a module whose artifact has an author.
AuthoredAbout(m) ==
    {e \in Range(edges) : e.rel = "ABOUT" /\ e.target = m
                          /\ \E a \in Range(edges) : a.rel = "AUTHORED" /\ a.target = e.source}

AuthorOf(artifactKey) ==
    CHOOSE a \in Range(edges) : a.rel = "AUTHORED" /\ a.target = artifactKey

Authors(m) == {AuthorOf(e.source).source : e \in AuthoredAbout(m)}

\* Each artifact adds its AUTHORED and its ABOUT evidence to the list.
EvidenceCount(m, author) ==
    LET of == {e \in AuthoredAbout(m) : AuthorOf(e.source).source = author}
    IN  FoldSet(LAMBDA e, n : n + Cardinality(e.evidence)
                                + Cardinality(AuthorOf(e.source).evidence), 0, of)

\* Mutant of Ahead: the fewest artifacts come first.
Ahead_Ascending(m, a, b) == EvidenceCount(m, a) < EvidenceCount(m, b)

\* The most evidence first, and of two with the same the smaller key.
Ahead(m, a, b) ==
    \/ EvidenceCount(m, a) > EvidenceCount(m, b)
    \/ EvidenceCount(m, a) = EvidenceCount(m, b) /\ Before(a, b)

Rank(m, author) == 1 + Cardinality({a \in Authors(m) : Ahead(m, a, author)})

Attributed(m, author) == Max({1, EvidenceCount(m, author) \div 2})

Confidence(m, author) ==
    Max({1, Min({100, Percent(Attributed(m, author), Cardinality(AuthoredAbout(m)))})})

\* Modules whose owners are not stated.
DerivedModules ==
    {e.target : e \in {f \in Range(edges) : f.rel = "ABOUT"}}
    \ {r.object : r \in OfKind("authorship_aggregate")}

authorship_density_edges ==
    UNION {{Derived("OWNS", a, m, <<"authorship_density_derived">>, Confidence(m, a),
                    Rank(m, a), {}) : a \in {b \in Authors(m) : Rank(m, b) <= OwnersPerModule}} :
           m \in DerivedModules}

\* One edge per record: two records of one dependency give two edges.
dependency_edges ==
    {Derived("DEPENDS_ON", r.subject, r.object, <<r.what>>, r.count[1], 0, {r}) :
        r \in OfKind("dependency")}

cochange_dependency_edges ==
    LET pair(r) == IF Before(r.object[2], r.subject[2]) THEN <<r.object, r.subject>>
                                                        ELSE <<r.subject, r.object>>
        of(p) == {r \in OfKind("cochange") : pair(r) = p}
    IN  {Derived("DEPENDS_ON", p[1], p[2], <<"cochange">>, Total(of(p)), 0, of(p)) :
            p \in {pair(r) : r \in OfKind("cochange")}}

derive_edges ==
    communication_edges \union ownership_edges \union ownership_assertion_edges
    \union authorship_density_edges \union dependency_edges
    \union cochange_dependency_edges

Derivable ==
    /\ ~ \E r \in records : Invalid(r)
    /\ \A e \in derive_edges : {e.key[2], e.key[3]} \subseteq DOMAIN nodes

Derive ==
    /\ pc = "edges" /\ queue = {}
    /\ Derivable
    /\ derived' = derive_edges
    /\ pc' = "gaps"
    /\ UNCHANGED <<input, records, queue, byId, byIdentity, nodes, edges, gaps>>

RefuseDerivation == pc = "edges" /\ queue = {} /\ ~Derivable /\ Refuse

-----------------------------------------------------------------------------
(* detect_gaps: phantoms for missing parents of threads and for missing    *)
(* required steps of sequence contracts.                                   *)

Dangling ==
    {r \in records : /\ r.kind = "artifact" /\ r.parent # None
                     /\ ReplyKey(r) \notin DOMAIN nodes}

CorpusStart == Min({n.epoch : n \in {x \in Range(nodes) : x.label = "Artifact"}})

DaysAfterStart(r) == Max({0, r.epoch - CorpusStart})

WindowPosition(r) ==
    IF DaysAfterStart(r) <= BoundaryDays THEN "export_boundary" ELSE "in_window"

ThreadPhantom(r) == [reason |-> "dangling_thread_parent", position |-> WindowPosition(r), of |-> r]

\* The evidence is visited in the order of its digests, which is any order:
\* the phantom of a parent describes whichever of its replies comes last.
LastReplies ==
    {f \in [{ReplyKey(r) : r \in Dangling} -> Dangling] :
        \A k \in DOMAIN f : ReplyKey(f[k]) = k}

GapEdge(rel, source, target, disc) == [key |-> <<rel, source, target, disc>>]

ReplyGapEdges ==
    {GapEdge("REPLIES_TO", r.subject, ReplyKey(r), <<"dangling_thread_parent">>) : r \in Dangling}

Missing(contract) ==
    {i \in DOMAIN contract.steps : /\ contract.steps[i].required
                                   /\ contract.steps[i].key \notin DOMAIN nodes}

\* An optional step that is missing drops out of the sequence.
Kept(contract) ==
    {i \in DOMAIN contract.steps : \/ contract.steps[i].required
                                   \/ contract.steps[i].key \in DOMAIN nodes}

\* Positions that follow one another in what is kept.
Consecutive(contract) ==
    {p \in Kept(contract) \X Kept(contract) :
        p[1] < p[2] /\ ~ \E i \in Kept(contract) : p[1] < i /\ i < p[2]}

PrecededBy(contract) ==
    IF Missing(contract) = {} THEN {}
    ELSE {GapEdge("PRECEDED_BY", contract.steps[p[2]].key, contract.steps[p[1]].key,
                  <<contract.id>>) : p \in Consecutive(contract)}

MissingSteps(contract) == {contract.steps[i].key : i \in Missing(contract)}

StepPhantom(k) ==
    [reason |-> "required_sequence_step_missing", position |-> "unknown",
     of |-> CHOOSE c \in input.contracts : k \in MissingSteps(c)]

DetectGaps ==
    /\ pc = "gaps"
    /\ \E last \in LastReplies :
         LET steps == UNION {MissingSteps(c) : c \in input.contracts}
         IN  gaps' = [phantoms |->
                        [k \in DOMAIN last \union steps |->
                            IF k \in steps THEN StepPhantom(k) ELSE ThreadPhantom(last[k])],
                      edges |-> ReplyGapEdges
                                \union UNION {PrecededBy(c) : c \in input.contracts}]
    /\ pc' = "compose"
    /\ UNCHANGED <<input, records, queue, byId, byIdentity, nodes, edges, derived>>

-----------------------------------------------------------------------------
(* compose_bundle: the validator refuses two edges of one key, two ids     *)
(* that are the same, a missing end, and a phantom under a node's key.     *)

AllNodes == DOMAIN nodes \union DOMAIN gaps.phantoms

OneEdgePerKey == \A d, e \in derived : d.key = e.key => d = e

NodeId(k) == IF k \in DOMAIN nodes THEN nodes[k].id ELSE stable_id(<<"Phantom", k>>)

\* The id of an edge that was derived, or found with a gap.
DerivedId(e) == stable_edge_id(e.key[1], NodeId(e.key[2]), NodeId(e.key[3]), e.key[4])

\* Two keys of one id, among pairs of a key and its id.
Distinct(pairs) == \A x, y \in pairs : x[2] = y[2] => x[1] = y[1]

OneIdEach ==
    Distinct({<<k, NodeId(k)>> : k \in AllNodes}
             \union {<<k, EdgeId(edges[k])>> : k \in DOMAIN edges}
             \union {<<e.key, DerivedId(e)>> : e \in derived \union gaps.edges})

Ends(e) == {e.key[2], e.key[3]}

Valid ==
    /\ OneEdgePerKey
    /\ OneIdEach
    /\ DOMAIN nodes \intersect DOMAIN gaps.phantoms = {}
    /\ \A e \in derived \union gaps.edges : Ends(e) \subseteq AllNodes

Compose ==
    /\ pc = "compose" /\ Valid
    /\ pc' = "done"
    /\ UNCHANGED <<input, records, queue, byId, byIdentity, nodes, edges, derived, gaps>>

RefuseBundle == pc = "compose" /\ ~Valid /\ Refuse

-----------------------------------------------------------------------------

NoGaps == [phantoms |-> <<>>, edges |-> {}]

Init ==
    /\ input \in Inputs
    /\ pc = "records"
    /\ records = {}
    /\ queue = {}
    /\ byId = <<>> /\ byIdentity = <<>>
    /\ nodes = <<>> /\ edges = <<>>
    /\ derived = {}
    /\ gaps = NoGaps

Next ==
    \/ PrepareRecords \/ RefuseRecords
    \/ AddNode \/ RefuseNode
    \/ AddObservedEdges
    \/ AddEdge \/ RefuseEdge
    \/ Derive \/ RefuseDerivation
    \/ DetectGaps
    \/ Compose \/ RefuseBundle

Spec == Init /\ [][Next]_vars

\* Nothing but a crash stops the process between two stages.
FairSpec == Spec /\ WF_vars(Next)

-----------------------------------------------------------------------------
(* Properties.                                                             *)

\* The stages in order, labels of nodes, and edges under their own keys.
TypeOK ==
    /\ pc \in {"records", "nodes", "edges", "gaps", "compose", "done", "refused"}
    /\ \A k \in DOMAIN nodes : nodes[k].label \in {"Person", "Artifact", "Module"}
    /\ \A k \in DOMAIN edges : EdgeKey(edges[k]) = k

\* IdRegistry is fail-closed: whatever the digests are, an id stands for one
\* identity and an identity has one id, each way of looking up agreeing.
RegistryOneToOne ==
    /\ \A i \in DOMAIN byIdentity :
          byIdentity[i] \in DOMAIN byId /\ byId[byIdentity[i]] = i
    /\ \A id \in DOMAIN byId :
          byId[id] \in DOMAIN byIdentity /\ byIdentity[byId[id]] = id

\* What the builder holds is a graph at all times: no two nodes share an id,
\* and both ends of every edge are nodes.
GraphClosed ==
    /\ \A k, l \in DOMAIN nodes : nodes[k].id = nodes[l].id => k = l
    /\ \A k \in DOMAIN edges : {edges[k].source, edges[k].target} \subseteq DOMAIN nodes

Ended == pc \in {"done", "refused"}

PeopleOf(row) ==
    {row.author} \union row.to \union (IF row.pauthor = None THEN {} ELSE {row.pauthor})

Directory == input.people \union {Unresolved(k) : k \in UnresolvedIds}

\* The artifacts of an export: of its rows, and those that came as records.
Artifacts == {artifact(row) : row \in Rows} \union {r \in input.facts : r.kind = "artifact"}

ExpectedKeys ==
    {PersonKey(h) : h \in Directory} \union {ModuleKey(m) : m \in input.modules}
    \union {a.subject : a \in Artifacts}
    \union {r.subject : r \in {f \in input.facts : f.kind = "module"}}

ExpectedModules == {key \in ExpectedKeys : key[1] = "module"}

Labelled(key) ==
    <<CASE key[1] = "person" -> "Person" [] key[1] = "module" -> "Module"
        [] key[1] = "artifact" -> "Artifact", key>>

\* Why an export is refused, read off its rows and facts.

\* Whom a row names as reached, besides the author it answers.
Named(row) ==
    row.to \ ({row.author} \union (IF row.kind = "email" THEN Replied(row) ELSE {}))

AnsweredAndNamed ==
    \E r, s \in Rows : r.kind = s.kind /\ r.id = s.id /\ Replied(r) \intersect Named(s) # {}

TwoRowsOfOneId == \E a, b \in Artifacts : a # b /\ a.subject = b.subject

\* A fact, or a record of the directory, that another record contradicts.
StatedOtherwise ==
    \E f \in input.facts \union DirectoryRecords : \E r \in AllRecords :
        r # f /\ r.source = f.source /\ r.xid = f.xid

MappedToNobody == \E row \in Rows : ~ PeopleOf(row) \subseteq Directory

\* A manager is named by a handle of the directory, whatever the map says.
ManagerUnknown ==
    \E h \in input.people \intersect DOMAIN input.reports : input.reports[h] \notin Directory

\* Only rows that meet a directory of modules are rid of what it does not have.
ModuleOfNoDirectory ==
    \E row \in Rows :
        LET named == row.mods \union (IF row.kind = "git" /\ row.mods # {} THEN row.deps ELSE {})
        IN  ~ {ModuleKey(m) : m \in named} \subseteq ExpectedKeys

DependencyTwice ==
    \/ \E r \in Rows : r.kind = "git" /\ r.deps # {} /\ \E m, n \in r.mods : m # n
    \/ \E r, s \in Rows : /\ r.id # s.id /\ r.kind = "git" /\ s.kind = "git"
                          /\ r.mods \intersect s.mods # {} /\ r.deps \intersect s.deps # {}

FactTwice ==
    \E f \in input.facts : \E r \in AllRecords :
        /\ r # f /\ r.kind = f.kind /\ r.subject = f.subject /\ r.object = f.object
        /\ \/ f.kind = "authorship_aggregate"
           \/ f.kind = "ownership_assertion" /\ r.xid = f.xid
           \/ f.kind = "dependency" /\ r.what = f.what

\* The nodes a fact needs: those of its edges.
Needed(f) ==
    CASE f.kind = "artifact" ->
            f.mods \union (IF f.author = None THEN {} ELSE {PersonKey(f.author)})
      [] f.kind = "module" -> {}
      [] OTHER -> {f.subject, f.object}

FactOfUnknown == \E f \in input.facts : ~ Needed(f) \subseteq ExpectedKeys

FactInvalid == \E f \in input.facts : Invalid(f)

DirectoryPeople == {PersonRecord("directory", h, "directory") : h \in input.people}

\* What states edges.
Linking == Artifacts \union DirectoryPeople

\* The edges that an artifact or a person of the directory states, with what
\* their ids are digests of.
ArtifactLinks(a) ==
    (IF a.author = None THEN {} ELSE {<<"AUTHORED", PersonKey(a.author), a.subject, <<"authored">>>>})
    \union {<<"ABOUT", a.subject, m, <<"about">>>> : m \in a.mods}
    \union (IF a.parent = None \/ ReplyKey(a) \notin ExpectedKeys THEN {}
            ELSE {<<"REPLIES_TO", a.subject, ReplyKey(a), <<"thread_parent">>>>})

Links(r) ==
    CASE r.kind = "artifact" -> ArtifactLinks(r)
      [] r.kind = "directory_person" /\ r.object # None ->
            {<<"REPORTS_TO", r.subject, r.object, <<"reporting_line">>>>}
      [] OTHER -> {}

Digest(key) == stable_id(Labelled(key))

LinkDigest(l) == stable_edge_id(l[1], Digest(l[2]), Digest(l[3]), l[4])

\* Two nodes, links, or one of each have one digest.
IdsCollide ==
    ~ Distinct({<<k, Digest(k)>> : k \in ExpectedKeys}
               \union {<<l, LinkDigest(l)>> : l \in UNION {Links(r) : r \in Linking}})

\* An export is refused for one of these reasons and for no other: everything
\* else - unmapped people, unknown modules, missing parents, repeated facts -
\* is taken in.
RefusalExplained ==
    Ended => (pc = "refused" <=>
        \/ AnsweredAndNamed \/ TwoRowsOfOneId \/ StatedOtherwise
        \/ MappedToNobody \/ ManagerUnknown \/ ModuleOfNoDirectory \/ FactOfUnknown
        \/ DependencyTwice \/ FactTwice \/ FactInvalid
        \/ IdsCollide \/ ~OneIdEach)

\* A reply is linked exactly once: to the node it answers when the export has
\* it, to a phantom when it has not, and no phantom stands without one.
RepliesLinkedOnce ==
    pc = "done" =>
        LET key(a) == <<"REPLIES_TO", a.subject, ReplyKey(a)>>
            gapKey(a) == <<"REPLIES_TO", a.subject, ReplyKey(a), <<"dangling_thread_parent">>>>
            given == {a.subject : a \in Artifacts \union {r \in input.facts : NodeLabel(r) # None}}
            replies == {a \in Artifacts : a.parent # None}
        IN  /\ \A a \in replies :
                  /\ key(a) \in DOMAIN edges <=> ReplyKey(a) \in given
                  /\ (\E e \in gaps.edges : e.key = gapKey(a)) <=> ReplyKey(a) \notin given
            /\ \A k \in DOMAIN gaps.phantoms :
                  gaps.phantoms[k].reason = "dangling_thread_parent" =>
                      \E a \in replies : ReplyKey(a) = k /\ k \notin given

\* The messages of one person that answer another or name that person.
Messages(a, b) ==
    {<<row.kind, row.id>> :
        row \in {r \in Rows : r.author = a /\ b # a /\ b \in r.to \union {r.pauthor}}}

\* What facts count that is not a message of the rows.
Counts(a, b) ==
    {f \in input.facts : /\ f.kind = "communication_aggregate"
                         /\ f.subject = PersonKey(a) /\ f.object = PersonKey(b)}
    \ UNION {row_records(row) : row \in Rows}

Interactions(a, b) ==
    Cardinality(Messages(a, b)) + FoldSet(LAMBDA f, n : n + f.count[1], 0, Counts(a, b))

\* The weight between two people counts each message from one that reaches
\* the other, once, however many rows and facts repeat it, under the people
\* the ids resolve to.
CommunicationCounted ==
    pc = "done" => \A a, b \in Directory :
        {e.weight : e \in {d \in derived : d.key = <<"COMMUNICATES", PersonKey(a),
                                                     PersonKey(b), <<"aggregate">>>>}}
        = IF Messages(a, b) = {} /\ Counts(a, b) = {} THEN {} ELSE {Interactions(a, b)}

Wrote(h, key) == Cardinality({a \in Artifacts : a.author = h /\ key \in a.mods})

Written(key) == Cardinality({a \in Artifacts : a.author # None /\ key \in a.mods})

Aggregated(key) == \E r \in OfKind("authorship_aggregate") : r.object = key

\* The first owner derived for a module wrote at least as much about it as
\* anyone else, with that share (at least 1) as its confidence, ranks count
\* down from there, and a module whose owners are stated gets no derived one.
OwnersByAuthorship ==
    pc = "done" => \A key \in ExpectedModules :
        LET owners == {e \in derived : /\ e.key[1] = "OWNS" /\ e.key[3] = key
                                       /\ e.key[4] = <<"authorship_density_derived">>}
            wrote(e) == Wrote(e.key[2][2], key)
        IN  /\ owners # {} <=> Written(key) > 0 /\ ~Aggregated(key)
            /\ \A e \in owners :
                  /\ e.weight = Max({1, Percent(wrote(e), Written(key))})
                  /\ Cardinality({h \in Directory : Wrote(h, key) > wrote(e)}) < e.rank
                  /\ e.rank <= OwnersPerModule

\* Every ingest comes to an end, with a bundle or with an error.
IngestEnds == <>Ended
=============================================================================

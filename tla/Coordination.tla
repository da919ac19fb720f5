---------------------------- MODULE Coordination ----------------------------
(***************************************************************************)
(* The coordination lenses of xray_analytics and the repairs derived from  *)
(* them, as operators on bundles: gap_findings, faultlines,                *)
(* propose_repairs, apply_approved_repairs and verify_repair.              *)
(*                                                                         *)
(* A CanonicalBundle is immutable; the only program that derives a new one *)
(* from an old one here is apply_approved_repairs, which adds overlay      *)
(* edges or relabels a Phantom node.  A bundle is therefore its source     *)
(* (the ingested bundle it descends from) and the set of overlays applied  *)
(* to it: an overlay edge's id is a hash of the dataset, the endpoints and *)
(* the repair id, so applying the same repair twice adds nothing.          *)
(*                                                                         *)
(* canonical keys are numbers where the code sorts by them (people,        *)
(* modules) and model values where it only compares them (phantoms).       *)
(***************************************************************************)
EXTENDS Integers, Sequences, FiniteSets

CONSTANTS
    Sources,      \* the ingested bundles
    Datasets,     \* dataset ids
    Phantoms,     \* canonical keys of Phantom nodes
    Modules,      \* canonical keys of Module nodes
    People,       \* canonical keys of Person nodes
    SourceData,   \* what each source holds
    MaxProposed   \* faultlines turned into proposals (5 in the code)

MaxLen == 4                 \* default max_len of faultlines
NoPath == MaxLen + 1        \* stands for a distance of None
WeakDistance == 3
MinOwnerConfidence == 50

\* _int_property defaults are resolved here: authority 0 when the edge has
\* no authority_rank, ownerRank 1 when it has no owner_rank, and active is
\* _ownership_edge_is_active at the source's last evidence epoch.
OwnsEdge == [module: Modules, owner: People, authority: Nat, active: BOOLEAN,
             epoch: Nat, confidence: 0..100, ownerRank: Nat, key: Seq(Nat)]

DependsEdge == [id: Nat, source: Modules, target: Modules, weight: Nat]

Source == [dataset: Datasets,
           phantoms: SUBSET Phantoms,
           modules: SUBSET Modules,
           people: SUBSET People,
           resolved: SUBSET People,          \* identity_status # "unresolved"
           communicates: SUBSET (SUBSET People),
           owns: SUBSET OwnsEdge,
           depends: SUBSET DependsEdge]

ASSUME KeysAreNumbers == Modules \subseteq Nat /\ People \subseteq Nat

ASSUME SourceAssumption == SourceData \in [Sources -> Source]

\* An assertion observed at a real epoch sorts before a repair overlay of the
\* same authority, whose edge carries no observed_epoch.
ASSUME AssertionsAreDated ==
    \A s \in Sources : \A e \in SourceData[s].owns :
        e.authority > 0 => e.epoch > 0

-----------------------------------------------------------------------------
(* Findings, repairs and bundles.                                          *)

GapKey == [lens: {"gap"}, phantom: Phantoms]

FaultlineKey == [lens: {"faultline"}, sourceModule: Modules, targetModule: Modules,
                 sourceOwner: People, targetOwner: People]

\* A repair_id is "repair:" followed by the lens and the finding key.
FindingKey == GapKey \union FaultlineKey

RepairKind == {"record_missing_approval", "establish_owner_bridge",
               "add_backup_owner", "publish_codeowners"}

Overlay == [repair: FindingKey, kind: RepairKind]

Bundle == [source: Sources, overlays: SUBSET Overlay]

Fresh(s) == [source |-> s, overlays |-> {}]

Data(b) == SourceData[b.source]

Dataset(b) == Data(b).dataset

Gap(p) == [lens |-> "gap", phantom |-> p]

\* Python compares key tuples lexicographically.
LexLess(a, b) ==
    \E i \in DOMAIN a : /\ a[i] < b[i]
                        /\ \A j \in 1..(i - 1) : a[j] = b[j]

-----------------------------------------------------------------------------
(* The communication graph and bounded distances.                          *)

\* Mutant of BridgeEnds: the bridge joins the source owner to itself.
BridgeEnds_SourceOnly(b) ==
    {{o.repair.sourceOwner} :
        o \in {x \in b.overlays : x.kind = "establish_owner_bridge"}}

BridgeEnds(b) ==
    {{o.repair.sourceOwner, o.repair.targetOwner} :
        o \in {x \in b.overlays : x.kind = "establish_owner_bridge"}}

communication_graph(b) == Data(b).communicates \union BridgeEnds(b)

\* The people the breadth-first search knows: resolved people, and whoever
\* is an endpoint of a COMMUNICATES edge.
InGraph(b, p) == p \in Data(b).resolved \/ \E e \in communication_graph(b) : p \in e

Spread(E, S) == S \union {q \in People : \E p \in S : {p, q} \in E}

\* The four levels of the search are spelled out, so that they can be
\* reasoned about without recursion; MaxLen is the code's literal default.
bounded_distance(b, p, q) ==
    LET E  == communication_graph(b)
        B1 == Spread(E, {p})
        B2 == Spread(E, B1)
        B3 == Spread(E, B2)
        B4 == Spread(E, B3)
    IN  IF ~InGraph(b, p) \/ ~InGraph(b, q) THEN NoPath
        ELSE IF p = q    THEN 0
        ELSE IF q \in B1 THEN 1
        ELSE IF q \in B2 THEN 2
        ELSE IF q \in B3 THEN 3
        ELSE IF q \in B4 THEN 4
        ELSE NoPath

faultline_tier(distance) ==
    IF distance = NoPath THEN "no_path"
    ELSE IF distance >= WeakDistance THEN "weak_coordination"
    ELSE "coordinated"

\* Twice TIER_RISK, so that the half risk of a weak tier is a number.
DoubleRisk(tier) ==
    CASE tier = "no_path" -> 2
      [] tier = "weak_coordination" -> 1
      [] OTHER -> 0

-----------------------------------------------------------------------------
(* Who owns a module.                                                      *)

\* The OWNS edge _apply_backup_owner adds: rank 70, confidence 85, no epoch.
RepairOwnsEdge(o) ==
    [module     |-> o.repair.targetModule,
     owner      |-> IF o.kind = "add_backup_owner" THEN o.repair.targetOwner
                                                   ELSE o.repair.sourceOwner,
     authority  |-> 70, active |-> TRUE, epoch |-> 0,
     confidence |-> 85, ownerRank |-> 1,
     key        |-> <<o.repair.sourceModule, o.repair.targetModule,
                      o.repair.sourceOwner, o.repair.targetOwner>>]

owner_edges(b) ==
    Data(b).owns \union
    {RepairOwnsEdge(o) :
        o \in {x \in b.overlays : x.kind \in {"add_backup_owner", "publish_codeowners"}}}

AssertionOrder(e) == <<0 - e.authority, 0 - e.epoch, 0 - e.confidence>> \o e.key

\* The OWNS edges that count for a module: the first active assertion alone
\* when there is one, otherwise every edge.
considered(b, m) ==
    LET edges      == {e \in owner_edges(b) : e.module = m}
        assertions == {e \in edges : e.authority > 0 /\ e.active}
    IN  IF assertions = {} THEN edges
        ELSE {e \in assertions :
                \A f \in assertions : ~LexLess(AssertionOrder(f), AssertionOrder(e))}

module_owners(b, m) ==
    {e \in considered(b, m) : e.confidence > MinOwnerConfidence \/ e.ownerRank = 1}

Owners(b, m) == {e.owner : e \in module_owners(b, m)}

-----------------------------------------------------------------------------
(* The two lenses.                                                         *)

Recorded(p) == [repair |-> Gap(p), kind |-> "record_missing_approval"]

gap_findings(b) == {Gap(p) : p \in {q \in Data(b).phantoms : Recorded(q) \notin b.overlays}}

FaultlineOf(b, d, s, t) ==
    LET distance == bounded_distance(b, s.owner, t.owner)
        tier     == faultline_tier(distance)
    IN  [finding  |-> [lens |-> "faultline",
                       sourceModule |-> d.source, targetModule |-> d.target,
                       sourceOwner |-> s.owner, targetOwner |-> t.owner],
         tier     |-> tier,
         distance |-> distance,
         \* the sort key, then the order of insertion that a stable sort keeps
         order    |-> <<0 - d.weight * DoubleRisk(tier), d.source, d.target, d.id,
                        0 - s.confidence, s.owner, 0 - t.confidence, t.owner>>]

faultlines(b) ==
    {f \in UNION {{FaultlineOf(b, d, s, t) : s \in module_owners(b, d.source),
                                             t \in module_owners(b, d.target)} :
                  d \in Data(b).depends} :
        f.tier # "coordinated"}

OpenFindings(b) == gap_findings(b) \union {f.finding : f \in faultlines(b)}

-----------------------------------------------------------------------------
(* Proposals, overlays and verification.                                   *)

RepairKindOf(f) ==
    IF f.distance = NoPath THEN "establish_owner_bridge"
    ELSE IF f.tier = "weak_coordination" THEN "add_backup_owner"
    ELSE "publish_codeowners"

\* Every gap, and the first MaxProposed faultlines.
propose_repairs(b) ==
    LET lines == faultlines(b)
        top   == {f \in lines :
                    Cardinality({g \in lines : LexLess(g.order, f.order)}) < MaxProposed}
    IN  {[repair |-> g, kind |-> "record_missing_approval"] : g \in gap_findings(b)}
        \union {[repair |-> f.finding, kind |-> RepairKindOf(f)] : f \in top}

\* The nodes an overlay refers to exist in the bundle.
Applicable(b, o) ==
    CASE o.kind = "record_missing_approval" ->
            o.repair.lens = "gap" /\ o.repair.phantom \in Data(b).phantoms
      [] o.kind = "establish_owner_bridge" ->
            o.repair.lens = "faultline"
            /\ {o.repair.sourceOwner, o.repair.targetOwner} \subseteq Data(b).people
      [] o.kind = "add_backup_owner" ->
            o.repair.lens = "faultline"
            /\ o.repair.targetModule \in Data(b).modules
            /\ o.repair.targetOwner \in Data(b).people
      [] o.kind = "publish_codeowners" ->
            o.repair.lens = "faultline"
            /\ o.repair.targetModule \in Data(b).modules
            /\ o.repair.sourceOwner \in Data(b).people

\* Mutant of apply_approved_repair: overlays start again from the source.
apply_approved_repair_FromSource(b, o) ==
    IF Applicable(b, o) THEN [b EXCEPT !.overlays = {o}] ELSE b

apply_approved_repair(b, o) ==
    IF Applicable(b, o) THEN [b EXCEPT !.overlays = @ \union {o}] ELSE b

\* TRUE when the finding the repair came from is gone.
verify_repair(b, repair) == repair \notin OpenFindings(b)
=============================================================================

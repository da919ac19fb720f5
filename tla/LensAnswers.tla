----------------------------- MODULE LensAnswers -----------------------------
(***************************************************************************)
(* What the lenses of the API compute: from the bundle alone (the fixture  *)
(* analytics), and from the rows that HydraDB returned for the bundle      *)
(* (xray_api/lenses.py, hydra.py and the handlers of routers/api.py).      *)
(*                                                                         *)
(* A bundle is a record with the fields that CommunicationAnalysis and     *)
(* Questions name, and preceded (its PRECEDED_BY edges) and created (the   *)
(* epochs of artifacts).  A database has the same fields for the rows it   *)
(* holds of the dataset.  Faultlines are those of Coordination.            *)
(***************************************************************************)
EXTENDS CommunicationAnalysis, Questions

CONSTANTS
    SampleSize,     \* people whose paths the ghost query asks for, 150 in the code
    PathCount       \* paths it asks for from one to another, 3 in the code

MaxLength == 4
ChainLength == 8
NoEpoch == 0 - 1

\* The fields of Coordination's sources, for one bundle.
AsSource(b) ==
    [dataset |-> 1, phantoms |-> {p.key : p \in b.phantoms}, modules |-> b.modules,
     people |-> b.people \union b.strangers, resolved |-> b.people,
     communicates |-> {{c.from, c.to} : c \in b.calls},
     owns |-> b.owns, depends |-> b.depends]

Analysis(b) == INSTANCE Coordination WITH
    Sources <- {1}, Datasets <- {1}, Phantoms <- {p.key : p \in b.phantoms},
    Modules <- b.modules, People <- b.people \union b.strangers,
    SourceData <- <<AsSource(b)>>, MaxProposed <- 5

\* Calls of the last days before the latest one; a bundle whose calls carry
\* no times is left alone.
window_bundle(b, days) ==
    LET epochs == {c.last : c \in b.calls} \ {NoEpoch}
    IN  IF days = 0 \/ epochs = {} THEN b
        ELSE [b EXCEPT !.calls =
                {c \in @ : c.last # NoEpoch /\ c.last >= Max(epochs) - days}]

-----------------------------------------------------------------------------
(* Ghosts.                                                                 *)

fixture_ghost_scores(b, excluded) ==
    LET scored == without_people(b, excluded)
        g == communication_graph(scored)
    IN  ghost_findings(scored, g, scored.people,
                       betweenness_centrality(g, scored.people, Cardinality(DOMAIN g)), MaxLength)

fixture_what_if(b, excluded) ==
    LET g       == communication_graph(b)
        reduced == communication_graph(without_people(b, excluded))
    IN  reachable_pair_count(g, DOMAIN g \ excluded, MaxLength)
        - reachable_pair_count(reduced, DOMAIN reduced, MaxLength)

\* The findings, and what the what-if removal loses.
fixture_ghost_findings(b, excluded) ==
    [findings |-> fixture_ghost_scores(b, excluded),
     lost     |-> IF excluded = {} THEN 0 ELSE fixture_what_if(b, excluded)]

\* round(i * last / (limit - 1)), halves to the even neighbour.
Rounded(n, d) ==
    IF 2 * (n % d) < d \/ (2 * (n % d) = d /\ (n \div d) % 2 = 0) THEN n \div d ELSE n \div d + 1

\* People are numbered by id here, as the code sorts them.
evenly_spaced_people(people) ==
    LET limit == Min({Cardinality(people), SampleSize})
        At(i) == CHOOSE p \in people : Cardinality({q \in people : q < p}) = i
    IN  IF limit = Cardinality(people) THEN people
        ELSE IF limit = 1 THEN {At(0)}
        ELSE {At(Rounded(i * (Cardinality(people) - 1), limit - 1)) : i \in 0..(limit - 1)}

graph_from_paths(paths) ==
    LET steps == UNION {{{p[i], p[i + 1]} : i \in 1..(Len(p) - 1)} : p \in paths}
    IN  [n \in UNION {ToSet(p) : p \in paths} |-> {m \in UNION steps : m # n /\ {n, m} \in steps}]

without(g, excluded) == [n \in DOMAIN g \ excluded |-> g[n] \ excluded]

\* The paths lead through stubs, which are not ranked and do not count as
\* ends of a path; formal ranks are among the people the paths reached.
scores_from_graph(b, paths, excluded) ==
    LET scored == without(graph_from_paths(paths), excluded)
        keys   == DOMAIN scored \intersect b.people
        among  == [n \in keys |-> scored[n] \intersect keys]
    IN  IF Cardinality(keys) < 2 THEN <<>>
        ELSE ghost_findings(b, scored, keys,
                            betweenness_centrality(among, keys, Cardinality(keys)), MaxLength)

what_if_from_graph(paths, excluded) ==
    LET g       == graph_from_paths(paths)
        reduced == without(g, excluded)
    IN  reachable_pair_count(g, DOMAIN g \ excluded, MaxLength)
        - reachable_pair_count(reduced, DOMAIN reduced, MaxLength)

findings_from_graph(b, paths, excluded) ==
    [findings |-> scores_from_graph(b, paths, excluded),
     lost     |-> IF excluded = {} THEN 0 ELSE what_if_from_graph(paths, excluded)]

-----------------------------------------------------------------------------
(* Faultlines.                                                             *)

fixture_faultlines(b) ==
    {[finding |-> f.finding, tier |-> f.tier, distance |-> f.distance] :
        f \in Analysis(b)!faultlines(Analysis(b)!Fresh(1))}

\* The owners whose distance the engine is asked for: two resolved people.
OwnerPairs(b) ==
    {{f.finding.sourceOwner, f.finding.targetOwner} : f \in fixture_faultlines(b)}

ResolvedPairs(b) == {e \in OwnerPairs(b) : e \subseteq b.people}

\* Mutant of with_live_distances: what is coordinated by now is kept.
with_live_distances_Kept(b, paths) ==
    LET Live(f) ==
            LET ends == {f.finding.sourceOwner, f.finding.targetOwner}
                of   == {p \in paths : Len(p) > 1 /\ {p[1], Last(p)} = ends}
                d    == IF of = {} THEN Analysis(b)!NoPath ELSE Len(CHOOSE p \in of : TRUE)
            IN  [f EXCEPT !.distance = d, !.tier = Analysis(b)!faultline_tier(d)]
    IN  {Live(f) : f \in fixture_faultlines(b)}

\* The distance of each pair is that of the path returned for it, None when
\* there is none; what is coordinated by now is no finding.
with_live_distances(b, paths) ==
    LET Live(f) ==
            LET ends == {f.finding.sourceOwner, f.finding.targetOwner}
                of   == {p \in paths : Len(p) > 1 /\ {p[1], Last(p)} = ends}
                d    == IF of = {} THEN Analysis(b)!NoPath ELSE Len(CHOOSE p \in of : TRUE) - 1
            IN  [f EXCEPT !.distance = d, !.tier = Analysis(b)!faultline_tier(d)]
    IN  {x \in {Live(f) : f \in fixture_faultlines(b)} : x.tier # "coordinated"}

-----------------------------------------------------------------------------
(* Gaps.                                                                   *)

GapFinding(p, epoch, predecessors, successors) ==
    [phantom |-> p.key, kind |-> p.kind, reason |-> p.reason, epoch |-> epoch,
     predecessors |-> predecessors, successors |-> successors]

interpolated_gap_epoch(b, predecessors, successors) ==
    LET before == {b.created[x] : x \in predecessors \intersect DOMAIN b.created}
        after  == {b.created[x] : x \in successors \intersect DOMAIN b.created}
    IN  IF before = {} \/ after = {} THEN NoEpoch ELSE Rounded(Max(before) + Min(after), 2)

\* A reply to an absent parent comes after it.
fixture_gap_findings(b) ==
    {LET predecessors == {e.to : e \in {x \in b.preceded : x.from = p.key}}
         successors   == {e.from : e \in {x \in b.preceded \union b.replies : x.to = p.key}}
     IN  GapFinding(p, IF p.epoch # NoEpoch THEN p.epoch
                       ELSE interpolated_gap_epoch(b, predecessors, successors),
                    predecessors, successors) :
        p \in b.phantoms}

\* The first phantoms by key, as many as the bundle has; those it lacks are
\* dropped afterwards.
PhantomRows(b, db) ==
    LET limit == Max({1, Cardinality(b.phantoms)})
        rows  == {p \in db.phantoms :
                    Cardinality({q \in db.phantoms : q.key < p.key}) < limit}
    IN  {p \in rows : p.key \in {q.key : q \in b.phantoms}}

Lineage(rows, key) == {r.artifact : r \in {x \in rows : x.phantom = key}}

gap_rows(phantoms, predecessors, successors, replies) ==
    {GapFinding(p, p.epoch, Lineage(predecessors, p.key),
                Lineage(successors \union replies, p.key)) : p \in phantoms}

\* The gaps that lie between two artifacts.
Between(findings, source, target) ==
    {f \in findings : target \in f.predecessors /\ source \in f.successors}

-----------------------------------------------------------------------------
(* The communication graph as it is drawn.                                 *)

DrawnEdges(people, calls) ==
    {<<c.from, c.to>> : c \in {x \in calls : {x.from, x.to} \subseteq people}}

EdgeCount(b) ==
    Cardinality(b.authored) + Cardinality(b.calls) + Cardinality(b.depends)
    + Cardinality(b.owns) + Cardinality(b.preceded) + Cardinality(b.replies)

\* The first COMMUNICATES rows by key, as many as the bundle has edges of any
\* kind; those between others are dropped from them afterwards.
CallRows(b, db) ==
    LET limit == Max({1, EdgeCount(b)})
        rows  == {c \in db.calls :
                    Cardinality({d \in db.calls :
                        LexBefore(<<d.from, d.to>>, <<c.from, c.to>>)}) < limit}
    IN  DrawnEdges(b.people, rows)

fixture_graph(b) == [nodes |-> b.people, edges |-> DrawnEdges(b.people, b.calls)]

\* As many Person rows as the bundle has resolved people; others are dropped
\* from those afterwards.
PersonRows(b, db) ==
    LET all  == db.people \union db.strangers
        rows == {p \in all : Cardinality({q \in all : q < p}) < Max({1, Cardinality(b.people)})}
    IN  rows \intersect b.people

-----------------------------------------------------------------------------
(* What HydraDB answers: algo.MSpaths over COMMUNICATES in both directions *)
(* and algo.SPpaths along PRECEDED_BY.                                     *)

DatabaseGraph(db) == communication_graph(db)

\* PathCount of the shortest paths between every two, any when there are more;
\* the result limit is PathCount for each pair and cuts nothing.
ShortestPaths(db, people) ==
    LET g     == DatabaseGraph(db)
        Of(e) == all_shortest_paths(g, e[1], e[2], MaxLength)
        pairs == (people \intersect DOMAIN g) \X (people \intersect DOMAIN g)
        cut   == {e \in pairs : Cardinality(Of(e)) > PathCount}
    IN  {UNION {Of(e) : e \in pairs \ cut} \union some :
            some \in {S \in SUBSET UNION {Of(e) : e \in cut} :
                        \A e \in cut : Cardinality(S \intersect Of(e)) = PathCount}}

\* One path for each source and target that have one.
DistancePaths(db, sources, targets) ==
    LET g == DatabaseGraph(db)
    IN  {shortest_communication_bridge(g, e[1], e[2], MaxLength) :
            e \in sources \X targets} \ {<<>>}

\* At most limit of them, in no order that the query asks for.
DistanceRows(db, sources, targets, limit) ==
    LET paths == DistancePaths(db, sources, targets)
    IN  {rows \in SUBSET paths : Cardinality(rows) = Min({limit, Cardinality(paths)})}

Chain(db, source, target) ==
    LET nodes == db.artifacts \union {p.key : p \in db.phantoms}
        g     == [n \in nodes |-> {e.to : e \in {x \in db.preceded : x.from = n}}]
    IN  IF {source, target} \subseteq nodes
        THEN shortest_communication_bridge(g, source, target, ChainLength) ELSE <<>>
=============================================================================

------------------------ MODULE CommunicationAnalysis ------------------------
(***************************************************************************)
(* The path lenses of xray_analytics/analysis.py as operators: the         *)
(* undirected coordination graph of a bundle, bounded reachability,        *)
(* shortest paths and bridges, Brandes' tallies, the Ghost ranking and     *)
(* the loss of pairs when people are removed.                              *)
(*                                                                         *)
(* A bundle is a record; the fields used here are people (resolved Person  *)
(* nodes), strangers (unresolved ones), rank (role_rank) and calls (its    *)
(* COMMUNICATES edges).  Canonical keys are numbers, in the order Python   *)
(* gives the strings.  A graph is a function from nodes to neighbours:     *)
(* weights never enter a path.                                             *)
(***************************************************************************)
EXTENDS Integers, Sequences, SequencesExt, FiniteSetsExt

\* Shares of paths are multiples of 1 / Unit: exact when no two people have
\* more shortest paths than divide it (12 for a graph of five people).
CONSTANT Unit

ASSUME UnitAssumption == Unit \in Nat \ {0}

Endpoints(calls) == UNION {{c.from, c.to} : c \in calls}

\* Unresolved endpoints stay in the graph as stubs.
communication_graph(b) ==
    [p \in b.people \union Endpoints(b.calls) |->
        {q \in Endpoints(b.calls) : \E c \in b.calls : {c.from, c.to} = {p, q}}]

without_people(b, gone) ==
    [b EXCEPT !.people = @ \ gone, !.strangers = @ \ gone,
              !.calls = {c \in @ : {c.from, c.to} \intersect gone = {}}]

\* Mutant of without_node: the node's neighbours still point at it.
without_node_OneSided(g, gone) ==
    [n \in DOMAIN g |-> IF n = gone THEN {} ELSE g[n]]

without_node(g, gone) == [n \in DOMAIN g \ {gone} |-> g[n] \ {gone}]

\* Positions in a sort by descending value, ties by key.
Ranks(keys, value) ==
    [p \in keys |->
        1 + Cardinality({q \in keys : value[q] > value[p] \/ (value[q] = value[p] /\ q < p)})]

\* sorted: all are equal, so the keys decide.
InOrder(keys) ==
    LET position == Ranks(keys, [k \in keys |-> 0])
    IN  [i \in 1..Cardinality(keys) |-> CHOOSE k \in keys : position[k] = i]

-----------------------------------------------------------------------------
(* Reachability.                                                           *)

\* Who is met at each distance from the source, up to max_len.
levels(g, source, max_len) ==
    LET level[i \in 0..max_len] ==
            IF i = 0 THEN <<{source}>>
            ELSE LET met == level[i - 1]
                 IN  Append(met, (UNION {g[m] : m \in Last(met)}) \ (UNION ToSet(met)))
    IN  level[max_len]

reachable_within(g, source, max_len) ==
    (UNION ToSet(levels(g, source, max_len))) \ {source}

\* The nodes just before n on the shortest paths from the source.
Before(g, met, n) ==
    UNION {met[i] \intersect g[n] : i \in {j \in 1..(Len(met) - 1) : n \in met[j + 1]}}

After(g, met, n) ==
    UNION {met[i + 1] \intersect g[n] : i \in {j \in 1..(Len(met) - 1) : n \in met[j]}}

\* Mutant of reachable_pair_count: whoever was named by an edge counts.
reachable_pair_count_AllNodes(g, keys, max_len) ==
    Cardinality({e \in (DOMAIN g) \X (DOMAIN g) :
                    e[1] < e[2] /\ e[2] \in reachable_within(g, e[1], max_len)})

reachable_pair_count(g, keys, max_len) ==
    Cardinality({e \in keys \X keys :
                    e[1] < e[2] /\ e[2] \in reachable_within(g, e[1], max_len)})

\* Pairs of others that only reach each other through the person.
bus_factor_impact(g, person, max_len) ==
    LET others == DOMAIN g \ {person}
    IN  reachable_pair_count(g, others, max_len)
        - reachable_pair_count(without_node(g, person), others, max_len)

\* What a finding's removal_impact loses: the person's own pairs count too.
removal_impact(g, person, max_len) ==
    LET reduced == without_node(g, person)
    IN  reachable_pair_count(g, DOMAIN g, max_len)
        - reachable_pair_count(reduced, DOMAIN reduced, max_len)

-----------------------------------------------------------------------------
(* Shortest paths.                                                         *)

\* build_paths: back from the target, one predecessor at a time.
all_shortest_paths(g, source, target, max_len) ==
    LET met == levels(g, source, max_len)
        paths[n \in DOMAIN g] ==
            IF n = source THEN {<<source>>}
            ELSE UNION {{Append(p, n) : p \in paths[m]} : m \in Before(g, met, n)}
    IN  paths[target]

\* The share of a path between any two people is a whole number of units.
WholeShares(g, max_len) ==
    \A s, t \in DOMAIN g :
        LET paths == all_shortest_paths(g, s, t, max_len)
        IN  paths # {} => \E k \in 1..Unit : Unit = k * Cardinality(paths)

Known(search) == {Last(p) : p \in search.found}

\* Mutant of Visit: neighbours enter in no particular order.
Visit_Backwards(g, search, path) ==
    LET new == Reverse(InOrder(g[Last(path)] \ Known(search)))
        via == [i \in DOMAIN new |-> Append(path, new[i])]
    IN  [found |-> search.found \union ToSet(via), queue |-> search.queue \o via]

\* A node leaves the queue: its unseen neighbours enter in key order.  The
\* parents are kept as the path they spell back to the source.
Visit(g, search, path) ==
    LET new == InOrder(g[Last(path)] \ Known(search))
        via == [i \in DOMAIN new |-> Append(path, new[i])]
    IN  [found |-> search.found \union ToSet(via), queue |-> search.queue \o via]

\* The nodes of one distance leave the queue, those of the next are in it.
VisitAll(g, search) ==
    LET visited[i \in 0..Len(search.queue)] ==
            IF i = 0 THEN [found |-> search.found, queue |-> <<>>]
            ELSE Visit(g, visited[i - 1], search.queue[i])
    IN  visited[Len(search.queue)]

\* What the breadth-first search from the source has found within a distance.
Search(g, source, max_len) ==
    LET search[i \in 0..max_len] ==
            IF i = 0 THEN [found |-> {<<source>>}, queue |-> <<<<source>>>>]
            ELSE VisitAll(g, search[i - 1])
    IN  search[max_len]

shortest_communication_bridge(g, source, target, max_len) ==
    LET found == Search(g, source, max_len).found
    IN  IF {source, target} \subseteq DOMAIN g /\ \E p \in found : Last(p) = target
        THEN CHOOSE p \in found : Last(p) = target ELSE <<>>

-----------------------------------------------------------------------------
(* Centrality and the Ghost ranking.                                       *)

PathCounts(g, met) ==
    LET sigma[n \in DOMAIN g] ==
            IF n \in met[1] THEN 1 ELSE SumFunctionOnSet(sigma, Before(g, met, n))
    IN  [n \in DOMAIN g |-> sigma[n]]

\* Dependencies are gathered from the far end of the stack back to the source.
Dependencies(g, met) ==
    LET sigma == PathCounts(g, met)
        dependency[m \in DOMAIN g] ==
            SumFunction([n \in After(g, met, m) |->
                            (sigma[m] * (Unit + dependency[n])) \div sigma[n]])
    IN  dependency

\* Mutant of bounded_shortest_path_tallies: the source is credited as well.
bounded_shortest_path_tallies_WithSource(g, keys, max_len) ==
    [m \in keys |->
        SumFunction([s \in keys |-> Dependencies(g, levels(g, s, max_len))[m]])]

\* Twice the tallies: each pair is met from both ends.
bounded_shortest_path_tallies(g, keys, max_len) ==
    [m \in keys |->
        SumFunction([s \in keys \ {m} |-> Dependencies(g, levels(g, s, max_len))[m]])]

\* networkx betweenness_centrality, over the people and every stub a person
\* is joined to: the share of the shortest paths of all pairs.
betweenness_centrality(g, keys, max_len) ==
    LET Through(m, s, t) ==
            LET paths == all_shortest_paths(g, s, t, max_len)
            IN  IF paths = {} THEN 0
                ELSE (Unit * Cardinality({p \in paths : m \in ToSet(p)})) \div Cardinality(paths)
    IN  [m \in keys |->
            LET pairs == {e \in (DOMAIN g \ {m}) \X (DOMAIN g \ {m}) : e[1] # e[2]}
            IN  SumFunction([e \in pairs |-> Through(m, e[1], e[2])])]

formal_ranks(keys, rank) == Ranks(keys, rank)

\* A Ghost score, with what removing the person costs for the first ten.
Score(b, g, keys, centrality, p, i, max_len) ==
    [person |-> p, structural |-> i, formal |-> formal_ranks(keys, b.rank)[p],
     gap |-> formal_ranks(keys, b.rank)[p] - i,
     centrality |-> centrality[p], degree |-> Cardinality(g[p]),
     impact |-> IF i <= 10 THEN removal_impact(g, p, max_len) ELSE 0]

\* The findings from the most central person to the least.
ghost_findings(b, g, keys, centrality, max_len) ==
    LET position == Ranks(keys, centrality)
    IN  [i \in 1..Cardinality(keys) |->
            Score(b, g, keys, centrality, CHOOSE p \in keys : position[p] = i, i, max_len)]
=============================================================================

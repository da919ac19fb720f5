----------------------------- MODULE GhostScores -----------------------------
(***************************************************************************)
(* ghost_scores under the threads of the API, and the memo of graph        *)
(* snapshots it keeps: _BUNDLE_SNAPSHOTS maps the address of a bundle to a *)
(* weak reference and the graph computed from it.                          *)
(*                                                                         *)
(* A thread holds the served bundle, or a copy of it without some people   *)
(* (a what-if).  It looks the address up and stores under the lock, and    *)
(* computes outside of it.  A bundle nobody holds is freed, at once by the *)
(* thread that lets it go or later by a collection that interrupts any     *)
(* thread, even one inside the lock; the weak reference's callback runs in *)
(* that thread before the address can be used again.                       *)
(***************************************************************************)
EXTENDS CommunicationAnalysis

CONSTANTS
    Threads,
    Addresses,      \* where bundles can be
    Served,         \* the address of the served bundle
    None,
    Workloads,      \* [bundle, left]: the served bundle, and for each thread the
                    \* people that its calls leave out, one set for each call
    MaxLen,         \* max_len, 4 in the code
    ExactBelow      \* EXACT_CENTRALITY_MAX_PEOPLE

\* Finitely many people and calls, whoever the calls are between.
IsBundle(b) ==
    /\ {"people", "strangers", "calls"} \subseteq DOMAIN b
    /\ IsFiniteSet(b.people) /\ b.people \subseteq Nat
    /\ IsFiniteSet(b.calls) /\ \A c \in b.calls : c.from \in Nat /\ c.to \in Nat

ASSUME GhostAssumption ==
    /\ Served \in Addresses
    /\ None \notin Addresses \union Threads
    /\ MaxLen \in Nat \ {0} /\ ExactBelow \in Nat
    /\ \A w \in Workloads :
          w.left \in [Threads -> Seq(SUBSET Nat)] /\ IsBundle(w.bundle)

\* The served bundle, and what a call can make of it.
Copies(w) ==
    {w.bundle} \union
    {without_people(w.bundle, gone) : gone \in UNION {Range(w.left[t]) : t \in Threads}}

\* Unit divides into the paths of every graph that a call can be about, of
\* those within max_len as of those of any length.
ASSUME ShareAssumption ==
    \A w \in Workloads : \A b \in Copies(w) :
        LET g == communication_graph(b)
        IN  WholeShares(g, MaxLen) /\ WholeShares(g, Cardinality(DOMAIN g))

VARIABLES
    heap,       \* address -> the bundle there, [serial, bundle, garbage], or None
    memo,       \* _BUNDLE_SNAPSHOTS: address -> [ref, snapshot]
    lock,       \* the thread inside _BUNDLE_SNAPSHOT_LOCK, or None
    pc,         \* thread -> where its call of ghost_scores is
    call,       \* thread -> what its call holds
    dying,      \* thread -> the address whose callback interrupts it, or None
    left,       \* thread -> what it will still ask
    serial      \* bundles made so far

vars == <<pc, heap, memo, lock, call, dying, left, serial>>

NoCall == [at |-> None, snapshot |-> None]

Init ==
    \E w \in Workloads :
        /\ heap = [a \in Addresses |->
                    IF a = Served THEN [serial |-> 1, bundle |-> w.bundle, garbage |-> FALSE]
                    ELSE None]
        /\ memo = <<>>
        /\ lock = None
        /\ pc = [t \in Threads |-> "idle"]
        /\ call = [t \in Threads |-> NoCall]
        /\ dying = [t \in Threads |-> None]
        /\ left = w.left
        /\ serial = 1

-----------------------------------------------------------------------------
(* A call.                                                                 *)

Runs(t, step) == pc[t] = step /\ dying[t] = None

Goto(t, step) == pc' = [pc EXCEPT ![t] = step]

Begin(t, a) ==
    /\ left' = [left EXCEPT ![t] = Tail(@)]
    /\ Goto(t, "lookup")
    /\ call' = [call EXCEPT ![t] = [NoCall EXCEPT !.at = a]]
    /\ UNCHANGED <<memo, lock, dying>>

Ask(t) ==
    /\ Runs(t, "idle") /\ left[t] # <<>> /\ Head(left[t]) = {}
    /\ Begin(t, Served)
    /\ UNCHANGED <<heap, serial>>

\* A what-if: the copy is a new object at any free address.
AskWithout(t) ==
    /\ Runs(t, "idle") /\ left[t] # <<>> /\ Head(left[t]) # {}
    /\ serial' = serial + 1
    /\ \E a \in {x \in Addresses : heap[x] = None} :
        /\ heap' = [heap EXCEPT ![a] =
                        [serial  |-> serial + 1,
                         bundle  |-> without_people(heap[Served].bundle, Head(left[t])),
                         garbage |-> FALSE]]
        /\ Begin(t, a)

\* Mutant of CanEnter: a lock that its holder cannot take again.
CanEnter_PlainLock(t) == lock = None

CanEnter(t) == lock \in {None, t}

\* Mutant of Acquire: the critical section is entered without the lock.
Acquire_Unlocked(t, from, to) ==
    /\ Runs(t, from)
    /\ CanEnter(t)
    /\ Goto(t, to)
    /\ UNCHANGED <<heap, memo, lock, call, dying, left, serial>>

Acquire(t, from, to) ==
    /\ Runs(t, from)
    /\ CanEnter(t)
    /\ lock' = t
    /\ Goto(t, to)
    /\ UNCHANGED <<heap, memo, call, dying, left, serial>>

Cached(a) == a \in DOMAIN memo /\ heap[a] # None /\ memo[a].ref = heap[a].serial

Lookup(t) ==
    /\ Runs(t, "looking")
    /\ lock' = None
    /\ \/ /\ Cached(call[t].at)
          /\ Goto(t, "score")
          /\ call' = [call EXCEPT ![t].snapshot = memo[call[t].at].snapshot]
       \/ /\ ~Cached(call[t].at)
          /\ Goto(t, "build")
          /\ UNCHANGED call
    /\ UNCHANGED <<heap, memo, dying, left, serial>>

GraphSnapshot(b) == [people |-> b.people, rank |-> b.rank, graph |-> communication_graph(b)]

Build(t) ==
    /\ Runs(t, "build")
    /\ Goto(t, "store")
    /\ call' = [call EXCEPT ![t].snapshot = GraphSnapshot(heap[call[t].at].bundle)]
    /\ UNCHANGED <<heap, memo, lock, dying, left, serial>>

Entry(t) == [ref |-> heap[call[t].at].serial, snapshot |-> call[t].snapshot]

Store(t) ==
    /\ Runs(t, "storing")
    /\ memo' = [a \in DOMAIN memo \union {call[t].at} |->
                    IF a = call[t].at THEN Entry(t) ELSE memo[a]]
    /\ lock' = None
    /\ Goto(t, "score")
    /\ UNCHANGED <<heap, call, dying, left, serial>>

\* Below the limit networkx counts every pair, above it the bounded search
\* only knows the ranked people and fails on a neighbour it does not know.
Centrality(s) ==
    IF Cardinality(s.people) < ExactBelow
    THEN betweenness_centrality(s.graph, s.people, Cardinality(DOMAIN s.graph))
    ELSE bounded_shortest_path_tallies(s.graph, s.people, MaxLen)

Raises(s) ==
    /\ Cardinality(s.people) >= ExactBelow
    /\ \E p \in s.people : ~s.graph[p] \subseteq s.people

\* A pure function of the snapshot, as its lru_cache relies on: a call that
\* has scored has this answer.
ghost_scores(s) == ghost_findings(s, s.graph, s.people, Centrality(s), MaxLen)

ScoreCall(t) ==
    /\ Runs(t, "score")
    /\ \/ Raises(call[t].snapshot) /\ Goto(t, "raised")
       \/ ~Raises(call[t].snapshot) /\ Goto(t, "scored")
    /\ UNCHANGED <<heap, memo, lock, call, dying, left, serial>>

-----------------------------------------------------------------------------
(* Bundles are let go.                                                     *)

\* The thread ends its call; its copy dies at once, or is part of a cycle
\* and waits for a collection.
Return(t) ==
    /\ Runs(t, "scored") \/ Runs(t, "raised")
    /\ Goto(t, "idle")
    /\ call' = [call EXCEPT ![t] = NoCall]
    /\ \/ /\ call[t].at = Served
          /\ UNCHANGED <<heap, dying>>
       \/ /\ call[t].at # Served
          /\ dying' = [dying EXCEPT ![t] = call[t].at]
          /\ UNCHANGED heap
       \/ /\ call[t].at # Served
          /\ heap' = [heap EXCEPT ![call[t].at].garbage = TRUE]
          /\ UNCHANGED dying
    /\ UNCHANGED <<memo, lock, left, serial>>

Garbage(a) == heap[a] # None /\ heap[a].garbage

Collect(t) ==
    /\ dying[t] = None
    /\ \E a \in Addresses :
        /\ Garbage(a) /\ \A u \in Threads : dying[u] # a
        /\ dying' = [dying EXCEPT ![t] = a]
    /\ UNCHANGED <<pc, heap, memo, lock, call, left, serial>>

\* Mutant of discard: the entry stays.
discard_Never(a) == memo

discard(a) ==
    IF a \in DOMAIN memo /\ memo[a].ref = heap[a].serial
    THEN [x \in DOMAIN memo \ {a} |-> memo[x]]
    ELSE memo

\* The callback pops the entry, then the address is free.
Discard(t) ==
    /\ dying[t] # None
    /\ CanEnter(t)
    /\ memo' = discard(dying[t])
    /\ heap' = [heap EXCEPT ![dying[t]] = None]
    /\ dying' = [dying EXCEPT ![t] = None]
    /\ UNCHANGED <<pc, lock, call, left, serial>>

CallStep(t) ==
    \/ Ask(t) \/ AskWithout(t)
    \/ Acquire(t, "lookup", "looking") \/ Lookup(t)
    \/ Build(t) \/ Acquire(t, "store", "storing") \/ Store(t)
    \/ ScoreCall(t) \/ Return(t) \/ Discard(t)

Next == \E t \in Threads : CallStep(t) \/ Collect(t)

\* The operating system runs every thread; when garbage is collected is not
\* up to the program.
Spec == Init /\ [][Next]_vars /\ \A t \in Threads : WF_vars(CallStep(t))

-----------------------------------------------------------------------------
(* Properties.                                                             *)

Steps == {"idle", "lookup", "looking", "build", "store", "storing", "score", "scored", "raised"}

\* Types, and what the steps rely on: a call works on a bundle that exists,
\* and only a thread inside a critical section holds the lock.
TypeOK ==
    /\ lock \in Threads \union {None}
    /\ \A t \in Threads :
        /\ pc[t] \in Steps
        /\ left[t] \in Seq(SUBSET Nat)
        /\ pc[t] # "idle" => heap[call[t].at] # None /\ ~heap[call[t].at].garbage
        /\ dying[t] # None => heap[dying[t]] # None
        /\ (lock = t) = (pc[t] \in {"looking", "storing"})
    /\ DOMAIN memo \subseteq Addresses

\* The memo keeps nothing of a bundle that is gone: whatever it holds is
\* keyed by the address of a bundle that is still there, and was computed
\* from it (_bundle_graph_snapshot: "without retaining bundles or trusting
\* recycled ids").
MemoIsLean ==
    \A a \in DOMAIN memo :
        /\ heap[a] # None
        /\ memo[a] = [ref |-> heap[a].serial, snapshot |-> GraphSnapshot(heap[a].bundle)]

Answered(t) == pc[t] = "scored"

Answers(t) == ghost_scores(call[t].snapshot)

GraphOf(t) == call[t].snapshot.graph

\* The exact count has no limit to the length of a path: none is longer than
\* the graph has nodes.
Longest(s) ==
    IF Cardinality(s.people) < ExactBelow THEN Cardinality(DOMAIN s.graph) ELSE MaxLen

\* The share of all shortest paths of at most max_len that lead through a
\* person, counted path by path.
PathShare(g, p, max_len) ==
    LET Paths(s, t) == all_shortest_paths(g, s, t, max_len)
        Share(s, t) == IF Paths(s, t) = {} THEN 0
                       ELSE (Unit * Cardinality({x \in Paths(s, t) : p \in ToSet(x)}))
                            \div Cardinality(Paths(s, t))
        pairs == {e \in (DOMAIN g \ {p}) \X (DOMAIN g \ {p}) : e[1] # e[2]}
    IN  SumFunction([e \in pairs |-> Share(e[1], e[2])])

\* The graph a call works on, from the memo or not, is that of its bundle.
OfItsBundle(t) == call[t].snapshot = GraphSnapshot(heap[call[t].at].bundle)

\* Whichever way the centrality was computed, and whether the graph came
\* from the memo or not, the people are ranked by the shortest paths through
\* them in the bundle the call was about, ties by key.
RankingExact ==
    \A t \in Threads : Answered(t) =>
        /\ OfItsBundle(t)
        /\ LET ranking == Answers(t)
               length  == Longest(call[t].snapshot)
               shares  == [i \in DOMAIN ranking |->
                               PathShare(GraphOf(t), ranking[i].person, length)]
           IN  /\ {ranking[i].person : i \in DOMAIN ranking} = call[t].snapshot.people
               /\ \A i, j \in DOMAIN ranking : i < j =>
                    \/ shares[i] > shares[j]
                    \/ shares[i] = shares[j] /\ ranking[i].person < ranking[j].person

\* Removing somebody no shortest path leads through separates nobody else:
\* what one of the first ten findings loses then are the person's own pairs.
ImpactMeansCentral ==
    \A t \in Threads : Answered(t) => \A f \in Range(Answers(t)) :
        f.centrality = 0 =>
            /\ bus_factor_impact(GraphOf(t), f.person, MaxLen) = 0
            /\ f.structural <= 10 =>
                  f.impact = Cardinality(reachable_within(GraphOf(t), f.person, MaxLen))

LexBefore(x, y) == \E i \in DOMAIN x : x[i] < y[i] /\ \A j \in 1..(i - 1) : x[j] = y[j]

\* The bridge shown between two people is a shortest path, of all of them the
\* least in the order of the keys, and there is none exactly when nobody
\* within MaxLen connects them.
BridgeIsLeast ==
    \A t \in Threads : Answered(t) => \A s, u \in DOMAIN GraphOf(t) :
        LET bridge == shortest_communication_bridge(GraphOf(t), s, u, MaxLen)
            paths  == all_shortest_paths(GraphOf(t), s, u, MaxLen)
        IN  /\ (bridge = <<>>) = (paths = {})
            /\ paths # {} => bridge \in paths /\ \A p \in paths : ~LexBefore(p, bridge)

\* Every call returns, although callbacks interrupt threads inside the lock.
CallsEnd == \A t \in Threads : (pc[t] # "idle") ~> (pc[t] = "idle" /\ dying[t] = None)
=============================================================================

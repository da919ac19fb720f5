------------------------------- MODULE Lenses -------------------------------
(***************************************************************************)
(* Requests to the live lenses of the API: graph, ghosts, faultlines,      *)
(* gaps, gap-paths and questions, over the served bundle and a HydraDB     *)
(* that may be missing, empty, half loaded, loaded from an older snapshot, *)
(* or in the middle of being seeded.                                       *)
(*                                                                         *)
(* Each query of a request is one statement against whatever the database  *)
(* holds at that moment, and may fail; batches of a seed come in between.  *)
(* The answer is composed when the last query is back.                     *)
(***************************************************************************)
EXTENDS LensAnswers

CONSTANTS
    Scenes,         \* [bundle, older, configured, loads]: what is served, an older
                    \* snapshot of the dataset or the same, whether a HydraDB is
                    \* configured, and the contents it may start with
    Requests(_),    \* what may be asked of a bundle
    NoRequest,
    RowLimit,       \* result_limit of ontology_context_query, 25 in the code
    MaxRequests,    \* bound: requests in a behaviour
    MaxFailures     \* bound: failed queries in a behaviour

LensNames == {"graph", "ghosts", "faultlines", "gaps", "gap_paths", "question"}

\* What a bundle holds and HydraDB stores: nodes, then edges.
BundleFields ==
    {"people", "strangers", "artifacts", "modules", "phantoms",
     "authored", "calls", "depends", "owns", "preceded", "replies"}

ASSUME LensAssumption ==
    /\ NoRequest \notin UNION {Requests(s.bundle) : s \in Scenes}
    /\ \A s \in Scenes : \A r \in Requests(s.bundle) : r.lens \in LensNames
    /\ \A s \in Scenes : BundleFields \subseteq DOMAIN s.bundle \intersect DOMAIN s.older
    /\ MaxRequests \in Nat /\ MaxFailures \in Nat

VARIABLES
    scene,      \* the scene
    db,         \* the rows of the dataset that HydraDB holds
    loading,    \* parts that the seed under way has still to write
    request,    \* the request that is served, or NoRequest
    rows,       \* what its queries returned, in the order of Queries
    failed,     \* which of them failed
    seen,       \* history: what the database was at each query, see Contents
    answer,     \* the last answer
    asked, failures     \* counters of the bounds

vars == <<scene, db, loading, request, rows, failed, seen, answer, asked, failures>>

served == scene.bundle

-----------------------------------------------------------------------------
(* The database.                                                           *)

\* HydraLoader writes nodes by label, then edges by type, in this order.
Parts == <<"artifacts", "modules", "people", "phantoms", "authored", "calls",
           "depends", "owns", "preceded", "replies">>

Empty(b) ==
    [b EXCEPT !.artifacts = {}, !.modules = {}, !.people = {}, !.strangers = {},
              !.phantoms = {}, !.authored = {}, !.calls = {}, !.depends = {}, !.owns = {},
              !.preceded = {}, !.replies = {}]

\* Rows are merged by id: what an edge or a phantom is known by.
Identity(part, x) ==
    CASE part = "calls" -> <<x.from, x.to>>
      [] part = "depends" -> <<x.source, x.target>>
      [] part = "owns" -> x.key
      [] part = "phantoms" -> <<x.key>>
      [] part = "authored" -> <<x.person, x.artifact>>
      [] part \in {"preceded", "replies"} -> <<x.from, x.to>>
      [] OTHER -> <<x>>

OneRowEach(d) ==
    \A i \in DOMAIN Parts : \A x, y \in d[Parts[i]] :
        Identity(Parts[i], x) = Identity(Parts[i], y) => x = y

\* The validator of CanonicalBundle refuses two rows of one key.
ASSUME BundleAssumption ==
    \A s \in Scenes : \A b \in {s.bundle, s.older} :
        OneRowEach(b) /\ b.people \intersect b.strangers = {}

\* Ownership is about modules of the bundle and sorted by numbers; keys that
\* tell edges apart have one length.
ASSUME OwnsAssumption ==
    /\ RowLimit \in Nat
    /\ \A s \in Scenes :
          /\ IsFiniteSet(s.bundle.owns) /\ s.bundle.modules \subseteq Nat
          /\ \A e, f \in s.bundle.owns :
                /\ e.module \in s.bundle.modules /\ e.active \in BOOLEAN
                /\ {e.id, e.authority, e.epoch, e.confidence} \subseteq Int
                /\ e.key \in Seq(Int) /\ Len(e.key) = Len(f.key)

\* What is sorted by numbers is finite.
ASSUME SortAssumption ==
    \A s \in Scenes :
        /\ IsFiniteSet(s.bundle.people) /\ s.bundle.people \subseteq Int
        /\ IsFiniteSet(s.bundle.phantoms) /\ \A p \in s.bundle.phantoms : p.key \in Int
        /\ s.bundle.strangers \subseteq Int
        /\ \A d \in s.bundle.depends : d.id \in Int
        /\ \A part \in {"authored", "calls", "depends", "preceded", "replies"} :
              IsFiniteSet(s.bundle[part])

\* The validator refuses an edge without its ends, which for calls and ownership
\* are people, and only an artifact replies.
ASSUME EndsAssumption ==
    \A s \in Scenes :
        /\ \A e \in s.bundle.preceded :
              {e.from, e.to} \subseteq s.bundle.artifacts \union {p.key : p \in s.bundle.phantoms}
        /\ \A e \in s.bundle.replies : e.from \in s.bundle.artifacts
        /\ \A c \in s.bundle.calls :
              {c.from, c.to} \subseteq s.bundle.people \union s.bundle.strangers
        /\ \A e \in s.bundle.owns : e.owner \in s.bundle.people \union s.bundle.strangers

\* Mutant of Upsert: rows are created, whatever is there.
Upsert_Create(part, old, new) == old \union new

Upsert(part, old, new) ==
    {x \in old : \A y \in new : Identity(part, x) # Identity(part, y)} \union new

\* A label's batch; unresolved people are Person nodes too.
Write(b, d, part) ==
    IF part = "people"
    THEN [d EXCEPT !.people = (@ \ b.strangers) \union b.people,
                   !.strangers = (@ \ b.people) \union b.strangers]
    ELSE [d EXCEPT ![part] = Upsert(part, @, b[part])]

\* graph_loaded: some node or edge of the dataset is counted.
GraphLoaded(d) ==
    d.people \union d.strangers # {} \/ \E i \in DOMAIN Parts : d[Parts[i]] # {}

\* The database holds what is served, and nothing else.
Holds(d, b) ==
    /\ d.people = b.people /\ d.strangers = b.strangers
    /\ \A i \in DOMAIN Parts : d[Parts[i]] = b[Parts[i]]

Init ==
    \E s \in Scenes, start \in {"empty", "served", "older"} :
        /\ start \in s.loads
        /\ scene = s
        /\ db = IF start = "empty" THEN Empty(s.bundle)
                ELSE IF start = "older" THEN s.older ELSE s.bundle
        /\ loading = <<>>
        /\ request = NoRequest
        /\ rows = <<>> /\ failed = {} /\ seen = {}
        /\ answer = NoRequest
        /\ asked = 0 /\ failures = 0

\* For the properties: the whole snapshot, nothing, or something else.
Contents == IF Holds(db, served) THEN "served"
            ELSE IF Holds(db, Empty(served)) THEN "empty" ELSE "other"

\* Bound: what the database becomes after the last answer is of no interest.
Watched == asked < MaxRequests \/ request # NoRequest

\* POST /system/hydra/seed: it may stop anywhere.  Seeding what is there
\* already writes the same rows again.
StartSeed ==
    /\ Watched
    /\ scene.configured /\ loading = <<>>
    /\ ~Holds(db, served)
    /\ loading' = Parts
    /\ UNCHANGED <<scene, db, request, rows, failed, seen, answer, asked, failures>>

SeedNext ==
    /\ Watched
    /\ loading # <<>>
    /\ db' = Write(served, db, Head(loading))
    /\ loading' = Tail(loading)
    /\ UNCHANGED <<scene, request, rows, failed, seen, answer, asked, failures>>

-----------------------------------------------------------------------------
(* A request and its queries.                                              *)

\* The bundle the handler works on.
Windowed == window_bundle(served, request.days)

GapQueries == <<"phantoms", "predecessors", "successors", "replied">>

\* live_gap_chain asks nothing about records the bundle does not have.
ChainAsked ==
    /\ request.lens = "gap_paths"
    /\ {request.source, request.target} \subseteq
           served.artifacts \union {p.key : p \in served.phantoms}

Queries ==
    CASE request.lens = "graph" -> <<"nodes", "edges">>
      [] request.lens = "ghosts" -> <<"paths", "health">>
      [] request.lens = "faultlines" -> <<"distances">>
      [] request.lens = "question" -> <<"health", "context">>
      [] OTHER -> IF ChainAsked THEN <<"chain">> \o GapQueries ELSE GapQueries

\* Failures that the handler gives up on; without the chain it goes on.
Fatal == failed \ (IF ChainAsked THEN {1} ELSE {})

provisional == answer_ontology_question(served, request.intent, request.text)

\* Edges are returned when the database has both of their ends.
LineageRows(pairs) ==
    {x \in pairs : /\ x.phantom \in {p.key : p \in db.phantoms}
                   /\ x.artifact \in db.artifacts}

Outgoing(edges) == {[phantom |-> e.from, artifact |-> e.to] : e \in edges}
Incoming(edges) == {[phantom |-> e.to, artifact |-> e.from] : e \in edges}

\* Mutant of ContextRows: what the module itself depends on.
ContextRows_Forward ==
    LET subject == provisional.subject
        Limited(S) == {x \in S : Cardinality({y \in S : y.id < x.id}) < RowLimit}
    IN  CASE provisional.intent = "owner" -> Limited({e \in db.owns : e.module = subject})
          [] provisional.intent = "dependency_impact" ->
                Limited({d \in db.depends : d.source = subject})
          [] OTHER -> {p \in db.phantoms : p.key = subject}

ContextRows ==
    LET subject == provisional.subject
        Limited(S) == {x \in S : Cardinality({y \in S : y.id < x.id}) < RowLimit}
    IN  CASE provisional.intent = "owner" -> Limited({e \in db.owns : e.module = subject})
          [] provisional.intent = "dependency_impact" ->
                Limited({d \in db.depends : d.target = subject})
          [] OTHER -> {p \in db.phantoms : p.key = subject}

\* What a query may return.
Results(query) ==
    CASE query = "nodes" -> {PersonRows(Windowed, db)}
      [] query = "edges" -> {CallRows(Windowed, db)}
      [] query = "paths" -> ShortestPaths(db, evenly_spaced_people(Windowed.people))
      [] query = "health" -> {IF GraphLoaded(db) THEN {"loaded"} ELSE {}}
      [] query = "distances" ->
            DistanceRows(db, {Min(e) : e \in ResolvedPairs(Windowed)},
                         {Max(e) : e \in ResolvedPairs(Windowed)},
                         Max({1, Cardinality(OwnerPairs(Windowed))}))
      [] query = "phantoms" -> {PhantomRows(served, db)}
      [] query = "predecessors" -> {LineageRows(Outgoing(db.preceded))}
      [] query = "successors" -> {LineageRows(Incoming(db.preceded))}
      [] query = "replied" -> {LineageRows(Incoming(db.replies))}
      [] query = "chain" ->
            {LET chain == Chain(db, request.source, request.target)
             IN  IF chain = <<>> THEN {} ELSE {chain}}
      [] query = "context" -> {ContextRows}

\* No query is sent, or none after these.
Skipped ==
    \/ ~scene.configured
    \/ request.lens = "ghosts" /\ Cardinality(Windowed.people) < 2
    \/ request.lens = "faultlines" /\ ResolvedPairs(Windowed) = {}

Given ==
    \/ Fatal # {}
    \/ /\ request.lens = "question" /\ Len(rows) = 1
       /\ \/ rows[1] = {}
          \/ provisional.subject = NoSubject
          \/ provisional.intent \notin LiveIntents

Complete == Skipped \/ Given \/ Len(rows) = Len(Queries)

Ask ==
    /\ request = NoRequest
    /\ asked < MaxRequests
    /\ asked' = asked + 1
    /\ request' \in Requests(served)
    /\ rows' = <<>> /\ failed' = {} /\ seen' = {}
    /\ UNCHANGED <<scene, db, loading, answer, failures>>

Next1 == Len(rows) + 1

RunQuery ==
    /\ request # NoRequest /\ ~Complete
    /\ \E result \in Results(Queries[Next1]) : rows' = Append(rows, result)
    /\ seen' = seen \union {Contents}
    /\ UNCHANGED <<scene, db, loading, request, failed, answer, asked, failures>>

\* The engine is away; for a health check that means it is offline.
QueryFails ==
    /\ request # NoRequest /\ ~Complete
    /\ failures < MaxFailures
    /\ failures' = failures + 1
    /\ rows' = Append(rows, {})
    /\ failed' = failed \union {Next1}
    /\ seen' = seen \union {Contents}
    /\ UNCHANGED <<scene, db, loading, request, answer, asked>>

-----------------------------------------------------------------------------
(* The answers of the handlers.  source is the label of the envelope;      *)
(* engine tells, for the properties, whether the findings came from rows.  *)

Envelope(source, engine, status, findings) ==
    [source |-> source, engine |-> engine, status |-> status, findings |-> findings]

Fixture(status, findings) == Envelope("fixture", FALSE, status, findings)
Live(findings) == Envelope("hydradb", TRUE, "complete", findings)

Returned(n) == scene.configured /\ Len(rows) >= n /\ failed = {}

FixtureFindings ==
    CASE request.lens = "graph" -> fixture_graph(Windowed)
      [] request.lens = "ghosts" -> fixture_ghost_findings(Windowed, request.excluded)
      [] request.lens = "faultlines" -> fixture_faultlines(Windowed)
      [] request.lens = "gaps" -> fixture_gap_findings(served)
      [] request.lens = "gap_paths" ->
            Between(fixture_gap_findings(served), request.source, request.target)
      [] request.lens = "question" -> provisional

graph ==
    IF Returned(2) /\ rows[1] # {} THEN Live([nodes |-> rows[1], edges |-> rows[2]])
    ELSE Fixture("complete", FixtureFindings)

\* Mutant of ghosts: an answer of an empty engine is an answer.
ghosts_NoHealth ==
    IF Returned(2)
    THEN Live(findings_from_graph(Windowed, rows[1], request.excluded))
    ELSE Fixture(IF 1 \in failed THEN "partial" ELSE "complete", FixtureFindings)

\* Empty Hydra must not mask the fixture's Ghosts.
ghosts ==
    IF Returned(2) /\ rows[2] # {}
    THEN Live(findings_from_graph(Windowed, rows[1], request.excluded))
    ELSE Fixture(IF 1 \in failed THEN "partial" ELSE "complete", FixtureFindings)

\* Mutant of faultline_results: a failed query leaves every pair without a path.
faultline_results_NoPaths ==
    IF Len(rows) = 1 THEN Live(with_live_distances(Windowed, rows[1]))
    ELSE Fixture("complete", FixtureFindings)

\* Without a resolved pair, or without an answer, the findings stay those of
\* the bundle and the envelope says hydradb, partial.
faultline_results ==
    IF ~scene.configured \/ OwnerPairs(Windowed) = {} THEN Fixture("complete", FixtureFindings)
    ELSE IF Returned(1) THEN Live(with_live_distances(Windowed, rows[1]))
    ELSE Envelope("hydradb", FALSE, "partial", FixtureFindings)

\* None when a query failed, or when the engine has none of the phantoms.
LiveGaps ==
    LET n == Len(Queries) - Len(GapQueries)
    IN  IF ~scene.configured \/ Fatal # {} THEN [none |-> TRUE, gaps |-> {}]
        ELSE LET found == gap_rows(rows[n + 1], rows[n + 2], rows[n + 3], rows[n + 4])
             IN  [none |-> found = {} /\ served.phantoms # {}, gaps |-> found]

gaps == IF LiveGaps.none THEN Fixture("complete", FixtureFindings) ELSE Live(LiveGaps.gaps)

\* The chain decides the status, and either of the two the label.  The chain
\* that is shown with a finding is left out.
gap_paths ==
    LET findings == IF LiveGaps.none THEN FixtureFindings
                    ELSE Between(LiveGaps.gaps, request.source, request.target)
    IN  Envelope(IF scene.configured /\ (ChainAsked \/ ~LiveGaps.none)
                 THEN "hydradb" ELSE "fixture",
                 ~LiveGaps.none,
                 IF ChainAsked /\ 1 \in failed THEN "partial" ELSE "complete", findings)

\* An answer of the engine replaces the provisional one, unless it raises;
\* the status is the verdict.
answer_question ==
    LET live == answer_from_hydra_rows(served, provisional.intent, provisional.subject, rows[2])
    IN  IF Returned(2) /\ ~UnknownName(served, provisional.intent, rows[2])
        THEN Envelope("hydradb", TRUE, decide_question_verdict(live), live)
        ELSE Fixture(decide_question_verdict(provisional), provisional)

Respond ==
    /\ request # NoRequest /\ Complete
    /\ answer' = [asked    |-> request,
                  failed   |-> failed,
                  seen     |-> seen,
                  fixture  |-> FixtureFindings,
                  envelope |-> CASE request.lens = "graph" -> graph
                                 [] request.lens = "ghosts" -> ghosts
                                 [] request.lens = "faultlines" -> faultline_results
                                 [] request.lens = "gaps" -> gaps
                                 [] request.lens = "gap_paths" -> gap_paths
                                 [] request.lens = "question" -> answer_question]
    /\ request' = NoRequest
    /\ rows' = <<>> /\ failed' = {} /\ seen' = {}
    /\ UNCHANGED <<scene, db, loading, asked, failures>>

Next == StartSeed \/ SeedNext \/ Ask \/ RunQuery \/ QueryFails \/ Respond

Spec == Init /\ [][Next]_vars

-----------------------------------------------------------------------------
(* Properties.                                                             *)

AllPeople == UNION {b.people \union b.strangers : b \in {scene.bundle, scene.older}}

\* The database has one row for each identity, whatever snapshots it was
\* loaded from and wherever the load is (Upsert, the MERGE of cypher.py), no
\* one is resolved and unresolved in it, and rows are there only for queries
\* that were sent.
TypeOK ==
    /\ db.people \intersect db.strangers = {}
    /\ db.people \union db.strangers \subseteq AllPeople
    /\ OneRowEach(db)
    /\ request = NoRequest => rows = <<>> /\ failed = {} /\ seen = {}
    /\ request # NoRequest =>
            Len(rows) <= Len(Queries) /\ failed \subseteq DOMAIN rows
    /\ asked \in 0..MaxRequests /\ failures \in 0..MaxFailures

Answered == answer # NoRequest

Quiet == answer.seen \subseteq {"served"}

\* What the two rankings both know: the people somebody talks to.
Ranking(ghost) ==
    LET f == SelectSeq(ghost.findings, LAMBDA x : x.degree > 0)
    IN  <<[i \in DOMAIN f |-> <<f[i].person, f[i].centrality, f[i].degree, f[i].impact>>],
          ghost.lost>>

Dependents(a) == {path[2] : path \in a.paths}

\* The distances asked for fit in the result limit of the query.
DistancesFit ==
    LET pairs == ResolvedPairs(served)
    IN  Cardinality(DistancePaths(served, {Min(e) : e \in pairs}, {Max(e) : e \in pairs}))
            <= Max({1, Cardinality(OwnerPairs(served))})

\* What the served snapshot has on the subject of a question.
RowsAbout(question) ==
    CASE question.intent = "owner" -> {e \in served.owns : e.module = question.subject}
      [] question.intent = "dependency_impact" ->
            {d \in served.depends : d.target = question.subject}
      [] OTHER -> {}

SameAnswer(live, fixture) ==
    CASE answer.asked.lens = "ghosts" -> Ranking(live) = Ranking(fixture)
      [] answer.asked.lens = "question" ->
            /\ live.subject = fixture.subject /\ live.status = fixture.status
            /\ live.intent = "owner" =>
                    live.people = fixture.people /\ live.confidence = fixture.confidence
            /\ live.intent = "dependency_impact" => Dependents(live) = Dependents(fixture)
            /\ live.intent = "approval" => live.paths = fixture.paths
      [] OTHER -> live = fixture

\* Where the live program promises the fixture's answer: no window, which the
\* database does not know; everybody resolved; nobody left out of the sample,
\* and no more people than findings that show an impact (whoever talks to no one
\* takes such a place in the fixture only); no row beyond a limit; epochs in the
\* rows of phantoms, of which none comes right after another (the queries ask for
\* the artifacts next to them).
Comparable ==
    CASE answer.asked.lens = "graph" -> answer.asked.days = 0 /\ served.strangers = {}
      [] answer.asked.lens = "ghosts" ->
            /\ answer.asked.days = 0 /\ served.strangers = {}
            /\ Cardinality(served.people) <= Min({SampleSize, 10})
      [] answer.asked.lens = "faultlines" ->
            answer.asked.days = 0 /\ served.strangers = {} /\ DistancesFit
      [] answer.asked.lens \in {"gaps", "gap_paths"} ->
            /\ \A p \in served.phantoms : p.epoch # NoEpoch
            /\ \A e \in served.preceded : ~ {e.from, e.to} \subseteq {p.key : p \in served.phantoms}
      [] answer.asked.lens = "question" ->
            /\ Cardinality(RowsAbout(answer.fixture)) <= RowLimit
            /\ answer.asked.intent = "approval" =>
                    answer.fixture.subject \in {p.key : p \in served.phantoms}

\* An answer that the engine gave from a database that held the served
\* snapshot at every query is the answer of the in-memory analytics: the two
\* programs for each lens (live and fixture) compute the same.
LiveAgrees ==
    Answered /\ answer.envelope.engine /\ answer.failed = {} /\ Quiet /\ Comparable =>
        SameAnswer(answer.envelope.findings, answer.fixture)

\* "Empty Hydra ... must not mask fixture" (api.py:193): while the engine is up
\* and has nothing of the dataset, the lenses that check for it answer as if
\* there was no engine.  faultlines does not check.
EmptyEngineIsFixture ==
    /\ Answered /\ scene.configured
    /\ answer.seen \subseteq {"empty"}
    /\ answer.asked.lens # "faultlines"
    => answer.envelope.findings = answer.fixture

\* Findings are the fixture's as soon as a query of the request failed or no
\* engine is configured (hydra.py:291); only gap_paths goes on without its
\* chain.
FailureFallsBack ==
    Answered /\ (~scene.configured \/ answer.failed # {}) =>
        \/ answer.envelope.findings = answer.fixture
        \/ answer.asked.lens = "gap_paths" /\ answer.failed = {1}

\* Who owns a module is the same in the question's answer, fixture or live, as
\* in the faultlines (analysis.py:485, questions.py:591), for a module with an
\* active assertion; and the verdict supports it whoever else claimed it.
OwnersAgree ==
    LET m == answer.fixture.subject
        asserted == \E e \in served.owns : e.module = m /\ e.authority > 0 /\ e.active
        owners   == Analysis(served)!Owners(Analysis(served)!Fresh(1), m)
    IN  /\ Answered
        /\ answer.asked.lens = "question" /\ answer.fixture.intent = "owner"
        /\ asserted /\ owners # {}
        /\ answer.envelope.engine =>
                Quiet /\ Cardinality({e \in served.owns : e.module = m}) <= RowLimit
        => answer.envelope.findings.people = owners /\ answer.envelope.status = "SUPPORTED"

\* "It never labels fallback execution as live" (README.md:128): findings that
\* are labelled hydradb were computed from the engine's rows.
FallbackNeverLive == Answered /\ answer.envelope.source = "hydradb" => answer.envelope.engine
=============================================================================

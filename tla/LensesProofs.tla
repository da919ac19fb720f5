---------------------------- MODULE LensesProofs ----------------------------
(***************************************************************************)
(* What holds of the live lenses however queries, failures and a seed      *)
(* interleave: a request with a failed query, without an engine, or with   *)
(* one that holds nothing, answers with the fixture's findings; the        *)
(* database keeps one row for each identity; a question names the owner    *)
(* that the faultlines know; and the answers of every lens but the ghosts  *)
(* are those of the in-memory analytics, where these are promised.         *)
(*                                                                         *)
(* For the empty engine the argument is that its rows are empty, so that   *)
(* a question gives up after the check for health and the gaps return no   *)
(* phantom.  For the owner it is that two sort keys, one of which puts     *)
(* what is active first, have the same least record.  For the faultlines   *)
(* it is that spreading over the people who talk and searching the graph   *)
(* for a shortest path meet everybody at the same step, from either end.   *)
(***************************************************************************)
EXTENDS Lenses, CommunicationProofs, SequenceTheorems, FiniteSetTheorems, WellFoundedInduction, TLAPS

\* The scene is one of those given, and what is asked is a lens.
Served ==
    /\ scene \in Scenes
    /\ request # NoRequest => request.lens \in LensNames

LEMMA ServedStep ==
    ASSUME Served, [Next]_vars
    PROVE  Served'
<1>1. CASE Ask
  BY <1>1, LensAssumption DEF Served, Ask, served
<1>2. CASE ~Ask
  <2>1. scene' = scene /\ (request' = request \/ request' = NoRequest)
    BY <1>2 DEF Next, vars, StartSeed, SeedNext, RunQuery, QueryFails, Respond
  <2> QED
    BY <2>1 DEF Served
<1> QED
  BY <1>1, <1>2

-----------------------------------------------------------------------------
(* A query fails.                                                          *)

LEMMA FallsBack ==
    ASSUME request.lens \in LensNames, Respond, ~scene.configured \/ failed # {}
    PROVE  FailureFallsBack'
<1>1. /\ answer'.asked = request /\ answer'.failed = failed
      /\ answer'.fixture = FixtureFindings
  BY DEF Respond
<1>2. ~Returned(1) /\ ~Returned(2)
  BY DEF Returned
<1>3. CASE request.lens = "graph"
  <2>1. answer'.envelope = graph
    BY <1>3 DEF Respond
  <2> QED
    BY <1>1, <1>2, <2>1 DEF graph, Fixture, Envelope, FailureFallsBack
<1>4. CASE request.lens = "ghosts"
  <2>1. answer'.envelope = ghosts
    BY <1>4 DEF Respond
  <2> QED
    BY <1>1, <1>2, <2>1 DEF ghosts, Fixture, Envelope, FailureFallsBack
<1>5. CASE request.lens = "faultlines"
  <2>1. answer'.envelope = faultline_results
    BY <1>5 DEF Respond
  <2> QED
    BY <1>1, <1>2, <2>1 DEF faultline_results, Fixture, Envelope, FailureFallsBack
<1>6. CASE request.lens = "gaps"
  <2>1. answer'.envelope = gaps
    BY <1>6 DEF Respond
  <2>2. LiveGaps.none
    BY <1>6 DEF LiveGaps, Fatal, ChainAsked
  <2> QED
    BY <1>1, <2>1, <2>2 DEF gaps, Fixture, Envelope, FailureFallsBack
<1>7. CASE request.lens = "gap_paths"
  <2>1. answer'.envelope = gap_paths
    BY <1>7 DEF Respond
  <2>2. LiveGaps.none \/ failed = {1}
    BY DEF LiveGaps, Fatal
  <2>3. LiveGaps.none => gap_paths.findings = FixtureFindings
    BY DEF gap_paths, Envelope
  <2> QED
    BY <1>1, <1>7, <2>1, <2>2, <2>3 DEF FailureFallsBack
<1>8. CASE request.lens = "question"
  <2>1. answer'.envelope = answer_question
    BY <1>8 DEF Respond
  <2>2. FixtureFindings = provisional
    BY <1>8 DEF FixtureFindings
  <2>3. answer_question.findings = provisional
    BY <1>2 DEF answer_question, Fixture, Envelope
  <2> QED
    BY <1>1, <2>1, <2>2, <2>3 DEF FailureFallsBack
<1> QED
  BY <1>3, <1>4, <1>5, <1>6, <1>7, <1>8 DEF LensNames

\* A request one of whose queries failed, or that had no engine to ask, is
\* answered with the fixture's findings, whatever the lenses compute and
\* whatever the database holds; only gap_paths goes on without its chain.
THEOREM FailuresFallBack == Spec => []FailureFallsBack
<1>1. Init => Served /\ FailureFallsBack
  BY DEF Init, Served, FailureFallsBack, Answered
<1>2. Served /\ FailureFallsBack /\ [Next]_vars => Served' /\ FailureFallsBack'
  <2> SUFFICES ASSUME Served, FailureFallsBack, [Next]_vars
               PROVE  Served' /\ FailureFallsBack'
    OBVIOUS
  <2>1. Served'
    BY ServedStep
  <2>2. CASE Respond
    <3>1. request.lens \in LensNames /\ scene' = scene /\ answer'.failed = failed
      BY <2>2 DEF Served, Respond
    <3>2. CASE ~scene.configured \/ failed # {}
      BY <2>1, <2>2, <3>1, <3>2, FallsBack
    <3>3. CASE scene.configured /\ failed = {}
      BY <2>1, <3>1, <3>3 DEF FailureFallsBack
    <3> QED
      BY <3>2, <3>3
  <2>3. CASE ~Respond
    <3>1. UNCHANGED <<scene, answer>>
      BY <2>3 DEF Next, vars, StartSeed, SeedNext, Ask, RunQuery, QueryFails
    <3> QED
      BY <2>1, <3>1 DEF FailureFallsBack, Answered
  <2> QED
    BY <2>2, <2>3
<1> QED
  BY <1>1, <1>2, PTL DEF Spec

-----------------------------------------------------------------------------
(* The engine holds nothing.                                               *)

\* The queries whose rows come from nodes of the dataset.
NodeQueries == {"nodes", "health"} \union Range(GapQueries)

LEMMA EmptyHasNothing ==
    ASSUME Served, Holds(db, Empty(served))
    PROVE  /\ db.people = {} /\ db.strangers = {} /\ db.phantoms = {}
           /\ \A i \in DOMAIN Parts : db[Parts[i]] = {}
<1> DEFINE b == served
           e == Empty(b)
<1>1. BundleFields \subseteq DOMAIN b
  BY LensAssumption DEF Served, served
<1> HIDE DEF b
<1>2. \A x \in BundleFields : e[x] = {}
  BY <1>1 DEF Empty, BundleFields
<1>3. \A i \in DOMAIN Parts : Parts[i] \in BundleFields
  BY DEF Parts, BundleFields
<1>4. /\ db.people = e.people /\ db.strangers = e.strangers
      /\ \A i \in DOMAIN Parts : db[Parts[i]] = e[Parts[i]]
  BY DEF Holds, b
<1>5. db.phantoms = e.phantoms
  BY <1>4 DEF Parts
<1> HIDE DEF e
<1> QED
  BY <1>2, <1>3, <1>4, <1>5 DEF BundleFields

LEMMA EmptyRows ==
    ASSUME Served, Contents = "empty", NEW query \in NodeQueries,
           NEW result \in Results(query)
    PROVE  result = {}
<1>1. Holds(db, Empty(served))
  BY DEF Contents
<1>2. /\ db.people = {} /\ db.strangers = {} /\ db.phantoms = {}
      /\ \A i \in DOMAIN Parts : db[Parts[i]] = {}
  BY <1>1, EmptyHasNothing
<1>3. \A pairs : LineageRows(pairs) = {}
  BY <1>2 DEF LineageRows
<1>4. CASE query = "nodes"
  BY <1>2, <1>4 DEF Results, PersonRows
<1>5. CASE query = "health"
  BY <1>2, <1>5 DEF Results, GraphLoaded
<1>6. CASE query = "phantoms"
  BY <1>2, <1>6 DEF Results, PhantomRows
<1>7. CASE query = "predecessors"
  BY <1>3, <1>7 DEF Results
<1>8. CASE query = "successors"
  BY <1>3, <1>8 DEF Results
<1>9. CASE query = "replied"
  BY <1>3, <1>9 DEF Results
<1> QED
  BY <1>4, <1>5, <1>6, <1>7, <1>8, <1>9 DEF NodeQueries, GapQueries, Range

\* While the engine was empty at every query, what it returned of nodes is
\* empty; and a question does not ask on when health has found nothing.
NoRows ==
    /\ \E S : rows \in Seq(S)
    /\ request # NoRequest =>
          /\ seen \subseteq {"empty"} =>
                \A i \in 1..Len(rows) : Queries[i] \in NodeQueries => rows[i] = {}
          /\ request.lens = "question" /\ Len(rows) > 1 => rows[1] # {}

LEMMA OneMore == \A k \in Nat : k + 1 > 1 => k = 1 \/ k > 1
OBVIOUS

LEMMA Appended ==
    ASSUME NEW S, NEW s \in Seq(S), NEW x
    PROVE  /\ Append(s, x) \in Seq(S \union {x})
           /\ Len(Append(s, x)) = Len(s) + 1 /\ Len(s) \in Nat
           /\ \A i \in 1..Len(s) : Append(s, x)[i] = s[i]
           /\ Append(s, x)[Len(s) + 1] = x
<1>1. s \in Seq(S \union {x})
  OBVIOUS
<1>2. Append(s, x) \in Seq(S \union {x})
  BY <1>1
<1>3. Len(Append(s, x)) = Len(s) + 1 /\ Len(s) \in Nat
  OBVIOUS
<1>4. \A i \in 1..Len(s) : Append(s, x)[i] = s[i]
  OBVIOUS
<1>5. Append(s, x)[Len(s) + 1] = x
  OBVIOUS
<1> QED
  BY <1>2, <1>3, <1>4, <1>5, Zenon

LEMMA Prefixed ==
    ASSUME NEW S, NEW f \in Seq(S), NEW g \in Seq(S), Len(f) = 1, Len(g) = 4
    PROVE  Len(f \o g) = 5 /\ (f \o g)[2] = g[1]
<1>1. Len(f \o g) = Len(f) + Len(g)
  BY ConcatProperties
<1>2. Len(f \o g) = 5
  BY <1>1
<1>3. 2 \in 1..(Len(f) + Len(g)) /\ ~(2 <= 1) /\ 2 - 1 = 1
  OBVIOUS
<1>4. (f \o g)[2] = IF 2 <= Len(f) THEN f[2] ELSE g[2 - Len(f)]
  BY <1>3, ConcatProperties, Zenon
<1> QED
  BY <1>2, <1>3, <1>4, Zenon

\* One more query is back, with rows or with a failure.
LEMMA QueryBack ==
    ASSUME Served, NoRows, request # NoRequest, ~Complete,
           NEW r, rows' = Append(rows, r), UNCHANGED <<scene, request>>,
           seen' = seen \union {Contents},
           r = {} \/ r \in Results(Queries[Next1])
    PROVE  NoRows'
<1>1. PICK S : rows \in Seq(S)
  BY DEF NoRows
<1>2. /\ rows' \in Seq(S \union {r}) /\ Len(rows') = Len(rows) + 1 /\ Len(rows) \in Nat
      /\ \A i \in 1..Len(rows) : rows'[i] = rows[i]
      /\ rows'[Len(rows) + 1] = r
  BY <1>1, Appended
<1>2a. Len(rows') > 1 => Len(rows) = 1 \/ Len(rows) > 1
  BY <1>2, OneMore, Zenon
<1>3. Queries' = Queries
  BY DEF Queries, ChainAsked, served
<1>4. ASSUME seen' \subseteq {"empty"}, NEW i \in 1..Len(rows'), Queries[i] \in NodeQueries
      PROVE  rows'[i] = {}
  <2>1. seen \subseteq {"empty"} /\ Contents = "empty"
    BY <1>4
  <2>2. CASE i <= Len(rows)
    BY <1>2, <1>4, <2>1, <2>2 DEF NoRows
  <2>3. CASE i = Len(rows) + 1
    <3>1. r = {}
      BY <1>4, <2>1, <2>3, EmptyRows DEF Next1
    <3> QED
      BY <1>2, <2>3, <3>1
  <2> QED
    BY <1>2, <2>2, <2>3
<1>5. ASSUME request.lens = "question", Len(rows') > 1
      PROVE  rows'[1] # {}
  <2>1. CASE Len(rows) = 1
    BY <1>2, <1>5, <2>1 DEF Complete, Given
  <2>2. CASE Len(rows) > 1
    BY <1>2, <1>5, <2>2 DEF NoRows
  <2> QED
    BY <1>2a, <1>5, <2>1, <2>2
<1> QED
  BY <1>2, <1>3, <1>4, <1>5 DEF NoRows

LEMMA NoRowsStep ==
    ASSUME Served, NoRows, [Next]_vars
    PROVE  NoRows'
<1>1. CASE StartSeed \/ SeedNext \/ UNCHANGED vars
  <2>1. UNCHANGED <<scene, request, rows, seen>>
    BY <1>1 DEF StartSeed, SeedNext, vars
  <2>2. Queries' = Queries
    BY <2>1 DEF Queries, ChainAsked, served
  <2> QED
    BY <2>1, <2>2 DEF NoRows
<1>2. CASE Ask \/ Respond
  <2>1. rows' = <<>>
    BY <1>2 DEF Ask, Respond
  <2>2. rows' \in Seq({}) /\ Len(rows') = 0
    BY <2>1
  <2> QED
    BY <2>2 DEF NoRows
<1>3. CASE RunQuery
  <2>1. PICK r \in Results(Queries[Next1]) : rows' = Append(rows, r)
    BY <1>3 DEF RunQuery
  <2>2. /\ request # NoRequest /\ ~Complete
        /\ UNCHANGED <<scene, request>> /\ seen' = seen \union {Contents}
    BY <1>3 DEF RunQuery
  <2> QED
    BY <2>1, <2>2, QueryBack
<1>4. CASE QueryFails
  BY <1>4, QueryBack DEF QueryFails
<1> QED
  BY <1>1, <1>2, <1>3, <1>4 DEF Next

\* Nothing is found, so it is the fixture's gaps, or there are none in either.
LEMMA NoGaps ==
    ASSUME NoRows, request # NoRequest, request.lens \in {"gaps", "gap_paths"},
           Complete, scene.configured, seen \subseteq {"empty"}, ~LiveGaps.none
    PROVE  LiveGaps.gaps = {} /\ fixture_gap_findings(served) = {}
<1> DEFINE n == Len(Queries) - Len(GapQueries)
<1>1. Fatal = {} /\ Len(rows) = Len(Queries)
  BY DEF LiveGaps, Complete, Skipped, Given
<1>2. n + 1 \in 1..Len(Queries) /\ Queries[n + 1] = "phantoms"
  <2> DEFINE Q == {"chain", "phantoms", "predecessors", "successors", "replied"}
  <2>1. /\ GapQueries \in Seq(Q) /\ Len(GapQueries) = 4 /\ GapQueries[1] = "phantoms"
        /\ <<"chain">> \in Seq(Q) /\ Len(<<"chain">>) = 1
    BY DEF GapQueries
  <2>2. CASE ChainAsked
    <3>1. Queries = <<"chain">> \o GapQueries
      BY <2>2 DEF Queries, ChainAsked
    <3>2. Len(Queries) = 5 /\ Queries[2] = "phantoms"
      BY <2>1, <3>1, Prefixed
    <3>3. n = 5 - 4
      BY <2>1, <3>2, Zenon
    <3>4. n = 1
      BY <3>3
    <3> HIDE DEF n
    <3> QED
      BY <3>2, <3>4
  <2>3. CASE ~ChainAsked
    <3>1. Queries = GapQueries
      BY <2>3 DEF Queries
    <3>2. n = 4 - 4 /\ Len(Queries) = 4 /\ Queries[1] = "phantoms"
      BY <2>1, <3>1, Zenon
    <3>3. n = 0
      BY <3>2
    <3> HIDE DEF n
    <3> QED
      BY <3>2, <3>3
  <2> QED
    BY <2>2, <2>3
<1>3. rows[n + 1] = {}
  <2>1. "phantoms" \in NodeQueries
    BY DEF NodeQueries, GapQueries, Range
  <2> QED
    BY <1>1, <1>2, <2>1 DEF NoRows
<1>4. gap_rows(rows[n + 1], rows[n + 2], rows[n + 3], rows[n + 4]) = {}
  BY <1>3 DEF gap_rows
<1>5. LiveGaps = [none |-> served.phantoms # {}, gaps |-> {}]
  BY <1>1, <1>4 DEF LiveGaps
<1>6. served.phantoms = {}
  BY <1>5
<1> QED
  BY <1>5, <1>6 DEF fixture_gap_findings

LEMMA EmptyAnswers ==
    ASSUME Served, NoRows, Respond
    PROVE  EmptyEngineIsFixture'
<1> SUFFICES ASSUME scene.configured, seen \subseteq {"empty"}, request.lens # "faultlines"
             PROVE  answer'.envelope.findings = FixtureFindings
  BY DEF Respond, EmptyEngineIsFixture
<1>1. request # NoRequest /\ Complete /\ request.lens \in LensNames
  BY DEF Respond, Served
<1>2. \A i \in 1..Len(rows) : Queries[i] \in NodeQueries => rows[i] = {}
  BY <1>1 DEF NoRows
<1>3. Len(rows) \in Nat
  BY DEF NoRows
<1>4. CASE request.lens = "graph"
  <2>1. answer'.envelope = graph
    BY <1>4 DEF Respond
  <2>2. Queries[1] \in NodeQueries
    BY <1>4 DEF Queries, NodeQueries
  <2>3. Returned(2) => rows[1] = {}
    BY <1>2, <1>3, <2>2 DEF Returned
  <2> QED
    BY <2>1, <2>3 DEF graph, Fixture, Envelope
<1>5. CASE request.lens = "ghosts"
  <2>1. answer'.envelope = ghosts
    BY <1>5 DEF Respond
  <2>2. Queries[2] \in NodeQueries
    BY <1>5 DEF Queries, NodeQueries
  <2>3. Returned(2) => rows[2] = {}
    BY <1>2, <1>3, <2>2 DEF Returned
  <2> QED
    BY <2>1, <2>3 DEF ghosts, Fixture, Envelope
<1>6. CASE request.lens = "question"
  <2>1. answer'.envelope = answer_question
    BY <1>6 DEF Respond
  <2>2. Queries[1] \in NodeQueries
    BY <1>6 DEF Queries, NodeQueries
  <2>3. ~Returned(2)
    BY <1>1, <1>2, <1>3, <1>6, <2>2 DEF Returned, NoRows
  <2>4. FixtureFindings = provisional
    BY <1>6 DEF FixtureFindings
  <2>5. answer_question.findings = provisional
    BY <2>3 DEF answer_question, Fixture, Envelope
  <2> QED
    BY <2>1, <2>4, <2>5
<1>7. CASE request.lens = "gaps"
  <2>1. answer'.envelope = gaps
    BY <1>7 DEF Respond
  <2>2. CASE LiveGaps.none
    BY <2>1, <2>2 DEF gaps, Fixture, Envelope
  <2>3. CASE ~LiveGaps.none
    <3>1. LiveGaps.gaps = {} /\ fixture_gap_findings(served) = {}
      BY <1>1, <1>7, <2>3, NoGaps
    <3>2. FixtureFindings = {}
      BY <1>7, <3>1 DEF FixtureFindings
    <3>3. gaps.findings = {}
      BY <2>3, <3>1 DEF gaps, Live, Envelope
    <3> QED
      BY <2>1, <3>2, <3>3
  <2> QED
    BY <2>2, <2>3
<1>8. CASE request.lens = "gap_paths"
  <2>1. answer'.envelope = gap_paths
    BY <1>8 DEF Respond
  <2>2. CASE LiveGaps.none
    BY <2>1, <2>2 DEF gap_paths, Envelope
  <2>3. CASE ~LiveGaps.none
    <3>1. LiveGaps.gaps = {} /\ fixture_gap_findings(served) = {}
      BY <1>1, <1>8, <2>3, NoGaps
    <3>2. FixtureFindings = {}
      BY <1>8, <3>1 DEF FixtureFindings, Between
    <3>3. gap_paths.findings = {}
      BY <2>3, <3>1 DEF gap_paths, Between, Envelope
    <3> QED
      BY <2>1, <3>2, <3>3
  <2> QED
    BY <2>2, <2>3
<1> QED
  BY <1>1, <1>4, <1>5, <1>6, <1>7, <1>8 DEF LensNames

\* While the engine is up and holds nothing of the dataset, every lens but the
\* faultlines answers with the fixture's findings, for any bundles, requests
\* and limits (api.py:193).
THEOREM EmptyEngineFallsBack == Spec => []EmptyEngineIsFixture
<1>1. Init => Served /\ NoRows /\ EmptyEngineIsFixture
  <2> SUFFICES ASSUME Init PROVE Served /\ NoRows /\ EmptyEngineIsFixture
    OBVIOUS
  <2>1. rows = <<>> /\ rows \in Seq({}) /\ request = NoRequest /\ scene \in Scenes
    BY DEF Init
  <2> QED
    BY <2>1 DEF Init, Served, NoRows, EmptyEngineIsFixture, Answered
<1>2. Served /\ NoRows /\ EmptyEngineIsFixture /\ [Next]_vars
      => Served' /\ NoRows' /\ EmptyEngineIsFixture'
  <2> SUFFICES ASSUME Served, NoRows, EmptyEngineIsFixture, [Next]_vars
               PROVE  Served' /\ NoRows' /\ EmptyEngineIsFixture'
    OBVIOUS
  <2>1. Served' /\ NoRows'
    BY ServedStep, NoRowsStep
  <2>2. CASE Respond
    BY <2>1, <2>2, EmptyAnswers
  <2>3. CASE ~Respond
    <3>1. UNCHANGED <<scene, answer>>
      BY <2>3 DEF Next, vars, StartSeed, SeedNext, Ask, RunQuery, QueryFails
    <3> QED
      BY <2>1, <3>1 DEF EmptyEngineIsFixture, Answered
  <2> QED
    BY <2>2, <2>3
<1> QED
  BY <1>1, <1>2, PTL DEF Spec

-----------------------------------------------------------------------------
(* One row for each identity.                                              *)

PartNames == {"artifacts", "modules", "people", "phantoms", "authored", "calls",
              "depends", "owns", "preceded", "replies"}

\* The parts a seed has still to write are parts of the database.
DbInv ==
    /\ BundleFields \subseteq DOMAIN db
    /\ loading \in Seq(PartNames)
    /\ db.people \intersect db.strangers = {}
    /\ db.people \union db.strangers \subseteq AllPeople
    /\ OneRowEach(db)

LEMMA PartsAreNamed ==
    /\ Parts \in Seq(PartNames) /\ Range(Parts) = PartNames
    /\ \A part \in PartNames : part \in BundleFields
    /\ \A d : OneRowEach(d) <=> \A part \in PartNames : \A x, y \in d[part] :
                                   Identity(part, x) = Identity(part, y) => x = y
<1>1. Parts \in Seq(PartNames) /\ Len(Parts) = 10
  BY DEF Parts, PartNames
<1>2. /\ \A i \in DOMAIN Parts : Parts[i] \in PartNames
      /\ \A part \in PartNames : \E i \in DOMAIN Parts : Parts[i] = part
  <2>1. DOMAIN Parts = 1..10
    BY DEF Parts
  <2>2. /\ Parts[1] = "artifacts" /\ Parts[2] = "modules" /\ Parts[3] = "people"
        /\ Parts[4] = "phantoms" /\ Parts[5] = "authored" /\ Parts[6] = "calls"
        /\ Parts[7] = "depends" /\ Parts[8] = "owns" /\ Parts[9] = "preceded"
        /\ Parts[10] = "replies"
    BY DEF Parts
  <2> QED
    BY <1>1, <2>1, <2>2 DEF PartNames
<1>3. Range(Parts) = PartNames
  BY <1>2 DEF Range
<1>4. \A part \in PartNames : part \in BundleFields
  BY DEF PartNames, BundleFields
<1> QED
  BY <1>1, <1>2, <1>3, <1>4 DEF OneRowEach

\* Writing rows of which each has an identity of its own leaves one of each.
LEMMA UpsertKeeps ==
    ASSUME NEW part, NEW old, NEW new,
           \A x, y \in old : Identity(part, x) = Identity(part, y) => x = y,
           \A x, y \in new : Identity(part, x) = Identity(part, y) => x = y
    PROVE  \A x, y \in Upsert(part, old, new) : Identity(part, x) = Identity(part, y) => x = y
<1> DEFINE id(x) == Identity(part, x)
<1>1. \A x \in Upsert(part, old, new) :
        x \in new \/ (x \in old /\ \A y \in new : id(x) # id(y))
  BY DEF Upsert
<1> HIDE DEF id
<1>2. /\ \A x, y \in old : id(x) = id(y) => x = y
      /\ \A x, y \in new : id(x) = id(y) => x = y
  BY DEF id
<1>3. \A x, y \in Upsert(part, old, new) : id(x) = id(y) => x = y
  BY <1>1, <1>2
<1> QED
  BY <1>3 DEF id

LEMMA SeedKeeps ==
    ASSUME Served, DbInv, SeedNext
    PROVE  DbInv'
<1> DEFINE part == Head(loading)
           b == served
<1>1. /\ db' = Write(b, db, part) /\ loading' = Tail(loading) /\ loading # <<>>
      /\ scene' = scene
  BY DEF SeedNext
<1>2. part \in PartNames /\ loading' \in Seq(PartNames)
  BY <1>1 DEF DbInv
<1>3. /\ BundleFields \subseteq DOMAIN b /\ OneRowEach(b)
      /\ b.people \intersect b.strangers = {}
  BY LensAssumption, BundleAssumption DEF Served, served
<1>4. BundleFields \subseteq DOMAIN db /\ OneRowEach(db)
  BY DEF DbInv
<1>5. b.people \union b.strangers \subseteq AllPeople /\ AllPeople' = AllPeople
  BY <1>1 DEF AllPeople, served
<1> HIDE DEF part, b
<1>6. CASE part = "people"
  <2>1. /\ DOMAIN db' = DOMAIN db
        /\ db'.people = (db.people \ b.strangers) \union b.people
        /\ db'.strangers = (db.strangers \ b.people) \union b.strangers
        /\ \A x \in DOMAIN db \ {"people", "strangers"} : db'[x] = db[x]
    BY <1>1, <1>4, <1>6 DEF Write, BundleFields
  <2>2. \A x, y : Identity("people", x) = Identity("people", y) => x = y
    BY DEF Identity
  <2>3. OneRowEach(db')
    BY <1>4, <2>1, <2>2, PartsAreNamed DEF PartNames
  <2>4. db'.people \intersect db'.strangers = {}
    BY <1>3, <2>1 DEF DbInv
  <2>5. db'.people \union db'.strangers \subseteq AllPeople
    BY <1>5, <2>1 DEF DbInv
  <2> QED
    BY <1>2, <1>4, <1>5, <2>1, <2>3, <2>4, <2>5 DEF DbInv, OneRowEach
<1>7. CASE part # "people"
  <2> DEFINE merged == Upsert(part, db[part], b[part])
  <2>1. db' = [db EXCEPT ![part] = merged]
    BY <1>1, <1>7 DEF Write
  <2>2. part \in DOMAIN db /\ part # "strangers"
    BY <1>2, <1>4, PartsAreNamed DEF PartNames
  <2>3. \A x, y \in merged : Identity(part, x) = Identity(part, y) => x = y
    BY <1>2, <1>3, <1>4, PartsAreNamed, UpsertKeeps
  <2> HIDE DEF merged
  <2>4. /\ DOMAIN db' = DOMAIN db /\ db'[part] = merged
        /\ \A x \in DOMAIN db \ {part} : db'[x] = db[x]
    BY <2>1, <2>2
  <2>5. db'.people = db.people /\ db'.strangers = db.strangers
    BY <1>4, <1>7, <2>2, <2>4 DEF BundleFields
  <2>6. OneRowEach(db')
    BY <1>4, <2>3, <2>4, PartsAreNamed
  <2> QED
    BY <1>2, <1>4, <1>5, <2>4, <2>5, <2>6 DEF DbInv, OneRowEach
<1> QED
  BY <1>6, <1>7

LEMMA DbStart == Init => DbInv
<1> SUFFICES ASSUME Init PROVE DbInv
  OBVIOUS
<1>1. PICK s \in Scenes, start \in {"empty", "served", "older"} :
        /\ scene = s
        /\ db = IF start = "empty" THEN Empty(s.bundle)
                ELSE IF start = "older" THEN s.older ELSE s.bundle
        /\ loading = <<>>
  BY DEF Init
<1>2. /\ BundleFields \subseteq DOMAIN s.bundle /\ BundleFields \subseteq DOMAIN s.older
      /\ OneRowEach(s.bundle) /\ OneRowEach(s.older)
      /\ s.bundle.people \intersect s.bundle.strangers = {}
      /\ s.older.people \intersect s.older.strangers = {}
  BY LensAssumption, BundleAssumption
<1>3. loading \in Seq(PartNames)
  BY <1>1
<1>4. CASE start = "empty"
  <2> DEFINE b == s.bundle
             e == Empty(b)
  <2>1. BundleFields \subseteq DOMAIN b
    BY <1>2
  <2> HIDE DEF b
  <2>2. DOMAIN e = DOMAIN b /\ \A x \in BundleFields : e[x] = {}
    BY <2>1 DEF Empty, BundleFields
  <2>3. db = e
    BY <1>1, <1>4 DEF b
  <2> HIDE DEF e
  <2>4. OneRowEach(db) /\ db.people = {} /\ db.strangers = {}
    BY <2>2, <2>3, PartsAreNamed DEF BundleFields
  <2> QED
    BY <1>3, <2>1, <2>2, <2>3, <2>4 DEF DbInv
<1>5. CASE start = "older"
  <2>1. db = s.older
    BY <1>1, <1>5
  <2>2. db.people \union db.strangers \subseteq AllPeople
    BY <1>1, <2>1 DEF AllPeople
  <2> QED
    BY <1>2, <1>3, <2>1, <2>2 DEF DbInv
<1>6. CASE start = "served"
  <2>1. db = s.bundle
    BY <1>1, <1>6
  <2>2. db.people \union db.strangers \subseteq AllPeople
    BY <1>1, <2>1 DEF AllPeople
  <2> QED
    BY <1>2, <1>3, <2>1, <2>2 DEF DbInv
<1> QED
  BY <1>4, <1>5, <1>6

\* Rows are there only for queries that were sent.
RowsInv ==
    /\ \E S : rows \in Seq(S)
    /\ request = NoRequest => rows = <<>> /\ failed = {} /\ seen = {}
    /\ request # NoRequest => Len(rows) <= Len(Queries) /\ failed \subseteq 1..Len(rows)
    /\ asked \in 0..MaxRequests /\ failures \in 0..MaxFailures

LEMMA QueryCount == Len(Queries) \in Nat
<1> DEFINE Q == {"nodes", "edges", "paths", "health", "distances", "context",
                 "chain", "phantoms", "predecessors", "successors", "replied"}
<1>1. /\ GapQueries \in Seq(Q) /\ <<"chain">> \in Seq(Q)
      /\ <<"nodes", "edges">> \in Seq(Q) /\ <<"paths", "health">> \in Seq(Q)
      /\ <<"distances">> \in Seq(Q) /\ <<"health", "context">> \in Seq(Q)
  BY DEF GapQueries
<1>2. <<"chain">> \o GapQueries \in Seq(Q)
  BY <1>1, ConcatProperties
<1> HIDE DEF Q
<1>3. CASE request.lens \in {"graph", "ghosts", "faultlines", "question"}
  BY <1>1, <1>3 DEF Queries
<1>4. CASE request.lens \notin {"graph", "ghosts", "faultlines", "question"}
  <2>1. Queries = IF ChainAsked THEN <<"chain">> \o GapQueries ELSE GapQueries
    BY <1>4 DEF Queries
  <2> QED
    BY <1>1, <1>2, <2>1
<1> QED
  BY <1>3, <1>4

LEMMA RoomForOne ==
    \A k, n \in Nat : k <= n /\ k # n => k + 1 <= n
OBVIOUS

LEMMA WithinBound ==
    \A k, n \in Nat : \A m \in 0..n : m < n => m + 1 \in 0..n
OBVIOUS

LEMMA OneMoreRow ==
    ASSUME RowsInv, request # NoRequest, ~Complete, NEW r, rows' = Append(rows, r),
           UNCHANGED <<scene, request, asked>>, failed' \subseteq failed \union {Next1},
           failures' \in 0..MaxFailures
    PROVE  RowsInv'
<1>1. PICK S : rows \in Seq(S)
  BY DEF RowsInv
<1>2. rows' \in Seq(S \union {r}) /\ Len(rows') = Len(rows) + 1 /\ Len(rows) \in Nat
  BY <1>1, Appended
<1>3. Queries' = Queries
  BY DEF Queries, ChainAsked, served
<1>4. Len(rows) <= Len(Queries) /\ Len(rows) # Len(Queries)
  BY DEF RowsInv, Complete
<1>5. Len(rows) + 1 <= Len(Queries)
  BY <1>2, <1>4, QueryCount, RoomForOne
<1>6. failed' \subseteq 1..(Len(rows) + 1)
  <2>1. failed \subseteq 1..Len(rows)
    BY DEF RowsInv
  <2>2. \A k \in Nat : 1..k \subseteq 1..(k + 1) /\ k + 1 \in 1..(k + 1)
    OBVIOUS
  <2> QED
    BY <1>2, <2>1, <2>2 DEF Next1
<1>7. Len(rows') <= Len(Queries') /\ failed' \subseteq 1..Len(rows')
  BY <1>2, <1>3, <1>5, <1>6, Zenon
<1> QED
  BY <1>2, <1>7 DEF RowsInv

LEMMA RowsStep ==
    ASSUME Served, RowsInv, [Next]_vars
    PROVE  RowsInv'
<1>1. CASE StartSeed \/ SeedNext \/ UNCHANGED vars
  <2>1. UNCHANGED <<scene, request, rows, failed, seen, asked, failures>>
    BY <1>1 DEF StartSeed, SeedNext, vars
  <2>2. Queries' = Queries
    BY <2>1 DEF Queries, ChainAsked, served
  <2> QED
    BY <2>1, <2>2 DEF RowsInv
<1>2. CASE Ask \/ Respond
  <2>1. /\ rows' = <<>> /\ failed' = {} /\ seen' = {}
        /\ failures' = failures
    BY <1>2 DEF Ask, Respond
  <2>2. rows' \in Seq({}) /\ Len(rows') = 0
    BY <2>1
  <2>3. Len(rows') <= Len(Queries')
    <3>1. \A n \in Nat : 0 <= n
      OBVIOUS
    <3>2. Len(Queries') \in Nat
      <4>1. (Len(Queries) \in Nat)'
        BY QueryCount, PTL
      <4> QED
        BY <4>1
    <3> QED
      BY <2>2, <3>1, <3>2
  <2>4. asked' \in 0..MaxRequests
    BY <1>2, LensAssumption, WithinBound DEF RowsInv, Ask, Respond
  <2> QED
    BY <2>1, <2>2, <2>3, <2>4 DEF RowsInv
<1>3. CASE RunQuery
  <2>1. PICK r \in Results(Queries[Next1]) : rows' = Append(rows, r)
    BY <1>3 DEF RunQuery
  <2>2. /\ request # NoRequest /\ ~Complete
        /\ UNCHANGED <<scene, request, asked, failed, failures>>
    BY <1>3 DEF RunQuery
  <2>3. failures' \in 0..MaxFailures
    BY <2>2 DEF RowsInv
  <2> QED
    BY <2>1, <2>2, <2>3, OneMoreRow
<1>4. CASE QueryFails
  <2>1. /\ request # NoRequest /\ ~Complete /\ rows' = Append(rows, {})
        /\ UNCHANGED <<scene, request, asked>> /\ failed' = failed \union {Next1}
        /\ failures < MaxFailures /\ failures' = failures + 1
    BY <1>4 DEF QueryFails
  <2>2. failures' \in 0..MaxFailures
    BY <2>1, LensAssumption, WithinBound DEF RowsInv
  <2> QED
    BY <2>1, <2>2, OneMoreRow
<1> QED
  BY <1>1, <1>2, <1>3, <1>4 DEF Next

LEMMA DbStep ==
    ASSUME Served, DbInv, [Next]_vars
    PROVE  DbInv'
<1>1. CASE SeedNext
  BY <1>1, SeedKeeps
<1>2. CASE ~SeedNext
  <2>1. UNCHANGED <<scene, db>> /\ (loading' = loading \/ loading' = Parts)
    BY <1>2 DEF Next, vars, StartSeed, Ask, RunQuery, QueryFails, Respond
  <2>2. loading' \in Seq(PartNames)
    BY <2>1, PartsAreNamed DEF DbInv
  <2> QED
    BY <2>1, <2>2 DEF DbInv, AllPeople, OneRowEach
<1> QED
  BY <1>1, <1>2

\* The database has one row for each identity and nobody twice, whatever
\* snapshots were written into it and wherever a seed is, and rows are there
\* for queries that were sent; for any bundles, requests and limits.
THEOREM TypeCorrect == Spec => []TypeOK
<1>1. Init => Served /\ RowsInv
  <2> SUFFICES ASSUME Init PROVE Served /\ RowsInv
    OBVIOUS
  <2>1. /\ rows = <<>> /\ rows \in Seq({}) /\ request = NoRequest /\ scene \in Scenes
        /\ failed = {} /\ seen = {} /\ asked = 0 /\ failures = 0
    BY DEF Init
  <2> QED
    BY <2>1, LensAssumption DEF Served, RowsInv
<1>2. DbInv /\ RowsInv => TypeOK
  <2> SUFFICES ASSUME DbInv, RowsInv PROVE TypeOK
    OBVIOUS
  <2>1. DOMAIN rows = 1..Len(rows)
    BY DEF RowsInv
  <2> QED
    BY <2>1 DEF DbInv, RowsInv, TypeOK
<1>3. Served /\ DbInv /\ RowsInv /\ [Next]_vars => Served' /\ DbInv' /\ RowsInv'
  BY ServedStep, DbStep, RowsStep
<1> QED
  BY <1>1, <1>2, <1>3, DbStart, PTL DEF Spec

-----------------------------------------------------------------------------
(* The order of the ownership records.                                     *)

\* A finite set has a least element, whatever strict order it is given.
LEMMA FiniteHasLeast ==
    ASSUME NEW S, IsFiniteSet(S), S # {}, NEW R,
           \A x \in S : <<x, x>> \notin R,
           \A x, y, z \in S : <<x, y>> \in R /\ <<y, z>> \in R => <<x, z>> \in R
    PROVE  \E x \in S : \A y \in S : <<y, x>> \notin R
<1> DEFINE Down(x) == {z \in S : <<z, x>> \in R}
           T == {Down(x) : x \in S}
<1>1. ASSUME NEW x \in S
      PROVE  Down(x) \in FiniteSubsetsOf(S)
  <2>1. Down(x) \in SUBSET S
    OBVIOUS
  <2> QED
    BY <2>1, FS_Subset DEF FiniteSubsetsOf
<1>2. \A x, y \in S : <<y, x>> \in R =>
          Down(y) \subseteq Down(x) /\ y \in Down(x) /\ y \notin Down(y)
  OBVIOUS
<1> HIDE DEF Down
<1>3. T \subseteq FiniteSubsetsOf(S) /\ T # {}
  BY <1>1
<1>4. PICK d \in T : \A c \in T : <<c, d>> \notin StrictSubsetOrdering(S)
  BY <1>3, FS_StrictSubsetOrderingWellFounded, WFMin
<1>5. PICK x \in S : d = Down(x)
  BY <1>4
<1>6. ASSUME NEW y \in S, <<y, x>> \in R
      PROVE  FALSE
  <2>1. Down(y) \subseteq Down(x) /\ Down(y) # Down(x)
    BY <1>2, <1>6
  <2>2. Down(y) \in T /\ Down(y) \in SUBSET S /\ Down(x) \in SUBSET S
    BY <1>1 DEF FiniteSubsetsOf
  <2>3. <<Down(y), Down(x)>> \in StrictSubsetOrdering(S)
    BY <2>1, <2>2 DEF StrictSubsetOrdering
  <2> QED
    BY <1>4, <1>5, <2>2, <2>3
<1> QED
  BY <1>6

LEMMA FirstDifference ==
    ASSUME NEW n \in Nat, NEW x \in [1..n -> Int], NEW y \in [1..n -> Int], x # y
    PROVE  \E i \in 1..n : x[i] # y[i] /\ \A j \in 1..(i - 1) : x[j] = y[j]
<1> DEFINE T == {i \in 1..n : x[i] # y[i]}
<1>1. T \subseteq Nat /\ T # {}
  OBVIOUS
<1>2. PICK i \in T : \A j \in T : <<j, i>> \notin OpToRel(<, Nat)
  BY <1>1, NatLessThanWellFounded, WFMin
<1>3. \A j \in T : ~(j < i)
  BY <1>1, <1>2 DEF OpToRel
<1>4. \A j \in 1..(i - 1) : x[j] = y[j]
  BY <1>3
<1> QED
  BY <1>4

LEMMA LexTotal ==
    ASSUME NEW n \in Nat, NEW x \in [1..n -> Int], NEW y \in [1..n -> Int], x # y
    PROVE  LexBefore(x, y) \/ LexBefore(y, x)
<1>1. PICK i \in 1..n : x[i] # y[i] /\ \A j \in 1..(i - 1) : x[j] = y[j]
  BY FirstDifference
<1> QED
  BY <1>1 DEF LexBefore

LEMMA LexStrict ==
    ASSUME NEW n \in Nat, NEW x \in [1..n -> Int]
    PROVE  ~LexBefore(x, x)
BY DEF LexBefore

LEMMA LexTransitive ==
    ASSUME NEW n \in Nat, NEW x \in [1..n -> Int], NEW y \in [1..n -> Int],
           NEW z \in [1..n -> Int], LexBefore(x, y), LexBefore(y, z)
    PROVE  LexBefore(x, z)
<1>1. PICK i \in 1..n : x[i] < y[i] /\ \A k \in 1..(i - 1) : x[k] = y[k]
  BY DEF LexBefore
<1>2. PICK j \in 1..n : y[j] < z[j] /\ \A k \in 1..(j - 1) : y[k] = z[k]
  BY DEF LexBefore
<1>3. \A k \in 1..n : x[k] \in Int /\ y[k] \in Int /\ z[k] \in Int
  OBVIOUS
<1>4. CASE i < j
  <2>1. x[i] < z[i] /\ \A k \in 1..(i - 1) : x[k] = z[k]
    BY <1>1, <1>2, <1>4
  <2> QED
    BY <2>1 DEF LexBefore
<1>5. CASE j < i
  <2>1. x[j] < z[j] /\ \A k \in 1..(j - 1) : x[k] = z[k]
    BY <1>1, <1>2, <1>5
  <2> QED
    BY <2>1 DEF LexBefore
<1>6. CASE i = j
  <2>1. x[i] < z[i] /\ \A k \in 1..(i - 1) : x[k] = z[k]
    BY <1>1, <1>2, <1>3, <1>6
  <2> QED
    BY <2>1 DEF LexBefore
<1> QED
  BY <1>4, <1>5, <1>6

\* A component that is the same in both does not matter.
LEMMA LexShifted ==
    ASSUME NEW n \in Nat, NEW x \in [1..(n + 1) -> Int], NEW y \in [1..(n + 1) -> Int],
           NEW u \in [1..n -> Int], NEW v \in [1..n -> Int], x[1] = y[1],
           \A i \in 1..n : x[i + 1] = u[i] /\ y[i + 1] = v[i]
    PROVE  LexBefore(x, y) <=> LexBefore(u, v)
<1>1. ASSUME LexBefore(x, y)
      PROVE  LexBefore(u, v)
  <2>1. PICK i \in 1..(n + 1) : x[i] < y[i] /\ \A j \in 1..(i - 1) : x[j] = y[j]
    BY <1>1 DEF LexBefore
  <2>2. i # 1
    BY <2>1
  <2> DEFINE k == i - 1
  <2>3. k \in 1..n /\ k + 1 = i
    BY <2>2
  <2>4. u[k] < v[k]
    BY <2>1, <2>3
  <2>5. ASSUME NEW j \in 1..(k - 1)
        PROVE  u[j] = v[j]
    <3>1. j \in 1..n /\ j + 1 \in 1..(i - 1)
      BY <2>3
    <3> QED
      BY <2>1, <3>1
  <2> QED
    BY <2>3, <2>4, <2>5 DEF LexBefore
<1>2. ASSUME LexBefore(u, v)
      PROVE  LexBefore(x, y)
  <2>1. PICK i \in 1..n : u[i] < v[i] /\ \A j \in 1..(i - 1) : u[j] = v[j]
    BY <1>2 DEF LexBefore
  <2>2. i + 1 \in 1..(n + 1) /\ x[i + 1] < y[i + 1]
    BY <2>1
  <2>3. ASSUME NEW j \in 1..((i + 1) - 1)
        PROVE  x[j] = y[j]
    <3>1. CASE j = 1
      BY <3>1
    <3>2. CASE j # 1
      <4> DEFINE k == j - 1
      <4>1. k \in 1..(i - 1) /\ k \in 1..n /\ k + 1 = j
        BY <3>2
      <4> HIDE DEF k
      <4>2. x[k + 1] = y[k + 1]
        BY <2>1, <4>1
      <4> QED
        BY <4>1, <4>2
    <3> QED
      BY <3>1, <3>2
  <2> QED
    BY <2>2, <2>3 DEF LexBefore
<1> QED
  BY <1>1, <1>2

LEMMA Joined ==
    ASSUME NEW f \in Seq(Int), NEW k \in Seq(Int)
    PROVE  /\ f \o k \in [1..(Len(f) + Len(k)) -> Int]
           /\ \A i \in 1..Len(f) : (f \o k)[i] = f[i]
           /\ \A i \in 1..Len(k) : (f \o k)[Len(f) + i] = k[i]
<1>1. /\ f \o k \in Seq(Int) /\ Len(f \o k) = Len(f) + Len(k)
      /\ \A i \in 1..(Len(f) + Len(k)) :
            (f \o k)[i] = IF i <= Len(f) THEN f[i] ELSE k[i - Len(f)]
  BY ConcatProperties
<1>2. Len(f) \in Nat /\ Len(k) \in Nat
  OBVIOUS
<1> DEFINE h == f \o k
<1>3. /\ h \in Seq(Int) /\ Len(h) = Len(f) + Len(k)
      /\ \A i \in 1..(Len(f) + Len(k)) :
            h[i] = IF i <= Len(f) THEN f[i] ELSE k[i - Len(f)]
  BY <1>1
<1> HIDE DEF h
<1>4. h \in [1..(Len(f) + Len(k)) -> Int]
  BY <1>3
<1>5. \A i \in 1..Len(f) : h[i] = f[i]
  BY <1>2, <1>3
<1>6. ASSUME NEW i \in 1..Len(k)
      PROVE  h[Len(f) + i] = k[i]
  <2>1. /\ Len(f) + i \in 1..(Len(f) + Len(k)) /\ ~(Len(f) + i <= Len(f))
        /\ (Len(f) + i) - Len(f) = i
    BY <1>2
  <2> QED
    BY <1>3, <2>1, Zenon
<1> QED
  BY <1>4, <1>5, <1>6 DEF h

\* The two sort keys of ownership: of an answer to a question, and of the
\* assertions that the faultlines consider.
AssertionKey(e) == <<0 - e.authority, 0 - e.epoch, 0 - e.confidence>> \o e.key

LEMMA SortKeys ==
    ASSUME NEW n \in Nat, NEW e, e.key \in Seq(Int), Len(e.key) = n, e.active \in BOOLEAN,
           {e.authority, e.epoch, e.confidence} \subseteq Int
    PROVE  /\ owner_sort_key(e) \in [1..(n + 4) -> Int]
           /\ owner_sort_key(e)[1] = IF e.active THEN 0 ELSE 1
           /\ owner_sort_key(e)[2] = 0 - e.authority
           /\ AssertionKey(e) \in [1..(n + 3) -> Int]
           /\ \A i \in 1..(n + 3) : owner_sort_key(e)[i + 1] = AssertionKey(e)[i]
           /\ \A i \in 1..n : AssertionKey(e)[i + 3] = e.key[i]
<1> DEFINE a == IF e.active THEN 0 ELSE 1
           f == <<a, 0 - e.authority, 0 - e.epoch, 0 - e.confidence>>
           g == <<0 - e.authority, 0 - e.epoch, 0 - e.confidence>>
           x == owner_sort_key(e)
           y == AssertionKey(e)
<1>1. /\ f \in Seq(Int) /\ Len(f) = 4 /\ g \in Seq(Int) /\ Len(g) = 3
      /\ f[1] = a /\ f[2] = 0 - e.authority
      /\ \A i \in 1..3 : f[i + 1] = g[i]
  OBVIOUS
<1>2. x = f \o e.key /\ y = g \o e.key
  BY DEF owner_sort_key, AssertionKey
<1> HIDE DEF f, g, a, x, y
<1>3. /\ x \in [1..(4 + n) -> Int] /\ \A i \in 1..4 : x[i] = f[i]
      /\ \A i \in 1..n : x[4 + i] = e.key[i]
  <2>1. /\ f \o e.key \in [1..(Len(f) + Len(e.key)) -> Int]
        /\ \A i \in 1..Len(f) : (f \o e.key)[i] = f[i]
        /\ \A i \in 1..Len(e.key) : (f \o e.key)[Len(f) + i] = e.key[i]
    BY <1>1, Joined, Zenon
  <2> QED
    BY <1>1, <1>2, <2>1, Zenon
<1>4. /\ y \in [1..(3 + n) -> Int] /\ \A i \in 1..3 : y[i] = g[i]
      /\ \A i \in 1..n : y[3 + i] = e.key[i]
  <2>1. /\ g \o e.key \in [1..(Len(g) + Len(e.key)) -> Int]
        /\ \A i \in 1..Len(g) : (g \o e.key)[i] = g[i]
        /\ \A i \in 1..Len(e.key) : (g \o e.key)[Len(g) + i] = e.key[i]
    BY <1>1, Joined, Zenon
  <2> QED
    BY <1>1, <1>2, <2>1, Zenon
<1>5. ASSUME NEW i \in 1..(n + 3)
      PROVE  x[i + 1] = y[i]
  <2>1. CASE i <= 3
    <3>1. i \in 1..3 /\ i + 1 \in 1..4
      BY <2>1
    <3> QED
      BY <1>1, <1>3, <1>4, <3>1
  <2>2. CASE i > 3
    <3> DEFINE k == i - 3
    <3>1. k \in 1..n /\ 4 + k = i + 1 /\ 3 + k = i
      BY <2>2
    <3> HIDE DEF k
    <3>2. x[4 + k] = y[3 + k]
      BY <1>3, <1>4, <3>1
    <3> QED
      BY <3>1, <3>2
  <2> QED
    BY <2>1, <2>2
<1>6. x \in [1..(n + 4) -> Int] /\ y \in [1..(n + 3) -> Int] /\ x[1] = a /\ x[2] = 0 - e.authority
  <2>1. 4 + n = n + 4 /\ 3 + n = n + 3 /\ 1 \in 1..4 /\ 2 \in 1..4
    OBVIOUS
  <2> QED
    BY <1>1, <1>3, <1>4, <2>1
<1>7. \A i \in 1..n : y[i + 3] = e.key[i]
  BY <1>4
<1> QED
  BY <1>5, <1>6, <1>7 DEF x, y, a

LEMMA OwnsSorted ==
    ASSUME NEW s \in Scenes
    PROVE  /\ IsFiniteSet(s.bundle.owns)
           /\ \A e, f \in s.bundle.owns : e.key = f.key => e = f
           /\ \E n \in Nat : \A e \in s.bundle.owns :
                 /\ owner_sort_key(e) \in [1..(n + 4) -> Int]
                 /\ owner_sort_key(e)[1] = IF e.active THEN 0 ELSE 1
                 /\ owner_sort_key(e)[2] = 0 - e.authority
                 /\ AssertionKey(e) \in [1..(n + 3) -> Int]
                 /\ \A i \in 1..(n + 3) : owner_sort_key(e)[i + 1] = AssertionKey(e)[i]
                 /\ \A i \in 1..n : AssertionKey(e)[i + 3] = e.key[i]
                 /\ e.key \in Seq(Int) /\ Len(e.key) = n
                 /\ e.active \in BOOLEAN /\ e.authority \in Int
<1> DEFINE O == s.bundle.owns
<1>1. /\ IsFiniteSet(O)
      /\ \A e, f \in O : /\ e.active \in BOOLEAN
                         /\ {e.id, e.authority, e.epoch, e.confidence} \subseteq Int
                         /\ e.key \in Seq(Int) /\ Len(e.key) = Len(f.key)
  BY OwnsAssumption
<1>2. \A e, f \in O : e.key = f.key => e = f
  <2>1. OneRowEach(s.bundle)
    BY BundleAssumption
  <2>2. 8 \in DOMAIN Parts /\ Parts[8] = "owns"
    BY DEF Parts
  <2>3. \A e : Identity("owns", e) = e.key
    BY DEF Identity
  <2> QED
    BY <2>1, <2>2, <2>3 DEF OneRowEach
<1> HIDE DEF O
<1>3. CASE O = {}
  BY <1>1, <1>2, <1>3 DEF O
<1>4. CASE O # {}
  <2>1. PICK f \in O : TRUE
    BY <1>4
  <2> DEFINE n == Len(f.key)
  <2>2. n \in Nat
    BY <1>1, <2>1
  <2>3. \A e \in O : Len(e.key) = n
    BY <1>1
  <2> HIDE DEF n
  <2>4. ASSUME NEW e \in O
        PROVE  /\ owner_sort_key(e) \in [1..(n + 4) -> Int]
               /\ owner_sort_key(e)[1] = IF e.active THEN 0 ELSE 1
               /\ owner_sort_key(e)[2] = 0 - e.authority
               /\ AssertionKey(e) \in [1..(n + 3) -> Int]
               /\ \A i \in 1..(n + 3) : owner_sort_key(e)[i + 1] = AssertionKey(e)[i]
               /\ \A i \in 1..n : AssertionKey(e)[i + 3] = e.key[i]
    <3>1. /\ e.key \in Seq(Int) /\ e.active \in BOOLEAN
          /\ {e.authority, e.epoch, e.confidence} \subseteq Int
      BY <1>1
    <3> QED
      BY <2>2, <2>3, <3>1, SortKeys
  <2> QED
    BY <1>1, <1>2, <2>2, <2>3, <2>4, Zenon DEF O
<1> QED
  BY <1>3, <1>4

\* The first record of any that the bundle has is one of them, and no other
\* comes before it.
LEMMA FirstIsLeast ==
    ASSUME NEW s \in Scenes, NEW E \in SUBSET s.bundle.owns, E # {}
    PROVE  /\ First(E, owner_sort_key) \in E
           /\ \A e \in E : ~LexBefore(owner_sort_key(e), owner_sort_key(First(E, owner_sort_key)))
<1> DEFINE R == {x \in E \X E : LexBefore(owner_sort_key(x[1]), owner_sort_key(x[2]))}
<1>1. IsFiniteSet(E)
  BY OwnsSorted, FS_Subset
<1>2. PICK n \in Nat : \A e \in s.bundle.owns : owner_sort_key(e) \in [1..(n + 4) -> Int]
  BY OwnsSorted
<1>3. n + 4 \in Nat
  OBVIOUS
<1>4. \A x, y \in E : <<x, y>> \in R <=> LexBefore(owner_sort_key(x), owner_sort_key(y))
  OBVIOUS
<1>5. \A x \in E : <<x, x>> \notin R
  BY <1>2, <1>3, <1>4, LexStrict
<1>6. \A x, y, z \in E : <<x, y>> \in R /\ <<y, z>> \in R => <<x, z>> \in R
  BY <1>2, <1>3, <1>4, LexTransitive
<1> HIDE DEF R
<1>7. \E x \in E : \A y \in E : ~LexBefore(owner_sort_key(y), owner_sort_key(x))
  <2>1. PICK x \in E : \A y \in E : <<y, x>> \notin R
    BY <1>1, <1>5, <1>6, FiniteHasLeast
  <2> QED
    BY <1>4, <2>1
<1> QED
  BY <1>7, Zenon DEF First

\* With an active assertion among them, the first record of all is the first
\* of the active assertions, the only one that none comes before.
LEMMA FirstIsAsserted ==
    ASSUME NEW s \in Scenes, NEW E \in SUBSET s.bundle.owns,
           \E e \in E : e.authority > 0 /\ e.active
    PROVE  LET A == {e \in E : e.authority > 0 /\ e.active}
               x == First(E, owner_sort_key)
           IN  /\ x \in A
               /\ {e \in A : \A f \in A : ~LexBefore(AssertionKey(f), AssertionKey(e))} = {x}
<1> DEFINE A == {e \in E : e.authority > 0 /\ e.active}
           x == First(E, owner_sort_key)
<1>1. x \in E /\ \A e \in E : ~LexBefore(owner_sort_key(e), owner_sort_key(x))
  BY FirstIsLeast
<1> HIDE DEF x
<1>2. PICK n \in Nat : \A e \in s.bundle.owns :
         /\ owner_sort_key(e) \in [1..(n + 4) -> Int]
         /\ owner_sort_key(e)[1] = IF e.active THEN 0 ELSE 1
         /\ owner_sort_key(e)[2] = 0 - e.authority
         /\ AssertionKey(e) \in [1..(n + 3) -> Int]
         /\ \A i \in 1..(n + 3) : owner_sort_key(e)[i + 1] = AssertionKey(e)[i]
         /\ \A i \in 1..n : AssertionKey(e)[i + 3] = e.key[i]
         /\ e.key \in Seq(Int) /\ Len(e.key) = n
         /\ e.active \in BOOLEAN /\ e.authority \in Int
  BY OwnsSorted
<1>3. PICK a \in A : TRUE
  OBVIOUS
<1>4. x \in A
  <2>0. a \in s.bundle.owns /\ x \in s.bundle.owns /\ a.active /\ a.authority > 0
    BY <1>1, <1>3
  <2>1a. owner_sort_key(a) \in [1..(n + 4) -> Int]
    BY <1>2, <2>0, Zenon
  <2>1b. /\ owner_sort_key(a)[1] = (IF a.active THEN 0 ELSE 1)
         /\ owner_sort_key(a)[2] = 0 - a.authority
         /\ owner_sort_key(x)[1] = (IF x.active THEN 0 ELSE 1)
         /\ owner_sort_key(x)[2] = 0 - x.authority
         /\ x.active \in BOOLEAN /\ x.authority \in Int /\ a.authority \in Int
    BY <1>2, <2>0, Zenon
  <2>1c. 1 \in 1..(n + 4) /\ 2 \in 1..(n + 4)
    OBVIOUS
  <2>1. /\ 1 \in DOMAIN owner_sort_key(a) /\ 2 \in DOMAIN owner_sort_key(a)
        /\ owner_sort_key(a)[1] = 0 /\ owner_sort_key(a)[2] = 0 - a.authority
        /\ owner_sort_key(x)[1] = (IF x.active THEN 0 ELSE 1)
        /\ owner_sort_key(x)[2] = 0 - x.authority
        /\ x.active \in BOOLEAN /\ x.authority \in Int /\ a.authority \in Int /\ a.authority > 0
    BY <2>0, <2>1a, <2>1b, <2>1c
  <2>2. ~LexBefore(owner_sort_key(a), owner_sort_key(x))
    BY <1>1, <1>3
  <2>3. ASSUME ~x.active
        PROVE  FALSE
    <3>1. owner_sort_key(a)[1] < owner_sort_key(x)[1] /\ 1..(1 - 1) = {}
      BY <2>1, <2>3
    <3> QED
      BY <2>1, <2>2, <3>1 DEF LexBefore
  <2>4. ASSUME x.active, ~(x.authority > 0)
        PROVE  FALSE
    <3>1. /\ owner_sort_key(a)[2] < owner_sort_key(x)[2] /\ 1..(2 - 1) = {1}
          /\ owner_sort_key(a)[1] = owner_sort_key(x)[1]
      BY <2>1, <2>4
    <3> QED
      BY <2>1, <2>2, <3>1 DEF LexBefore
  <2> QED
    BY <1>1, <2>3, <2>4
<1>5. ASSUME NEW e \in A, NEW f \in A
      PROVE  LexBefore(owner_sort_key(f), owner_sort_key(e))
                <=> LexBefore(AssertionKey(f), AssertionKey(e))
  <2> DEFINE m == n + 3
             p == owner_sort_key(f)
             q == owner_sort_key(e)
             u == AssertionKey(f)
             v == AssertionKey(e)
  <2>1. m \in Nat /\ m + 1 = n + 4
    OBVIOUS
  <2>2a. e \in s.bundle.owns /\ f \in s.bundle.owns /\ e.active /\ f.active
    OBVIOUS
  <2>2p. /\ p \in [1..(n + 4) -> Int] /\ u \in [1..m -> Int]
         /\ p[1] = (IF f.active THEN 0 ELSE 1) /\ \A i \in 1..m : p[i + 1] = u[i]
    BY <1>2, <2>2a, Zenon
  <2>2q. /\ q \in [1..(n + 4) -> Int] /\ v \in [1..m -> Int]
         /\ q[1] = (IF e.active THEN 0 ELSE 1) /\ \A i \in 1..m : q[i + 1] = v[i]
    BY <1>2, <2>2a, Zenon
  <2>2b. /\ p \in [1..(n + 4) -> Int] /\ q \in [1..(n + 4) -> Int]
         /\ u \in [1..m -> Int] /\ v \in [1..m -> Int]
         /\ p[1] = (IF f.active THEN 0 ELSE 1) /\ q[1] = (IF e.active THEN 0 ELSE 1)
         /\ \A i \in 1..m : p[i + 1] = u[i] /\ q[i + 1] = v[i]
    BY <2>2p, <2>2q, Zenon
  <2>2. /\ p \in [1..(m + 1) -> Int] /\ q \in [1..(m + 1) -> Int]
        /\ u \in [1..m -> Int] /\ v \in [1..m -> Int] /\ p[1] = q[1]
        /\ \A i \in 1..m : p[i + 1] = u[i] /\ q[i + 1] = v[i]
    <3>1. p[1] = q[1]
      BY <2>2a, <2>2b
    <3>2. p \in [1..(m + 1) -> Int] /\ q \in [1..(m + 1) -> Int]
      BY <2>1, <2>2b
    <3> QED
      BY <2>2b, <3>1, <3>2, Zenon
  <2> HIDE DEF m, p, q, u, v
  <2>3. LexBefore(p, q) <=> LexBefore(u, v)
    BY <2>1, <2>2, LexShifted
  <2> QED
    BY <2>3 DEF p, q, u, v
<1>6. \A f \in A : ~LexBefore(AssertionKey(f), AssertionKey(x))
  BY <1>1, <1>4, <1>5
<1>7. ASSUME NEW e \in A, e # x
      PROVE  LexBefore(AssertionKey(x), AssertionKey(e))
  <2>1. e.key # x.key
    BY <1>4, <1>7, OwnsSorted
  <2>0. e \in s.bundle.owns /\ x \in s.bundle.owns
    BY <1>4
  <2>2. e.key # x.key => \E i \in 1..n : e.key[i] # x.key[i]
    <3> DEFINE k == e.key
               l == x.key
    <3>1. k \in Seq(Int) /\ l \in Seq(Int) /\ Len(k) = n /\ Len(l) = n
      BY <1>2, <2>0, Zenon
    <3> HIDE DEF k, l
    <3>2. k # l => \E i \in 1..n : k[i] # l[i]
      BY <3>1
    <3> QED
      BY <3>2 DEF k, l
  <2>3. PICK i \in 1..n : e.key[i] # x.key[i]
    BY <2>1, <2>2
  <2>4. AssertionKey(e) # AssertionKey(x)
    <3>1. AssertionKey(e)[i + 3] = e.key[i] /\ AssertionKey(x)[i + 3] = x.key[i]
      BY <1>2, <2>0, Zenon
    <3> QED
      BY <2>3, <3>1, Zenon
  <2>5. n + 3 \in Nat
    OBVIOUS
  <2>6. AssertionKey(e) \in [1..(n + 3) -> Int] /\ AssertionKey(x) \in [1..(n + 3) -> Int]
    BY <1>2, <2>0, Zenon
  <2>7. LexBefore(AssertionKey(e), AssertionKey(x)) \/ LexBefore(AssertionKey(x), AssertionKey(e))
    BY <2>4, <2>5, <2>6, LexTotal
  <2> QED
    BY <1>6, <2>7
<1>8. {e \in A : \A f \in A : ~LexBefore(AssertionKey(f), AssertionKey(e))} = {x}
  BY <1>4, <1>6, <1>7
<1> QED
  BY <1>4, <1>8 DEF x

\* For a module with an active assertion, the faultlines consider that record
\* alone which a question's answer selects.
LEMMA OwnersOfFaultlines ==
    ASSUME NEW s \in Scenes, NEW m,
           \E e \in s.bundle.owns : e.module = m /\ e.authority > 0 /\ e.active
    PROVE  LET b == s.bundle
               x == First({e \in b.owns : e.module = m}, owner_sort_key)
           IN  /\ x \in b.owns /\ x.module = m /\ x.authority > 0
               /\ Analysis(b)!Owners(Analysis(b)!Fresh(1), m) \subseteq {x.owner}
<1> DEFINE b == s.bundle
           E == {e \in b.owns : e.module = m}
           A == {e \in E : e.authority > 0 /\ e.active}
           x == First(E, owner_sort_key)
<1>1. /\ x \in A
      /\ {e \in A : \A f \in A : ~LexBefore(AssertionKey(f), AssertionKey(e))} = {x}
  <2>1. E \in SUBSET s.bundle.owns /\ \E e \in E : e.authority > 0 /\ e.active
    OBVIOUS
  <2> QED
    BY <2>1, FirstIsAsserted
<1> HIDE DEF x
<1>2. Analysis(b)!owner_edges(Analysis(b)!Fresh(1)) = b.owns
  <2>1. Analysis(b)!Data(Analysis(b)!Fresh(1)) = AsSource(b)
    BY DEF Analysis!Data, Analysis!Fresh
  <2>2. Analysis(b)!Fresh(1).overlays = {}
    BY DEF Analysis!Fresh
  <2>3. AsSource(b).owns = b.owns
    BY DEF AsSource
  <2> QED
    BY <2>1, <2>2, <2>3 DEF Analysis!owner_edges
<1>3. \A e, f : Analysis(b)!LexLess(Analysis(b)!AssertionOrder(f), Analysis(b)!AssertionOrder(e))
                  <=> LexBefore(AssertionKey(f), AssertionKey(e))
  BY DEF Analysis!LexLess, Analysis!AssertionOrder, LexBefore, AssertionKey
<1>4. Analysis(b)!considered(Analysis(b)!Fresh(1), m) = {x}
  <2>1. A # {}
    BY <1>1
  <2>2. Analysis(b)!considered(Analysis(b)!Fresh(1), m)
          = {e \in A : \A f \in A : ~Analysis(b)!LexLess(Analysis(b)!AssertionOrder(f),
                                                         Analysis(b)!AssertionOrder(e))}
    BY <1>2, <2>1, Zenon DEF Analysis!considered
  <2> QED
    BY <1>1, <1>3, <2>2, Zenon
<1>5. Analysis(b)!module_owners(Analysis(b)!Fresh(1), m) \subseteq {x}
  BY <1>4, Zenon DEF Analysis!module_owners
<1>6. Analysis(b)!Owners(Analysis(b)!Fresh(1), m) \subseteq {x.owner}
  BY <1>5 DEF Analysis!Owners
<1> QED
  BY <1>1, <1>6 DEF x

-----------------------------------------------------------------------------
(* The two answers about an owner.                                         *)

\* An answer that selects somebody, or that nothing disputes, is supported.
LEMMA SupportedAnswer ==
    ASSUME NEW a, a.status = "answered",
           a.conflicts = {} \/ \E c \in a.conflicts : c.selected
    PROVE  decide_question_verdict(a) = "SUPPORTED"
<1> DEFINE selected == {c \in a.conflicts : c.selected}
           rejected == a.conflicts \ selected
<1>1. ~(selected = {} /\ Cardinality(rejected) >= 2)
  <2>1. CASE a.conflicts = {}
    <3>1. rejected = {}
      BY <2>1
    <3>2. Cardinality({}) = 0
      BY FS_EmptySet
    <3> HIDE DEF rejected
    <3> QED
      BY <3>1, <3>2
  <2>2. CASE \E c \in a.conflicts : c.selected
    BY <2>2
  <2> QED
    BY <2>1, <2>2
<1> QED
  BY <1>1, Zenon DEF decide_question_verdict

\* From the bundle.
LEMMA OwnerFromBundle ==
    ASSUME NEW s \in Scenes, NEW m,
           {e \in s.bundle.owns : e.module = m} # {},
           First({e \in s.bundle.owns : e.module = m}, owner_sort_key).authority > 0
    PROVE  LET a == answer_owner(s.bundle, m)
               x == First({e \in s.bundle.owns : e.module = m}, owner_sort_key)
           IN  a.people = {x.owner} /\ decide_question_verdict(a) = "SUPPORTED"
<1> DEFINE E == {e \in s.bundle.owns : e.module = m}
           x == First(E, owner_sort_key)
           a == answer_owner(s.bundle, m)
           explicit == {ownership_decision(e, x) : e \in {y \in E : y.authority > 0}}
           conflicts == IF Cardinality(Claimants(explicit)) > 1 THEN explicit ELSE {}
<1>1. x \in E
  BY FirstIsLeast
<1>2. a = OntologyAnswer("owner", "answered", m, {x.owner}, {<<x.owner, m>>}, x.confidence,
                         conflicts)
  BY DEF answer_owner
<1>3. a.status = "answered" /\ a.people = {x.owner} /\ a.conflicts = conflicts
  <2> HIDE DEF x, conflicts
  <2> QED
    BY <1>2 DEF OntologyAnswer
<1>4. ownership_decision(x, x) \in explicit /\ ownership_decision(x, x).selected
  BY <1>1 DEF ownership_decision
<1>5. conflicts = {} \/ \E c \in conflicts : c.selected
  <2> HIDE DEF explicit
  <2> QED
    BY <1>4
<1> HIDE DEF a, conflicts
<1>6. decide_question_verdict(a) = "SUPPORTED"
  BY <1>3, <1>5, SupportedAnswer
<1> QED
  BY <1>3, <1>6 DEF a

\* From the rows of the engine, once they are all of them.
LEMMA OwnerFromRows ==
    ASSUME NEW s \in Scenes, NEW m, NEW E \in SUBSET s.bundle.owns, E # {}
    PROVE  LET a == owner_from_hydra_rows(m, E)
           IN  /\ a.people = {First(E, owner_sort_key).owner}
               /\ decide_question_verdict(a) = "SUPPORTED"
<1> DEFINE x == First(E, owner_sort_key)
           a == owner_from_hydra_rows(m, E)
           Claim(e) == [person |-> e.owner, key |-> e.key, selected |-> e.owner = x.owner]
           claims == {Claim(e) : e \in E}
           conflicts == IF Cardinality(Claimants(claims)) > 1 THEN claims ELSE {}
<1>1. x \in E
  BY FirstIsLeast
<1>2. a = OntologyAnswer("owner", "answered", m, {x.owner}, {<<x.owner, m>>}, x.confidence,
                         conflicts)
  BY DEF owner_from_hydra_rows
<1>3. a.status = "answered" /\ a.people = {x.owner} /\ a.conflicts = conflicts
  <2> HIDE DEF x, conflicts
  <2> QED
    BY <1>2 DEF OntologyAnswer
<1>4. Claim(x) \in claims /\ Claim(x).selected
  BY <1>1
<1>5. conflicts = {} \/ \E c \in conflicts : c.selected
  <2> HIDE DEF claims, Claim
  <2> QED
    BY <1>4
<1> HIDE DEF a, conflicts
<1>6. decide_question_verdict(a) = "SUPPORTED"
  BY <1>3, <1>5, SupportedAnswer
<1> QED
  BY <1>3, <1>6 DEF a

LEMMA NothingCut ==
    ASSUME NEW s \in Scenes, NEW E \in SUBSET s.bundle.owns, Cardinality(E) <= RowLimit
    PROVE  {x \in E : Cardinality({y \in E : y.id < x.id}) < RowLimit} = E
<1>1. IsFiniteSet(E)
  BY OwnsSorted, FS_Subset
<1>2. ASSUME NEW x \in E
      PROVE  Cardinality({y \in E : y.id < x.id}) < RowLimit
  <2> DEFINE B == {y \in E : y.id < x.id}
  <2>1. x.id \in Int
    BY OwnsAssumption
  <2>2. B \in SUBSET E /\ x \notin B
    BY <2>1
  <2>3. IsFiniteSet(B) /\ Cardinality(B) <= Cardinality(E) /\ Cardinality(B) # Cardinality(E)
    BY <1>1, <2>2, FS_Subset
  <2>4. Cardinality(B) \in Nat /\ Cardinality(E) \in Nat
    BY <1>1, <2>3, FS_CardinalityType
  <2> HIDE DEF B
  <2>5. Cardinality(B) < RowLimit
    BY <2>3, <2>4, OwnsAssumption
  <2> QED
    BY <2>5 DEF B
<1> QED
  BY <1>2

\* A question about the owner of a module that has one is answered from its
\* OWNS edges.
LEMMA ProvisionalOwner ==
    ASSUME provisional.intent = "owner", provisional.subject # NoSubject
    PROVE  provisional = answer_owner(served, provisional.subject)
<1> DEFINE b == served
           subject == match_subject(b, request.text, request.intent)
           p == provisional
<1>1. p = answer_ontology_question(b, request.intent, request.text)
  BY DEF provisional
<1> HIDE DEF p, b, subject
<1>2. CASE request.intent = "approval"
  <2>1. p = answer_approval(b, request.text)
    BY <1>1, <1>2 DEF answer_ontology_question
  <2>2. p.intent = "approval"
    BY <2>1 DEF answer_approval, ApprovalAnswer, Abstention, OntologyAnswer
  <2> QED
    BY <2>2 DEF p
<1>3. CASE request.intent \notin {"approval", "unsupported"} /\ subject = NoSubject
  <2>1. p = Abstention(request.intent, "not_found", NoSubject)
    BY <1>1, <1>3 DEF answer_ontology_question, subject
  <2> QED
    BY <2>1 DEF p, Abstention, OntologyAnswer
<1>4. CASE request.intent = "owner" /\ subject # NoSubject
  <2>1. p = answer_owner(b, subject)
    BY <1>1, <1>4 DEF answer_ontology_question, subject
  <2>2. p.subject = subject
    BY <2>1 DEF answer_owner, Abstention, OntologyAnswer
  <2> QED
    BY <2>1, <2>2 DEF p, b
<1>5. CASE request.intent = "dependency_impact" /\ subject # NoSubject
  <2>1. p = answer_dependency_impact(b, subject)
    BY <1>1, <1>5 DEF answer_ontology_question, subject
  <2>2. p.intent = "dependency_impact"
    BY <2>1 DEF answer_dependency_impact, Impact, Abstention, OntologyAnswer
  <2> QED
    BY <2>2 DEF p
<1>6. CASE request.intent \notin {"approval", "owner", "dependency_impact", "unsupported"}
           /\ subject # NoSubject
  <2>1. p = answer_artifact(b, request.intent, subject)
    BY <1>1, <1>6 DEF answer_ontology_question, subject
  <2>2. p.intent = request.intent
    BY <2>1 DEF answer_artifact, Abstention, OntologyAnswer
  <2> QED
    BY <1>6, <2>2 DEF p
<1>7. CASE request.intent = "unsupported"
  <2>1. p = Abstention(request.intent, "unsupported", NoSubject)
    BY <1>1, <1>7 DEF answer_ontology_question
  <2> QED
    BY <2>1 DEF p, Abstention, OntologyAnswer
<1> QED
  BY <1>2, <1>3, <1>4, <1>5, <1>6, <1>7

\* The rows of the context query about an owner, of a database that holds what
\* is served.
ServedRows ==
    LET E == {e \in served.owns : e.module = provisional.subject}
    IN  {x \in E : Cardinality({y \in E : y.id < x.id}) < RowLimit}

RowsOfServed ==
    /\ request # NoRequest /\ request.lens = "question" /\ provisional.intent = "owner"
    /\ failed = {} /\ seen \subseteq {"served"} /\ Len(rows) = 2
    => rows[2] = ServedRows

\* What OwnersAgree says of the faultlines, of the record that sorts first.
FirstDecides ==
    LET E == {e \in served.owns : e.module = answer.fixture.subject}
        x == First(E, owner_sort_key)
    IN  /\ Answered
        /\ answer.asked.lens = "question" /\ answer.fixture.intent = "owner"
        /\ E # {} /\ x.authority > 0
        /\ answer.envelope.engine => Quiet /\ Cardinality(E) <= RowLimit
        => answer.envelope.findings.people = {x.owner} /\ answer.envelope.status = "SUPPORTED"

LEMMA RowsOfServedStep ==
    ASSUME Served, RowsInv, RowsOfServed, [Next]_vars
    PROVE  RowsOfServed'
<1>1. CASE StartSeed \/ SeedNext \/ UNCHANGED vars
  <2>1. UNCHANGED <<scene, request, rows, failed, seen>>
    BY <1>1 DEF StartSeed, SeedNext, vars
  <2> QED
    BY <2>1 DEF RowsOfServed, ServedRows, provisional, served
<1>2. CASE Ask \/ Respond
  <2>1. rows' = <<>>
    BY <1>2 DEF Ask, Respond
  <2>2. Len(rows') # 2
    BY <2>1
  <2> QED
    BY <2>2 DEF RowsOfServed
<1>3. CASE QueryFails
  <2>1. failed' # {}
    BY <1>3 DEF QueryFails
  <2> QED
    BY <2>1 DEF RowsOfServed
<1>4. CASE RunQuery
  <2> SUFFICES ASSUME request.lens = "question", provisional.intent = "owner",
                      seen' \subseteq {"served"}, Len(rows') = 2
               PROVE  rows'[2] = ServedRows
    BY <1>4 DEF RunQuery, RowsOfServed, ServedRows, provisional, served
  <2>1. PICK r \in Results(Queries[Next1]) : rows' = Append(rows, r)
    BY <1>4 DEF RunQuery
  <2>2. PICK S : rows \in Seq(S)
    BY DEF RowsInv
  <2>3. /\ Len(rows') = Len(rows) + 1 /\ Len(rows) \in Nat
        /\ rows'[Len(rows) + 1] = r
    BY <2>1, <2>2, Appended
  <2>4. Len(rows) = 1
    <3>1. \A k \in Nat : k + 1 = 2 => k = 1
      OBVIOUS
    <3> QED
      BY <2>3, <3>1, Zenon
  <2>5. Next1 = 2 /\ rows'[2] = r
    BY <2>3, <2>4 DEF Next1
  <2>6. Queries[2] = "context"
    BY DEF Queries
  <2>7. r = ContextRows
    BY <2>1, <2>5, <2>6 DEF Results
  <2>8. db.owns = served.owns
    <3>1. Contents = "served"
      BY <1>4 DEF RunQuery
    <3>2. Holds(db, served)
      BY <3>1 DEF Contents
    <3>3. 8 \in DOMAIN Parts /\ Parts[8] = "owns"
      BY DEF Parts
    <3> QED
      BY <3>2, <3>3 DEF Holds
  <2>9. ContextRows = ServedRows
    BY <2>8 DEF ContextRows, ServedRows
  <2> QED
    BY <2>5, <2>7, <2>9
<1> QED
  BY <1>1, <1>2, <1>3, <1>4 DEF Next

\* Either way the answer names the owner of the record that sorts first.
LEMMA FirstDecidesAnswer ==
    ASSUME Served, RowsInv, RowsOfServed, Respond
    PROVE  FirstDecides'
<1> DEFINE m == provisional.subject
           E == {e \in served.owns : e.module = m}
           x == First(E, owner_sort_key)
<1>1. /\ answer'.asked = request /\ answer'.seen = seen /\ answer'.fixture = FixtureFindings
      /\ request # NoRequest /\ scene' = scene
  BY DEF Respond
<1>2. served' = served
  BY <1>1 DEF served
<1> SUFFICES ASSUME request.lens = "question", provisional.intent = "owner",
                    E # {}, x.authority > 0,
                    answer'.envelope.engine => seen \subseteq {"served"} /\ Cardinality(E) <= RowLimit
             PROVE  answer'.envelope.findings.people = {x.owner}
                    /\ answer'.envelope.status = "SUPPORTED"
  <2>1. request.lens = "question" => FixtureFindings = provisional
    BY DEF FixtureFindings
  <2> QED
    BY <1>1, <1>2, <2>1 DEF FirstDecides, Quiet
<1>3. answer'.envelope = answer_question
  BY DEF Respond
<1>4. /\ E \in SUBSET scene.bundle.owns /\ scene \in Scenes
      /\ \A e \in scene.bundle.owns : e.module \in Nat
  BY OwnsAssumption DEF served, Served
<1>5. m # NoSubject
  BY <1>4 DEF NoSubject
<1>6. provisional = answer_owner(served, m)
  BY <1>5, ProvisionalOwner
<1>7. provisional.people = {x.owner} /\ decide_question_verdict(provisional) = "SUPPORTED"
  BY <1>4, <1>6, OwnerFromBundle DEF served
<1> DEFINE live == answer_from_hydra_rows(served, provisional.intent, m, rows[2])
           known == Returned(2) /\ ~UnknownName(served, provisional.intent, rows[2])
<1>8. answer_question = IF known
                        THEN Envelope("hydradb", TRUE, decide_question_verdict(live), live)
                        ELSE Fixture(decide_question_verdict(provisional), provisional)
  BY DEF answer_question
<1>9. CASE ~known
  <2>1. answer_question = Fixture(decide_question_verdict(provisional), provisional)
    BY <1>8, <1>9
  <2> HIDE DEF m, E, x
  <2> QED
    BY <1>3, <1>7, <2>1 DEF Fixture, Envelope
<1>10. CASE known
  <2> HIDE DEF live
  <2>1. answer_question = Envelope("hydradb", TRUE, decide_question_verdict(live), live)
    BY <1>8, <1>10
  <2>2. answer'.envelope.engine
    BY <1>3, <2>1 DEF Envelope
  <2>3. failed = {} /\ Len(rows) = 2
    <3>1. Queries = <<"health", "context">>
      BY DEF Queries
    <3>2. failed = {} /\ Len(rows) >= 2
      BY <1>10 DEF Returned
    <3>3. Len(Queries) = 2
      BY <3>1
    <3>4. Len(rows) <= 2 /\ Len(rows) \in Nat
      <4>1. Len(rows) <= Len(Queries)
        BY <1>1 DEF RowsInv
      <4>2. Len(rows) \in Nat
        BY DEF RowsInv
      <4> QED
        BY <3>3, <4>1, <4>2, Zenon
    <3>5. \A k \in Nat : k >= 2 /\ k <= 2 => k = 2
      OBVIOUS
    <3> QED
      BY <3>2, <3>4, <3>5, Zenon
  <2>4. rows[2] = ServedRows
    BY <1>1, <2>2, <2>3 DEF RowsOfServed
  <2>5. ServedRows = E
    BY <1>4, <2>2, NothingCut DEF ServedRows
  <2>6. live = owner_from_hydra_rows(m, E)
    BY <2>4, <2>5 DEF live, answer_from_hydra_rows
  <2>7. live.people = {x.owner} /\ decide_question_verdict(live) = "SUPPORTED"
    BY <1>4, <2>6, OwnerFromRows
  <2> HIDE DEF m, E, x
  <2> QED
    BY <1>3, <2>1, <2>7 DEF Envelope
<1> QED
  BY <1>9, <1>10

LEMMA OwnersFollow == Served /\ FirstDecides => OwnersAgree
<1> SUFFICES ASSUME Served, FirstDecides PROVE OwnersAgree
  OBVIOUS
<1> DEFINE m == answer.fixture.subject
           E == {e \in served.owns : e.module = m}
           x == First(E, owner_sort_key)
           owners == Analysis(served)!Owners(Analysis(served)!Fresh(1), m)
<1>1. ASSUME \E e \in served.owns : e.module = m /\ e.authority > 0 /\ e.active
      PROVE  E # {} /\ x.authority > 0 /\ owners \subseteq {x.owner}
  <2>1. scene \in Scenes /\ served = scene.bundle
    BY DEF Served, served
  <2>2. x \in served.owns /\ x.module = m /\ x.authority > 0 /\ owners \subseteq {x.owner}
    BY <1>1, <2>1, OwnersOfFaultlines
  <2> QED
    BY <2>2
<1> HIDE DEF owners, x
<1>2. owners \subseteq {x.owner} /\ owners # {} => owners = {x.owner}
  OBVIOUS
<1> QED
  BY <1>1, <1>2, Zenon DEF OwnersAgree, FirstDecides, owners, x

\* A question about the owner of a module names whom the faultlines take for
\* its owner and is supported, from the bundle or from the rows of the engine,
\* for any bundles, records, requests and moments of a seed, once the module
\* has an active assertion (analysis.py:485, questions.py:591).
THEOREM OneOwner == Spec => []OwnersAgree
<1>1. Init => Served /\ RowsInv /\ RowsOfServed /\ FirstDecides
  <2> SUFFICES ASSUME Init PROVE Served /\ RowsInv /\ RowsOfServed /\ FirstDecides
    OBVIOUS
  <2>1. /\ rows = <<>> /\ rows \in Seq({}) /\ request = NoRequest /\ scene \in Scenes
        /\ failed = {} /\ seen = {} /\ asked = 0 /\ failures = 0 /\ answer = NoRequest
    BY DEF Init
  <2> QED
    BY <2>1, LensAssumption DEF Served, RowsInv, RowsOfServed, FirstDecides, Answered
<1>2. Served /\ RowsInv /\ RowsOfServed /\ FirstDecides /\ [Next]_vars
      => Served' /\ RowsInv' /\ RowsOfServed' /\ FirstDecides'
  <2> SUFFICES ASSUME Served, RowsInv, RowsOfServed, FirstDecides, [Next]_vars
               PROVE  Served' /\ RowsInv' /\ RowsOfServed' /\ FirstDecides'
    OBVIOUS
  <2>1. Served' /\ RowsInv' /\ RowsOfServed'
    BY ServedStep, RowsStep, RowsOfServedStep
  <2>2. CASE Respond
    BY <2>1, <2>2, FirstDecidesAnswer
  <2>3. CASE ~Respond
    <3>1. UNCHANGED <<scene, answer>>
      BY <2>3 DEF Next, vars, StartSeed, SeedNext, Ask, RunQuery, QueryFails
    <3> QED
      BY <2>1, <3>1 DEF FirstDecides, Answered, Quiet, served
  <2> QED
    BY <2>2, <2>3
<1> QED
  BY <1>1, <1>2, OwnersFollow, PTL DEF Spec

-----------------------------------------------------------------------------
(* What an engine that holds the served bundle returns.                    *)

\* The lenses whose queries search no path.
TableLenses == {"graph", "gaps", "gap_paths", "question"}

TableQueries == {"nodes", "edges", "context"} \union Range(GapQueries)

ServedLineage(pairs) ==
    {x \in pairs : /\ x.phantom \in {p.key : p \in served.phantoms}
                   /\ x.artifact \in served.artifacts}

ServedContext ==
    LET subject == provisional.subject
        Limited(S) == {x \in S : Cardinality({y \in S : y.id < x.id}) < RowLimit}
    IN  CASE provisional.intent = "owner" -> Limited({e \in served.owns : e.module = subject})
          [] provisional.intent = "dependency_impact" ->
                Limited({d \in served.depends : d.target = subject})
          [] OTHER -> {p \in served.phantoms : p.key = subject}

FromServed(query) ==
    CASE query = "nodes" -> PersonRows(Windowed, served)
      [] query = "edges" -> CallRows(Windowed, served)
      [] query = "phantoms" -> PhantomRows(served, served)
      [] query = "predecessors" -> ServedLineage(Outgoing(served.preceded))
      [] query = "successors" -> ServedLineage(Incoming(served.preceded))
      [] query = "replied" -> ServedLineage(Incoming(served.replies))
      [] query = "context" -> ServedContext

LEMMA HeldFields ==
    ASSUME Holds(db, served)
    PROVE  /\ db.people = served.people /\ db.strangers = served.strangers
           /\ db.artifacts = served.artifacts /\ db.phantoms = served.phantoms
           /\ db.calls = served.calls /\ db.owns = served.owns /\ db.depends = served.depends
           /\ db.preceded = served.preceded /\ db.replies = served.replies
<1>1. /\ Parts[1] = "artifacts" /\ Parts[4] = "phantoms" /\ Parts[6] = "calls"
      /\ Parts[7] = "depends" /\ Parts[8] = "owns" /\ Parts[9] = "preceded"
      /\ Parts[10] = "replies" /\ DOMAIN Parts = 1..10
  BY DEF Parts
<1>2. \A i \in 1..10 : db[Parts[i]] = served[Parts[i]]
  BY <1>1 DEF Holds
<1>3. {1, 4, 6, 7, 8, 9, 10} \subseteq 1..10
  OBVIOUS
<1> QED
  BY <1>1, <1>2, <1>3 DEF Holds

LEMMA ServedResult ==
    ASSUME Contents = "served", NEW query \in TableQueries, NEW result \in Results(query)
    PROVE  result = FromServed(query)
<1>1. Holds(db, served)
  BY DEF Contents
<1>2. /\ db.people = served.people /\ db.strangers = served.strangers
      /\ db.artifacts = served.artifacts /\ db.phantoms = served.phantoms
      /\ db.calls = served.calls /\ db.owns = served.owns /\ db.depends = served.depends
      /\ db.preceded = served.preceded /\ db.replies = served.replies
  BY <1>1, HeldFields
<1>3. \A pairs : LineageRows(pairs) = ServedLineage(pairs)
  BY <1>2 DEF LineageRows, ServedLineage
<1>4. CASE query = "nodes"
  BY <1>2, <1>4 DEF Results, FromServed, PersonRows
<1>5. CASE query = "edges"
  BY <1>2, <1>5 DEF Results, FromServed, CallRows
<1>6. CASE query = "phantoms"
  BY <1>2, <1>6 DEF Results, FromServed, PhantomRows
<1>7. CASE query = "predecessors"
  BY <1>2, <1>3, <1>7 DEF Results, FromServed
<1>8. CASE query = "successors"
  BY <1>2, <1>3, <1>8 DEF Results, FromServed
<1>9. CASE query = "replied"
  BY <1>2, <1>3, <1>9 DEF Results, FromServed
<1>10. CASE query = "context"
  <2>1. ContextRows = ServedContext
    BY <1>2 DEF ContextRows, ServedContext
  <2> QED
    BY <1>10, <2>1 DEF Results, FromServed
<1> QED
  BY <1>4, <1>5, <1>6, <1>7, <1>8, <1>9, <1>10 DEF TableQueries, GapQueries, Range

\* While the engine held what is served at every query, its rows are those of
\* the served bundle; and a question asks on only about what it can answer.
RowsFromServed ==
    request # NoRequest =>
        /\ seen \subseteq {"served"} /\ failed = {} =>
              \A i \in 1..Len(rows) : Queries[i] \in TableQueries => rows[i] = FromServed(Queries[i])
        /\ request.lens = "question" /\ Len(rows) > 1 =>
              provisional.subject # NoSubject /\ provisional.intent \in LiveIntents

LEMMA SameRequest ==
    ASSUME UNCHANGED <<scene, request>>
    PROVE  /\ Queries' = Queries /\ provisional' = provisional
           /\ \A q : FromServed(q)' = FromServed(q)
<1>1. served' = served /\ Windowed' = Windowed /\ provisional' = provisional
  BY DEF served, Windowed, provisional
<1>2. Queries' = Queries
  BY <1>1 DEF Queries, ChainAsked
<1>3. ServedContext' = ServedContext
  BY <1>1 DEF ServedContext
<1>4. ASSUME NEW q
      PROVE  FromServed(q)' = FromServed(q)
  BY <1>1, <1>3 DEF FromServed, ServedLineage
<1> QED
  BY <1>1, <1>2, <1>4

LEMMA OneRowMore ==
    ASSUME RowsInv, RowsFromServed, request # NoRequest, ~Complete, NEW r,
           rows' = Append(rows, r), UNCHANGED <<scene, request>>,
           failed' # {} \/ /\ failed' = failed /\ seen' = seen \union {Contents}
                           /\ r \in Results(Queries[Next1])
    PROVE  RowsFromServed'
<1>1. PICK S : rows \in Seq(S)
  BY DEF RowsInv
<1>2. /\ Len(rows') = Len(rows) + 1 /\ Len(rows) \in Nat
      /\ \A i \in 1..Len(rows) : rows'[i] = rows[i]
      /\ rows'[Len(rows) + 1] = r
  BY <1>1, Appended
<1>3. Len(rows') > 1 => Len(rows) = 1 \/ Len(rows) > 1
  BY <1>2, OneMore, Zenon
<1>4. ASSUME seen' \subseteq {"served"}, failed' = {}, NEW i \in 1..Len(rows'),
             Queries[i] \in TableQueries
      PROVE  rows'[i] = FromServed(Queries[i])
  <2>1. /\ seen \subseteq {"served"} /\ Contents = "served" /\ failed = {}
        /\ r \in Results(Queries[Next1])
    BY <1>4
  <2>2. CASE i <= Len(rows)
    BY <1>2, <1>4, <2>1, <2>2 DEF RowsFromServed
  <2>3. CASE i = Len(rows) + 1
    <3>1. Next1 = i
      BY <2>3 DEF Next1
    <3>2. r = FromServed(Queries[i])
      BY <1>4, <2>1, <3>1, ServedResult
    <3> QED
      BY <1>2, <2>3, <3>2
  <2> QED
    BY <1>2, <2>2, <2>3
<1>5. ASSUME request.lens = "question", Len(rows') > 1
      PROVE  provisional.subject # NoSubject /\ provisional.intent \in LiveIntents
  <2>1. CASE Len(rows) = 1
    BY <1>5, <2>1 DEF Complete, Given
  <2>2. CASE Len(rows) > 1
    BY <1>5, <2>2 DEF RowsFromServed
  <2> QED
    BY <1>3, <1>5, <2>1, <2>2
<1> QED
  BY <1>4, <1>5, SameRequest DEF RowsFromServed

LEMMA RowsFromServedStep ==
    ASSUME RowsInv, RowsFromServed, [Next]_vars
    PROVE  RowsFromServed'
<1>1. CASE StartSeed \/ SeedNext \/ UNCHANGED vars
  <2>1. UNCHANGED <<scene, request, rows, failed, seen>>
    BY <1>1 DEF StartSeed, SeedNext, vars
  <2> QED
    BY <2>1, SameRequest DEF RowsFromServed
<1>2. CASE Ask \/ Respond
  <2>1. rows' = <<>>
    BY <1>2 DEF Ask, Respond
  <2>2. 1..Len(rows') = {} /\ ~(Len(rows') > 1)
    BY <2>1
  <2> QED
    BY <2>2 DEF RowsFromServed
<1>3. CASE RunQuery
  <2>1. PICK r \in Results(Queries[Next1]) : rows' = Append(rows, r)
    BY <1>3 DEF RunQuery
  <2>2. /\ request # NoRequest /\ ~Complete /\ seen' = seen \union {Contents}
        /\ UNCHANGED <<scene, request, failed>>
    BY <1>3 DEF RunQuery
  <2> QED
    BY <2>1, <2>2, OneRowMore
<1>4. CASE QueryFails
  <2>1. /\ request # NoRequest /\ ~Complete /\ rows' = Append(rows, {}) /\ failed' # {}
        /\ UNCHANGED <<scene, request>>
    BY <1>4 DEF QueryFails
  <2> QED
    BY <2>1, OneRowMore
<1> QED
  BY <1>1, <1>2, <1>3, <1>4 DEF Next

-----------------------------------------------------------------------------
(* Nothing is cut from rows that are as many as the bundle has.            *)

LEMMA FewerThanAll ==
    ASSUME NEW S, IsFiniteSet(S), NEW x \in S, NEW B \in SUBSET S, x \notin B
    PROVE  /\ Cardinality(B) \in Nat /\ Cardinality(S) \in Nat
           /\ Cardinality(B) < Cardinality(S)
<1>1. IsFiniteSet(B) /\ Cardinality(B) <= Cardinality(S) /\ Cardinality(B) # Cardinality(S)
  BY FS_Subset
<1>2. Cardinality(B) \in Nat /\ Cardinality(S) \in Nat
  BY <1>1, FS_CardinalityType
<1> QED
  BY <1>1, <1>2

LEMMA LimitIsEnough ==
    ASSUME NEW n \in Nat
    PROVE  Max({1, n}) \in Nat /\ Max({1, n}) >= n
<1> DEFINE S == {1, n}
<1>1. \E x \in S : \A y \in S : x >= y
  <2>1. CASE n >= 1
    BY <2>1
  <2>2. CASE ~(n >= 1)
    BY <2>2
  <2> QED
    BY <2>1, <2>2
<1>2. Max(S) \in S /\ \A y \in S : Max(S) >= y
  <2> HIDE DEF S
  <2> QED
    BY <1>1, Zenon DEF Max
<1> QED
  BY <1>2

LEMMA AllPersonRows ==
    ASSUME NEW s \in Scenes, s.bundle.strangers = {}
    PROVE  PersonRows(s.bundle, s.bundle) = s.bundle.people
<1> DEFINE P == s.bundle.people
           n == Cardinality(P)
           limit == Max({1, n})
<1>1. IsFiniteSet(P) /\ P \subseteq Int
  BY SortAssumption
<1>2. n \in Nat
  BY <1>1, FS_CardinalityType
<1>3. limit \in Nat /\ limit >= n
  BY <1>2, LimitIsEnough
<1> HIDE DEF P, n, limit
<1>4. ASSUME NEW p \in P
      PROVE  Cardinality({q \in P : q < p}) < limit
  <2> DEFINE B == {q \in P : q < p}
  <2>1. B \in SUBSET P /\ p \notin B
    BY <1>1
  <2> HIDE DEF B
  <2>2. Cardinality(B) \in Nat /\ Cardinality(B) < n
    BY <1>1, <2>1, FewerThanAll DEF n
  <2> QED
    BY <1>2, <1>3, <2>2 DEF B
<1>5. PersonRows(s.bundle, s.bundle) = {p \in P : Cardinality({q \in P : q < p}) < limit} \intersect P
  <2>1. P \union s.bundle.strangers = P
    OBVIOUS
  <2> QED
    BY <2>1 DEF PersonRows, P, n, limit
<1> QED
  BY <1>4, <1>5 DEF P

LEMMA AllPhantomRows ==
    ASSUME NEW s \in Scenes
    PROVE  PhantomRows(s.bundle, s.bundle) = s.bundle.phantoms
<1> DEFINE P == s.bundle.phantoms
           n == Cardinality(P)
           limit == Max({1, n})
<1>1. IsFiniteSet(P) /\ \A p \in P : p.key \in Int
  BY SortAssumption
<1>2. n \in Nat
  BY <1>1, FS_CardinalityType
<1>3. limit \in Nat /\ limit >= n
  BY <1>2, LimitIsEnough
<1> HIDE DEF P, n, limit
<1>4. ASSUME NEW p \in P
      PROVE  Cardinality({q \in P : q.key < p.key}) < limit
  <2> DEFINE B == {q \in P : q.key < p.key}
  <2>1. B \in SUBSET P /\ p \notin B
    BY <1>1
  <2> HIDE DEF B
  <2>2. Cardinality(B) \in Nat /\ Cardinality(B) < n
    BY <1>1, <2>1, FewerThanAll DEF n
  <2> QED
    BY <1>2, <1>3, <2>2 DEF B
<1>5. PhantomRows(s.bundle, s.bundle) =
        {p \in {q \in P : Cardinality({r \in P : r.key < q.key}) < limit} : p.key \in {q.key : q \in P}}
  BY DEF PhantomRows, P, n, limit
<1> QED
  BY <1>4, <1>5 DEF P

\* A bundle has at least as many edges as calls.
LEMMA AllCallRows ==
    ASSUME NEW s \in Scenes
    PROVE  CallRows(s.bundle, s.bundle) = DrawnEdges(s.bundle.people, s.bundle.calls)
<1> DEFINE b == s.bundle
           C == b.calls
           n == EdgeCount(b)
           limit == Max({1, n})
           B(c) == {d \in C : LexBefore(<<d.from, d.to>>, <<c.from, c.to>>)}
<1>1. IsFiniteSet(C) /\ n \in Nat /\ n >= Cardinality(C)
  <2>1. /\ IsFiniteSet(b.authored) /\ IsFiniteSet(b.calls) /\ IsFiniteSet(b.depends)
        /\ IsFiniteSet(b.owns) /\ IsFiniteSet(b.preceded) /\ IsFiniteSet(b.replies)
    BY SortAssumption, OwnsAssumption
  <2>2. /\ Cardinality(b.authored) \in Nat /\ Cardinality(b.calls) \in Nat
        /\ Cardinality(b.depends) \in Nat /\ Cardinality(b.owns) \in Nat
        /\ Cardinality(b.preceded) \in Nat /\ Cardinality(b.replies) \in Nat
    BY <2>1, FS_CardinalityType
  <2> QED
    BY <2>1, <2>2 DEF EdgeCount
<1> HIDE DEF n
<1>2. limit \in Nat /\ limit >= n
  BY <1>1, LimitIsEnough
<1> HIDE DEF limit
<1>3. ASSUME NEW c \in C  PROVE Cardinality(B(c)) < limit
  <2>1. c.from \in Int /\ c.to \in Int
    BY <1>3, EndsAssumption, SortAssumption
  <2>2. ~LexBefore(<<c.from, c.to>>, <<c.from, c.to>>)
    BY <2>1 DEF LexBefore
  <2>3. B(c) \in SUBSET C /\ c \notin B(c)
    BY <2>2
  <2> HIDE DEF B, C
  <2>4. Cardinality(B(c)) \in Nat /\ Cardinality(C) \in Nat /\ Cardinality(B(c)) < Cardinality(C)
    BY <1>1, <1>3, <2>3, FewerThanAll
  <2> QED
    BY <1>1, <1>2, <2>4
<1>4. CallRows(b, b) = DrawnEdges(b.people, {c \in C : Cardinality(B(c)) < limit})
  BY DEF CallRows, limit, n
<1>5. {c \in C : Cardinality(B(c)) < limit} = C
  <2> HIDE DEF B, C
  <2> QED
    BY <1>3
<1> QED
  BY <1>4, <1>5

\* Of numbered rows, no more than the limit.
LEMMA NoneBeyondLimit ==
    ASSUME NEW S, IsFiniteSet(S), \A x \in S : x.id \in Int, Cardinality(S) <= RowLimit,
           NEW E \in SUBSET S
    PROVE  {x \in E : Cardinality({y \in E : y.id < x.id}) < RowLimit} = E
<1>1. ASSUME NEW x \in E
      PROVE  Cardinality({y \in E : y.id < x.id}) < RowLimit
  <2> DEFINE B == {y \in E : y.id < x.id}
  <2>1. B \in SUBSET S /\ x \notin B /\ x \in S
    BY <1>1
  <2> HIDE DEF B
  <2>2. Cardinality(B) \in Nat /\ Cardinality(S) \in Nat /\ Cardinality(B) < Cardinality(S)
    BY <2>1, FewerThanAll
  <2>3. Cardinality(B) < RowLimit
    BY <2>2, OwnsAssumption
  <2> QED
    BY <2>3 DEF B
<1> QED
  BY <1>1

-----------------------------------------------------------------------------
(* The graph.                                                              *)

LEMMA GraphAgrees ==
    ASSUME Served, RowsInv, RowsFromServed, request # NoRequest, request.lens = "graph",
           request.days = 0, served.strangers = {}, seen \subseteq {"served"}, failed = {},
           graph.engine
    PROVE  graph.findings = FixtureFindings
<1>1. Windowed = served
  BY DEF Windowed, window_bundle
<1>2. scene \in Scenes /\ served = scene.bundle
  BY DEF Served, served
<1>3. Len(rows) >= 2 /\ graph = Live([nodes |-> rows[1], edges |-> rows[2]])
  BY DEF graph, Returned, Fixture, Envelope
<1>4. Queries = <<"nodes", "edges">> /\ {"nodes", "edges"} \subseteq TableQueries
  BY DEF Queries, TableQueries
<1>5. 1 \in 1..Len(rows) /\ 2 \in 1..Len(rows)
  <2>1. Len(rows) \in Nat
    BY DEF RowsInv
  <2> QED
    BY <1>3, <2>1
<1>6. rows[1] = FromServed("nodes") /\ rows[2] = FromServed("edges")
  <2>1. Queries[1] = "nodes" /\ Queries[2] = "edges"
    BY <1>4
  <2>2. \A i \in 1..Len(rows) : Queries[i] \in TableQueries => rows[i] = FromServed(Queries[i])
    BY DEF RowsFromServed
  <2> QED
    BY <1>4, <1>5, <2>1, <2>2
<1>7. rows[1] = served.people
  BY <1>1, <1>2, <1>6, AllPersonRows DEF FromServed
<1>8. rows[2] = DrawnEdges(served.people, served.calls)
  BY <1>1, <1>2, <1>6, AllCallRows DEF FromServed
<1>9. graph.findings = fixture_graph(served)
  BY <1>3, <1>7, <1>8 DEF Live, Envelope, fixture_graph
<1> QED
  BY <1>1, <1>9 DEF FixtureFindings

-----------------------------------------------------------------------------
(* The gaps.                                                               *)

\* The gap queries are the last four, with or without the chain before them.
LEMMA GapQueriesLast ==
    ASSUME request.lens \in {"gaps", "gap_paths"}
    PROVE  LET n == Len(Queries) - Len(GapQueries)
           IN  /\ Len(Queries) \in Nat
               /\ \A k \in 1..4 : n + k \in 1..Len(Queries) /\ Queries[n + k] = GapQueries[k]
<1> DEFINE Q == {"chain", "phantoms", "predecessors", "successors", "replied"}
           n == Len(Queries) - Len(GapQueries)
<1>1. GapQueries \in Seq(Q) /\ Len(GapQueries) = 4 /\ <<"chain">> \in Seq(Q) /\ Len(<<"chain">>) = 1
  BY DEF GapQueries
<1> HIDE DEF Q
<1>2. CASE ChainAsked
  <2> DEFINE f == <<"chain">>
             h == f \o GapQueries
  <2>1. Queries = h
    BY <1>2 DEF Queries, ChainAsked
  <2>2. f \in Seq(Q) /\ Len(f) = 1
    BY <1>1
  <2> HIDE DEF f
  <2>3. /\ Len(h) = Len(f) + Len(GapQueries)
        /\ \A i \in 1..(Len(f) + Len(GapQueries)) :
              h[i] = IF i <= Len(f) THEN f[i] ELSE GapQueries[i - Len(f)]
    BY <1>1, <2>2, ConcatProperties
  <2>4. Len(h) = 5 /\ \A i \in 1..5 : h[i] = IF i <= 1 THEN f[i] ELSE GapQueries[i - 1]
    <3>1. Len(f) + Len(GapQueries) = 5
      BY <1>1, <2>2
    <3> QED
      BY <2>2, <2>3, <3>1, Zenon
  <2> HIDE DEF h
  <2>5. n = 1
    <3>1. n = 5 - 4
      BY <1>1, <2>1, <2>4, Zenon
    <3> QED
      BY <3>1
  <2> HIDE DEF n
  <2>6. ASSUME NEW k \in 1..4
        PROVE  1 + k \in 1..5 /\ h[1 + k] = GapQueries[k]
    <3>1. 1 + k \in 1..5 /\ ~(1 + k <= 1) /\ (1 + k) - 1 = k
      OBVIOUS
    <3> QED
      BY <2>4, <3>1, Zenon
  <2> QED
    BY <2>1, <2>4, <2>5, <2>6 DEF n
<1>3. CASE ~ChainAsked
  <2>1. Queries = GapQueries
    BY <1>3 DEF Queries
  <2>2. n = 0
    <3>1. n = 4 - 4
      BY <1>1, <2>1, Zenon
    <3> QED
      BY <3>1
  <2> HIDE DEF n
  <2>3. \A k \in 1..4 : 0 + k \in 1..4 /\ 0 + k = k
    OBVIOUS
  <2>4. \A k \in 1..4 : n + k \in 1..Len(Queries) /\ Queries[n + k] = GapQueries[k]
    BY <1>1, <2>1, <2>2, <2>3
  <2>5. Len(Queries) \in Nat
    BY <1>1, <2>1
  <2> QED
    BY <2>4, <2>5 DEF n
<1> QED
  BY <1>2, <1>3

\* The rows of an engine that holds what is served.
LEMMA GapRowsServed ==
    ASSUME RowsInv, RowsFromServed, request # NoRequest, request.lens \in {"gaps", "gap_paths"},
           Complete, seen \subseteq {"served"}, failed = {}, ~LiveGaps.none
    PROVE  LiveGaps.gaps = gap_rows(FromServed("phantoms"), FromServed("predecessors"),
                                    FromServed("successors"), FromServed("replied"))
<1> DEFINE n == Len(Queries) - Len(GapQueries)
           found == gap_rows(rows[n + 1], rows[n + 2], rows[n + 3], rows[n + 4])
<1>1. scene.configured /\ Fatal = {}
  BY DEF LiveGaps
<1>2. LiveGaps = [none |-> found = {} /\ served.phantoms # {}, gaps |-> found]
  BY <1>1 DEF LiveGaps
<1>3. LiveGaps.gaps = found
  <2> HIDE DEF found
  <2> QED
    BY <1>2
<1>4. Len(rows) = Len(Queries)
  BY <1>1 DEF Complete, Skipped, Given
<1>5. \A k \in 1..4 : n + k \in 1..Len(rows) /\ Queries[n + k] = GapQueries[k]
  BY <1>4, GapQueriesLast
<1>6. /\ GapQueries[1] = "phantoms" /\ GapQueries[2] = "predecessors"
      /\ GapQueries[3] = "successors" /\ GapQueries[4] = "replied"
      /\ {"phantoms", "predecessors", "successors", "replied"} \subseteq TableQueries
  BY DEF GapQueries, TableQueries, Range
<1> HIDE DEF n
<1>7. \A k \in 1..4 : GapQueries[k] \in TableQueries => rows[n + k] = FromServed(GapQueries[k])
  <2>1. \A i \in 1..Len(rows) : Queries[i] \in TableQueries => rows[i] = FromServed(Queries[i])
    BY DEF RowsFromServed
  <2> QED
    BY <1>5, <2>1
<1>8. /\ rows[n + 1] = FromServed("phantoms") /\ rows[n + 2] = FromServed("predecessors")
      /\ rows[n + 3] = FromServed("successors") /\ rows[n + 4] = FromServed("replied")
  <2>1. 1 \in 1..4 /\ 2 \in 1..4 /\ 3 \in 1..4 /\ 4 \in 1..4
    OBVIOUS
  <2> QED
    BY <1>6, <1>7, <2>1
<1> QED
  BY <1>3, <1>8

\* Next to a phantom are artifacts, so that the rows are the edges.
LEMMA LineageOfServed ==
    ASSUME Served, NEW p \in served.phantoms,
           \A e \in served.preceded : ~ {e.from, e.to} \subseteq {q.key : q \in served.phantoms}
    PROVE  /\ Lineage(ServedLineage(Outgoing(served.preceded)), p.key)
                = {e.to : e \in {x \in served.preceded : x.from = p.key}}
           /\ Lineage(ServedLineage(Incoming(served.preceded))
                        \union ServedLineage(Incoming(served.replies)), p.key)
                = {e.from : e \in {x \in served.preceded \union served.replies : x.to = p.key}}
<1> DEFINE keys == {q.key : q \in served.phantoms}
<1>1. /\ \A e \in served.preceded : {e.from, e.to} \subseteq served.artifacts \union keys
      /\ \A e \in served.replies : e.from \in served.artifacts
  BY EndsAssumption DEF Served, served
<1>2. p.key \in keys
  OBVIOUS
<1> HIDE DEF keys
<1>3. \A e \in served.preceded : /\ e.from = p.key => e.to \in served.artifacts
                                 /\ e.to = p.key => e.from \in served.artifacts
  BY <1>1, <1>2 DEF keys
<1> DEFINE Pairs(E) == {x \in E : x.phantom \in keys /\ x.artifact \in served.artifacts}
<1>4. \A E : ServedLineage(E) = Pairs(E)
  BY DEF ServedLineage, keys
<1>5. \A E : Lineage(E, p.key) = {r.artifact : r \in {x \in E : x.phantom = p.key}}
  BY DEF Lineage
<1>6. \A E, y : /\ y \in Outgoing(E) <=> \E e \in E : y = [phantom |-> e.from, artifact |-> e.to]
                /\ y \in Incoming(E) <=> \E e \in E : y = [phantom |-> e.to, artifact |-> e.from]
  BY DEF Outgoing, Incoming
<1>7. Lineage(ServedLineage(Outgoing(served.preceded)), p.key)
        = {e.to : e \in {x \in served.preceded : x.from = p.key}}
  <2> DEFINE L == Pairs(Outgoing(served.preceded))
  <2>1. \A e \in served.preceded : e.from = p.key =>
          [phantom |-> e.from, artifact |-> e.to] \in L
    BY <1>2, <1>3, <1>6
  <2>2. \A y \in L : y.phantom = p.key =>
          \E e \in served.preceded : e.from = p.key /\ e.to = y.artifact
    BY <1>6
  <2> HIDE DEF L
  <2>3. {r.artifact : r \in {x \in L : x.phantom = p.key}}
          = {e.to : e \in {x \in served.preceded : x.from = p.key}}
    <3>1. ASSUME NEW e \in served.preceded, e.from = p.key
          PROVE  \E r \in L : r.phantom = p.key /\ r.artifact = e.to
      BY <2>1, <3>1
    <3> QED
      BY <2>2, <3>1
  <2> QED
    BY <1>4, <1>5, <2>3 DEF L
<1>8. Lineage(ServedLineage(Incoming(served.preceded))
                \union ServedLineage(Incoming(served.replies)), p.key)
        = {e.from : e \in {x \in served.preceded \union served.replies : x.to = p.key}}
  <2> DEFINE L == Pairs(Incoming(served.preceded)) \union Pairs(Incoming(served.replies))
             E == served.preceded \union served.replies
  <2>1. \A e \in E : e.to = p.key => [phantom |-> e.to, artifact |-> e.from] \in L
    BY <1>1, <1>2, <1>3, <1>6
  <2>2. \A y \in L : y.phantom = p.key => \E e \in E : e.to = p.key /\ e.from = y.artifact
    BY <1>6
  <2> HIDE DEF L, E
  <2>3. {r.artifact : r \in {x \in L : x.phantom = p.key}} = {e.from : e \in {x \in E : x.to = p.key}}
    <3>1. ASSUME NEW e \in E, e.to = p.key
          PROVE  \E r \in L : r.phantom = p.key /\ r.artifact = e.from
      BY <2>1, <3>1
    <3> QED
      BY <2>2, <3>1
  <2> QED
    BY <1>4, <1>5, <2>3 DEF L, E
<1> QED
  BY <1>7, <1>8

LEMMA GapsOfServed ==
    ASSUME Served, \A p \in served.phantoms : p.epoch # NoEpoch,
           \A e \in served.preceded : ~ {e.from, e.to} \subseteq {p.key : p \in served.phantoms}
    PROVE  gap_rows(FromServed("phantoms"), FromServed("predecessors"),
                    FromServed("successors"), FromServed("replied"))
             = fixture_gap_findings(served)
<1> DEFINE P == served.phantoms
           before == ServedLineage(Outgoing(served.preceded))
           after == ServedLineage(Incoming(served.preceded)) \union ServedLineage(Incoming(served.replies))
           pre(p) == {e.to : e \in {x \in served.preceded : x.from = p.key}}
           suc(p) == {e.from : e \in {x \in served.preceded \union served.replies : x.to = p.key}}
           epoch(p) == IF p.epoch # NoEpoch THEN p.epoch
                       ELSE interpolated_gap_epoch(served, pre(p), suc(p))
<1>1. FromServed("phantoms") = P
  BY AllPhantomRows DEF FromServed, Served, served
<1>2. gap_rows(FromServed("phantoms"), FromServed("predecessors"),
               FromServed("successors"), FromServed("replied"))
        = {GapFinding(p, p.epoch, Lineage(before, p.key), Lineage(after, p.key)) : p \in P}
  BY <1>1 DEF gap_rows, FromServed
<1>3. fixture_gap_findings(served) = {GapFinding(p, epoch(p), pre(p), suc(p)) : p \in P}
  BY DEF fixture_gap_findings
<1>4. \A p \in P : /\ Lineage(before, p.key) = pre(p) /\ Lineage(after, p.key) = suc(p)
                   /\ epoch(p) = p.epoch
  BY LineageOfServed
<1> HIDE DEF P, before, after, pre, suc, epoch
<1> QED
  BY <1>2, <1>3, <1>4

LEMMA GapsAgree ==
    ASSUME Served, RowsInv, RowsFromServed, request # NoRequest, request.lens \in {"gaps", "gap_paths"},
           Complete, seen \subseteq {"served"}, failed = {}, ~LiveGaps.none,
           \A p \in served.phantoms : p.epoch # NoEpoch,
           \A e \in served.preceded : ~ {e.from, e.to} \subseteq {p.key : p \in served.phantoms}
    PROVE  LiveGaps.gaps = fixture_gap_findings(served)
BY GapRowsServed, GapsOfServed

-----------------------------------------------------------------------------
(* Questions.                                                              *)

\* What a question of each kind that is asked of the engine has found in the
\* bundle.
LEMMA ProvisionalForms ==
    ASSUME provisional.subject # NoSubject
    PROVE  /\ provisional.intent = "dependency_impact" =>
                provisional = answer_dependency_impact(served, provisional.subject)
           /\ provisional.intent = "approval" =>
                request.intent = "approval" /\ provisional = ApprovalAnswer(provisional.subject)
<1> DEFINE b == served
           subject == match_subject(b, request.text, request.intent)
           p == provisional
<1>1. p = answer_ontology_question(b, request.intent, request.text)
  BY DEF provisional
<1> HIDE DEF p, b, subject
<1>2. CASE request.intent = "approval"
  <2>1. p = answer_approval(b, request.text)
    BY <1>1, <1>2 DEF answer_ontology_question
  <2>2. \A x : /\ ApprovalAnswer(x).intent = "approval" /\ ApprovalAnswer(x).subject = x
               /\ Abstention("approval", "not_found", x).intent = "approval"
               /\ Abstention("approval", "not_found", x).subject = x
    BY DEF ApprovalAnswer, Abstention, OntologyAnswer
  <2>3. p = Abstention("approval", "not_found", NoSubject) \/ \E x : p = ApprovalAnswer(x)
    <3> DEFINE matching == {x \in b.artifacts \union {q.key : q \in b.phantoms} :
                              request.text \in b.spelled[x]}
               missing == {q \in b.phantoms : q.kind = "approval"}
               k == First(missing, LAMBDA q : <<q.id>>).key
    <3>1. p = IF matching # {} THEN ApprovalAnswer(Min(matching))
              ELSE IF missing # {} THEN ApprovalAnswer(k)
              ELSE Abstention("approval", "not_found", NoSubject)
      BY <2>1, Zenon DEF answer_approval
    <3> HIDE DEF matching, missing, k
    <3> QED
      BY <3>1, Zenon
  <2>4. p.intent = "approval" /\ p = ApprovalAnswer(p.subject)
    BY <2>2, <2>3 DEF p
  <2> QED
    BY <1>2, <2>4 DEF p
<1>3. CASE request.intent \notin {"approval", "unsupported"} /\ subject = NoSubject
  <2>1. p = Abstention(request.intent, "not_found", NoSubject)
    BY <1>1, <1>3 DEF answer_ontology_question, subject
  <2> QED
    BY <2>1 DEF p, Abstention, OntologyAnswer
<1>4. CASE request.intent = "owner" /\ subject # NoSubject
  <2>1. p = answer_owner(b, subject)
    BY <1>1, <1>4 DEF answer_ontology_question, subject
  <2>2. p.intent = "owner"
    BY <2>1 DEF answer_owner, Abstention, OntologyAnswer
  <2> QED
    BY <2>2 DEF p
<1>5. CASE request.intent = "dependency_impact" /\ subject # NoSubject
  <2>1. p = answer_dependency_impact(b, subject)
    BY <1>1, <1>5 DEF answer_ontology_question, subject
  <2>2. p.subject = subject /\ p.intent = "dependency_impact"
    BY <2>1 DEF answer_dependency_impact, Impact, Abstention, OntologyAnswer
  <2> QED
    BY <2>1, <2>2 DEF p, b
<1>6. CASE request.intent \notin {"approval", "owner", "dependency_impact", "unsupported"}
           /\ subject # NoSubject
  <2>1. p = answer_artifact(b, request.intent, subject)
    BY <1>1, <1>6 DEF answer_ontology_question, subject
  <2>2. p.intent = request.intent
    BY <2>1 DEF answer_artifact, Abstention, OntologyAnswer
  <2> QED
    BY <1>6, <2>2 DEF p
<1>7. CASE request.intent = "unsupported"
  <2>1. p = Abstention(request.intent, "unsupported", NoSubject)
    BY <1>1, <1>7 DEF answer_ontology_question
  <2> QED
    BY <2>1 DEF p, Abstention, OntologyAnswer
<1> QED
  BY <1>2, <1>3, <1>4, <1>5, <1>6, <1>7

\* What the two answers about an owner have in common.
LEMMA OwnerAnswers ==
    ASSUME NEW b, NEW m
    PROVE  LET E == {e \in b.owns : e.module = m}
               live == owner_from_hydra_rows(m, E)
               fixture == answer_owner(b, m)
           IN  /\ live.intent = "owner" /\ live.subject = fixture.subject
               /\ live.status = fixture.status /\ live.people = fixture.people
               /\ live.confidence = fixture.confidence
<1> DEFINE E == {e \in b.owns : e.module = m}
           x == First(E, owner_sort_key)
           live == owner_from_hydra_rows(m, E)
           fixture == answer_owner(b, m)
<1>1. CASE E = {}
  <2>1. /\ live = Abstention("owner", "no_answer", m)
        /\ fixture = Abstention("owner", "no_answer", m)
    BY <1>1 DEF owner_from_hydra_rows, answer_owner
  <2> HIDE DEF live, fixture
  <2>2. live = fixture /\ live.intent = "owner"
    BY <2>1 DEF Abstention, OntologyAnswer
  <2> QED
    BY <2>2, Zenon DEF live, fixture, E
<1>2. CASE E # {}
  <2>1. \E c : live = OntologyAnswer("owner", "answered", m, {x.owner}, {<<x.owner, m>>},
                                     x.confidence, c)
    BY <1>2 DEF owner_from_hydra_rows
  <2>2. \E c : fixture = OntologyAnswer("owner", "answered", m, {x.owner}, {<<x.owner, m>>},
                                        x.confidence, c)
    BY <1>2 DEF answer_owner
  <2> HIDE DEF x
  <2>3. /\ live.intent = "owner" /\ live.subject = m /\ live.status = "answered"
        /\ live.people = {x.owner} /\ live.confidence = x.confidence
    <3> HIDE DEF live
    <3> QED
      BY <2>1 DEF OntologyAnswer
  <2>4. /\ fixture.subject = m /\ fixture.status = "answered"
        /\ fixture.people = {x.owner} /\ fixture.confidence = x.confidence
    <3> HIDE DEF fixture
    <3> QED
      BY <2>2 DEF OntologyAnswer
  <2> HIDE DEF live, fixture
  <2> QED
    BY <2>3, <2>4, Zenon DEF live, fixture, E
<1> QED
  BY <1>1, <1>2

LEMMA ImpactFields ==
    ASSUME NEW m, NEW F
    PROVE  /\ Impact(m, F).intent = "dependency_impact" /\ Impact(m, F).subject = m
           /\ Impact(m, F).status = (IF F = {} THEN "no_answer" ELSE "answered")
           /\ Dependents(Impact(m, F)) = {f.dependent : f \in F}
<1> DEFINE a == Impact(m, F)
<1>1. CASE F = {}
  <2>1. a = [intent |-> "dependency_impact", status |-> "no_answer", subject |-> m, people |-> {},
             paths |-> {}, confidence |-> NoConfidence, conflicts |-> {}]
    BY <1>1 DEF Impact, Abstention, OntologyAnswer
  <2> HIDE DEF a
  <2>2. a.intent = "dependency_impact" /\ a.subject = m /\ a.status = "no_answer" /\ a.paths = {}
    BY <2>1
  <2>3. Dependents(a) = {} /\ {f.dependent : f \in F} = {}
    BY <1>1, <2>2 DEF Dependents
  <2> QED
    BY <1>1, <2>2, <2>3, Zenon DEF a
<1>2. CASE F # {}
  <2> DEFINE P == {ImpactPath(m, f) : f \in F}
  <2>1. PICK people, confidence :
          a = [intent |-> "dependency_impact", status |-> "answered", subject |-> m,
               people |-> people, paths |-> P, confidence |-> confidence, conflicts |-> {}]
    BY <1>2 DEF Impact, OntologyAnswer
  <2>2. \A f \in F : ImpactPath(m, f)[2] = f.dependent
    BY DEF ImpactPath
  <2>3. {path[2] : path \in P} = {f.dependent : f \in F}
    BY <2>2
  <2> HIDE DEF P, a
  <2>4. a.intent = "dependency_impact" /\ a.subject = m /\ a.status = "answered" /\ a.paths = P
    BY <2>1
  <2>5. Dependents(a) = {f.dependent : f \in F}
    BY <2>3, <2>4, Zenon DEF Dependents
  <2> QED
    BY <1>2, <2>4, <2>5, Zenon DEF a
<1> QED
  BY <1>1, <1>2

\* What the two answers about dependents have in common.
LEMMA ImpactAnswers ==
    ASSUME NEW b, NEW m
    PROVE  LET live == dependency_from_hydra_rows(b, m, {d \in b.depends : d.target = m})
               fixture == answer_dependency_impact(b, m)
           IN  /\ live.intent = "dependency_impact" /\ live.subject = fixture.subject
               /\ live.status = fixture.status /\ Dependents(live) = Dependents(fixture)
<1> DEFINE D == {d \in b.depends : d.target = m}
           F == {LiveDependent(b, d) : d \in D}
           G == {Dependent(b, d) : d \in D}
<1>1. dependency_from_hydra_rows(b, m, D) = Impact(m, F) /\ answer_dependency_impact(b, m) = Impact(m, G)
  BY DEF dependency_from_hydra_rows, answer_dependency_impact
<1>2. \A d : LiveDependent(b, d).dependent = d.source /\ Dependent(b, d).dependent = d.source
  <2> TAKE d
  <2>1. \E o, c : LiveDependent(b, d) = [dependent |-> d.source, owner |-> o, confidence |-> c]
    BY Zenon DEF LiveDependent
  <2>2. \E o, c : Dependent(b, d) = [dependent |-> d.source, owner |-> o, confidence |-> c]
    BY Zenon DEF Dependent
  <2>3. \A x : (\E o, c : x = [dependent |-> d.source, owner |-> o, confidence |-> c])
                 => x.dependent = d.source
    OBVIOUS
  <2> QED
    BY <2>1, <2>2, <2>3, Zenon
<1>3. {f.dependent : f \in F} = {f.dependent : f \in G} /\ (F = {} <=> G = {})
  <2> HIDE DEF D
  <2>1. {f.dependent : f \in F} = {d.source : d \in D}
    BY <1>2
  <2>2. {f.dependent : f \in G} = {d.source : d \in D}
    BY <1>2
  <2> QED
    BY <2>1, <2>2
<1> HIDE DEF F, G
<1>4. /\ Impact(m, F).intent = "dependency_impact" /\ Impact(m, F).subject = Impact(m, G).subject
      /\ Impact(m, F).status = Impact(m, G).status
      /\ Dependents(Impact(m, F)) = Dependents(Impact(m, G))
  <2>1. /\ Impact(m, F).intent = "dependency_impact" /\ Impact(m, F).subject = m
        /\ Impact(m, F).status = (IF F = {} THEN "no_answer" ELSE "answered")
        /\ Dependents(Impact(m, F)) = {f.dependent : f \in F}
    BY ImpactFields, Zenon
  <2>2. /\ Impact(m, G).intent = "dependency_impact" /\ Impact(m, G).subject = m
        /\ Impact(m, G).status = (IF G = {} THEN "no_answer" ELSE "answered")
        /\ Dependents(Impact(m, G)) = {f.dependent : f \in G}
    BY ImpactFields, Zenon
  <2>3. (IF F = {} THEN "no_answer" ELSE "answered") = (IF G = {} THEN "no_answer" ELSE "answered")
    BY <1>3, Zenon
  <2> QED
    BY <1>3, <2>1, <2>2, <2>3, Zenon
<1> QED
  BY <1>1, <1>4

\* What SameAnswer asks of a question.
SameToQuestion(live, fixture) ==
    /\ live.subject = fixture.subject /\ live.status = fixture.status
    /\ live.intent = "owner" =>
            live.people = fixture.people /\ live.confidence = fixture.confidence
    /\ live.intent = "dependency_impact" => Dependents(live) = Dependents(fixture)
    /\ live.intent = "approval" => live.paths = fixture.paths

LEMMA QuestionAgrees ==
    ASSUME Served, RowsInv, RowsFromServed, request # NoRequest, request.lens = "question",
           seen \subseteq {"served"}, failed = {}, answer_question.engine,
           Cardinality(RowsAbout(provisional)) <= RowLimit,
           request.intent = "approval" => provisional.subject \in {p.key : p \in served.phantoms}
    PROVE  SameToQuestion(answer_question.findings, provisional)
<1> DEFINE m == provisional.subject
           live == answer_from_hydra_rows(served, provisional.intent, m, rows[2])
<1>1. /\ Returned(2)
      /\ answer_question = Envelope("hydradb", TRUE, decide_question_verdict(live), live)
  BY DEF answer_question, Fixture, Envelope
<1>2. answer_question.findings = live
  <2> HIDE DEF live
  <2> QED
    BY <1>1 DEF Envelope
<1>3. 2 \in 1..Len(rows) /\ Len(rows) > 1
  <2>1. Len(rows) \in Nat /\ Len(rows) >= 2
    BY <1>1 DEF RowsInv, Returned
  <2> QED
    BY <2>1
<1>4. rows[2] = ServedContext
  <2>1. Queries[2] = "context" /\ "context" \in TableQueries
    BY DEF Queries, TableQueries
  <2>2. rows[2] = FromServed("context")
    BY <1>3, <2>1 DEF RowsFromServed
  <2> QED
    BY <2>2 DEF FromServed
<1>5. m # NoSubject /\ provisional.intent \in LiveIntents
  BY <1>3 DEF RowsFromServed
<1>6. /\ scene \in Scenes /\ served = scene.bundle
      /\ IsFiniteSet(served.owns) /\ IsFiniteSet(served.depends)
      /\ \A e \in served.owns : e.id \in Int
      /\ \A d \in served.depends : d.id \in Int
  BY OwnsAssumption, SortAssumption DEF Served, served
<1>7. CASE provisional.intent = "owner"
  <2> DEFINE E == {e \in served.owns : e.module = m}
  <2>1. ServedContext = {x \in E : Cardinality({y \in E : y.id < x.id}) < RowLimit}
    BY <1>7 DEF ServedContext
  <2>2. /\ E \in SUBSET served.owns
        /\ Cardinality(E) <= RowLimit
    BY <1>7 DEF RowsAbout
  <2>3. ServedContext = E
    <3> HIDE DEF E
    <3>1. IsFiniteSet(E) /\ (\A x \in E : x.id \in Int) /\ E \in SUBSET E
      BY <1>6, <2>2, FS_Subset
    <3> QED
      BY <2>1, <2>2, <3>1, NoneBeyondLimit
  <2>4. live = owner_from_hydra_rows(m, E)
    BY <1>4, <1>7, <2>3 DEF answer_from_hydra_rows
  <2>5. provisional = answer_owner(served, m)
    BY <1>5, <1>7, ProvisionalOwner
  <2>6. /\ live.intent = "owner" /\ live.subject = provisional.subject
        /\ live.status = provisional.status /\ live.people = provisional.people
        /\ live.confidence = provisional.confidence
    BY <2>4, <2>5, OwnerAnswers
  <2> HIDE DEF live
  <2> QED
    BY <1>2, <2>6 DEF SameToQuestion
<1>8. CASE provisional.intent = "dependency_impact"
  <2> DEFINE D == {d \in served.depends : d.target = m}
  <2>1. ServedContext = {x \in D : Cardinality({y \in D : y.id < x.id}) < RowLimit}
    BY <1>8 DEF ServedContext
  <2>2. /\ D \in SUBSET served.depends
        /\ Cardinality(D) <= RowLimit
    BY <1>8 DEF RowsAbout
  <2>3. ServedContext = D
    <3> HIDE DEF D
    <3>1. IsFiniteSet(D) /\ (\A x \in D : x.id \in Int) /\ D \in SUBSET D
      BY <1>6, <2>2, FS_Subset
    <3> QED
      BY <2>1, <2>2, <3>1, NoneBeyondLimit
  <2>4. live = dependency_from_hydra_rows(served, m, D)
    BY <1>4, <1>8, <2>3 DEF answer_from_hydra_rows
  <2>5. provisional = answer_dependency_impact(served, m)
    BY <1>5, <1>8, ProvisionalForms
  <2>6. /\ live.intent = "dependency_impact" /\ live.subject = provisional.subject
        /\ live.status = provisional.status /\ Dependents(live) = Dependents(provisional)
    BY <2>4, <2>5, ImpactAnswers
  <2> HIDE DEF live
  <2> QED
    BY <1>2, <2>6 DEF SameToQuestion
<1>9. CASE provisional.intent = "approval"
  <2>1. request.intent = "approval" /\ provisional = ApprovalAnswer(m)
    BY <1>5, <1>9, ProvisionalForms
  <2>2. ServedContext # {}
    BY <1>9, <2>1 DEF ServedContext
  <2>3. live = ApprovalAnswer(m)
    BY <1>4, <1>9, <2>2 DEF answer_from_hydra_rows, approval_from_hydra_rows
  <2>4. live = provisional
    BY <2>1, <2>3
  <2> HIDE DEF live
  <2> QED
    BY <1>2, <2>4 DEF SameToQuestion
<1> QED
  BY <1>5, <1>7, <1>8, <1>9 DEF LiveIntents

-----------------------------------------------------------------------------
(* The answers of the lenses that search no path.                          *)

TableAgrees == Answered /\ answer.asked.lens \in TableLenses => LiveAgrees

LEMMA TableAnswers ==
    ASSUME Served, RowsInv, RowsFromServed, Respond
    PROVE  TableAgrees'
<1>1. /\ answer'.asked = request /\ answer'.failed = failed /\ answer'.seen = seen
      /\ answer'.fixture = FixtureFindings /\ request # NoRequest /\ Complete
  BY DEF Respond
<1>2. served' = served
  BY DEF Respond, served
<1> SUFFICES ASSUME request.lens \in TableLenses, answer'.envelope.engine, failed = {},
                    seen \subseteq {"served"}, Comparable'
             PROVE  SameAnswer(answer.envelope.findings, answer.fixture)'
  BY <1>1 DEF TableAgrees, LiveAgrees, Quiet
<1>3. CASE request.lens = "graph"
  <2>1. answer'.envelope = graph
    BY <1>3 DEF Respond
  <2>2. request.days = 0 /\ served.strangers = {}
    BY <1>1, <1>2, <1>3 DEF Comparable
  <2>3. graph.findings = FixtureFindings
    BY <1>1, <1>3, <2>1, <2>2, GraphAgrees
  <2> QED
    BY <1>1, <1>3, <2>1, <2>3 DEF SameAnswer
<1>4. CASE request.lens \in {"gaps", "gap_paths"}
  <2>1. /\ \A p \in served.phantoms : p.epoch # NoEpoch
        /\ \A e \in served.preceded : ~ {e.from, e.to} \subseteq {p.key : p \in served.phantoms}
    BY <1>1, <1>2, <1>4 DEF Comparable
  <2>2. ~LiveGaps.none => LiveGaps.gaps = fixture_gap_findings(served)
    BY <1>1, <1>4, <2>1, GapsAgree
  <2>3. CASE request.lens = "gaps"
    <3>1. answer'.envelope = gaps /\ FixtureFindings = fixture_gap_findings(served)
      BY <2>3 DEF Respond, FixtureFindings
    <3>2. ~LiveGaps.none /\ gaps.findings = LiveGaps.gaps
      BY <3>1 DEF gaps, Live, Fixture, Envelope
    <3> QED
      BY <1>1, <2>2, <2>3, <3>1, <3>2 DEF SameAnswer
  <2>4. CASE request.lens = "gap_paths"
    <3>1. /\ answer'.envelope = gap_paths
          /\ FixtureFindings = Between(fixture_gap_findings(served), request.source, request.target)
      BY <2>4 DEF Respond, FixtureFindings
    <3>2. /\ gap_paths.engine = ~LiveGaps.none
          /\ ~LiveGaps.none =>
                gap_paths.findings = Between(LiveGaps.gaps, request.source, request.target)
      BY DEF gap_paths, Envelope
    <3> QED
      BY <1>1, <2>2, <2>4, <3>1, <3>2 DEF SameAnswer
  <2> QED
    BY <1>4, <2>3, <2>4
<1>5. CASE request.lens = "question"
  <2>1. answer'.envelope = answer_question /\ FixtureFindings = provisional
    BY <1>5 DEF Respond, FixtureFindings
  <2>2. /\ Cardinality(RowsAbout(provisional)) <= RowLimit
        /\ request.intent = "approval" => provisional.subject \in {p.key : p \in served.phantoms}
    BY <1>1, <1>2, <1>5, <2>1 DEF Comparable, RowsAbout
  <2>3. SameToQuestion(answer_question.findings, provisional)
    BY <1>1, <1>5, <2>1, <2>2, QuestionAgrees
  <2>4. SameToQuestion(answer'.envelope.findings, answer'.fixture)
    BY <1>1, <2>1, <2>3
  <2> QED
    BY <1>1, <1>5, <2>4 DEF SameAnswer, SameToQuestion
<1> QED
  BY <1>3, <1>4, <1>5 DEF TableLenses

\* What the engine answers to a question, and what it draws and counts of the
\* graph and its gaps, from a database that held the served snapshot at every
\* query, is the answer of the in-memory analytics, for any bundles, requests
\* and limits, where the live program promises the fixture's answer.
THEOREM TablesAgree ==
    Spec => [](Answered /\ answer.asked.lens \in {"graph", "gaps", "gap_paths", "question"}
                  => LiveAgrees)
<1>1. Init => Served /\ RowsInv /\ RowsFromServed /\ TableAgrees
  <2> SUFFICES ASSUME Init PROVE Served /\ RowsInv /\ RowsFromServed /\ TableAgrees
    OBVIOUS
  <2>1. /\ rows = <<>> /\ rows \in Seq({}) /\ request = NoRequest /\ scene \in Scenes
        /\ failed = {} /\ seen = {} /\ asked = 0 /\ failures = 0 /\ answer = NoRequest
    BY DEF Init
  <2> QED
    BY <2>1, LensAssumption DEF Served, RowsInv, RowsFromServed, TableAgrees, Answered
<1>2. Served /\ RowsInv /\ RowsFromServed /\ TableAgrees /\ [Next]_vars
      => Served' /\ RowsInv' /\ RowsFromServed' /\ TableAgrees'
  <2> SUFFICES ASSUME Served, RowsInv, RowsFromServed, TableAgrees, [Next]_vars
               PROVE  Served' /\ RowsInv' /\ RowsFromServed' /\ TableAgrees'
    OBVIOUS
  <2>1. Served' /\ RowsInv' /\ RowsFromServed'
    BY ServedStep, RowsStep, RowsFromServedStep
  <2>2. CASE Respond
    BY <2>1, <2>2, TableAnswers
  <2>3. CASE ~Respond
    <3>1. UNCHANGED <<scene, answer>>
      BY <2>3 DEF Next, vars, StartSeed, SeedNext, Ask, RunQuery, QueryFails
    <3>2. UNCHANGED served
      BY <3>1 DEF served
    <3>3. TableAgrees' = TableAgrees
      BY <3>1, <3>2 DEF TableAgrees, LiveAgrees, Answered, Quiet, Comparable, SameAnswer,
                        RowsAbout, DistancesFit, ResolvedPairs
    <3> QED
      BY <2>1, <3>3
  <2> QED
    BY <2>2, <2>3
<1>3. TableAgrees => (Answered /\ answer.asked.lens \in {"graph", "gaps", "gap_paths", "question"}
                        => LiveAgrees)
  BY DEF TableAgrees, TableLenses
<1> QED
  BY <1>1, <1>2, <1>3, PTL DEF Spec

-----------------------------------------------------------------------------
(* Distances.  The faultlines count them by spreading over the sets of     *)
(* people who talk, the engine by a shortest path in the graph.            *)

\* Who is met at the first k levels.
Upto(met, k) == UNION {met[j] : j \in 1..k}

LEMMA UptoGrows ==
    ASSUME NEW g, NEW s, NEW n, NEW met, Searched(g, s, n, met), NEW k \in 1..n
    PROVE  Upto(met, k + 1) = Upto(met, k) \union UNION {g[m] : m \in Upto(met, k)}
<1>1. n \in Nat /\ \A i \in 1..n : met[i + 1] = Fresh(g, met, i)
  BY DEF Searched, IsMet
<1>2. \A x : x \in Upto(met, k + 1) <=> x \in Upto(met, k) \/ x \in met[k + 1]
  <2>1. \A j : j \in 1..(k + 1) <=> j \in 1..k \/ j = k + 1
    BY <1>1
  <2> QED
    BY <2>1 DEF Upto
<1>3. ASSUME NEW x \in met[k + 1]  PROVE \E m \in Upto(met, k) : x \in g[m]
  <2>1. PICK m \in met[k] : x \in g[m]
    BY <1>1, <1>3 DEF Fresh
  <2>2. k \in 1..k
    BY <1>1
  <2> QED
    BY <2>1, <2>2 DEF Upto
<1>4. ASSUME NEW m \in Upto(met, k), NEW x \in g[m]  PROVE x \in Upto(met, k + 1)
  <2>1. PICK j \in 1..k : m \in met[j]
    BY DEF Upto
  <2>2. j \in 1..n /\ j + 1 \in 1..(k + 1) /\ \A i \in 1..j : i \in 1..(k + 1)
    BY <1>1
  <2>3. CASE \E i \in 1..j : x \in met[i]
    BY <2>2, <2>3 DEF Upto
  <2>4. CASE ~\E i \in 1..j : x \in met[i]
    <3>1. x \in Fresh(g, met, j)
      BY <2>1, <2>4 DEF Fresh
    <3>2. x \in met[j + 1]
      BY <1>1, <2>2, <3>1
    <3> QED
      BY <2>2, <3>2 DEF Upto
  <2> QED
    BY <2>3, <2>4
<1> QED
  BY <1>2, <1>3, <1>4

LEMMA UptoIs ==
    ASSUME NEW met, NEW n \in Nat, Apart(met, n), NEW i \in 1..(n + 1), NEW x \in met[i],
           NEW k \in 1..(n + 1)
    PROVE  x \in Upto(met, k) <=> i <= k
<1>1. i <= k => i \in 1..k
  OBVIOUS
<1>2. ASSUME NEW j \in 1..k, x \in met[j]  PROVE i <= k
  <2>1. j \in 1..(n + 1)
    OBVIOUS
  <2>2. i = j
    BY <1>2, <2>1 DEF Apart
  <2> QED
    BY <2>2
<1> QED
  BY <1>1, <1>2 DEF Upto

\* Everybody is resolved, and who talks is somebody.
Talking(b) ==
    /\ IsFiniteSet(b.people) /\ b.people \subseteq Int /\ b.strangers = {}
    /\ \A c \in b.calls : {c.from, c.to} \subseteq b.people

Contacts(b) == {{c.from, c.to} : c \in b.calls}

LEMMA GraphOfTalking ==
    ASSUME NEW b, Talking(b)
    PROVE  /\ Undirected(communication_graph(b))
           /\ DOMAIN communication_graph(b) = b.people
           /\ \A x, y \in b.people : y \in communication_graph(b)[x] <=> {x, y} \in Contacts(b)
<1> DEFINE g == communication_graph(b)
           E == Contacts(b)
           P == b.people
           Q == Endpoints(b.calls)
<1>1. Q \subseteq P
  BY DEF Talking, Endpoints
<1>2. \A x, y : {x, y} \in E => y \in Q
  BY DEF Endpoints, Contacts
<1>3. g = [x \in P |-> {y \in Q : {x, y} \in E}]
  <2>1. \A x, y : {x, y} \in E <=> \E c \in b.calls : {c.from, c.to} = {x, y}
    BY DEF Contacts
  <2>2. g = [x \in P \union Q |-> {y \in Q : \E c \in b.calls : {c.from, c.to} = {x, y}}]
    BY DEF communication_graph
  <2>3. P \union Q = P
    BY <1>1
  <2> HIDE DEF E, P, Q, g
  <2>4. \A x \in P : {y \in Q : \E c \in b.calls : {c.from, c.to} = {x, y}} = {y \in Q : {x, y} \in E}
    BY <2>1, Zenon
  <2>5. g = [x \in P |-> {y \in Q : \E c \in b.calls : {c.from, c.to} = {x, y}}]
    BY <2>2, <2>3, Zenon
  <2> QED
    BY <2>4, <2>5, Zenon
<1>4. \A x, y : {x, y} = {y, x}
  OBVIOUS
<1>5. IsFiniteSet(P) /\ P \subseteq Int
  BY DEF Talking
<1> HIDE DEF E, P, Q, g
<1>6. DOMAIN g = P /\ \A x \in P : g[x] = {y \in Q : {x, y} \in E}
  BY <1>3
<1>7. \A x \in P : \A y : y \in g[x] <=> {x, y} \in E
  BY <1>2, <1>6, Zenon
<1>8. g \in [P -> SUBSET P]
  BY <1>1, <1>3
<1>9. \A x, y \in P : y \in g[x] <=> x \in g[y]
  BY <1>4, <1>7, Zenon
<1>10. Undirected(g)
  BY <1>5, <1>6, <1>8, <1>9, Zenon DEF Undirected
<1> QED
  BY <1>6, <1>7, <1>10, Zenon DEF g, P, E

Bare(b) == Analysis(b)!Fresh(1)

LEMMA BareEdges ==
    ASSUME NEW b
    PROVE  /\ Analysis(b)!communication_graph(Bare(b)) = Contacts(b)
           /\ Analysis(b)!Data(Bare(b)) = AsSource(b)
           /\ Analysis(b)!owner_edges(Bare(b)) = b.owns
<1>1. Analysis(b)!Data(Bare(b)) = AsSource(b) /\ Bare(b).overlays = {}
  BY DEF Analysis!Data, Analysis!Fresh, Bare
<1>2. /\ AsSource(b).communicates = Contacts(b)
      /\ AsSource(b).owns = b.owns
  BY DEF AsSource, Contacts
<1> QED
  BY <1>1, <1>2 DEF Analysis!communication_graph, Analysis!BridgeEnds, Analysis!owner_edges

\* One spread is one level more.
LEMMA SpreadIsLevel ==
    ASSUME NEW b, Talking(b), NEW s, NEW n, NEW met,
           Searched(communication_graph(b), s, n, met), NEW k \in 1..n
    PROVE  Analysis(b)!Spread(Contacts(b), Upto(met, k)) = Upto(met, k + 1)
<1> DEFINE g == communication_graph(b)
           E == Contacts(b)
           U == Upto(met, k)
<1>1. /\ Undirected(g) /\ DOMAIN g = b.people
      /\ \A x, y \in b.people : y \in g[x] <=> {x, y} \in E
  BY GraphOfTalking
<1>2. Upto(met, k + 1) = U \union UNION {g[m] : m \in U}
  BY UptoGrows
<1>3. Analysis(b)!Spread(E, U)
        = U \union {q \in b.people \union b.strangers : \E p \in U : {p, q} \in E}
  BY DEF Analysis!Spread
<1>4. b.people \union b.strangers = b.people
  BY DEF Talking
<1> HIDE DEF E, g
<1>5. U \subseteq b.people
  <2>1. met \in Seq(SUBSET DOMAIN g) /\ Len(met) = n + 1 /\ n \in Nat
    BY DEF Searched, IsMet, g
  <2>2. \A j \in 1..k : met[j] \subseteq DOMAIN g
    BY <2>1
  <2> QED
    BY <1>1, <2>2 DEF Upto
<1> HIDE DEF U
<1>6. \A x \in b.people : g[x] \subseteq b.people
  BY <1>1 DEF Undirected
<1>7. {q \in b.people : \E p \in U : {p, q} \in E} = UNION {g[m] : m \in U}
  BY <1>1, <1>5, <1>6
<1>8. Analysis(b)!Spread(E, U) = U \union {q \in b.people : \E p \in U : {p, q} \in E}
  BY <1>3, <1>4
<1> QED
  BY <1>2, <1>7, <1>8 DEF E, U

\* What the faultlines count is the level at which the search meets somebody.
LEMMA DistanceIs ==
    ASSUME NEW b, Talking(b), NEW p \in b.people, NEW q \in b.people, p # q,
           NEW met, Searched(communication_graph(b), p, 4, met)
    PROVE  /\ \A i \in 1..5 : q \in met[i] =>
                  Analysis(b)!bounded_distance(Bare(b), p, q) = i - 1
           /\ ~Reached(met, 4, q) =>
                  Analysis(b)!bounded_distance(Bare(b), p, q) = Analysis(b)!NoPath
<1> DEFINE E == Contacts(b)
           d == Analysis(b)!bounded_distance(Bare(b), p, q)
           none == Analysis(b)!NoPath
<1>1. /\ Analysis(b)!communication_graph(Bare(b)) = E
      /\ Analysis(b)!InGraph(Bare(b), p) /\ Analysis(b)!InGraph(Bare(b), q)
  <2>1. Analysis(b)!Data(Bare(b)).resolved = b.people
    BY BareEdges DEF AsSource
  <2> QED
    BY <2>1, BareEdges DEF Analysis!InGraph
<1>2. met[1] = {p} /\ Apart(met, 4)
  BY AllApart DEF Searched, IsMet
<1>3. Upto(met, 1) = {p}
  <2>1. \A j : j \in 1..1 <=> j = 1
    OBVIOUS
  <2> QED
    BY <1>2, <2>1 DEF Upto
<1>4. /\ Analysis(b)!Spread(E, Upto(met, 1)) = Upto(met, 2)
      /\ Analysis(b)!Spread(E, Upto(met, 2)) = Upto(met, 3)
      /\ Analysis(b)!Spread(E, Upto(met, 3)) = Upto(met, 4)
      /\ Analysis(b)!Spread(E, Upto(met, 4)) = Upto(met, 5)
  <2>1. \A k \in 1..4 : Analysis(b)!Spread(E, Upto(met, k)) = Upto(met, k + 1)
    BY SpreadIsLevel
  <2>2. {1, 2, 3, 4} \subseteq 1..4 /\ 1 + 1 = 2 /\ 2 + 1 = 3 /\ 3 + 1 = 4 /\ 4 + 1 = 5
    OBVIOUS
  <2> HIDE DEF E
  <2> QED
    BY <2>1, <2>2
<1>5. d = IF q \in Upto(met, 2) THEN 1 ELSE IF q \in Upto(met, 3) THEN 2
          ELSE IF q \in Upto(met, 4) THEN 3 ELSE IF q \in Upto(met, 5) THEN 4 ELSE none
  <2> HIDE DEF E
  <2> QED
    BY <1>1, <1>3, <1>4, Zenon DEF Analysis!bounded_distance
<1> HIDE DEF d, E, none
<1>6. ASSUME NEW i \in 1..5, q \in met[i]  PROVE d = i - 1
  <2>1. i # 1
    BY <1>2, <1>6
  <2>2. \A k \in 1..5 : q \in Upto(met, k) <=> i <= k
    <3>1. 1..5 = 1..(4 + 1) /\ 4 \in Nat
      OBVIOUS
    <3> QED
      BY <1>2, <1>6, <3>1, UptoIs
  <2>3. /\ q \in Upto(met, 2) <=> i <= 2
        /\ q \in Upto(met, 3) <=> i <= 3
        /\ q \in Upto(met, 4) <=> i <= 4
        /\ q \in Upto(met, 5) <=> i <= 5
    BY <2>2
  <2>4. CASE i = 2
    <3>1. q \in Upto(met, 2) /\ i - 1 = 1
      BY <2>3, <2>4
    <3> QED
      BY <1>5, <3>1, Zenon
  <2>5. CASE i = 3
    <3>1. q \notin Upto(met, 2) /\ q \in Upto(met, 3) /\ i - 1 = 2
      BY <2>3, <2>5
    <3> QED
      BY <1>5, <3>1, Zenon
  <2>6. CASE i = 4
    <3>1. /\ q \notin Upto(met, 2) /\ q \notin Upto(met, 3) /\ q \in Upto(met, 4)
          /\ i - 1 = 3
      BY <2>3, <2>6
    <3> QED
      BY <1>5, <3>1, Zenon
  <2>7. CASE i = 5
    <3>1. /\ q \notin Upto(met, 2) /\ q \notin Upto(met, 3) /\ q \notin Upto(met, 4)
          /\ q \in Upto(met, 5) /\ i - 1 = 4
      BY <2>3, <2>7
    <3> QED
      BY <1>5, <3>1, Zenon
  <2> QED
    BY <2>1, <2>4, <2>5, <2>6, <2>7
<1>7. ASSUME ~Reached(met, 4, q)  PROVE d = none
  <2>1. \A j \in 1..5 : q \notin met[j]
    BY <1>7 DEF Reached
  <2>2. \A k \in 1..5 : q \notin Upto(met, k)
    BY <2>1 DEF Upto
  <2> QED
    BY <1>5, <2>2
<1> QED
  BY <1>6, <1>7 DEF d, none

Distance(b, p, q) == Analysis(b)!bounded_distance(Bare(b), p, q)

\* And the length of the bridge that the engine finds between two people.
LEMMA BridgeDistance ==
    ASSUME NEW b, Talking(b), NEW a \in b.people, NEW c \in b.people, a # c
    PROVE  LET bridge == shortest_communication_bridge(communication_graph(b), a, c, MaxLength)
           IN  /\ bridge = <<>> => Distance(b, a, c) = Analysis(b)!NoPath
               /\ bridge # <<>> => /\ bridge[1] = a /\ Last(bridge) = c
                                   /\ Len(bridge) \in 2..5
                                   /\ Distance(b, a, c) = Len(bridge) - 1
               /\ Distance(b, c, a) = Distance(b, a, c)
<1> DEFINE g == communication_graph(b)
           met == levels(g, a, 4)
           back == levels(g, c, 4)
           paths == all_shortest_paths(g, a, c, 4)
           bridge == shortest_communication_bridge(g, a, c, 4)
           none == Analysis(b)!NoPath
           there == Analysis(b)!bounded_distance(Bare(b), a, c)
           here == Analysis(b)!bounded_distance(Bare(b), c, a)
<1>1. Undirected(g) /\ DOMAIN g = b.people
  BY GraphOfTalking
<1>2. Searched(g, a, 4, met) /\ Searched(g, c, 4, back)
  BY <1>1, LevelsSearched
<1>3. paths = GeodesicsTo(g, met, c)
  BY <1>1, ShortestAreGeodesics
<1>4. (bridge = <<>>) = (paths = {}) /\ (paths # {} => bridge \in paths)
  BY <1>1, BridgeIsLeastPath
<1>5. /\ \A i \in 1..5 : c \in met[i] => there = i - 1
      /\ ~Reached(met, 4, c) => there = none
  BY <1>2, DistanceIs
<1>6. /\ \A i \in 1..5 : a \in back[i] => here = i - 1
      /\ ~Reached(back, 4, a) => here = none
  BY <1>2, DistanceIs
<1>7. \A i \in 1..5 : (c \in met[i] => a \in back[i]) /\ (a \in back[i] => c \in met[i])
  <2>1. 1..5 = 1..(4 + 1) /\ 4 \in Nat
    OBVIOUS
  <2> QED
    BY <1>1, <2>1, SameDistance
<1> HIDE DEF g, met, back, paths, bridge, none, there, here
<1>8. Reached(met, 4, c) <=> \E i \in 1..5 : c \in met[i]
  BY DEF Reached
<1>9. Reached(back, 4, a) <=> \E i \in 1..5 : a \in back[i]
  BY DEF Reached
<1>10. here = there
  BY <1>5, <1>6, <1>7, <1>8, <1>9
<1>11. ASSUME bridge = <<>>  PROVE there = none
  <2>1. GeodesicsTo(g, met, c) = {}
    BY <1>3, <1>4, <1>11
  <2>2. ~Reached(met, 4, c)
    BY <1>1, <1>2, <2>1, ReachedByGeodesic
  <2> QED
    BY <1>5, <2>2
<1>12. ASSUME bridge # <<>>
       PROVE  /\ bridge[1] = a /\ Last(bridge) = c /\ Len(bridge) \in 2..5
              /\ there = Len(bridge) - 1
  <2>1. bridge \in GeodesicsTo(g, met, c)
    BY <1>3, <1>4, <1>12
  <2>2. Walk(g, 4, bridge) /\ bridge[1] = a /\ bridge[Len(bridge)] = c
    BY <1>2, <2>1, GeodesicIsWalk
  <2>3. Last(bridge) = c /\ c \in met[Len(bridge)]
    BY <2>1, GeodesicEnds DEF GeodesicsTo
  <2>4. Len(bridge) \in 1..5 /\ Len(bridge) # 1
    BY <2>2 DEF Walk
  <2>5. Len(bridge) \in 2..5
    BY <2>4
  <2> QED
    BY <1>5, <2>2, <2>3, <2>4, <2>5
<1>13. MaxLength = 4
  BY DEF MaxLength
<1> QED
  BY <1>10, <1>11, <1>12, <1>13 DEF g, bridge, none, there, here, Distance

\* A faultline is between two people who are not the same.
LEMMA FaultlineIs ==
    ASSUME NEW b, Talking(b), \A e \in b.owns : e.owner \in b.people,
           NEW f \in fixture_faultlines(b)
    PROVE  /\ f.finding.sourceOwner \in b.people /\ f.finding.targetOwner \in b.people
           /\ f.finding.sourceOwner # f.finding.targetOwner
           /\ f.distance = Distance(b, f.finding.sourceOwner, f.finding.targetOwner)
           /\ f.tier = Analysis(b)!faultline_tier(f.distance) /\ f.tier # "coordinated"
           /\ f = [finding |-> f.finding, tier |-> f.tier, distance |-> f.distance]
<1>1. PICK x \in Analysis(b)!faultlines(Bare(b)) :
         f = [finding |-> x.finding, tier |-> x.tier, distance |-> x.distance]
  BY DEF fixture_faultlines, Bare
<1>2. PICK d : \E s \in Analysis(b)!module_owners(Bare(b), d.source) :
                  \E t \in Analysis(b)!module_owners(Bare(b), d.target) :
                     x = Analysis(b)!FaultlineOf(Bare(b), d, s, t) /\ x.tier # "coordinated"
  BY DEF Analysis!faultlines
<1>3. PICK s \in Analysis(b)!module_owners(Bare(b), d.source),
           t \in Analysis(b)!module_owners(Bare(b), d.target) :
         x = Analysis(b)!FaultlineOf(Bare(b), d, s, t) /\ x.tier # "coordinated"
  BY <1>2
<1>4. \A m : \A e \in Analysis(b)!module_owners(Bare(b), m) : e.owner \in b.people
  <2>1. \A m : Analysis(b)!module_owners(Bare(b), m) \subseteq Analysis(b)!owner_edges(Bare(b))
    BY DEF Analysis!module_owners, Analysis!considered
  <2> QED
    BY <2>1, BareEdges
<1>5. /\ x.finding.sourceOwner = s.owner /\ x.finding.targetOwner = t.owner
      /\ x.distance = Distance(b, s.owner, t.owner)
      /\ x.tier = Analysis(b)!faultline_tier(x.distance)
  BY <1>3 DEF Analysis!FaultlineOf, Distance
<1>6. s.owner \in b.people /\ t.owner \in b.people
  BY <1>4
<1>7. ASSUME s.owner = t.owner  PROVE FALSE
  <2>1. Analysis(b)!InGraph(Bare(b), s.owner)
    <3>1. Analysis(b)!Data(Bare(b)).resolved = b.people
      BY BareEdges DEF AsSource
    <3> QED
      BY <1>6, <3>1 DEF Analysis!InGraph
  <2>2. Distance(b, s.owner, t.owner) = 0
    BY <1>7, <2>1 DEF Distance, Analysis!bounded_distance
  <2>3. 0 # Analysis(b)!NoPath /\ ~(0 >= Analysis(b)!WeakDistance)
    BY DEF Analysis!NoPath, Analysis!MaxLen, Analysis!WeakDistance
  <2>4. x.tier = "coordinated"
    BY <1>5, <2>2, <2>3 DEF Analysis!faultline_tier
  <2> QED
    BY <1>3, <2>4
<1> QED
  BY <1>1, <1>3, <1>5, <1>6, <1>7

\* Of a set of numbers, and of a pair.
LEMMA MinOfPair ==
    ASSUME NEW x \in Int, NEW y \in Int
    PROVE  /\ Min({x, y}) \in {x, y} /\ Max({x, y}) \in {x, y}
           /\ {Min({x, y}), Max({x, y})} = {x, y}
           /\ \A n \in {x, y} : Min({x, y}) <= n
<1> DEFINE S == {x, y}
<1>1. (\E n \in S : \A m \in S : n <= m) /\ (\E n \in S : \A m \in S : n >= m)
  <2>1. CASE x <= y
    BY <2>1
  <2>2. CASE y <= x
    BY <2>2
  <2> QED
    BY <2>1, <2>2
<1>2. /\ Min(S) \in S /\ \A m \in S : Min(S) <= m
      /\ Max(S) \in S /\ \A m \in S : Max(S) >= m
  <2> HIDE DEF S
  <2> QED
    BY <1>1, Zenon DEF Min, Max
<1> QED
  BY <1>2

Nearer(b) == {Min(e) : e \in ResolvedPairs(b)}
Farther(b) == {Max(e) : e \in ResolvedPairs(b)}

AllResolved(b) == Talking(b) /\ \A e \in b.owns : e.owner \in b.people

LEMMA PairsOfPeople ==
    ASSUME NEW b, AllResolved(b)
    PROVE  /\ OwnerPairs(b) \subseteq SUBSET b.people /\ ResolvedPairs(b) = OwnerPairs(b)
           /\ Nearer(b) \subseteq b.people /\ Farther(b) \subseteq b.people
<1>1. \A f \in fixture_faultlines(b) :
          f.finding.sourceOwner \in b.people /\ f.finding.targetOwner \in b.people
  BY FaultlineIs DEF AllResolved
<1>2. ResolvedPairs(b) = OwnerPairs(b) /\ OwnerPairs(b) \subseteq SUBSET b.people
  BY <1>1 DEF ResolvedPairs, OwnerPairs
<1>3. ASSUME NEW e \in ResolvedPairs(b)  PROVE Min(e) \in b.people /\ Max(e) \in b.people
  <2>1. PICK f \in fixture_faultlines(b) :
           e = {f.finding.sourceOwner, f.finding.targetOwner}
    BY <1>3 DEF ResolvedPairs, OwnerPairs
  <2> DEFINE x == f.finding.sourceOwner
             y == f.finding.targetOwner
  <2>2. x \in b.people /\ y \in b.people /\ x \in Int /\ y \in Int
    BY <1>1 DEF AllResolved, Talking
  <2> HIDE DEF x, y
  <2>3. Min({x, y}) \in {x, y} /\ Max({x, y}) \in {x, y}
    BY <2>2, MinOfPair
  <2>4. e = {x, y}
    BY <2>1 DEF x, y
  <2> QED
    BY <2>2, <2>3, <2>4
<1> QED
  BY <1>2, <1>3 DEF Nearer, Farther

\* A path that was found leads from one of its ends to the other, and as far
\* as they are apart.
LEMMA PathOfPair ==
    ASSUME NEW b, AllResolved(b), NEW p \in DistancePaths(b, Nearer(b), Farther(b)),
           NEW x \in b.people, NEW y \in b.people, x # y, {p[1], Last(p)} = {x, y}
    PROVE  Len(p) - 1 = Distance(b, x, y)
<1> DEFINE g == communication_graph(b)
<1>1. PICK a \in Nearer(b), c \in Farther(b) :
         p = shortest_communication_bridge(g, a, c, MaxLength) /\ p # <<>>
  <2>1. \E e \in Nearer(b) \X Farther(b) :
           p = shortest_communication_bridge(g, e[1], e[2], MaxLength) /\ p # <<>>
    BY DEF DistancePaths, DatabaseGraph
  <2> QED
    BY <2>1
<1>2. a \in b.people /\ c \in b.people /\ Talking(b)
  BY PairsOfPeople DEF AllResolved
<1>3. CASE a = c
  <2>1. Undirected(g) /\ DOMAIN g = b.people
    BY <1>2, GraphOfTalking
  <2>2. MaxLength = 4 /\ 4 \in Nat
    BY DEF MaxLength
  <2>3. all_shortest_paths(g, a, a, 4) = GeodesicsTo(g, levels(g, a, 4), a)
    BY <1>2, <2>1, ShortestAreGeodesics
  <2>4. GeodesicsTo(g, levels(g, a, 4), a) = {<<a>>}
    BY <1>2, <2>1, LevelsSearched, SourceGeodesics DEF Searched
  <2>5. shortest_communication_bridge(g, a, a, 4) \in all_shortest_paths(g, a, a, 4)
    BY <1>2, <2>1, <2>3, <2>4, BridgeIsLeastPath
  <2> HIDE DEF g
  <2>6. p = <<a>>
    BY <1>1, <1>3, <2>2, <2>3, <2>4, <2>5
  <2>7. p[1] = a /\ Last(p) = a
    BY <2>6 DEF Last
  <2> QED
    BY <2>7
<1>4. CASE a # c
  <2>1. /\ p[1] = a /\ Last(p) = c /\ Distance(b, a, c) = Len(p) - 1
        /\ Distance(b, c, a) = Distance(b, a, c)
    BY <1>1, <1>2, <1>4, BridgeDistance
  <2>2. {a, c} = {x, y}
    BY <2>1, Zenon
  <2>3. (x = a /\ y = c) \/ (x = c /\ y = a)
    <3>1. \A i, j, k, l : {i, j} = {k, l} => (k = i /\ l = j) \/ (k = j /\ l = i)
      OBVIOUS
    <3> QED
      BY <2>2, <3>1, Zenon
  <2> QED
    BY <2>1, <2>3, Zenon
<1> QED
  BY <1>3, <1>4

\* Whoever has no path is not connected.
LEMMA NoPathOfPair ==
    ASSUME NEW b, AllResolved(b), NEW x \in b.people, NEW y \in b.people, x # y,
           {x, y} \in ResolvedPairs(b),
           \A p \in DistancePaths(b, Nearer(b), Farther(b)) :
              ~(Len(p) > 1 /\ {p[1], Last(p)} = {x, y})
    PROVE  Distance(b, x, y) = Analysis(b)!NoPath
<1> DEFINE g == communication_graph(b)
           a == Min({x, y})
           c == Max({x, y})
           bridge == shortest_communication_bridge(g, a, c, MaxLength)
<1>1. Talking(b) /\ x \in Int /\ y \in Int
  BY DEF AllResolved, Talking
<1>2. a \in {x, y} /\ {a, c} = {x, y}
  BY <1>1, MinOfPair
<1>3. a \in Nearer(b) /\ c \in Farther(b)
  BY DEF Nearer, Farther
<1> HIDE DEF a, c
<1>4. a \in b.people /\ c \in b.people /\ a # c /\ ((x = a /\ y = c) \/ (x = c /\ y = a))
  BY <1>2
<1>5. /\ bridge = <<>> => Distance(b, a, c) = Analysis(b)!NoPath
      /\ bridge # <<>> => bridge[1] = a /\ Last(bridge) = c /\ Len(bridge) \in 2..5
      /\ Distance(b, c, a) = Distance(b, a, c)
  BY <1>1, <1>4, BridgeDistance
<1>6. bridge = <<>> \/ bridge \in DistancePaths(b, Nearer(b), Farther(b))
  <2>1. <<a, c>> \in Nearer(b) \X Farther(b) /\ <<a, c>>[1] = a /\ <<a, c>>[2] = c
    BY <1>3
  <2> QED
    BY <2>1 DEF DistancePaths, DatabaseGraph
<1> HIDE DEF bridge
<1>7. bridge = <<>>
  <2> SUFFICES ASSUME bridge # <<>> PROVE FALSE
    OBVIOUS
  <2>1. Len(bridge) > 1 /\ {bridge[1], Last(bridge)} = {x, y}
    BY <1>2, <1>5
  <2> QED
    BY <1>6, <2>1
<1> QED
  BY <1>4, <1>5, <1>7

\* What with_live_distances makes of a finding.
LiveOf(b, paths, f) ==
    LET ends == {f.finding.sourceOwner, f.finding.targetOwner}
        of   == {p \in paths : Len(p) > 1 /\ {p[1], Last(p)} = ends}
        d    == IF of = {} THEN Analysis(b)!NoPath ELSE Len(CHOOSE p \in of : TRUE) - 1
    IN  [f EXCEPT !.distance = d, !.tier = Analysis(b)!faultline_tier(d)]

LEMMA LiveDistances ==
    ASSUME NEW b, AllResolved(b)
    PROVE  with_live_distances(b, DistancePaths(b, Nearer(b), Farther(b))) = fixture_faultlines(b)
<1> DEFINE paths == DistancePaths(b, Nearer(b), Farther(b))
<1>1. ASSUME NEW f \in fixture_faultlines(b)  PROVE LiveOf(b, paths, f) = f /\ f.tier # "coordinated"
  <2> DEFINE x == f.finding.sourceOwner
             y == f.finding.targetOwner
             of == {p \in paths : Len(p) > 1 /\ {p[1], Last(p)} = {x, y}}
             d == IF of = {} THEN Analysis(b)!NoPath ELSE Len(CHOOSE p \in of : TRUE) - 1
  <2>1. /\ x \in b.people /\ y \in b.people /\ x # y
        /\ f.distance = Distance(b, x, y)
        /\ f.tier = Analysis(b)!faultline_tier(f.distance) /\ f.tier # "coordinated"
        /\ f = [finding |-> f.finding, tier |-> f.tier, distance |-> f.distance]
    BY FaultlineIs DEF AllResolved
  <2>2. {x, y} \in ResolvedPairs(b)
    BY PairsOfPeople DEF OwnerPairs
  <2>3. LiveOf(b, paths, f) = [f EXCEPT !.distance = d, !.tier = Analysis(b)!faultline_tier(d)]
    BY DEF LiveOf
  <2>4. d = Distance(b, x, y)
    <3> HIDE DEF x, y, paths
    <3>1. CASE of = {}
      <4>1. \A p \in paths : ~(Len(p) > 1 /\ {p[1], Last(p)} = {x, y})
        BY <3>1
      <4>2. Distance(b, x, y) = Analysis(b)!NoPath
        BY <2>1, <2>2, <4>1, NoPathOfPair DEF paths
      <4> QED
        BY <3>1, <4>2
    <3>2. CASE of # {}
      <4> DEFINE p == CHOOSE q \in of : TRUE
      <4>1. p \in paths /\ {p[1], Last(p)} = {x, y}
        BY <3>2
      <4> HIDE DEF p
      <4>2. Len(p) - 1 = Distance(b, x, y)
        BY <2>1, <4>1, PathOfPair DEF paths
      <4> QED
        BY <3>2, <4>2 DEF p
    <3> QED
      BY <3>1, <3>2
  <2> HIDE DEF d, x, y, paths
  <2>5. LiveOf(b, paths, f)
          = [finding |-> f.finding, tier |-> Analysis(b)!faultline_tier(d), distance |-> d]
    BY <2>1, <2>3
  <2> QED
    BY <2>1, <2>4, <2>5
<1>2. with_live_distances(b, paths)
        = {z \in {LiveOf(b, paths, f) : f \in fixture_faultlines(b)} : z.tier # "coordinated"}
  BY DEF with_live_distances, LiveOf
<1> HIDE DEF paths
<1>3. with_live_distances(b, paths) = fixture_faultlines(b)
  BY <1>1, <1>2
<1> QED
  BY <1>3 DEF paths

\* Rows that are as many as the paths are all of them.
LEMMA AllDistances ==
    ASSUME NEW b, AllResolved(b), NEW limit, limit = Max({1, Cardinality(OwnerPairs(b))}),
           NEW r \in DistanceRows(b, Nearer(b), Farther(b), limit),
           Cardinality(DistancePaths(b, Nearer(b), Farther(b))) <= limit
    PROVE  r = DistancePaths(b, Nearer(b), Farther(b))
<1> DEFINE g == communication_graph(b)
           pairs == Nearer(b) \X Farther(b)
           bridge == [e \in pairs |-> shortest_communication_bridge(g, e[1], e[2], MaxLength)]
           all == {bridge[e] : e \in pairs}
           paths == DistancePaths(b, Nearer(b), Farther(b))
<1>1. IsFiniteSet(b.people)
  BY DEF AllResolved, Talking
<1>2. IsFiniteSet(OwnerPairs(b))
  BY <1>1, FS_SUBSET, FS_Subset, PairsOfPeople
<1>3. IsFiniteSet(pairs)
  BY <1>1, FS_Subset, FS_Product, PairsOfPeople
<1>4. paths = all \ {<<>>}
  BY DEF DistancePaths, DatabaseGraph
<1> HIDE DEF pairs, bridge, paths
<1>5. IsFiniteSet(paths)
  <2>1. DOMAIN bridge = pairs
    BY DEF bridge
  <2> HIDE DEF all
  <2>2. bridge \in Surjection(pairs, all)
    <3> USE DEF all
    <3>1. bridge \in [pairs -> all] /\ \A t \in all : \E e \in pairs : bridge[e] = t
      BY <2>1 DEF bridge
    <3> QED
      BY <3>1 DEF Surjection
  <2>3. IsFiniteSet(all)
    BY <1>3, <2>2, FS_Surjection
  <2>4. paths \in SUBSET all
    BY <1>4
  <2> QED
    BY <2>3, <2>4, FS_Subset
<1>6. r \in SUBSET paths /\ Cardinality(r) = Min({limit, Cardinality(paths)})
  BY DEF DistanceRows, paths
<1>7. Cardinality(OwnerPairs(b)) \in Nat /\ Cardinality(paths) \in Nat
  BY <1>2, <1>5, FS_CardinalityType
<1>8. limit \in Nat
  BY <1>7, LimitIsEnough
<1>9. Min({limit, Cardinality(paths)}) = Cardinality(paths)
  <2> DEFINE m == Cardinality(paths)
  <2>1. m \in Int /\ limit \in Int /\ m <= limit
    BY <1>7, <1>8 DEF paths
  <2> HIDE DEF m
  <2>2. Min({limit, m}) \in {limit, m} /\ \A n \in {limit, m} : Min({limit, m}) <= n
    BY <2>1, MinOfPair
  <2>3. Min({limit, m}) = m
    BY <2>1, <2>2
  <2> QED
    BY <2>3 DEF m
<1>10. r = paths
  BY <1>5, <1>6, <1>9, FS_Subset
<1> QED
  BY <1>10 DEF paths

\* While the engine held what is served, the distances are of its people.
DistancesServed ==
    request # NoRequest /\ request.lens = "faultlines" /\ seen \subseteq {"served"}
        /\ failed = {} /\ Len(rows) >= 1 =>
      rows[1] \in DistanceRows(served, Nearer(Windowed), Farther(Windowed),
                               Max({1, Cardinality(OwnerPairs(Windowed))}))

LEMMA OneDistanceMore ==
    ASSUME RowsInv, DistancesServed, request # NoRequest, ~Complete, NEW r,
           rows' = Append(rows, r), UNCHANGED <<scene, request>>,
           failed' # {} \/ /\ failed' = failed /\ seen' = seen \union {Contents}
                           /\ r \in Results(Queries[Next1])
    PROVE  DistancesServed'
<1>1. PICK S : rows \in Seq(S)
  BY DEF RowsInv
<1>2. /\ Len(rows') = Len(rows) + 1 /\ Len(rows) \in Nat
      /\ \A i \in 1..Len(rows) : rows'[i] = rows[i]
      /\ rows'[Len(rows) + 1] = r
  BY <1>1, Appended
<1>3. served' = served /\ Windowed' = Windowed
  BY DEF served, Windowed
<1>4. ResolvedPairs(Windowed)' = ResolvedPairs(Windowed) /\ OwnerPairs(Windowed)' = OwnerPairs(Windowed)
  BY <1>3
<1> DEFINE R(d) == DistanceRows(d, Nearer(Windowed), Farther(Windowed),
                                Max({1, Cardinality(OwnerPairs(Windowed))}))
<1> SUFFICES ASSUME request.lens = "faultlines", seen' \subseteq {"served"}, failed' = {}
             PROVE  rows'[1] \in R(served)
  BY <1>3, <1>4 DEF DistancesServed
<1>5. /\ seen \subseteq {"served"} /\ Contents = "served" /\ failed = {}
      /\ r \in Results(Queries[Next1])
  OBVIOUS
<1>6. CASE Len(rows) = 0
  <2>1. Next1 = 1 /\ Queries = <<"distances">>
    BY <1>6 DEF Next1, Queries
  <2>2. Queries[Next1] = "distances"
    BY <2>1
  <2>3. Results("distances") = R(db)
    BY DEF Results, Nearer, Farther
  <2>4. R(db) = R(served)
    <3>1. Holds(db, served)
      BY <1>5 DEF Contents
    <3>2. db.people = served.people /\ db.calls = served.calls
      BY <3>1, HeldFields
    <3>3. DatabaseGraph(db) = DatabaseGraph(served)
      BY <3>2 DEF DatabaseGraph, communication_graph
    <3> QED
      BY <3>3 DEF DistanceRows, DistancePaths
  <2> HIDE DEF R
  <2>5. r \in R(served)
    BY <1>5, <2>2, <2>3, <2>4
  <2>6. rows'[1] = r
    BY <1>2, <1>6
  <2> QED
    BY <2>5, <2>6
<1>7. CASE Len(rows) # 0
  <2>1. 1 \in 1..Len(rows) /\ Len(rows) >= 1
    BY <1>2, <1>7
  <2>2. rows[1] \in R(served)
    BY <1>5, <2>1 DEF DistancesServed
  <2> QED
    BY <1>2, <2>1, <2>2
<1> QED
  BY <1>6, <1>7

LEMMA DistancesServedStep ==
    ASSUME RowsInv, DistancesServed, [Next]_vars
    PROVE  DistancesServed'
<1>1. CASE StartSeed \/ SeedNext \/ UNCHANGED vars
  <2>1. UNCHANGED <<scene, request, rows, failed, seen>>
    BY <1>1 DEF StartSeed, SeedNext, vars
  <2>2. served' = served /\ Windowed' = Windowed
    BY <2>1 DEF served, Windowed
  <2> QED
    BY <2>1, <2>2 DEF DistancesServed, Nearer, Farther
<1>2. CASE Ask \/ Respond
  <2>1. rows' = <<>>
    BY <1>2 DEF Ask, Respond
  <2>2. ~(Len(rows') >= 1)
    BY <2>1
  <2> QED
    BY <2>2 DEF DistancesServed
<1>3. CASE RunQuery
  <2>1. PICK r \in Results(Queries[Next1]) : rows' = Append(rows, r)
    BY <1>3 DEF RunQuery
  <2>2. /\ request # NoRequest /\ ~Complete /\ seen' = seen \union {Contents}
        /\ UNCHANGED <<scene, request, failed>>
    BY <1>3 DEF RunQuery
  <2> QED
    BY <2>1, <2>2, OneDistanceMore
<1>4. CASE QueryFails
  <2>1. /\ request # NoRequest /\ ~Complete /\ rows' = Append(rows, {}) /\ failed' # {}
        /\ UNCHANGED <<scene, request>>
    BY <1>4 DEF QueryFails
  <2> QED
    BY <2>1, OneDistanceMore
<1> QED
  BY <1>1, <1>2, <1>3, <1>4 DEF Next

LEMMA SceneResolved ==
    ASSUME Served, served.strangers = {}
    PROVE  AllResolved(served)
<1>1. served = scene.bundle /\ scene \in Scenes
  BY DEF Served, served
<1>2. IsFiniteSet(served.people) /\ served.people \subseteq Int
  BY <1>1, SortAssumption
<1>3. /\ \A c \in served.calls : {c.from, c.to} \subseteq served.people \union served.strangers
      /\ \A e \in served.owns : e.owner \in served.people \union served.strangers
  BY <1>1, EndsAssumption
<1> QED
  BY <1>2, <1>3 DEF AllResolved, Talking

FaultlineAgrees == Answered /\ answer.asked.lens = "faultlines" => LiveAgrees

LEMMA FaultlineAnswers ==
    ASSUME Served, RowsInv, DistancesServed, Respond
    PROVE  FaultlineAgrees'
<1>1. /\ answer'.asked = request /\ answer'.failed = failed /\ answer'.seen = seen
      /\ answer'.fixture = FixtureFindings /\ request # NoRequest
  BY DEF Respond
<1>2. served' = served
  BY DEF Respond, served
<1>3. ResolvedPairs(served)' = ResolvedPairs(served) /\ OwnerPairs(served)' = OwnerPairs(served)
  BY <1>2
<1> SUFFICES ASSUME request.lens = "faultlines", answer'.envelope.engine, failed = {},
                    seen \subseteq {"served"}, Comparable'
             PROVE  SameAnswer(answer.envelope.findings, answer.fixture)'
  BY <1>1 DEF FaultlineAgrees, LiveAgrees, Quiet
<1>4. answer'.envelope = faultline_results /\ FixtureFindings = fixture_faultlines(Windowed)
  BY DEF Respond, FixtureFindings
<1>5. request.days = 0 /\ served.strangers = {} /\ DistancesFit
  BY <1>1, <1>2, <1>3 DEF Comparable, DistancesFit
<1>6. Windowed = served
  BY <1>5 DEF Windowed, window_bundle
<1>7. Returned(1) /\ faultline_results.findings = with_live_distances(served, rows[1])
  BY <1>4, <1>6 DEF faultline_results, Fixture, Live, Envelope
<1>8. rows[1] \in DistanceRows(served, Nearer(served), Farther(served),
                               Max({1, Cardinality(OwnerPairs(served))}))
  BY <1>1, <1>6, <1>7 DEF DistancesServed, Returned
<1>9. AllResolved(served)
  BY <1>5, SceneResolved
<1>10. rows[1] = DistancePaths(served, Nearer(served), Farther(served))
  <2>1. Cardinality(DistancePaths(served, Nearer(served), Farther(served)))
          <= Max({1, Cardinality(OwnerPairs(served))})
    BY <1>5 DEF DistancesFit, Nearer, Farther
  <2> QED
    BY <1>8, <1>9, <2>1, AllDistances
<1>11. faultline_results.findings = FixtureFindings
  BY <1>4, <1>6, <1>7, <1>9, <1>10, LiveDistances
<1> QED
  BY <1>1, <1>4, <1>11 DEF SameAnswer

\* The faultlines with the distances that the engine gave, from a database
\* that held the served snapshot at every query, are those of the in-memory
\* analytics, for any bundles, requests and limits: the bridge between two
\* owners is as long as the search of the analytics is deep when it meets the
\* one from the other, whichever of them a query starts from, and whoever has
\* no bridge is nobody the search meets.
THEOREM FaultlinesAgree ==
    Spec => [](Answered /\ answer.asked.lens = "faultlines" => LiveAgrees)
<1>1. Init => Served /\ RowsInv /\ DistancesServed /\ FaultlineAgrees
  <2> SUFFICES ASSUME Init PROVE Served /\ RowsInv /\ DistancesServed /\ FaultlineAgrees
    OBVIOUS
  <2>1. /\ rows = <<>> /\ rows \in Seq({}) /\ request = NoRequest /\ scene \in Scenes
        /\ failed = {} /\ seen = {} /\ asked = 0 /\ failures = 0 /\ answer = NoRequest
    BY DEF Init
  <2> QED
    BY <2>1, LensAssumption DEF Served, RowsInv, DistancesServed, FaultlineAgrees, Answered
<1>2. Served /\ RowsInv /\ DistancesServed /\ FaultlineAgrees /\ [Next]_vars
      => Served' /\ RowsInv' /\ DistancesServed' /\ FaultlineAgrees'
  <2> SUFFICES ASSUME Served, RowsInv, DistancesServed, FaultlineAgrees, [Next]_vars
               PROVE  Served' /\ RowsInv' /\ DistancesServed' /\ FaultlineAgrees'
    OBVIOUS
  <2>1. Served' /\ RowsInv' /\ DistancesServed'
    BY ServedStep, RowsStep, DistancesServedStep
  <2>2. CASE Respond
    BY <2>1, <2>2, FaultlineAnswers
  <2>3. CASE ~Respond
    <3>1. UNCHANGED <<scene, answer>>
      BY <2>3 DEF Next, vars, StartSeed, SeedNext, Ask, RunQuery, QueryFails
    <3>2. UNCHANGED served
      BY <3>1 DEF served
    <3>3. FaultlineAgrees' = FaultlineAgrees
      BY <3>1, <3>2 DEF FaultlineAgrees, LiveAgrees, Answered, Quiet, Comparable, SameAnswer,
                        DistancesFit, ResolvedPairs
    <3> QED
      BY <2>1, <3>3
  <2> QED
    BY <2>2, <2>3
<1>3. FaultlineAgrees => (Answered /\ answer.asked.lens = "faultlines" => LiveAgrees)
  BY DEF FaultlineAgrees
<1> QED
  BY <1>1, <1>2, <1>3, PTL DEF Spec

=============================================================================

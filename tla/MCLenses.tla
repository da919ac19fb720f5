------------------------------ MODULE MCLenses ------------------------------
(***************************************************************************)
(* Three snapshots.  Chain: four people in a row, expired and competing    *)
(* ownership records, a missing approval and a reply to a missing parent;  *)
(* its database may be empty, of an earlier export, or about to be seeded. *)
(* Ring: five people, more than the sample, more owner pairs than the      *)
(* distance query has room for, and two missing records in a row.  Stub:   *)
(* an unresolved person between two owners, and a phantom without an       *)
(* epoch.                                                                  *)
(***************************************************************************)
EXTENDS Lenses

Talk(p, q, last) == [from |-> p, to |-> q, last |-> last]

Own(i, module, owner, authority, active, epoch, confidence) ==
    [id |-> i, key |-> <<i>>, module |-> module, owner |-> owner, authority |-> authority,
     active |-> active, epoch |-> epoch, confidence |-> confidence, ownerRank |-> 1]

Need(i, source, target) ==
    [id |-> i, source |-> source, target |-> target, weight |-> 2, confidence |-> 80]

Missing(key, kind, epoch) ==
    [key |-> key, id |-> key, kind |-> kind, reason |-> kind, epoch |-> epoch]

Wrote(p, artifact, confidence) == [person |-> p, artifact |-> artifact, confidence |-> confidence]
Reply(x, y) == [from |-> x, to |-> y, confidence |-> 90]
Follows(x, y) == [from |-> x, to |-> y]

Texts == [x \in 11..33 |-> IF x \in {11, 21, 31} THEN {"one"} ELSE
                           IF x \in {12, 22, 32} THEN {"two", "pair"} ELSE {"three"}]

Chain0 ==
    [people |-> 1..4, strangers |-> {}, rank |-> <<1, 1, 6, 2>>,
     calls |-> {Talk(1, 2, 100), Talk(2, 1, 70), Talk(2, 3, 90), Talk(3, 4, 40)},
     modules |-> {11, 12, 13},
     owns |-> {Own(1, 11, 4, 100, FALSE, 90, 95), Own(2, 11, 1, 80, TRUE, 50, 90),
               Own(3, 11, 2, 80, TRUE, 30, 99), Own(4, 12, 4, 0, TRUE, 0, 70),
               Own(5, 13, 2, 0, TRUE, 0, 60)},
     depends |-> {Need(1, 11, 12), Need(2, 13, 12), Need(3, 12, 11)},
     artifacts |-> {21, 22, 23}, phantoms |-> {Missing(31, "approval", 50),
                                               Missing(32, "parent", 60)},
     authored |-> {Wrote(1, 21, 90), Wrote(3, 22, 70)},
     replies |-> {Reply(22, 21), Reply(23, 32)},
     preceded |-> {Follows(31, 21), Follows(22, 31)},
     created |-> [x \in {21, 22, 23} |-> 2 * x],
     names |-> Texts, spelled |-> Texts]

\* The export before: person 4 was not resolved, a record has since expired,
\* and a phantom has since been found.
Earlier ==
    [Chain0 EXCEPT !.people = {1, 2, 3, 5}, !.strangers = {4},
                   !.calls = {Talk(1, 2, 100), Talk(4, 5, 10)},
                   !.owns = {Own(1, 11, 4, 100, TRUE, 90, 95), Own(5, 13, 5, 0, TRUE, 0, 60)},
                   !.phantoms = {Missing(30, "parent", 20), Missing(31, "approval", 40)},
                   !.replies = {Reply(22, 30)}]

Ring ==
    [Chain0 EXCEPT !.people = 1..5, !.rank = <<1, 1, 6, 2, 1>>,
                   !.owns = {Own(1, 11, 1, 0, TRUE, 0, 90), Own(2, 12, 5, 0, TRUE, 0, 90),
                             Own(3, 13, 2, 0, TRUE, 0, 90), Own(4, 12, 3, 0, TRUE, 0, 80)},
                   !.calls = {Talk(1, 2, 100), Talk(2, 3, 90), Talk(3, 4, 90), Talk(4, 1, 20)},
                   !.preceded = {Follows(31, 21), Follows(32, 31), Follows(22, 32)}]

Stub ==
    [Chain0 EXCEPT !.people = 1..3, !.strangers = {4}, !.rank = <<1, 1, 6>>,
                   !.calls = {Talk(1, 4, 100), Talk(2, 4, 90), Talk(2, 3, NoEpoch)},
                   !.phantoms = {Missing(31, "approval", NoEpoch)},
                   !.replies = {Reply(22, 21)}]

Scene(bundle, older, configured, loads) ==
    [bundle |-> bundle, older |-> older, configured |-> configured, loads |-> loads]

TheScenes ==
    {Scene(Chain0, Earlier, TRUE, {"empty", "served", "older"}),
     Scene(Chain0, Chain0, FALSE, {"empty"}),
     Scene(Ring, Ring, TRUE, {"served"}),
     Scene(Stub, Chain0, TRUE, {"served", "older"})}

AskFor(lens) ==
    [lens |-> lens, days |-> 0, excluded |-> {}, intent |-> "owner", text |-> "one",
     source |-> 22, target |-> 21]

TheRequests(b) ==
    {AskFor(lens) : lens \in {"graph", "ghosts", "faultlines", "gaps", "gap_paths"}}
    \union {[AskFor(lens) EXCEPT !.days = 30] : lens \in {"graph", "ghosts", "faultlines"}}
    \union {[AskFor("ghosts") EXCEPT !.excluded = {2}],
            [AskFor("gap_paths") EXCEPT !.source = 99]}
    \union {[AskFor("question") EXCEPT !.intent = intent, !.text = text] :
                intent \in QuestionIntents, text \in {"one", "pair", "none"}}
=============================================================================

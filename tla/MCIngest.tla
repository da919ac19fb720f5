------------------------------ MODULE MCIngest ------------------------------
(***************************************************************************)
(* Up to MaxRows rows of a pool that has, for every adapter, the rows that *)
(* interact: replies to present and to missing messages, two spellings of  *)
(* one person, unmapped people, two rows of one id that agree or not,      *)
(* commits that share modules and dependencies; ingested with each of the  *)
(* settings below.                                                         *)
(***************************************************************************)
EXTENDS Ingest

CONSTANT MaxRows     \* bound: rows of an export

Row(kind, id, epoch, author, parent, pauthor, to, mods, deps) ==
    [kind |-> kind, id |-> id, epoch |-> epoch, author |-> author, parent |-> parent,
     pauthor |-> pauthor, to |-> to, mods |-> mods, deps |-> deps]

Spellings == {"ann", "bo", "cy", "ann@x", "ANN@X", "u7"}

MCFullKey == [p \in {"artifact:slack:1", "artifact:git:9"} |->
                IF p = "artifact:slack:1" THEN ArtifactKey("slack", "1")
                                          ELSE ArtifactKey("git", "9")]

MCNormal == [s \in Spellings |-> IF s = "ANN@X" THEN "ann@x" ELSE s]

Pool ==
    {Row("slack", "1", 0, "ann", None, None, {}, {"m1"}, {}),
     Row("slack", "1", 1, "ann", None, None, {}, {"m1"}, {}),
     Row("slack", "2", 40, "bo", "1", "ann", {"ann@x"}, {}, {}),
     Row("slack", "3", 40, "u7", "9", None, {"bo"}, {"m1", "m2"}, {}),
     Row("slack", "4", 10, "ann", "9", "ann", {"u7", "bo"}, {}, {}),
     Row("email", "1", 5, "ANN@X", None, "bo", {"bo", "u7"}, {"m1"}, {}),
     Row("email", "1", 5, "ANN@X", None, "bo", {"bo"}, {"m1"}, {}),
     Row("email", "2", 6, "bo", "artifact:slack:1", "ann", {"bo"}, {"m1"}, {}),
     Row("slack", "5", 6, "bo", "artifact:git:9", None, {}, {"m1"}, {}),
     Row("ticket", "1", 7, "bo", None, None, {}, {"m2"}, {}),
     Row("git", "1", 2, "ann@x", None, None, {}, {"m1"}, {"m2"}),
     Row("git", "2", 3, "bo", None, None, {}, {"m1"}, {"m2"}),
     Row("git", "3", 4, "bo", None, None, {}, {"m1", "m2"}, {}),
     Row("git", "4", 4, "u7", None, None, {}, {"m1", "m2"}, {"m1", "m3"})}

Setting(people, modules, identityMap, facts, contracts) ==
    [people |-> people, modules |-> modules, identityMap |-> identityMap,
     facts |-> facts, contracts |-> contracts, reports |-> <<>>]

\* A setting in which someone reports to a manager.
Reporting(setting, h, manager) == [setting EXCEPT !.reports = [s \in {h} |-> manager]]

Stated(person, module, count) ==
    [Record("survey", <<person, module>>, "authorship_aggregate", 0, None, None,
            PersonKey(person), ModuleKey(module), {}, "stated") EXCEPT !.count = count]

Thread ==
    [id |-> "c", steps |-> <<[key |-> ArtifactKey("slack", "1"), required |-> TRUE],
                             [key |-> ArtifactKey("ticket", "1"), required |-> FALSE],
                             [key |-> ArtifactKey("slack", "9"), required |-> TRUE],
                             [key |-> ArtifactKey("slack", "2"), required |-> TRUE]>>]

Listed(module) ==
    Record("directory", <<"directory", module>>, "module", 0, None, None,
           ModuleKey(module), ModuleKey(module), {}, "module")

Posted(id, author, parent, module) ==
    Record("slack", <<"slack", id>>, "artifact", 3, author, parent,
           ArtifactKey("slack", id), ArtifactKey("slack", id), {ModuleKey(module)}, "slack")

Fact(id, kind, subject, object, what, count) ==
    [Record("survey", <<"fact", id>>, kind, 0, None, None, subject, object, {}, what)
        EXCEPT !.count = count]

\* A message that slack 4 also gives.
Said ==
    Record("slack", <<"slack", "4", "communication", "bo">>, "communication_aggregate", 10, "ann",
           None, PersonKey("ann"), PersonKey("bo"), {}, "mention")

\* What the API's import passes as canonical records: all that is no person.
Posts ==
    {Said, Listed("m1"), Listed("m2"), Posted("9", "ann", None, "m1"), Posted("8", "bo", "7", "m2"),
     Fact("1", "communication_aggregate", PersonKey("bo"), PersonKey("ann"), "mention", <<2, 2>>),
     Fact("2", "ownership_assertion", PersonKey("bo"), ModuleKey("m1"), "codeowners", <<100, 1>>),
     Fact("3", "ownership_assertion", PersonKey("bo"), ModuleKey("m1"), "codeowners", <<100, 1>>),
     Fact("4", "dependency", ModuleKey("m1"), ModuleKey("m2"), "import", <<3, 1>>),
     Fact("5", "cochange", ModuleKey("m2"), ModuleKey("m1"), "inferred_coupling", <<4, 1>>)}

Share(id, count) ==
    Fact(id, "authorship_aggregate", PersonKey("ann"), ModuleKey("m1"), "stated", count)

Ann == [s \in {"ann@x"} |-> "ann"]

Settings ==
    {Reporting(Setting({"ann", "bo"}, {"m1", "m2"}, Ann, {}, {}), "ann", "bo"),
     Setting({"ann", "bo"}, {"m1", "m2"}, Ann, {Stated("ann", "m1", <<1, 3>>)}, {Thread}),
     Setting({"ann", "bo"}, {"m1", "m2"}, [s \in {"ANN@X", "u7"} |-> "bo"], {}, {}),
     Setting({"ann", "bo"}, {"m1"}, [s \in {"ann@x"} |-> "cy"], {}, {Thread}),
     Setting({"ann"}, {"m1", "m2"}, <<>>, {Stated("bo", "m1", <<1, 1>>)}, {}),
     Setting({"ann", "bo", "cy"}, {"m2"}, Ann, {}, {}),
     Setting({"ann", "bo"}, {}, Ann, Posts, {}),
     Reporting(Setting({"ann"}, {}, Ann, {}, {}), "ann", "ann")}

\* Settings in which something is refused whatever the rows are, or unless they
\* name the manager.
Faulty ==
    {Reporting(Setting({"ann", "bo"}, {"m1", "m2"}, Ann, {}, {}), "ann", "cy"),
     Reporting(Setting({"ann", "bo"}, {"m1", "m2"}, Ann, {}, {}), "bo", Unresolved("u7")),
     Setting({"ann", "bo"}, {"m1", "bo"}, Ann, {}, {}),
     Setting({"ann", "bo"}, {"m1"}, Ann, {Share("1", <<3, 1>>)}, {}),
     Setting({"ann", "bo"}, {"m1"}, Ann, {Share("1", <<1, 3>>), Share("2", <<2, 3>>)}, {}),
     Setting({"ann", "bo"}, {"m1"}, Ann, {Share("1", <<1, 3>>), Share("1", <<2, 3>>)}, {})}

Export(rows, s) ==
    [rows |-> rows, people |-> s.people, modules |-> s.modules,
     identityMap |-> s.identityMap, facts |-> s.facts, contracts |-> s.contracts,
     reports |-> s.reports]

MCInputs ==
    {Export(rows, s) : rows \in UNION {kSubset(n, Pool) : n \in 0..MaxRows}, s \in Settings}
    \union {Export(rows, s) : rows \in {{}} \union kSubset(1, Pool), s \in Faulty}

Mail(a, b) ==
    <<"COMMUNICATES", <<"Person", PersonKey(a)>>, <<"Person", PersonKey(b)>>, <<"aggregate">>>>

Writing(h, kind, id) ==
    <<"AUTHORED", <<"Person", PersonKey(h)>>, <<"Artifact", ArtifactKey(kind, id)>>, <<"authored">>>>

Leading(h, manager) ==
    <<"REPORTS_TO", <<"Person", PersonKey(h)>>, <<"Person", PersonKey(manager)>>,
      <<"reporting_line">>>>

\* Digests of several things: the person cy and the module m2, three edges that
\* records state, and two that are derived.
MCStableId(identity) ==
    CASE identity \in {<<"Person", PersonKey("cy")>>, <<"Module", ModuleKey("m2")>>} -> <<"clash">>
      [] identity \in {Writing("bo", "ticket", "1"), Writing("bo", "git", "3"),
                      Leading("ann", "bo")} -> <<"clash", "wrote">>
      [] identity \in {Mail("ann", "bo"), Mail("bo", "ann")} -> <<"clash", "mail">>
      [] OTHER -> identity
=============================================================================

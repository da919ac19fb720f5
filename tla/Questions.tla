------------------------------ MODULE Questions ------------------------------
(***************************************************************************)
(* xray_analytics/questions.py and verdicts.py: the answer to a question   *)
(* from a bundle, the answer to the same question from the rows a HydraDB  *)
(* query returns, and the verdict on an answer.                            *)
(*                                                                         *)
(* A bundle is a record: people, strangers (unresolved people), modules,   *)
(* artifacts and phantoms are sets of                                      *)
(* keys (numbers, phantoms after artifacts); names[x] and spelled[x] are   *)
(* the texts that match x by its names and by its key alone; owns,         *)
(* depends, authored and replies are its edges, each with the number its   *)
(* id sorts by.  An OWNS edge with an authority rank is an assertion and   *)
(* one without is inferred from authorship.  Texts, reasons, evidence ids  *)
(* and the order in which people are listed are left out.                  *)
(***************************************************************************)
EXTENDS Integers, Sequences, FiniteSets, FiniteSetsExt

NoSubject == 0 - 1
NoOwner == 0 - 1
NoConfidence == 0 - 1

\* A question in none of the known forms has the intent unsupported.
QuestionIntents ==
    {"owner", "dependency_impact", "approval", "author", "reviewer", "unsupported"}

LiveIntents == {"owner", "dependency_impact", "approval"}

\* Python compares key tuples lexicographically.
LexBefore(x, y) == \E i \in DOMAIN x : x[i] < y[i] /\ \A j \in 1..(i - 1) : x[j] = y[j]

First(S, key(_)) == CHOOSE x \in S : \A y \in S : ~LexBefore(key(y), key(x))

OntologyAnswer(intent, status, subject, people, paths, confidence, conflicts) ==
    [intent |-> intent, status |-> status, subject |-> subject, people |-> people,
     paths |-> paths, confidence |-> confidence, conflicts |-> conflicts]

Abstention(intent, status, subject) ==
    OntologyAnswer(intent, status, subject, {}, {}, NoConfidence, {})

-----------------------------------------------------------------------------
(* Answers from the bundle.                                                *)

match_subject(b, text, intent) ==
    LET wanted == IF intent \in {"owner", "dependency_impact"} THEN b.modules ELSE b.artifacts
        found  == {x \in wanted : text \in b.names[x]}
    IN  IF found = {} THEN NoSubject ELSE Min(found)

\* Mutant of owner_sort_key: expired records rank with the others.
owner_sort_key_AnyTime(e) ==
    <<0 - e.authority, 0 - e.epoch, 0 - e.confidence>> \o e.key

owner_sort_key(e) ==
    <<IF e.active THEN 0 ELSE 1, 0 - e.authority, 0 - e.epoch, 0 - e.confidence>> \o e.key

ownership_decision(e, selected) ==
    [person |-> e.owner, key |-> e.key, selected |-> e = selected]

Claimants(conflicts) == {c.person : c \in conflicts}

\* Only assertions disagree with each other: inferred ownership never does.
answer_owner(b, subject) ==
    LET edges    == {e \in b.owns : e.module = subject}
        selected == First(edges, owner_sort_key)
        explicit == {ownership_decision(e, selected) : e \in {x \in edges : x.authority > 0}}
    IN  IF edges = {} THEN Abstention("owner", "no_answer", subject)
        ELSE OntologyAnswer("owner", "answered", subject, {selected.owner},
                            {<<selected.owner, subject>>}, selected.confidence,
                            IF Cardinality(Claimants(explicit)) > 1 THEN explicit ELSE {})

AuthorMatches(b, subject) ==
    {[person |-> a.person, path |-> <<a.person, subject>>, confidence |-> a.confidence] :
        a \in {x \in b.authored : x.artifact = subject}}

\* Whoever wrote a reply to the artifact.
ReviewerMatches(b, subject) ==
    {[person     |-> m[1].person,
      path       |-> <<m[1].person, m[2].from, subject>>,
      confidence |-> Min({m[1].confidence, m[2].confidence})] :
        m \in {x \in b.authored \X b.replies : x[1].artifact = x[2].from /\ x[2].to = subject}}

answer_artifact(b, intent, subject) ==
    LET matches == IF intent = "author" THEN AuthorMatches(b, subject)
                                        ELSE ReviewerMatches(b, subject)
    IN  IF matches = {} THEN Abstention(intent, "no_answer", subject)
        ELSE OntologyAnswer(intent, "answered", subject, {m.person : m \in matches},
                            {m.path : m \in matches}, Min({m.confidence : m \in matches}), {})

ImpactPath(subject, f) ==
    IF f.owner = NoOwner THEN <<subject, f.dependent>> ELSE <<subject, f.dependent, f.owner>>

Impact(subject, findings) ==
    IF findings = {} THEN Abstention("dependency_impact", "no_answer", subject)
    ELSE OntologyAnswer("dependency_impact", "answered", subject,
                        {f.owner : f \in findings} \ {NoOwner},
                        {ImpactPath(subject, f) : f \in findings},
                        Min({f.confidence : f \in findings}), {})

\* A dependent module and its owner of the highest rank, if it has one.
Dependent(b, d) ==
    LET owners == {e \in b.owns : e.module = d.source}
        owner  == First(owners, owner_sort_key)
    IN  IF owners = {}
        THEN [dependent |-> d.source, owner |-> NoOwner, confidence |-> d.confidence]
        ELSE [dependent |-> d.source, owner |-> owner.owner,
              confidence |-> Min({d.confidence, owner.confidence})]

answer_dependency_impact(b, subject) ==
    Impact(subject, {Dependent(b, d) : d \in {x \in b.depends : x.target = subject}})

ApprovalAnswer(subject) ==
    OntologyAnswer("approval", "no_answer", subject, {}, {<<subject>>}, NoConfidence, {})

\* The subject is what the words match, or any approval known to be missing;
\* nobody is ever named.
answer_approval(b, text) ==
    LET matching == {x \in b.artifacts \union {p.key : p \in b.phantoms} : text \in b.spelled[x]}
        missing  == {p \in b.phantoms : p.kind = "approval"}
    IN  IF matching # {} THEN ApprovalAnswer(Min(matching))
        ELSE IF missing # {} THEN ApprovalAnswer(First(missing, LAMBDA p : <<p.id>>).key)
        ELSE Abstention("approval", "not_found", NoSubject)

answer_ontology_question(b, intent, text) ==
    LET subject == match_subject(b, text, intent)
    IN  CASE intent = "approval" -> answer_approval(b, text)
          [] intent = "unsupported" -> Abstention(intent, "unsupported", NoSubject)
          [] intent \notin {"approval", "unsupported"} /\ subject = NoSubject ->
                Abstention(intent, "not_found", NoSubject)
          [] intent = "owner" /\ subject # NoSubject -> answer_owner(b, subject)
          [] intent = "dependency_impact" /\ subject # NoSubject ->
                answer_dependency_impact(b, subject)
          [] OTHER -> answer_artifact(b, intent, subject)

-----------------------------------------------------------------------------
(* Answers from the rows of HydraDB, which name edges and nodes of the     *)
(* database; names are looked up in the bundle, where a row that the       *)
(* bundle does not know raises.                                            *)

\* Every row of the query claims, once two people appear in them; all rows
\* of the selected person count as selected.
owner_from_hydra_rows(subject, rows) ==
    LET selected == First(rows, owner_sort_key)
        claims   == {[person |-> e.owner, key |-> e.key, selected |-> e.owner = selected.owner] :
                        e \in rows}
    IN  IF rows = {} THEN Abstention("owner", "no_answer", subject)
        ELSE OntologyAnswer("owner", "answered", subject, {selected.owner},
                            {<<selected.owner, subject>>}, selected.confidence,
                            IF Cardinality(Claimants(claims)) > 1 THEN claims ELSE {})

\* The owner of a dependent module is the first OWNS edge of the bundle.  The
\* confidence is looked up in the properties of the row, where derive.py puts
\* none, so that it is always the default.
DefaultConfidence == 50

LiveDependent(b, d) ==
    LET owners == {e \in b.owns : e.module = d.source}
    IN  [dependent  |-> d.source,
         owner      |-> IF owners = {} THEN NoOwner
                        ELSE First(owners, LAMBDA e : <<e.id>>).owner,
         confidence |-> DefaultConfidence]

dependency_from_hydra_rows(b, subject, rows) ==
    Impact(subject, {LiveDependent(b, d) : d \in rows})

approval_from_hydra_rows(subject, rows) ==
    IF rows = {} THEN Abstention("approval", "no_answer", subject) ELSE ApprovalAnswer(subject)

answer_from_hydra_rows(b, intent, subject, rows) ==
    CASE intent = "owner" -> owner_from_hydra_rows(subject, rows)
      [] intent = "dependency_impact" -> dependency_from_hydra_rows(b, subject, rows)
      [] intent = "approval" -> approval_from_hydra_rows(subject, rows)

\* _node_by_key finds no node for a name that the answer shows.
UnknownName(b, intent, rows) ==
    \/ intent = "owner" /\ rows # {} /\ First(rows, owner_sort_key).owner \notin b.people \union b.strangers
    \/ intent = "dependency_impact" /\ \E d \in rows : d.source \notin b.modules

-----------------------------------------------------------------------------
(* The verdict.                                                            *)

\* Mutant of decide_question_verdict: a single rejected claim disputes.
decide_question_verdict_AnyRejected(answer) ==
    LET rejected == {c \in answer.conflicts : ~c.selected}
    IN  IF rejected # {} THEN "DISPUTED"
        ELSE IF answer.status = "answered" THEN "SUPPORTED"
        ELSE IF answer.status = "not_found" THEN "NOT_FOUND"
        ELSE "UNKNOWN"

decide_question_verdict(answer) ==
    LET selected == {c \in answer.conflicts : c.selected}
        rejected == answer.conflicts \ selected
    IN  IF \/ selected = {} /\ Cardinality(rejected) >= 2
           \/ Cardinality(selected) > 1 /\ rejected = {} /\ answer.status # "answered"
        THEN "DISPUTED"
        ELSE IF answer.status = "answered" THEN "SUPPORTED"
        ELSE IF answer.status = "not_found" THEN "NOT_FOUND"
        ELSE "UNKNOWN"
=============================================================================

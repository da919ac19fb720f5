--------------------------- MODULE SourceRecords ---------------------------
(***************************************************************************)
(* From the rows of an export to canonical records.                        *)
(*                                                                         *)
(* xray_ingest.identity rewrites the people a row names, pipeline drops    *)
(* the modules the directory does not know, and xray_ingest.sources turns  *)
(* each row into the record of an artifact and the records of the facts it *)
(* states.  A row has one shape here whatever export it comes from:        *)
(*   [kind, id, epoch, author, parent, pauthor, to, mods, deps]            *)
(* to is the mentions of a message and the recipients of an email.         *)
(* Keys of nodes are tuples, so that the label is told from the name.      *)
(***************************************************************************)
EXTENDS Naturals, FiniteSets, Sequences, Functions

CONSTANTS
    None,      \* an absent optional field
    Normal,    \* normalize_source_id on the spellings of an instance
    FullKey    \* the keys that ids of parents spell out: those of "artifact:..."

PersonKey(h) == <<"person", h>>

ModuleKey(m) == <<"module", m>>

ArtifactKey(source, id) == <<"artifact", source, id>>

\* Such an id is that of an artifact, of any source.
ASSUME FullKeyAssumption ==
    \A p \in DOMAIN FullKey : FullKey[p] = ArtifactKey(FullKey[p][2], FullKey[p][3])

-----------------------------------------------------------------------------
(* xray_ingest.identity                                                    *)

\* The spelling of a source id is normalised on both sides of the map;
\* handles of the directory stand for themselves unless the map says else.
Lowered(people, identityMap) ==
    [k \in {Normal[raw] : raw \in people \union DOMAIN identityMap} |->
        IF \E raw \in DOMAIN identityMap : Normal[raw] = k
        THEN identityMap[CHOOSE raw \in DOMAIN identityMap : Normal[raw] = k]
        ELSE CHOOSE h \in people : Normal[h] = k]

Unresolved(k) == "unresolved-" \o k

IsUnresolved(k, lowered) == k \notin DOMAIN lowered \union Range(lowered)

resolve_one(raw, lowered) ==
    LET k == Normal[raw]
    IN  IF k \in DOMAIN lowered THEN lowered[k]
        ELSE IF k \in Range(lowered) THEN k
        ELSE Unresolved(k)

ResolveOptional(raw, lowered) ==
    IF raw = None THEN None ELSE resolve_one(raw, lowered)

\* IDENTITY_FIELDS: the fields of each kind that name people.
resolve_row(row, lowered) ==
    [row EXCEPT !.author = resolve_one(@, lowered),
                !.pauthor = ResolveOptional(@, lowered),
                !.to = {resolve_one(raw, lowered) : raw \in @}]

NamedIds(row) ==
    {Normal[raw] : raw \in {row.author} \union row.to
                           \union (IF row.pauthor = None THEN {} ELSE {row.pauthor})}

-----------------------------------------------------------------------------
(* xray_ingest.pipeline                                                    *)

drop_unknown_modules(row, known) ==
    IF known = {} THEN row
    ELSE [row EXCEPT !.mods = @ \intersect known, !.deps = @ \intersect known]

-----------------------------------------------------------------------------
(* xray_ingest.sources                                                     *)

\* count is <<interactions, commits or weight, total>>; what is the kind of
\* interaction, dependency or artifact.
Record(source, xid, kind, epoch, author, parent, subject, object, mods, what) ==
    [source |-> source, xid |-> xid, kind |-> kind, epoch |-> epoch,
     author |-> author, parent |-> parent, subject |-> subject,
     object |-> object, mods |-> mods, what |-> what, count |-> <<1, 1>>]

artifact(row) ==
    LET key == ArtifactKey(row.kind, row.id)
        modules == {ModuleKey(m) : m \in row.mods}
    IN  Record(row.kind, <<row.kind, row.id>>, "artifact", row.epoch, row.author,
               row.parent, key, key, modules, row.kind)

communication(row, recipient, kind) ==
    Record(row.kind, <<row.kind, row.id, "communication", recipient>>,
           "communication_aggregate", row.epoch, row.author, None,
           PersonKey(row.author), PersonKey(recipient), {}, kind)

dependency(row, m, d) ==
    Record(row.kind, <<row.kind, row.id, "dependency", d>>, "dependency",
           row.epoch, None, None, ModuleKey(m), ModuleKey(d), {}, "explicit_reference")

cochange(row, m, n) ==
    Record(row.kind, <<row.kind, row.id, "cochange", m, n>>, "cochange",
           row.epoch, None, None, ModuleKey(m), ModuleKey(n), {}, "inferred_coupling")

Replied(row) ==
    IF row.pauthor \in {None, row.author} THEN {} ELSE {row.pauthor}

\* A message names each person it mentions, whether or not it also answers
\* that person.
slack_records(row) ==
    {artifact(row)}
    \union {communication(row, r, "reply") : r \in Replied(row)}
    \union {communication(row, r, "mention") : r \in row.to \ {row.author}}

\* Mutant of email_records: a recipient who is answered is recorded twice.
email_records_Twice(row) ==
    {artifact(row)}
    \union {communication(row, r, "reply") : r \in Replied(row)}
    \union {communication(row, r, "email") : r \in row.to \ {row.author}}

\* One communication record per (message, recipient).
email_records(row) ==
    {artifact(row)}
    \union {communication(row, r, "reply") : r \in Replied(row)}
    \union {communication(row, r, "email") : r \in row.to \ ({row.author} \union Replied(row))}

ticket_records(row) == {artifact(row)}

\* combinations() of the sorted keys: one pair of each two modules, the
\* smaller first; the order of two names is Before's.
Before(m, n) == m # n /\ (CHOOSE x \in {m, n} : TRUE) = m

code_records(row) ==
    {artifact(row)}
    \union {cochange(row, p[1], p[2]) : p \in {q \in row.mods \X row.mods : Before(q[1], q[2])}}
    \union {dependency(row, p[1], p[2]) : p \in row.mods \X row.deps}

row_records(row) ==
    CASE row.kind = "slack" -> slack_records(row)
      [] row.kind = "email" -> email_records(row)
      [] row.kind = "ticket" -> ticket_records(row)
      [] row.kind = "git" -> code_records(row)
=============================================================================

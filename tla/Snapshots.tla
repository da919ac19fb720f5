----------------------------- MODULE Snapshots -----------------------------
(***************************************************************************)
(* What can become the active snapshot: the names that POST                *)
(* /snapshots/activate and POST /snapshots/import can select, and the      *)
(* SelectedSnapshot each of them denotes.                                  *)
(***************************************************************************)
EXTENDS Coordination

CONSTANTS
    Listed,      \* names /snapshots/available lists and /activate accepts
    Imports,     \* names of the directories uploads are written to
    Catalog,     \* the source and the kind a name stands for
    Initial      \* the name selected when the application is created

SnapshotKinds == {"fixture", "snapshot"}

Names == Listed \union Imports

ASSUME CatalogAssumption ==
    /\ Catalog \in [Names -> [source: Sources, kind: SnapshotKinds]]
    /\ Initial \in Names
    /\ \A n \in Imports : Catalog[n].kind = "snapshot"

\* Fixtures and snapshots are cached as they were ingested, an upload has just
\* been ingested: what a name denotes never carries an overlay.
Selected(n) == [bundle |-> Fresh(Catalog[n].source), kind |-> Catalog[n].kind, name |-> n]

SnapshotId(s) == <<Dataset(s.bundle), s.kind>>

SnapshotIds == Datasets \X SnapshotKinds

Status == {"proposed", "approved", "rejected", "closed"}

\* Assignment to a key of a Python dict.
Put(f, k, v) == [x \in (DOMAIN f) \union {k} |-> IF x = k THEN v ELSE f[x]]
=============================================================================

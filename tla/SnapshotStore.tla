--------------------------- MODULE SnapshotStore ---------------------------
(***************************************************************************)
(* A snapshot directory: write_snapshot writes six artifacts, hashes what  *)
(* it finds on disk and writes a manifest last; read_snapshot checks every *)
(* artifact against the manifest and then reads them, one after the other. *)
(* snapshot_bundle caches what was read, by path.                          *)
(*                                                                         *)
(* A script writes a directory (ingest_export.py --out), possibly one that *)
(* holds a snapshot already, and may be killed; the API reads it on its    *)
(* threads when the snapshot is activated.  Nothing locks the directory.   *)
(***************************************************************************)
EXTENDS Integers, Sequences

CONSTANTS
    Datasets,
    Contents,     \* what an artifact may hold; equal when their digests are
    Bundles,      \* the bundles that are written to the directory
    Valid,        \* the artifacts that make up a valid CanonicalBundle
    Absent, Torn, \* no file; a file that is not written to its end
    Readers,      \* threads of the API
    MaxWrites,    \* bound: writes started
    MaxReads      \* bound: reads started

WriteOrder == <<"nodes.parquet", "edges.parquet", "evidence.parquet",
                "node_evidence.parquet", "edge_evidence.parquet", "limitations.json">>

\* file_sha256 is kept sorted by name.
CheckOrder == <<"edge_evidence.parquet", "edges.parquet", "evidence.parquet",
                "limitations.json", "node_evidence.parquet", "nodes.parquet">>

ReadOrder == <<"node_evidence.parquet", "edge_evidence.parquet", "nodes.parquet",
               "edges.parquet", "evidence.parquet", "limitations.json">>

Files == {"nodes.parquet", "edges.parquet", "evidence.parquet",
          "node_evidence.parquet", "edge_evidence.parquet", "limitations.json"}

Count == 6

Artifacts == [Files -> Contents]

OnDisk == Contents \union {Absent, Torn}

\* A bundle, and a manifest: the dataset and the digest of every artifact.
Bundle == [dataset: Datasets, files: Artifacts]

Manifest == [dataset: Datasets, files: [Files -> OnDisk]]

ASSUME StoreAssumption ==
    /\ Absent \notin Contents /\ Torn \notin Contents
    /\ Absent \notin Manifest /\ Torn \notin Manifest /\ Absent # Torn
    /\ Bundles \subseteq Bundle /\ Bundles # {}
    /\ Valid \subseteq Artifacts /\ \A b \in Bundles : b.files \in Valid
    /\ MaxWrites \in Nat /\ MaxReads \in Nat

VARIABLES
    dir,        \* the artifacts on disk
    manifest,   \* manifest.json
    write,      \* the script that writes, if any
    read,       \* what each reader does
    cache,      \* snapshot_bundle's entry for this directory
    served,     \* history: what activations were given, and whether no write overlapped the read
    intact,     \* history: no write has begun since the manifest was written
    writes,     \* number of writes started
    reads       \* number of reads started

vars == <<dir, manifest, write, read, cache, served, intact, writes, reads>>

WritePhase == {"idle", "open", "close", "hash", "manifest", "seal"}

Write == [phase: WritePhase, bundle: Bundles, next: 1..(Count + 1), digests: [Files -> OnDisk]]

ReadPhase == {"idle", "check", "read"}

\* History: no write has been under way since the manifest was read ("quiet").
Read == [phase: ReadPhase, quiet: BOOLEAN, manifest: Manifest, next: 1..(Count + 1),
         files: [Files -> OnDisk]]

Served == [bundle: Bundle, quiet: BOOLEAN]

Nothing == [f \in Files |-> Absent]

NoWrite == [phase |-> "idle", bundle |-> CHOOSE b \in Bundles : TRUE, next |-> 1,
            digests |-> Nothing]

NoRead == [phase |-> "idle", quiet |-> FALSE,
           manifest |-> [dataset |-> (CHOOSE b \in Bundles : TRUE).dataset, files |-> Nothing],
           next |-> 1, files |-> Nothing]

-----------------------------------------------------------------------------
(* write_snapshot                                                          *)

StartWrite(b) ==
    /\ write.phase = "idle"
    /\ writes < MaxWrites
    /\ writes' = writes + 1
    /\ intact' = FALSE
    /\ write' = [NoWrite EXCEPT !.phase = "open", !.bundle = b]
    /\ read' = [r \in Readers |-> [read[r] EXCEPT !.quiet = FALSE]]
    /\ UNCHANGED <<dir, manifest, cache, served, reads>>

OpenFile ==
    /\ write.phase = "open"
    /\ dir' = [dir EXCEPT ![WriteOrder[write.next]] = Torn]
    /\ write' = [write EXCEPT !.phase = "close"]
    /\ UNCHANGED <<manifest, read, cache, served, intact, writes, reads>>

CloseFile ==
    /\ write.phase = "close"
    /\ dir' = [dir EXCEPT ![WriteOrder[write.next]] = write.bundle.files[WriteOrder[write.next]]]
    /\ write' = IF write.next = Count
                THEN [write EXCEPT !.phase = "hash", !.next = 1]
                ELSE [write EXCEPT !.phase = "open", !.next = @ + 1]
    /\ UNCHANGED <<manifest, read, cache, served, intact, writes, reads>>

\* Mutant of HashFile: the last artifact is not hashed.
HashFile_ButLast ==
    /\ write.phase = "hash"
    /\ write' = [write EXCEPT !.digests[WriteOrder[write.next]] = dir[WriteOrder[write.next]],
                              !.phase = IF write.next + 1 = Count THEN "manifest" ELSE @,
                              !.next = @ + 1]
    /\ UNCHANGED <<dir, manifest, read, cache, served, intact, writes, reads>>

\* The digests are those of the files on disk.
HashFile ==
    /\ write.phase = "hash"
    /\ write' = [write EXCEPT !.digests[WriteOrder[write.next]] = dir[WriteOrder[write.next]],
                              !.phase = IF write.next = Count THEN "manifest" ELSE @,
                              !.next = @ + 1]
    /\ UNCHANGED <<dir, manifest, read, cache, served, intact, writes, reads>>

OpenManifest ==
    /\ write.phase = "manifest"
    /\ manifest' = Torn
    /\ write' = [write EXCEPT !.phase = "seal"]
    /\ UNCHANGED <<dir, read, cache, served, intact, writes, reads>>

CloseManifest ==
    /\ write.phase = "seal"
    /\ manifest' = [dataset |-> write.bundle.dataset, files |-> write.digests]
    /\ intact' = TRUE
    /\ write' = NoWrite
    /\ UNCHANGED <<dir, read, cache, served, writes, reads>>

\* The script is killed; the files stay as they are.
KillWriter ==
    /\ write.phase # "idle"
    /\ write' = NoWrite
    /\ UNCHANGED <<dir, manifest, read, cache, served, intact, writes, reads>>

-----------------------------------------------------------------------------
(* snapshot_bundle and read_snapshot                                       *)

\* No manifest is a 404, a torn one does not parse: nothing happens.
ReadManifest(r) ==
    /\ read[r].phase = "idle"
    /\ cache = {}
    /\ manifest \notin {Absent, Torn}
    /\ reads < MaxReads
    /\ reads' = reads + 1
    /\ read' = [read EXCEPT ![r] = [NoRead EXCEPT !.phase = "check", !.manifest = manifest,
                                                  !.quiet = (write.phase = "idle")]]
    /\ UNCHANGED <<dir, manifest, write, cache, served, intact, writes>>

CheckNext(r) == CheckOrder[read[r].next]

\* Mutant of Checked: an artifact before the last one is not checked.
Checked_SkipsOne(c) ==
    CASE c.next = Count -> [c EXCEPT !.phase = "read", !.next = 1]
      [] c.next = 1 -> [c EXCEPT !.next = 3]
      [] OTHER -> [c EXCEPT !.next = @ + 1]

\* What a reader does after an artifact has been checked.
Checked(c) ==
    IF c.next = Count THEN [c EXCEPT !.phase = "read", !.next = 1] ELSE [c EXCEPT !.next = @ + 1]

CheckFile(r) ==
    /\ read[r].phase = "check"
    /\ dir[CheckNext(r)] = read[r].manifest.files[CheckNext(r)]
    /\ read' = [read EXCEPT ![r] = Checked(@)]
    /\ UNCHANGED <<dir, manifest, write, cache, served, intact, writes, reads>>

\* snapshot file hash mismatch
RejectFile(r) ==
    /\ read[r].phase = "check"
    /\ dir[CheckNext(r)] # read[r].manifest.files[CheckNext(r)]
    /\ read' = [read EXCEPT ![r] = NoRead]
    /\ UNCHANGED <<dir, manifest, write, cache, served, intact, writes, reads>>

\* A torn artifact does not parse.
ReadTorn(r) ==
    /\ read[r].phase = "read" /\ read[r].next <= Count
    /\ dir[ReadOrder[read[r].next]] \notin Contents
    /\ read' = [read EXCEPT ![r] = NoRead]
    /\ UNCHANGED <<dir, manifest, write, cache, served, intact, writes, reads>>

ReadFile(r) ==
    /\ read[r].phase = "read" /\ read[r].next <= Count
    /\ dir[ReadOrder[read[r].next]] \in Contents
    /\ read' = [read EXCEPT ![r].files[ReadOrder[read[r].next]] = dir[ReadOrder[read[r].next]],
                            ![r].next = @ + 1]
    /\ UNCHANGED <<dir, manifest, write, cache, served, intact, writes, reads>>

Result(r) == [dataset |-> read[r].manifest.dataset, files |-> read[r].files]

\* Mutant of Deliver: what was read is cached before it is validated.
Deliver_CachedFirst(r) ==
    /\ read[r].phase = "read" /\ read[r].next = Count + 1
    /\ cache' = IF cache = {} THEN {Result(r)} ELSE cache
    /\ served' = IF read[r].files \in Valid THEN served \union {[bundle |-> Result(r), quiet |-> read[r].quiet]}
                                             ELSE served
    /\ read' = [read EXCEPT ![r] = NoRead]
    /\ UNCHANGED <<dir, manifest, write, intact, writes, reads>>

\* CanonicalBundle is validated; of two readers that missed, the first one's
\* result stays in the cache.
Deliver(r) ==
    /\ read[r].phase = "read" /\ read[r].next = Count + 1
    /\ IF read[r].files \in Valid
       THEN /\ served' = served \union {[bundle |-> Result(r), quiet |-> read[r].quiet]}
            /\ cache' = IF cache = {} THEN {Result(r)} ELSE cache
       ELSE UNCHANGED <<served, cache>>
    /\ read' = [read EXCEPT ![r] = NoRead]
    /\ UNCHANGED <<dir, manifest, write, intact, writes, reads>>

\* Four other snapshots have been read since.
Evict ==
    /\ cache # {}
    /\ cache' = {}
    /\ UNCHANGED <<dir, manifest, write, read, served, intact, writes, reads>>

\* The API stops, wherever its threads are, and starts again.
Restart ==
    /\ cache' = {}
    /\ read' = [r \in Readers |-> NoRead]
    /\ UNCHANGED <<dir, manifest, write, served, intact, writes, reads>>

-----------------------------------------------------------------------------

Init ==
    /\ dir = Nothing
    /\ manifest = Absent
    /\ write = NoWrite
    /\ read = [r \in Readers |-> NoRead]
    /\ cache = {}
    /\ served = {}
    /\ intact = FALSE
    /\ writes = 0
    /\ reads = 0

Writing ==
    \/ \E b \in Bundles : StartWrite(b)
    \/ OpenFile \/ CloseFile \/ HashFile \/ OpenManifest \/ CloseManifest
    \/ KillWriter

Reading(r) ==
    ReadManifest(r) \/ CheckFile(r) \/ RejectFile(r) \/ ReadTorn(r) \/ ReadFile(r) \/ Deliver(r)

Next == Writing \/ (\E r \in Readers : Reading(r)) \/ Evict \/ Restart

Spec == Init /\ [][Next]_vars

-----------------------------------------------------------------------------

\* Every variable has its type, and what is cached has been served: a bundle
\* that fails validation is not kept (snapshot_bundle).
TypeOK ==
    /\ dir \in [Files -> OnDisk]
    /\ manifest \in Manifest \union {Absent, Torn}
    /\ write \in Write
    /\ read \in [Readers -> Read]
    /\ served \subseteq Served
    /\ cache \subseteq {s.bundle : s \in served}
    /\ intact \in BOOLEAN
    /\ writes \in 0..MaxWrites
    /\ reads \in 0..MaxReads

\* What a read that no write overlaps gives is one of the bundles that were
\* written, never artifacts of two of them, and never those of one with the
\* dataset of another, even if a write over an older snapshot was killed half way
\* ("a partially written or edited snapshot is rejected", read_snapshot).
QuietReadsAreWritten == \A s \in served : s.quiet => s.bundle \in Bundles

\* A snapshot whose write came to its end can be read: the digests, which are
\* taken from the disk after all of the files are written, are those of the
\* bundle (write_snapshot), also if an earlier write was killed anywhere.
FinishedCanBeRead ==
    intact => manifest \in Bundles /\ dir = manifest.files
=============================================================================

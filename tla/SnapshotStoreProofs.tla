------------------------ MODULE SnapshotStoreProofs ------------------------
(***************************************************************************)
(* Proofs about SnapshotStore, for any bundles, contents and readers.      *)
(***************************************************************************)
EXTENDS SnapshotStore, TLAPS

LEMMA OrdersType ==
    \A i \in 1..Count : WriteOrder[i] \in Files /\ CheckOrder[i] \in Files /\ ReadOrder[i] \in Files
BY DEF WriteOrder, CheckOrder, ReadOrder, Files, Count

\* Each of the orders reaches every artifact, and the order of writing reaches
\* none twice.
LEMMA WriteOrderCovers ==
    /\ \A f \in Files : \E i \in 1..Count : WriteOrder[i] = f
    /\ \A i, j \in 1..Count : WriteOrder[i] = WriteOrder[j] => i = j
<1>1. /\ WriteOrder[1] = "nodes.parquet" /\ WriteOrder[2] = "edges.parquet"
      /\ WriteOrder[3] = "evidence.parquet" /\ WriteOrder[4] = "node_evidence.parquet"
      /\ WriteOrder[5] = "edge_evidence.parquet" /\ WriteOrder[6] = "limitations.json"
  BY DEF WriteOrder
<1>2. 1..Count = {1, 2, 3, 4, 5, 6}
  BY DEF Count
<1> QED BY <1>1, <1>2 DEF Files

LEMMA CheckOrderCovers == \A f \in Files : \E i \in 1..Count : CheckOrder[i] = f
<1>1. /\ CheckOrder[1] = "edge_evidence.parquet" /\ CheckOrder[2] = "edges.parquet"
      /\ CheckOrder[3] = "evidence.parquet" /\ CheckOrder[4] = "limitations.json"
      /\ CheckOrder[5] = "node_evidence.parquet" /\ CheckOrder[6] = "nodes.parquet"
  BY DEF CheckOrder
<1>2. 1..Count = {1, 2, 3, 4, 5, 6}
  BY DEF Count
<1> QED BY <1>1, <1>2 DEF Files

LEMMA ReadOrderCovers == \A f \in Files : \E i \in 1..Count : ReadOrder[i] = f
<1>1. /\ ReadOrder[1] = "node_evidence.parquet" /\ ReadOrder[2] = "edge_evidence.parquet"
      /\ ReadOrder[3] = "nodes.parquet" /\ ReadOrder[4] = "edges.parquet"
      /\ ReadOrder[5] = "evidence.parquet" /\ ReadOrder[6] = "limitations.json"
  BY DEF ReadOrder
<1>2. 1..Count = {1, 2, 3, 4, 5, 6}
  BY DEF Count
<1> QED BY <1>1, <1>2 DEF Files

LEMMA BundleFacts ==
    /\ \A b \in Bundles : b \in Manifest /\ b \in Bundle /\ b.files \in [Files -> OnDisk]
                          /\ b.dataset \in Datasets
                          /\ b = [dataset |-> b.dataset, files |-> b.files]
                          /\ \A f \in Files : b.files[f] \in Contents
    /\ Absent \notin Bundles /\ Torn \notin Bundles
    /\ Nothing \in [Files -> OnDisk]
    /\ NoWrite \in Write /\ NoRead \in Read
<1>1. ASSUME NEW b \in Bundles
      PROVE  /\ b \in Bundle /\ b.files \in [Files -> Contents] /\ b.files \in [Files -> OnDisk]
             /\ b = [dataset |-> b.dataset, files |-> b.files] /\ b.dataset \in Datasets
             /\ b \in Manifest
  <2>1. b \in Bundle
    BY StoreAssumption
  <2>2. b.files \in [Files -> Contents] /\ b.dataset \in Datasets
        /\ b = [dataset |-> b.dataset, files |-> b.files]
    BY <2>1 DEF Bundle, Artifacts
  <2>3. b.files \in [Files -> OnDisk]
    BY <2>2 DEF OnDisk
  <2> QED BY <2>1, <2>2, <2>3 DEF Manifest
<1>2. Absent \notin Bundles /\ Torn \notin Bundles
  BY <1>1, StoreAssumption
<1>3. Nothing \in [Files -> OnDisk]
  BY DEF Nothing, OnDisk
<1>4. (CHOOSE b \in Bundles : TRUE) \in Bundles
  BY StoreAssumption
<1>5. NoWrite \in Write
  BY <1>3, <1>4 DEF NoWrite, Write, WritePhase, Count
<1>6. NoRead \in Read
  <2>1. (CHOOSE b \in Bundles : TRUE).dataset \in Datasets
    BY <1>1, <1>4
  <2> QED BY <1>3, <2>1 DEF NoRead, Read, ReadPhase, Manifest, Count
<1> QED BY <1>1, <1>2, <1>3, <1>5, <1>6

-----------------------------------------------------------------------------
(* Every variable keeps its type.                                          *)

\* A reader's record, one change at a time.
LEMMA ReadChanges ==
    ASSUME NEW c \in Read, NEW p \in ReadPhase, NEW n \in 1..(Count + 1),
           NEW d \in [Files -> OnDisk], NEW m \in Manifest, NEW q \in BOOLEAN
    PROVE  /\ [c EXCEPT !.next = n] \in Read
           /\ [c EXCEPT !.phase = p, !.next = n] \in Read
           /\ [c EXCEPT !.phase = p, !.manifest = m, !.quiet = q] \in Read
           /\ [c EXCEPT !.quiet = q] \in Read
           /\ [c EXCEPT !.files = d, !.next = n] \in Read
BY DEF Read

\* TypeOK is not inductive: while there are artifacts to write, hash or check,
\* the next one is one of them.
NextInRange ==
    /\ write.phase \in {"open", "close", "hash"} => write.next \in 1..Count
    /\ \A r \in Readers : read[r].phase = "check" => read[r].next \in 1..Count

Typed == TypeOK /\ NextInRange

LEMMA InitTyped == Init => Typed
<1> SUFFICES ASSUME Init PROVE Typed
  OBVIOUS
<1>1. writes \in 0..MaxWrites /\ reads \in 0..MaxReads
  BY StoreAssumption DEF Init
<1>2. write \in Write /\ read \in [Readers -> Read] /\ dir \in [Files -> OnDisk]
  BY BundleFacts DEF Init
<1>3. served \subseteq Served /\ cache \subseteq {s.bundle : s \in served} /\ intact \in BOOLEAN
  BY DEF Init
<1>4. manifest \in Manifest \union {Absent, Torn}
  BY DEF Init
<1>5. NextInRange
  BY DEF Init, NextInRange, NoWrite, NoRead
<1> QED BY <1>1, <1>2, <1>3, <1>4, <1>5 DEF Typed, TypeOK

\* A step of a writer changes write, dir and manifest; each keeps its type.
LEMMA WritingTyped ==
    ASSUME Typed, Writing
    PROVE  Typed'
<1> DEFINE WriteOK(w) == w \in Write /\ (w.phase \in {"open", "close", "hash"} => w.next \in 1..Count)
           ReadersOK(v) == /\ v \in [Readers -> Read]
                           /\ \A r \in Readers : v[r].phase = "check" => v[r].next \in 1..Count
<1>0. /\ dir \in [Files -> OnDisk] /\ write \in Write /\ writes \in 0..MaxWrites
      /\ write.next \in 1..(Count + 1) /\ write.bundle \in Bundles
      /\ write.digests \in [Files -> OnDisk] /\ MaxWrites \in Nat
      /\ write.phase \in {"open", "close", "hash"} => write.next \in 1..Count
      /\ ReadersOK(read)
  BY StoreAssumption DEF Typed, TypeOK, NextInRange, Write
<1>a. ASSUME WriteOK(write'), dir' \in [Files -> OnDisk], writes' \in 0..MaxWrites,
             manifest' \in Manifest \union {Absent, Torn}, intact' \in BOOLEAN,
             UNCHANGED <<cache, served, reads>>, ReadersOK(read')
      PROVE  Typed'
  <2>1. TypeOK'
    BY <1>a DEF Typed, TypeOK
  <2>2. NextInRange'
    BY <1>a DEF Typed, NextInRange
  <2> QED BY <2>1, <2>2 DEF Typed
<1>b. manifest \in Manifest \union {Absent, Torn} /\ intact \in BOOLEAN
  BY DEF Typed, TypeOK
<1>c. WriteOK(NoWrite)
  BY BundleFacts DEF NoWrite
<1>1. ASSUME NEW b \in Bundles, StartWrite(b)
      PROVE  Typed'
  <2>1. WriteOK(write')
    <3>1. write' = [NoWrite EXCEPT !.phase = "open", !.bundle = b]
      BY <1>1 DEF StartWrite
    <3>2. NoWrite \in Write /\ NoWrite.next = 1
      BY BundleFacts DEF NoWrite
    <3>3. write' \in Write /\ write'.next = 1
      BY <3>1, <3>2 DEF Write, WritePhase
    <3> QED BY <3>3 DEF Count
  <2>2. writes' \in 0..MaxWrites
    BY <1>0, <1>1 DEF StartWrite
  <2>3. ReadersOK(read')
    <3>1. ASSUME NEW r \in Readers
          PROVE  /\ read'[r] \in Read /\ read'[r].phase = read[r].phase
                 /\ read'[r].next = read[r].next
      <4>1. read[r] \in Read /\ read'[r] = [read[r] EXCEPT !.quiet = FALSE]
        BY <1>0, <1>1 DEF StartWrite
      <4> QED BY <4>1 DEF Read
    <3>2. read' \in [Readers -> Read]
      BY <1>1, <3>1 DEF StartWrite
    <3> QED BY <1>0, <3>1, <3>2
  <2> HIDE DEF WriteOK, ReadersOK
  <2> QED BY <1>0, <1>a, <1>b, <1>1, <2>1, <2>2, <2>3 DEF StartWrite
<1>2. CASE OpenFile
  <2>1. WriteOK(write')
    BY <1>0, <1>2 DEF OpenFile, Write, WritePhase
  <2>2. dir' \in [Files -> OnDisk]
    BY <1>0, <1>2 DEF OpenFile, OnDisk
  <2> QED BY <1>0, <1>a, <1>b, <1>2, <2>1, <2>2 DEF OpenFile
<1>3. CASE CloseFile
  <2>1. write.next \in 1..Count
    BY <1>0, <1>3 DEF CloseFile
  <2>2. WriteOK(write')
    <3>1. CASE write.next = Count
      <4>1. write' = [write EXCEPT !.phase = "hash", !.next = 1]
        BY <1>3, <3>1 DEF CloseFile
      <4>2. write' \in Write /\ write'.next = 1
        <5>1. "hash" \in WritePhase /\ 1 \in 1..(Count + 1)
          BY DEF WritePhase, Count
        <5> QED BY <1>0, <4>1, <5>1 DEF Write
      <4> QED BY <4>2 DEF Count
    <3>2. CASE write.next # Count
      <4>1. write' = [write EXCEPT !.phase = "open", !.next = write.next + 1]
        BY <1>3, <3>2 DEF CloseFile
      <4>2. write.next + 1 \in 1..Count /\ write.next + 1 \in 1..(Count + 1)
        BY <2>1, <3>2 DEF Count
      <4> QED BY <1>0, <4>1, <4>2 DEF Write, WritePhase
    <3> QED BY <3>1, <3>2
  <2>3. dir' \in [Files -> OnDisk]
    <3>1. write.bundle.files[WriteOrder[write.next]] \in OnDisk
      BY <1>0, <2>1, BundleFacts, OrdersType DEF OnDisk
    <3>2. dir' = [dir EXCEPT ![WriteOrder[write.next]] = write.bundle.files[WriteOrder[write.next]]]
      BY <1>3 DEF CloseFile
    <3> QED BY <1>0, <3>1, <3>2
  <2> QED BY <1>0, <1>a, <1>b, <1>3, <2>2, <2>3 DEF CloseFile
<1>4. CASE HashFile
  <2>1. WriteOK(write')
    <3>1. /\ write.next \in 1..Count /\ write.next + 1 \in 1..(Count + 1)
          /\ write.next # Count => write.next + 1 \in 1..Count
      BY <1>0, <1>4 DEF HashFile, Count
    <3>2. [write.digests EXCEPT ![WriteOrder[write.next]] = dir[WriteOrder[write.next]]] \in [Files -> OnDisk]
      BY <1>0, <3>1, OrdersType
    <3>3. write' = [write EXCEPT
                       !.digests = [write.digests EXCEPT ![WriteOrder[write.next]] = dir[WriteOrder[write.next]]],
                       !.phase = IF write.next = Count THEN "manifest" ELSE write.phase,
                       !.next = write.next + 1]
      BY <1>4 DEF HashFile
    <3> QED BY <1>0, <1>4, <3>1, <3>2, <3>3 DEF HashFile, Write, WritePhase
  <2> QED BY <1>0, <1>a, <1>b, <1>4, <2>1 DEF HashFile
<1>5. CASE OpenManifest
  <2>1. WriteOK(write')
    BY <1>0, <1>5 DEF OpenManifest, Write, WritePhase
  <2> QED BY <1>0, <1>a, <1>b, <1>5, <2>1 DEF OpenManifest
<1>6. CASE CloseManifest
  <2>1. manifest' \in Manifest
    BY <1>0, <1>6, BundleFacts DEF CloseManifest, Manifest
  <2> QED BY <1>0, <1>a, <1>b, <1>c, <1>6, <2>1 DEF CloseManifest
<1>7. CASE KillWriter
  BY <1>0, <1>a, <1>b, <1>c, <1>7 DEF KillWriter
<1> QED BY <1>1, <1>2, <1>3, <1>4, <1>5, <1>6, <1>7 DEF Writing

\* Readers change read alone, or, at the end, cache and served.
LEMMA ReadingTyped ==
    ASSUME Typed, NEW r \in Readers, Reading(r)
    PROVE  Typed'
<1> DEFINE ReadOK(c) == c \in Read /\ (c.phase = "check" => c.next \in 1..Count)
<1>0. /\ dir \in [Files -> OnDisk] /\ read \in [Readers -> Read] /\ read[r] \in Read
      /\ reads \in 0..MaxReads /\ MaxReads \in Nat
      /\ read[r].next \in 1..(Count + 1) /\ read[r].files \in [Files -> OnDisk]
      /\ read[r].manifest \in Manifest
      /\ read[r].phase = "check" => read[r].next \in 1..Count
      /\ served \subseteq Served /\ cache \subseteq {s.bundle : s \in served}
      /\ read[r].quiet \in BOOLEAN
      /\ \A s \in Readers : ReadOK(read[s])
  BY StoreAssumption DEF Typed, TypeOK, NextInRange, Read
<1>a. ASSUME NEW c, ReadOK(c), read' = [read EXCEPT ![r] = c], reads' \in 0..MaxReads,
             served' \subseteq Served, cache' \subseteq {s.bundle : s \in served'},
             UNCHANGED <<dir, manifest, write, intact, writes>>
      PROVE  Typed'
  <2>1. \A s \in Readers : ReadOK(read'[s])
    BY <1>0, <1>a
  <2>2. read' \in [Readers -> Read]
    BY <1>0, <1>a
  <2>3. TypeOK'
    BY <1>a, <2>2 DEF Typed, TypeOK
  <2>4. NextInRange'
    BY <1>a, <2>1 DEF Typed, NextInRange
  <2> QED BY <2>3, <2>4 DEF Typed
<1>b. ReadOK(NoRead)
  BY BundleFacts DEF NoRead
<1>c. 1 \in 1..Count /\ 1 \in 1..(Count + 1)
  BY DEF Count
<1>1. CASE ReadManifest(r)
  <2> DEFINE c == [NoRead EXCEPT !.phase = "check", !.manifest = manifest,
                                  !.quiet = (write.phase = "idle")]
  <2>1. ReadOK(c)
    <3>1. manifest \in Manifest /\ "check" \in ReadPhase
      BY <1>1 DEF Typed, TypeOK, ReadManifest, ReadPhase
    <3>2. c \in Read
      BY <3>1, BundleFacts DEF Read
    <3>3. c.next = 1
      BY DEF NoRead
    <3> QED BY <3>2, <3>3, <1>c
  <2>2. reads' \in 0..MaxReads
    BY <1>0, <1>1 DEF ReadManifest
  <2>3. /\ read' = [read EXCEPT ![r] = c] /\ served' = served /\ cache' = cache
        /\ UNCHANGED <<dir, manifest, write, intact, writes>>
    BY <1>1 DEF ReadManifest
  <2> HIDE DEF c, ReadOK
  <2> QED BY <1>0, <1>a, <2>1, <2>2, <2>3
<1>2. CASE CheckFile(r)
  <2> DEFINE c == Checked(read[r])
  <2>1. ReadOK(c)
    <3>1. CASE read[r].next = Count
      <4>1. "read" \in ReadPhase
        BY DEF ReadPhase
      <4> QED BY <1>0, <1>c, <3>1, <4>1, ReadChanges DEF Read, Checked
    <3>2. CASE read[r].next # Count
      <4>1. read[r].next + 1 \in 1..Count /\ read[r].next + 1 \in 1..(Count + 1)
        BY <1>0, <1>2, <3>2 DEF CheckFile, Count
      <4>2. c \in Read /\ c.next = read[r].next + 1
        BY <1>0, <3>2, <4>1 DEF Read, Checked
      <4> QED BY <4>1, <4>2
    <3> QED BY <3>1, <3>2
  <2>2. /\ served' = served /\ cache' = cache /\ reads' = reads
        /\ UNCHANGED <<dir, manifest, write, intact, writes>>
    BY <1>2 DEF CheckFile
  <2>3. read' = [read EXCEPT ![r] = c]
    BY <1>2 DEF CheckFile
  <2> HIDE DEF c, ReadOK
  <2> QED BY <1>0, <1>a, <2>1, <2>2, <2>3
<1>3. CASE RejectFile(r)
  BY <1>0, <1>a, <1>b, <1>3 DEF RejectFile
<1>4. CASE ReadTorn(r)
  BY <1>0, <1>a, <1>b, <1>4 DEF ReadTorn
<1>5. CASE ReadFile(r)
  <2> DEFINE f == ReadOrder[read[r].next]
             d == [read[r].files EXCEPT ![f] = dir[f]]
             c == [read[r] EXCEPT !.files = d, !.next = read[r].next + 1]
  <2>1. read[r].next \in 1..Count /\ read[r].next + 1 \in 1..(Count + 1)
    BY <1>0, <1>5 DEF ReadFile, Count
  <2>2. f \in Files
    BY <2>1, OrdersType
  <2>3. d \in [Files -> OnDisk]
    BY <1>0, <2>2
  <2>4. read' = [read EXCEPT ![r] = c]
    BY <1>5 DEF ReadFile
  <2>5. c.phase = read[r].phase /\ c \in Read
    <3> HIDE DEF d
    <3> QED BY <1>0, <2>1, <2>3 DEF Read
  <2>6. read[r].phase = "read"
    BY <1>5 DEF ReadFile
  <2>7. ReadOK(c)
    <3> HIDE DEF c
    <3> QED BY <2>5, <2>6
  <2>8. /\ served' = served /\ cache' = cache /\ reads' = reads
        /\ UNCHANGED <<dir, manifest, write, intact, writes>>
    BY <1>5 DEF ReadFile
  <2> HIDE DEF c, ReadOK
  <2> QED BY <1>0, <1>a, <2>4, <2>7, <2>8
<1>6. CASE Deliver(r)
  <2> DEFINE given == [bundle |-> Result(r), quiet |-> read[r].quiet]
  <2>1. served' \subseteq Served /\ cache' \subseteq {s.bundle : s \in served'}
    <3>1. CASE read[r].files \in Valid
      <4>1. given \in Served /\ given.bundle = Result(r)
        <5>1. read[r].files \in Artifacts
          BY <3>1, StoreAssumption
        <5> QED BY <1>0, <5>1 DEF Result, Bundle, Manifest, Served
      <4>2. served' = served \union {given} /\ cache' \subseteq cache \union {Result(r)}
        BY <1>6, <3>1 DEF Deliver
      <4> HIDE DEF given
      <4> QED BY <1>0, <4>1, <4>2
    <3>2. CASE read[r].files \notin Valid
      BY <1>0, <1>6, <3>2 DEF Deliver
    <3> QED BY <3>1, <3>2
  <2> QED BY <1>0, <1>a, <1>b, <1>6, <2>1 DEF Deliver
<1> QED BY <1>1, <1>2, <1>3, <1>4, <1>5, <1>6 DEF Reading

LEMMA NextTyped == Typed /\ [Next]_vars => Typed'
<1> SUFFICES ASSUME Typed, [Next]_vars PROVE Typed'
  OBVIOUS
<1>1. CASE Writing
  BY <1>1, WritingTyped
<1>2. ASSUME NEW r \in Readers, Reading(r) PROVE Typed'
  BY <1>2, ReadingTyped
<1>3. CASE Evict
  BY <1>3 DEF Typed, TypeOK, NextInRange, Evict
<1>4. CASE Restart
  <2>1. /\ read' \in [Readers -> Read]
        /\ \A r \in Readers : read'[r].phase = "idle"
    BY <1>4, BundleFacts DEF Restart, NoRead
  <2>2. TypeOK'
    BY <1>4, <2>1 DEF Typed, TypeOK, Restart
  <2>3. NextInRange'
    BY <1>4, <2>1 DEF Typed, NextInRange, Restart
  <2> QED BY <2>2, <2>3 DEF Typed
<1>5. CASE UNCHANGED vars
  BY <1>5 DEF Typed, TypeOK, NextInRange, vars
<1> QED BY <1>1, <1>2, <1>3, <1>4, <1>5 DEF Next

\* Disk, manifest, writer, readers and cache keep their types (write_snapshot,
\* read_snapshot, snapshot_bundle), for any bundles and any number of readers.
THEOREM TypeCorrect == Spec => []TypeOK
<1>1. Spec => []Typed
  BY InitTyped, NextTyped, PTL DEF Spec
<1>2. Typed => TypeOK
  BY DEF Typed
<1> QED BY <1>1, <1>2, PTL

-----------------------------------------------------------------------------
(* What a writer has done.                                                 *)

\* The artifacts before the next one have been written, then hashed; what a
\* finished write leaves is what its manifest says.
WriteInv ==
    /\ write.phase \in {"open", "close"} =>
         \A i \in 1..Count : i < write.next => dir[WriteOrder[i]] = write.bundle.files[WriteOrder[i]]
    /\ write.phase = "hash" =>
         /\ dir = write.bundle.files
         /\ \A i \in 1..Count : i < write.next => write.digests[WriteOrder[i]] = dir[WriteOrder[i]]
    /\ write.phase \in {"manifest", "seal"} => dir = write.bundle.files /\ write.digests = dir
    /\ manifest \in Bundles \union {Absent, Torn}
    /\ intact => write.phase = "idle" /\ manifest \in Bundles /\ dir = manifest.files

\* Two sets of artifacts that agree in an order that covers Files are the same.
LEMMA SameInOrder ==
    ASSUME NEW f \in [Files -> OnDisk], NEW g \in [Files -> OnDisk], NEW order,
           \A x \in Files : \E i \in 1..Count : order[i] = x,
           \A i \in 1..Count : f[order[i]] = g[order[i]]
    PROVE  f = g
<1>1. \A x \in Files : f[x] = g[x]
  OBVIOUS
<1> QED BY <1>1

LEMMA WritingInv ==
    ASSUME Typed, WriteInv, Writing
    PROVE  WriteInv'
<1>0. /\ dir \in [Files -> OnDisk] /\ write \in Write /\ write.bundle \in Bundles
      /\ write.next \in 1..(Count + 1) /\ write.digests \in [Files -> OnDisk]
      /\ write.bundle.files \in [Files -> OnDisk]
      /\ write.phase \in {"open", "close", "hash"} => write.next \in 1..Count
      /\ write.phase # "idle" => ~intact
      /\ intact \in BOOLEAN
      /\ manifest \in Bundles \union {Absent, Torn}
  <2>1. write \in Write /\ write.bundle \in Bundles
    BY DEF Typed, TypeOK, Write
  <2> QED BY <2>1, BundleFacts DEF Typed, TypeOK, NextInRange, Write, WriteInv
<1> DEFINE w == WriteOrder[write.next]
<1>1. ASSUME NEW b \in Bundles, StartWrite(b)
      PROVE  WriteInv'
  <2>1. write'.phase = "open" /\ write'.next = 1
    BY <1>1 DEF StartWrite, NoWrite
  <2>2. \A i \in 1..Count : ~(i < 1)
    BY DEF Count
  <2> QED BY <1>0, <1>1, <2>1, <2>2 DEF StartWrite, WriteInv
<1>2. CASE OpenFile
  <2>1. /\ write.next \in 1..Count /\ dir' = [dir EXCEPT ![w] = Torn]
        /\ write'.phase = "close" /\ write'.next = write.next /\ write'.bundle = write.bundle
    BY <1>0, <1>2 DEF OpenFile, Write
  <2>2. ASSUME NEW i \in 1..Count, i < write.next
        PROVE  dir'[WriteOrder[i]] = write.bundle.files[WriteOrder[i]]
    <3>1. i # write.next /\ WriteOrder[i] # w /\ WriteOrder[i] \in Files
      BY <2>1, <2>2, WriteOrderCovers, OrdersType DEF Count
    <3>2. dir[WriteOrder[i]] = write.bundle.files[WriteOrder[i]]
      BY <1>2, <2>2 DEF OpenFile, WriteInv
    <3> HIDE DEF w
    <3> QED BY <1>0, <2>1, <3>1, <3>2
  <2> QED BY <1>0, <1>2, <2>1, <2>2 DEF OpenFile, WriteInv
<1>3. CASE CloseFile
  <2>1. /\ write.next \in 1..Count /\ dir' = [dir EXCEPT ![w] = write.bundle.files[w]]
        /\ w \in Files
    BY <1>0, <1>3, OrdersType DEF CloseFile
  <2>2. ASSUME NEW i \in 1..Count, i <= write.next
        PROVE  dir'[WriteOrder[i]] = write.bundle.files[WriteOrder[i]]
    <3>1. CASE i = write.next
      BY <1>0, <2>1, <3>1
    <3>2. CASE i # write.next
      <4>1. i < write.next /\ WriteOrder[i] # w /\ WriteOrder[i] \in Files
        BY <2>1, <2>2, <3>2, WriteOrderCovers, OrdersType DEF Count
      <4>2. dir[WriteOrder[i]] = write.bundle.files[WriteOrder[i]]
        BY <1>3, <4>1 DEF CloseFile, WriteInv
      <4> HIDE DEF w
      <4> QED BY <1>0, <2>1, <4>1, <4>2
    <3> QED BY <3>1, <3>2
  <2>3. CASE write.next = Count
    <3>1. write' = [write EXCEPT !.phase = "hash", !.next = 1]
      BY <1>3, <2>3 DEF CloseFile
    <3>2. write'.phase = "hash" /\ write'.next = 1 /\ write'.bundle = write.bundle
      BY <1>0, <3>1 DEF Write
    <3>3. \A i \in 1..Count : dir'[WriteOrder[i]] = write.bundle.files[WriteOrder[i]]
      BY <2>2, <2>3 DEF Count
    <3>4. dir' \in [Files -> OnDisk]
      BY WritingTyped DEF Typed, TypeOK
    <3>5. dir' = write.bundle.files
      BY <1>0, <3>3, <3>4, SameInOrder, WriteOrderCovers
    <3>6. \A i \in 1..Count : ~(i < 1)
      BY DEF Count
    <3> QED BY <1>0, <1>3, <3>2, <3>5, <3>6 DEF CloseFile, WriteInv
  <2>4. CASE write.next # Count
    <3>1. write' = [write EXCEPT !.phase = "open", !.next = write.next + 1]
      BY <1>3, <2>4 DEF CloseFile
    <3>2. write'.phase = "open" /\ write'.next = write.next + 1 /\ write'.bundle = write.bundle
      BY <1>0, <3>1 DEF Write
    <3>3. \A i \in 1..Count : i < write'.next => dir'[WriteOrder[i]] = write'.bundle.files[WriteOrder[i]]
      BY <2>1, <2>2, <3>2 DEF Count
    <3> QED BY <1>0, <1>3, <3>2, <3>3 DEF CloseFile, WriteInv
  <2> QED BY <2>3, <2>4
<1>4. CASE HashFile
  <2> DEFINE d == [write.digests EXCEPT ![w] = dir[w]]
  <2>1. write.next \in 1..Count /\ w \in Files /\ dir = write.bundle.files /\ dir' = dir
    BY <1>0, <1>4, OrdersType DEF HashFile, WriteInv
  <2>2. /\ write'.bundle = write.bundle /\ write'.digests = d
        /\ write'.phase = (IF write.next = Count THEN "manifest" ELSE "hash")
        /\ write'.next = write.next + 1
    BY <1>0, <1>4 DEF HashFile, Write
  <2>3. ASSUME NEW i \in 1..Count, i <= write.next
        PROVE  d[WriteOrder[i]] = dir[WriteOrder[i]]
    <3>1. CASE i = write.next
      BY <1>0, <2>1, <3>1
    <3>2. CASE i # write.next
      <4>1. i < write.next /\ WriteOrder[i] # w /\ WriteOrder[i] \in Files
        BY <2>1, <2>3, <3>2, WriteOrderCovers, OrdersType DEF Count
      <4>2. write.digests[WriteOrder[i]] = dir[WriteOrder[i]]
        BY <1>4, <4>1 DEF HashFile, WriteInv
      <4> HIDE DEF w
      <4> QED BY <1>0, <2>1, <4>1, <4>2
    <3> QED BY <3>1, <3>2
  <2>4. d \in [Files -> OnDisk]
    BY <1>0, <2>1
  <2> HIDE DEF d, w
  <2>5. CASE write.next = Count
    <3>1. \A i \in 1..Count : d[WriteOrder[i]] = dir[WriteOrder[i]]
      BY <2>3, <2>5 DEF Count
    <3>2. d = dir
      BY <1>0, <2>4, <3>1, SameInOrder, WriteOrderCovers
    <3> QED BY <1>0, <1>4, <2>1, <2>2, <2>5, <3>2 DEF HashFile, WriteInv
  <2>6. CASE write.next # Count
    <3>1. \A i \in 1..Count : i < write'.next => write'.digests[WriteOrder[i]] = dir'[WriteOrder[i]]
      BY <2>1, <2>2, <2>3 DEF Count
    <3> QED BY <1>0, <1>4, <2>1, <2>2, <2>6, <3>1 DEF HashFile, WriteInv
  <2> QED BY <2>5, <2>6
<1>5. CASE OpenManifest
  <2>1. write'.phase = "seal" /\ write'.bundle = write.bundle /\ write'.digests = write.digests
    BY <1>0, <1>5 DEF OpenManifest, Write
  <2> QED BY <1>0, <1>5, <2>1 DEF OpenManifest, WriteInv
<1>6. CASE CloseManifest
  <2>1. write.digests = write.bundle.files /\ dir = write.bundle.files
    BY <1>6 DEF CloseManifest, WriteInv
  <2>2. manifest' = write.bundle
    BY <1>0, <1>6, <2>1, BundleFacts DEF CloseManifest
  <2>3. write'.phase = "idle"
    BY <1>6 DEF CloseManifest, NoWrite
  <2> QED BY <1>0, <1>6, <2>1, <2>2, <2>3 DEF CloseManifest, WriteInv
<1>7. CASE KillWriter
  <2>1. write'.phase = "idle"
    BY <1>7 DEF KillWriter, NoWrite
  <2> QED BY <1>0, <1>7, <2>1 DEF KillWriter, WriteInv
<1> QED BY <1>1, <1>2, <1>3, <1>4, <1>5, <1>6, <1>7 DEF Writing

LEMMA NextWriteInv == Typed /\ WriteInv /\ [Next]_vars => WriteInv'
<1> SUFFICES ASSUME Typed, WriteInv, [Next]_vars PROVE WriteInv'
  OBVIOUS
<1>1. CASE Writing
  BY <1>1, WritingInv
<1>2. ASSUME UNCHANGED <<dir, manifest, write, intact>>
      PROVE  WriteInv'
  BY <1>2 DEF WriteInv
<1>3. ASSUME NEW r \in Readers, Reading(r) PROVE WriteInv'
  BY <1>2, <1>3
     DEF Reading, ReadManifest, CheckFile, RejectFile, ReadTorn, ReadFile, Deliver
<1>4. CASE Evict \/ Restart \/ UNCHANGED vars
  BY <1>2, <1>4 DEF Evict, Restart, vars
<1> QED BY <1>1, <1>3, <1>4 DEF Next

LEMMA InitWriteInv == Init => WriteInv
BY BundleFacts DEF Init, WriteInv, NoWrite

\* A snapshot whose write came to its end can be read: the digests write_snapshot
\* takes from the disk are the bundle's, whatever earlier writes were killed
\* and whatever readers do meanwhile.
THEOREM FinishedIsReadable == Spec => []FinishedCanBeRead
<1>1. Init => Typed /\ WriteInv
  BY InitTyped, InitWriteInv
<1>2. Typed /\ WriteInv /\ [Next]_vars => (Typed /\ WriteInv)'
  BY NextTyped, NextWriteInv
<1>3. WriteInv => FinishedCanBeRead
  BY DEF WriteInv, FinishedCanBeRead
<1> QED BY <1>1, <1>2, <1>3, PTL DEF Spec

-----------------------------------------------------------------------------
(* What a reader has read, as long as no write overlaps it.                *)

ReaderInv(r) ==
    read[r].quiet =>
      /\ write.phase = "idle" /\ read[r].manifest \in Bundles
      /\ read[r].phase = "check" =>
           \A i \in 1..Count :
             i < read[r].next => dir[CheckOrder[i]] = read[r].manifest.files[CheckOrder[i]]
      /\ read[r].phase = "read" =>
           /\ dir = read[r].manifest.files
           /\ \A i \in 1..Count : i < read[r].next => read[r].files[ReadOrder[i]] = dir[ReadOrder[i]]

ReadInv == QuietReadsAreWritten /\ \A r \in Readers : ReaderInv(r)

\* While a writer runs, no reader is quiet.
LEMMA WritingReadInv ==
    ASSUME Typed, ReadInv, Writing
    PROVE  ReadInv'
<1>1. ASSUME NEW b \in Bundles, StartWrite(b), NEW r \in Readers
      PROVE  ~read'[r].quiet
  <2>1. read[r] \in Read /\ read'[r] = [read[r] EXCEPT !.quiet = FALSE]
    BY <1>1 DEF StartWrite, Typed, TypeOK
  <2> QED BY <2>1 DEF Read
<1>2. CASE write.phase # "idle"
  <2>1. read' = read /\ \A r \in Readers : ~read[r].quiet
    BY <1>2 DEF Writing, StartWrite, OpenFile, CloseFile, HashFile, OpenManifest, CloseManifest,
         KillWriter, ReadInv, ReaderInv
  <2>2. served' = served
    BY DEF Writing, StartWrite, OpenFile, CloseFile, HashFile, OpenManifest, CloseManifest, KillWriter
  <2> QED BY <2>1, <2>2 DEF ReadInv, ReaderInv, QuietReadsAreWritten
<1>3. CASE write.phase = "idle"
  <2>1. PICK b \in Bundles : StartWrite(b)
    BY <1>3 DEF Writing, OpenFile, CloseFile, HashFile, OpenManifest, CloseManifest, KillWriter
  <2>2. served' = served
    BY <2>1 DEF StartWrite
  <2> QED BY <1>1, <2>1, <2>2 DEF ReadInv, ReaderInv, QuietReadsAreWritten
<1> QED BY <1>2, <1>3

LEMMA ReadingReadInv ==
    ASSUME Typed, WriteInv, ReadInv, NEW r \in Readers, Reading(r)
    PROVE  ReadInv'
<1>0. /\ dir \in [Files -> OnDisk] /\ read \in [Readers -> Read] /\ read[r] \in Read
      /\ read[r].next \in 1..(Count + 1) /\ read[r].files \in [Files -> OnDisk]
      /\ read[r].phase = "check" => read[r].next \in 1..Count
      /\ ReaderInv(r)
  BY DEF Typed, TypeOK, NextInRange, Read, ReadInv
<1>a. ASSUME NEW c, read' = [read EXCEPT ![r] = c], UNCHANGED <<dir, write>>,
             QuietReadsAreWritten', ReaderInv(r)'
      PROVE  ReadInv'
  <2>1. \A s \in Readers \ {r} : read'[s] = read[s]
    BY <1>0, <1>a
  <2>2. \A s \in Readers \ {r} : ReaderInv(s)'
    BY <1>a, <2>1 DEF ReadInv, ReaderInv
  <2> QED BY <1>a, <2>2 DEF ReadInv
<1>b. ASSUME NEW c, ~c.quiet, read' = [read EXCEPT ![r] = c], UNCHANGED <<dir, write>>,
             QuietReadsAreWritten'
      PROVE  ReadInv'
  <2>1. ~read'[r].quiet
    BY <1>0, <1>b
  <2>2. ReaderInv(r)'
    BY <2>1 DEF ReaderInv
  <2> QED BY <1>a, <1>b, <2>2
<1>c. served' = served => QuietReadsAreWritten'
  BY DEF ReadInv, QuietReadsAreWritten
<1>d. ~NoRead.quiet
  BY DEF NoRead
<1>1. CASE ReadManifest(r)
  <2> DEFINE c == [NoRead EXCEPT !.phase = "check", !.manifest = manifest,
                                 !.quiet = (write.phase = "idle")]
  <2>1. write' = write /\ dir' = dir /\ served' = served /\ manifest \in Bundles
    BY <1>1 DEF ReadManifest, WriteInv
  <2>2. read' = [read EXCEPT ![r] = c]
    BY <1>1 DEF ReadManifest
  <2>3. /\ c.phase = "check" /\ c.manifest = manifest /\ c.next = 1
        /\ c.quiet = (write.phase = "idle")
    BY DEF NoRead
  <2>4. \A i \in 1..Count : ~(i < 1)
    BY DEF Count
  <2> HIDE DEF c
  <2>5. read'[r] = c
    BY <1>0, <2>2
  <2>6. ReaderInv(r)'
    BY <2>1, <2>3, <2>4, <2>5 DEF ReaderInv
  <2> QED BY <1>a, <1>c, <2>1, <2>2, <2>6
<1>2. CASE CheckFile(r)
  <2> DEFINE c == Checked(read[r])
             m == read[r].manifest.files
  <2>1. /\ read[r].phase = "check" /\ UNCHANGED <<dir, write, served>>
        /\ dir[CheckOrder[read[r].next]] = m[CheckOrder[read[r].next]]
        /\ read[r].next \in 1..Count
    BY <1>0, <1>2 DEF CheckFile, CheckNext
  <2>2. read' = [read EXCEPT ![r] = c]
    BY <1>2 DEF CheckFile
  <2>3. c.quiet = read[r].quiet /\ c.manifest = read[r].manifest
    BY <1>0 DEF Checked, Read
  <2>4. read'[r] = c
    BY <1>0, <2>2
  <2>5. CASE ~read[r].quiet
    <3> HIDE DEF c
    <3> QED BY <1>b, <1>c, <2>1, <2>2, <2>3, <2>5
  <2>6. CASE read[r].quiet
    <3>1. write.phase = "idle" /\ read[r].manifest \in Bundles
      BY <1>0, <2>6 DEF ReaderInv
    <3>2. ASSUME NEW i \in 1..Count, i <= read[r].next
          PROVE  dir[CheckOrder[i]] = m[CheckOrder[i]]
      <4>1. i = read[r].next \/ i < read[r].next
        BY <2>1, <3>2 DEF Count
      <4> QED BY <1>0, <2>1, <2>6, <4>1 DEF ReaderInv
    <3>3. CASE read[r].next = Count
      <4>1. c.phase = "read" /\ c.next = 1
        BY <1>0, <3>3 DEF Checked, Read
      <4>2. m \in [Files -> OnDisk]
        BY <3>1, BundleFacts
      <4>3. \A i \in 1..Count : dir[CheckOrder[i]] = m[CheckOrder[i]]
        BY <3>2, <3>3 DEF Count
      <4> HIDE DEF c, m
      <4>4. dir = m
        BY <1>0, <4>2, <4>3, SameInOrder, CheckOrderCovers
      <4>5. \A i \in 1..Count : ~(i < 1)
        BY DEF Count
      <4>6. ReaderInv(r)'
        BY <2>1, <2>3, <2>4, <3>1, <4>1, <4>4, <4>5 DEF ReaderInv, m
      <4> QED BY <1>a, <1>c, <2>1, <2>2, <4>6
    <3>4. CASE read[r].next # Count
      <4>1. c.phase = "check" /\ c.next = read[r].next + 1
        BY <1>0, <2>1, <3>4 DEF Checked, Read
      <4>2. \A i \in 1..Count : i < c.next => dir[CheckOrder[i]] = m[CheckOrder[i]]
        BY <2>1, <3>2, <4>1 DEF Count
      <4> HIDE DEF c
      <4>3. ReaderInv(r)'
        BY <2>1, <2>3, <2>4, <3>1, <4>1, <4>2 DEF ReaderInv
      <4> QED BY <1>a, <1>c, <2>1, <2>2, <4>3
    <3> QED BY <3>3, <3>4
  <2> QED BY <2>5, <2>6
<1>3. CASE RejectFile(r)
  BY <1>b, <1>c, <1>d, <1>3 DEF RejectFile
<1>4. CASE ReadTorn(r)
  BY <1>b, <1>c, <1>d, <1>4 DEF ReadTorn
<1>5. CASE ReadFile(r)
  <2> DEFINE f == ReadOrder[read[r].next]
             d == [read[r].files EXCEPT ![f] = dir[f]]
             c == [read[r] EXCEPT !.files = d, !.next = read[r].next + 1]
  <2>1. /\ read[r].phase = "read" /\ read[r].next \in 1..Count
        /\ UNCHANGED <<dir, write, served>>
    BY <1>0, <1>5 DEF ReadFile, Count
  <2>2. f \in Files
    BY <2>1, OrdersType
  <2>3. read' = [read EXCEPT ![r] = c]
    BY <1>5 DEF ReadFile
  <2>4. /\ c.phase = "read" /\ c.next = read[r].next + 1 /\ c.manifest = read[r].manifest
        /\ c.files = d /\ c.quiet = read[r].quiet
    BY <1>0, <2>1 DEF Read
  <2>5. read'[r] = c
    BY <1>0, <2>3
  <2>6. CASE ~read[r].quiet
    <3> HIDE DEF c
    <3> QED BY <1>b, <1>c, <2>1, <2>3, <2>4, <2>6
  <2>7. CASE read[r].quiet
    <3>1. write.phase = "idle" /\ read[r].manifest \in Bundles /\ dir = read[r].manifest.files
      BY <1>0, <2>1, <2>7 DEF ReaderInv
    <3>2. ASSUME NEW i \in 1..Count, i <= read[r].next
          PROVE  d[ReadOrder[i]] = dir[ReadOrder[i]]
      <4>1. CASE ReadOrder[i] = f
        BY <1>0, <2>2, <4>1
      <4>2. CASE ReadOrder[i] # f
        <5>1. i < read[r].next /\ ReadOrder[i] \in Files
          BY <2>1, <3>2, <4>2, OrdersType DEF Count
        <5>2. read[r].files[ReadOrder[i]] = dir[ReadOrder[i]]
          BY <1>0, <2>1, <2>7, <5>1 DEF ReaderInv
        <5> HIDE DEF f
        <5> QED BY <1>0, <4>2, <5>1, <5>2
      <4> QED BY <4>1, <4>2
    <3> HIDE DEF c, d
    <3>3. \A i \in 1..Count : i < c.next => c.files[ReadOrder[i]] = dir[ReadOrder[i]]
      BY <2>1, <2>4, <3>2 DEF Count
    <3>4. ReaderInv(r)'
      BY <2>1, <2>4, <2>5, <3>1, <3>3 DEF ReaderInv
    <3> QED BY <1>a, <1>c, <2>1, <2>3, <3>4
  <2> QED BY <2>6, <2>7
<1>6. CASE Deliver(r)
  <2> DEFINE given == [bundle |-> Result(r), quiet |-> read[r].quiet]
  <2>1. served' \subseteq served \union {given}
    BY <1>6 DEF Deliver
  <2>2. read[r].quiet => Result(r) \in Bundles
    <3> SUFFICES ASSUME read[r].quiet PROVE Result(r) \in Bundles
      OBVIOUS
    <3>1. /\ read[r].manifest \in Bundles /\ dir = read[r].manifest.files
          /\ \A i \in 1..Count : read[r].files[ReadOrder[i]] = dir[ReadOrder[i]]
      BY <1>0, <1>6 DEF Deliver, ReaderInv, Count
    <3>2. read[r].files = read[r].manifest.files
      BY <1>0, <3>1, SameInOrder, ReadOrderCovers
    <3>3. Result(r) = read[r].manifest
      BY <3>1, <3>2, BundleFacts DEF Result
    <3> QED BY <3>1, <3>3
  <2>3. QuietReadsAreWritten'
    <3>1. given.quiet => given.bundle \in Bundles
      BY <2>2
    <3> HIDE DEF given
    <3> QED BY <2>1, <3>1 DEF ReadInv, QuietReadsAreWritten
  <2> QED BY <1>b, <1>d, <1>6, <2>3 DEF Deliver
<1> QED BY <1>1, <1>2, <1>3, <1>4, <1>5, <1>6 DEF Reading

\* A read that no write overlaps gives a bundle that was written, whole
\* (read_snapshot): the digests are enough against every way in which writes
\* over older snapshots may be killed.
THEOREM QuietReadsAreWhole == Spec => []QuietReadsAreWritten
<1> DEFINE Inv == Typed /\ WriteInv /\ ReadInv
<1>1. Init => Inv
  <2>1. Init => ReadInv
    BY DEF Init, ReadInv, ReaderInv, NoRead, QuietReadsAreWritten
  <2> QED BY <2>1, InitTyped, InitWriteInv
<1>2. Inv /\ [Next]_vars => Inv'
  <2> SUFFICES ASSUME Typed, WriteInv, ReadInv, [Next]_vars PROVE ReadInv'
    BY NextTyped, NextWriteInv
  <2>1. CASE Writing
    BY <2>1, WritingReadInv
  <2>2. ASSUME NEW r \in Readers, Reading(r) PROVE ReadInv'
    BY <2>2, ReadingReadInv
  <2>3. CASE Evict
    BY <2>3 DEF Evict, ReadInv, ReaderInv, QuietReadsAreWritten
  <2>4. CASE Restart
    <3>1. \A r \in Readers : ~read'[r].quiet
      BY <2>4 DEF Restart, NoRead
    <3> QED BY <2>4, <3>1 DEF Restart, ReadInv, ReaderInv, QuietReadsAreWritten
  <2>5. CASE UNCHANGED vars
    BY <2>5 DEF vars, ReadInv, ReaderInv, QuietReadsAreWritten
  <2> QED BY <2>1, <2>2, <2>3, <2>4, <2>5 DEF Next
<1>3. Inv => QuietReadsAreWritten
  BY DEF ReadInv
<1> QED BY <1>1, <1>2, <1>3, PTL DEF Spec
=============================================================================

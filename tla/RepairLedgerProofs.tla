------------------------- MODULE RepairLedgerProofs -------------------------
(***************************************************************************)
(* Proofs about RepairLedger, for any number of threads, any sources and   *)
(* any number of requests.                                                 *)
(***************************************************************************)
EXTENDS RepairLedger, SequenceTheorems, TLAPS

-----------------------------------------------------------------------------
(* Facts about the operators.                                              *)

LEMMA SelectedType ==
    ASSUME NEW n \in Names
    PROVE  /\ Selected(n) \in Selection
           /\ Selected(n).bundle.overlays = {}
           /\ Selected(n).bundle \in Bundle
           /\ Selected(n).kind \in SnapshotKinds
BY CatalogAssumption DEF Selected, Selection, Bundle, Fresh

LEMMA SnapshotIdType ==
    ASSUME NEW s \in Selection
    PROVE  /\ SnapshotId(s) \in SnapshotIds
           /\ SnapshotId(s)[1] = Dataset(s.bundle)
BY SourceAssumption DEF SnapshotId, SnapshotIds, Selection, Bundle, Dataset, Data, Source

LEMMA NoCallType == NoCall \in Call
<1>1. Selected(Initial) \in Selection /\ Initial \in Names
  BY SelectedType, CatalogAssumption
<1>2. SnapshotId(Selected(Initial)) \in SnapshotIds
  BY <1>1, SnapshotIdType
<1>3. (CHOOSE r \in AskedRepairs : TRUE) \in FindingKey
  BY RequestAssumption
<1>4. Catalog[Initial].kind \in SnapshotKinds
  BY CatalogAssumption
<1>5. Selected(Initial).bundle \in Bundle
  BY <1>1, SelectedType
<1> QED BY <1>1, <1>2, <1>3, <1>4, <1>5
     DEF NoCall, Call, PC, Decisions, RepairKind, NoEntry, Status

LEMMA ApplyType ==
    ASSUME NEW b \in Bundle, NEW o \in Overlay
    PROVE  /\ apply_approved_repair(b, o) \in Bundle
           /\ apply_approved_repair(b, o).source = b.source
           /\ apply_approved_repair(b, o).overlays \subseteq b.overlays \union {o}
           /\ o \in apply_approved_repair(b, o).overlays => o \in b.overlays \/ Applicable(b, o)
BY DEF apply_approved_repair, Bundle

LEMMA ProposedKind ==
    ASSUME NEW b, NEW o \in propose_repairs(b)
    PROVE  o.kind \in RepairKind
<1> DEFINE lines == faultlines(b)
           top == {f \in lines :
                    Cardinality({g \in lines : LexLess(g.order, f.order)}) < MaxProposed}
<1>1. \/ \E g \in gap_findings(b) : o = [repair |-> g, kind |-> "record_missing_approval"]
      \/ \E f \in top : o = [repair |-> f.finding, kind |-> RepairKindOf(f)]
  BY DEF propose_repairs
<1>2. CASE \E g \in gap_findings(b) : o = [repair |-> g, kind |-> "record_missing_approval"]
  BY <1>2 DEF RepairKind
<1>3. CASE \E f \in top : o = [repair |-> f.finding, kind |-> RepairKindOf(f)]
  <2>1. PICK f \in top : o = [repair |-> f.finding, kind |-> RepairKindOf(f)]
    BY <1>3
  <2>2. RepairKindOf(f) \in RepairKind
    BY DEF RepairKindOf, RepairKind
  <2> QED BY <2>1, <2>2
<1> QED BY <1>1, <1>2, <1>3

-----------------------------------------------------------------------------
(* Every variable keeps its type.                                          *)

LEMMA KeyType ==
    ASSUME TypeOK, NEW t \in Threads
    PROVE  call[t] \in Call /\ Key(t) \in LedgerKeys
BY DEF TypeOK, Call, Key, LedgerKeys

\* What writing an entry does to the ledger and to the list of entries.
LEMMA WriteEntryType ==
    ASSUME TypeOK, NEW t \in Threads, NEW status \in Status, WriteEntry(t, status)
    PROVE  /\ entries' \in Seq(Entry)
           /\ Len(entries') = Len(entries) + 1
           /\ DOMAIN ledger' = DOMAIN ledger \union {Key(t)}
           /\ \A k \in DOMAIN ledger' : ledger'[k] \in 1..Len(entries')
           /\ \A n \in 1..Len(entries) : entries'[n] = entries[n]
           /\ entries'[Len(entries) + 1] = [status |-> status, closed |-> FALSE, kind |-> call[t].kind]
<1> DEFINE e == [status |-> status, closed |-> FALSE, kind |-> call[t].kind]
<1>1. e \in Entry
  BY KeyType DEF Call, Entry
<1>2. entries \in Seq(Entry) /\ entries' = Append(entries, e)
  BY DEF TypeOK, WriteEntry
<1>3. /\ entries' \in Seq(Entry)
      /\ Len(entries') = Len(entries) + 1
      /\ \A n \in 1..Len(entries) : entries'[n] = entries[n]
      /\ entries'[Len(entries) + 1] = e
  <2> HIDE DEF e
  <2> QED BY <1>1, <1>2
<1>4. ledger' = Put(ledger, Key(t), Len(entries) + 1)
  BY DEF WriteEntry
<1>5. DOMAIN ledger' = DOMAIN ledger \union {Key(t)}
  BY <1>4 DEF Put
<1>6. \A k \in DOMAIN ledger' : ledger'[k] \in 1..Len(entries')
  <2>1. \A k \in DOMAIN ledger : ledger[k] \in 1..Len(entries)
    BY DEF TypeOK
  <2>2. Len(entries) \in Nat
    BY <1>2
  <2> QED BY <1>3, <1>4, <1>5, <2>1, <2>2 DEF Put
<1> QED BY <1>3, <1>5, <1>6

LEMMA InitTypeOK == Init => TypeOK
<1> SUFFICES ASSUME Init PROVE TypeOK
  OBVIOUS
<1>1. selection \in Selection
  BY CatalogAssumption, SelectedType DEF Init
<1>2. call \in [Threads -> Call] /\ \A t \in Threads : call[t].ref = 0
  BY NoCallType DEF Init, NoCall, NoEntry
<1>3. entries = << >> /\ DOMAIN ledger = {}
  BY DEF Init
<1>4. served \in 0..MaxRequests
  BY RequestAssumption DEF Init
<1> QED BY <1>1, <1>2, <1>3, <1>4 DEF TypeOK, Init

\* Reading the selection into a fresh request.
LEMMA RequireType ==
    ASSUME TypeOK, NEW t \in Threads, NEW r \in AskedRepairs, NEW d \in Decisions,
           NEW pc \in PC, Require(t, r, d, pc)
    PROVE  /\ call' \in [Threads -> Call]
           /\ call'[t].ref = 0
           /\ \A u \in Threads \ {t} : call'[u] = call[u]
<1> DEFINE c == [NoCall EXCEPT !.pc = pc, !.sid = SnapshotId(selection), !.repair = r,
                               !.decision = d, !.seen = selection.bundle]
<1>1. SnapshotId(selection) \in SnapshotIds /\ selection.bundle \in Bundle
  BY SnapshotIdType DEF TypeOK, Selection
<1>2. r \in FindingKey
  BY RequestAssumption
<1>3. c \in Call /\ c.ref = 0
  BY <1>1, <1>2, NoCallType DEF Call, NoCall, NoEntry
<1>4. call' = [call EXCEPT ![t] = c]
  BY DEF Require
<1> QED
  <2> HIDE DEF c
  <2> QED BY <1>3, <1>4 DEF TypeOK

LEMMA EntryStatusType ==
    ASSUME NEW e \in Entry, NEW status \in Status
    PROVE  [e EXCEPT !.status = status] \in Entry
BY DEF Entry

LEMMA AnswerType ==
    ASSUME NEW c \in Call, NEW a \in [closed: BOOLEAN, status: Status]
    PROVE  [c EXCEPT !.answer = a, !.pc = "closed"] \in Call
BY DEF Call, PC

LEMMA KindType ==
    ASSUME NEW c \in Call, NEW kind \in RepairKind, NEW pc \in PC
    PROVE  /\ [c EXCEPT !.kind = kind, !.pc = pc] \in Call
           /\ [c EXCEPT !.kind = kind, !.pc = pc].ref = c.ref
BY DEF Call

LEMMA UnderType ==
    ASSUME NEW c \in Call, NEW u \in [kind: SnapshotKinds, name: Names]
    PROVE  /\ [c EXCEPT !.under = u, !.pc = "set"] \in Call
           /\ [c EXCEPT !.under = u, !.pc = "set"].ref = c.ref
BY DEF Call, PC

LEMMA PcType ==
    ASSUME NEW c \in Call, NEW pc \in PC
    PROVE  [c EXCEPT !.pc = pc] \in Call /\ [c EXCEPT !.pc = pc].ref = c.ref
BY DEF Call

\* A request moves on and keeps the entry it holds.
LEMMA CallMoves ==
    ASSUME TypeOK, NEW t \in Threads, NEW c \in Call, c.ref = call[t].ref,
           call' = [call EXCEPT ![t] = c]
    PROVE  call' \in [Threads -> Call] /\ \A u \in Threads : call'[u].ref = call[u].ref
BY DEF TypeOK

LEMMA ReturnType ==
    ASSUME TypeOK, NEW t \in Threads, Return(t)
    PROVE  /\ call' \in [Threads -> Call]
           /\ call'[t] = NoCall /\ NoCall.ref = 0
           /\ \A u \in Threads \ {t} : call'[u] = call[u]
BY NoCallType DEF Return, TypeOK, NoCall, NoEntry

LEMMA AcceptType ==
    ASSUME TypeOK, NEW t \in Threads, Accept(t)
    PROVE  served' \in 0..MaxRequests
BY RequestAssumption DEF TypeOK, Accept

LEMMA DecideTypeOK ==
    ASSUME TypeOK, NEW t \in Threads, NEW r \in AskedRepairs, NEW d \in Decisions,
           NEW k, Decide(t, r, d, k)
    PROVE  TypeOK'
<1>1. Accept(t) /\ Require(t, r, d, "propose") /\ UNCHANGED <<selection, ledger, entries>>
  BY DEF Decide
<1>2. served' \in 0..MaxRequests
  BY <1>1, AcceptType
<1>3. /\ call' \in [Threads -> Call]
      /\ call'[t].ref = 0
      /\ \A u \in Threads \ {t} : call'[u] = call[u]
  BY <1>1, RequireType DEF PC
<1>4. <<Dataset(selection.bundle), r>> \in Datasets \X FindingKey
  BY RequestAssumption, SnapshotIdType DEF TypeOK, SnapshotIds, Selection, SnapshotId
<1>5. authorised' \subseteq Datasets \X FindingKey
  BY <1>4 DEF Decide, TypeOK
<1> QED BY <1>1, <1>2, <1>3, <1>5 DEF TypeOK

LEMMA RecordTypeOK ==
    ASSUME TypeOK, NEW t \in Threads, NEW status \in Status, WriteEntry(t, status),
           Return(t), UNCHANGED <<selection, served, authorised>>
    PROVE  TypeOK'
<1>1. /\ entries' \in Seq(Entry)
      /\ Len(entries') = Len(entries) + 1
      /\ DOMAIN ledger' = DOMAIN ledger \union {Key(t)}
      /\ \A k \in DOMAIN ledger' : ledger'[k] \in 1..Len(entries')
  BY WriteEntryType
<1>2. /\ call' \in [Threads -> Call]
      /\ call'[t] = NoCall /\ NoCall.ref = 0
      /\ \A u \in Threads \ {t} : call'[u] = call[u]
  BY ReturnType
<1>3. DOMAIN ledger' \subseteq LedgerKeys
  BY <1>1, KeyType DEF TypeOK
<1>4. Len(entries) \in Nat
  BY DEF TypeOK
<1>5. \A u \in Threads : call'[u].ref \in 0..Len(entries')
  BY <1>1, <1>2, <1>4 DEF TypeOK
<1> QED BY <1>1, <1>2, <1>3, <1>5 DEF TypeOK

LEMMA ReturnTypeOK ==
    ASSUME TypeOK, NEW t \in Threads, Return(t),
           UNCHANGED <<selection, ledger, entries, served, authorised>>
    PROVE  TypeOK'
<1>1. Len(entries) \in Nat
  BY DEF TypeOK
<1> QED BY <1>1, ReturnType DEF TypeOK

LEMMA StepTypeOK ==
    ASSUME TypeOK, NEW t \in Threads, Step(t)
    PROVE  TypeOK'
<1>1. ASSUME NEW r \in AskedRepairs, NEW d \in Decisions, NEW k \in Tokens, Decide(t, r, d, k)
      PROVE  TypeOK'
  BY <1>1, DecideTypeOK
<1>2. CASE ProposeFromBundle(t)
  <2>1. PICK o \in Offered(t) :
           call' = [call EXCEPT ![t].kind = o.kind, ![t].pc = AfterProposal(t)]
    BY <1>2 DEF ProposeFromBundle
  <2>2. o.kind \in RepairKind
    BY ProposedKind DEF Offered
  <2>3. AfterProposal(t) \in PC
    BY DEF AfterProposal, PC
  <2>4. call' \in [Threads -> Call] /\ \A u \in Threads : call'[u].ref = call[u].ref
    <3> DEFINE c == [call[t] EXCEPT !.kind = o.kind, !.pc = AfterProposal(t)]
    <3>1. c \in Call /\ c.ref = call[t].ref
      BY <2>2, <2>3, KeyType, KindType
    <3>2. call' = [call EXCEPT ![t] = c]
      BY <2>1 DEF TypeOK
    <3> HIDE DEF c
    <3> QED BY <3>1, <3>2, CallMoves
  <2> QED BY <1>2, <2>4 DEF TypeOK, ProposeFromBundle
<1>3. CASE ProposeFromLedger(t)
  <2>1. LedgerGet(Key(t)) \in 1..Len(entries)
    BY <1>3 DEF ProposeFromLedger, LedgerGet, TypeOK
  <2>2. entries[LedgerGet(Key(t))].kind \in RepairKind
    <3>1. entries[LedgerGet(Key(t))] \in Entry
      BY <2>1 DEF TypeOK
    <3> QED BY <3>1 DEF Entry
  <2>3. AfterProposal(t) \in PC
    BY DEF AfterProposal, PC
  <2>4. call' \in [Threads -> Call] /\ \A u \in Threads : call'[u].ref = call[u].ref
    <3> DEFINE c == [call[t] EXCEPT !.kind = entries[LedgerGet(Key(t))].kind,
                                    !.pc = AfterProposal(t)]
    <3>1. c \in Call /\ c.ref = call[t].ref
      BY <2>2, <2>3, KeyType, KindType
    <3>2. call' = [call EXCEPT ![t] = c]
      BY <1>3 DEF TypeOK, ProposeFromLedger
    <3> HIDE DEF c
    <3> QED BY <3>1, <3>2, CallMoves
  <2> QED BY <1>3, <2>4 DEF TypeOK, ProposeFromLedger
<1>4. CASE RepairNotFound(t)
  BY <1>4, ReturnTypeOK DEF RepairNotFound
<1>5. CASE RecordRejection(t)
  BY <1>5, RecordTypeOK DEF RecordRejection, Status
<1>6. CASE ReplaceCurrent(t)
  <2>1. selection.kind \in SnapshotKinds /\ selection.name \in Names
    BY DEF TypeOK, Selection
  <2>2. call' \in [Threads -> Call] /\ \A u \in Threads : call'[u].ref = call[u].ref
    <3> DEFINE v == [kind |-> selection.kind, name |-> selection.name]
               c == [call[t] EXCEPT !.under = v, !.pc = "set"]
    <3>1. v \in [kind: SnapshotKinds, name: Names]
      BY <2>1
    <3>2. call' = [call EXCEPT ![t] = c]
      BY <1>6 DEF TypeOK, ReplaceCurrent
    <3>3. c \in Call /\ c.ref = call[t].ref
      <4> HIDE DEF v
      <4> QED BY <3>1, KeyType, UnderType
    <3> HIDE DEF c
    <3> QED BY <3>2, <3>3, CallMoves
  <2> QED BY <1>6, <2>2 DEF TypeOK, ReplaceCurrent
<1>7. CASE ReplaceSet(t)
  <2>1. call[t].seen \in Bundle /\ Proposal(t) \in Overlay
    BY DEF TypeOK, Call, Proposal, Overlay
  <2>2. apply_approved_repair(call[t].seen, Proposal(t)) \in Bundle
    BY <2>1, ApplyType
  <2>3. selection' \in Selection
    BY <1>7, <2>2 DEF ReplaceSet, TypeOK, Call, Selection
  <2>4. call' \in [Threads -> Call] /\ \A u \in Threads : call'[u].ref = call[u].ref
    <3> DEFINE c == [call[t] EXCEPT !.pc = "record"]
    <3>1. c \in Call /\ c.ref = call[t].ref
      BY KeyType, PcType DEF PC
    <3>2. call' = [call EXCEPT ![t] = c]
      BY <1>7 DEF TypeOK, ReplaceSet
    <3> HIDE DEF c
    <3> QED BY <3>1, <3>2, CallMoves
  <2> QED BY <1>7, <2>3, <2>4 DEF TypeOK, ReplaceSet
<1>8. CASE RecordApproval(t)
  BY <1>8, RecordTypeOK DEF RecordApproval, Status
<1>9. ASSUME NEW r \in AskedRepairs, VerifyRequire(t, r)
      PROVE  TypeOK'
  <2>1. /\ call' \in [Threads -> Call]
        /\ call'[t].ref = 0
        /\ \A u \in Threads \ {t} : call'[u] = call[u]
    BY <1>9, RequireType DEF PC, Decisions, VerifyRequire
  <2>2. served' \in 0..MaxRequests
    BY <1>9, AcceptType DEF VerifyRequire
  <2> QED BY <1>9, <2>1, <2>2 DEF TypeOK, VerifyRequire
<1>10. CASE VerifyEntry(t)
  <2>1. LedgerGet(Key(t)) \in 0..Len(entries)
    BY DEF LedgerGet, TypeOK, NoEntry
  <2>2. /\ call' \in [Threads -> Call]
        /\ call'[t].ref = LedgerGet(Key(t))
        /\ \A u \in Threads \ {t} : call'[u] = call[u]
    BY <1>10, <2>1 DEF TypeOK, Call, PC, VerifyEntry
  <2> QED BY <1>10, <2>1, <2>2 DEF TypeOK, VerifyEntry
<1>11. CASE VerifyCheck(t)
  <2> DEFINE gone == verify_repair(call[t].seen, call[t].repair)
             was == IF call[t].ref = NoEntry THEN "proposed" ELSE entries[call[t].ref].status
  <2>1. was \in Status
    <3>1. call[t].ref # NoEntry => entries[call[t].ref] \in Entry
      BY DEF TypeOK, NoEntry
    <3> QED BY <3>1 DEF Entry, Status
  <2>2. gone \in BOOLEAN
    BY DEF verify_repair
  <2>3. [closed |-> gone, status |-> IF gone THEN "closed" ELSE was]
            \in [closed: BOOLEAN, status: Status]
    BY <2>1, <2>2 DEF Status
  <2>4. call' = [call EXCEPT ![t].answer = [closed |-> gone, status |-> IF gone THEN "closed" ELSE was],
                            ![t].pc = "closed"]
    BY <1>11 DEF VerifyCheck
  <2>5. call' \in [Threads -> Call] /\ \A u \in Threads : call'[u].ref = call[u].ref
    <3> DEFINE a == [closed |-> gone, status |-> IF gone THEN "closed" ELSE was]
               c == [call[t] EXCEPT !.answer = a, !.pc = "closed"]
    <3>1. call[t] \in Call
      BY DEF TypeOK
    <3>2. c \in Call /\ c.ref = call[t].ref
      <4>1. c.ref = call[t].ref
        BY <3>1 DEF Call
      <4> QED BY <2>3, <3>1, <4>1, AnswerType
    <3>3. call' = [call EXCEPT ![t] = c]
      BY <2>4 DEF TypeOK
    <3> HIDE DEF c
    <3> QED BY <3>2, <3>3 DEF TypeOK
  <2> QED BY <1>11, <2>5 DEF TypeOK, VerifyCheck
<1>12. CASE VerifyUndecided(t)
  BY <1>12, ReturnTypeOK DEF VerifyUndecided
<1>13. CASE VerifyWriteClosed(t)
  <2>1. entries' \in Seq(Entry) /\ Len(entries') = Len(entries)
    <3>1. call[t].ref \in 1..Len(entries) /\ call[t].answer.closed \in BOOLEAN
      BY <1>13 DEF VerifyWriteClosed, TypeOK, Call, NoEntry
    <3>2. entries[call[t].ref] \in Entry
      BY <3>1 DEF TypeOK
    <3>3. [entries[call[t].ref] EXCEPT !.closed = call[t].answer.closed] \in Entry
      BY <3>1, <3>2 DEF Entry
    <3>4. entries' = [entries EXCEPT ![call[t].ref] =
                        [entries[call[t].ref] EXCEPT !.closed = call[t].answer.closed]]
      BY <1>13, <3>1 DEF VerifyWriteClosed, TypeOK
    <3> QED BY <3>1, <3>3, <3>4 DEF TypeOK
  <2>2. call' \in [Threads -> Call] /\ \A u \in Threads : call'[u].ref = call[u].ref
    <3> DEFINE c == [call[t] EXCEPT !.pc = "status"]
    <3>1. c \in Call /\ c.ref = call[t].ref
      BY KeyType, PcType DEF PC
    <3>2. call' = [call EXCEPT ![t] = c]
      BY <1>13 DEF TypeOK, VerifyWriteClosed
    <3> HIDE DEF c
    <3> QED BY <3>1, <3>2, CallMoves
  <2> QED BY <1>13, <2>1, <2>2 DEF TypeOK, VerifyWriteClosed
<1>14. CASE VerifyWriteStatus(t)
  <2>1. entries' \in Seq(Entry) /\ Len(entries') = Len(entries)
    <3>1. call[t].answer.status \in Status
      BY DEF TypeOK, Call
    <3>2. entries \in Seq(Entry)
      BY DEF TypeOK
    <3>3. CASE call[t].ref \in 1..Len(entries)
      <4> DEFINE e == [entries[call[t].ref] EXCEPT !.status = call[t].answer.status]
      <4>1. e \in Entry
        BY <3>1, <3>2, <3>3, EntryStatusType
      <4>2. entries' = [entries EXCEPT ![call[t].ref] = e]
        BY <1>14, <3>2, <3>3 DEF VerifyWriteStatus
      <4> HIDE DEF e
      <4> QED BY <3>2, <3>3, <4>1, <4>2, ExceptSeq
    <3>4. CASE call[t].ref \notin 1..Len(entries)
      <4>1. DOMAIN entries = 1..Len(entries)
        BY <3>2
      <4>2. entries' = [i \in DOMAIN entries |-> entries[i]]
        BY <1>14, <3>4, <4>1, Zenon DEF VerifyWriteStatus
      <4>3. entries' = entries
        BY <3>2, <4>2
      <4> QED BY <3>2, <4>3
    <3> QED BY <3>3, <3>4
  <2>2. /\ call' \in [Threads -> Call]
        /\ call'[t] = NoCall /\ NoCall.ref = 0
        /\ \A u \in Threads \ {t} : call'[u] = call[u]
    BY <1>14, ReturnType DEF VerifyWriteStatus
  <2>3. Len(entries) \in Nat
    BY DEF TypeOK
  <2> QED BY <1>14, <2>1, <2>2, <2>3 DEF TypeOK, VerifyWriteStatus
<1>15. ASSUME NEW n \in Names, NEW k, Activate(t, n, k) \/ Import(t, n, k)
       PROVE  TypeOK'
  <2>1. Accept(t) /\ selection' = Selected(n) /\ UNCHANGED <<ledger, entries, call, authorised>>
    BY <1>15 DEF Activate, Import
  <2>2. selection' \in Selection
    BY <2>1, SelectedType
  <2>3. served' \in 0..MaxRequests
    BY <2>1, AcceptType
  <2> QED BY <2>1, <2>2, <2>3 DEF TypeOK
<1> QED
  BY <1>1, <1>2, <1>3, <1>4, <1>5, <1>6, <1>7, <1>8, <1>9, <1>10, <1>11, <1>12, <1>13,
     <1>14, <1>15 DEF Step, Names

\* Requests, entries and the ledger stay well-typed for any number of
\* threads and requests: in particular the ledger and every verification in
\* flight refer only to entries that exist (decide_repair,
\* verify_repair_endpoint).
THEOREM TypeCorrect == Spec => []TypeOK
<1>1. TypeOK /\ [Next]_vars => TypeOK'
  <2> SUFFICES ASSUME TypeOK, [Next]_vars PROVE TypeOK'
    OBVIOUS
  <2>1. ASSUME NEW t \in Threads, Step(t) PROVE TypeOK'
    BY <2>1, StepTypeOK
  <2>2. CASE UNCHANGED vars
    BY <2>2 DEF vars, TypeOK
  <2> QED BY <2>1, <2>2 DEF Next, Quiet
<1> QED BY InitTypeOK, <1>1, PTL DEF Spec

-----------------------------------------------------------------------------
(* Every overlay goes back to an authorised approval.                      *)

\* What OverlaysAuthorised needs to be inductive: the bundles that requests
\* still hold are authorised too, and a request that is about to overlay a
\* repair was itself authorised for the dataset of the bundle it holds.
AuthorisationInv ==
    /\ Authorised(selection.bundle)
    /\ \A t \in Threads :
          /\ Authorised(call[t].seen)
          /\ call[t].sid[1] = Dataset(call[t].seen)
          /\ call[t].pc \in {"replace", "set", "record"} => call[t].decision = "approved"
          /\ call[t].pc \in {"propose", "replace", "set", "record"}
               /\ call[t].decision = "approved"
               => <<Dataset(call[t].seen), call[t].repair>> \in authorised

LEMMA InitAuthorisation == Init => AuthorisationInv
<1> SUFFICES ASSUME Init PROVE AuthorisationInv
  OBVIOUS
<1>1. selection = Selected(Initial) /\ \A t \in Threads : call[t] = NoCall
  BY DEF Init
<1>2. Selected(Initial).bundle.overlays = {} /\ Selected(Initial) \in Selection
  BY CatalogAssumption, SelectedType
<1>3. /\ NoCall.seen = Selected(Initial).bundle /\ NoCall.pc = "idle"
      /\ NoCall.sid = SnapshotId(Selected(Initial))
  BY DEF NoCall
<1> QED BY <1>1, <1>2, <1>3, SnapshotIdType DEF AuthorisationInv, Authorised

LEMMA StepAuthorisation ==
    ASSUME TypeOK, AuthorisationInv, NEW t \in Threads, Step(t)
    PROVE  AuthorisationInv'
<1> DEFINE Held(c) ==
             /\ \A o \in c.seen.overlays : <<Dataset(c.seen), o.repair>> \in authorised'
             /\ c.sid[1] = Dataset(c.seen)
             /\ c.pc \in {"replace", "set", "record"} => c.decision = "approved"
             /\ c.pc \in {"propose", "replace", "set", "record"} /\ c.decision = "approved"
                  => <<Dataset(c.seen), c.repair>> \in authorised'
<1>0. ASSUME authorised \subseteq authorised'
      PROVE  /\ \A u \in Threads : Held(call[u])
             /\ \A o \in selection.bundle.overlays :
                   <<Dataset(selection.bundle), o.repair>> \in authorised'
  BY <1>0 DEF AuthorisationInv, Authorised
<1>a. Held(NoCall)
  <2>1. Selected(Initial).bundle.overlays = {} /\ Selected(Initial) \in Selection
    BY CatalogAssumption, SelectedType
  <2> QED BY <2>1, SnapshotIdType DEF NoCall
\* A step that changes at most one request and not the selection.
<1>b. ASSUME NEW c, Held(c), call' = [call EXCEPT ![t] = c],
             authorised \subseteq authorised', UNCHANGED selection
      PROVE  AuthorisationInv'
  <2>1. \A u \in Threads : call'[u] = IF u = t THEN c ELSE call[u]
    BY <1>b DEF TypeOK
  <2> HIDE DEF Held
  <2>2. \A u \in Threads : Held(call'[u])
    BY <1>b, <1>0, <2>1
  <2> QED BY <1>b, <1>0, <2>2 DEF AuthorisationInv, Authorised, Held
<1>c. ASSUME Return(t), UNCHANGED <<selection, authorised>> PROVE AuthorisationInv'
  BY <1>a, <1>b, <1>c DEF Return
<1>d. ASSUME NEW c, c.pc \notin {"propose", "replace", "set", "record"},
             c.seen = call[t].seen, c.sid = call[t].sid,
             call' = [call EXCEPT ![t] = c], UNCHANGED <<selection, authorised>>
      PROVE  AuthorisationInv'
  <2>1. Held(c)
    BY <1>d, <1>0
  <2> QED BY <1>b, <1>d, <2>1
<1> HIDE DEF Held
<1>1. ASSUME NEW r \in AskedRepairs, NEW d \in Decisions, NEW k \in Tokens, Decide(t, r, d, k)
      PROVE  AuthorisationInv'
  <2> DEFINE c == [NoCall EXCEPT !.pc = "propose", !.sid = SnapshotId(selection),
                                 !.repair = r, !.decision = d, !.seen = selection.bundle]
  <2>1. call' = [call EXCEPT ![t] = c] /\ UNCHANGED selection /\ authorised \subseteq authorised'
    BY <1>1 DEF Decide, Require
  <2>2. d = "approved" => <<Dataset(selection.bundle), r>> \in authorised'
    BY <1>1 DEF Decide, require_write_access
  <2>3. c.pc = "propose" /\ c.seen = selection.bundle /\ c.sid = SnapshotId(selection)
        /\ c.repair = r /\ c.decision = d
    BY DEF NoCall
  <2>4. SnapshotId(selection)[1] = Dataset(selection.bundle)
    BY SnapshotIdType DEF TypeOK
  <2> HIDE DEF c
  <2>5. Held(c)
    BY <2>1, <2>2, <2>3, <2>4, <1>0 DEF Held
  <2> QED BY <1>b, <2>1, <2>5
<1>2. ASSUME ProposeFromBundle(t) \/ ProposeFromLedger(t)
      PROVE  AuthorisationInv'
  <2>1. PICK k : call' = [call EXCEPT ![t].kind = k, ![t].pc = AfterProposal(t)]
    BY <1>2 DEF ProposeFromBundle, ProposeFromLedger
  <2> DEFINE c == [call[t] EXCEPT !.kind = k, !.pc = AfterProposal(t)]
  <2>2. /\ call' = [call EXCEPT ![t] = c]
        /\ call[t].pc = "propose" /\ UNCHANGED <<selection, authorised>>
    BY <1>2, <2>1 DEF TypeOK, ProposeFromBundle, ProposeFromLedger
  <2>3. call[t] \in Call
    BY DEF TypeOK
  <2>4. /\ c.seen = call[t].seen /\ c.sid = call[t].sid /\ c.repair = call[t].repair
        /\ c.decision = call[t].decision /\ c.pc = AfterProposal(t)
    BY <2>3 DEF Call
  <2>5. c.pc = "replace" => c.decision = "approved"
    BY <2>3, <2>4 DEF AfterProposal, Call, Decisions
  <2>6. c.pc \in {"reject", "replace"}
    BY <2>4 DEF AfterProposal
  <2> HIDE DEF c
  <2>7. Held(call[t])
    BY <1>0, <2>2
  <2>8. Held(c)
    BY <2>2, <2>4, <2>5, <2>6, <2>7 DEF Held
  <2> QED BY <1>b, <2>2, <2>8
<1>3. ASSUME RepairNotFound(t) \/ RecordRejection(t) \/ RecordApproval(t)
             \/ VerifyUndecided(t) \/ VerifyWriteStatus(t)
      PROVE  AuthorisationInv'
  BY <1>3, <1>c DEF RepairNotFound, RecordRejection, RecordApproval, VerifyUndecided,
                    VerifyWriteStatus
<1>4. CASE ReplaceCurrent(t)
  <2> DEFINE c == [call[t] EXCEPT !.under = [kind |-> selection.kind, name |-> selection.name],
                                  !.pc = "set"]
  <2>1. call' = [call EXCEPT ![t] = c] /\ UNCHANGED <<selection, authorised>>
        /\ call[t].pc = "replace"
    BY <1>4 DEF ReplaceCurrent, TypeOK
  <2>2. /\ c.seen = call[t].seen /\ c.sid = call[t].sid /\ c.repair = call[t].repair
        /\ c.decision = call[t].decision /\ c.pc = "set"
    BY DEF TypeOK, Call
  <2> HIDE DEF c
  <2>3. Held(call[t])
    BY <1>0, <2>1
  <2>4. Held(c)
    BY <2>1, <2>2, <2>3 DEF Held
  <2> QED BY <1>b, <2>1, <2>4
<1>5. CASE ReplaceSet(t)
  <2> DEFINE c == [call[t] EXCEPT !.pc = "record"]
             after == apply_approved_repair(call[t].seen, Proposal(t))
  <2>1. /\ call' = [call EXCEPT ![t] = c] /\ call[t].pc = "set"
        /\ selection'.bundle = after /\ authorised' = authorised
    BY <1>5 DEF ReplaceSet, TypeOK
  <2>2. /\ c.seen = call[t].seen /\ c.sid = call[t].sid /\ c.repair = call[t].repair
        /\ c.decision = call[t].decision /\ c.pc = "record"
    BY DEF TypeOK, Call
  <2>3. call[t].seen \in Bundle /\ Proposal(t) \in Overlay /\ Proposal(t).repair = call[t].repair
    BY DEF TypeOK, Call, Proposal, Overlay
  <2>4. /\ after.source = call[t].seen.source
        /\ after.overlays \subseteq call[t].seen.overlays \union {Proposal(t)}
    BY <2>3, ApplyType
  <2>5. Dataset(after) = Dataset(call[t].seen)
    BY <2>4 DEF Dataset, Data
  <2> HIDE DEF c, after
  <2>6. Held(call[t]) /\ \A u \in Threads : Held(call[u])
    BY <1>0, <2>1
  <2>7. Held(c)
    BY <2>1, <2>2, <2>6 DEF Held
  <2>8. \A o \in after.overlays : <<Dataset(after), o.repair>> \in authorised'
    BY <2>1, <2>3, <2>4, <2>5, <2>6 DEF Held
  <2>9. \A u \in Threads : Held(call'[u])
    BY <2>1, <2>6, <2>7 DEF TypeOK
  <2> QED BY <2>1, <2>8, <2>9 DEF AuthorisationInv, Authorised, Held
<1>6. ASSUME NEW r \in AskedRepairs, VerifyRequire(t, r)
      PROVE  AuthorisationInv'
  <2> DEFINE c == [NoCall EXCEPT !.pc = "entry", !.sid = SnapshotId(selection),
                                 !.repair = r, !.decision = "rejected", !.seen = selection.bundle]
  <2>1. call' = [call EXCEPT ![t] = c] /\ UNCHANGED <<selection, authorised>>
    BY <1>6 DEF VerifyRequire, Require
  <2>2. c.pc = "entry" /\ c.seen = selection.bundle /\ c.sid = SnapshotId(selection)
    BY DEF NoCall
  <2>3. SnapshotId(selection)[1] = Dataset(selection.bundle)
    BY SnapshotIdType DEF TypeOK
  <2> HIDE DEF c
  <2>4. Held(c)
    BY <2>1, <2>2, <2>3, <1>0 DEF Held
  <2> QED BY <1>b, <2>1, <2>4
<1>7. CASE VerifyEntry(t)
  <2> DEFINE c == [call[t] EXCEPT !.ref = LedgerGet(Key(t)), !.pc = "check"]
  <2>1. call' = [call EXCEPT ![t] = c] /\ UNCHANGED <<selection, authorised>>
    BY <1>7 DEF VerifyEntry, TypeOK
  <2>2. c.seen = call[t].seen /\ c.sid = call[t].sid /\ c.pc = "check"
    BY DEF TypeOK, Call
  <2> HIDE DEF c
  <2> QED BY <1>d, <2>1, <2>2
<1>8. CASE VerifyCheck(t)
  <2>1. PICK a : call' = [call EXCEPT ![t].answer = a, ![t].pc = "closed"]
    BY <1>8 DEF VerifyCheck
  <2> DEFINE c == [call[t] EXCEPT !.answer = a, !.pc = "closed"]
  <2>2. call' = [call EXCEPT ![t] = c] /\ UNCHANGED <<selection, authorised>>
    BY <1>8, <2>1 DEF VerifyCheck, TypeOK
  <2>3. c.seen = call[t].seen /\ c.sid = call[t].sid /\ c.pc = "closed"
    BY DEF TypeOK, Call
  <2> HIDE DEF c
  <2> QED BY <1>d, <2>2, <2>3
<1>9. CASE VerifyWriteClosed(t)
  <2> DEFINE c == [call[t] EXCEPT !.pc = "status"]
  <2>1. call' = [call EXCEPT ![t] = c] /\ UNCHANGED <<selection, authorised>>
    BY <1>9 DEF VerifyWriteClosed, TypeOK
  <2>2. c.seen = call[t].seen /\ c.sid = call[t].sid /\ c.pc = "status"
    BY DEF TypeOK, Call
  <2> HIDE DEF c
  <2> QED BY <1>d, <2>1, <2>2
<1>10. ASSUME NEW n \in Names, NEW k, Activate(t, n, k) \/ Import(t, n, k)
       PROVE  AuthorisationInv'
  <2>1. selection' = Selected(n) /\ call' = call /\ authorised' = authorised
    BY <1>10 DEF Activate, Import
  <2>2. Selected(n).bundle.overlays = {}
    BY SelectedType
  <2> QED BY <2>1, <2>2 DEF AuthorisationInv, Authorised
<1> QED BY <1>1, <1>2, <1>3, <1>4, <1>5, <1>6, <1>7, <1>8, <1>9, <1>10 DEF Step, Names

\* However decisions, verifications, activations and uploads race, nothing is
\* overlaid on a dataset's graph that no request with the write token
\* approved for that dataset (decide_repair, replace_bundle).
THEOREM OverlaysAreAuthorised == Spec => []OverlaysAuthorised
<1>1. TypeOK /\ AuthorisationInv /\ [Next]_vars => AuthorisationInv'
  <2> SUFFICES ASSUME TypeOK, AuthorisationInv, [Next]_vars PROVE AuthorisationInv'
    OBVIOUS
  <2>1. ASSUME NEW t \in Threads, Step(t) PROVE AuthorisationInv'
    BY <2>1, StepAuthorisation
  <2>2. CASE UNCHANGED vars
    BY <2>2 DEF vars, AuthorisationInv, Authorised
  <2> QED BY <2>1, <2>2 DEF Next, Quiet
<1>2. AuthorisationInv => OverlaysAuthorised
  BY DEF AuthorisationInv, OverlaysAuthorised
<1> QED BY InitAuthorisation, TypeCorrect, <1>1, <1>2, PTL DEF Spec

-----------------------------------------------------------------------------
(* A closed gap goes back to an authorised approval.                       *)

Justified(k) ==
    \/ <<k[1][1], k[2]>> \in authorised
    \/ \E s \in Sources : /\ SourceData[s].dataset = k[1][1]
                          /\ k[2].phantom \notin SourceData[s].phantoms

\* What GapClosedByApproval needs to be inductive: an entry is in the ledger
\* under one key, the one of every verification that holds it, and a
\* verification that is about to write "closed" for a gap is justified.
ClosureInv ==
    /\ \A k \in DOMAIN ledger : k[2].lens = "gap" /\ entries[ledger[k]].closed => Justified(k)
    /\ \A j, k \in DOMAIN ledger : ledger[j] = ledger[k] => j = k
    /\ \A t \in Threads :
          /\ \A k \in DOMAIN ledger : ledger[k] = call[t].ref => k = Key(t)
          /\ call[t].pc \in {"closed", "status"} /\ call[t].answer.closed
                /\ call[t].repair.lens = "gap" => Justified(Key(t))

LEMMA GapGone ==
    ASSUME NEW b \in Bundle, NEW r \in FindingKey, r.lens = "gap", verify_repair(b, r)
    PROVE  r.phantom \notin Data(b).phantoms \/ \E o \in b.overlays : o.repair = r
<1>1. r = Gap(r.phantom)
  BY DEF FindingKey, GapKey, FaultlineKey, Gap
<1>2. Gap(r.phantom) \notin gap_findings(b)
  BY <1>1 DEF verify_repair, OpenFindings
<1>3. r.phantom \notin Data(b).phantoms \/ Recorded(r.phantom) \in b.overlays
  BY <1>2 DEF gap_findings
<1> QED BY <1>1, <1>3 DEF Recorded

LEMMA InitClosure == Init => ClosureInv
<1> SUFFICES ASSUME Init PROVE ClosureInv
  OBVIOUS
<1>1. DOMAIN ledger = {} /\ \A t \in Threads : call[t].pc = "idle"
  BY DEF Init, NoCall
<1> QED BY <1>1 DEF ClosureInv

LEMMA StepClosure ==
    ASSUME TypeOK, AuthorisationInv, ClosureInv, NEW t \in Threads, Step(t)
    PROVE  ClosureInv'
<1> DEFINE J(k) == \/ <<k[1][1], k[2]>> \in authorised'
                   \/ \E s \in Sources : /\ SourceData[s].dataset = k[1][1]
                                         /\ k[2].phantom \notin SourceData[s].phantoms
           Closing(c) == c.pc \in {"closed", "status"} /\ c.answer.closed /\ c.repair.lens = "gap"
           KeyOf(c) == <<c.sid, c.repair>>
           \* c, as a request, agrees with the ledger and the entries.
           Agrees(c) == /\ \A k \in DOMAIN ledger : ledger[k] = c.ref => k = KeyOf(c)
                        /\ Closing(c) => J(KeyOf(c))
<1>0. ASSUME authorised \subseteq authorised'
      PROVE  /\ \A k : Justified(k) => J(k)
             /\ \A u \in Threads : Agrees(call[u])
  <2>1. \A k : Justified(k) => J(k)
    BY <1>0 DEF Justified
  <2> HIDE DEF J
  <2> QED BY <2>1 DEF ClosureInv, Key
<1> HIDE DEF J
<1>a. \A k \in DOMAIN ledger : ledger[k] \in Nat \ {0}
  BY DEF TypeOK
<1>b. Agrees(NoCall)
  BY <1>a DEF NoCall, NoEntry
<1>e. ASSUME \A k \in DOMAIN ledger' : k[2].lens = "gap" /\ entries'[ledger'[k]].closed => J(k),
             \A j, k \in DOMAIN ledger' : ledger'[j] = ledger'[k] => j = k,
             \A u \in Threads : \A k \in DOMAIN ledger' :
                ledger'[k] = call'[u].ref => k = KeyOf(call'[u]),
             \A u \in Threads : Closing(call'[u]) => J(KeyOf(call'[u]))
      PROVE  ClosureInv'
  <2>1. \A u \in Threads : KeyOf(call'[u]) = Key(u)'
    BY DEF Key
  <2>2. \A u \in Threads : Closing(call'[u]) => Justified(Key(u))'
    BY <1>e DEF J, Key, Justified
  <2>3. \A k \in DOMAIN ledger' : k[2].lens = "gap" /\ entries'[ledger'[k]].closed => Justified(k)'
    BY <1>e DEF J, Justified
  <2> HIDE DEF KeyOf
  <2> QED BY <1>e, <2>1, <2>2, <2>3 DEF ClosureInv
\* A step that changes one request and neither the ledger nor the entries.
<1>c. ASSUME NEW c, Agrees(c), call' = [call EXCEPT ![t] = c],
             authorised \subseteq authorised', UNCHANGED <<ledger, entries>>
      PROVE  ClosureInv'
  <2>1. \A u \in Threads : call'[u] = IF u = t THEN c ELSE call[u]
    BY <1>c DEF TypeOK
  <2> HIDE DEF Agrees
  <2>2. \A u \in Threads : Agrees(call'[u])
    BY <1>0, <1>c, <2>1
  <2>3. \A k \in DOMAIN ledger : k[2].lens = "gap" /\ entries[ledger[k]].closed => J(k)
    BY <1>0, <1>c DEF ClosureInv
  <2>4. \A j, k \in DOMAIN ledger : ledger[j] = ledger[k] => j = k
    BY DEF ClosureInv
  <2> QED BY <1>c, <1>e, <2>2, <2>3, <2>4 DEF Agrees
\* A step that writes a new entry and returns.
<1>d. ASSUME NEW status \in Status, WriteEntry(t, status), Return(t), UNCHANGED authorised
      PROVE  ClosureInv'
  <2> DEFINE n == Len(entries) + 1
  <2>1. /\ DOMAIN ledger' = DOMAIN ledger \union {Key(t)}
        /\ ledger'[Key(t)] = n
        /\ \A k \in DOMAIN ledger \ {Key(t)} : ledger'[k] = ledger[k]
    BY <1>d DEF WriteEntry, Put
  <2>2. /\ \A i \in 1..Len(entries) : entries'[i] = entries[i]
        /\ entries'[n].closed = FALSE
    <3>1. entries'[n] = [status |-> status, closed |-> FALSE, kind |-> call[t].kind]
      BY <1>d, WriteEntryType
    <3>2. entries'[n].closed = FALSE
      BY <3>1
    <3>3. \A i \in 1..Len(entries) : entries'[i] = entries[i]
      BY <1>d, WriteEntryType
    <3> QED BY <3>2, <3>3
  <2>3. /\ \A k \in DOMAIN ledger : ledger[k] \in 1..Len(entries)
        /\ \A u \in Threads : call[u].ref \in 0..Len(entries)
        /\ Len(entries) \in Nat
    BY DEF TypeOK
  <2>4. \A u \in Threads : call'[u] = IF u = t THEN NoCall ELSE call[u]
    BY <1>d DEF Return, TypeOK
  <2>5. \A k \in DOMAIN ledger' : k[2].lens = "gap" /\ entries'[ledger'[k]].closed => J(k)
    BY <1>d, <1>0, <2>1, <2>2, <2>3 DEF ClosureInv
  <2>6. \A j, k \in DOMAIN ledger' : ledger'[j] = ledger'[k] => j = k
    BY <2>1, <2>3 DEF ClosureInv
  <2>7. \A u \in Threads : \A k \in DOMAIN ledger' : ledger'[k] = call'[u].ref => k = KeyOf(call'[u])
    <3> TAKE u \in Threads
    <3>1. CASE u = t
      <4>1. call'[u].ref = 0
        BY <1>d, <3>1, ReturnType
      <4> QED BY <4>1, <2>1, <2>3
    <3>2. CASE u # t
      <4>1. call'[u] = call[u] /\ call[u].ref \in 0..Len(entries)
        BY <2>3, <2>4, <3>2
      <4>2. \A k \in DOMAIN ledger : ledger[k] = call[u].ref => k = KeyOf(call[u])
        BY DEF ClosureInv, Key
      <4> QED BY <4>1, <4>2, <2>1, <2>3
    <3> QED BY <3>1, <3>2
  <2>8. \A u \in Threads : Closing(call'[u]) => J(KeyOf(call'[u]))
    <3> HIDE DEF KeyOf
    <3> QED BY <1>d, <1>0, <1>b, <2>4
  <2> QED BY <1>e, <2>5, <2>6, <2>7, <2>8
<1>1. ASSUME NEW r \in AskedRepairs, NEW d \in Decisions, NEW k \in Tokens, Decide(t, r, d, k)
      PROVE  ClosureInv'
  <2> DEFINE c == [NoCall EXCEPT !.pc = "propose", !.sid = SnapshotId(selection),
                                 !.repair = r, !.decision = d, !.seen = selection.bundle]
  <2>1. call' = [call EXCEPT ![t] = c] /\ UNCHANGED <<ledger, entries>>
        /\ authorised \subseteq authorised'
    BY <1>1 DEF Decide, Require
  <2>2. c.pc = "propose" /\ c.ref = 0
    BY DEF NoCall, NoEntry
  <2> HIDE DEF c
  <2>3. Agrees(c)
    BY <1>a, <2>2
  <2> HIDE DEF Agrees
  <2> QED BY <1>c, <2>1, <2>3
<1>2. ASSUME NEW r \in AskedRepairs, VerifyRequire(t, r)
      PROVE  ClosureInv'
  <2> DEFINE c == [NoCall EXCEPT !.pc = "entry", !.sid = SnapshotId(selection),
                                 !.repair = r, !.decision = "rejected", !.seen = selection.bundle]
  <2>1. call' = [call EXCEPT ![t] = c] /\ UNCHANGED <<ledger, entries, authorised>>
    BY <1>2 DEF VerifyRequire, Require
  <2>2. c.pc = "entry" /\ c.ref = 0
    BY DEF NoCall, NoEntry
  <2> HIDE DEF c
  <2>3. Agrees(c)
    BY <1>a, <2>2
  <2> HIDE DEF Agrees
  <2> QED BY <1>c, <2>1, <2>3
\* A step on the way of a decision: the request keeps the entry it holds, if
\* any, and is not about to close one.
<1>3. ASSUME NEW c, c.pc \in PC \ {"closed", "status"}, c.ref = call[t].ref,
             KeyOf(c) = Key(t), call' = [call EXCEPT ![t] = c],
             UNCHANGED <<ledger, entries, authorised>>
      PROVE  ClosureInv'
  <2>1. Agrees(c)
    BY <1>3, <1>0 DEF Key
  <2> HIDE DEF Agrees
  <2> QED BY <1>c, <1>3, <2>1
<1>4. ASSUME ProposeFromBundle(t) \/ ProposeFromLedger(t)
      PROVE  ClosureInv'
  <2>1. PICK k : call' = [call EXCEPT ![t].kind = k, ![t].pc = AfterProposal(t)]
    BY <1>4 DEF ProposeFromBundle, ProposeFromLedger
  <2> DEFINE c == [call[t] EXCEPT !.kind = k, !.pc = AfterProposal(t)]
  <2>2. call' = [call EXCEPT ![t] = c] /\ UNCHANGED <<ledger, entries, authorised>>
    BY <1>4, <2>1 DEF TypeOK, ProposeFromBundle, ProposeFromLedger
  <2>3. /\ c.ref = call[t].ref /\ KeyOf(c) = Key(t) /\ c.pc = AfterProposal(t)
        /\ AfterProposal(t) \in PC \ {"closed", "status"}
    BY DEF TypeOK, Call, Key, AfterProposal, PC
  <2> HIDE DEF c, KeyOf
  <2> QED BY <1>3, <2>2, <2>3
<1>5. ASSUME RepairNotFound(t) \/ VerifyUndecided(t)
      PROVE  ClosureInv'
  <2>1. Return(t) /\ UNCHANGED <<ledger, entries, authorised>>
    BY <1>5 DEF RepairNotFound, VerifyUndecided
  <2> HIDE DEF Agrees
  <2> QED BY <1>b, <1>c, <2>1 DEF Return
<1>6. ASSUME RecordRejection(t) \/ RecordApproval(t)
      PROVE  ClosureInv'
  <2>1. PICK status \in Status : WriteEntry(t, status)
    BY <1>6 DEF RecordRejection, RecordApproval, Status
  <2> QED BY <1>6, <1>d, <2>1 DEF RecordRejection, RecordApproval
<1>7. CASE ReplaceCurrent(t)
  <2> DEFINE c == [call[t] EXCEPT !.under = [kind |-> selection.kind, name |-> selection.name],
                                  !.pc = "set"]
  <2>1. call' = [call EXCEPT ![t] = c] /\ UNCHANGED <<ledger, entries, authorised>>
    BY <1>7 DEF ReplaceCurrent, TypeOK
  <2>2. c.ref = call[t].ref /\ KeyOf(c) = Key(t) /\ c.pc = "set"
    BY DEF TypeOK, Call, Key
  <2> HIDE DEF c, KeyOf
  <2> QED BY <1>3, <2>1, <2>2 DEF PC
<1>8. CASE ReplaceSet(t)
  <2> DEFINE c == [call[t] EXCEPT !.pc = "record"]
  <2>1. call' = [call EXCEPT ![t] = c] /\ UNCHANGED <<ledger, entries, authorised>>
    BY <1>8 DEF ReplaceSet, TypeOK
  <2>2. c.ref = call[t].ref /\ KeyOf(c) = Key(t) /\ c.pc = "record"
    BY DEF TypeOK, Call, Key
  <2> HIDE DEF c, KeyOf
  <2> QED BY <1>3, <2>1, <2>2 DEF PC
<1>9. CASE VerifyEntry(t)
  <2> DEFINE c == [call[t] EXCEPT !.ref = LedgerGet(Key(t)), !.pc = "check"]
  <2>1. call' = [call EXCEPT ![t] = c] /\ UNCHANGED <<ledger, entries, authorised>>
    BY <1>9 DEF VerifyEntry, TypeOK
  <2>2. c.ref = LedgerGet(Key(t)) /\ KeyOf(c) = Key(t) /\ c.pc = "check"
    BY DEF TypeOK, Call, Key
  <2> HIDE DEF c
  <2>3. \A k \in DOMAIN ledger : ledger[k] = LedgerGet(Key(t)) => k = Key(t)
    BY <1>a DEF LedgerGet, NoEntry, ClosureInv
  <2>4. Agrees(c)
    BY <2>2, <2>3
  <2> HIDE DEF Agrees
  <2> QED BY <1>c, <2>1, <2>4
<1>10. CASE VerifyCheck(t)
  <2> DEFINE gone == verify_repair(call[t].seen, call[t].repair)
  <2>1. PICK s : call' = [call EXCEPT ![t].answer = [closed |-> gone, status |-> s], ![t].pc = "closed"]
    BY <1>10 DEF VerifyCheck
  <2> DEFINE c == [call[t] EXCEPT !.answer = [closed |-> gone, status |-> s], !.pc = "closed"]
  <2>2. call' = [call EXCEPT ![t] = c] /\ UNCHANGED <<ledger, entries, authorised>>
    BY <1>10, <2>1 DEF VerifyCheck, TypeOK
  <2>3. /\ c.ref = call[t].ref /\ KeyOf(c) = Key(t) /\ c.repair = call[t].repair
        /\ c.answer.closed = gone
    BY DEF TypeOK, Call, Key
  <2>4. call[t].seen \in Bundle /\ call[t].repair \in FindingKey
    BY DEF TypeOK, Call
  <2>5. ASSUME gone, call[t].repair.lens = "gap"
        PROVE  Justified(Key(t))
    <3>1. Key(t)[1][1] = Dataset(call[t].seen) /\ Key(t)[2] = call[t].repair
      BY DEF Key, AuthorisationInv
    <3>2. CASE call[t].repair.phantom \notin Data(call[t].seen).phantoms
      BY <2>4, <3>1, <3>2 DEF Justified, Data, Dataset, Bundle
    <3>3. CASE \E o \in call[t].seen.overlays : o.repair = call[t].repair
      BY <3>1, <3>3 DEF Justified, AuthorisationInv, Authorised
    <3> QED BY <2>4, <2>5, <3>2, <3>3, GapGone
  <2> HIDE DEF c, gone
  <2>6. Closing(c) => J(KeyOf(c))
    <3>1. Justified(Key(t)) => J(Key(t))
      BY <1>0, <2>2
    <3> QED BY <2>3, <2>5, <3>1
  <2>7. Agrees(c)
    BY <1>0, <2>2, <2>3, <2>6 DEF Key
  <2> HIDE DEF Agrees
  <2> QED BY <1>c, <2>2, <2>7
<1>11. CASE VerifyWriteClosed(t)
  <2> DEFINE c == [call[t] EXCEPT !.pc = "status"]
  <2>1. /\ call' = [call EXCEPT ![t] = c] /\ UNCHANGED <<ledger, authorised>>
        /\ call[t].pc = "closed"
    BY <1>11 DEF VerifyWriteClosed, TypeOK
  <2>2. /\ c.ref = call[t].ref /\ KeyOf(c) = Key(t) /\ c.repair = call[t].repair
        /\ c.answer = call[t].answer /\ c.pc = "status"
    BY DEF TypeOK, Call, Key
  <2>3. \A u \in Threads : call'[u] = IF u = t THEN c ELSE call[u]
    BY <2>1 DEF TypeOK
  <2> HIDE DEF c
  <2>4. Agrees(c)
    BY <1>0, <2>1, <2>2 DEF Key
  <2>5. \A u \in Threads : Agrees(call'[u])
    <3> HIDE DEF Agrees
    <3> QED BY <1>0, <2>1, <2>3, <2>4
  <2>6. \A k \in DOMAIN ledger : k[2].lens = "gap" /\ entries'[ledger[k]].closed => J(k)
    <3> SUFFICES ASSUME NEW k \in DOMAIN ledger, k[2].lens = "gap", entries'[ledger[k]].closed
                 PROVE  J(k)
      OBVIOUS
    <3>0. ledger[k] \in 1..Len(entries) /\ entries \in Seq(Entry)
      BY DEF TypeOK
    <3>1. CASE ledger[k] = call[t].ref
      <4>1. k = Key(t)
        BY <3>1 DEF ClosureInv
      <4>2. entries[ledger[k]] \in Entry
        BY <3>0
      <4>3. entries'[ledger[k]] = [entries[ledger[k]] EXCEPT !.closed = call[t].answer.closed]
        BY <1>11, <3>0, <3>1 DEF VerifyWriteClosed
      <4>4. call[t].answer.closed
        BY <4>2, <4>3 DEF Entry
      <4> QED BY <4>1, <4>4, <2>1, <2>2, <2>4 DEF Key
    <3>2. CASE ledger[k] # call[t].ref
      <4>1. entries'[ledger[k]] = entries[ledger[k]]
        BY <1>11, <3>0, <3>2 DEF VerifyWriteClosed
      <4> QED BY <4>1, <1>0, <2>1 DEF ClosureInv
    <3> QED BY <3>1, <3>2
  <2>7. \A j, k \in DOMAIN ledger : ledger[j] = ledger[k] => j = k
    BY DEF ClosureInv
  <2> QED BY <1>e, <2>1, <2>5, <2>6, <2>7
<1>12. CASE VerifyWriteStatus(t)
  <2>1. \A k \in DOMAIN ledger : entries'[ledger[k]].closed = entries[ledger[k]].closed
    <3> SUFFICES ASSUME NEW k \in DOMAIN ledger
                 PROVE  entries'[ledger[k]].closed = entries[ledger[k]].closed
      OBVIOUS
    <3>1. ledger[k] \in 1..Len(entries) /\ entries \in Seq(Entry)
      BY DEF TypeOK
    <3>2. entries[ledger[k]] \in Entry
      BY <3>1
    <3>3. entries'[ledger[k]] = IF ledger[k] = call[t].ref
                                THEN [entries[ledger[k]] EXCEPT !.status = call[t].answer.status]
                                ELSE entries[ledger[k]]
      BY <1>12, <3>1 DEF VerifyWriteStatus
    <3> QED BY <3>2, <3>3 DEF Entry
  <2>2. Return(t) /\ UNCHANGED <<ledger, authorised>>
    BY <1>12 DEF VerifyWriteStatus
  <2>3. \A u \in Threads : call'[u] = IF u = t THEN NoCall ELSE call[u]
    BY <2>2 DEF Return, TypeOK
  <2>4. \A u \in Threads : Agrees(call'[u])
    <3> HIDE DEF Agrees
    <3> QED BY <1>0, <1>b, <2>2, <2>3
  <2>5. \A k \in DOMAIN ledger : k[2].lens = "gap" /\ entries'[ledger[k]].closed => J(k)
    BY <1>0, <2>1, <2>2 DEF ClosureInv
  <2>6. \A j, k \in DOMAIN ledger : ledger[j] = ledger[k] => j = k
    BY DEF ClosureInv
  <2> QED BY <1>e, <2>2, <2>4, <2>5, <2>6
<1>13. ASSUME NEW n \in Names, NEW k, Activate(t, n, k) \/ Import(t, n, k)
       PROVE  ClosureInv'
  <2>1. UNCHANGED <<ledger, entries, call, authorised>>
    BY <1>13 DEF Activate, Import
  <2> QED BY <2>1 DEF ClosureInv, Justified, Key
<1> QED BY <1>1, <1>2, <1>4, <1>5, <1>6, <1>7, <1>8, <1>9, <1>10, <1>11, <1>12, <1>13
        DEF Step, Names

\* Racing verifications, rejections and activations never produce a closed gap
\* out of nothing: somebody with the write token approved closing it, or a
\* source of that dataset does not have it (verify_repair_endpoint).
THEOREM ClosedGapsWereApproved == Spec => []GapClosedByApproval
<1>1. TypeOK /\ AuthorisationInv /\ [Next]_vars => AuthorisationInv'
  BY StepAuthorisation DEF Next, Quiet, vars, AuthorisationInv, Authorised
<1>2. TypeOK /\ AuthorisationInv /\ ClosureInv /\ [Next]_vars => ClosureInv'
  <2> SUFFICES ASSUME TypeOK, AuthorisationInv, ClosureInv, [Next]_vars PROVE ClosureInv'
    OBVIOUS
  <2>1. ASSUME NEW t \in Threads, Step(t) PROVE ClosureInv'
    BY <2>1, StepClosure
  <2>2. CASE UNCHANGED vars
    BY <2>2 DEF vars, ClosureInv, Justified, Key
  <2> QED BY <2>1, <2>2 DEF Next, Quiet
<1>3. ClosureInv => GapClosedByApproval
  BY DEF ClosureInv, GapClosedByApproval, Justified
<1> QED BY InitAuthorisation, InitClosure, TypeCorrect, <1>1, <1>2, <1>3, PTL DEF Spec

-----------------------------------------------------------------------------
(* An overlay closes the finding it came from.                             *)

\* The nodes every overlay refers to exist in the bundle it is on.
WellFormed(b) == \A o \in b.overlays : Applicable(b, o)

WellFormedInv ==
    WellFormed(selection.bundle) /\ \A t \in Threads : WellFormed(call[t].seen)

LEMMA BridgedOwners ==
    ASSUME NEW b \in Bundle, NEW p \in People, NEW q \in People, {p, q} \in communication_graph(b)
    PROVE  faultline_tier(bounded_distance(b, p, q)) = "coordinated"
<1>1. InGraph(b, p) /\ InGraph(b, q)
  BY DEF InGraph
<1>2. q \in Spread(communication_graph(b), {p})
  BY DEF Spread
<1>3. bounded_distance(b, p, q) = IF p = q THEN 0 ELSE 1
  BY <1>1, <1>2 DEF bounded_distance
<1> QED BY <1>3 DEF faultline_tier, NoPath, MaxLen, WeakDistance

\* What the lenses find after a repair, whatever else is overlaid.
LEMMA RepairCloses ==
    ASSUME NEW b \in Bundle, WellFormed(b)
    PROVE  ClosesItsFinding(b)
<1> SUFFICES ASSUME NEW o \in b.overlays,
                    o.kind \in {"record_missing_approval", "establish_owner_bridge"}
             PROVE  verify_repair(b, o.repair)
  BY DEF ClosesItsFinding
<1>1. o \in Overlay /\ o.repair \in FindingKey /\ Applicable(b, o)
  BY DEF Bundle, Overlay, WellFormed
<1>2. CASE o.kind = "record_missing_approval"
  <2>1. o.repair.lens = "gap"
    BY <1>1, <1>2 DEF Applicable
  <2>2. o.repair = Gap(o.repair.phantom)
    BY <1>1, <2>1 DEF FindingKey, GapKey, FaultlineKey, Gap
  <2>3. o = Recorded(o.repair.phantom)
    BY <1>1, <1>2, <2>2 DEF Overlay, Recorded
  <2>4. o.repair \notin gap_findings(b)
    <3>1. ASSUME NEW q \in Data(b).phantoms, Recorded(q) \notin b.overlays
          PROVE  o.repair # Gap(q)
      BY <2>2, <2>3, <3>1 DEF Gap
    <3> QED BY <3>1 DEF gap_findings
  <2>5. \A f \in faultlines(b) : f.finding.lens = "faultline"
    BY DEF faultlines, FaultlineOf
  <2> QED BY <2>1, <2>4, <2>5 DEF verify_repair, OpenFindings
<1>3. CASE o.kind = "establish_owner_bridge"
  <2>1. o.repair.lens = "faultline"
    BY <1>1, <1>3 DEF Applicable
  <2>2. o.repair \in FaultlineKey
    BY <1>1, <2>1 DEF FindingKey, GapKey
  <2> DEFINE p == o.repair.sourceOwner
             q == o.repair.targetOwner
  <2>3. p \in People /\ q \in People
    BY <2>2 DEF FaultlineKey
  <2>4. {p, q} \in communication_graph(b)
    BY <1>3 DEF communication_graph, BridgeEnds
  <2>5. faultline_tier(bounded_distance(b, p, q)) = "coordinated"
    BY <2>3, <2>4, BridgedOwners
  <2>6. o.repair \notin gap_findings(b)
    BY <2>1 DEF gap_findings, Gap
  <2>7. ASSUME NEW f \in faultlines(b) PROVE f.finding # o.repair
    <3>1. PICK d \in Data(b).depends : \E s \in module_owners(b, d.source), t \in module_owners(b, d.target) :
             f = FaultlineOf(b, d, s, t) /\ f.tier # "coordinated"
      BY <2>7 DEF faultlines
    <3>2. PICK s, t : f = FaultlineOf(b, d, s, t) /\ f.tier # "coordinated"
      BY <3>1
    <3>3. /\ f.finding.sourceOwner = s.owner /\ f.finding.targetOwner = t.owner
          /\ f.tier = faultline_tier(bounded_distance(b, s.owner, t.owner))
      BY <3>2 DEF FaultlineOf
    <3> QED BY <2>5, <3>2, <3>3
  <2> QED BY <2>6, <2>7 DEF verify_repair, OpenFindings
<1> QED BY <1>2, <1>3

LEMMA AppliedWellFormed ==
    ASSUME NEW b \in Bundle, NEW o \in Overlay, WellFormed(b)
    PROVE  WellFormed(apply_approved_repair(b, o))
<1> DEFINE after == apply_approved_repair(b, o)
<1>1. after.source = b.source /\ after.overlays \subseteq b.overlays \union {o}
      /\ (o \in after.overlays => o \in b.overlays \/ Applicable(b, o))
  BY ApplyType
<1> HIDE DEF after
<1>2. \A x : Applicable(after, x) = Applicable(b, x)
  BY <1>1 DEF Applicable, Data
<1>3. \A x \in after.overlays : Applicable(b, x)
  BY <1>1 DEF WellFormed
<1> QED BY <1>2, <1>3 DEF WellFormed, after

LEMMA FreshWellFormed ==
    ASSUME NEW n \in Names
    PROVE  WellFormed(Selected(n).bundle)
BY SelectedType DEF WellFormed

LEMMA StepWellFormed ==
    ASSUME TypeOK, WellFormedInv, NEW t \in Threads, Step(t)
    PROVE  WellFormedInv'
\* A step that leaves the selection alone and gives the request a bundle that
\* is well formed.
<1>a. ASSUME NEW c, call' = [call EXCEPT ![t] = c], WellFormed(c.seen), UNCHANGED selection
      PROVE  WellFormedInv'
  BY <1>a DEF WellFormedInv, TypeOK, WellFormed
<1>b. WellFormed(NoCall.seen)
  <2>1. NoCall.seen = Selected(Initial).bundle
    BY DEF NoCall
  <2> QED BY <2>1, FreshWellFormed, CatalogAssumption
<1>c. ASSUME \A u \in Threads : call'[u].seen = call[u].seen, UNCHANGED selection
      PROVE  WellFormedInv'
  BY <1>c DEF WellFormedInv, WellFormed
<1>1. ASSUME NEW r, (\E d, k : Decide(t, r, d, k)) \/ VerifyRequire(t, r)
      PROVE  WellFormedInv'
  <2>1. PICK e, pc : Require(t, r, e, pc)
    BY <1>1 DEF Decide, VerifyRequire
  <2>2. UNCHANGED selection
    BY <1>1 DEF Decide, VerifyRequire
  <2> DEFINE c == [NoCall EXCEPT !.pc = pc, !.sid = SnapshotId(selection), !.repair = r,
                                 !.decision = e, !.seen = selection.bundle]
  <2>3. call' = [call EXCEPT ![t] = c]
    BY <2>1 DEF Require
  <2>4. c.seen = selection.bundle
    BY DEF NoCall
  <2> HIDE DEF c
  <2> QED BY <1>a, <2>2, <2>3, <2>4 DEF WellFormedInv
<1>2. ASSUME ProposeFromBundle(t) \/ ProposeFromLedger(t) \/ ReplaceCurrent(t) \/ VerifyEntry(t)
             \/ VerifyCheck(t) \/ VerifyWriteClosed(t)
      PROVE  WellFormedInv'
  <2>1. \A u \in Threads : call'[u].seen = call[u].seen
    <3>1. CASE ProposeFromBundle(t)
      BY <3>1 DEF TypeOK, Call, ProposeFromBundle
    <3>2. CASE ProposeFromLedger(t)
      BY <3>2 DEF TypeOK, Call, ProposeFromLedger
    <3>3. CASE ReplaceCurrent(t)
      BY <3>3 DEF TypeOK, Call, ReplaceCurrent
    <3>4. CASE VerifyEntry(t)
      BY <3>4 DEF TypeOK, Call, VerifyEntry
    <3>5. CASE VerifyCheck(t)
      BY <3>5 DEF TypeOK, Call, VerifyCheck
    <3>6. CASE VerifyWriteClosed(t)
      BY <3>6 DEF TypeOK, Call, VerifyWriteClosed
    <3> QED BY <1>2, <3>1, <3>2, <3>3, <3>4, <3>5, <3>6
  <2>2. UNCHANGED selection
    BY <1>2 DEF ProposeFromBundle, ProposeFromLedger, ReplaceCurrent, VerifyEntry,
                VerifyCheck, VerifyWriteClosed
  <2> QED BY <1>c, <2>1, <2>2
<1>3. ASSUME RepairNotFound(t) \/ RecordRejection(t) \/ RecordApproval(t)
             \/ VerifyUndecided(t) \/ VerifyWriteStatus(t)
      PROVE  WellFormedInv'
  <2>1. Return(t) /\ UNCHANGED selection
    BY <1>3 DEF RepairNotFound, RecordRejection, RecordApproval, VerifyUndecided, VerifyWriteStatus
  <2> QED BY <1>a, <1>b, <2>1 DEF Return
<1>4. CASE ReplaceSet(t)
  <2>1. call[t].seen \in Bundle /\ Proposal(t) \in Overlay /\ WellFormed(call[t].seen)
    BY DEF TypeOK, Call, Proposal, Overlay, WellFormedInv
  <2>2. WellFormed(apply_approved_repair(call[t].seen, Proposal(t)))
    BY <2>1, AppliedWellFormed
  <2>3. selection'.bundle = apply_approved_repair(call[t].seen, Proposal(t))
    BY <1>4 DEF ReplaceSet
  <2>4. \A u \in Threads : call'[u].seen = call[u].seen
    BY <1>4 DEF ReplaceSet, TypeOK, Call
  <2> QED BY <2>2, <2>3, <2>4 DEF WellFormedInv, WellFormed
<1>5. ASSUME NEW n \in Names, NEW k, Activate(t, n, k) \/ Import(t, n, k)
      PROVE  WellFormedInv'
  <2>1. selection' = Selected(n) /\ call' = call
    BY <1>5 DEF Activate, Import
  <2>2. WellFormed(Selected(n).bundle)
    BY FreshWellFormed
  <2> QED BY <2>1, <2>2 DEF WellFormedInv, WellFormed
<1> QED BY <1>1, <1>2, <1>3, <1>4, <1>5 DEF Step, Names

\* "Propose, approve, re-check, gap closed": once a recorded approval or an
\* owner bridge is on the active bundle, re-running the lens on that bundle
\* finds the repaired finding gone, whatever else was overlaid before or after
\* (apply_approved_repairs, verify_repair).
THEOREM AppliedRepairsClose == Spec => []OverlayClosesFinding
<1>1. Init => WellFormedInv
  <2> SUFFICES ASSUME Init PROVE WellFormedInv
    OBVIOUS
  <2>1. WellFormed(Selected(Initial).bundle) /\ NoCall.seen = Selected(Initial).bundle
    BY CatalogAssumption, FreshWellFormed DEF NoCall
  <2> QED BY <2>1 DEF Init, WellFormedInv
<1>2. TypeOK /\ WellFormedInv /\ [Next]_vars => WellFormedInv'
  <2> SUFFICES ASSUME TypeOK, WellFormedInv, [Next]_vars PROVE WellFormedInv'
    OBVIOUS
  <2>1. ASSUME NEW t \in Threads, Step(t) PROVE WellFormedInv'
    BY <2>1, StepWellFormed
  <2>2. CASE UNCHANGED vars
    BY <2>2 DEF vars, WellFormedInv, WellFormed
  <2> QED BY <2>1, <2>2 DEF Next, Quiet
<1>3. TypeOK /\ WellFormedInv => OverlayClosesFinding
  BY RepairCloses DEF TypeOK, Selection, WellFormedInv, OverlayClosesFinding
<1> QED BY TypeCorrect, <1>1, <1>2, <1>3, PTL DEF Spec

-----------------------------------------------------------------------------
(***************************************************************************)
(* What requests may rely on when they overlap.  A request is overtaken    *)
(* when another one writes the selection or the ledger while it runs, or   *)
(* has half written when it begins.  The argument: what a request that is  *)
(* not overtaken read is what there still is, for any number of threads;   *)
(* so its writes land on the active snapshot and are those of              *)
(* SnapshotLedger.                                                         *)
(***************************************************************************)

KeyOf(c) == <<c.sid, c.repair>>

\* The proposal the request goes on with is one it is served with: derived
\* from the bundle, otherwise remembered by the ledger.
Found(c) ==
    LET offered == {o \in propose_repairs(c.seen) : o.repair = c.repair}
    IN  IF offered # {} THEN [repair |-> c.repair, kind |-> c.kind] \in offered
        ELSE KeyOf(c) \in DOMAIN ledger /\ c.kind = entries[ledger[KeyOf(c)]].kind

\* Nothing a request read has changed since it read it.
Current(c) ==
    /\ c.pc \notin {"idle", "record"} =>
          /\ c.sid = SnapshotId(selection)
          /\ c.seen = selection.bundle
          /\ c.repair \in AskedRepairs
    /\ c.pc \in {"reject", "replace", "set"} => Found(c)
    /\ c.pc = "set" => c.under = [kind |-> selection.kind, name |-> selection.name]
    /\ c.pc \in {"check", "closed", "status"} => c.ref = LedgerGet(KeyOf(c))
    /\ c.pc \in {"closed", "status"} =>
          /\ c.answer.closed = verify_repair(selection.bundle, c.repair)
          /\ c.ref # NoEntry =>
                c.answer.status = IF c.answer.closed THEN "closed" ELSE entries[c.ref].status
    /\ c.pc = "status" => c.ref # NoEntry

\* What it read of the selection has not changed.
SeesActive(c) ==
    /\ c.pc \notin {"idle", "record"} => c.seen = selection.bundle
    /\ c.pc = "set" => c.under = [kind |-> selection.kind, name |-> selection.name]

\* No other request is between its two writes.
Undisturbed(t) == \A u \in Threads \ {t} : ~HalfWritten(call[u])

\* Two keys never share an entry.
OneKey == \A j, k \in DOMAIN ledger : ledger[j] = ledger[k] => j = k

\* Until a request is overtaken, what it read is still true.
StillTrue ==
    /\ overtaken \in [Threads -> SUBSET {"selection", "ledger"}]
    /\ \A t \in Threads :
          /\ "selection" \notin overtaken[t] => SeesActive(call[t])
          /\ overtaken[t] = {} /\ call[t].pc # "idle" => Current(call[t]) /\ Undisturbed(t)

OvertakenInv == OneKey /\ StillTrue

-----------------------------------------------------------------------------
(* A step of one request.                                                  *)

\* Whatever a request did, it is over.
LEMMA IdleIsCurrent ==
    ASSUME NEW c, c.pc = "idle"
    PROVE  Current(c) /\ SeesActive(c) /\ ~HalfWritten(c)
BY DEF Current, SeesActive, HalfWritten

\* What a step does to the request and its view of the selection: it ends, it
\* has replaced the selection, it begins on the active bundle, or it goes on
\* with the bundle it holds.
LEMMA StepShape ==
    ASSUME TypeOK, NEW t \in Threads, Step(t)
    PROVE  \E c :
              /\ call' = [call EXCEPT ![t] = c]
              /\ \/ c.pc \in {"idle", "record"}
                 \/ /\ call[t].pc = "idle" /\ c.pc \in {"propose", "entry"}
                    /\ c.seen = selection.bundle /\ UNCHANGED selection
                 \/ /\ call[t].pc \notin {"idle", "record"} /\ c.seen = call[t].seen
                    /\ UNCHANGED selection
                    /\ c.pc = "set" => c.under = [kind |-> selection.kind, name |-> selection.name]
<1>a. call \in [Threads -> Call] /\ call[t] \in Call
  BY DEF TypeOK
<1>b. NoCall.pc = "idle"
  BY DEF NoCall
<1> DEFINE Goal(c) ==
              /\ call' = [call EXCEPT ![t] = c]
              /\ \/ c.pc \in {"idle", "record"}
                 \/ /\ call[t].pc = "idle" /\ c.pc \in {"propose", "entry"}
                    /\ c.seen = selection.bundle /\ UNCHANGED selection
                 \/ /\ call[t].pc \notin {"idle", "record"} /\ c.seen = call[t].seen
                    /\ UNCHANGED selection
                    /\ c.pc = "set" => c.under = [kind |-> selection.kind, name |-> selection.name]
<1>1. ASSUME NEW r \in AskedRepairs,
             VerifyRequire(t, r) \/ \E d \in Decisions, k \in Tokens : Decide(t, r, d, k)
      PROVE  \E c : Goal(c)
  <2>1. PICK d, pc : Require(t, r, d, pc) /\ pc \in {"propose", "entry"}
    BY <1>1 DEF Decide, VerifyRequire
  <2> DEFINE c == [NoCall EXCEPT !.pc = pc, !.sid = SnapshotId(selection), !.repair = r,
                                 !.decision = d, !.seen = selection.bundle]
  <2>2. call' = [call EXCEPT ![t] = c]
    BY <2>1 DEF Require
  <2>3. c.pc = pc /\ c.seen = selection.bundle
    BY DEF NoCall
  <2>4. call[t].pc = "idle" /\ UNCHANGED selection
    BY <1>1 DEF Decide, VerifyRequire, Accept
  <2> HIDE DEF c
  <2>5. Goal(c)
    BY <2>1, <2>2, <2>3, <2>4
  <2> QED
    BY <2>5
<1>2. CASE ProposeFromBundle(t) \/ ProposeFromLedger(t)
  <2>1. PICK kind : /\ call' = [call EXCEPT ![t].kind = kind, ![t].pc = AfterProposal(t)]
                    /\ call[t].pc = "propose" /\ UNCHANGED selection
    BY <1>2 DEF ProposeFromBundle, ProposeFromLedger
  <2> DEFINE c == [call[t] EXCEPT !.kind = kind, !.pc = AfterProposal(t)]
  <2>2. call' = [call EXCEPT ![t] = c]
    BY <1>a, <2>1
  <2>3. c.seen = call[t].seen /\ c.pc # "set"
    BY <1>a DEF Call, AfterProposal
  <2> HIDE DEF c
  <2>4. Goal(c)
    BY <2>1, <2>2, <2>3
  <2> QED
    BY <2>4
<1>3. CASE RepairNotFound(t) \/ RecordRejection(t) \/ RecordApproval(t) \/ VerifyUndecided(t)
           \/ VerifyWriteStatus(t)
  <2>1. Return(t)
    BY <1>3 DEF RepairNotFound, RecordRejection, RecordApproval, VerifyUndecided,
                VerifyWriteStatus
  <2>2. Goal(NoCall)
    BY <1>b, <2>1 DEF Return
  <2> QED
    BY <2>2
<1>4. CASE ReplaceCurrent(t)
  <2> DEFINE u == [kind |-> selection.kind, name |-> selection.name]
             c == [call[t] EXCEPT !.under = u, !.pc = "set"]
  <2>1. call' = [call EXCEPT ![t] = c] /\ UNCHANGED selection /\ call[t].pc = "replace"
    BY <1>4, <1>a DEF ReplaceCurrent
  <2>2. c.seen = call[t].seen /\ c.under = u
    BY <1>a DEF Call
  <2> HIDE DEF c
  <2>3. Goal(c)
    BY <2>1, <2>2
  <2> QED
    BY <2>3
<1>5. CASE ReplaceSet(t)
  <2> DEFINE c == [call[t] EXCEPT !.pc = "record"]
  <2>1. call' = [call EXCEPT ![t] = c] /\ c.pc = "record"
    BY <1>5, <1>a DEF ReplaceSet, Call
  <2> HIDE DEF c
  <2>2. Goal(c)
    BY <2>1
  <2> QED
    BY <2>2
<1>6. CASE VerifyEntry(t)
  <2> DEFINE c == [call[t] EXCEPT !.ref = LedgerGet(Key(t)), !.pc = "check"]
  <2>1. call' = [call EXCEPT ![t] = c] /\ UNCHANGED selection /\ call[t].pc = "entry"
    BY <1>6, <1>a DEF VerifyEntry
  <2>2. c.seen = call[t].seen /\ c.pc = "check"
    BY <1>a DEF Call
  <2> HIDE DEF c
  <2>3. Goal(c)
    BY <2>1, <2>2
  <2> QED
    BY <2>3
<1>7. CASE VerifyCheck(t)
  <2>1. PICK a : call' = [call EXCEPT ![t].answer = a, ![t].pc = "closed"]
    BY <1>7 DEF VerifyCheck
  <2> DEFINE c == [call[t] EXCEPT !.answer = a, !.pc = "closed"]
  <2>2. call' = [call EXCEPT ![t] = c] /\ UNCHANGED selection /\ call[t].pc = "check"
    BY <1>7, <1>a, <2>1 DEF VerifyCheck
  <2>3. c.seen = call[t].seen /\ c.pc = "closed"
    BY <1>a DEF Call
  <2> HIDE DEF c
  <2>4. Goal(c)
    BY <2>2, <2>3
  <2> QED
    BY <2>4
<1>8. CASE VerifyWriteClosed(t)
  <2> DEFINE c == [call[t] EXCEPT !.pc = "status"]
  <2>1. call' = [call EXCEPT ![t] = c] /\ UNCHANGED selection /\ call[t].pc = "closed"
    BY <1>8, <1>a DEF VerifyWriteClosed
  <2>2. c.seen = call[t].seen /\ c.pc = "status"
    BY <1>a DEF Call
  <2> HIDE DEF c
  <2>3. Goal(c)
    BY <2>1, <2>2
  <2> QED
    BY <2>3
<1>9. ASSUME NEW n \in Names, NEW k, Activate(t, n, k) \/ Import(t, n, k)
      PROVE  \E c : Goal(c)
  <2>1. call' = [call EXCEPT ![t] = call[t]] /\ call[t].pc = "idle"
    BY <1>9, <1>a DEF Activate, Import, Accept
  <2>2. Goal(call[t])
    BY <2>1
  <2> QED
    BY <2>2
<1> HIDE DEF Goal
<1>10. CASE \E r \in AskedRepairs, d \in Decisions, k \in Tokens : Decide(t, r, d, k)
  BY <1>1, <1>10 DEF Goal
<1>11. CASE \E r \in AskedRepairs : VerifyRequire(t, r)
  BY <1>1, <1>11 DEF Goal
<1>12. CASE \/ \E n \in Listed, k \in Tokens : Activate(t, n, k)
            \/ \E n \in Imports, k \in Tokens : Import(t, n, k)
  BY <1>9, <1>12 DEF Names, Goal
<1> QED
  BY <1>2, <1>3, <1>4, <1>5, <1>6, <1>7, <1>8, <1>10, <1>11, <1>12, Zenon DEF Step

\* A step that reads.
LEMMA ReadStep ==
    ASSUME TypeOK, NEW t \in Threads, UNCHANGED <<selection, ledger, entries>>,
           NEW c, call' = [call EXCEPT ![t] = c], Current(c)
    PROVE  Current(call[t])'
<1>1. selection' = selection /\ ledger' = ledger /\ entries' = entries
  OBVIOUS
<1>2. call'[t] = c
  BY DEF TypeOK
<1>3. Current(c)'
  BY <1>1 DEF Current, Found, KeyOf, LedgerGet
<1> QED
  BY <1>2, <1>3 DEF Current, Found, KeyOf, LedgerGet

\* Reading the selection into a fresh request.
LEMMA RequireStep ==
    ASSUME TypeOK, NEW t \in Threads, UNCHANGED <<selection, ledger, entries>>,
           NEW r \in AskedRepairs, NEW d, NEW pc \in {"propose", "entry"}, Require(t, r, d, pc)
    PROVE  Current(call[t])'
<1> DEFINE c == [NoCall EXCEPT !.pc = pc, !.sid = SnapshotId(selection), !.repair = r,
                               !.decision = d, !.seen = selection.bundle]
<1>1. call' = [call EXCEPT ![t] = c]
  BY DEF Require
<1>2. /\ c.pc = pc /\ c.sid = SnapshotId(selection)
      /\ c.seen = selection.bundle /\ c.repair = r
  BY DEF NoCall
<1> HIDE DEF c
<1>3. Current(c)
  BY <1>2 DEF Current
<1> QED
  BY <1>1, <1>3, ReadStep

\* A step that changes the shared state and ends the request, or leaves only
\* the entry to be written.
LEMMA LastStep ==
    ASSUME TypeOK, NEW t \in Threads, NEW c, call' = [call EXCEPT ![t] = c],
           c.pc \in {"idle", "record"}
    PROVE  Current(call[t])'
<1>1. call'[t] = c
  BY DEF TypeOK
<1> QED
  BY <1>1 DEF Current

\* A proposal is a repair and its kind, nothing else.
LEMMA ProposalShape ==
    ASSUME NEW b, NEW o \in propose_repairs(b)
    PROVE  o = [repair |-> o.repair, kind |-> o.kind]
<1>1. \E r, kind : o = [repair |-> r, kind |-> kind]
  BY DEF propose_repairs
<1> QED
  BY <1>1

\* What a request read is current after its own step, if it was before.
LEMMA OwnStep ==
    ASSUME TypeOK, NEW t \in Threads, Current(call[t]), Step(t)
    PROVE  Current(call[t])'
<1>a. call \in [Threads -> Call] /\ call[t] \in Call /\ Current(call[t])
  BY DEF TypeOK
<1>b. NoCall.pc = "idle"
  BY DEF NoCall
<1>1. ASSUME NEW r \in AskedRepairs, NEW d \in Decisions, NEW k \in Tokens, Decide(t, r, d, k)
      PROVE  Current(call[t])'
  BY <1>1, RequireStep DEF Decide
<1>2. CASE ProposeFromBundle(t)
  <2>1. PICK o \in Offered(t) :
           call' = [call EXCEPT ![t].kind = o.kind, ![t].pc = AfterProposal(t)]
    BY <1>2 DEF ProposeFromBundle
  <2> DEFINE c == [call[t] EXCEPT !.kind = o.kind, !.pc = AfterProposal(t)]
  <2>2. call' = [call EXCEPT ![t] = c]
    BY <1>a, <2>1
  <2>3. /\ c.sid = call[t].sid /\ c.seen = call[t].seen /\ c.repair = call[t].repair
        /\ c.kind = o.kind /\ c.pc \in {"reject", "replace"}
    BY <1>a DEF Call, AfterProposal
  <2>4. o = [repair |-> call[t].repair, kind |-> o.kind]
    BY ProposalShape DEF Offered
  <2> HIDE DEF c
  <2>5. Found(c)
    BY <2>3, <2>4 DEF Found, Offered
  <2>6. Current(c)
    BY <1>2, <1>a, <2>3, <2>5 DEF Current, ProposeFromBundle
  <2> QED
    BY <1>2, <2>2, <2>6, ReadStep DEF ProposeFromBundle
<1>3. CASE ProposeFromLedger(t)
  <2> DEFINE c == [call[t] EXCEPT !.kind = entries[LedgerGet(Key(t))].kind,
                                  !.pc = AfterProposal(t)]
  <2>1. call' = [call EXCEPT ![t] = c]
    BY <1>3, <1>a DEF ProposeFromLedger
  <2>2. /\ c.sid = call[t].sid /\ c.seen = call[t].seen /\ c.repair = call[t].repair
        /\ c.kind = entries[LedgerGet(Key(t))].kind /\ c.pc \in {"reject", "replace"}
    BY <1>a DEF Call, AfterProposal
  <2> HIDE DEF c
  <2>3. Key(t) \in DOMAIN ledger /\ LedgerGet(Key(t)) = ledger[Key(t)] /\ Offered(t) = {}
    BY <1>3 DEF ProposeFromLedger, LedgerGet
  <2>4. Found(c)
    BY <2>2, <2>3 DEF Found, KeyOf, Key, Offered
  <2>5. Current(c)
    BY <1>3, <1>a, <2>2, <2>4 DEF Current, ProposeFromLedger
  <2> QED
    BY <1>3, <2>1, <2>5, ReadStep DEF ProposeFromLedger
<1>4. CASE RepairNotFound(t) \/ VerifyUndecided(t)
  BY <1>4, <1>b, LastStep DEF RepairNotFound, VerifyUndecided, Return
<1>5. CASE RecordRejection(t) \/ RecordApproval(t)
  BY <1>5, <1>b, LastStep DEF RecordRejection, RecordApproval, Return
<1>6. CASE ReplaceCurrent(t)
  <2> DEFINE u == [kind |-> selection.kind, name |-> selection.name]
             c == [call[t] EXCEPT !.under = u, !.pc = "set"]
  <2>1. call' = [call EXCEPT ![t] = c]
    BY <1>6, <1>a DEF ReplaceCurrent
  <2>2. /\ c.sid = call[t].sid /\ c.seen = call[t].seen /\ c.repair = call[t].repair
        /\ c.kind = call[t].kind /\ c.under = u /\ c.pc = "set"
    BY <1>a DEF Call
  <2> HIDE DEF c
  <2>3. Found(c)
    BY <1>6, <1>a, <2>2 DEF Current, Found, KeyOf, ReplaceCurrent
  <2>4. Current(c)
    BY <1>6, <1>a, <2>2, <2>3 DEF Current, ReplaceCurrent
  <2> QED
    BY <1>6, <2>1, <2>4, ReadStep DEF ReplaceCurrent
<1>7. CASE ReplaceSet(t)
  <2> DEFINE c == [call[t] EXCEPT !.pc = "record"]
  <2>1. call' = [call EXCEPT ![t] = c] /\ c.pc = "record"
    BY <1>7, <1>a DEF ReplaceSet, Call
  <2> HIDE DEF c
  <2> QED
    BY <2>1, LastStep
<1>8. ASSUME NEW r \in AskedRepairs, VerifyRequire(t, r)
      PROVE  Current(call[t])'
  BY <1>8, RequireStep DEF VerifyRequire
<1>9. CASE VerifyEntry(t)
  <2> DEFINE c == [call[t] EXCEPT !.ref = LedgerGet(Key(t)), !.pc = "check"]
  <2>1. call' = [call EXCEPT ![t] = c]
    BY <1>9, <1>a DEF VerifyEntry
  <2>2. /\ c.sid = call[t].sid /\ c.seen = call[t].seen /\ c.repair = call[t].repair
        /\ c.ref = LedgerGet(Key(t)) /\ c.pc = "check"
    BY <1>a DEF Call
  <2> HIDE DEF c
  <2>3. Current(c)
    BY <1>9, <1>a, <2>2 DEF Current, KeyOf, Key, VerifyEntry
  <2> QED
    BY <1>9, <2>1, <2>3, ReadStep DEF VerifyEntry
<1>10. CASE VerifyCheck(t)
  <2> DEFINE gone == verify_repair(call[t].seen, call[t].repair)
             was == IF call[t].ref = NoEntry THEN "proposed" ELSE entries[call[t].ref].status
             a == [closed |-> gone, status |-> IF gone THEN "closed" ELSE was]
             c == [call[t] EXCEPT !.answer = a, !.pc = "closed"]
  <2>1. call' = [call EXCEPT ![t] = c]
    BY <1>10, <1>a DEF VerifyCheck
  <2>2. /\ c.sid = call[t].sid /\ c.seen = call[t].seen /\ c.repair = call[t].repair
        /\ c.ref = call[t].ref /\ c.answer = a /\ c.pc = "closed"
    BY <1>a DEF Call
  <2>3. /\ a.closed = verify_repair(selection.bundle, call[t].repair)
        /\ call[t].ref # NoEntry =>
              a.status = IF a.closed THEN "closed" ELSE entries[call[t].ref].status
    BY <1>10, <1>a DEF Current, VerifyCheck
  <2> HIDE DEF a, c
  <2>4. Current(c)
    BY <1>10, <1>a, <2>2, <2>3 DEF Current, KeyOf, VerifyCheck
  <2> QED
    BY <1>10, <2>1, <2>4, ReadStep DEF VerifyCheck
<1>11. CASE VerifyWriteClosed(t)
  <2> DEFINE r == call[t].ref
             e == [entries[r] EXCEPT !.closed = call[t].answer.closed]
             c == [call[t] EXCEPT !.pc = "status"]
  <2>1. call' = [call EXCEPT ![t] = c]
    BY <1>11, <1>a DEF VerifyWriteClosed
  <2>2. /\ c.sid = call[t].sid /\ c.seen = call[t].seen /\ c.repair = call[t].repair
        /\ c.ref = r /\ c.answer = call[t].answer /\ c.pc = "status"
    BY <1>a DEF Call
  <2>3. r \in 1..Len(entries) /\ entries \in Seq(Entry) /\ r # NoEntry
    BY <1>11 DEF VerifyWriteClosed, TypeOK, NoEntry
  <2>4. entries' = [entries EXCEPT ![r] = e]
    BY <1>11, <2>3 DEF VerifyWriteClosed
  <2>5. e.status = entries[r].status
    <3>1. entries[r] \in Entry
      BY <2>3
    <3> QED
      BY <3>1 DEF Entry
  <2> HIDE DEF e
  <2>6. entries'[r].status = entries[r].status
    BY <2>3, <2>4, <2>5
  <2>7. UNCHANGED <<selection, ledger>> /\ call[t].pc = "closed"
    BY <1>11 DEF VerifyWriteClosed
  <2> HIDE DEF c
  <2>8. call'[t] = c
    BY <1>a, <2>1
  <2> QED
    BY <1>a, <2>2, <2>3, <2>6, <2>7, <2>8 DEF Current, KeyOf, LedgerGet
<1>12. CASE VerifyWriteStatus(t)
  BY <1>12, <1>b, LastStep DEF VerifyWriteStatus, Return
<1>13. ASSUME NEW n \in Names, NEW k, Activate(t, n, k) \/ Import(t, n, k)
       PROVE  Current(call[t])'
  <2>1. call' = [call EXCEPT ![t] = call[t]] /\ call[t].pc = "idle"
    BY <1>13, <1>a DEF Activate, Import, Accept
  <2> QED
    BY <2>1, LastStep
<1> QED
  BY <1>1, <1>2, <1>3, <1>4, <1>5, <1>6, <1>7, <1>8, <1>9, <1>10, <1>11, <1>12, <1>13
     DEF Step, Names

\* Which entries the keys refer to after an entry was written.
LEMMA WriteKeepsKeys ==
    ASSUME TypeOK, OneKey, NEW t \in Threads, NEW status \in Status, WriteEntry(t, status)
    PROVE  OneKey'
<1> DEFINE n == Len(entries) + 1
<1>1. /\ DOMAIN ledger' = DOMAIN ledger \union {Key(t)}
      /\ ledger'[Key(t)] = n
      /\ \A k \in DOMAIN ledger \ {Key(t)} : ledger'[k] = ledger[k]
  BY DEF WriteEntry, Put
<1>2. \A k \in DOMAIN ledger : ledger[k] # n
  BY DEF TypeOK
<1> HIDE DEF n
<1> QED
  BY <1>1, <1>2 DEF OneKey

LEMMA StepOneKey ==
    ASSUME TypeOK, OneKey, NEW t \in Threads, Step(t)
    PROVE  OneKey'
<1>1. CASE RecordRejection(t) \/ RecordApproval(t)
  BY <1>1, WriteKeepsKeys DEF RecordRejection, RecordApproval, Status
<1>2. CASE UNCHANGED ledger
  BY <1>2 DEF OneKey
<1> QED
  BY <1>1, <1>2
     DEF Step, Decide, ProposeFromBundle, ProposeFromLedger, RepairNotFound, ReplaceCurrent,
         ReplaceSet, VerifyRequire, VerifyEntry, VerifyCheck, VerifyUndecided,
         VerifyWriteClosed, VerifyWriteStatus, Activate, Import

-----------------------------------------------------------------------------
(* Requests that are not overtaken.                                        *)

\* A request that is not overtaken by the step of another one notices nothing
\* of it.
LEMMA OthersStep ==
    ASSUME TypeOK, StillTrue, NEW t \in Threads, NEW u \in Threads \ {t},
           Overtake(t), NEW c, call' = [call EXCEPT ![t] = c]
    PROVE  /\ "selection" \notin overtaken'[u] => SeesActive(call[u])'
           /\ overtaken'[u] = {} /\ call'[u].pc # "idle" => Current(call[u])' /\ Undisturbed(u)'
<1>1. /\ call'[u] = call[u] /\ call'[t] = c
      /\ \A w \in Threads \ {t} : call'[w] = call[w]
  BY DEF TypeOK
<1>2. CASE call[u].pc = "idle"
  BY <1>1, <1>2, IdleIsCurrent DEF SeesActive
<1>3. CASE call[u].pc # "idle"
  <2>1. overtaken'[u] = overtaken[u] \union Wrote(t)
    BY <1>1, <1>3 DEF Overtake
  <2>2. ASSUME "selection" \notin overtaken'[u]
        PROVE  SeesActive(call[u])'
    <3>1. "selection" \notin overtaken[u] /\ selection' = selection
      BY <2>1, <2>2 DEF Wrote
    <3> QED
      BY <1>1, <3>1 DEF StillTrue, SeesActive
  <2>3. ASSUME overtaken'[u] = {}
        PROVE  Current(call[u])' /\ Undisturbed(u)'
    <3>1. overtaken[u] = {} /\ Wrote(t) = {}
      BY <2>1, <2>3
    <3>2. /\ selection' = selection /\ <<ledger, entries>>' = <<ledger, entries>>
          /\ ~HalfWritten(call'[t])
      BY <3>1 DEF Wrote
    <3>3. Current(call[u]) /\ Undisturbed(u)
      BY <1>3, <3>1 DEF StillTrue
    <3>4. Current(call[u])'
      BY <1>1, <3>2, <3>3 DEF Current, Found, KeyOf, LedgerGet
    <3>5. Undisturbed(u)'
      BY <1>1, <3>2, <3>3 DEF Undisturbed, HalfWritten
    <3> QED
      BY <3>4, <3>5
  <2> QED
    BY <2>2, <2>3
<1> QED
  BY <1>2, <1>3

LEMMA StepStillTrue ==
    ASSUME TypeOK, StillTrue, NEW t \in Threads, Step(t), Overtake(t)
    PROVE  StillTrue'
<1>1. PICK c :
         /\ call' = [call EXCEPT ![t] = c]
         /\ \/ c.pc \in {"idle", "record"}
            \/ /\ call[t].pc = "idle" /\ c.pc \in {"propose", "entry"}
               /\ c.seen = selection.bundle /\ UNCHANGED selection
            \/ /\ call[t].pc \notin {"idle", "record"} /\ c.seen = call[t].seen
               /\ UNCHANGED selection
               /\ c.pc = "set" => c.under = [kind |-> selection.kind, name |-> selection.name]
  BY StepShape
<1>2. call'[t] = c /\ \A u \in Threads \ {t} : call'[u] = call[u]
  BY <1>1 DEF TypeOK
<1>3. overtaken' \in [Threads -> SUBSET {"selection", "ledger"}]
  <2>1. Wrote(t) \subseteq {"selection", "ledger"}
    BY DEF Wrote
  <2> QED
    BY <2>1 DEF Overtake, StillTrue
<1>4. overtaken'[t] = IF c.pc = "idle" THEN {}
                      ELSE IF call[t].pc = "idle" /\ ~Undisturbed(t) THEN {"ledger"}
                      ELSE overtaken[t]
  BY <1>2 DEF Overtake, Undisturbed
<1>5. ASSUME "selection" \notin overtaken'[t]
      PROVE  SeesActive(call[t])'
  <2>1. CASE c.pc \in {"idle", "record"}
    BY <1>2, <2>1 DEF SeesActive
  <2>2. CASE call[t].pc = "idle" /\ c.pc \in {"propose", "entry"}
    BY <1>1, <1>2, <2>2 DEF SeesActive
  <2>3. CASE call[t].pc \notin {"idle", "record"} /\ c.pc \notin {"idle", "record"}
    <3>1. SeesActive(call[t])
      BY <1>4, <1>5, <2>3 DEF StillTrue
    <3> QED
      BY <1>1, <1>2, <2>3, <3>1 DEF SeesActive
  <2> QED
    BY <1>1, <2>1, <2>2, <2>3
<1>6. ASSUME overtaken'[t] = {}, call'[t].pc # "idle"
      PROVE  Current(call[t])' /\ Undisturbed(t)'
  <2>1. Current(call[t]) /\ Undisturbed(t)
    BY <1>2, <1>4, <1>6, IdleIsCurrent DEF StillTrue
  <2>2. Current(call[t])'
    BY <2>1, OwnStep
  <2>3. Undisturbed(t)'
    BY <1>2, <2>1 DEF Undisturbed, HalfWritten
  <2> QED
    BY <2>2, <2>3
<1>7. \A u \in Threads \ {t} :
         /\ "selection" \notin overtaken'[u] => SeesActive(call[u])'
         /\ overtaken'[u] = {} /\ call'[u].pc # "idle" => Current(call[u])' /\ Undisturbed(u)'
  BY <1>1, OthersStep
<1> QED
  BY <1>3, <1>5, <1>6, <1>7 DEF StillTrue

LEMMA OvertakenAlways == Spec => []OvertakenInv
<1>1. Init => OvertakenInv
  <2> SUFFICES ASSUME Init PROVE OvertakenInv
    OBVIOUS
  <2>1. \A t \in Threads : call[t].pc = "idle"
    BY DEF Init, NoCall
  <2>2. OneKey
    BY DEF Init, OneKey
  <2>3. overtaken \in [Threads -> SUBSET {"selection", "ledger"}]
    BY DEF Init
  <2> QED
    BY <2>1, <2>2, <2>3, IdleIsCurrent DEF OvertakenInv, StillTrue
<1>2. TypeOK /\ OvertakenInv /\ [Next]_vars => OvertakenInv'
  <2> SUFFICES ASSUME TypeOK, OvertakenInv, [Next]_vars PROVE OvertakenInv'
    OBVIOUS
  <2>1. ASSUME NEW t \in Threads, Step(t), Overtake(t) PROVE OvertakenInv'
    BY <2>1, StepStillTrue, StepOneKey DEF OvertakenInv
  <2>2. CASE UNCHANGED vars
    BY <2>2 DEF vars, OvertakenInv, OneKey, StillTrue, SeesActive, Current, Undisturbed,
                HalfWritten, Found, LedgerGet
  <2> QED
    BY <2>1, <2>2 DEF Next, Quiet
<1> QED
  BY TypeCorrect, <1>1, <1>2, PTL DEF Spec

-----------------------------------------------------------------------------
(* Overlays and the snapshot they belong to.                               *)

LEMMA ApplyKeeps ==
    ASSUME NEW b \in Bundle, NEW o
    PROVE  /\ b.overlays \subseteq apply_approved_repair(b, o).overlays
           /\ apply_approved_repair(b, o).source = b.source
BY DEF apply_approved_repair, Bundle

\* An approval that is not overtaken lands on the active snapshot.
LEMMA LandsOnActive ==
    ASSUME TypeOK, StillTrue, NEW t \in Threads, ReplaceSet(t), "selection" \notin overtaken[t]
    PROVE  /\ selection.bundle.overlays \subseteq selection'.bundle.overlays
           /\ selection'.bundle.source = selection.bundle.source
           /\ selection'.kind = selection.kind /\ selection'.name = selection.name
<1>1. /\ selection.bundle \in Bundle /\ call[t].seen = selection.bundle
      /\ call[t].under = [kind |-> selection.kind, name |-> selection.name]
  BY DEF TypeOK, Selection, StillTrue, SeesActive, ReplaceSet
<1>2. selection' = [bundle |-> apply_approved_repair(selection.bundle, Proposal(t)),
                    kind |-> selection.kind, name |-> selection.name]
  BY <1>1 DEF ReplaceSet
<1> QED
  BY <1>1, <1>2, ApplyKeeps

\* Who writes the selection.
LEMMA SelectionWriters ==
    ASSUME NEW t \in Threads, Step(t)
    PROVE  \/ UNCHANGED selection
           \/ ReplaceSet(t)
           \/ \E n \in Names, k \in Tokens : Activate(t, n, k) \/ Import(t, n, k)
BY DEF Step, Names, Decide, ProposeFromBundle, ProposeFromLedger, RepairNotFound,
       RecordRejection, ReplaceCurrent, RecordApproval, VerifyRequire, VerifyEntry,
       VerifyCheck, VerifyUndecided, VerifyWriteClosed, VerifyWriteStatus

\* However many threads serve requests, an approved overlay leaves the active
\* graph only by a switch of snapshots, or by an approval that read the graph
\* before another request wrote the selection (decide_repair,
\* SnapshotService.replace_bundle), for any sources, names and repairs.
THEOREM OverlaysKept == Spec => OverlaysLostOnlyByOvertaken
<1> DEFINE Grow == \/ selection.bundle.overlays \subseteq selection'.bundle.overlays
                   \/ \E t \in Threads : Replaces(t)
                   \/ \E t \in Threads, n \in Names, k \in Tokens :
                          Activate(t, n, k) \/ Import(t, n, k)
<1>1. TypeOK /\ OvertakenInv /\ [Next]_vars => [Grow]_vars
  <2> SUFFICES ASSUME TypeOK, OvertakenInv, NEW t \in Threads, Step(t)
               PROVE  Grow
    BY DEF Next, Quiet
  <2>1. CASE UNCHANGED selection
    BY <2>1
  <2>2. CASE ReplaceSet(t)
    BY <2>2, LandsOnActive DEF Replaces, OvertakenInv
  <2>3. CASE \E n \in Names, k \in Tokens : Activate(t, n, k) \/ Import(t, n, k)
    BY <2>3
  <2> QED
    BY <2>1, <2>2, <2>3, SelectionWriters
<1> QED
  BY TypeCorrect, OvertakenAlways, <1>1, PTL DEF Spec, OverlaysLostOnlyByOvertaken

\* However many threads serve requests, the name, the kind and the graph of
\* the selection come apart only by an approval that read the graph before
\* another request wrote the selection (SnapshotService.require,
\* replace_bundle), for any sources, names and repairs.
THEOREM SelectionMixedOnlyByOvertaken == Spec => MixedOnlyByOvertaken
<1> DEFINE Together == SelectionCoherent /\ ~SelectionCoherent' => \E t \in Threads : Replaces(t)
<1>1. TypeOK /\ OvertakenInv /\ [Next]_vars => [Together]_vars
  <2> SUFFICES ASSUME TypeOK, OvertakenInv, NEW t \in Threads, Step(t)
               PROVE  Together
    BY DEF Next, Quiet
  <2>1. CASE UNCHANGED selection
    BY <2>1 DEF SelectionCoherent
  <2>2. CASE ReplaceSet(t)
    BY <2>2, LandsOnActive DEF Replaces, OvertakenInv, SelectionCoherent
  <2>3. CASE \E n \in Names, k \in Tokens : Activate(t, n, k) \/ Import(t, n, k)
    <3>1. PICK n \in Names : selection' = Selected(n)
      BY <2>3 DEF Activate, Import
    <3> QED
      BY <3>1 DEF SelectionCoherent, Selected, Fresh
  <2> QED
    BY <2>1, <2>2, <2>3, SelectionWriters
<1> QED
  BY TypeCorrect, OvertakenAlways, <1>1, PTL DEF Spec, MixedOnlyByOvertaken

-----------------------------------------------------------------------------
(* SnapshotLedger is instantiated with definitions of its own: they are    *)
(* the ones RepairLedger uses.                                             *)

LEMMA SameSnapshots ==
    /\ \A n : Promised!Selected(n) = Selected(n)
    /\ \A s : Promised!SnapshotId(s) = SnapshotId(s)
    /\ \A f, k, v : Promised!Put(f, k, v) = Put(f, k, v)
    /\ \A b : Promised!Data(b) = Data(b)
    /\ Promised!Names = Names
BY DEF Promised!Selected, Selected, Promised!SnapshotId, SnapshotId, Promised!Put, Put,
       Promised!Fresh, Fresh, Promised!Dataset, Dataset, Promised!Data, Data,
       Promised!Names, Names

LEMMA SameGraph ==
    /\ \A b : Promised!communication_graph(b) = communication_graph(b)
    /\ \A b, p : Promised!InGraph(b, p) = InGraph(b, p)
    /\ \A G, S : Promised!Spread(G, S) = Spread(G, S)
BY DEF Promised!communication_graph, communication_graph, Promised!BridgeEnds, BridgeEnds,
       Promised!InGraph, InGraph, Promised!Spread, Spread, Promised!Data, Data

LEMMA SameDistance ==
    \A b, p, q : Promised!bounded_distance(b, p, q) = bounded_distance(b, p, q)
BY SameGraph DEF Promised!bounded_distance, bounded_distance, Promised!NoPath, NoPath,
                 Promised!MaxLen, MaxLen

LEMMA SameOrders ==
    /\ \A d : Promised!faultline_tier(d) = faultline_tier(d)
    /\ \A x : Promised!DoubleRisk(x) = DoubleRisk(x)
    /\ \A x, y : Promised!LexLess(x, y) = LexLess(x, y)
BY DEF Promised!faultline_tier, faultline_tier, Promised!DoubleRisk, DoubleRisk,
       Promised!WeakDistance, WeakDistance, Promised!NoPath, NoPath, Promised!MaxLen, MaxLen,
       Promised!LexLess, LexLess

LEMMA SameOwners == \A b, m : Promised!module_owners(b, m) = module_owners(b, m)
BY DEF Promised!module_owners, module_owners, Promised!considered, considered,
       Promised!owner_edges, owner_edges, Promised!RepairOwnsEdge, RepairOwnsEdge,
       Promised!AssertionOrder, AssertionOrder, Promised!LexLess, LexLess,
       Promised!Data, Data, Promised!MinOwnerConfidence, MinOwnerConfidence

LEMMA SameFaultlines == \A b : Promised!faultlines(b) = faultlines(b)
<1>1. \A b, d, s, t : Promised!FaultlineOf(b, d, s, t) = FaultlineOf(b, d, s, t)
  BY SameDistance, SameOrders DEF Promised!FaultlineOf, FaultlineOf
<1> SUFFICES ASSUME NEW b PROVE Promised!faultlines(b) = faultlines(b)
  OBVIOUS
<1>2. /\ Promised!Data(b) = Data(b)
      /\ \A m : Promised!module_owners(b, m) = module_owners(b, m)
  BY SameSnapshots, SameOwners
<1>3. \A d : {Promised!FaultlineOf(b, d, s, t) : s \in Promised!module_owners(b, d.source),
                                                t \in Promised!module_owners(b, d.target)}
              = {FaultlineOf(b, d, s, t) : s \in module_owners(b, d.source),
                                           t \in module_owners(b, d.target)}
  BY <1>1, <1>2
<1> QED
  BY <1>2, <1>3 DEF Promised!faultlines, faultlines

LEMMA SameGaps == \A b : Promised!gap_findings(b) = gap_findings(b)
BY DEF Promised!gap_findings, gap_findings, Promised!Gap, Gap, Promised!Recorded, Recorded,
       Promised!Data, Data

LEMMA SameProposals == \A b : Promised!propose_repairs(b) = propose_repairs(b)
<1>1. \A f : Promised!RepairKindOf(f) = RepairKindOf(f)
  BY DEF Promised!RepairKindOf, RepairKindOf, Promised!NoPath, NoPath, Promised!MaxLen, MaxLen
<1>2. \A S : Promised!Cardinality(S) = Cardinality(S)
  BY Zenon DEF Promised!Cardinality, Cardinality
<1> QED
  BY <1>1, <1>2, SameFaultlines, SameGaps, SameOrders
     DEF Promised!propose_repairs, propose_repairs

LEMMA SameApplication ==
    \A b, o : Promised!apply_approved_repair(b, o) = apply_approved_repair(b, o)
<1>1. \A b, o : Promised!Applicable(b, o) = Applicable(b, o)
  BY DEF Promised!Applicable, Applicable, Promised!Data, Data
<1> QED
  BY <1>1 DEF Promised!apply_approved_repair, apply_approved_repair

LEMMA SameVerdicts == \A b, r : Promised!verify_repair(b, r) = verify_repair(b, r)
BY SameGaps, SameFaultlines DEF Promised!verify_repair, verify_repair,
                                Promised!OpenFindings, OpenFindings

-----------------------------------------------------------------------------
(* The book of SnapshotLedger, as a request shows it that nobody disturbs. *)

Book == [k \in DOMAIN ledger |-> entries[ledger[k]]]

Approved(c) == [status |-> "approved", closed |-> FALSE, kind |-> c.kind]

\* Between two requests, and as long as a request has not written anything,
\* the book is the ledger; then the write under way shows as done.
Shown(c) ==
    CASE c.pc = "record" -> Put(Book, KeyOf(c), Approved(c))
      [] c.pc = "status" ->
            [k \in DOMAIN ledger |->
                IF ledger[k] = c.ref THEN [entries[c.ref] EXCEPT !.status = c.answer.status]
                                     ELSE entries[ledger[k]]]
      [] OTHER -> Book

LEMMA ViewIsShown ==
    TypeOK => \A t \in Threads : Undisturbed(t) => BookView = Shown(call[t])
<1> SUFFICES ASSUME TypeOK, NEW t \in Threads, Undisturbed(t) PROVE BookView = Shown(call[t])
  OBVIOUS
<1>1. \A u \in Threads : call[u].pc \in {"record", "status"} => u = t
  BY DEF Undisturbed, HalfWritten
<1>2. \A k \in DOMAIN ledger : ledger[k] \in 1..Len(entries) /\ entries[ledger[k]] \in Entry
  BY DEF TypeOK
<1>3. CASE call[t].pc = "record"
  <2>1. Recording = {t}
    BY <1>1, <1>3 DEF Recording
  <2>2. (CHOOSE u \in Recording : Key(u) = Key(t)) = t
    BY <2>1
  <2>3. \A o : EntryView(o) = [entries[o] EXCEPT !.status = @]
    BY <1>1, <1>3 DEF EntryView
  <2>4. \A k \in DOMAIN ledger : EntryView(ledger[k]) = entries[ledger[k]]
    BY <1>2, <2>3 DEF Entry
  <2>5. BookView = [k \in DOMAIN ledger \union {Key(t)} |->
                       IF k = Key(t) THEN Approved(call[t]) ELSE EntryView(ledger[k])]
    BY <2>1, <2>2 DEF BookView, Approved
  <2>6. Shown(call[t]) = [k \in DOMAIN ledger \union {Key(t)} |->
                             IF k = Key(t) THEN Approved(call[t]) ELSE Book[k]]
    BY <1>3 DEF Shown, Put, Book, Key, KeyOf
  <2> QED
    BY <2>4, <2>5, <2>6 DEF Book
<1>4. CASE call[t].pc # "record"
  <2>1. Recording = {}
    BY <1>1, <1>4 DEF Recording
  <2>2. BookView = [k \in DOMAIN ledger |-> EntryView(ledger[k])]
    BY <2>1 DEF BookView
  <2>3. CASE call[t].pc = "status"
    <3>1. \A o : EntryView(o) = IF o = call[t].ref
                                THEN [entries[o] EXCEPT !.status = call[t].answer.status]
                                ELSE [entries[o] EXCEPT !.status = @]
      <4>1. ASSUME NEW o, o = call[t].ref
            PROVE  (CHOOSE u \in Threads : call[u].pc = "status" /\ call[u].ref = o) = t
        BY <1>1, <2>3, <4>1
      <4>2. ASSUME NEW o
            PROVE  (\E u \in Threads : call[u].pc = "status" /\ call[u].ref = o)
                       <=> o = call[t].ref
        BY <1>1, <2>3
      <4> QED
        BY <4>1, <4>2 DEF EntryView
    <3>2. \A k \in DOMAIN ledger :
             EntryView(ledger[k]) = IF ledger[k] = call[t].ref
                                    THEN [entries[call[t].ref] EXCEPT !.status = call[t].answer.status]
                                    ELSE entries[ledger[k]]
      BY <1>2, <3>1 DEF Entry
    <3> QED
      BY <2>2, <2>3, <3>2 DEF Shown
  <2>4. CASE call[t].pc # "status"
    <3>1. \A k \in DOMAIN ledger : EntryView(ledger[k]) = entries[ledger[k]]
      BY <1>1, <1>2, <2>4 DEF EntryView, Entry
    <3> QED
      BY <1>4, <2>2, <2>4, <3>1 DEF Shown, Book
  <2> QED
    BY <2>3, <2>4
<1> QED
  BY <1>3, <1>4

\* A request that has not half written, before or after its step, does not
\* show, whatever others are doing.
LEMMA ReadsDoNotShow ==
    ASSUME TypeOK, NEW t \in Threads, NEW c, call' = [call EXCEPT ![t] = c],
           ~HalfWritten(call[t]), ~HalfWritten(c), UNCHANGED <<ledger, entries>>
    PROVE  BookView' = BookView
<1>1. call'[t] = c /\ \A u \in Threads \ {t} : call'[u] = call[u]
  BY DEF TypeOK
<1>2. Recording' = Recording /\ \A u \in Recording : call'[u] = call[u]
  BY <1>1 DEF Recording, HalfWritten
<1>3. \A u \in Recording : Key(u)' = Key(u)
  BY <1>2 DEF Key
<1>4. ASSUME NEW o  PROVE EntryView(o)' = EntryView(o)
  <2> DEFINE At(u) == call[u].pc = "status" /\ call[u].ref = o
  <2>1. \A u \in Threads : (call'[u].pc = "status" /\ call'[u].ref = o) <=> At(u)
    BY <1>1 DEF HalfWritten
  <2>2. (CHOOSE u \in Threads : call'[u].pc = "status" /\ call'[u].ref = o)
            = CHOOSE u \in Threads : At(u)
    BY <2>1
  <2>3. CASE \E u \in Threads : At(u)
    <3>1. PICK w \in Threads : w = (CHOOSE u \in Threads : At(u)) /\ At(w)
      BY <2>3
    <3>2. call'[w] = call[w]
      BY <1>1, <3>1 DEF HalfWritten
    <3>3. EntryView(o) = [entries[o] EXCEPT !.status = call[w].answer.status]
      BY <2>3, <3>1 DEF EntryView
    <3>4. EntryView(o)' = [entries'[o] EXCEPT !.status = call'[w].answer.status]
      BY <2>1, <2>2, <2>3, <3>1 DEF EntryView
    <3> QED
      BY <3>2, <3>3, <3>4
  <2>4. CASE ~\E u \in Threads : At(u)
    BY <2>1, <2>4 DEF EntryView
  <2> QED
    BY <2>3, <2>4
<1>5. \A k : (CHOOSE u \in Recording' : Key(u)' = k) = CHOOSE u \in Recording : Key(u) = k
  BY <1>2, <1>3
<1>6. {Key(u) : u \in Recording}' = {Key(u) : u \in Recording}
  BY <1>2, <1>3
<1>7. \A k : (\E u \in Recording' : Key(u)' = k) <=> \E u \in Recording : Key(u) = k
  BY <1>2, <1>3
<1>8. ASSUME NEW k, \E u \in Recording : Key(u) = k
      PROVE  call'[CHOOSE u \in Recording' : Key(u)' = k].kind
                 = call[CHOOSE u \in Recording : Key(u) = k].kind
  <2>1. PICK w \in Recording : w = CHOOSE u \in Recording : Key(u) = k
    BY <1>8
  <2>2. w = (CHOOSE u \in Recording' : Key(u)' = k)
    BY <1>5, <2>1
  <2> QED
    BY <1>2, <2>1, <2>2
<1> DEFINE E(k) == \E u \in Recording : Key(u) = k
           A(k) == [status |-> "approved", closed |-> FALSE,
                    kind |-> call[CHOOSE u \in Recording : Key(u) = k].kind]
           D == DOMAIN ledger \union {Key(u) : u \in Recording}
<1>9. BookView = [k \in D |-> IF E(k) THEN A(k) ELSE EntryView(ledger[k])]
  BY DEF BookView
<1>10. BookView' = [k \in D' |-> IF E(k)' THEN A(k)' ELSE EntryView(ledger[k])']
  BY DEF BookView
<1>11. D' = D
  BY <1>6
<1>12. \A k : (E(k)' <=> E(k)) /\ (E(k) => A(k)' = A(k))
  BY <1>7, <1>8
<1>13. \A k : EntryView(ledger[k])' = EntryView(ledger[k])
  BY <1>4
<1> HIDE DEF D, E, A
<1> QED
  BY <1>9, <1>10, <1>11, <1>12, <1>13

\* Writing an entry is an assignment to a key of the book.
LEMMA WriteBook ==
    ASSUME TypeOK, NEW t \in Threads, NEW status \in Status, WriteEntry(t, status)
    PROVE  Book' = Put(Book, Key(t), [status |-> status, closed |-> FALSE, kind |-> call[t].kind])
<1> DEFINE e == [status |-> status, closed |-> FALSE, kind |-> call[t].kind]
           n == Len(entries) + 1
<1>1. /\ DOMAIN ledger' = DOMAIN ledger \union {Key(t)}
      /\ ledger'[Key(t)] = n
      /\ \A k \in DOMAIN ledger \ {Key(t)} : ledger'[k] = ledger[k]
  BY DEF WriteEntry, Put
<1>2. entries'[n] = e /\ \A o \in 1..Len(entries) : entries'[o] = entries[o]
  BY WriteEntryType
<1>3. \A k \in DOMAIN ledger : ledger[k] \in 1..Len(entries)
  BY DEF TypeOK
<1> HIDE DEF e, n
<1>4. \A k \in DOMAIN ledger' : entries'[ledger'[k]] = IF k = Key(t) THEN e ELSE entries[ledger[k]]
  BY <1>1, <1>2, <1>3
<1>5. Book' = [k \in DOMAIN ledger \union {Key(t)} |-> IF k = Key(t) THEN e ELSE entries[ledger[k]]]
  BY <1>1, <1>4 DEF Book
<1>6. Put(Book, Key(t), e)
          = [k \in DOMAIN ledger \union {Key(t)} |-> IF k = Key(t) THEN e ELSE entries[ledger[k]]]
  BY DEF Put, Book
<1> QED
  BY <1>5, <1>6 DEF e

\* What the abstract ledger would serve the request with.
LEMMA ServedProposal ==
    ASSUME TypeOK, NEW t \in Threads, Current(call[t]), BookView = Book,
           call[t].pc \in {"reject", "set"}
    PROVE  /\ Proposal(t) \in Promised!Served(call[t].repair)
           /\ Promised!Key(call[t].repair) = Key(t)
           /\ call[t].repair \in AskedRepairs
<1>1. /\ call[t].sid = SnapshotId(selection) /\ call[t].seen = selection.bundle
      /\ call[t].repair \in AskedRepairs /\ Found(call[t])
  BY DEF Current
<1>2. Promised!Key(call[t].repair) = Key(t) /\ KeyOf(call[t]) = Key(t)
  BY <1>1, SameSnapshots DEF Promised!Key, Key, KeyOf
<1>3. {o \in Promised!propose_repairs(selection.bundle) : o.repair = call[t].repair}
          = {o \in propose_repairs(call[t].seen) : o.repair = call[t].repair}
  BY <1>1, SameProposals
<1>4. DOMAIN Book = DOMAIN ledger /\ \A k \in DOMAIN ledger : Book[k] = entries[ledger[k]]
  BY DEF Book
<1>5. Proposal(t) \in Promised!Served(call[t].repair)
  BY <1>1, <1>2, <1>3, <1>4 DEF Promised!Served, Found, Proposal
<1> QED
  BY <1>1, <1>2, <1>5

\* What a verification shows once it has written "closed".
LEMMA VerifiedBook ==
    ASSUME TypeOK, OneKey, NEW t \in Threads, Current(call[t]), VerifyWriteClosed(t)
    PROVE  /\ Key(t) \in DOMAIN Book
           /\ Shown(call[t])' =
                 [Book EXCEPT ![Key(t)].closed = call[t].answer.closed,
                              ![Key(t)].status = IF call[t].answer.closed THEN "closed" ELSE @]
<1> DEFINE r == call[t].ref
           a == call[t].answer
           e == [entries[r] EXCEPT !.closed = a.closed]
           f == [e EXCEPT !.status = a.status]
<1>1. /\ r \in 1..Len(entries) /\ entries \in Seq(Entry) /\ entries[r] \in Entry
      /\ call \in [Threads -> Call] /\ call[t] \in Call
  BY DEF VerifyWriteClosed, TypeOK, NoEntry
<1>2. entries' = [entries EXCEPT ![r] = e] /\ ledger' = ledger
  BY <1>1 DEF VerifyWriteClosed
<1>3. call'[t] = [call[t] EXCEPT !.pc = "status"]
  BY <1>1 DEF VerifyWriteClosed
<1>4. call'[t].pc = "status" /\ call'[t].ref = r /\ call'[t].answer = a
  BY <1>1, <1>3 DEF Call
<1>5. Key(t) \in DOMAIN ledger /\ ledger[Key(t)] = r
  BY DEF VerifyWriteClosed, Current, LedgerGet, Key, KeyOf
<1>6. \A k \in DOMAIN ledger : ledger[k] = r <=> k = Key(t)
  BY <1>5 DEF OneKey
<1>7. a.status = IF a.closed THEN "closed" ELSE e.status
  BY <1>1 DEF VerifyWriteClosed, Current, Entry
<1>8. \A k \in DOMAIN ledger : ledger[k] \in 1..Len(entries)
  BY DEF TypeOK
<1>9. entries'[r] = e /\ \A k \in DOMAIN ledger \ {Key(t)} : entries'[ledger[k]] = entries[ledger[k]]
  <2> HIDE DEF e, r
  <2> QED
    BY <1>1, <1>2, <1>6, <1>8
<1>10. Shown(call[t])' = [k \in DOMAIN ledger |-> IF k = Key(t) THEN f ELSE entries[ledger[k]]]
  <2>1. Shown(call[t])' = [k \in DOMAIN ledger |->
                             IF ledger[k] = r THEN [entries'[r] EXCEPT !.status = a.status]
                                              ELSE entries'[ledger[k]]]
    BY <1>2, <1>4 DEF Shown
  <2> HIDE DEF e, r, a
  <2> QED
    BY <1>6, <1>9, <2>1
<1>11. /\ DOMAIN Book = DOMAIN ledger /\ Book[Key(t)] = entries[r]
       /\ \A k \in DOMAIN ledger : Book[k] = entries[ledger[k]]
  BY <1>5 DEF Book
<1>12. [Book EXCEPT ![Key(t)].closed = a.closed,
                    ![Key(t)].status = IF a.closed THEN "closed" ELSE @]
           = [k \in DOMAIN ledger |-> IF k = Key(t) THEN f ELSE entries[ledger[k]]]
  <2>1. [Book EXCEPT ![Key(t)].closed = a.closed]
            = [k \in DOMAIN ledger |-> IF k = Key(t) THEN e ELSE entries[ledger[k]]]
    <3>1. Book = [k \in DOMAIN ledger |-> entries[ledger[k]]]
      BY DEF Book
    <3> HIDE DEF a, r
    <3> QED
      BY <1>5, <1>11, <3>1
  <2> DEFINE g == [Book EXCEPT ![Key(t)].closed = a.closed]
  <2>2. g = [k \in DOMAIN ledger |-> IF k = Key(t) THEN e ELSE entries[ledger[k]]]
    BY <2>1
  <2> HIDE DEF g, e, a, r
  <2>3. [g EXCEPT ![Key(t)].status = IF a.closed THEN "closed" ELSE @]
            = [k \in DOMAIN ledger |-> IF k = Key(t) THEN f ELSE entries[ledger[k]]]
    BY <1>5, <1>7, <2>2
  <2> QED
    BY <2>3 DEF g
<1> QED
  BY <1>5, <1>10, <1>11, <1>12

-----------------------------------------------------------------------------
(* Each handler is an operation of SnapshotLedger.                         *)

\* A rejection is one step of the promised ledger, ...
LEMMA Rejects ==
    ASSUME TypeOK, OneKey, NEW t \in Threads, Current(call[t]), RecordRejection(t),
           BookView = Shown(call[t]), BookView' = Shown(call[t])'
    PROVE  Promised!Reject(call[t].repair) /\ call[t].repair \in AskedRepairs
<1>a. call \in [Threads -> Call] /\ call[t] \in Call
  BY DEF TypeOK
<1>c. ASSUME Return(t)
      PROVE  call'[t].pc = "idle" /\ BookView' = Book'
  <2>1. call'[t].pc = "idle"
    BY <1>a, <1>c DEF Return, NoCall
  <2> QED
    BY <2>1 DEF Shown
<1> DEFINE r == call[t].repair
           o == Proposal(t)
<1>1. call[t].pc = "reject" /\ WriteEntry(t, "rejected") /\ Return(t) /\ UNCHANGED selection
  BY DEF RecordRejection
<1>2. BookView = Book /\ BookView' = Book'
  BY <1>c, <1>1 DEF Shown
<1>3. /\ o \in Promised!Served(r) /\ o.kind = call[t].kind
      /\ Promised!Key(r) = Key(t) /\ r \in AskedRepairs
  BY <1>a, <1>1, <1>2, ServedProposal DEF Proposal
<1>4. BookView' = Promised!Put(BookView, Promised!Key(r),
                               [status |-> "rejected", closed |-> FALSE, kind |-> o.kind])
  BY <1>1, <1>2, <1>3, WriteBook, SameSnapshots DEF Status
<1> HIDE DEF o, r
<1>5. Promised!Reject(r)
  BY <1>1, <1>3, <1>4 DEF Promised!Reject
<1> QED
  BY <1>3, <1>5 DEF r

\* ... so is the replacement of the bundle, which counts as recorded, ...
LEMMA Approves ==
    ASSUME TypeOK, OneKey, NEW t \in Threads, Current(call[t]), ReplaceSet(t),
           BookView = Shown(call[t]), BookView' = Shown(call[t])'
    PROVE  Promised!Approve(call[t].repair) /\ call[t].repair \in AskedRepairs
<1>a. call \in [Threads -> Call] /\ call[t] \in Call
  BY DEF TypeOK
<1> DEFINE r == call[t].repair
           o == Proposal(t)
           b == apply_approved_repair(selection.bundle, o)
<1>1. /\ call[t].pc = "set" /\ UNCHANGED <<ledger, entries>>
      /\ selection' = [bundle |-> apply_approved_repair(call[t].seen, o),
                       kind |-> call[t].under.kind, name |-> call[t].under.name]
      /\ call' = [call EXCEPT ![t].pc = "record"]
  BY DEF ReplaceSet
<1>2. BookView = Book
  BY <1>1 DEF Shown
<1>3. /\ o \in Promised!Served(r) /\ o.kind = call[t].kind
      /\ Promised!Key(r) = Key(t) /\ r \in AskedRepairs
  BY <1>a, <1>1, <1>2, ServedProposal DEF Proposal
<1>4. selection' = [selection EXCEPT !.bundle = b]
  <2>1. /\ call[t].seen = selection.bundle
        /\ call[t].under = [kind |-> selection.kind, name |-> selection.name]
    BY <1>a, <1>1 DEF Current
  <2>2. selection' = [bundle |-> b, kind |-> selection.kind, name |-> selection.name]
    BY <1>1, <2>1
  <2>3. selection \in Selection
    BY DEF TypeOK
  <2> HIDE DEF b
  <2> QED
    BY <2>2, <2>3 DEF Selection
<1>5. /\ call'[t].pc = "record" /\ KeyOf(call'[t]) = Key(t)
      /\ call'[t].kind = call[t].kind
  <2>1. call'[t] = [call[t] EXCEPT !.pc = "record"]
    BY <1>a, <1>1
  <2> QED
    BY <1>a, <2>1 DEF Call, KeyOf, Key
<1>6. BookView' = Put(Book', KeyOf(call'[t]), Approved(call'[t]))
  BY <1>5 DEF Shown, KeyOf, Approved
<1>7. Book' = Book
  BY <1>1 DEF Book
<1>8. BookView' = Promised!Put(BookView, Promised!Key(r),
                               [status |-> "approved", closed |-> FALSE, kind |-> o.kind])
  BY <1>2, <1>3, <1>5, <1>6, <1>7, SameSnapshots DEF Approved
<1>9. selection' = [selection EXCEPT !.bundle = Promised!apply_approved_repair(@, o)]
  BY <1>4, SameApplication
<1> HIDE DEF o, r
<1>10. Promised!Approve(r)
  BY <1>3, <1>8, <1>9 DEF Promised!Approve
<1> QED
  BY <1>3, <1>10 DEF r

\* ... and the first write of a verification.
LEMMA Verifies ==
    ASSUME TypeOK, OneKey, NEW t \in Threads, Current(call[t]), VerifyWriteClosed(t),
           BookView = Shown(call[t]), BookView' = Shown(call[t])'
    PROVE  Promised!Verify(call[t].repair) /\ call[t].repair \in AskedRepairs
<1>a. call \in [Threads -> Call] /\ call[t] \in Call
  BY DEF TypeOK
<1> DEFINE r == call[t].repair
           gone == Promised!verify_repair(selection.bundle, r)
<1>1. call[t].pc = "closed" /\ UNCHANGED selection
  BY DEF VerifyWriteClosed
<1>2. BookView = Book
  BY <1>1 DEF Shown
<1>3. /\ call[t].answer.closed = gone /\ r \in AskedRepairs
      /\ call[t].sid = SnapshotId(selection)
  BY <1>a, <1>1, SameVerdicts DEF Current
<1>4. Promised!Key(r) = Key(t)
  BY <1>3, SameSnapshots DEF Promised!Key, Key
<1>5. /\ Promised!Key(r) \in DOMAIN BookView
      /\ BookView' = [BookView EXCEPT
                         ![Promised!Key(r)].closed = gone,
                         ![Promised!Key(r)].status = IF gone THEN "closed" ELSE @]
  BY <1>a, <1>2, <1>3, <1>4, VerifiedBook
<1>6. Promised!Verify(r)
  BY <1>1, <1>5 DEF Promised!Verify
<1> QED
  BY <1>3, <1>6

\* The rest of an approval and of a verification does not show.
LEMMA SecondWrite ==
    ASSUME TypeOK, NEW t \in Threads, RecordApproval(t) \/ VerifyWriteStatus(t),
           BookView = Shown(call[t]), BookView' = Shown(call[t])'
    PROVE  UNCHANGED <<selection, BookView>>
<1>a. call \in [Threads -> Call] /\ call[t] \in Call
  BY DEF TypeOK
<1>b. Return(t) /\ UNCHANGED selection
  BY DEF RecordApproval, VerifyWriteStatus
<1>c. BookView' = Book'
  <2>1. call'[t].pc = "idle"
    BY <1>a, <1>b DEF Return, NoCall
  <2> QED
    BY <2>1 DEF Shown
<1>1. CASE RecordApproval(t)
  <2>1. call[t].pc = "record" /\ WriteEntry(t, "approved")
    BY <1>1 DEF RecordApproval
  <2>2. BookView = Put(Book, Key(t), Approved(call[t]))
    BY <2>1 DEF Shown, Key, KeyOf
  <2>3. BookView' = Put(Book, Key(t), Approved(call[t]))
    BY <1>c, <2>1, WriteBook DEF Status, Approved
  <2> QED
    BY <1>b, <2>2, <2>3
<1>2. CASE VerifyWriteStatus(t)
  <2> DEFINE r == call[t].ref
             e == [entries[r] EXCEPT !.status = call[t].answer.status]
  <2>1. call[t].pc = "status" /\ ledger' = ledger
    BY <1>2 DEF VerifyWriteStatus
  <2>2. BookView = [k \in DOMAIN ledger |-> IF ledger[k] = r THEN e ELSE entries[ledger[k]]]
    BY <2>1 DEF Shown
  <2>3. entries' = [entries EXCEPT ![r] = e]
    BY <1>2 DEF VerifyWriteStatus
  <2>4. BookView' = [k \in DOMAIN ledger |-> entries'[ledger[k]]]
    BY <1>c, <2>1 DEF Book
  <2>5. entries \in Seq(Entry) /\ \A k \in DOMAIN ledger : ledger[k] \in 1..Len(entries)
    BY DEF TypeOK
  <2> HIDE DEF e, r
  <2>6. \A k \in DOMAIN ledger : entries'[ledger[k]] = IF ledger[k] = r THEN e ELSE entries[ledger[k]]
    BY <2>3, <2>5
  <2> QED
    BY <1>b, <2>2, <2>4, <2>6
<1> QED
  BY <1>1, <1>2

\* Reading steps do not show, and a switch is a switch.
LEMMA ReadOrSwitch ==
    ASSUME TypeOK, NEW t \in Threads, Step(t), ~HalfWritten(call[t]), ~HalfWritten(call'[t]),
           UNCHANGED <<ledger, entries>>
    PROVE  UNCHANGED <<selection, BookView>> \/ Promised!Next
<1>1. PICK c : call' = [call EXCEPT ![t] = c]
  BY StepShape
<1>2. call'[t] = c
  BY <1>1 DEF TypeOK
<1>3. BookView' = BookView
  BY <1>1, <1>2, ReadsDoNotShow
<1>4. CASE UNCHANGED selection
  BY <1>3, <1>4
<1>5. CASE ReplaceSet(t)
  <2>1. call'[t].pc = "record"
    BY <1>5 DEF ReplaceSet, TypeOK, Call
  <2> QED
    BY <2>1 DEF HalfWritten
<1>6. CASE \E n \in Names, k \in Tokens : Activate(t, n, k) \/ Import(t, n, k)
  <2>1. PICK n \in Names : selection' = Selected(n)
    BY <1>6 DEF Activate, Import
  <2>2. Promised!Switch(n) /\ n \in Promised!Names
    BY <1>3, <2>1, SameSnapshots DEF Promised!Switch
  <2> QED
    BY <2>2 DEF Promised!Next
<1> QED
  BY <1>4, <1>5, <1>6, SelectionWriters

\* Which steps write the ledger or have half written.
LEMMA LedgerWriters ==
    ASSUME TypeOK, NEW t \in Threads, Step(t)
    PROVE  \/ RecordRejection(t) \/ ReplaceSet(t) \/ RecordApproval(t)
           \/ VerifyWriteClosed(t) \/ VerifyWriteStatus(t)
           \/ /\ ~HalfWritten(call[t]) /\ ~HalfWritten(call'[t])
              /\ UNCHANGED <<ledger, entries>>
<1>a. call \in [Threads -> Call] /\ call[t] \in Call
  BY DEF TypeOK
<1>1. ASSUME NEW r \in AskedRepairs,
             VerifyRequire(t, r) \/ \E d \in Decisions, k \in Tokens : Decide(t, r, d, k)
      PROVE  /\ ~HalfWritten(call[t]) /\ ~HalfWritten(call'[t])
             /\ UNCHANGED <<ledger, entries>>
  <2>1. PICK d, pc : Require(t, r, d, pc) /\ pc \in {"propose", "entry"}
    BY <1>1 DEF Decide, VerifyRequire
  <2>2. call'[t].pc = pc
    BY <1>a, <2>1 DEF Require, NoCall
  <2> QED
    BY <1>1, <2>1, <2>2 DEF Decide, VerifyRequire, Accept, HalfWritten
<1>2. CASE ProposeFromBundle(t) \/ ProposeFromLedger(t)
  <2>1. PICK kind : call' = [call EXCEPT ![t].kind = kind, ![t].pc = AfterProposal(t)]
    BY <1>2 DEF ProposeFromBundle, ProposeFromLedger
  <2>2. call'[t].pc = AfterProposal(t)
    BY <1>a, <2>1 DEF Call
  <2> QED
    BY <1>2, <2>2 DEF ProposeFromBundle, ProposeFromLedger, AfterProposal, HalfWritten
<1>3. CASE RepairNotFound(t) \/ VerifyUndecided(t)
  <2>1. call'[t].pc = "idle"
    BY <1>3, <1>a DEF RepairNotFound, VerifyUndecided, Return, NoCall
  <2> QED
    BY <1>3, <2>1 DEF RepairNotFound, VerifyUndecided, HalfWritten
<1>4. CASE ReplaceCurrent(t) \/ VerifyEntry(t) \/ VerifyCheck(t)
  <2>1. call'[t].pc \in {"set", "check", "closed"}
    BY <1>4, <1>a DEF ReplaceCurrent, VerifyEntry, VerifyCheck, Call
  <2> QED
    BY <1>4, <2>1 DEF ReplaceCurrent, VerifyEntry, VerifyCheck, HalfWritten
<1>5. ASSUME NEW n \in Names, NEW k, Activate(t, n, k) \/ Import(t, n, k)
      PROVE  /\ ~HalfWritten(call[t]) /\ ~HalfWritten(call'[t])
             /\ UNCHANGED <<ledger, entries>>
  BY <1>5 DEF Activate, Import, Accept, HalfWritten
<1> QED
  BY <1>1, <1>2, <1>3, <1>4, <1>5 DEF Step, Names

\* However many threads serve requests and whatever races came before, a
\* request that is not overtaken does what SnapshotLedger promises: its
\* decision applies to the active snapshot and is recorded in one step, its
\* verification writes down the verdict of the active graph, its switch
\* changes nothing but the selection, and nothing else shows (decide_repair,
\* verify_repair_endpoint, SnapshotService).
THEOREM KeepsItsPromise == Spec => ServedAsPromised
<1> DEFINE Kept(t) ==
              overtaken[t] = {} =>
                 /\ ReplaceSet(t) => Promised!Approve(call[t].repair)
                 /\ RecordRejection(t) => Promised!Reject(call[t].repair)
                 /\ VerifyWriteClosed(t) => Promised!Verify(call[t].repair)
                 /\ Step(t) => UNCHANGED Promised!vars \/ Promised!Next
<1>1. TypeOK => \A t \in Threads : Undisturbed(t) => BookView = Shown(call[t])
  BY ViewIsShown
<1>2. (TypeOK => \A t \in Threads : Undisturbed(t) => BookView = Shown(call[t]))'
  BY ViewIsShown, PTL
<1>3. ASSUME TypeOK, TypeOK', OvertakenInv, NEW t \in Threads, overtaken[t] = {}, Step(t),
             call[t].pc # "idle"
      PROVE  /\ Current(call[t]) /\ OneKey
             /\ BookView = Shown(call[t]) /\ BookView' = Shown(call[t])'
  <2>1. Current(call[t]) /\ Undisturbed(t)
    BY <1>3 DEF OvertakenInv, StillTrue
  <2>2. \A u \in Threads \ {t} : call'[u] = call[u]
    BY <1>3, StepShape DEF TypeOK
  <2>3. Undisturbed(t)'
    BY <2>1, <2>2 DEF Undisturbed, HalfWritten
  <2> QED
    BY <1>1, <1>2, <1>3, <2>1, <2>3 DEF OvertakenInv
<1>4. ASSUME TypeOK, TypeOK', OvertakenInv, NEW t \in Threads
      PROVE  Kept(t)
  <2> SUFFICES ASSUME overtaken[t] = {}, Step(t)
               PROVE  /\ ReplaceSet(t) => Promised!Approve(call[t].repair)
                      /\ RecordRejection(t) => Promised!Reject(call[t].repair)
                      /\ VerifyWriteClosed(t) => Promised!Verify(call[t].repair)
                      /\ UNCHANGED <<selection, BookView>> \/ Promised!Next
    BY DEF Step, Promised!vars
  <2>1. CASE ReplaceSet(t)
    <3>1. Promised!Approve(call[t].repair) /\ call[t].repair \in AskedRepairs
      BY <1>3, <1>4, <2>1, Approves DEF ReplaceSet
    <3>2. Promised!Next
      BY <3>1 DEF Promised!Next
    <3> QED
      BY <2>1, <3>1, <3>2 DEF ReplaceSet, RecordRejection, VerifyWriteClosed
  <2>2. CASE RecordRejection(t)
    <3>1. Promised!Reject(call[t].repair) /\ call[t].repair \in AskedRepairs
      BY <1>3, <1>4, <2>2, Rejects DEF RecordRejection
    <3>2. Promised!Next
      BY <3>1 DEF Promised!Next
    <3> QED
      BY <2>2, <3>1, <3>2 DEF ReplaceSet, RecordRejection, VerifyWriteClosed
  <2>3. CASE VerifyWriteClosed(t)
    <3>1. Promised!Verify(call[t].repair) /\ call[t].repair \in AskedRepairs
      BY <1>3, <1>4, <2>3, Verifies DEF VerifyWriteClosed
    <3>2. Promised!Next
      BY <3>1 DEF Promised!Next
    <3> QED
      BY <2>3, <3>1, <3>2 DEF ReplaceSet, RecordRejection, VerifyWriteClosed
  <2>4. CASE RecordApproval(t) \/ VerifyWriteStatus(t)
    <3>1. UNCHANGED <<selection, BookView>>
      BY <1>3, <1>4, <2>4, SecondWrite DEF RecordApproval, VerifyWriteStatus
    <3> QED
      BY <2>4, <3>1 DEF ReplaceSet, RecordRejection, VerifyWriteClosed, RecordApproval,
                        VerifyWriteStatus
  <2>5. CASE /\ ~HalfWritten(call[t]) /\ ~HalfWritten(call'[t])
             /\ UNCHANGED <<ledger, entries>>
             /\ ~ReplaceSet(t) /\ ~RecordRejection(t) /\ ~VerifyWriteClosed(t)
    BY <1>4, <2>5, ReadOrSwitch
  <2> QED
    BY <1>4, <2>1, <2>2, <2>3, <2>4, <2>5, LedgerWriters
<1> HIDE DEF Kept
<1>5. TypeOK /\ TypeOK' /\ OvertakenInv => [\A t \in Threads : Kept(t)]_vars
  BY <1>4
<1> QED
  BY TypeCorrect, OvertakenAlways, <1>5, PTL DEF Spec, ServedAsPromised, Kept
=============================================================================

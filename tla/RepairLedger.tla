---------------------------- MODULE RepairLedger ----------------------------
(***************************************************************************)
(* The repair endpoints of the X-Ray API together with SnapshotService.    *)
(*                                                                         *)
(* create_app keeps the ledger in a plain dict and FastAPI runs every      *)
(* synchronous endpoint on a thread of its pool, so requests interleave    *)
(* wherever one of them reads or writes shared state: the selection (read  *)
(* and written under SnapshotService's lock, one lock section at a time)   *)
(* and the ledger.  Each action below ends at the next such access; what   *)
(* lies between two accesses works on values the request owns.             *)
(***************************************************************************)
EXTENDS Snapshots

CONSTANTS
    Threads,        \* threads of the server's pool
    AskedRepairs,   \* repair ids that clients name in their requests
    Tokens,         \* values of X-Xray-Write-Token that clients send
    WriteToken,     \* XRAY_WRITE_TOKEN
    ReadOnly,       \* the deployment accepts no writes
    MaxRequests     \* bound: requests served in a behaviour

ASSUME RequestAssumption ==
    /\ AskedRepairs \subseteq FindingKey /\ AskedRepairs # {}
    /\ ReadOnly \in BOOLEAN
    /\ MaxRequests \in Nat

VARIABLES
    selection,    \* SnapshotService._selection
    ledger,       \* repair_ledger: (snapshot id, repair id) -> entry
    entries,      \* the entry dicts, which verification mutates in place
    call,         \* what each thread's request holds
    served,       \* number of requests accepted so far
    authorised,   \* history: what requests with the write token approved
    overtaken     \* history: what others wrote while a thread's request ran

vars == <<selection, ledger, entries, call, served, authorised, overtaken>>

-----------------------------------------------------------------------------

Decisions == {"approved", "rejected"}

LedgerKeys == SnapshotIds \X FindingKey

Selection == [bundle: Bundle, kind: SnapshotKinds, name: Names]

Entry == [status: Status, closed: BOOLEAN, kind: RepairKind]

NoEntry == 0    \* repair_ledger.get found nothing

PC == {"idle", "propose", "reject", "replace", "set", "record",
       "entry", "check", "closed", "status"}

Call == [pc: PC, sid: SnapshotIds, repair: FindingKey, decision: Decisions,
         seen: Bundle,                                \* what require returned
         kind: RepairKind,                            \* of the proposal found
         under: [kind: SnapshotKinds, name: Names],   \* replace_bundle's current()
         ref: Nat,                                    \* the entry verify holds
         answer: [closed: BOOLEAN, status: Status]]

NoCall ==
    [pc |-> "idle", sid |-> SnapshotId(Selected(Initial)),
     repair |-> CHOOSE r \in AskedRepairs : TRUE, decision |-> "rejected",
     seen |-> Selected(Initial).bundle, kind |-> "record_missing_approval",
     under |-> [kind |-> Catalog[Initial].kind, name |-> Initial],
     ref |-> NoEntry, answer |-> [closed |-> FALSE, status |-> "proposed"]]

Key(t) == <<call[t].sid, call[t].repair>>

LedgerGet(k) == IF k \in DOMAIN ledger THEN ledger[k] ELSE NoEntry

Offered(t) == {o \in propose_repairs(call[t].seen) : o.repair = call[t].repair}

Proposal(t) == [repair |-> call[t].repair, kind |-> call[t].kind]

Return(t) == call' = [call EXCEPT ![t] = NoCall]

-----------------------------------------------------------------------------
(* Access and the start of a request.                                      *)

\* Mutant of require_write_access: the token is not compared.
require_write_access_Off(token) == ~ReadOnly

require_write_access(token) == ~ReadOnly /\ token = WriteToken

Accept(t) ==
    /\ call[t].pc = "idle"
    /\ served < MaxRequests
    /\ served' = served + 1

\* SnapshotService.require: the snapshot id in the URL must be the active
\* one (otherwise 404, and nothing happens).
Require(t, repair, decision, pc) ==
    call' = [call EXCEPT ![t] = [NoCall EXCEPT !.pc = pc,
                                               !.sid = SnapshotId(selection),
                                               !.repair = repair,
                                               !.decision = decision,
                                               !.seen = selection.bundle]]

-----------------------------------------------------------------------------
(* POST .../repairs/{repair_id}/decision                                   *)

Decide(t, repair, decision, token) ==
    /\ Accept(t)
    /\ require_write_access(token)
    /\ Require(t, repair, decision, "propose")
    /\ authorised' = IF decision = "approved" /\ token = WriteToken
                     THEN authorised \union {<<Dataset(selection.bundle), repair>>}
                     ELSE authorised
    /\ UNCHANGED <<selection, ledger, entries>>

\* Mutant of AfterProposal: a rejection is applied like an approval.
AfterProposal_Always(t) == "replace"

AfterProposal(t) == IF call[t].decision = "rejected" THEN "reject" ELSE "replace"

ProposeFromBundle(t) ==
    /\ call[t].pc = "propose"
    /\ \E o \in Offered(t) :
          call' = [call EXCEPT ![t].kind = o.kind, ![t].pc = AfterProposal(t)]
    /\ UNCHANGED <<selection, ledger, entries, served, authorised>>

ProposeFromLedger(t) ==
    /\ call[t].pc = "propose"
    /\ Offered(t) = {}
    /\ LedgerGet(Key(t)) # NoEntry
    /\ call' = [call EXCEPT ![t].kind = entries[LedgerGet(Key(t))].kind,
                            ![t].pc = AfterProposal(t)]
    /\ UNCHANGED <<selection, ledger, entries, served, authorised>>

RepairNotFound(t) ==
    /\ call[t].pc \in {"propose", "entry"}
    /\ Offered(t) = {}
    /\ LedgerGet(Key(t)) = NoEntry
    /\ Return(t)
    /\ UNCHANGED <<selection, ledger, entries, served, authorised>>

\* Mutant of WriteEntry: the key refers to the previous entry.
WriteEntry_OffByOne(t, status) ==
    /\ entries' = Append(entries, [status |-> status, closed |-> FALSE, kind |-> call[t].kind])
    /\ ledger' = Put(ledger, Key(t), Len(entries))

\* repair_ledger[ledger_key] = {...}: a new dict under the key.
WriteEntry(t, status) ==
    /\ entries' = Append(entries, [status |-> status, closed |-> FALSE, kind |-> call[t].kind])
    /\ ledger' = Put(ledger, Key(t), Len(entries) + 1)

RecordRejection(t) ==
    /\ call[t].pc = "reject"
    /\ WriteEntry(t, "rejected")
    /\ Return(t)
    /\ UNCHANGED <<selection, served, authorised>>

\* Mutant of ReplaceCurrent: the name the service started with is kept.
ReplaceCurrent_Initial(t) ==
    /\ call[t].pc = "replace"
    /\ call' = [call EXCEPT ![t].under = [kind |-> Catalog[Initial].kind, name |-> Initial],
                            ![t].pc = "set"]
    /\ UNCHANGED <<selection, ledger, entries, served, authorised>>

\* replace_bundle reads the selection in one lock section ...
ReplaceCurrent(t) ==
    /\ call[t].pc = "replace"
    /\ call' = [call EXCEPT ![t].under = [kind |-> selection.kind, name |-> selection.name],
                            ![t].pc = "set"]
    /\ UNCHANGED <<selection, ledger, entries, served, authorised>>

\* ... and assigns it in another; the bundle is the one require returned.
ReplaceSet(t) ==
    /\ call[t].pc = "set"
    /\ selection' = [bundle |-> apply_approved_repair(call[t].seen, Proposal(t)),
                     kind |-> call[t].under.kind, name |-> call[t].under.name]
    /\ call' = [call EXCEPT ![t].pc = "record"]
    /\ UNCHANGED <<ledger, entries, served, authorised>>

RecordApproval(t) ==
    /\ call[t].pc = "record"
    /\ WriteEntry(t, "approved")
    /\ Return(t)
    /\ UNCHANGED <<selection, served, authorised>>

-----------------------------------------------------------------------------
(* POST .../repairs/{repair_id}/verify (no write token).                   *)

VerifyRequire(t, repair) ==
    /\ Accept(t)
    /\ Require(t, repair, "rejected", "entry")
    /\ UNCHANGED <<selection, ledger, entries, authorised>>

\* entry = repair_ledger.get(...): from here on the request holds the dict.
VerifyEntry(t) ==
    /\ call[t].pc = "entry"
    /\ Offered(t) # {} \/ LedgerGet(Key(t)) # NoEntry
    /\ call' = [call EXCEPT ![t].ref = LedgerGet(Key(t)), ![t].pc = "check"]
    /\ UNCHANGED <<selection, ledger, entries, served, authorised>>

\* Mutant of VerifyCheck: the lens is re-run on the ingested graph.
VerifyCheck_Ingested(t) ==
    /\ call[t].pc = "check"
    /\ LET gone == verify_repair(Fresh(call[t].seen.source), call[t].repair)
           was  == IF call[t].ref = NoEntry THEN "proposed" ELSE entries[call[t].ref].status
       IN  call' = [call EXCEPT ![t].answer = [closed |-> gone,
                                               status |-> IF gone THEN "closed" ELSE was],
                                ![t].pc = "closed"]
    /\ UNCHANGED <<selection, ledger, entries, served, authorised>>

\* Re-run the lens on the bundle that require returned, and read the
\* entry's status for the answer.
VerifyCheck(t) ==
    /\ call[t].pc = "check"
    /\ LET gone == verify_repair(call[t].seen, call[t].repair)
           was  == IF call[t].ref = NoEntry THEN "proposed" ELSE entries[call[t].ref].status
       IN  call' = [call EXCEPT ![t].answer = [closed |-> gone,
                                               status |-> IF gone THEN "closed" ELSE was],
                                ![t].pc = "closed"]
    /\ UNCHANGED <<selection, ledger, entries, served, authorised>>

\* Nobody decided this repair: the answer is all there is.
VerifyUndecided(t) ==
    /\ call[t].pc = "closed"
    /\ call[t].ref = NoEntry
    /\ Return(t)
    /\ UNCHANGED <<selection, ledger, entries, served, authorised>>

VerifyWriteClosed(t) ==
    /\ call[t].pc = "closed"
    /\ call[t].ref # NoEntry
    /\ entries' = [entries EXCEPT ![call[t].ref].closed = call[t].answer.closed]
    /\ call' = [call EXCEPT ![t].pc = "status"]
    /\ UNCHANGED <<selection, ledger, served, authorised>>

\* Mutant of VerifyWriteStatus: the entry keeps its old status.
VerifyWriteStatus_Skipped(t) ==
    /\ call[t].pc = "status"
    /\ Return(t)
    /\ UNCHANGED <<selection, ledger, entries, served, authorised>>

VerifyWriteStatus(t) ==
    /\ call[t].pc = "status"
    /\ entries' = [entries EXCEPT ![call[t].ref].status = call[t].answer.status]
    /\ Return(t)
    /\ UNCHANGED <<selection, ledger, served, authorised>>

-----------------------------------------------------------------------------
(* POST /snapshots/activate and /snapshots/import.                         *)

\* The bundle is cached or freshly ingested and carries no overlay; _set is
\* the request's only access to shared state.
Activate(t, name, token) ==
    /\ Accept(t)
    /\ require_write_access(token)
    /\ selection' = Selected(name)
    /\ UNCHANGED <<ledger, entries, call, authorised>>

Import(t, name, token) ==
    /\ Accept(t)
    /\ require_write_access(token)
    /\ selection' = Selected(name)
    /\ UNCHANGED <<ledger, entries, call, authorised>>

-----------------------------------------------------------------------------
(* Which requests overlap.                                                 *)

\* The request has made one of its two writes: an approval that is not yet
\* recorded, or a verdict whose status is not yet written.
HalfWritten(c) == c.pc \in {"record", "status"}

\* What the step of t writes for others to see.
Wrote(t) ==
    {x \in {"selection", "ledger"} :
        \/ x = "selection" /\ selection' # selection
        \/ x = "ledger" /\ (<<ledger, entries>>' # <<ledger, entries>> \/ HalfWritten(call'[t]))}

\* A request that begins while another has half written is overtaken from its
\* beginning; one that runs is overtaken by whatever another request writes.
Overtake(t) ==
    overtaken' = [u \in Threads |->
        IF call'[u].pc = "idle" THEN {}
        ELSE IF u # t THEN overtaken[u] \union Wrote(t)
        ELSE IF call[u].pc = "idle" /\ \E w \in Threads \ {u} : HalfWritten(call[w])
             THEN {"ledger"}
        ELSE overtaken[u]]

-----------------------------------------------------------------------------

\* No client sends anything more: the server idles.
Quiet ==
    /\ served = MaxRequests
    /\ \A t \in Threads : call[t].pc = "idle"
    /\ UNCHANGED vars

Init ==
    /\ selection = Selected(Initial)
    /\ ledger = << >>
    /\ entries = << >>
    /\ call = [t \in Threads |-> NoCall]
    /\ served = 0
    /\ authorised = {}
    /\ overtaken = [t \in Threads |-> {}]

Step(t) ==
    \/ \E r \in AskedRepairs, d \in Decisions, k \in Tokens : Decide(t, r, d, k)
    \/ ProposeFromBundle(t)
    \/ ProposeFromLedger(t)
    \/ RepairNotFound(t)
    \/ RecordRejection(t)
    \/ ReplaceCurrent(t)
    \/ ReplaceSet(t)
    \/ RecordApproval(t)
    \/ \E r \in AskedRepairs : VerifyRequire(t, r)
    \/ VerifyEntry(t)
    \/ VerifyCheck(t)
    \/ VerifyUndecided(t)
    \/ VerifyWriteClosed(t)
    \/ VerifyWriteStatus(t)
    \/ \E n \in Listed, k \in Tokens : Activate(t, n, k)
    \/ \E n \in Imports, k \in Tokens : Import(t, n, k)

Next == (\E t \in Threads : Step(t) /\ Overtake(t)) \/ Quiet

Spec == Init /\ [][Next]_vars

-----------------------------------------------------------------------------
(* What must hold whatever the interleaving.                               *)

\* Every variable of the service has its type, and the ledger and the requests
\* refer only to entries that exist.
TypeOK ==
    /\ selection \in Selection
    /\ entries \in Seq(Entry)
    /\ DOMAIN ledger \subseteq LedgerKeys
    /\ \A k \in DOMAIN ledger : ledger[k] \in 1..Len(entries)
    /\ call \in [Threads -> Call]
    /\ \A t \in Threads : call[t].ref \in 0..Len(entries)
    /\ served \in 0..MaxRequests
    /\ authorised \subseteq Datasets \X FindingKey

\* Nothing is overlaid on a dataset's graph that no request carrying the
\* write token approved for that dataset, even when decisions, activations
\* and uploads race and a bundle ends up under another snapshot's name
\* (decide_repair, replace_bundle).
Authorised(b) == \A o \in b.overlays : <<Dataset(b), o.repair>> \in authorised

OverlaysAuthorised == Authorised(selection.bundle)

\* A ledger entry calls a gap closed only if somebody with the write token
\* approved closing it, or the gap is absent from a source of that dataset to
\* begin with: racing verifications, rejections and activations never produce
\* a closure out of nothing (verify_repair_endpoint, decide_repair).
GapClosedByApproval ==
    \A k \in DOMAIN ledger :
        k[2].lens = "gap" /\ entries[ledger[k]].closed =>
            \/ <<k[1][1], k[2]>> \in authorised
            \/ \E s \in Sources : /\ SourceData[s].dataset = k[1][1]
                                  /\ k[2].phantom \notin SourceData[s].phantoms

\* "Propose, approve, re-check, gap closed": once a recorded approval or an
\* owner bridge is on the active bundle, re-running the lens on that bundle
\* finds the repaired finding gone, whatever else was overlaid before or after.
ClosesItsFinding(b) ==
    \A o \in b.overlays :
        o.kind \in {"record_missing_approval", "establish_owner_bridge"} =>
            verify_repair(b, o.repair)

OverlayClosesFinding == ClosesItsFinding(selection.bundle)

-----------------------------------------------------------------------------
(* What requests that overlap may still rely on.                           *)

\* Approving is said to store an overlay on the active snapshot: only
\* activating or importing a snapshot would then take one off again.  Two
\* approvals at a time break it (replace_bundle is given a bundle that require
\* returned earlier).
OverlaysOnlyGrow ==
    [][\/ selection.bundle.overlays \subseteq selection'.bundle.overlays
       \/ \E t \in Threads, n \in Names, k \in Tokens :
              Activate(t, n, k) \/ Import(t, n, k)]_vars

Replaces(t) == "selection" \in overtaken[t] /\ ReplaceSet(t)

\* However many requests run, an approved overlay leaves the active graph only
\* by a switch of snapshots, or by an approval that read the graph before
\* another request wrote the selection: verifications, rejections and
\* approvals one after the other, also of repairs only the ledger remembers,
\* never undo one (decide_repair, replace_bundle).
OverlaysLostOnlyByOvertaken ==
    [][\/ selection.bundle.overlays \subseteq selection'.bundle.overlays
       \/ \E t \in Threads : Replaces(t)
       \/ \E t \in Threads, n \in Names, k \in Tokens :
              Activate(t, n, k) \/ Import(t, n, k)]_vars

\* The active name, kind and graph belong together: an overlay lands on the
\* snapshot it was approved for (replace_bundle takes the name and the kind
\* from the selection, and the bundle from the request).
SelectionCoherent ==
    /\ selection.bundle.source = Catalog[selection.name].source
    /\ selection.kind = Catalog[selection.name].kind

\* They come apart only by an approval that read the graph before another
\* request wrote the selection; no other interleaving of require,
\* replace_bundle's current and its assignment mixes two snapshots.
MixedOnlyByOvertaken ==
    [][SelectionCoherent /\ ~SelectionCoherent' => \E t \in Threads : Replaces(t)]_vars

-----------------------------------------------------------------------------
(* The ledger as its clients see it.  Between the assignment of the bundle *)
(* and that of the entry an approval counts as recorded; between the two   *)
(* assignments of a verification its status counts as written.             *)

Recording == {t \in Threads : call[t].pc = "record"}

EntryView(o) ==
    [entries[o] EXCEPT
        !.status = IF \E t \in Threads : call[t].pc = "status" /\ call[t].ref = o
                   THEN call[CHOOSE t \in Threads :
                                call[t].pc = "status" /\ call[t].ref = o].answer.status
                   ELSE @]

BookView ==
    [k \in (DOMAIN ledger) \union {Key(t) : t \in Recording} |->
        IF \E t \in Recording : Key(t) = k
        THEN [status |-> "approved", closed |-> FALSE,
              kind |-> call[CHOOSE t \in Recording : Key(t) = k].kind]
        ELSE EntryView(ledger[k])]

Promised == INSTANCE SnapshotLedger WITH book <- BookView

\* Served one at a time, the handlers do what SnapshotLedger promises.
PromisedSpec == Promised!Spec

\* Whatever runs beside it and whatever races came before, a request that is
\* not overtaken does what SnapshotLedger promises: it decides on the graph
\* that is active and on a proposal this graph or the ledger offers, its
\* verdict is that of the active graph and is written down, and nothing else
\* it does shows (decide_repair, verify_repair_endpoint, activate_snapshot,
\* import_snapshot).
ServedAsPromised ==
    [][\A t \in Threads : overtaken[t] = {} =>
          /\ ReplaceSet(t) => Promised!Approve(call[t].repair)
          /\ RecordRejection(t) => Promised!Reject(call[t].repair)
          /\ VerifyWriteClosed(t) => Promised!Verify(call[t].repair)
          /\ Step(t) => UNCHANGED Promised!vars \/ Promised!Next]_vars
=============================================================================

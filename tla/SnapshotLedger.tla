--------------------------- MODULE SnapshotLedger ---------------------------
(***************************************************************************)
(* What the Coordination Repair Ledger promises, one request at a time: a  *)
(* decision applies to the active snapshot and is recorded in the same     *)
(* step, verification re-runs the lens on the active bundle, and switching *)
(* snapshots changes nothing but the selection.                            *)
(*                                                                         *)
(* RepairLedger, the program, is checked against this module.              *)
(***************************************************************************)
EXTENDS Snapshots

CONSTANT AskedRepairs    \* repair ids that clients name in their requests

VARIABLES
    selection,   \* the active SelectedSnapshot: bundle, kind and name
    book         \* (snapshot id, repair id) -> [status, closed, kind]

vars == <<selection, book>>

Key(repair) == <<SnapshotId(selection), repair>>

\* The proposal a request about this repair is served with: the one derived
\* from the active bundle, otherwise the one the ledger remembers.
Served(repair) ==
    LET offered == {o \in propose_repairs(selection.bundle) : o.repair = repair}
    IN  IF offered # {} THEN offered
        ELSE IF Key(repair) \in DOMAIN book
             THEN {[repair |-> repair, kind |-> book[Key(repair)].kind]}
             ELSE {}

Approve(repair) ==
    \E o \in Served(repair) :
        /\ selection' = [selection EXCEPT !.bundle = apply_approved_repair(@, o)]
        /\ book' = Put(book, Key(repair),
                       [status |-> "approved", closed |-> FALSE, kind |-> o.kind])

Reject(repair) ==
    \E o \in Served(repair) :
        /\ book' = Put(book, Key(repair),
                       [status |-> "rejected", closed |-> FALSE, kind |-> o.kind])
        /\ UNCHANGED selection

\* Only a repair somebody decided has an entry whose status can change.
Verify(repair) ==
    /\ Key(repair) \in DOMAIN book
    /\ LET gone == verify_repair(selection.bundle, repair)
       IN  book' = [book EXCEPT ![Key(repair)].closed = gone,
                                ![Key(repair)].status = IF gone THEN "closed" ELSE @]
    /\ UNCHANGED selection

Switch(name) ==
    /\ selection' = Selected(name)
    /\ UNCHANGED book

Init ==
    /\ selection = Selected(Initial)
    /\ book = << >>

Next ==
    \/ \E r \in AskedRepairs : Approve(r) \/ Reject(r) \/ Verify(r)
    \/ \E n \in Names : Switch(n)

Spec == Init /\ [][Next]_vars
=============================================================================

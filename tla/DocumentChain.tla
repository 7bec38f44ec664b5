---------------------------- MODULE DocumentChain ---------------------------
(***************************************************************************)
(* The documents of one business: drafts, what issues and cancels them, the *)
(* chain one document makes out of another, the invoices a later one takes  *)
(* off, the payments on them and the numbers they carry.                    *)
(*                                                                          *)
(* Issuing, making a successor and cancelling are transactions of several   *)
(* statements, each a step of its own here, with the row locks that order   *)
(* them. What a transaction writes nobody sees before it commits, so all    *)
(* of it is written in its last step. A write of a single statement waits   *)
(* for the lock and is one step.                                            *)
(***************************************************************************)
EXTENDS Naturals, FiniteSets

CONSTANTS
    Transaction,
    WrittenKinds,       \* the kinds a draft is written as, or changed to
    MaxDocuments,       \* bound: documents there will ever be
    MaxEdits,           \* bound: changes of drafts
    MaxPayments,        \* bound: payments recorded
    MaxSkips            \* bound: numbers passed over by hand

Kind == {"quote", "order_confirmation", "delivery_note", "time_and_material_report",
         "progress_invoice", "final_invoice", "cancellation_invoice"}

ASSUME DocumentChainAssumption ==
    /\ WrittenKinds \subseteq Kind \ {"cancellation_invoice"}
    /\ MaxDocuments \in Nat /\ MaxEdits \in Nat /\ MaxPayments \in Nat /\ MaxSkips \in Nat

VARIABLES
    kind, status, predecessor,
    content,            \* the version of what a document says, head and lines
    number,             \* the one it was issued with, or 0
    snapshot,           \* the version of the content that was frozen, or 0
    deductions,         \* the progress invoices that takes off
    paid,               \* invoices with a payment recorded on them
    nextValue, skipped, \* of each number range
    tx,                 \* what each transaction is at, holds and has read
    edits, payments, skips

documents == <<kind, status, predecessor, content, number, snapshot, deductions>>
ranges    == <<nextValue, skipped>>
bounds    == <<edits, payments, skips>>
vars      == <<documents, paid, ranges, tx, bounds>>

Document == 1 .. MaxDocuments
None     == 0
Status   == {"unwritten", "draft", "signed", "issued", "cancelled", "deleted"}

NumberRange == {"quote", "order_confirmation", "delivery_note", "report", "invoice"}

NumberRangeOf(k) ==
    CASE k = "time_and_material_report" -> "report"
      [] k \in {"quote", "order_confirmation", "delivery_note"} -> k
      [] OTHER -> "invoice"

SuccessorsOf(k) ==
    CASE k = "quote" -> {"order_confirmation", "progress_invoice", "final_invoice"}
      [] k = "order_confirmation" -> {"progress_invoice", "final_invoice", "delivery_note"}
      [] k \in {"time_and_material_report", "delivery_note"} -> {"final_invoice"}
      [] k = "progress_invoice" -> {"progress_invoice", "final_invoice"}
      [] OTHER -> {}

Deducts(k) == k \in {"progress_invoice", "final_invoice"}

IsCancellable(k) == k \in {"progress_invoice", "final_invoice"}

ReceivesPayments(k) == k \in {"progress_invoice", "final_invoice"}

Issuable          == {"draft", "signed"}
IsSignedReport(d) == status[d] = "signed" /\ kind[d] = "time_and_material_report"

\* A plausible slip: a successor counts once it is fixed.
ContinuesFixedChain(d) ==
    status[d] \in {"signed", "issued"} /\ kind[d] # "cancellation_invoice"

\* What has left the chain does not count: a deleted draft, a cancelled invoice,
\* and the cancellation itself, which names an invoice without following it.
\* The unique index documents_one_successor says the same.
ContinuesChain(d) ==
    status[d] \in {"draft", "signed", "issued"} /\ kind[d] # "cancellation_invoice"

New == Cardinality({d \in Document : status[d] # "unwritten"}) + 1

-----------------------------------------------------------------------------
(* Transactions and what they hold. *)

Idle == [op |-> "none", doc |-> None, kind |-> "quote", at |-> "start",
         next |-> None, found |-> {}, saw |-> 0,       \* the walk up the chain, the content read
         report |-> 0, number |-> 0,                   \* the numbers drawn
         locked |-> {}, shared |-> {}]                 \* rows locked for update and for share

Goes(t, step) == tx[t].at = step
To(t, new)    == tx' = [tx EXCEPT ![t] = new]

Unlocked(t, d) == \A u \in Transaction \ {t} : d \notin tx[u].locked \cup tx[u].shared
Sharable(t, d) == \A u \in Transaction \ {t} : d \notin tx[u].locked
\* The same for the one statement of somebody who holds nothing.
Free(d)        == \A u \in Transaction : d \notin tx[u].locked \cup tx[u].shared

OwnRange(t) ==
    NumberRangeOf(IF tx[t].op = "cancel" THEN "cancellation_invoice" ELSE kind[tx[t].doc])

\* How many numbers of a range a transaction has drawn. It holds the row of the
\* range from the first on.
Drawn(t, r) ==
    (IF tx[t].report # 0 /\ r = "report" THEN 1 ELSE 0)
    + (IF tx[t].number # 0 /\ r = OwnRange(t) THEN 1 ELSE 0)

TxState ==
    [op : {"none", "issue", "successor", "cancel"}, doc : Document \cup {None}, kind : Kind,
     at : {"start", "predecessor", "fix", "content", "deductions", "checks", "number", "write"},
     next : Document \cup {None}, found : SUBSET Document, saw : Nat,
     report : Nat, number : Nat, locked : SUBSET Document, shared : SUBSET Document]

FieldsOK ==
    /\ kind \in [Document -> Kind] /\ status \in [Document -> Status]
    /\ predecessor \in [Document -> Document \cup {None}]
    /\ content \in [Document -> Nat] /\ snapshot \in [Document -> Nat]
    /\ number \in [Document -> Nat]
    /\ deductions \in [Document -> SUBSET Document] /\ paid \subseteq Document
    /\ nextValue \in [NumberRange -> Nat \ {0}] /\ skipped \in [NumberRange -> SUBSET Nat]
    /\ tx \in [Transaction -> TxState]
    /\ edits \in 0 .. MaxEdits /\ payments \in 0 .. MaxPayments /\ skips \in 0 .. MaxSkips

TypeOK ==
    /\ FieldsOK
    /\ \A d \in Document : /\ predecessor[d] < d
                           /\ number[d] # 0 <=> status[d] \in {"issued", "cancelled"}

Init ==
    /\ kind = [d \in Document |-> "quote"] /\ status = [d \in Document |-> "unwritten"]
    /\ predecessor = [d \in Document |-> None]
    /\ content = [d \in Document |-> 0] /\ number = [d \in Document |-> 0]
    /\ snapshot = [d \in Document |-> 0] /\ deductions = [d \in Document |-> {}]
    /\ paid = {}
    /\ nextValue = [r \in NumberRange |-> 1] /\ skipped = [r \in NumberRange |-> {}]
    /\ tx = [t \in Transaction |-> Idle]
    /\ edits = 0 /\ payments = 0 /\ skips = 0

\* Whatever a transaction did goes back with it: refused on the way, over a
\* detail that is missing or a payment nobody confirmed, or ended by the database.
RollBack(t) ==
    /\ tx[t] # Idle
    /\ To(t, Idle)
    /\ UNCHANGED <<documents, paid, ranges, bounds>>

\* The counter of a range moves on, and its row is held until the commit.
Draws(t, r, fields) ==
    /\ \A u \in Transaction \ {t} : Drawn(u, r) = 0
    /\ To(t, fields)
    /\ UNCHANGED <<documents, paid, ranges, bounds>>

\* A plausible slip: the counter is read without its row being held.
DrawNumberAtOnce(t) ==
    /\ Goes(t, "number") /\ tx[t].number = 0
    /\ LET r == OwnRange(t) IN
         To(t, [tx[t] EXCEPT !.number = nextValue[r] + Drawn(t, r), !.at = "write"])
    /\ UNCHANGED <<documents, paid, ranges, bounds>>

DrawNumber(t) ==
    /\ Goes(t, "number")
    /\ LET r == OwnRange(t) IN
         Draws(t, r, [tx[t] EXCEPT !.number = nextValue[r] + Drawn(t, r), !.at = "write"])

Counted(t) == nextValue' = [r \in NumberRange |-> nextValue[r] + Drawn(t, r)]

-----------------------------------------------------------------------------
(* Drafts. Each is one statement, which waits for who holds the row. *)

Writes(d, k, p) ==
    /\ status' = [status EXCEPT ![d] = "draft"]
    /\ kind' = [kind EXCEPT ![d] = k]
    /\ predecessor' = [predecessor EXCEPT ![d] = p]
    /\ content' = [content EXCEPT ![d] = 1]

Create(k) ==
    /\ New \in Document
    /\ Writes(New, k, None)
    /\ UNCHANGED <<number, snapshot, deductions, paid, ranges, tx, bounds>>

\* A plausible slip: a line looks at its document and waits for nobody.
WriteLineAtOnce(d) ==
    /\ status[d] = "draft" /\ edits < MaxEdits
    /\ content' = [content EXCEPT ![d] = @ + 1]
    /\ edits' = edits + 1
    /\ UNCHANGED <<kind, status, predecessor, number, snapshot, deductions, paid, ranges, tx,
                   payments, skips>>

WriteLine(d) ==
    /\ status[d] = "draft" /\ edits < MaxEdits
    /\ \A t \in Transaction : d \notin tx[t].locked
    /\ content' = [content EXCEPT ![d] = @ + 1]
    /\ edits' = edits + 1
    /\ UNCHANGED <<kind, status, predecessor, number, snapshot, deductions, paid, ranges, tx,
                   payments, skips>>

\* The head, and the kind with it. The predecessor is not in reach.
Update(d, k) ==
    /\ status[d] = "draft" /\ Free(d) /\ edits < MaxEdits
    /\ kind' = [kind EXCEPT ![d] = k]
    /\ content' = [content EXCEPT ![d] = @ + 1]
    /\ edits' = edits + 1
    /\ UNCHANGED <<status, predecessor, number, snapshot, deductions, paid, ranges, tx, payments,
                   skips>>

Remove(d) ==
    /\ status[d] = "draft" /\ Free(d)
    /\ status' = [status EXCEPT ![d] = "deleted"]
    /\ UNCHANGED <<kind, predecessor, content, number, snapshot, deductions, paid, ranges, tx,
                   bounds>>

IsSignable(d) ==
    \/ kind[d] = "time_and_material_report" /\ predecessor[d] = None
    \/ /\ kind[d] = "delivery_note" /\ predecessor[d] # None
       /\ kind[predecessor[d]] = "order_confirmation"

\* The signature of the customer arrives from a device and fixes the document.
Sign(d) ==
    /\ status[d] = "draft" /\ IsSignable(d) /\ Free(d)
    /\ status' = [status EXCEPT ![d] = "signed"]
    /\ UNCHANGED <<kind, predecessor, content, number, snapshot, deductions, paid, ranges, tx,
                   bounds>>

-----------------------------------------------------------------------------
(* Payments, and the number ranges. *)

\* A plausible slip: the invoice is looked at and not locked.
RecordPaymentAtOnce(d) ==
    /\ status[d] = "issued" /\ ReceivesPayments(kind[d])
    /\ d \notin paid /\ payments < MaxPayments
    /\ paid' = paid \cup {d}
    /\ payments' = payments + 1
    /\ UNCHANGED <<documents, ranges, tx, edits, skips>>

RecordPayment(d) ==
    /\ status[d] = "issued" /\ ReceivesPayments(kind[d]) /\ Free(d)
    /\ d \notin paid /\ payments < MaxPayments
    /\ paid' = paid \cup {d}
    /\ payments' = payments + 1
    /\ UNCHANGED <<documents, ranges, tx, edits, skips>>

RemovePayment(d) ==
    /\ d \in paid
    /\ paid' = paid \ {d}
    /\ UNCHANGED <<documents, ranges, tx, bounds>>

\* The counter only moves forward. A number drawn at the same moment waits, or
\* this does.
ChangeNumberRange(r) ==
    /\ skips < MaxSkips /\ \A t \in Transaction : Drawn(t, r) = 0
    /\ nextValue' = [nextValue EXCEPT ![r] = @ + 1]
    /\ skipped' = [skipped EXCEPT ![r] = @ \cup {nextValue[r]}]
    /\ skips' = skips + 1
    /\ UNCHANGED <<documents, paid, tx, edits, payments>>

-----------------------------------------------------------------------------
(* Issuing. *)

LockForIssue(t, d) ==
    /\ tx[t] = Idle /\ status[d] \in Issuable /\ Unlocked(t, d)
    /\ To(t, [Idle EXCEPT !.op = "issue", !.doc = d, !.locked = {d},
                          !.at = IF predecessor[d] = None THEN "content" ELSE "predecessor"])
    /\ UNCHANGED <<documents, paid, ranges, bounds>>

\* A report the customer signed is issued on the way to its invoice.
LockPredecessor(t) ==
    /\ Goes(t, "predecessor")
    /\ LET p == predecessor[tx[t].doc] IN
         /\ Unlocked(t, p)
         /\ To(t, [tx[t] EXCEPT !.locked = @ \cup {p},
                                !.at = IF IsSignedReport(p) THEN "fix" ELSE "content"])
    /\ UNCHANGED <<documents, paid, ranges, bounds>>

FixDocument(t) ==
    /\ Goes(t, "fix")
    /\ Draws(t, "report", [tx[t] EXCEPT !.report = nextValue["report"], !.at = "content"])

ReadContent(t) ==
    /\ Goes(t, "content")
    /\ LET d == tx[t].doc IN
         To(t, [tx[t] EXCEPT !.saw = content[d], !.at = "deductions",
                             !.next = IF Deducts(kind[d]) THEN predecessor[d] ELSE None])
    /\ UNCHANGED <<documents, paid, ranges, bounds>>

\* Up the chain, each predecessor with a share lock. A cancelled progress
\* invoice is passed over.
DeductionsFor(t) ==
    /\ Goes(t, "deductions")
    /\ LET d == tx[t].next IN
         \/ /\ d # None /\ Sharable(t, d)
            /\ To(t, [tx[t] EXCEPT
                 !.shared = @ \cup {d},
                 !.found = IF kind[d] = "progress_invoice" /\ status[d] = "issued"
                           THEN @ \cup {d} ELSE @,
                 !.next = predecessor[d]])
         \/ /\ d = None
            /\ To(t, [tx[t] EXCEPT !.at = "number"])
    /\ UNCHANGED <<documents, paid, ranges, bounds>>

\* A plausible slip: the report is fixed and its number is not written.
IssueWithoutReport(t) ==
    /\ Goes(t, "write") /\ tx[t].op = "issue"
    /\ LET d == tx[t].doc
           p == predecessor[d] IN
         /\ status' = [n \in Document |->
              IF n = d \/ (n = p /\ tx[t].report # 0) THEN "issued" ELSE status[n]]
         /\ number' = [number EXCEPT ![d] = tx[t].number]
         /\ snapshot' = [snapshot EXCEPT ![d] = tx[t].saw]
         /\ deductions' = [deductions EXCEPT ![d] = tx[t].found]
    /\ Counted(t)
    /\ To(t, Idle)
    /\ UNCHANGED <<kind, predecessor, content, paid, skipped, bounds>>

IssueWith(t) ==
    /\ Goes(t, "write") /\ tx[t].op = "issue"
    /\ LET d     == tx[t].doc
           p     == predecessor[d]
           fixed == IF tx[t].report # 0 THEN {p} ELSE {} IN
         /\ status' = [n \in Document |-> IF n \in {d} \cup fixed THEN "issued" ELSE status[n]]
         /\ number' = [n \in Document |->
              IF n = d THEN tx[t].number ELSE IF n \in fixed THEN tx[t].report ELSE number[n]]
         /\ snapshot' = [n \in Document |->
              IF n = d THEN tx[t].saw ELSE IF n \in fixed THEN content[n] ELSE snapshot[n]]
         /\ deductions' = [deductions EXCEPT ![d] = tx[t].found]
    /\ Counted(t)
    /\ To(t, Idle)
    /\ UNCHANGED <<kind, predecessor, content, paid, skipped, bounds>>

-----------------------------------------------------------------------------
(* The next document of the chain. *)

LockForSuccessor(t, d, k) ==
    /\ tx[t] = Idle /\ Unlocked(t, d)
    /\ k \in SuccessorsOf(kind[d])
    /\ status[d] = "issued" \/ (k = "final_invoice" /\ IsSignedReport(d))
    /\ To(t, [Idle EXCEPT !.op = "successor", !.doc = d, !.kind = k, !.locked = {d},
                          !.at = "write"])
    /\ UNCHANGED <<documents, paid, ranges, bounds>>

\* Out of the last link, so that the chain does not branch.
Successor(t) ==
    /\ Goes(t, "write") /\ tx[t].op = "successor" /\ New \in Document
    /\ \A later \in Document : predecessor[later] = tx[t].doc => ~ContinuesChain(later)
    /\ Writes(New, tx[t].kind, tx[t].doc)
    /\ To(t, Idle)
    /\ UNCHANGED <<number, snapshot, deductions, paid, ranges, bounds>>

-----------------------------------------------------------------------------
(* Cancelling. *)

LockForCancel(t, d) ==
    /\ tx[t] = Idle /\ Unlocked(t, d)
    /\ IsCancellable(kind[d]) /\ status[d] = "issued"
    /\ To(t, [Idle EXCEPT !.op = "cancel", !.doc = d, !.locked = {d}, !.at = "checks"])
    /\ UNCHANGED <<documents, paid, ranges, bounds>>

\* A plausible slip: what builds on the invoice is not asked for.
CheckPaymentsOnly(t) ==
    /\ Goes(t, "checks")
    /\ tx[t].doc \notin paid
    /\ To(t, [tx[t] EXCEPT !.saw = snapshot[tx[t].doc], !.at = "number"])
    /\ UNCHANGED <<documents, paid, ranges, bounds>>

\* Nothing issued builds on the invoice, and nothing came in on it. A draft
\* that builds on it does not hold its cancellation up.
CheckCancellation(t) ==
    /\ Goes(t, "checks")
    /\ ~\E later \in Document : predecessor[later] = tx[t].doc /\ status[later] = "issued"
    /\ tx[t].doc \notin paid
    /\ To(t, [tx[t] EXCEPT !.saw = snapshot[tx[t].doc], !.at = "number"])
    /\ UNCHANGED <<documents, paid, ranges, bounds>>

\* The cancellation mirrors what the invoice froze, deductions included. The
\* invoice is asked once more whether it still stands.
Cancel(t) ==
    /\ Goes(t, "write") /\ tx[t].op = "cancel" /\ New \in Document
    /\ LET d == tx[t].doc
           c == New IN
         /\ status[d] = "issued"
         /\ status' = [status EXCEPT ![d] = "cancelled", ![c] = "issued"]
         /\ kind' = [kind EXCEPT ![c] = "cancellation_invoice"]
         /\ predecessor' = [predecessor EXCEPT ![c] = d]
         /\ content' = [content EXCEPT ![c] = tx[t].saw]
         /\ snapshot' = [snapshot EXCEPT ![c] = tx[t].saw]
         /\ number' = [number EXCEPT ![c] = tx[t].number]
         /\ deductions' = [deductions EXCEPT ![c] = deductions[d]]
    /\ Counted(t)
    /\ To(t, Idle)
    /\ UNCHANGED <<paid, skipped, bounds>>

-----------------------------------------------------------------------------
Issue(t)  == LockPredecessor(t) \/ FixDocument(t) \/ ReadContent(t) \/ DeductionsFor(t) \/ IssueWith(t)
Books(t)  == Issue(t) \/ Successor(t) \/ CheckCancellation(t) \/ DrawNumber(t) \/ Cancel(t)

Next ==
    \/ \E k \in WrittenKinds : Create(k) \/ \E d \in Document : Update(d, k)
    \/ \E d \in Document :
          \/ WriteLine(d) \/ Remove(d) \/ Sign(d)
          \/ RecordPayment(d) \/ RemovePayment(d)
    \/ \E k \in WrittenKinds : ChangeNumberRange(NumberRangeOf(k))
    \/ \E t \in Transaction :
          \/ RollBack(t) \/ Books(t)
          \/ \E d \in Document :
                \/ LockForIssue(t, d) \/ LockForCancel(t, d)
                \/ \E k \in Kind : LockForSuccessor(t, d, k)

Spec == Init /\ [][Next]_vars

-----------------------------------------------------------------------------
(* Properties *)

Fixed(d) == status[d] \in {"issued", "cancelled"}

\* The documents a document goes back to, from the nearest on.
Chain[d \in 0 .. MaxDocuments] ==
    IF d = None THEN {}
    ELSE ({predecessor[d]} \ {None}) \cup Chain[predecessor[d]]

\* The numbers of a range have no gap but what was passed over by hand, and no
\* number is there twice, whatever rolled back and drew at the same time.
NumbersWithoutGap ==
    \A r \in NumberRange :
        LET issued == {d \in Document : Fixed(d) /\ NumberRangeOf(kind[d]) = r} IN
        /\ {number[d] : d \in issued} = (1 .. nextValue[r] - 1) \ skipped[r]
        /\ \A d, e \in issued : number[d] = number[e] => d = e

\* A fixed document says what its snapshot froze: no line and no head was
\* written between reading it and fixing it.
SnapshotIsTheDocument ==
    \A d \in Document : Fixed(d) => snapshot[d] = content[d]

\* A document has at most one successor that counts.
ChainDoesNotBranch ==
    \A d, e \in Document :
        /\ predecessor[d] = predecessor[e] /\ predecessor[d] # None
        /\ \A n \in {d, e} : kind[n] # "cancellation_invoice" /\ status[n] \notin {"cancelled", "deleted"}
        => d = e

\* An issued invoice takes off every progress invoice of its chain that stands,
\* and as long as no link between the two is cancelled nothing it took off is.
DeductsItsChain ==
    \A d \in Document : status[d] = "issued" /\ Deducts(kind[d]) =>
        /\ {p \in Chain[d] : kind[p] = "progress_invoice" /\ status[p] = "issued"} \subseteq deductions[d]
        /\ \A p \in deductions[d] :
              status[p] = "issued"
              \/ \E between \in Chain[d] : p \in Chain[between] /\ status[between] = "cancelled"

\* What an issued invoice took off stands: the later one goes first.
DeductionsStand ==
    \A d \in Document : status[d] = "issued" /\ Deducts(kind[d]) =>
        \A p \in deductions[d] : status[p] = "issued"

\* A cancelled invoice has one cancellation in the books, which stands, an
\* invoice that was not cancelled has none, and nothing has come in on a
\* cancelled one: who records a payment and who cancels wait for each other.
CancelledOnce ==
    /\ \A d \in Document :
        LET cancellations == {c \in Document : predecessor[c] = d /\ kind[c] = "cancellation_invoice"} IN
        /\ Cardinality(cancellations) = IF status[d] = "cancelled" THEN 1 ELSE 0
        /\ \A c \in cancellations : status[c] = "issued"
    /\ \A d \in paid : status[d] = "issued"

=============================================================================

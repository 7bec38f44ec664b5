------------------------ MODULE DocumentChain_proofs ------------------------
(***************************************************************************)
(* What holds of the documents for every number of documents, of           *)
(* transactions side by side and of number ranges in use.                  *)
(*                                                                         *)
(* A transaction may rely on what it holds: the rows it has locked for     *)
(* update are nobody else's (LocksInv), so what it found there is so still *)
(* when it writes (HoldsInv), and the row of a number range is held from   *)
(* the first number drawn on (DrawnInv).  The rows there are come one      *)
(* after the other (RowsInv), and only a cancellation names a document     *)
(* that was cancelled without following it.                                *)
(*                                                                         *)
(* The last section is about the chain of a document, which grows as a     *)
(* transaction walks it: what was seen of it is held, the rest is ahead    *)
(* (Walked), and nothing on it is a draft any more (LinksInv).             *)
(***************************************************************************)
EXTENDS DocumentChain, FiniteSetTheorems, WellFoundedInduction, TLAPS

Written(d) == status[d] # "unwritten"

\* The rows written are the first ones, and a row not written says nothing.
RowsInv ==
    /\ \E n \in 0 .. MaxDocuments : \A d \in Document : Written(d) <=> d <= n
    /\ \A d \in Document :
          /\ ~Written(d) => predecessor[d] = None
          /\ kind[d] = "cancellation_invoice" => status[d] = "issued"

LocksInv ==
    \A t, u \in Transaction : t # u => tx[t].locked \cap (tx[u].locked \cup tx[u].shared) = {}

\* What a transaction has read holds still, where it is in the code.
Steps(op) == CASE op = "none"      -> {"start"}
               [] op = "issue"     -> {"predecessor", "fix", "content", "deductions", "number", "write"}
               [] op = "successor" -> {"write"}
               [] op = "cancel"    -> {"checks", "number", "write"}

HasReport(t) == tx[t].report # 0
Shift(t)     == IF HasReport(t) /\ OwnRange(t) = "report" THEN 1 ELSE 0

HoldsRow(t) ==
    LET d == tx[t].doc
        p == predecessor[tx[t].doc] IN
    /\ tx[t].op = "none" => tx[t] = Idle
    /\ tx[t].at \in Steps(tx[t].op)
    /\ \A e \in tx[t].locked : Written(e)
    /\ tx[t].op # "none" => d \in tx[t].locked
    /\ tx[t].op = "issue" =>
          /\ status[d] \in Issuable
          /\ tx[t].at \in {"predecessor", "fix"} => p # None
          /\ tx[t].at = "fix" \/ HasReport(t) => p \in tx[t].locked /\ IsSignedReport(p)
          /\ tx[t].at \in {"deductions", "number", "write"} => tx[t].saw = content[d]
    /\ tx[t].op = "successor" => tx[t].kind # "cancellation_invoice"
    /\ tx[t].op = "cancel" =>
          /\ IsCancellable(kind[d]) /\ status[d] = "issued"
          /\ tx[t].at \in {"number", "write"} => d \notin paid

HoldsNumbers(t) ==
    /\ HasReport(t) => tx[t].op = "issue" /\ tx[t].report = nextValue["report"]
    /\ tx[t].number # 0 <=> tx[t].at = "write" /\ tx[t].op # "successor"
    /\ tx[t].number # 0 => tx[t].number = nextValue[OwnRange(t)] + Shift(t)

HoldsInv == \A t \in Transaction : HoldsRow(t) /\ HoldsNumbers(t)

DrawnInv ==
    /\ \A t, u \in Transaction : \A r \in NumberRange : t # u => Drawn(t, r) = 0 \/ Drawn(u, r) = 0
    /\ \A r \in NumberRange : \A n \in skipped[r] : n < nextValue[r]

HeldInv == LocksInv /\ HoldsInv /\ DrawnInv

\* The numbers of a range, number by number.
Carries(d, r) == Fixed(d) /\ NumberRangeOf(kind[d]) = r

NumbersOf(r) ==
    /\ \A d \in Document : Carries(d, r) => number[d] < nextValue[r] /\ number[d] \notin skipped[r]
    /\ \A n \in 1 .. nextValue[r] - 1 : n \notin skipped[r] =>
          \E d \in Document : Carries(d, r) /\ number[d] = n
    /\ \A d, e \in Document : Carries(d, r) /\ Carries(e, r) /\ number[d] = number[e] => d = e

NumbersInv == \A r \in NumberRange : NumbersOf(r)

\* The cancellations of an invoice, one by one.
Cancels(c, d) == kind[c] = "cancellation_invoice" /\ predecessor[c] = d

CancelsInv ==
    /\ \A d \in Document : status[d] = "cancelled" => \E c \in Document : Cancels(c, d)
    /\ \A c, d \in Document : Cancels(c, d) => status[d] = "cancelled"
    /\ \A c, e, d \in Document : Cancels(c, d) /\ Cancels(e, d) => c = e
    /\ \A d \in paid : status[d] = "issued"

BooksInv == RowsInv /\ NumbersInv /\ SnapshotIsTheDocument /\ ChainDoesNotBranch /\ CancelsInv

IInv == TypeOK /\ BooksInv /\ HeldInv

-----------------------------------------------------------------------------
(* What a transaction holds. *)

LEMMA KindFacts ==
  /\ \A k \in Kind : NumberRangeOf(k) \in NumberRange
  /\ \A k \in Kind : k \in WrittenKinds => k # "cancellation_invoice"
  /\ NumberRangeOf("cancellation_invoice") = "invoice"
  /\ NumberRangeOf("time_and_material_report") = "report"
BY DocumentChainAssumption DEF NumberRangeOf, Kind, NumberRange

\* Nothing is done to what a transaction has locked, nor to a range it has drawn from.
Undisturbed(u) ==
    /\ tx'[u] = tx[u]
    /\ \A d \in tx[u].locked :
          /\ status'[d] = status[d] /\ kind'[d] = kind[d]
          /\ predecessor'[d] = predecessor[d] /\ content'[d] = content[d]
          /\ d \in paid' => d \in paid
    /\ \A r \in NumberRange : Drawn(u, r) # 0 => nextValue'[r] = nextValue[r]

\* What was so where it was left alone is so still.
LEMMA HoldsStill ==
  ASSUME TypeOK, NEW u \in Transaction, HoldsRow(u), HoldsNumbers(u), Undisturbed(u)
  PROVE  /\ HoldsRow(u)' /\ HoldsNumbers(u)'
         /\ \A r \in NumberRange : Drawn(u, r)' = Drawn(u, r)
<1>1. tx[u] \in TxState /\ tx'[u] = tx[u]
  BY DEF TypeOK, FieldsOK, Undisturbed
<1>2. tx[u].op \in {"none", "issue", "successor", "cancel"}
  BY <1>1 DEF TxState
<1>3. CASE tx[u].op = "none"
  <2>1. tx[u] = Idle
    BY <1>3 DEF HoldsRow
  <2> QED
    BY <1>1, <2>1 DEF Idle, HoldsRow, HoldsNumbers, HasReport, Shift, Drawn, Steps
<1>4. CASE tx[u].op # "none"
  <2> DEFINE d == tx[u].doc
             p == predecessor[tx[u].doc]
  <2>1. /\ d \in tx[u].locked
        /\ kind'[d] = kind[d] /\ status'[d] = status[d] /\ content'[d] = content[d]
        /\ predecessor'[d] = p /\ (d \in paid' => d \in paid)
    BY <1>4 DEF HoldsRow, Undisturbed
  <2>2. OwnRange(u)' = OwnRange(u) /\ OwnRange(u) \in NumberRange
    <3>1. d \in Document
      BY <1>1, <2>1 DEF TxState
    <3>2. kind[d] \in Kind /\ "cancellation_invoice" \in Kind
      BY <3>1 DEF TypeOK, FieldsOK, Kind
    <3> QED
      BY <1>1, <2>1, <3>2, KindFacts DEF OwnRange
  <2>3. \A r \in NumberRange : Drawn(u, r)' = Drawn(u, r)
    BY <1>1, <2>2 DEF Drawn
  <2>4. HoldsRow(u)'
    BY <1>1, <1>4, <2>1 DEF HoldsRow, Undisturbed, HasReport, IsSignedReport, Written
  <2>5. HoldsNumbers(u)'
    <3>1. HasReport(u) => nextValue'["report"] = nextValue["report"]
      BY <2>3 DEF Undisturbed, HasReport, Drawn, NumberRange
    <3>2. tx[u].number # 0 => nextValue'[OwnRange(u)] = nextValue[OwnRange(u)]
      BY <2>2 DEF Undisturbed, Drawn
    <3> QED
      BY <1>1, <2>2, <3>1, <3>2 DEF HoldsNumbers, HasReport, Shift
  <2> QED
    BY <2>3, <2>4, <2>5
<1> QED
  BY <1>3, <1>4

\* A step of one transaction that writes nothing yet, and takes what is free.
LEMMA OnlyHolds ==
  ASSUME IInv, NEW t \in Transaction, NEW new \in TxState, To(t, new),
         UNCHANGED <<documents, paid, ranges, bounds>>,
         \A u \in Transaction \ {t} : /\ new.locked \cap (tx[u].locked \cup tx[u].shared) = {}
                                      /\ new.shared \cap tx[u].locked = {},
         HoldsRow(t)', HoldsNumbers(t)',
         \A r \in NumberRange : Drawn(t, r)' # 0 =>
            Drawn(t, r) # 0 \/ \A u \in Transaction \ {t} : Drawn(u, r) = 0
  PROVE  IInv'
<1>1. /\ tx'[t] = new
      /\ \A u \in Transaction \ {t} : tx'[u] = tx[u]
      /\ tx' \in [Transaction -> TxState]
  BY DEF To, IInv, TypeOK, FieldsOK
<1>2. /\ UNCHANGED <<kind, status, predecessor, content, number, snapshot, deductions>>
      /\ UNCHANGED <<paid, nextValue, skipped, edits, payments, skips>>
  BY DEF documents, ranges, bounds
<1>3. TypeOK'
  BY <1>1, <1>2 DEF IInv, TypeOK, FieldsOK
<1>4. BooksInv'
  BY <1>2 DEF IInv, BooksInv, RowsInv, Written, NumbersInv, NumbersOf, Carries, Fixed,
              SnapshotIsTheDocument, ChainDoesNotBranch, CancelsInv, Cancels
<1>5. \A u \in Transaction \ {t} :
         /\ HoldsRow(u)' /\ HoldsNumbers(u)'
         /\ \A r \in NumberRange : Drawn(u, r)' = Drawn(u, r)
  BY <1>1, <1>2, HoldsStill DEF Undisturbed, IInv, HeldInv, HoldsInv
<1>6. HoldsInv'
  BY <1>5 DEF HoldsInv
<1>7. LocksInv'
  BY <1>1 DEF IInv, HeldInv, LocksInv
<1>8. DrawnInv'
  BY <1>2, <1>5 DEF IInv, HeldInv, DrawnInv
<1> QED
  BY <1>3, <1>4, <1>6, <1>7, <1>8 DEF IInv, HeldInv

\* A statement that disturbs nobody, in no transaction of its own.
LEMMA DisturbsNobody ==
  ASSUME IInv, tx' = tx, \A u \in Transaction : Undisturbed(u),
         \A r \in NumberRange : \A n \in skipped'[r] : n < nextValue'[r]
  PROVE  HeldInv'
<1>1. \A u \in Transaction :
         /\ HoldsRow(u)' /\ HoldsNumbers(u)'
         /\ \A r \in NumberRange : Drawn(u, r)' = Drawn(u, r)
  BY HoldsStill DEF IInv, HeldInv, HoldsInv
<1>2. LocksInv'
  BY DEF IInv, HeldInv, LocksInv
<1>3. DrawnInv'
  BY <1>1 DEF IInv, HeldInv, DrawnInv
<1> QED
  BY <1>1, <1>2, <1>3 DEF HeldInv, HoldsInv

\* A transaction that ends lets go of all it holds.
LEMMA LetsGo ==
  ASSUME IInv, NEW t \in Transaction, To(t, Idle),
         \A u \in Transaction \ {t} : Undisturbed(u),
         \A r \in NumberRange : \A n \in skipped'[r] : n < nextValue'[r]
  PROVE  HeldInv'
<1>1. /\ tx'[t] = Idle
      /\ \A u \in Transaction \ {t} : tx'[u] = tx[u]
  BY DEF To, IInv, TypeOK, FieldsOK
<1>2. \A u \in Transaction \ {t} :
         /\ HoldsRow(u)' /\ HoldsNumbers(u)'
         /\ \A r \in NumberRange : Drawn(u, r)' = Drawn(u, r)
  BY HoldsStill DEF IInv, HeldInv, HoldsInv
<1>3. HoldsRow(t)' /\ HoldsNumbers(t)' /\ \A r \in NumberRange : Drawn(t, r)' = 0
  BY <1>1 DEF Idle, HoldsRow, HoldsNumbers, HasReport, Shift, Drawn, Steps
<1>4. LocksInv'
  BY <1>1 DEF IInv, HeldInv, LocksInv, Idle
<1>5. DrawnInv'
  BY <1>2, <1>3 DEF IInv, HeldInv, DrawnInv
<1> QED
  BY <1>2, <1>3, <1>4, <1>5 DEF HeldInv, HoldsInv

-----------------------------------------------------------------------------
(* The steps that write nothing yet. *)

\* What is known of a transaction.
LEMMA Holds ==
  ASSUME IInv, NEW t \in Transaction
  PROVE  /\ tx[t] \in TxState /\ HoldsRow(t) /\ HoldsNumbers(t)
         /\ kind \in [Document -> Kind] /\ status \in [Document -> Status]
         /\ predecessor \in [Document -> Document \cup {None}]
         /\ content \in [Document -> Nat] /\ snapshot \in [Document -> Nat]
         /\ nextValue \in [NumberRange -> Nat \ {0}]
         /\ Document \subseteq Nat /\ None \notin Document
         /\ \A new \in TxState : To(t, new) => tx'[t] = new
BY DEF IInv, TypeOK, FieldsOK, HeldInv, HoldsInv, Document, None, To

LEMMA NextRollBack ==
  ASSUME IInv, NEW t \in Transaction, RollBack(t)
  PROVE  IInv'
<1>1. Idle \in TxState
  BY DEF Idle, TxState, None, Kind
<1>2. tx'[t] = Idle
  BY <1>1, Holds DEF RollBack
<1>3. HoldsRow(t)' /\ HoldsNumbers(t)' /\ \A r \in NumberRange : Drawn(t, r)' = 0
  BY <1>2 DEF Idle, HoldsRow, HoldsNumbers, HasReport, Shift, Drawn, Steps
<1>4. \A u \in Transaction \ {t} :
         /\ Idle.locked \cap (tx[u].locked \cup tx[u].shared) = {}
         /\ Idle.shared \cap tx[u].locked = {}
  BY DEF Idle
<1> QED
  BY <1>1, <1>3, <1>4, OnlyHolds DEF RollBack

\* A transaction that begins locks one row that is nobody's and is written.
LEMMA Begins ==
  ASSUME IInv, NEW t \in Transaction, NEW d \in Document, NEW new \in TxState, To(t, new),
         new.op # "none", new.doc = d, new.locked = {d}, new.shared = {},
         new.report = 0, new.number = 0, new.at \in Steps(new.op),
         Written(d), Unlocked(t, d), UNCHANGED <<documents, paid, ranges, bounds>>,
         new.op = "issue" =>
            /\ status[d] \in Issuable
            /\ new.at = "content" \/ (new.at = "predecessor" /\ predecessor[d] # None),
         new.op = "successor" => new.kind # "cancellation_invoice",
         new.op = "cancel" => IsCancellable(kind[d]) /\ status[d] = "issued" /\ new.at = "checks"
  PROVE  IInv'
<1>1. tx'[t] = new
  BY Holds
<1>2. /\ kind' = kind /\ status' = status /\ predecessor' = predecessor /\ paid' = paid
  BY DEF documents
<1>3. new.op \in {"issue", "successor", "cancel"}
  BY DEF TxState
<1>4. HoldsRow(t)'
  BY <1>1, <1>2, <1>3 DEF HoldsRow, HasReport, Written, Steps
<1>5. HoldsNumbers(t)'
  BY <1>1, <1>3 DEF HoldsNumbers, HasReport, Steps
<1>6. \A r \in NumberRange : Drawn(t, r)' = 0
  BY <1>1 DEF Drawn
<1>7. \A u \in Transaction \ {t} :
         /\ new.locked \cap (tx[u].locked \cup tx[u].shared) = {}
         /\ new.shared \cap tx[u].locked = {}
  BY DEF Unlocked
<1> QED
  BY <1>4, <1>5, <1>6, <1>7, OnlyHolds

LEMMA NextLockForIssue ==
  ASSUME IInv, NEW t \in Transaction, NEW d \in Document, LockForIssue(t, d)
  PROVE  IInv'
<1> DEFINE at  == IF predecessor[d] = None THEN "content" ELSE "predecessor"
           new == [Idle EXCEPT !.op = "issue", !.doc = d, !.locked = {d}, !.at = at]
<1>1. at \in {"content", "predecessor"} /\ (at = "predecessor" => predecessor[d] # None)
  OBVIOUS
<1>2. To(t, new) /\ Unlocked(t, d) /\ status[d] \in Issuable
  BY DEF LockForIssue
<1> HIDE DEF at
<1>3. /\ new \in TxState /\ new.op = "issue" /\ new.doc = d /\ new.locked = {d}
      /\ new.shared = {} /\ new.report = 0 /\ new.number = 0 /\ new.at = at
  BY <1>1 DEF Idle, TxState, Kind
<1> HIDE DEF new
<1>4. Written(d) /\ at \in Steps("issue")
  BY <1>1, <1>2 DEF Steps, Written, Issuable
<1> QED
  BY <1>1, <1>2, <1>3, <1>4, Begins DEF LockForIssue

LEMMA NextLockForSuccessor ==
  ASSUME IInv, NEW t \in Transaction, NEW d \in Document, NEW k \in Kind, LockForSuccessor(t, d, k)
  PROVE  IInv'
<1> DEFINE new == [Idle EXCEPT !.op = "successor", !.doc = d, !.kind = k, !.locked = {d},
                               !.at = "write"]
<1>1. To(t, new) /\ Unlocked(t, d)
  BY DEF LockForSuccessor
<1>2. /\ new \in TxState /\ new.op = "successor" /\ new.doc = d /\ new.kind = k
      /\ new.locked = {d} /\ new.shared = {} /\ new.report = 0 /\ new.number = 0
      /\ new.at = "write"
  BY DEF Idle, TxState
<1> HIDE DEF new
<1>3. k # "cancellation_invoice" /\ Written(d) /\ "write" \in Steps("successor")
  BY DEF LockForSuccessor, SuccessorsOf, Written, IsSignedReport, Steps
<1> QED
  BY <1>1, <1>2, <1>3, Begins DEF LockForSuccessor

LEMMA NextLockForCancel ==
  ASSUME IInv, NEW t \in Transaction, NEW d \in Document, LockForCancel(t, d)
  PROVE  IInv'
<1> DEFINE new == [Idle EXCEPT !.op = "cancel", !.doc = d, !.locked = {d}, !.at = "checks"]
<1>1. To(t, new) /\ Unlocked(t, d)
  BY DEF LockForCancel
<1>2. /\ new \in TxState /\ new.op = "cancel" /\ new.doc = d /\ new.locked = {d}
      /\ new.shared = {} /\ new.report = 0 /\ new.number = 0 /\ new.at = "checks"
  BY DEF Idle, TxState, Kind
<1> HIDE DEF new
<1>3. Written(d) /\ "checks" \in Steps("cancel")
  BY DEF LockForCancel, Written, Steps
<1> QED
  BY <1>1, <1>2, <1>3, Begins DEF LockForCancel

\* A transaction that goes on without drawing a number takes rows that are free
\* and finds in them what it goes on with.
LEMMA GoesOn ==
  ASSUME IInv, NEW t \in Transaction, NEW new \in TxState, To(t, new),
         tx[t].locked \subseteq new.locked,
         \A d \in new.locked : d \in tx[t].locked \/ (Unlocked(t, d) /\ Written(d)),
         \A d \in new.shared : d \in tx[t].shared \/ Sharable(t, d),
         UNCHANGED <<documents, paid, ranges, bounds>>,
         tx[t].op \in {"issue", "cancel"}, tx[t].number = 0,
         new.op = tx[t].op, new.doc = tx[t].doc, new.report = tx[t].report, new.number = 0,
         new.at \in Steps(new.op), new.at # "write",
         new.op = "issue" =>
            /\ new.at # "predecessor"
            /\ new.at = "fix" =>
                  /\ predecessor[new.doc] # None
                  /\ predecessor[new.doc] \in new.locked /\ IsSignedReport(predecessor[new.doc])
            /\ new.at \in {"deductions", "number"} => new.saw = content[new.doc],
         new.op = "cancel" => (new.at = "number" => new.doc \notin paid)
  PROVE  IInv'
<1>1. tx'[t] = new
  BY Holds
<1>2. UNCHANGED <<kind, status, predecessor, content, paid, nextValue>>
  BY DEF documents, ranges
<1>3. HoldsRow(t) /\ HoldsNumbers(t)
  BY Holds
<1>4. HoldsRow(t)'
  BY <1>1, <1>2, <1>3 DEF HoldsRow, HasReport, IsSignedReport, Written
<1>5. HoldsNumbers(t)'
  BY <1>1, <1>2, <1>3 DEF HoldsNumbers, HasReport
<1>6. \A r \in NumberRange : Drawn(t, r)' = Drawn(t, r)
  BY <1>1 DEF Drawn
<1>7. \A u \in Transaction \ {t} :
         /\ new.locked \cap (tx[u].locked \cup tx[u].shared) = {}
         /\ new.shared \cap tx[u].locked = {}
  BY DEF IInv, HeldInv, LocksInv, Unlocked, Sharable
<1> QED
  BY <1>4, <1>5, <1>6, <1>7, OnlyHolds

LEMMA NextLockPredecessor ==
  ASSUME IInv, NEW t \in Transaction, LockPredecessor(t)
  PROVE  IInv'
<1> DEFINE d  == tx[t].doc
           p  == predecessor[d]
           at == IF IsSignedReport(p) THEN "fix" ELSE "content"
           new == [tx[t] EXCEPT !.locked = @ \cup {p}, !.at = at]
<1>1. tx[t] \in TxState /\ HoldsRow(t) /\ HoldsNumbers(t)
  BY Holds
<1>2. /\ tx[t].at = "predecessor" /\ Unlocked(t, p) /\ To(t, new)
      /\ UNCHANGED <<documents, paid, ranges, bounds>>
  BY DEF LockPredecessor, Goes
<1>3. tx[t].op = "issue" /\ tx[t].number = 0
  BY <1>1, <1>2 DEF HoldsRow, HoldsNumbers, Steps, TxState
<1>4. p # None /\ d \in Document /\ Written(d)
  BY <1>1, <1>2, <1>3 DEF HoldsRow, TxState
<1>5. p \in Document /\ Written(p)
  <2>1. p \in Document /\ p < d
    BY <1>4, Holds DEF IInv, TypeOK
  <2> QED
    BY <1>4, <2>1 DEF IInv, BooksInv, RowsInv, Document
<1>6. at \in {"fix", "content"} /\ (at = "fix" => IsSignedReport(p))
  OBVIOUS
<1> HIDE DEF at
<1>7. /\ new \in TxState /\ new.op = tx[t].op /\ new.doc = d /\ new.at = at
      /\ new.locked = tx[t].locked \cup {p} /\ new.shared = tx[t].shared
      /\ new.report = tx[t].report /\ new.number = 0
  BY <1>1, <1>3, <1>5, <1>6 DEF TxState
<1> HIDE DEF new
<1>8. at \in Steps("issue")
  BY <1>6 DEF Steps
<1> HIDE DEF p
<1>9. predecessor[new.doc] = p
  BY <1>7 DEF p
<1> QED
  BY <1>2, <1>3, <1>4, <1>5, <1>6, <1>7, <1>8, <1>9, GoesOn

LEMMA NextReadContent ==
  ASSUME IInv, NEW t \in Transaction, ReadContent(t)
  PROVE  IInv'
<1> DEFINE d    == tx[t].doc
           next == IF Deducts(kind[d]) THEN predecessor[d] ELSE None
           new  == [tx[t] EXCEPT !.saw = content[d], !.at = "deductions", !.next = next]
<1>1. tx[t] \in TxState /\ HoldsRow(t) /\ HoldsNumbers(t)
  BY Holds
<1>2. /\ tx[t].at = "content" /\ To(t, new)
      /\ UNCHANGED <<documents, paid, ranges, bounds>>
  BY DEF ReadContent, Goes
<1>3. tx[t].op = "issue" /\ tx[t].number = 0
  BY <1>1, <1>2 DEF HoldsRow, HoldsNumbers, Steps, TxState
<1>4. d \in Document
  BY <1>1, <1>3 DEF HoldsRow, TxState
<1>5. next \in Document \cup {None} /\ content[d] \in Nat
  BY <1>4, Holds
<1> HIDE DEF next
<1>6. /\ new \in TxState /\ new.op = tx[t].op /\ new.doc = d /\ new.at = "deductions"
      /\ new.saw = content[d]
      /\ new.locked = tx[t].locked /\ new.shared = tx[t].shared
      /\ new.report = tx[t].report /\ new.number = 0
  BY <1>1, <1>3, <1>5 DEF TxState
<1> HIDE DEF new
<1>7. "deductions" \in Steps("issue")
  BY DEF Steps
<1> QED
  BY <1>2, <1>3, <1>6, <1>7, GoesOn

LEMMA NextDeductionsFor ==
  ASSUME IInv, NEW t \in Transaction, DeductionsFor(t)
  PROVE  IInv'
<1> DEFINE d == tx[t].next
<1>1. tx[t] \in TxState /\ HoldsRow(t) /\ HoldsNumbers(t)
  BY Holds
<1>2. tx[t].at = "deductions" /\ UNCHANGED <<documents, paid, ranges, bounds>>
  BY DEF DeductionsFor, Goes
<1>3. tx[t].op = "issue" /\ tx[t].number = 0
  BY <1>1, <1>2 DEF HoldsRow, HoldsNumbers, Steps, TxState
<1>4. tx[t].saw = content[tx[t].doc]
  BY <1>1, <1>2, <1>3 DEF HoldsRow
<1>5. "deductions" \in Steps("issue") /\ "number" \in Steps("issue")
  BY DEF Steps
<1>6. CASE d # None
  <2> DEFINE found == IF kind[d] = "progress_invoice" /\ status[d] = "issued"
                      THEN tx[t].found \cup {d} ELSE tx[t].found
             new   == [tx[t] EXCEPT !.shared = @ \cup {d}, !.found = found,
                                    !.next = predecessor[d]]
  <2>1. d \in Document /\ Sharable(t, d) /\ To(t, new)
    BY <1>1, <1>6 DEF TxState, DeductionsFor
  <2>2. found \in SUBSET Document /\ predecessor[d] \in Document \cup {None}
    BY <1>1, <2>1, Holds DEF TxState
  <2> HIDE DEF found
  <2>3. /\ new \in TxState /\ new.op = tx[t].op /\ new.doc = tx[t].doc /\ new.at = "deductions"
        /\ new.saw = tx[t].saw
        /\ new.locked = tx[t].locked /\ new.shared = tx[t].shared \cup {d}
        /\ new.report = tx[t].report /\ new.number = 0
    BY <1>1, <1>2, <1>3, <2>1, <2>2 DEF TxState
  <2> HIDE DEF new
  <2> HIDE DEF d
  <2> QED
    BY <1>2, <1>3, <1>4, <1>5, <2>1, <2>3, GoesOn
<1>7. CASE d = None
  <2> DEFINE new == [tx[t] EXCEPT !.at = "number"]
  <2>1. To(t, new)
    BY <1>7 DEF DeductionsFor
  <2>2. /\ new \in TxState /\ new.op = tx[t].op /\ new.doc = tx[t].doc /\ new.at = "number"
        /\ new.saw = tx[t].saw
        /\ new.locked = tx[t].locked /\ new.shared = tx[t].shared
        /\ new.report = tx[t].report /\ new.number = 0
    BY <1>1, <1>3 DEF TxState
  <2> HIDE DEF new
  <2> QED
    BY <1>2, <1>3, <1>4, <1>5, <2>1, <2>2, GoesOn
<1> QED
  BY <1>6, <1>7

LEMMA NextCheckCancellation ==
  ASSUME IInv, NEW t \in Transaction, CheckCancellation(t)
  PROVE  IInv'
<1> DEFINE d   == tx[t].doc
           new == [tx[t] EXCEPT !.saw = snapshot[d], !.at = "number"]
<1>1. tx[t] \in TxState /\ HoldsRow(t) /\ HoldsNumbers(t)
  BY Holds
<1>2. /\ tx[t].at = "checks" /\ To(t, new) /\ d \notin paid
      /\ UNCHANGED <<documents, paid, ranges, bounds>>
  BY DEF CheckCancellation, Goes
<1>3. tx[t].op = "cancel" /\ tx[t].number = 0
  BY <1>1, <1>2 DEF HoldsRow, HoldsNumbers, Steps, TxState
<1>4. snapshot[d] \in Nat
  BY <1>1, <1>3, Holds DEF HoldsRow, TxState
<1>5. /\ new \in TxState /\ new.op = tx[t].op /\ new.doc = d /\ new.at = "number"
      /\ new.locked = tx[t].locked /\ new.shared = tx[t].shared
      /\ new.report = tx[t].report /\ new.number = 0
  BY <1>1, <1>3, <1>4 DEF TxState
<1> HIDE DEF new
<1>6. "number" \in Steps("cancel")
  BY DEF Steps
<1> QED
  BY <1>2, <1>3, <1>5, <1>6, GoesOn

\* The row of a range is drawn from by one transaction at a time.
LEMMA NextFixDocument ==
  ASSUME IInv, NEW t \in Transaction, FixDocument(t)
  PROVE  IInv'
<1> DEFINE d   == tx[t].doc
           new == [tx[t] EXCEPT !.report = nextValue["report"], !.at = "content"]
<1>1. tx[t] \in TxState /\ HoldsRow(t) /\ HoldsNumbers(t)
  BY Holds
<1>2. /\ tx[t].at = "fix" /\ To(t, new) /\ \A u \in Transaction \ {t} : Drawn(u, "report") = 0
      /\ UNCHANGED <<documents, paid, ranges, bounds>>
  BY DEF FixDocument, Draws, Goes
<1>3. tx[t].op = "issue" /\ tx[t].number = 0
  BY <1>1, <1>2 DEF HoldsRow, HoldsNumbers, Steps, TxState
<1>4. "report" \in NumberRange /\ nextValue["report"] \in Nat \ {0}
  BY Holds DEF NumberRange
<1>5. /\ new \in TxState /\ new.op = tx[t].op /\ new.doc = d /\ new.at = "content"
      /\ new.locked = tx[t].locked /\ new.shared = tx[t].shared
      /\ new.report = nextValue["report"] /\ new.number = 0
  BY <1>1, <1>3, <1>4 DEF TxState
<1> HIDE DEF new
<1>6. tx'[t] = new
  BY <1>2, <1>5, Holds
<1>7. UNCHANGED <<kind, status, predecessor, content, paid, nextValue>>
  BY <1>2 DEF documents, ranges
<1>8. HoldsRow(t)'
  BY <1>1, <1>2, <1>3, <1>5, <1>6, <1>7 DEF HoldsRow, HasReport, IsSignedReport, Written, Steps
<1>9. HoldsNumbers(t)'
  BY <1>3, <1>5, <1>6, <1>7 DEF HoldsNumbers, HasReport
<1>10. \A r \in NumberRange : Drawn(t, r)' # 0 => r = "report"
  BY <1>5, <1>6 DEF Drawn
<1>11. \A u \in Transaction \ {t} :
         /\ new.locked \cap (tx[u].locked \cup tx[u].shared) = {}
         /\ new.shared \cap tx[u].locked = {}
  BY <1>5 DEF IInv, HeldInv, LocksInv
<1> QED
  BY <1>2, <1>5, <1>8, <1>9, <1>10, <1>11, OnlyHolds

LEMMA NextDrawNumber ==
  ASSUME IInv, NEW t \in Transaction, DrawNumber(t)
  PROVE  IInv'
<1> DEFINE d     == tx[t].doc
           r     == OwnRange(t)
           value == nextValue[r] + Drawn(t, r)
           new   == [tx[t] EXCEPT !.number = value, !.at = "write"]
<1>1. tx[t] \in TxState /\ HoldsRow(t) /\ HoldsNumbers(t)
  BY Holds
<1>2. /\ tx[t].at = "number" /\ To(t, new) /\ \A u \in Transaction \ {t} : Drawn(u, r) = 0
      /\ UNCHANGED <<documents, paid, ranges, bounds>>
  BY DEF DrawNumber, Draws, Goes
<1>3. tx[t].op \in {"issue", "cancel"} /\ tx[t].number = 0
  BY <1>1, <1>2 DEF HoldsRow, HoldsNumbers, Steps, TxState
<1>4. d \in Document
  BY <1>1, <1>3 DEF HoldsRow, TxState
<1>5. r \in NumberRange
  BY <1>4, Holds, KindFacts DEF OwnRange, Kind
<1>6. value = nextValue[r] + Shift(t) /\ value \in Nat \ {0}
  <2>1. Drawn(t, r) = Shift(t)
    BY <1>3 DEF Drawn, Shift, HasReport
  <2>2. nextValue[r] \in Nat \ {0} /\ Shift(t) \in Nat
    BY <1>5, Holds DEF Shift
  <2> QED
    BY <2>1, <2>2
<1> HIDE DEF value
<1>7. /\ new \in TxState /\ new.op = tx[t].op /\ new.doc = d /\ new.at = "write"
      /\ new.saw = tx[t].saw
      /\ new.locked = tx[t].locked /\ new.shared = tx[t].shared
      /\ new.report = tx[t].report /\ new.number = value
  BY <1>1, <1>6 DEF TxState
<1> HIDE DEF new
<1>8. tx'[t] = new
  BY <1>2, <1>7, Holds
<1>9. UNCHANGED <<kind, status, predecessor, content, paid, nextValue>>
  BY <1>2 DEF documents, ranges
<1>10. HoldsRow(t)'
  BY <1>1, <1>2, <1>3, <1>7, <1>8, <1>9 DEF HoldsRow, HasReport, IsSignedReport, Written, Steps
<1>11. OwnRange(t)' = r /\ Shift(t)' = Shift(t)
  BY <1>7, <1>8, <1>9 DEF OwnRange, Shift, HasReport
<1>12. HoldsNumbers(t)'
  BY <1>1, <1>3, <1>6, <1>7, <1>8, <1>9, <1>11 DEF HoldsNumbers, HasReport
<1>13. \A s \in NumberRange : Drawn(t, s)' # 0 => Drawn(t, s) # 0 \/ s = r
  BY <1>7, <1>8, <1>11 DEF Drawn
<1>14. \A u \in Transaction \ {t} :
         /\ new.locked \cap (tx[u].locked \cup tx[u].shared) = {}
         /\ new.shared \cap tx[u].locked = {}
  BY <1>7 DEF IInv, HeldInv, LocksInv
<1> QED
  BY <1>2, <1>7, <1>10, <1>12, <1>13, <1>14, OnlyHolds

-----------------------------------------------------------------------------
(* The statements of somebody who holds nothing. *)

\* The next row is the first that is not written, and nobody holds it.
LEMMA NewRow ==
  ASSUME IInv, New \in Document
  PROVE  /\ New \in Nat \ {0} /\ ~Written(New)
         /\ \A d \in Document : Written(d) <=> d < New
         /\ \A u \in Transaction : New \notin tx[u].locked
<1>1. PICK n \in 0 .. MaxDocuments : \A d \in Document : Written(d) <=> d <= n
  BY DEF IInv, BooksInv, RowsInv
<1>2. MaxDocuments \in Nat /\ n \in Nat
  BY DocumentChainAssumption
<1>3. {d \in Document : status[d] # "unwritten"} = 1 .. n
  BY <1>1, <1>2 DEF Written, Document
<1>4. Cardinality(1 .. n) = n
  BY <1>2, FS_Interval
<1>5. New = n + 1
  BY <1>3, <1>4 DEF New
<1>6. ~Written(New) /\ \A d \in Document : Written(d) <=> d < New
  BY <1>1, <1>2, <1>5 DEF Document
<1> QED
  BY <1>2, <1>5, <1>6 DEF IInv, HeldInv, HoldsInv, HoldsRow

\* A draft written, for itself or out of the last link of a chain.
LEMMA WritesDraft ==
  ASSUME IInv, New \in Document, NEW k \in Kind, k # "cancellation_invoice",
         NEW p \in Document \cup {None}, p # None => Written(p),
         \A later \in Document : predecessor[later] = p /\ p # None => ~ContinuesChain(later),
         Writes(New, k, p), UNCHANGED <<number, snapshot, deductions, paid, ranges, bounds>>,
         tx' \in [Transaction -> TxState]
  PROVE  /\ TypeOK' /\ BooksInv'
         /\ \A r \in NumberRange : \A n \in skipped'[r] : n < nextValue'[r]
         /\ \A u \in Transaction : tx'[u] = tx[u] => Undisturbed(u)
<1> DEFINE n == New
<1>1. /\ n \in Document /\ n \in Nat \ {0} /\ ~Written(n) /\ \A d \in Document : Written(d) <=> d < n
      /\ \A u \in Transaction : n \notin tx[u].locked
  BY NewRow
<1> HIDE DEF n
<1>2. TypeOK /\ FieldsOK /\ BooksInv
  BY DEF IInv, TypeOK
<1>3. /\ status' = [status EXCEPT ![n] = "draft"] /\ kind' = [kind EXCEPT ![n] = k]
      /\ predecessor' = [predecessor EXCEPT ![n] = p] /\ content' = [content EXCEPT ![n] = 1]
      /\ UNCHANGED <<number, snapshot, deductions, paid, nextValue, skipped, edits, payments, skips>>
  BY DEF Writes, n, ranges, bounds
<1>4. /\ status'[n] = "draft" /\ kind'[n] = k /\ predecessor'[n] = p
      /\ \A d \in Document \ {n} : /\ status'[d] = status[d] /\ kind'[d] = kind[d]
                                   /\ predecessor'[d] = predecessor[d] /\ content'[d] = content[d]
  BY <1>1, <1>2, <1>3 DEF FieldsOK
<1>5. FieldsOK'
  BY <1>1, <1>2, <1>3 DEF FieldsOK, Status
<1>6. TypeOK'
  <2>1. p < n
    BY <1>1 DEF None, Document
  <2> QED
    BY <1>1, <1>2, <1>3, <1>4, <1>5, <2>1 DEF TypeOK, Written
<1>7. RowsInv'
  <2>1. n \in 0 .. MaxDocuments /\ \A d \in Document : Written(d)' <=> d <= n
    BY <1>1, <1>4 DEF Written, Document
  <2>2. \A d \in Document : /\ ~Written(d)' => predecessor'[d] = None
                            /\ kind'[d] = "cancellation_invoice" => status'[d] = "issued"
    BY <1>2, <1>4 DEF BooksInv, RowsInv, Written
  <2> QED
    BY <2>1, <2>2 DEF RowsInv
<1>8. \A d \in Document : /\ Fixed(d)' <=> Fixed(d)
                          /\ Fixed(d) => d # n
  BY <1>1, <1>4 DEF Fixed, Written
<1>9. NumbersInv'
  <2>1. \A d \in Document : \A r \in NumberRange : Carries(d, r)' <=> Carries(d, r)
    BY <1>4, <1>8 DEF Carries
  <2> QED
    BY <1>2, <1>3, <2>1 DEF BooksInv, NumbersInv, NumbersOf
<1>10. SnapshotIsTheDocument'
  BY <1>2, <1>3, <1>4, <1>8 DEF BooksInv, SnapshotIsTheDocument
<1>11. ChainDoesNotBranch'
  <2>1. \A e \in Document \ {n} :
          ~(/\ p # None /\ predecessor[e] = p
            /\ kind[e] # "cancellation_invoice" /\ status[e] \notin {"cancelled", "deleted"})
    BY <1>2 DEF FieldsOK, Status, BooksInv, RowsInv, Written, ContinuesChain
  <2> QED
    BY <1>2, <1>4, <2>1 DEF BooksInv, ChainDoesNotBranch
<1>12. CancelsInv'
  <2>1. \A c, d \in Document : Cancels(c, d)' <=> Cancels(c, d)
    BY <1>1, <1>2, <1>4 DEF Cancels, BooksInv, RowsInv, Written
  <2>2. \A d \in Document : /\ status'[d] = "cancelled" <=> status[d] = "cancelled"
                            /\ status[d] = "issued" => status'[d] = "issued"
    BY <1>1, <1>4 DEF Written
  <2> QED
    BY <1>2, <1>3, <2>1, <2>2 DEF BooksInv, CancelsInv, FieldsOK
<1>13. \A u \in Transaction : tx'[u] = tx[u] => Undisturbed(u)
  <2>1. \A u \in Transaction : tx[u].locked \subseteq Document
    BY <1>2 DEF FieldsOK, TxState
  <2> QED
    BY <1>1, <1>3, <1>4, <2>1 DEF Undisturbed
<1> QED
  BY <1>3, <1>6, <1>7, <1>9, <1>10, <1>11, <1>12, <1>13 DEF BooksInv, IInv, HeldInv, DrawnInv

LEMMA NextCreate ==
  ASSUME IInv, NEW k \in WrittenKinds, Create(k)
  PROVE  IInv'
<1>1. k \in Kind /\ k # "cancellation_invoice"
  BY DocumentChainAssumption
<1>2. tx' = tx /\ tx' \in [Transaction -> TxState]
  BY DEF Create, IInv, TypeOK, FieldsOK
<1>3. /\ TypeOK' /\ BooksInv'
      /\ \A r \in NumberRange : \A n \in skipped'[r] : n < nextValue'[r]
      /\ \A u \in Transaction : Undisturbed(u)
  BY <1>1, <1>2, WritesDraft DEF Create
<1> QED
  BY <1>2, <1>3, DisturbsNobody DEF IInv

\* A statement on a draft nobody holds leaves the documents in the books alone.
LEMMA OnADraft ==
  ASSUME IInv, NEW d \in Document, status[d] = "draft",
         NEW s \in {"draft", "signed", "deleted"}, NEW k \in Kind, k # "cancellation_invoice",
         NEW v \in Nat,
         \/ \A u \in Transaction : d \notin tx[u].locked
         \/ Free(d),
         status' = [status EXCEPT ![d] = s], kind' = [kind EXCEPT ![d] = k],
         content' = [content EXCEPT ![d] = v],
         edits' \in 0 .. MaxEdits,
         UNCHANGED <<predecessor, number, snapshot, deductions, paid, ranges, tx, payments, skips>>
  PROVE  IInv'
<1>1. TypeOK /\ FieldsOK /\ BooksInv
  BY DEF IInv, TypeOK
<1>2. /\ UNCHANGED <<nextValue, skipped>>
      /\ \A u \in Transaction : d \notin tx[u].locked
  BY DEF ranges, Free
<1>3. /\ status'[d] = s /\ kind'[d] = k
      /\ \A e \in Document \ {d} : /\ status'[e] = status[e] /\ kind'[e] = kind[e]
                                   /\ content'[e] = content[e]
  BY <1>1 DEF FieldsOK
<1>4. FieldsOK'
  BY <1>1, <1>2 DEF FieldsOK, Status
<1>5. TypeOK'
  BY <1>1, <1>3, <1>4 DEF TypeOK
<1>6. \A e \in Document : Written(e)' <=> Written(e)
  BY <1>3 DEF Written
<1>7. kind[d] # "cancellation_invoice"
  BY <1>1 DEF BooksInv, RowsInv
<1>8. RowsInv'
  <2>1. \A e \in Document : kind'[e] = "cancellation_invoice" => status'[e] = "issued"
    BY <1>1, <1>3 DEF BooksInv, RowsInv
  <2> QED
    BY <1>1, <1>6, <2>1 DEF BooksInv, RowsInv
<1>9. \A e \in Document : /\ Fixed(e)' <=> Fixed(e)
                          /\ Fixed(e) => e # d
  BY <1>3 DEF Fixed
<1>10. NumbersInv'
  <2>1. \A e \in Document : \A r \in NumberRange : Carries(e, r)' <=> Carries(e, r)
    BY <1>3, <1>9 DEF Carries
  <2> QED
    BY <1>1, <1>2, <2>1 DEF BooksInv, NumbersInv, NumbersOf
<1>11. SnapshotIsTheDocument'
  BY <1>1, <1>3, <1>9 DEF BooksInv, SnapshotIsTheDocument
<1>12. ChainDoesNotBranch'
  BY <1>1, <1>3, <1>7 DEF BooksInv, ChainDoesNotBranch
<1>13. CancelsInv'
  <2>1. \A c, e \in Document : Cancels(c, e)' <=> Cancels(c, e)
    BY <1>3, <1>7 DEF Cancels
  <2>2. \A e \in Document : /\ status'[e] = "cancelled" <=> status[e] = "cancelled"
                            /\ status[e] = "issued" => status'[e] = "issued"
    BY <1>3
  <2> QED
    BY <1>1, <2>1, <2>2 DEF BooksInv, CancelsInv, FieldsOK
<1>14. \A u \in Transaction : Undisturbed(u)
  <2>1. \A u \in Transaction : tx[u].locked \subseteq Document
    BY <1>1 DEF FieldsOK, TxState
  <2> QED
    BY <1>2, <1>3, <2>1 DEF Undisturbed
<1>15. \A r \in NumberRange : \A n \in skipped'[r] : n < nextValue'[r]
  BY <1>2 DEF IInv, HeldInv, DrawnInv
<1>16. HeldInv'
  BY <1>14, <1>15, DisturbsNobody
<1> QED
  BY <1>5, <1>8, <1>10, <1>11, <1>12, <1>13, <1>16 DEF BooksInv, IInv

\* A draft is no cancellation.
LEMMA OfADraft ==
  ASSUME IInv, NEW d \in Document, status[d] = "draft"
  PROVE  /\ kind[d] \in Kind /\ kind[d] # "cancellation_invoice"
         /\ content[d] \in Nat /\ content[d] + 1 \in Nat
         /\ status = [status EXCEPT ![d] = "draft"] /\ kind = [kind EXCEPT ![d] = kind[d]]
         /\ content = [content EXCEPT ![d] = content[d]]
         /\ edits < MaxEdits => edits + 1 \in 0 .. MaxEdits
         /\ edits \in 0 .. MaxEdits
<1>1. FieldsOK /\ RowsInv /\ MaxEdits \in Nat
  BY DocumentChainAssumption DEF IInv, TypeOK, BooksInv
<1>2. /\ kind[d] \in Kind /\ content[d] \in Nat
      /\ kind = [kind EXCEPT ![d] = kind[d]] /\ content = [content EXCEPT ![d] = content[d]]
      /\ status = [status EXCEPT ![d] = "draft"]
  BY <1>1 DEF FieldsOK
<1>3. kind[d] # "cancellation_invoice"
  BY <1>1 DEF RowsInv
<1>4. edits \in 0 .. MaxEdits /\ (edits < MaxEdits => edits + 1 \in 0 .. MaxEdits)
  BY <1>1 DEF FieldsOK
<1> QED
  BY <1>2, <1>3, <1>4

LEMMA NextWriteLine ==
  ASSUME IInv, NEW d \in Document, WriteLine(d)
  PROVE  IInv'
BY OfADraft, OnADraft DEF WriteLine

LEMMA NextUpdate ==
  ASSUME IInv, NEW d \in Document, NEW k \in WrittenKinds, Update(d, k)
  PROVE  IInv'
<1>1. k \in Kind /\ k # "cancellation_invoice"
  BY DocumentChainAssumption
<1> QED
  BY <1>1, OfADraft, OnADraft DEF Update

LEMMA NextRemove ==
  ASSUME IInv, NEW d \in Document, Remove(d)
  PROVE  IInv'
<1>1. /\ status[d] = "draft" /\ Free(d) /\ status' = [status EXCEPT ![d] = "deleted"]
      /\ kind' = kind /\ content' = content /\ edits' = edits
      /\ UNCHANGED <<predecessor, number, snapshot, deductions, paid, ranges, tx, payments, skips>>
  BY DEF Remove, bounds
<1>2. /\ kind[d] \in Kind /\ kind[d] # "cancellation_invoice" /\ content[d] \in Nat
      /\ kind' = [kind EXCEPT ![d] = kind[d]] /\ content' = [content EXCEPT ![d] = content[d]]
      /\ edits' \in 0 .. MaxEdits
  BY <1>1, OfADraft
<1> QED
  BY <1>1, <1>2, OnADraft

LEMMA NextSign ==
  ASSUME IInv, NEW d \in Document, Sign(d)
  PROVE  IInv'
<1>1. /\ status[d] = "draft" /\ Free(d) /\ status' = [status EXCEPT ![d] = "signed"]
      /\ kind' = kind /\ content' = content /\ edits' = edits
      /\ UNCHANGED <<predecessor, number, snapshot, deductions, paid, ranges, tx, payments, skips>>
  BY DEF Sign, bounds
<1>2. /\ kind[d] \in Kind /\ kind[d] # "cancellation_invoice" /\ content[d] \in Nat
      /\ kind' = [kind EXCEPT ![d] = kind[d]] /\ content' = [content EXCEPT ![d] = content[d]]
      /\ edits' \in 0 .. MaxEdits
  BY <1>1, OfADraft
<1> QED
  BY <1>1, <1>2, OnADraft

\* What only touches the payments and the ranges leaves the books alone.
LEMMA BesideTheBooks ==
  ASSUME IInv, UNCHANGED <<documents, tx>>, TypeOK', NumbersInv',
         \A d \in paid' : d \in paid \/ (status[d] = "issued" /\ Free(d)),
         \A r \in NumberRange : \A n \in skipped'[r] : n < nextValue'[r],
         \A r \in NumberRange :
            nextValue'[r] = nextValue[r] \/ \A u \in Transaction : Drawn(u, r) = 0
  PROVE  IInv'
<1>1. UNCHANGED <<kind, status, predecessor, content, number, snapshot, deductions>>
  BY DEF documents
<1>2. RowsInv' /\ SnapshotIsTheDocument' /\ ChainDoesNotBranch'
  BY <1>1 DEF IInv, BooksInv, RowsInv, Written, SnapshotIsTheDocument, Fixed, ChainDoesNotBranch
<1>3. CancelsInv'
  BY <1>1 DEF IInv, BooksInv, CancelsInv, Cancels
<1>4. \A u \in Transaction : Undisturbed(u)
  BY <1>1 DEF Undisturbed, Free
<1>5. HeldInv'
  BY <1>4, DisturbsNobody
<1> QED
  BY <1>2, <1>3, <1>5 DEF IInv, BooksInv

LEMMA NextRecordPayment ==
  ASSUME IInv, NEW d \in Document, RecordPayment(d)
  PROVE  IInv'
<1>1. UNCHANGED <<kind, status, predecessor, content, number, snapshot, deductions>>
      /\ UNCHANGED <<nextValue, skipped, tx>>
  BY DEF RecordPayment, documents, ranges
<1>2. TypeOK'
  BY <1>1, DocumentChainAssumption DEF IInv, TypeOK, FieldsOK, RecordPayment
<1>3. NumbersInv'
  BY <1>1 DEF IInv, BooksInv, NumbersInv, NumbersOf, Carries, Fixed
<1>4. \A r \in NumberRange : \A n \in skipped'[r] : n < nextValue'[r]
  BY <1>1 DEF IInv, HeldInv, DrawnInv
<1> QED
  BY <1>1, <1>2, <1>3, <1>4, BesideTheBooks DEF RecordPayment

LEMMA NextRemovePayment ==
  ASSUME IInv, NEW d \in Document, RemovePayment(d)
  PROVE  IInv'
<1>1. UNCHANGED <<kind, status, predecessor, content, number, snapshot, deductions>>
      /\ UNCHANGED <<nextValue, skipped, tx, edits, payments, skips>>
  BY DEF RemovePayment, documents, ranges, bounds
<1>2. TypeOK'
  BY <1>1 DEF IInv, TypeOK, FieldsOK, RemovePayment
<1>3. NumbersInv'
  BY <1>1 DEF IInv, BooksInv, NumbersInv, NumbersOf, Carries, Fixed
<1>4. \A r \in NumberRange : \A n \in skipped'[r] : n < nextValue'[r]
  BY <1>1 DEF IInv, HeldInv, DrawnInv
<1> QED
  BY <1>1, <1>2, <1>3, <1>4, BesideTheBooks DEF RemovePayment

\* A number passed over by hand is the next one, which nobody has and nobody draws.
LEMMA NextChangeNumberRange ==
  ASSUME IInv, NEW r \in NumberRange, ChangeNumberRange(r)
  PROVE  IInv'
<1>1. UNCHANGED <<kind, status, predecessor, content, number, snapshot, deductions>>
      /\ UNCHANGED <<paid, tx, edits, payments>>
  BY DEF ChangeNumberRange, documents
<1>2. FieldsOK /\ nextValue \in [NumberRange -> Nat \ {0}] /\ skipped \in [NumberRange -> SUBSET Nat]
  BY DEF IInv, TypeOK, FieldsOK
<1>3. /\ nextValue'[r] = nextValue[r] + 1 /\ skipped'[r] = skipped[r] \cup {nextValue[r]}
      /\ \A s \in NumberRange \ {r} : nextValue'[s] = nextValue[s] /\ skipped'[s] = skipped[s]
      /\ nextValue' \in [NumberRange -> Nat \ {0}] /\ skipped' \in [NumberRange -> SUBSET Nat]
  BY <1>2 DEF ChangeNumberRange
<1>4. TypeOK'
  <2>1. skips' \in 0 .. MaxSkips
    BY <1>2, DocumentChainAssumption DEF FieldsOK, ChangeNumberRange
  <2> QED
    BY <1>1, <1>3, <2>1 DEF IInv, TypeOK, FieldsOK
<1>5. \A s \in NumberRange : \A n \in skipped'[s] : n < nextValue'[s]
  BY <1>2, <1>3 DEF IInv, HeldInv, DrawnInv
<1>6. \A d \in Document : \A s \in NumberRange : Carries(d, s)' <=> Carries(d, s)
  BY <1>1 DEF Carries, Fixed
<1>7. ASSUME NEW s \in NumberRange
      PROVE  NumbersOf(s)'
  <2>1. NumbersOf(s) /\ number \in [Document -> Nat]
    BY <1>2 DEF IInv, BooksInv, NumbersInv, FieldsOK
  <2>2. CASE s = r
    <3>1. \A d \in Document : Carries(d, s) =>
             number[d] < nextValue'[s] /\ number[d] \notin skipped'[s]
      BY <1>2, <1>3, <2>1, <2>2 DEF NumbersOf
    <3>2. \A n \in 1 .. nextValue'[s] - 1 : n \notin skipped'[s] =>
             n \in 1 .. nextValue[s] - 1 /\ n \notin skipped[s]
      BY <1>2, <1>3, <2>2
    <3> QED
      BY <1>1, <1>6, <2>1, <3>1, <3>2 DEF NumbersOf
  <2>3. CASE s # r
    BY <1>1, <1>3, <1>6, <2>1, <2>3 DEF NumbersOf
  <2> QED
    BY <2>2, <2>3
<1>8. NumbersInv'
  BY <1>7 DEF NumbersInv
<1> QED
  BY <1>1, <1>3, <1>4, <1>5, <1>8, BesideTheBooks DEF ChangeNumberRange

-----------------------------------------------------------------------------
(* The transactions that write. *)

LEMMA NextSuccessor ==
  ASSUME IInv, NEW t \in Transaction, Successor(t)
  PROVE  IInv'
<1>1. tx[t] \in TxState /\ HoldsRow(t)
  BY Holds
<1>2. /\ tx[t].doc \in Document /\ Written(tx[t].doc)
      /\ tx[t].kind \in Kind /\ tx[t].kind # "cancellation_invoice"
  BY <1>1 DEF Successor, HoldsRow, TxState
<1>3. Idle \in TxState
  BY DEF Idle, TxState, None, Kind
<1>4. /\ tx' \in [Transaction -> TxState]
      /\ \A u \in Transaction \ {t} : tx'[u] = tx[u]
  BY <1>3 DEF Successor, To, IInv, TypeOK, FieldsOK
<1>5. /\ TypeOK' /\ BooksInv'
      /\ \A r \in NumberRange : \A n \in skipped'[r] : n < nextValue'[r]
      /\ \A u \in Transaction : tx'[u] = tx[u] => Undisturbed(u)
  BY <1>2, <1>4, WritesDraft DEF Successor
<1>6. HeldInv'
  BY <1>4, <1>5, LetsGo DEF Successor
<1> QED
  BY <1>5, <1>6 DEF IInv

\* The numbers drawn are the next ones of their range, and the documents they
\* are written on the only ones that come to it.
LEMMA Numbered ==
  ASSUME IInv, NEW t \in Transaction, NEW D \in Document, NEW P,
         HasReport(t) => P \in Document /\ P # D /\ ~Fixed(P),
         ~Fixed(D), tx[t].number # 0, OwnRange(t) \in NumberRange,
         \A e \in Document : Fixed(e)' <=> Fixed(e) \/ e = D \/ (HasReport(t) /\ e = P),
         \A e \in Document : Fixed(e) => number'[e] = number[e] /\ kind'[e] = kind[e],
         number'[D] = tx[t].number, NumberRangeOf(kind'[D]) = OwnRange(t),
         HasReport(t) => number'[P] = tx[t].report /\ NumberRangeOf(kind'[P]) = "report",
         Counted(t), skipped' = skipped
  PROVE  /\ NumbersInv' /\ nextValue' \in [NumberRange -> Nat \ {0}]
         /\ \A r \in NumberRange : \A n \in skipped'[r] : n < nextValue'[r]
         /\ \A u \in Transaction \ {t} : \A r \in NumberRange :
               Drawn(u, r) # 0 => nextValue'[r] = nextValue[r]
<1>1. /\ nextValue \in [NumberRange -> Nat \ {0}] /\ skipped \in [NumberRange -> SUBSET Nat]
      /\ number \in [Document -> Nat]
  BY DEF IInv, TypeOK, FieldsOK
<1>2. /\ HasReport(t) => tx[t].report = nextValue["report"]
      /\ tx[t].number = nextValue[OwnRange(t)] + Shift(t)
  BY Holds DEF HoldsNumbers
<1>3. \A r \in NumberRange :
         /\ nextValue'[r] = nextValue[r] + Drawn(t, r)
         /\ Drawn(t, r) = (IF HasReport(t) /\ r = "report" THEN 1 ELSE 0)
                          + (IF r = OwnRange(t) THEN 1 ELSE 0)
         /\ Drawn(t, r) \in Nat
  BY DEF Counted, Drawn, HasReport
<1>4. nextValue' \in [NumberRange -> Nat \ {0}]
  <2>1. \A r \in NumberRange : nextValue[r] + Drawn(t, r) \in Nat \ {0}
    BY <1>1, <1>3
  <2> QED
    BY <2>1 DEF Counted
<1>5. \A r \in NumberRange : \A n \in skipped'[r] : n < nextValue'[r]
  BY <1>1, <1>3 DEF IInv, HeldInv, DrawnInv
<1>6. \A u \in Transaction \ {t} : \A r \in NumberRange :
         Drawn(u, r) # 0 => nextValue'[r] = nextValue[r]
  BY <1>1, <1>3 DEF IInv, HeldInv, DrawnInv
<1>7. ASSUME NEW r \in NumberRange
      PROVE  NumbersOf(r)'
  <2> DEFINE nv    == nextValue[r]
             byP   == HasReport(t) /\ r = "report"
             byD   == r = OwnRange(t)
             shift == IF byP THEN 1 ELSE 0
  <2>1. /\ nv \in Nat \ {0} /\ \A n \in skipped[r] : n \in Nat /\ n < nv
        /\ nextValue'[r] = nv + shift + (IF byD THEN 1 ELSE 0)
    BY <1>1, <1>3 DEF IInv, HeldInv, DrawnInv
  <2>2. /\ byD => number'[D] = nv + shift
        /\ byP => P \in Document /\ number'[P] = nv
    BY <1>2 DEF Shift
  <2>3. \A e \in Document : Carries(e, r)' <=>
           Carries(e, r) \/ (e = D /\ byD) \/ (e = P /\ byP)
    BY KindFacts DEF Carries
  <2>4. \A e \in Document : Carries(e, r) => /\ number'[e] = number[e] /\ number[e] \in Nat
                                             /\ number[e] < nv /\ number[e] \notin skipped[r]
    BY <1>1 DEF IInv, BooksInv, NumbersInv, NumbersOf, Carries
  <2>5. /\ \A n \in 1 .. nv - 1 : n \notin skipped[r] =>
              \E d \in Document : Carries(d, r) /\ number[d] = n
        /\ \A d, e \in Document : Carries(d, r) /\ Carries(e, r) /\ number[d] = number[e] => d = e
    BY DEF IInv, BooksInv, NumbersInv, NumbersOf
  <2> HIDE DEF nv, byP, byD
  <2>6. \A d \in Document : Carries(d, r)' => number'[d] < nextValue'[r] /\ number'[d] \notin skipped'[r]
    BY <2>1, <2>2, <2>3, <2>4
  <2>7. ASSUME NEW n \in 1 .. nextValue'[r] - 1, n \notin skipped'[r]
        PROVE  \E d \in Document : Carries(d, r)' /\ number'[d] = n
    <3>1. CASE n < nv
      <4>1. n \notin skipped[r] /\ n \in 1 .. nv - 1
        BY <2>1, <2>7, <3>1
      <4>2. PICK d \in Document : Carries(d, r) /\ number[d] = n
        BY <2>5, <4>1
      <4> QED
        BY <2>3, <2>4, <4>2
    <3>2. CASE n = nv /\ byP
      BY <2>2, <2>3, <3>2
    <3>3. CASE byD /\ n = nv + shift
      BY <2>2, <2>3, <3>3
    <3> QED
      BY <2>1, <2>7, <3>1, <3>2, <3>3
  <2>8. \A d, e \in Document : Carries(d, r)' /\ Carries(e, r)' /\ number'[d] = number'[e] => d = e
    BY <2>1, <2>2, <2>3, <2>4, <2>5
  <2> QED
    BY <2>6, <2>7, <2>8 DEF NumbersOf
<1> QED
  BY <1>4, <1>5, <1>6, <1>7 DEF NumbersInv

LEMMA NextIssueWith ==
  ASSUME IInv, NEW t \in Transaction, IssueWith(t)
  PROVE  IInv'
<1> DEFINE d     == tx[t].doc
           p     == predecessor[d]
           fixed == IF tx[t].report # 0 THEN {p} ELSE {}
<1>1. tx[t] \in TxState /\ HoldsRow(t) /\ HoldsNumbers(t) /\ FieldsOK /\ TypeOK /\ BooksInv
  BY Holds DEF IInv, TypeOK
<1>2. /\ tx[t].at = "write" /\ tx[t].op = "issue" /\ Counted(t) /\ To(t, Idle)
      /\ UNCHANGED <<kind, predecessor, content, paid, skipped, edits, payments, skips>>
  BY DEF IssueWith, Goes, bounds
<1>3. /\ d \in Document /\ d \in tx[t].locked /\ status[d] \in Issuable /\ tx[t].saw = content[d]
      /\ tx[t].number # 0 /\ tx[t].number \in Nat /\ tx[t].report \in Nat /\ tx[t].found \subseteq Document
      /\ tx[t].locked \subseteq Document
  BY <1>1, <1>2 DEF HoldsRow, HoldsNumbers, TxState
<1>4. /\ fixed \subseteq tx[t].locked /\ d \notin fixed
      /\ \A e \in fixed : HasReport(t) /\ e = p /\ IsSignedReport(e)
      /\ HasReport(t) => fixed = {p} /\ p \in Document
  <2>1. p < d /\ p \in Nat /\ d \in Nat
    <3>1. p < d /\ p \in Document \cup {None}
      BY <1>1, <1>3 DEF TypeOK, FieldsOK
    <3> QED
      BY <1>3, <3>1 DEF Document, None
  <2> QED
    BY <1>1, <1>2, <1>3, <2>1 DEF HasReport, HoldsRow
<1>5. /\ status' = [n \in Document |-> IF n \in {d} \cup fixed THEN "issued" ELSE status[n]]
      /\ number' = [n \in Document |->
            IF n = d THEN tx[t].number ELSE IF n \in fixed THEN tx[t].report ELSE number[n]]
      /\ snapshot' = [n \in Document |->
            IF n = d THEN tx[t].saw ELSE IF n \in fixed THEN content[n] ELSE snapshot[n]]
      /\ deductions' = [deductions EXCEPT ![d] = tx[t].found]
  BY DEF IssueWith
<1> HIDE DEF fixed
<1>6. /\ status'[d] = "issued" /\ number'[d] = tx[t].number /\ snapshot'[d] = content'[d]
      /\ \A e \in fixed : /\ status'[e] = "issued" /\ number'[e] = tx[t].report
                          /\ snapshot'[e] = content'[e]
      /\ \A e \in Document \ ({d} \cup fixed) :
            status'[e] = status[e] /\ number'[e] = number[e] /\ snapshot'[e] = snapshot[e]
  BY <1>2, <1>3, <1>4, <1>5
<1>7. /\ \A e \in {d} \cup fixed : status[e] \in {"draft", "signed"} /\ e \in Document
      /\ \A e \in Document : status'[e] = "issued" <=> status[e] = "issued" \/ e \in {d} \cup fixed
      /\ \A e \in Document : status'[e] = "cancelled" <=> status[e] = "cancelled"
  BY <1>3, <1>4, <1>6 DEF IsSignedReport, Issuable
<1>8. /\ ~Fixed(d) /\ \A e \in fixed : ~Fixed(e)
      /\ \A e \in Document : Fixed(e)' <=> Fixed(e) \/ e \in {d} \cup fixed
  BY <1>7 DEF Fixed
<1>9. /\ OwnRange(t) \in NumberRange /\ NumberRangeOf(kind[d]) = OwnRange(t)
      /\ HasReport(t) => NumberRangeOf(kind[p]) = "report"
  <2>1. kind[d] \in Kind
    BY <1>1, <1>3 DEF FieldsOK
  <2>2. OwnRange(t) = NumberRangeOf(kind[d])
    BY <1>2 DEF OwnRange
  <2>3. HasReport(t) => kind[p] = "time_and_material_report"
    BY <1>4 DEF IsSignedReport
  <2> QED
    BY <2>1, <2>2, <2>3, KindFacts
<1>10. /\ NumbersInv' /\ nextValue' \in [NumberRange -> Nat \ {0}]
       /\ \A r \in NumberRange : \A n \in skipped'[r] : n < nextValue'[r]
       /\ \A u \in Transaction \ {t} : \A r \in NumberRange :
             Drawn(u, r) # 0 => nextValue'[r] = nextValue[r]
  <2>1. HasReport(t) => /\ p \in Document /\ p # d /\ ~Fixed(p)
                        /\ number'[p] = tx[t].report /\ NumberRangeOf(kind'[p]) = "report"
    BY <1>2, <1>4, <1>6, <1>8, <1>9
  <2>2. \A e \in Document : Fixed(e)' <=> Fixed(e) \/ e = d \/ (HasReport(t) /\ e = p)
    BY <1>4, <1>8
  <2>3. \A e \in Document : Fixed(e) => number'[e] = number[e] /\ kind'[e] = kind[e]
    BY <1>2, <1>6, <1>8
  <2>4. number'[d] = tx[t].number /\ NumberRangeOf(kind'[d]) = OwnRange(t)
    BY <1>2, <1>6, <1>9
  <2> HIDE DEF d, p
  <2> QED
    BY <1>2, <1>3, <1>8, <1>9, <2>1, <2>2, <2>3, <2>4, Numbered
<1>11. TypeOK'
  <2>1. Idle \in TxState
    BY DEF Idle, TxState, None, Kind
  <2>2. tx' \in [Transaction -> TxState]
    BY <1>1, <1>2, <2>1 DEF To, FieldsOK
  <2>3. status' \in [Document -> Status] /\ number' \in [Document -> Nat]
    BY <1>1, <1>3, <1>5 DEF FieldsOK, Status
  <2>4. snapshot' \in [Document -> Nat] /\ deductions' \in [Document -> SUBSET Document]
    BY <1>1, <1>3, <1>5 DEF FieldsOK
  <2>5. FieldsOK'
    BY <1>1, <1>2, <1>10, <2>2, <2>3, <2>4 DEF FieldsOK
  <2>6. \A e \in fixed : tx[t].report # 0
    BY <1>4 DEF HasReport
  <2>7. \A e \in Document : number'[e] # 0 <=> status'[e] \in {"issued", "cancelled"}
    BY <1>1, <1>3, <1>6, <1>7, <2>6 DEF TypeOK
  <2> QED
    BY <1>1, <1>2, <2>5, <2>7 DEF TypeOK
<1>12. RowsInv'
  <2>1. \A e \in Document : Written(e)' <=> Written(e)
    BY <1>6, <1>7 DEF Written
  <2>2. \A e \in Document : kind'[e] = "cancellation_invoice" => status'[e] = "issued"
    BY <1>1, <1>2, <1>7 DEF BooksInv, RowsInv
  <2> QED
    BY <1>1, <1>2, <2>1, <2>2 DEF BooksInv, RowsInv
<1>13. SnapshotIsTheDocument'
  BY <1>1, <1>2, <1>6, <1>8 DEF BooksInv, SnapshotIsTheDocument
<1>14. ChainDoesNotBranch'
  <2>1. \A e \in Document : status'[e] \notin {"cancelled", "deleted"} =>
                            status[e] \notin {"cancelled", "deleted"}
    BY <1>6, <1>7
  <2> QED
    BY <1>1, <1>2, <2>1 DEF BooksInv, ChainDoesNotBranch
<1>15. CancelsInv'
  <2>1. \A c, e \in Document : Cancels(c, e)' <=> Cancels(c, e)
    BY <1>2 DEF Cancels
  <2> QED
    BY <1>1, <1>2, <1>7, <2>1 DEF BooksInv, CancelsInv, FieldsOK
<1>16. \A u \in Transaction \ {t} : Undisturbed(u)
  <2>1. \A u \in Transaction \ {t} : tx'[u] = tx[u] /\ tx[u].locked \subseteq Document
    BY <1>1, <1>2 DEF To, FieldsOK, TxState
  <2>2. \A u \in Transaction \ {t} : \A e \in tx[u].locked : e \notin {d} \cup fixed
    BY <1>3, <1>4 DEF IInv, HeldInv, LocksInv
  <2> QED
    BY <1>2, <1>6, <1>10, <2>1, <2>2 DEF Undisturbed
<1>17. HeldInv'
  BY <1>2, <1>10, <1>16, LetsGo
<1> QED
  BY <1>10, <1>11, <1>12, <1>13, <1>14, <1>15, <1>17 DEF IInv, BooksInv

LEMMA NextCancel ==
  ASSUME IInv, NEW t \in Transaction, Cancel(t)
  PROVE  IInv'
<1> DEFINE d == tx[t].doc
           c == New
<1>1. tx[t] \in TxState /\ HoldsRow(t) /\ HoldsNumbers(t) /\ FieldsOK /\ TypeOK /\ BooksInv
  BY Holds DEF IInv, TypeOK
<1>2. /\ tx[t].at = "write" /\ tx[t].op = "cancel" /\ Counted(t) /\ To(t, Idle)
      /\ status[d] = "issued" /\ c \in Document
      /\ UNCHANGED <<paid, skipped, edits, payments, skips>>
  BY DEF Cancel, Goes, bounds
<1>3. /\ d \in Document /\ d \in tx[t].locked /\ d \notin paid /\ IsCancellable(kind[d])
      /\ tx[t].number # 0 /\ tx[t].number \in Nat /\ ~HasReport(t) /\ tx[t].saw \in Nat
      /\ tx[t].locked \subseteq Document
  BY <1>1, <1>2 DEF HoldsRow, HoldsNumbers, TxState
<1>4. /\ c \in Nat \ {0} /\ ~Written(c) /\ \A e \in Document : Written(e) <=> e < c
      /\ \A u \in Transaction : c \notin tx[u].locked
  BY <1>2, NewRow
<1>5. /\ status' = [status EXCEPT ![d] = "cancelled", ![c] = "issued"]
      /\ kind' = [kind EXCEPT ![c] = "cancellation_invoice"]
      /\ predecessor' = [predecessor EXCEPT ![c] = d]
      /\ content' = [content EXCEPT ![c] = tx[t].saw]
      /\ snapshot' = [snapshot EXCEPT ![c] = tx[t].saw]
      /\ number' = [number EXCEPT ![c] = tx[t].number]
      /\ deductions' = [deductions EXCEPT ![c] = deductions[d]]
  BY DEF Cancel
<1> HIDE DEF c
<1>6. c # d /\ d < c
  BY <1>2, <1>3, <1>4 DEF Written
<1>7. /\ status'[c] = "issued" /\ kind'[c] = "cancellation_invoice" /\ predecessor'[c] = d
      /\ content'[c] = snapshot'[c] /\ number'[c] = tx[t].number
      /\ status'[d] = "cancelled"
      /\ \A e \in Document \ {c} : /\ kind'[e] = kind[e] /\ predecessor'[e] = predecessor[e]
                                   /\ content'[e] = content[e] /\ snapshot'[e] = snapshot[e]
                                   /\ number'[e] = number[e]
      /\ \A e \in Document \ {c, d} : status'[e] = status[e]
  BY <1>1, <1>2, <1>3, <1>5, <1>6 DEF FieldsOK
<1>8. /\ ~Fixed(c) /\ status[c] = "unwritten" /\ kind[c] # "cancellation_invoice"
      /\ kind[d] # "cancellation_invoice" /\ predecessor[c] = None
      /\ \A e \in Document : Fixed(e)' <=> Fixed(e) \/ e = c
  BY <1>1, <1>2, <1>3, <1>4, <1>6, <1>7 DEF Fixed, Written, BooksInv, RowsInv, IsCancellable
<1>9. /\ OwnRange(t) \in NumberRange /\ NumberRangeOf("cancellation_invoice") = OwnRange(t)
  BY <1>2, KindFacts DEF OwnRange, Kind
<1>10. /\ NumbersInv' /\ nextValue' \in [NumberRange -> Nat \ {0}]
       /\ \A r \in NumberRange : \A n \in skipped'[r] : n < nextValue'[r]
       /\ \A u \in Transaction \ {t} : \A r \in NumberRange :
             Drawn(u, r) # 0 => nextValue'[r] = nextValue[r]
  <2>1. \A e \in Document : Fixed(e)' <=> Fixed(e) \/ e = c \/ (HasReport(t) /\ e = None)
    BY <1>3, <1>8
  <2>2. \A e \in Document : Fixed(e) => number'[e] = number[e] /\ kind'[e] = kind[e]
    BY <1>7, <1>8
  <2>3. number'[c] = tx[t].number /\ NumberRangeOf(kind'[c]) = OwnRange(t)
    BY <1>7, <1>9
  <2> QED
    BY <1>2, <1>3, <1>8, <1>9, <2>1, <2>2, <2>3, Numbered
<1>11. TypeOK'
  <2>1. Idle \in TxState
    BY DEF Idle, TxState, None, Kind
  <2>2. tx' \in [Transaction -> TxState]
    BY <1>1, <1>2, <2>1 DEF To, FieldsOK
  <2>3. status' \in [Document -> Status] /\ kind' \in [Document -> Kind]
    BY <1>1, <1>5 DEF FieldsOK, Status, Kind
  <2>4. predecessor' \in [Document -> Document \cup {None}]
    BY <1>1, <1>3, <1>5 DEF FieldsOK
  <2>5. /\ content' \in [Document -> Nat] /\ snapshot' \in [Document -> Nat]
        /\ number' \in [Document -> Nat]
    BY <1>1, <1>3, <1>5 DEF FieldsOK
  <2>6. deductions' \in [Document -> SUBSET Document]
    BY <1>1, <1>3, <1>5 DEF FieldsOK
  <2>7. FieldsOK'
    BY <1>1, <1>2, <1>10, <2>2, <2>3, <2>4, <2>5, <2>6 DEF FieldsOK
  <2>8. \A e \in Document : /\ predecessor'[e] < e
                            /\ number'[e] # 0 <=> status'[e] \in {"issued", "cancelled"}
    BY <1>1, <1>2, <1>3, <1>6, <1>7 DEF TypeOK
  <2> QED
    BY <2>7, <2>8 DEF TypeOK
<1>12. RowsInv'
  <2>1. c \in 0 .. MaxDocuments /\ \A e \in Document : Written(e)' <=> e <= c
    BY <1>2, <1>4, <1>6, <1>7 DEF Written, Document
  <2>2. \A e \in Document : /\ ~Written(e)' => predecessor'[e] = None
                            /\ kind'[e] = "cancellation_invoice" => status'[e] = "issued"
    BY <1>1, <1>7, <1>8 DEF BooksInv, RowsInv, Written
  <2> QED
    BY <2>1, <2>2 DEF RowsInv
<1>13. SnapshotIsTheDocument'
  BY <1>1, <1>7, <1>8 DEF BooksInv, SnapshotIsTheDocument
<1>14. ChainDoesNotBranch'
  BY <1>1, <1>7 DEF BooksInv, ChainDoesNotBranch
<1>15. CancelsInv'
  <2>1. \A a, e \in Document : Cancels(a, e)' <=> Cancels(a, e) \/ (a = c /\ e = d)
    BY <1>7, <1>8 DEF Cancels
  <2>2. \A a \in Document : ~Cancels(a, d)
    BY <1>1, <1>2, <1>3 DEF BooksInv, CancelsInv
  <2>3. \A e \in Document : status'[e] = "cancelled" <=> status[e] = "cancelled" \/ e = d
    BY <1>7, <1>8
  <2>4. \A e \in paid' : status'[e] = "issued"
    BY <1>1, <1>2, <1>3, <1>7, <1>8 DEF BooksInv, CancelsInv, FieldsOK
  <2>5. \A e \in Document : status'[e] = "cancelled" => \E a \in Document : Cancels(a, e)'
    BY <1>1, <1>2, <2>1, <2>3 DEF BooksInv, CancelsInv
  <2>6. \A a, e \in Document : Cancels(a, e)' => status'[e] = "cancelled"
    BY <1>1, <2>1, <2>3 DEF BooksInv, CancelsInv
  <2>7. \A a, b, e \in Document : Cancels(a, e)' /\ Cancels(b, e)' => a = b
    BY <1>1, <2>1, <2>2 DEF BooksInv, CancelsInv
  <2> QED
    BY <2>4, <2>5, <2>6, <2>7 DEF CancelsInv
<1>16. \A u \in Transaction \ {t} : Undisturbed(u)
  <2>1. \A u \in Transaction \ {t} : tx'[u] = tx[u] /\ tx[u].locked \subseteq Document
    BY <1>1, <1>2 DEF To, FieldsOK, TxState
  <2>2. \A u \in Transaction \ {t} : \A e \in tx[u].locked : e \notin {c, d}
    BY <1>3, <1>4 DEF IInv, HeldInv, LocksInv
  <2> QED
    BY <1>2, <1>7, <1>10, <2>1, <2>2 DEF Undisturbed
<1>17. HeldInv'
  BY <1>2, <1>10, <1>16, LetsGo
<1> QED
  BY <1>10, <1>11, <1>12, <1>13, <1>14, <1>15, <1>17 DEF IInv, BooksInv

-----------------------------------------------------------------------------
LEMMA InitIInv == Init => IInv
<1> SUFFICES ASSUME Init
             PROVE  IInv
  OBVIOUS
<1>1. \A t \in Transaction : tx[t] = Idle
  BY DEF Init
<1>2. TypeOK
  <2>1. Idle \in TxState
    BY DEF Idle, TxState, None, Kind
  <2>2. FieldsOK
    BY <2>1, DocumentChainAssumption DEF Init, FieldsOK, Kind, Status, Idle, None
  <2>3. \A d \in Document : predecessor[d] < d
    BY DocumentChainAssumption DEF Init, Document, None
  <2> QED
    BY <2>2, <2>3 DEF Init, TypeOK
<1>3. RowsInv
  <2>1. 0 \in 0 .. MaxDocuments /\ \A d \in Document : Written(d) <=> d <= 0
    BY DocumentChainAssumption DEF Init, Written, Document
  <2> QED
    BY <2>1 DEF Init, RowsInv, Written
<1>4. NumbersInv
  <2>1. \A r \in NumberRange : nextValue[r] = 1 /\ skipped[r] = {}
    BY DEF Init
  <2>2. \A d \in Document : \A r \in NumberRange : ~Carries(d, r)
    BY DEF Init, Carries, Fixed
  <2> QED
    BY <2>1, <2>2 DEF NumbersInv, NumbersOf
<1>5. SnapshotIsTheDocument /\ ChainDoesNotBranch /\ CancelsInv
  BY DEF Init, SnapshotIsTheDocument, Fixed, ChainDoesNotBranch, CancelsInv, Cancels
<1>6. LocksInv
  BY <1>1 DEF LocksInv, Idle
<1>7. HoldsInv /\ \A t \in Transaction : \A r \in NumberRange : Drawn(t, r) = 0
  BY <1>1 DEF Idle, HoldsInv, HoldsRow, HoldsNumbers, HasReport, Shift, Drawn, Steps
<1>8. DrawnInv
  BY <1>7 DEF Init, DrawnInv
<1> QED
  BY <1>2, <1>3, <1>4, <1>5, <1>6, <1>7, <1>8 DEF IInv, BooksInv, HeldInv

LEMMA NextIInv == IInv /\ [Next]_vars => IInv'
<1> SUFFICES ASSUME IInv, [Next]_vars
             PROVE  IInv'
  OBVIOUS
<1>1. CASE UNCHANGED vars
  <2>1. UNCHANGED <<documents, tx, paid, nextValue, skipped, edits, payments, skips>>
    BY <1>1 DEF vars, ranges, bounds
  <2>2. UNCHANGED <<kind, status, predecessor, content, number, snapshot, deductions>>
    BY <2>1 DEF documents
  <2>3. TypeOK' /\ NumbersInv'
    BY <2>1, <2>2 DEF IInv, TypeOK, FieldsOK, BooksInv, NumbersInv, NumbersOf, Carries, Fixed
  <2>4. \A r \in NumberRange : \A n \in skipped'[r] : n < nextValue'[r]
    BY <2>1 DEF IInv, HeldInv, DrawnInv
  <2> QED
    BY <2>1, <2>3, <2>4, BesideTheBooks
<1>2. ASSUME NEW k \in WrittenKinds, Create(k) \/ \E d \in Document : Update(d, k)
      PROVE  IInv'
  BY <1>2, NextCreate, NextUpdate
<1>3. ASSUME NEW d \in Document,
             WriteLine(d) \/ Remove(d) \/ Sign(d) \/ RecordPayment(d) \/ RemovePayment(d)
      PROVE  IInv'
  BY <1>3, NextWriteLine, NextRemove, NextSign, NextRecordPayment, NextRemovePayment
<1>4. ASSUME NEW k \in WrittenKinds, ChangeNumberRange(NumberRangeOf(k))
      PROVE  IInv'
  <2>1. NumberRangeOf(k) \in NumberRange
    BY KindFacts, DocumentChainAssumption
  <2> QED
    BY <1>4, <2>1, NextChangeNumberRange
<1>5. ASSUME NEW t \in Transaction, RollBack(t) \/ Books(t)
      PROVE  IInv'
  BY <1>5, NextRollBack, NextLockPredecessor, NextFixDocument, NextReadContent, NextDeductionsFor,
     NextIssueWith, NextSuccessor, NextCheckCancellation, NextDrawNumber, NextCancel
     DEF Books, Issue
<1>6. ASSUME NEW t \in Transaction, NEW d \in Document,
             LockForIssue(t, d) \/ LockForCancel(t, d) \/ \E k \in Kind : LockForSuccessor(t, d, k)
      PROVE  IInv'
  BY <1>6, NextLockForIssue, NextLockForCancel, NextLockForSuccessor
<1> QED
  BY <1>1, <1>2, <1>3, <1>4, <1>5, <1>6 DEF Next

LEMMA Invariant == Spec => []IInv
BY InitIInv, NextIInv, PTL DEF Spec

\* Every variable of the books has its type, a document follows only an older
\* one, and it has a number exactly if it is fixed (documents/service.ts).
THEOREM TypeCorrect == Spec => []TypeOK
<1>1. IInv => TypeOK
  BY DEF IInv
<1> QED
  BY <1>1, Invariant, PTL

\* However transactions that issue and cancel come between each other, roll
\* back, and numbers are passed over by hand: the numbers in the books of a range
\* are all those drawn, each once (nextNumber, documents/numbers.ts).
THEOREM NoGap == Spec => []NumbersWithoutGap
<1>1. ASSUME IInv PROVE NumbersWithoutGap
  <2>1. ASSUME NEW r \in NumberRange
        PROVE  LET issued == {d \in Document : Fixed(d) /\ NumberRangeOf(kind[d]) = r} IN
               /\ {number[d] : d \in issued} = (1 .. nextValue[r] - 1) \ skipped[r]
               /\ \A d, e \in issued : number[d] = number[e] => d = e
    <3>1. /\ NumbersOf(r) /\ nextValue[r] \in Nat \ {0}
          /\ \A d \in Document : Fixed(d) => number[d] \in Nat \ {0}
      BY <1>1 DEF IInv, BooksInv, NumbersInv, TypeOK, FieldsOK, Fixed
    <3>2. {d \in Document : Fixed(d) /\ NumberRangeOf(kind[d]) = r} = {d \in Document : Carries(d, r)}
      BY DEF Carries
    <3>3. \A d \in Document : Carries(d, r) => number[d] \in (1 .. nextValue[r] - 1) \ skipped[r]
      BY <3>1 DEF NumbersOf, Carries
    <3>4. \A n \in (1 .. nextValue[r] - 1) \ skipped[r] :
             \E d \in Document : Carries(d, r) /\ number[d] = n
      BY <3>1 DEF NumbersOf
    <3> QED
      BY <3>1, <3>2, <3>3, <3>4 DEF NumbersOf
  <2> QED
    BY <2>1 DEF NumbersWithoutGap
<1> QED
  BY <1>1, Invariant, PTL

\* What is fixed is what was frozen of it, whoever wrote to the draft while it
\* was issued (issueWith and fixDocument, documents/service.ts).
THEOREM FrozenAsItIs == Spec => []SnapshotIsTheDocument
<1>1. IInv => SnapshotIsTheDocument
  BY DEF IInv, BooksInv
<1> QED
  BY <1>1, Invariant, PTL

\* Whoever makes a successor at the same time, a document has one that counts
\* (createSuccessor, documents/service.ts, and the index documents_one_successor).
THEOREM OneSuccessor == Spec => []ChainDoesNotBranch
<1>1. IInv => ChainDoesNotBranch
  BY DEF IInv, BooksInv
<1> QED
  BY <1>1, Invariant, PTL

\* A cancelled invoice has exactly one cancellation and no payment, an invoice
\* that stands has no cancellation (cancelDocument, documents/service.ts, and
\* recordPayment, payments/service.ts).
THEOREM OneCancellation == Spec => []CancelledOnce
<1>1. ASSUME IInv PROVE CancelledOnce
  <2>1. CancelsInv /\ RowsInv /\ status \in [Document -> Status] /\ paid \subseteq Document
    BY <1>1 DEF IInv, BooksInv, TypeOK, FieldsOK
  <2>2. ASSUME NEW d \in Document
        PROVE  LET cancellations == {c \in Document : predecessor[c] = d
                                                      /\ kind[c] = "cancellation_invoice"} IN
               /\ Cardinality(cancellations) = IF status[d] = "cancelled" THEN 1 ELSE 0
               /\ \A c \in cancellations : status[c] = "issued"
    <3> DEFINE cancellations == {c \in Document : predecessor[c] = d
                                                  /\ kind[c] = "cancellation_invoice"}
    <3>1. \A c \in Document : c \in cancellations <=> Cancels(c, d)
      BY DEF Cancels
    <3>2. \A c \in cancellations : status[c] = "issued"
      BY <2>1 DEF RowsInv
    <3>3. CASE status[d] = "cancelled"
      <4>1. PICK c \in Document : Cancels(c, d)
        BY <2>1, <3>3 DEF CancelsInv
      <4>2. cancellations = {c}
        BY <2>1, <3>1, <4>1 DEF CancelsInv
      <4> QED
        BY <3>2, <3>3, <4>2, FS_Singleton
    <3>4. CASE status[d] # "cancelled"
      <4>1. cancellations = {}
        BY <2>1, <3>1, <3>4 DEF CancelsInv
      <4> QED
        BY <3>2, <3>4, <4>1, FS_EmptySet
    <3> QED
      BY <3>3, <3>4
  <2> QED
    BY <2>1, <2>2 DEF CancelledOnce, CancelsInv
<1> QED
  BY <1>1, Invariant, PTL

-----------------------------------------------------------------------------
(* The chain of predecessors, and what a document takes off of it. *)

\* Only what stands in the books, or a report on its way there, is followed; a
\* signed report follows nothing itself.
Followed(p) == status[p] \in {"issued", "cancelled"} \/ IsSignedReport(p)

LinksInv ==
    \A d \in Document : /\ predecessor[d] # None => Followed(predecessor[d])
                        /\ IsSignedReport(d) => predecessor[d] = None

\* How far the walk up the chain has come: what it has seen is locked and found
\* as it is, what it has not seen is ahead.
Walked(t) ==
    LET chain == Chain[tx[t].doc] IN
    /\ tx[t].shared \subseteq chain /\ tx[t].next \in chain \cup {None}
    /\ chain \subseteq tx[t].shared \cup ({tx[t].next} \ {None}) \cup Chain[tx[t].next]
    /\ tx[t].found = {p \in tx[t].shared : kind[p] = "progress_invoice" /\ status[p] = "issued"}
    /\ tx[t].at \in {"number", "write"} => tx[t].next = None

Walks(t) ==
    /\ tx[t].op = "issue" /\ tx[t].at \in {"deductions", "number", "write"}
    /\ Deducts(kind[tx[t].doc])

HoldsLinks(t) ==
    LET d == tx[t].doc IN
    /\ tx[t].op = "issue" /\ tx[t].at # "predecessor" /\ predecessor[d] # None =>
          predecessor[d] \in tx[t].locked
    /\ IF Walks(t) THEN Walked(t) ELSE tx[t].shared = {} /\ tx[t].found = {} /\ tx[t].next = None
    /\ tx[t].op = "successor" => Followed(d) /\ status[d] # "cancelled"
    /\ tx[t].op = "cancel" /\ tx[t].at \in {"number", "write"} =>
          \A later \in Document : predecessor[later] = d => status[later] # "issued"

TakenOffInv ==
    \A d \in Document : status[d] = "issued" /\ Deducts(kind[d]) => deductions[d] \subseteq Chain[d]

ChainInv ==
    /\ LinksInv /\ TakenOffInv /\ DeductsItsChain
    /\ \A t \in Transaction : HoldsLinks(t)

\* A set of numbers has a first one: what is so of a document as soon as it is so
\* of those before it is so of all. Sets of numbers 1 .. n under inclusion are
\* well-founded, which says as much.
LEMMA FirstOfAll ==
  ASSUME NEW S \in SUBSET Nat, S # {}
  PROVE  \E n \in S : \A m \in S : n <= m
<1> DEFINE Upto == {1 .. n : n \in S}
           Sub  == StrictSubsetOrdering(Nat)
<1>1. Upto \subseteq FiniteSubsetsOf(Nat) /\ Upto # {}
  <2>1. \A n \in S : IsFiniteSet(1 .. n) /\ 1 .. n \in SUBSET Nat
    BY FS_Interval
  <2>2. \A n \in S : 1 .. n \in FiniteSubsetsOf(Nat)
    BY <2>1 DEF FiniteSubsetsOf
  <2> QED
    BY <2>2
<1>2. IsWellFoundedOn(Sub, FiniteSubsetsOf(Nat))
  BY FS_StrictSubsetOrderingWellFounded
<1>3. \E X \in Upto : \A Y \in Upto : ~(<<Y, X>> \in Sub)
  <2> HIDE DEF Upto, Sub
  <2> QED
    BY <1>1, <1>2, WFMin
<1>4. PICK n \in S : \A m \in S : ~(<<1 .. m, 1 .. n>> \in Sub)
  BY <1>3
<1>5. ASSUME NEW m \in S, ~(n <= m)
      PROVE  FALSE
  <2>1. 1 .. m \subseteq 1 .. n /\ n \in 1 .. n /\ n \notin 1 .. m
    BY <1>5
  <2>2. 1 .. m \in SUBSET Nat /\ 1 .. n \in SUBSET Nat
    BY <1>5
  <2> QED
    BY <1>4, <2>1, <2>2 DEF StrictSubsetOrdering
<1> QED
  BY <1>5

\* One step of the recursion, and that the recursion defines a function.
Follows(f, d) == IF d = None THEN {} ELSE ({predecessor[d]} \ {None}) \cup f[predecessor[d]]

LEMMA ChainStep == TypeOK => Chain = [d \in 0 .. MaxDocuments |-> Follows(Chain, d)]
<1> SUFFICES ASSUME TypeOK
             PROVE  Chain = [d \in 0 .. MaxDocuments |-> Follows(Chain, d)]
  OBVIOUS
<1> DEFINE Upto(n) == \E f \in [0 .. MaxDocuments -> SUBSET Document] : \A d \in 0 .. n : f[d] = Follows(f, d)
           Bad == {n \in 0 .. MaxDocuments : ~ Upto(n)}
<1>0. MaxDocuments \in Nat /\ \A d \in Document : predecessor[d] \in 0 .. MaxDocuments /\ predecessor[d] < d
  BY DocumentChainAssumption DEF TypeOK, FieldsOK, Document, None
<1>1. Bad = {}
  <2>1. SUFFICES ASSUME Bad # {} PROVE FALSE
    OBVIOUS
  <2>2. PICK n \in Bad : \A m \in Bad : n <= m
    <3>1. Bad \in SUBSET Nat
      BY <1>0
    <3> HIDE DEF Bad
    <3> QED
      BY <2>1, <3>1, FirstOfAll
  <2>3. n \in 0 .. MaxDocuments /\ ~ Upto(n)
    OBVIOUS
  <2>4. CASE n = 0
    <3> DEFINE f == [d \in 0 .. MaxDocuments |-> {}]
    <3>1. f \in [0 .. MaxDocuments -> SUBSET Document]
      OBVIOUS
    <3>2. \A d \in 0 .. n : f[d] = Follows(f, d)
      BY <2>4, <1>0 DEF Follows, None
    <3> QED
      BY <2>3, <3>1, <3>2
  <2>5. CASE n # 0
    <3>1. n - 1 \in 0 .. MaxDocuments /\ n \in Document
      BY <1>0, <2>3, <2>5 DEF Document
    <3>2. Upto(n - 1)
      BY <2>2, <3>1, <1>0
    <3>3. PICK f \in [0 .. MaxDocuments -> SUBSET Document] : \A d \in 0 .. n - 1 : f[d] = Follows(f, d)
      BY <3>2
    <3> DEFINE g == [f EXCEPT ![n] = Follows(f, n)]
    <3>4. Follows(f, n) \in SUBSET Document
      BY <1>0, <3>1 DEF Follows, Document, None
    <3>5. g \in [0 .. MaxDocuments -> SUBSET Document]
      BY <3>4
    <3>6. \A d \in 0 .. n : g[d] = Follows(g, d)
      <4>1. ASSUME NEW d \in 0 .. n
            PROVE  Follows(g, d) = Follows(f, d)
        <5>1. CASE d = None
          BY <5>1 DEF Follows
        <5>2. CASE d # None
          <6>1. d \in Document
            BY <1>0, <2>3, <5>2 DEF Document, None
          <6>2. predecessor[d] # n /\ predecessor[d] \in 0 .. MaxDocuments
            BY <1>0, <2>3, <6>1
          <6>3. g[predecessor[d]] = f[predecessor[d]]
            BY <6>2
          <6> QED
            BY <6>3 DEF Follows
        <5> QED
          BY <5>1, <5>2
      <4>2. \A d \in 0 .. n : g[d] = IF d = n THEN Follows(f, n) ELSE f[d]
        BY <1>0, <2>3
      <4>3. \A d \in 0 .. n : d = n \/ d \in 0 .. n - 1
        BY <1>0, <2>3
      <4> HIDE DEF g
      <4> QED
        BY <3>3, <4>1, <4>2, <4>3
    <3> QED
      BY <2>3, <3>5, <3>6
  <2> QED
    BY <2>4, <2>5
<1>2. PICK f \in [0 .. MaxDocuments -> SUBSET Document] : \A d \in 0 .. MaxDocuments : f[d] = Follows(f, d)
  <2>1. MaxDocuments \notin Bad
    BY <1>1
  <2>2. MaxDocuments \in 0 .. MaxDocuments
    BY <1>0
  <2>3. Upto(MaxDocuments)
    BY <2>1, <2>2
  <2> QED
    BY <2>3
<1>3. f = [d \in 0 .. MaxDocuments |-> Follows(f, d)]
  BY <1>2
<1> QED
  BY <1>3, Zenon DEF Chain, Follows

LEMMA Links ==
  ASSUME TypeOK
  PROVE  /\ MaxDocuments \in Nat /\ Document \subseteq 0 .. MaxDocuments /\ None \notin Document
         /\ 0 .. MaxDocuments = Document \cup {None}
         /\ \A d \in Document : /\ predecessor[d] \in Document \cup {None}
                                /\ predecessor[d] \in Nat /\ predecessor[d] < d
BY DocumentChainAssumption DEF TypeOK, FieldsOK, Document, None

\* The chain, a link at a time.
LinkByLink ==
    /\ Chain[None] = {}
    /\ \A d \in Document : Chain[d] = ({predecessor[d]} \ {None}) \cup Chain[predecessor[d]]

LEMMA ChainIsLinked == TypeOK => LinkByLink
<1> SUFFICES ASSUME TypeOK
             PROVE  LinkByLink
  OBVIOUS
<1>1. \A d \in 0 .. MaxDocuments : Chain[d] = Follows(Chain, d)
  <2>1. Chain = [d \in 0 .. MaxDocuments |-> Follows(Chain, d)]
    BY ChainStep
  <2> HIDE DEF Chain
  <2> QED
    BY <2>1
<1> QED
  BY <1>1, Links DEF Follows, LinkByLink

LEMMA ChainLink ==
  ASSUME TypeOK
  PROVE  /\ Chain[None] = {}
         /\ \A d \in Document : Chain[d] = ({predecessor[d]} \ {None}) \cup Chain[predecessor[d]]
BY ChainIsLinked DEF LinkByLink

\* What holds of the first link and goes from each on to the next holds of the chain.
LEMMA ChainInduction ==
  ASSUME TypeOK, NEW S,
         \A e \in S : e \in Document /\ predecessor[e] # None => predecessor[e] \in S
  PROVE  \A d \in Document : predecessor[d] = None \/ predecessor[d] \in S => Chain[d] \subseteq S
<1> DEFINE Starts(d) == predecessor[d] = None \/ predecessor[d] \in S
           Bad == {d \in Document : Starts(d) /\ ~(Chain[d] \subseteq S)}
<1>1. SUFFICES ASSUME Bad # {} PROVE FALSE
  OBVIOUS
<1>2. PICK d \in Bad : \A e \in Bad : d <= e
  <2>1. Bad \in SUBSET Nat
    BY Links
  <2> HIDE DEF Bad
  <2> QED
    BY <1>1, <2>1, FirstOfAll
<1>3. d \in Document /\ Starts(d) /\ ~(Chain[d] \subseteq S)
  OBVIOUS
<1>4. predecessor[d] = None => Chain[d] = {}
  BY <1>3, ChainLink
<1>5. predecessor[d] # None => Chain[predecessor[d]] \subseteq S
  <2>1. SUFFICES ASSUME predecessor[d] # None
                 PROVE  Chain[predecessor[d]] \subseteq S
    OBVIOUS
  <2>2. predecessor[d] \in Document /\ predecessor[d] < d /\ predecessor[d] \in S /\ d \in Nat
    BY <1>3, <2>1, Links
  <2>3. predecessor[d] \notin Bad
    BY <1>2, <2>2, Links
  <2> QED
    BY <2>2, <2>3
<1> QED
  BY <1>3, <1>4, <1>5, ChainLink

\* A chain is closed, and has a link to each of its documents.
LEMMA ChainShape ==
  ASSUME TypeOK, NEW d \in Document
  PROVE  /\ Chain[d] \subseteq Document
         /\ \A p \in Chain[d] : predecessor[p] # None => predecessor[p] \in Chain[d]
         /\ \A p \in Chain[d] : \E q \in Document :
               (q = d \/ q \in Chain[d]) /\ predecessor[q] = p /\ p \in Chain[q]
<1> DEFINE Open == {e \in Document : \E p \in Chain[e] : predecessor[p] # None
                                                         /\ predecessor[p] \notin Chain[e]}
<1>1. Chain[d] \subseteq Document
  BY ChainInduction, Links
<1>2. Open = {}
  <2>1. SUFFICES ASSUME Open # {} PROVE FALSE
    OBVIOUS
  <2>2. PICK e \in Open : \A f \in Open : e <= f
    <3>1. Open \in SUBSET Nat
      BY Links
    <3> HIDE DEF Open
    <3> QED
      BY <2>1, <3>1, FirstOfAll
  <2>3. PICK p \in Chain[e] : predecessor[p] # None /\ predecessor[p] \notin Chain[e]
    OBVIOUS
  <2>4. e \in Document /\ predecessor[e] # None
    BY <2>3, ChainLink
  <2>5. predecessor[e] \in Document /\ predecessor[e] < e /\ e \in Nat
    BY <2>4, Links
  <2>6. predecessor[e] \notin Open
    BY <2>2, <2>5, Links
  <2>7. p = predecessor[e] \/ p \in Chain[predecessor[e]]
    BY <2>3, <2>4, ChainLink
  <2>8. Chain[predecessor[e]] \subseteq Chain[e]
    BY <2>4, ChainLink
  <2>9. CASE p = predecessor[e]
    <3>1. predecessor[p] \in Chain[p]
      BY <2>3, <2>5, <2>9, ChainLink
    <3> QED
      BY <2>3, <2>8, <2>9, <3>1
  <2>10. CASE p \in Chain[predecessor[e]]
    BY <2>3, <2>5, <2>6, <2>8, <2>10
  <2> QED
    BY <2>7, <2>9, <2>10
<1>3. \A p \in Chain[d] : predecessor[p] # None => predecessor[p] \in Chain[d]
  BY <1>2
<1>4. \A p \in Chain[d] : \E q \in Document :
         (q = d \/ q \in Chain[d]) /\ predecessor[q] = p /\ p \in Chain[q]
  <2> DEFINE S == {p \in Chain[d] : \E q \in Document :
                     (q = d \/ q \in Chain[d]) /\ predecessor[q] = p /\ p \in Chain[q]}
  <2>1. \A q \in Document : predecessor[q] # None => predecessor[q] \in Chain[q]
    BY ChainLink
  <2>2. \A e \in S : e \in Document /\ predecessor[e] # None => predecessor[e] \in S
    BY <1>3, <2>1
  <2>3. predecessor[d] = None \/ predecessor[d] \in S
    BY <2>1
  <2> HIDE DEF S
  <2>4. Chain[d] \subseteq S
    BY <2>2, <2>3, ChainInduction
  <2> QED
    BY <2>4 DEF S
<1> QED
  BY <1>1, <1>3, <1>4

\* What is followed was there before who follows it, and stands in the books.
LEMMA ChainFollowed ==
  ASSUME TypeOK, LinksInv, NEW d \in Document
  PROVE  \A p \in Chain[d] : p \in Document /\ Followed(p) /\ Written(p)
<1> DEFINE S == {p \in Document : Followed(p)}
<1>1. \A e \in Document : predecessor[e] = None \/ predecessor[e] \in S
  BY Links DEF LinksInv
<1> HIDE DEF S
<1>2. Chain[d] \subseteq S
  BY <1>1, ChainInduction
<1> QED
  BY <1>2 DEF S, Followed, IsSignedReport, Written

\* A row that is new changes no chain but its own.
LEMMA OldChains ==
  ASSUME TypeOK, TypeOK', LinksInv, NEW n \in Nat \ {0}, n \in Document => ~Written(n),
         \A e \in Document \ {n} : predecessor'[e] = predecessor[e]
  PROVE  \A e \in 0 .. MaxDocuments : e # n => Chain'[e] = Chain[e]
<1> DEFINE Bad == {e \in 0 .. MaxDocuments : e # n /\ Chain'[e] # Chain[e]}
<1>1. SUFFICES ASSUME Bad # {} PROVE FALSE
  OBVIOUS
<1>2. PICK e \in Bad : \A f \in Bad : e <= f
  <2>1. Bad \in SUBSET Nat
    BY Links
  <2> HIDE DEF Bad
  <2> QED
    BY <1>1, <2>1, FirstOfAll
<1>3. /\ Chain'[None] = {}
      /\ \A d \in Document : Chain'[d] = ({predecessor'[d]} \ {None}) \cup Chain'[predecessor'[d]]
  <2>1. LinkByLink'
    BY ChainIsLinked, PTL
  <2> QED
    BY <2>1 DEF LinkByLink
<1>4. e # None /\ e \in Document /\ e # n
  BY <1>3, ChainLink, Links
<1>5. predecessor[e] # n
  BY <1>4, Links DEF LinksInv, Followed, IsSignedReport, Written
<1>6. predecessor[e] \notin Bad
  BY <1>2, <1>4, Links
<1>7. predecessor[e] \in 0 .. MaxDocuments
  BY <1>4, Links
<1>8. Chain'[predecessor[e]] = Chain[predecessor[e]]
  BY <1>5, <1>6, <1>7
<1> QED
  BY <1>3, <1>4, <1>8, ChainLink

\* What a transaction has seen of the chain stands as long as nothing it holds is written.
LEMMA KeepsLinks ==
  ASSUME TypeOK, TypeOK', LinksInv, NEW u \in Transaction, HoldsRow(u), HoldsLinks(u), tx'[u] = tx[u],
         NEW n \in Nat \ {0}, n \in Document => ~Written(n),
         \A e \in Document \ {n} : predecessor'[e] = predecessor[e],
         \A e \in tx[u].locked \cup tx[u].shared : status'[e] = status[e] /\ kind'[e] = kind[e],
         \A e \in Document :
            tx[u].op = "cancel" /\ predecessor'[e] = tx[u].doc /\ status'[e] = "issued" =>
               predecessor[e] = tx[u].doc /\ status[e] = "issued"
  PROVE  HoldsLinks(u)'
<1> DEFINE d == tx[u].doc
<1>1. tx[u] \in TxState
  BY DEF TypeOK, FieldsOK
<1>2. CASE tx[u].op = "none"
  BY <1>2 DEF HoldsLinks, Walks
<1>3. CASE tx[u].op # "none"
  <2>1. d \in tx[u].locked /\ d \in Document /\ Written(d) /\ d # n
    BY <1>1, <1>3 DEF HoldsRow, TxState
  <2>2. status'[d] = status[d] /\ kind'[d] = kind[d] /\ predecessor'[d] = predecessor[d]
    BY <2>1
  <2>3. Followed(d)' <=> Followed(d)
    BY <1>1, <2>2 DEF Followed, IsSignedReport
  <2>4. ASSUME Walks(u)
        PROVE  Walked(u)'
    <3>1. Walked(u)
      BY <2>4 DEF HoldsLinks
    <3>2. \A p \in Chain[d] : p \in Document /\ p # n
      BY <2>1, ChainFollowed
    <3>3. tx[u].next \in Chain[d] \cup {None} /\ tx[u].shared \subseteq Chain[d]
      BY <3>1 DEF Walked
    <3>4. Chain'[d] = Chain[d] /\ Chain'[tx[u].next] = Chain[tx[u].next]
      <4>1. \A e \in 0 .. MaxDocuments : e # n => Chain'[e] = Chain[e]
        BY OldChains
      <4>2. d \in 0 .. MaxDocuments /\ tx[u].next \in 0 .. MaxDocuments /\ tx[u].next # n
        BY <2>1, <3>2, <3>3, Links DEF None
      <4> QED
        BY <2>1, <4>1, <4>2
    <3>5. \A p \in tx[u].shared : status'[p] = status[p] /\ kind'[p] = kind[p]
      OBVIOUS
    <3> QED
      BY <3>1, <3>4, <3>5 DEF Walked
  <2> QED
    BY <2>1, <2>2, <2>3, <2>4 DEF HoldsLinks, Walks
<1> QED
  BY <1>2, <1>3

\* A step that issues and cancels nothing leaves what was taken off as it is.
LEMMA BooksStand ==
  ASSUME TypeOK, TypeOK', LinksInv, TakenOffInv, DeductsItsChain,
         NEW n \in Nat \ {0}, n \in Document => ~Written(n),
         \A e \in Document \ {n} : predecessor'[e] = predecessor[e],
         \A e \in Document : /\ status'[e] = "issued" <=> status[e] = "issued"
                             /\ status'[e] = "cancelled" <=> status[e] = "cancelled"
                             /\ status[e] = "issued" => kind'[e] = kind[e],
         deductions' = deductions
  PROVE  TakenOffInv' /\ DeductsItsChain'
<1>1. \A e \in Document : Written(e) => Chain'[e] = Chain[e]
  BY OldChains, Links
<1>2. ASSUME NEW d \in Document, status'[d] = "issued", Deducts(kind'[d])
      PROVE  /\ deductions'[d] \subseteq Chain'[d]
             /\ {p \in Chain'[d] : kind'[p] = "progress_invoice" /\ status'[p] = "issued"}
                   \subseteq deductions'[d]
             /\ \A p \in deductions'[d] :
                   status'[p] = "issued"
                   \/ \E between \in Chain'[d] : p \in Chain'[between] /\ status'[between] = "cancelled"
  <2>1. status[d] = "issued" /\ Deducts(kind[d]) /\ Chain'[d] = Chain[d]
    BY <1>1, <1>2 DEF Written
  <2>2. \A p \in Chain[d] : p \in Document /\ Chain'[p] = Chain[p]
    BY <1>1, ChainFollowed
  <2>3. deductions'[d] \subseteq Chain'[d]
    BY <2>1 DEF TakenOffInv
  <2>4. \A p \in Chain[d] : kind[p] = "progress_invoice" /\ status[p] = "issued" => p \in deductions[d]
    BY <2>1 DEF DeductsItsChain
  <2>5. \A p \in deductions[d] :
           status[p] = "issued"
           \/ \E between \in Chain[d] : p \in Chain[between] /\ status[between] = "cancelled"
    BY <2>1 DEF DeductsItsChain
  <2> QED
    BY <2>1, <2>2, <2>3, <2>4, <2>5
<1> QED
  BY <1>2 DEF TakenOffInv, DeductsItsChain

\* A transaction that writes nothing yet.
LEMMA OnlyLooks ==
  ASSUME IInv, TypeOK', ChainInv, NEW t \in Transaction, UNCHANGED documents,
         \A u \in Transaction \ {t} : tx'[u] = tx[u],
         HoldsLinks(t)'
  PROVE  ChainInv'
<1> DEFINE n == MaxDocuments + 1
<1>1. /\ TypeOK /\ LinksInv /\ TakenOffInv /\ DeductsItsChain
      /\ \A u \in Transaction : HoldsRow(u) /\ HoldsLinks(u)
  BY DEF IInv, HeldInv, HoldsInv, ChainInv
<1>2. /\ n \in Nat \ {0} /\ n \notin Document
      /\ UNCHANGED <<kind, status, predecessor, deductions>>
  BY <1>1, Links DEF Document, documents
<1> HIDE DEF n
<1>3. \A u \in Transaction \ {t} : HoldsLinks(u)'
  BY <1>1, <1>2, KeepsLinks
<1>4. TakenOffInv' /\ DeductsItsChain'
  BY <1>1, <1>2, BooksStand
<1>5. LinksInv'
  BY <1>1, <1>2 DEF LinksInv, Followed, IsSignedReport
<1> QED
  BY <1>3, <1>4, <1>5 DEF ChainInv

\* What is known of a transaction, of its chain too.
LEMMA Sees ==
  ASSUME IInv, ChainInv, NEW t \in Transaction
  PROVE  /\ TypeOK /\ LinksInv /\ TakenOffInv /\ DeductsItsChain
         /\ tx[t] \in TxState /\ HoldsRow(t) /\ HoldsLinks(t)
         /\ \A new \in TxState : To(t, new) => tx'[t] = new
         /\ \A new : To(t, new) => \A u \in Transaction \ {t} : tx'[u] = tx[u]
         /\ tx[t].op # "none" => tx[t].doc \in Document /\ tx[t].doc \in tx[t].locked
  BY DEF IInv, TypeOK, FieldsOK, HeldInv, HoldsInv, ChainInv, To, HoldsRow, TxState

LEMMA SharedIsWritten ==
  ASSUME TypeOK, LinksInv, NEW u \in Transaction, HoldsRow(u), HoldsLinks(u)
  PROVE  \A e \in tx[u].shared : e \in Document /\ Followed(e) /\ Written(e)
<1>1. CASE Walks(u)
  <2>1. tx[u].doc \in Document
    BY <1>1 DEF HoldsRow, Walks, TypeOK, FieldsOK, TxState
  <2>2. tx[u].shared \subseteq Chain[tx[u].doc]
    BY <1>1 DEF HoldsLinks, Walked
  <2> QED
    BY <2>1, <2>2, ChainFollowed
<1>2. CASE ~Walks(u)
  BY <1>2 DEF HoldsLinks
<1> QED
  BY <1>1, <1>2

LEMMA LinksRollBack ==
  ASSUME IInv, TypeOK', ChainInv, NEW t \in Transaction, RollBack(t)
  PROVE  ChainInv'
<1>1. Idle \in TxState
  BY DEF Idle, TxState, None, Kind
<1>2. tx'[t] = Idle /\ \A u \in Transaction \ {t} : tx'[u] = tx[u]
  BY <1>1, Sees DEF RollBack
<1>3. HoldsLinks(t)'
  BY <1>2 DEF HoldsLinks, Walks, Idle
<1> QED
  BY <1>2, <1>3, OnlyLooks DEF RollBack

LEMMA LinksBegin ==
  ASSUME IInv, TypeOK', ChainInv, NEW t \in Transaction, NEW d \in Document,
         \/ LockForIssue(t, d) \/ LockForCancel(t, d)
         \/ \E k \in Kind : LockForSuccessor(t, d, k)
  PROVE  ChainInv'
<1>1. UNCHANGED documents /\ UNCHANGED <<kind, status, predecessor>>
  BY DEF LockForIssue, LockForCancel, LockForSuccessor, documents
<1>2. CASE LockForIssue(t, d)
  <2> DEFINE at  == IF predecessor[d] = None THEN "content" ELSE "predecessor"
             new == [Idle EXCEPT !.op = "issue", !.doc = d, !.locked = {d}, !.at = at]
  <2>1. To(t, new)
    BY <1>2 DEF LockForIssue
  <2>2. at \in {"content", "predecessor"} /\ (at = "content" => predecessor[d] = None)
    OBVIOUS
  <2> HIDE DEF at
  <2>3. /\ new \in TxState /\ new.op = "issue" /\ new.doc = d /\ new.at = at
        /\ new.shared = {} /\ new.found = {} /\ new.next = None
    BY <2>2 DEF Idle, TxState, Kind
  <2> HIDE DEF new
  <2>4. tx'[t] = new /\ \A u \in Transaction \ {t} : tx'[u] = tx[u]
    BY <2>1, <2>3, Sees
  <2>5. HoldsLinks(t)'
    BY <1>1, <2>2, <2>3, <2>4 DEF HoldsLinks, Walks
  <2> QED
    BY <1>1, <2>4, <2>5, OnlyLooks
<1>3. CASE LockForCancel(t, d)
  <2> DEFINE new == [Idle EXCEPT !.op = "cancel", !.doc = d, !.locked = {d}, !.at = "checks"]
  <2>1. To(t, new)
    BY <1>3 DEF LockForCancel
  <2>2. /\ new \in TxState /\ new.op = "cancel" /\ new.at = "checks"
        /\ new.shared = {} /\ new.found = {} /\ new.next = None
    BY DEF Idle, TxState, Kind
  <2> HIDE DEF new
  <2>3. tx'[t] = new /\ \A u \in Transaction \ {t} : tx'[u] = tx[u]
    BY <2>1, <2>2, Sees
  <2>4. HoldsLinks(t)'
    BY <2>2, <2>3 DEF HoldsLinks, Walks
  <2> QED
    BY <1>1, <2>3, <2>4, OnlyLooks
<1>4. ASSUME NEW k \in Kind, LockForSuccessor(t, d, k)
      PROVE  ChainInv'
  <2> DEFINE new == [Idle EXCEPT !.op = "successor", !.doc = d, !.kind = k, !.locked = {d},
                                 !.at = "write"]
  <2>1. To(t, new)
    BY <1>4 DEF LockForSuccessor
  <2>2. /\ new \in TxState /\ new.op = "successor" /\ new.doc = d
        /\ new.shared = {} /\ new.found = {} /\ new.next = None
    BY DEF Idle, TxState
  <2> HIDE DEF new
  <2>3. tx'[t] = new /\ \A u \in Transaction \ {t} : tx'[u] = tx[u]
    BY <2>1, <2>2, Sees
  <2>4. Followed(d)' /\ status'[d] # "cancelled"
    BY <1>1, <1>4 DEF LockForSuccessor, Followed, IsSignedReport
  <2>5. HoldsLinks(t)'
    BY <2>2, <2>3, <2>4 DEF HoldsLinks, Walks
  <2> QED
    BY <1>1, <2>3, <2>5, OnlyLooks
<1> QED
  BY <1>2, <1>3, <1>4

\* The rows it locks next, the number of the report, the content it reads.
LEMMA LinksPredecessor ==
  ASSUME IInv, TypeOK', ChainInv, NEW t \in Transaction,
         LockPredecessor(t) \/ FixDocument(t)
  PROVE  ChainInv'
<1>1. tx[t] \in TxState /\ HoldsLinks(t) /\ HoldsRow(t) /\ FieldsOK
  BY Sees DEF TypeOK
<1>2. UNCHANGED documents /\ UNCHANGED <<kind, status, predecessor>>
  BY DEF LockPredecessor, FixDocument, Draws, documents
<1>3. tx[t].op = "issue" /\ tx[t].at \in {"predecessor", "fix"}
  BY <1>1 DEF LockPredecessor, FixDocument, Goes, HoldsRow, Steps, TxState
<1>4. \E new \in TxState :
         /\ To(t, new) /\ new.op = "issue" /\ new.doc = tx[t].doc /\ new.at \in {"fix", "content"}
         /\ new.shared = tx[t].shared /\ new.found = tx[t].found /\ new.next = tx[t].next
         /\ predecessor[tx[t].doc] # None => predecessor[tx[t].doc] \in new.locked
  <2> DEFINE p  == predecessor[tx[t].doc]
             at == IF IsSignedReport(p) THEN "fix" ELSE "content"
  <2>1. CASE LockPredecessor(t)
    <3> DEFINE new == [tx[t] EXCEPT !.locked = @ \cup {p}, !.at = at]
    <3>1. p \in Document
      BY <1>1, <1>3, <2>1 DEF HoldsRow, LockPredecessor, Goes, FieldsOK, TxState
    <3>2. To(t, new)
      BY <2>1 DEF LockPredecessor
    <3>3. at \in {"fix", "content"}
      OBVIOUS
    <3> HIDE DEF at, p
    <3>4. /\ new \in TxState /\ new.op = "issue" /\ new.doc = tx[t].doc /\ new.at = at
          /\ new.shared = tx[t].shared /\ new.found = tx[t].found /\ new.next = tx[t].next
          /\ p \in new.locked
      BY <1>1, <1>3, <3>1, <3>3 DEF TxState
    <3> QED
      BY <3>2, <3>3, <3>4 DEF p
  <2>2. CASE FixDocument(t)
    <3> DEFINE new == [tx[t] EXCEPT !.report = nextValue["report"], !.at = "content"]
    <3>1. To(t, new)
      BY <2>2 DEF FixDocument, Draws
    <3>2. nextValue["report"] \in Nat
      BY <1>1 DEF FieldsOK, NumberRange
    <3>3. /\ new \in TxState /\ new.op = "issue" /\ new.doc = tx[t].doc /\ new.at = "content"
          /\ new.shared = tx[t].shared /\ new.found = tx[t].found /\ new.next = tx[t].next
          /\ new.locked = tx[t].locked
      BY <1>1, <1>3, <3>2 DEF TxState
    <3> HIDE DEF new
    <3>4. tx[t].at = "fix"
      BY <2>2 DEF FixDocument, Goes
    <3> QED
      BY <1>1, <1>3, <3>1, <3>3, <3>4 DEF HoldsLinks
  <2> QED
    BY <2>1, <2>2
<1>5. PICK new \in TxState :
         /\ To(t, new) /\ new.op = "issue" /\ new.doc = tx[t].doc /\ new.at \in {"fix", "content"}
         /\ new.shared = tx[t].shared /\ new.found = tx[t].found /\ new.next = tx[t].next
         /\ predecessor[tx[t].doc] # None => predecessor[tx[t].doc] \in new.locked
  BY <1>4
<1>6. tx'[t] = new /\ \A u \in Transaction \ {t} : tx'[u] = tx[u]
  BY <1>5, Sees
<1>7. HoldsLinks(t)'
  BY <1>1, <1>2, <1>3, <1>5, <1>6 DEF HoldsLinks, Walks
<1> QED
  BY <1>2, <1>6, <1>7, OnlyLooks

LEMMA SameChains ==
  ASSUME TypeOK, TypeOK', LinksInv, predecessor' = predecessor
  PROVE  \A e \in 0 .. MaxDocuments : Chain'[e] = Chain[e]
<1> DEFINE n == MaxDocuments + 1
<1>1. n \in Nat \ {0} /\ n \notin Document /\ \A e \in 0 .. MaxDocuments : e # n
  BY Links DEF Document
<1> HIDE DEF n
<1> QED
  BY <1>1, OldChains

\* The walk begins at the predecessor, with nothing seen.
LEMMA LinksReadContent ==
  ASSUME IInv, TypeOK', ChainInv, NEW t \in Transaction, ReadContent(t)
  PROVE  ChainInv'
<1> DEFINE d    == tx[t].doc
           next == IF Deducts(kind[d]) THEN predecessor[d] ELSE None
           new  == [tx[t] EXCEPT !.saw = content[d], !.at = "deductions", !.next = next]
<1>1. TypeOK /\ LinksInv /\ FieldsOK /\ tx[t] \in TxState /\ HoldsLinks(t) /\ HoldsRow(t)
  BY Sees DEF TypeOK
<1>2. UNCHANGED documents /\ UNCHANGED <<kind, status, predecessor>> /\ tx[t].at = "content" /\ To(t, new)
  BY DEF ReadContent, documents, Goes
<1>3. tx[t].op = "issue" /\ d \in Document
  BY <1>1, <1>2 DEF HoldsRow, Steps, TxState
<1>4. next \in Document \cup {None} /\ content[d] \in Nat
  BY <1>1, <1>3 DEF FieldsOK
<1>5. next = IF Deducts(kind[d]) THEN predecessor[d] ELSE None
  OBVIOUS
<1> HIDE DEF next
<1>6. /\ new \in TxState /\ new.op = "issue" /\ new.doc = d /\ new.at = "deductions"
      /\ new.next = next /\ new.locked = tx[t].locked
      /\ new.shared = tx[t].shared /\ new.found = tx[t].found
  BY <1>1, <1>3, <1>4 DEF TxState
<1> HIDE DEF new
<1>7. tx'[t] = new /\ \A u \in Transaction \ {t} : tx'[u] = tx[u]
  BY <1>2, <1>6, Sees
<1>8. new.shared = {} /\ new.found = {} /\ (predecessor[d] # None => predecessor[d] \in new.locked)
  BY <1>1, <1>2, <1>3, <1>6 DEF HoldsLinks, Walks
<1>9. Deducts(kind[d]) => Walked(t)'
  <2>1. Chain'[d] = Chain[d] /\ Chain'[next] = Chain[next]
    BY <1>1, <1>2, <1>3, <1>4, SameChains, Links
  <2>2. Chain[d] = ({predecessor[d]} \ {None}) \cup Chain[predecessor[d]]
    BY <1>1, <1>3, ChainLink
  <2> QED
    BY <1>5, <1>6, <1>7, <1>8, <2>1, <2>2 DEF Walked
<1>10. HoldsLinks(t)'
  BY <1>2, <1>3, <1>5, <1>6, <1>7, <1>8, <1>9 DEF HoldsLinks, Walks
<1> QED
  BY <1>2, <1>7, <1>10, OnlyLooks

\* One link more is seen, and the rest of the chain is ahead.
LEMMA LinksDeductionsFor ==
  ASSUME IInv, TypeOK', ChainInv, NEW t \in Transaction, DeductionsFor(t)
  PROVE  ChainInv'
<1> DEFINE d == tx[t].doc
           n == tx[t].next
           new == IF n # None
                  THEN [tx[t] EXCEPT
                          !.shared = @ \cup {n},
                          !.found = IF kind[n] = "progress_invoice" /\ status[n] = "issued"
                                    THEN @ \cup {n} ELSE @,
                          !.next = predecessor[n]]
                  ELSE [tx[t] EXCEPT !.at = "number"]
<1>1. TypeOK /\ LinksInv /\ FieldsOK /\ tx[t] \in TxState /\ HoldsLinks(t) /\ HoldsRow(t)
  BY Sees DEF TypeOK
<1>2. /\ UNCHANGED documents /\ UNCHANGED <<kind, status, predecessor>>
      /\ tx[t].at = "deductions" /\ To(t, new)
  BY DEF DeductionsFor, documents, Goes
<1>3. tx[t].op = "issue" /\ d \in Document /\ n \in Document \cup {None}
  BY <1>1, <1>2 DEF HoldsRow, Steps, TxState
<1>4. n # None => n \in Document /\ predecessor[n] \in Document \cup {None}
  BY <1>1, <1>3 DEF FieldsOK
<1>5. /\ new \in TxState /\ new.op = "issue" /\ new.doc = d /\ new.locked = tx[t].locked
      /\ n # None => /\ new.at = "deductions" /\ new.next = predecessor[n]
                     /\ new.shared = tx[t].shared \cup {n}
                     /\ new.found = IF kind[n] = "progress_invoice" /\ status[n] = "issued"
                                    THEN tx[t].found \cup {n} ELSE tx[t].found
      /\ n = None => /\ new.at = "number" /\ new.next = n
                     /\ new.shared = tx[t].shared /\ new.found = tx[t].found
  <2>1. CASE n # None
    BY <1>1, <1>2, <1>3, <1>4, <2>1 DEF TxState
  <2>2. CASE n = None
    BY <1>1, <1>2, <1>3, <2>2 DEF TxState
  <2> QED
    BY <2>1, <2>2
<1> HIDE DEF new
<1>6. tx'[t] = new /\ \A u \in Transaction \ {t} : tx'[u] = tx[u]
  BY <1>2, <1>5, Sees
<1>7. Deducts(kind[d]) => Walked(t)'
  <2>1. SUFFICES ASSUME Deducts(kind[d])
                 PROVE  Walked(t)'
    OBVIOUS
  <2>2. Walked(t)
    BY <1>1, <1>2, <1>3, <2>1 DEF HoldsLinks, Walks
  <2>3. \A e \in Document \cup {None} : Chain'[e] = Chain[e]
    BY <1>1, <1>2, SameChains, Links
  <2>4. CASE n = None
    <3>1. Chain'[d] = Chain[d] /\ Chain'[new.next] = Chain[n]
      BY <1>3, <1>5, <2>3, <2>4
    <3> QED
      BY <1>2, <1>5, <1>6, <2>2, <2>4, <3>1 DEF Walked
  <2>5. CASE n # None
    <3>1. Chain'[d] = Chain[d] /\ Chain'[new.next] = Chain[predecessor[n]]
      BY <1>3, <1>4, <1>5, <2>3, <2>5
    <3>2. Chain[n] = ({predecessor[n]} \ {None}) \cup Chain[predecessor[n]]
      BY <1>1, <1>4, <2>5, ChainLink
    <3>3. n \in Chain[d] /\ (predecessor[n] # None => predecessor[n] \in Chain[d])
      <4>1. n \in Chain[d]
        BY <2>2, <2>5 DEF Walked
      <4> QED
        BY <1>1, <1>3, <4>1, ChainShape
    <3>4. new.found = {p \in new.shared : kind[p] = "progress_invoice" /\ status[p] = "issued"}
      BY <1>5, <2>2, <2>5 DEF Walked
    <3> QED
      BY <1>2, <1>5, <1>6, <2>2, <2>5, <3>1, <3>2, <3>3, <3>4 DEF Walked
  <2> QED
    BY <2>4, <2>5
<1>8. HoldsLinks(t)'
  BY <1>1, <1>2, <1>3, <1>5, <1>6, <1>7 DEF HoldsLinks, Walks
<1> QED
  BY <1>2, <1>6, <1>8, OnlyLooks

\* Nothing issued follows the invoice while its cancellation holds it.
LEMMA LinksCheckCancellation ==
  ASSUME IInv, TypeOK', ChainInv, NEW t \in Transaction, CheckCancellation(t)
  PROVE  ChainInv'
<1> DEFINE new == [tx[t] EXCEPT !.saw = snapshot[tx[t].doc], !.at = "number"]
<1>1. FieldsOK /\ tx[t] \in TxState /\ HoldsRow(t) /\ HoldsLinks(t)
  BY Sees DEF TypeOK
<1>2. /\ UNCHANGED documents /\ UNCHANGED <<status, predecessor>>
      /\ tx[t].at = "checks" /\ To(t, new)
      /\ \A later \in Document : predecessor[later] = tx[t].doc => status[later] # "issued"
  BY DEF CheckCancellation, documents, Goes
<1>3. tx[t].op = "cancel" /\ tx[t].doc \in Document
  BY <1>1, <1>2 DEF HoldsRow, Steps, TxState
<1>4. snapshot[tx[t].doc] \in Nat
  BY <1>1, <1>3 DEF FieldsOK
<1>5. /\ new \in TxState /\ new.op = "cancel" /\ new.doc = tx[t].doc
      /\ new.shared = tx[t].shared /\ new.found = tx[t].found /\ new.next = tx[t].next
  BY <1>1, <1>3, <1>4 DEF TxState
<1> HIDE DEF new
<1>6. tx'[t] = new /\ \A u \in Transaction \ {t} : tx'[u] = tx[u]
  BY <1>2, <1>5, Sees
<1>7. HoldsLinks(t)'
  BY <1>1, <1>2, <1>3, <1>5, <1>6 DEF HoldsLinks, Walks
<1> QED
  BY <1>2, <1>6, <1>7, OnlyLooks

LEMMA LinksDrawNumber ==
  ASSUME IInv, TypeOK', ChainInv, NEW t \in Transaction, DrawNumber(t)
  PROVE  ChainInv'
<1> DEFINE drawn == nextValue[OwnRange(t)] + Drawn(t, OwnRange(t))
           new     == [tx[t] EXCEPT !.number = drawn, !.at = "write"]
<1>1. TypeOK /\ LinksInv /\ tx[t] \in TxState /\ HoldsRow(t) /\ HoldsLinks(t)
  BY Sees
<1>2. /\ UNCHANGED documents /\ UNCHANGED <<kind, status, predecessor>>
      /\ tx[t].at = "number" /\ To(t, new)
  BY DEF DrawNumber, Draws, documents, Goes
<1>3. tx' \in [Transaction -> TxState]
  BY DEF TypeOK, FieldsOK
<1>4. tx'[t] = new /\ \A u \in Transaction \ {t} : tx'[u] = tx[u]
  BY <1>2 DEF To, IInv, TypeOK, FieldsOK
<1>5. tx[t].op \in {"issue", "cancel"} /\ tx[t].doc \in Document /\ tx[t].next \in Document \cup {None}
  BY <1>1, <1>2 DEF HoldsRow, Steps, TxState
<1>6. /\ new.op = tx[t].op /\ new.doc = tx[t].doc /\ new.at = "write" /\ new.next = tx[t].next
      /\ new.locked = tx[t].locked /\ new.shared = tx[t].shared /\ new.found = tx[t].found
  BY <1>1 DEF TxState
<1> HIDE DEF new
<1>7. Walked(t) => Walked(t)'
  <2>1. Chain'[tx[t].doc] = Chain[tx[t].doc] /\ Chain'[tx[t].next] = Chain[tx[t].next]
    BY <1>1, <1>2, <1>5, SameChains, Links
  <2> QED
    BY <1>2, <1>4, <1>6, <2>1 DEF Walked
<1>8. HoldsLinks(t)'
  BY <1>1, <1>2, <1>4, <1>5, <1>6, <1>7 DEF HoldsLinks, Walks
<1> QED
  BY <1>2, <1>4, <1>8, OnlyLooks

\* The statements that touch no document, and those on a draft nobody holds.
LEMMA LinksBeside ==
  ASSUME IInv, TypeOK', ChainInv, tx' = tx, UNCHANGED <<kind, status, predecessor, deductions>>
  PROVE  ChainInv'
<1> DEFINE n == MaxDocuments + 1
<1>1. /\ TypeOK /\ LinksInv /\ TakenOffInv /\ DeductsItsChain
      /\ \A u \in Transaction : HoldsRow(u) /\ HoldsLinks(u)
  BY DEF IInv, HeldInv, HoldsInv, ChainInv
<1>2. n \in Nat \ {0} /\ n \notin Document
  BY <1>1, Links DEF Document
<1> HIDE DEF n
<1>3. \A u \in Transaction : HoldsLinks(u)'
  BY <1>1, <1>2, KeepsLinks
<1>4. TakenOffInv' /\ DeductsItsChain'
  BY <1>1, <1>2, BooksStand
<1>5. LinksInv'
  BY <1>1 DEF LinksInv, Followed, IsSignedReport
<1> QED
  BY <1>3, <1>4, <1>5 DEF ChainInv

LEMMA LinksOnADraft ==
  ASSUME IInv, TypeOK', ChainInv, NEW d \in Document, status[d] = "draft", Free(d),
         NEW s \in {"draft", "signed", "deleted"}, NEW k \in Kind,
         status' = [status EXCEPT ![d] = s], kind' = [kind EXCEPT ![d] = k],
         s = "signed" /\ k = "time_and_material_report" => predecessor[d] = None,
         UNCHANGED <<tx, predecessor, deductions>>
  PROVE  ChainInv'
<1> DEFINE n == MaxDocuments + 1
<1>1. /\ TypeOK /\ FieldsOK /\ LinksInv /\ TakenOffInv /\ DeductsItsChain
      /\ \A u \in Transaction : HoldsRow(u) /\ HoldsLinks(u)
  BY DEF IInv, TypeOK, HeldInv, HoldsInv, ChainInv
<1>2. n \in Nat \ {0} /\ n \notin Document
  BY <1>1, Links DEF Document
<1> HIDE DEF n
<1>3. /\ status'[d] = s /\ kind'[d] = k
      /\ \A e \in Document \ {d} : status'[e] = status[e] /\ kind'[e] = kind[e]
  BY <1>1 DEF FieldsOK
<1>4. \A e \in Document : /\ status'[e] = "issued" <=> status[e] = "issued"
                          /\ status'[e] = "cancelled" <=> status[e] = "cancelled"
                          /\ status[e] = "issued" => kind'[e] = kind[e]
  BY <1>3
<1>5. \A u \in Transaction : HoldsLinks(u)'
  <2>1. \A u \in Transaction : tx[u].locked \cup tx[u].shared \subseteq Document \ {d}
    BY <1>1 DEF Free, FieldsOK, TxState
  <2>2. \A u \in Transaction : \A e \in tx[u].locked \cup tx[u].shared :
           status'[e] = status[e] /\ kind'[e] = kind[e]
    BY <1>3, <2>1
  <2> QED
    BY <1>1, <1>2, <1>4, <2>2, KeepsLinks
<1>6. TakenOffInv' /\ DeductsItsChain'
  BY <1>1, <1>2, <1>4, BooksStand
<1>7. LinksInv'
  <2>1. \A e \in Document : Followed(e) => Followed(e)'
    BY <1>3 DEF Followed, IsSignedReport
  <2>2. \A e \in Document : IsSignedReport(e)' => predecessor[e] = None
    BY <1>1, <1>3 DEF LinksInv, IsSignedReport
  <2> QED
    BY <1>1, <2>1, <2>2, Links DEF LinksInv
<1> QED
  BY <1>5, <1>6, <1>7 DEF ChainInv

LEMMA LinksStatements ==
  ASSUME IInv, TypeOK', ChainInv, NEW d \in Document,
         \/ WriteLine(d) \/ Remove(d) \/ Sign(d) \/ RecordPayment(d) \/ RemovePayment(d)
         \/ \E k \in WrittenKinds : Update(d, k)
  PROVE  ChainInv'
<1>1. kind \in [Document -> Kind] /\ status \in [Document -> Status]
  BY DEF IInv, TypeOK, FieldsOK
<1>2. kind = [kind EXCEPT ![d] = kind[d]] /\ status = [status EXCEPT ![d] = status[d]] /\ kind[d] \in Kind
  BY <1>1
<1>3. CASE WriteLine(d)
  BY <1>3, LinksBeside DEF WriteLine
<1>4. CASE RecordPayment(d) \/ RemovePayment(d)
  BY <1>4, LinksBeside DEF RecordPayment, RemovePayment, documents
<1>5. CASE Remove(d)
  BY <1>2, <1>5, LinksOnADraft DEF Remove
<1>6. CASE Sign(d)
  BY <1>2, <1>6, LinksOnADraft DEF Sign, IsSignable
<1>7. ASSUME NEW k \in WrittenKinds, Update(d, k)
      PROVE  ChainInv'
  <2>1. k \in Kind /\ status[d] = "draft" /\ status' = [status EXCEPT ![d] = "draft"]
    BY <1>2, <1>7, DocumentChainAssumption DEF Update
  <2> QED
    BY <1>7, <2>1, LinksOnADraft DEF Update
<1> QED
  BY <1>3, <1>4, <1>5, <1>6, <1>7

\* A new draft, for itself or at the end of a chain.
LEMMA LinksWrites ==
  ASSUME IInv, TypeOK', ChainInv, New \in Document, NEW k \in Kind, NEW p \in Document \cup {None},
         Writes(New, k, p), p # None => Followed(p), deductions' = deductions
  PROVE  /\ LinksInv' /\ TakenOffInv' /\ DeductsItsChain'
         /\ \A u \in Transaction : tx'[u] = tx[u] => HoldsLinks(u)'
<1> DEFINE n == New
<1>1. n \in Document /\ n \in Nat \ {0} /\ ~Written(n) /\ \A u \in Transaction : n \notin tx[u].locked
  BY NewRow
<1> HIDE DEF n
<1>2. /\ TypeOK /\ FieldsOK /\ LinksInv /\ TakenOffInv /\ DeductsItsChain
      /\ \A u \in Transaction : tx[u] \in TxState /\ HoldsRow(u) /\ HoldsLinks(u)
  BY DEF IInv, TypeOK, FieldsOK, HeldInv, HoldsInv, ChainInv
<1>3. /\ status'[n] = "draft" /\ kind'[n] = k /\ predecessor'[n] = p
      /\ \A d \in Document \ {n} : /\ status'[d] = status[d] /\ kind'[d] = kind[d]
                                   /\ predecessor'[d] = predecessor[d]
  BY <1>1, <1>2 DEF Writes, FieldsOK, n
<1>4. LinksInv'
  <2>1. \A e \in Document : Followed(e) => Followed(e)' /\ e # n
    BY <1>1, <1>3 DEF Followed, IsSignedReport, Written
  <2>2. \A e \in Document : IsSignedReport(e)' => IsSignedReport(e) /\ e # n
    BY <1>3 DEF IsSignedReport
  <2> QED
    BY <1>2, <1>3, <2>1, <2>2, Links DEF LinksInv
<1>5. \A e \in Document : /\ status'[e] = "issued" <=> status[e] = "issued"
                          /\ status'[e] = "cancelled" <=> status[e] = "cancelled"
                          /\ status[e] = "issued" => kind'[e] = kind[e]
  BY <1>1, <1>3 DEF Written
<1>6. TakenOffInv' /\ DeductsItsChain'
  BY <1>1, <1>2, <1>3, <1>5, BooksStand
<1>7. ASSUME NEW u \in Transaction, tx'[u] = tx[u]
      PROVE  HoldsLinks(u)'
  <2>1. n \notin tx[u].shared
    BY <1>1, <1>2, SharedIsWritten
  <2>2. \A e \in tx[u].locked \cup tx[u].shared : status'[e] = status[e] /\ kind'[e] = kind[e]
    BY <1>1, <1>2, <1>3, <2>1 DEF TxState
  <2>3. \A e \in Document : status'[e] = "issued" => e # n
    BY <1>3
  <2> QED
    BY <1>1, <1>2, <1>3, <1>7, <2>2, <2>3, KeepsLinks
<1> QED
  BY <1>4, <1>6, <1>7

LEMMA LinksNewDraft ==
  ASSUME IInv, TypeOK', ChainInv,
         \/ \E k \in WrittenKinds : Create(k)
         \/ \E t \in Transaction : Successor(t)
  PROVE  ChainInv'
<1>1. ASSUME NEW k \in WrittenKinds, Create(k)
      PROVE  ChainInv'
  <2>1. k \in Kind
    BY DocumentChainAssumption
  <2>2. /\ LinksInv' /\ TakenOffInv' /\ DeductsItsChain'
        /\ \A u \in Transaction : HoldsLinks(u)'
    BY <1>1, <2>1, LinksWrites DEF Create
  <2> QED
    BY <2>2 DEF ChainInv
<1>2. ASSUME NEW t \in Transaction, Successor(t)
      PROVE  ChainInv'
  <2>1. tx[t] \in TxState /\ HoldsLinks(t) /\ HoldsRow(t) /\ tx[t].op = "successor"
    BY <1>2, Sees DEF Successor
  <2>2. tx[t].doc \in Document /\ tx[t].kind \in Kind /\ Followed(tx[t].doc)
    BY <2>1, Sees DEF HoldsLinks, TxState
  <2>3. Idle \in TxState
    BY DEF Idle, TxState, None, Kind
  <2>4. tx'[t] = Idle /\ \A u \in Transaction \ {t} : tx'[u] = tx[u]
    BY <1>2, <2>3, Sees DEF Successor
  <2>5. /\ LinksInv' /\ TakenOffInv' /\ DeductsItsChain'
        /\ \A u \in Transaction : tx'[u] = tx[u] => HoldsLinks(u)'
    BY <1>2, <2>2, LinksWrites DEF Successor
  <2>6. HoldsLinks(t)'
    BY <2>4 DEF HoldsLinks, Walks, Idle
  <2> QED
    BY <2>4, <2>5, <2>6 DEF ChainInv
<1> QED
  BY <1>1, <1>2

\* The invoice takes off what it has seen of its chain, all of which still stands
\* as it was found. What it issues, itself and a report, no chain takes off yet.
LEMMA LinksIssueWith ==
  ASSUME IInv, TypeOK', ChainInv, NEW t \in Transaction, IssueWith(t)
  PROVE  ChainInv'
<1> DEFINE d     == tx[t].doc
           p     == predecessor[d]
           fixed == IF tx[t].report # 0 THEN {p} ELSE {}
<1>1. /\ TypeOK /\ FieldsOK /\ LinksInv /\ TakenOffInv /\ DeductsItsChain
      /\ \A u \in Transaction : tx[u] \in TxState /\ HoldsRow(u) /\ HoldsLinks(u)
      /\ LocksInv
  BY DEF IInv, TypeOK, FieldsOK, HeldInv, HoldsInv, ChainInv
<1>2. /\ tx[t].at = "write" /\ tx[t].op = "issue" /\ To(t, Idle)
      /\ UNCHANGED <<kind, predecessor>>
  BY DEF IssueWith, Goes
<1>3. /\ d \in Document /\ d \in tx[t].locked /\ status[d] \in Issuable
      /\ p # None => p \in tx[t].locked
      /\ \A e \in fixed : e \in tx[t].locked /\ IsSignedReport(e)
  BY <1>1, <1>2 DEF HoldsRow, HoldsLinks, HasReport, TxState
<1>4. /\ status' = [n \in Document |-> IF n \in {d} \cup fixed THEN "issued" ELSE status[n]]
      /\ deductions' = [deductions EXCEPT ![d] = tx[t].found]
  BY DEF IssueWith
<1> HIDE DEF fixed
<1>5. /\ \A e \in Document : status'[e] = IF e = d \/ e \in fixed THEN "issued" ELSE status[e]
      /\ \A e \in Document : deductions'[e] = IF e = d THEN tx[t].found ELSE deductions[e]
      /\ status[d] \notin {"issued", "cancelled"}
      /\ \A e \in fixed : status[e] = "signed" /\ kind[e] = "time_and_material_report"
  BY <1>1, <1>3, <1>4 DEF FieldsOK, Issuable, IsSignedReport
<1>6. tx'[t] = Idle /\ \A u \in Transaction \ {t} : tx'[u] = tx[u]
  BY <1>2 DEF To, IInv, TypeOK, FieldsOK
<1>7. \A e \in 0 .. MaxDocuments : Chain'[e] = Chain[e]
  BY <1>1, <1>2, SameChains
<1>8. LinksInv'
  <2>1. \A e \in Document : /\ Followed(e) => Followed(e)'
                            /\ IsSignedReport(e)' => IsSignedReport(e)
    BY <1>2, <1>5 DEF Followed, IsSignedReport
  <2> QED
    BY <1>1, <1>2, <2>1, Links DEF LinksInv
<1>9. ASSUME NEW u \in Transaction \ {t}
      PROVE  HoldsLinks(u)'
  <2> DEFINE n == MaxDocuments + 1
  <2>1. n \in Nat \ {0} /\ n \notin Document
    BY <1>1, Links DEF Document
  <2> HIDE DEF n
  <2>2. \A e \in tx[u].locked \cup tx[u].shared : e \in Document /\ e # d /\ e \notin fixed
    BY <1>1, <1>3 DEF LocksInv, TxState
  <2>3. ASSUME NEW e \in Document, predecessor'[e] = tx[u].doc, status'[e] = "issued",
               tx[u].op = "cancel"
        PROVE  predecessor[e] = tx[u].doc /\ status[e] = "issued"
    <3>1. tx[u].doc \in tx[u].locked /\ tx[u].doc # None
      BY <1>1, <2>2, <2>3, Links DEF HoldsRow
    <3>2. e # d
      BY <1>1, <1>2, <1>3, <2>3, <3>1 DEF LocksInv
    <3>3. e \notin fixed
      BY <1>1, <1>2, <1>3, <2>3, <3>1 DEF LinksInv
    <3> QED
      BY <1>2, <1>5, <2>3, <3>2, <3>3
  <2>4. \A e \in tx[u].locked \cup tx[u].shared : status'[e] = status[e] /\ kind'[e] = kind[e]
    BY <1>2, <1>5, <2>2
  <2>5. \A e \in Document :
           tx[u].op = "cancel" /\ predecessor'[e] = tx[u].doc /\ status'[e] = "issued" =>
              predecessor[e] = tx[u].doc /\ status[e] = "issued"
    BY <2>3
  <2>6. TypeOK /\ LinksInv /\ HoldsRow(u) /\ HoldsLinks(u) /\ tx'[u] = tx[u]
    BY <1>1, <1>6
  <2> QED
    BY <1>2, <2>1, <2>4, <2>5, <2>6, KeepsLinks
<1>10. HoldsLinks(t)'
  BY <1>6 DEF HoldsLinks, Walks, Idle
<1>11. \A q \in Document : Followed(q) /\ kind[q] = "progress_invoice" =>
          (status'[q] = "issued" <=> status[q] = "issued")
  BY <1>5 DEF Followed, IsSignedReport
<1>12. ASSUME NEW e \in Document, status'[e] = "issued", Deducts(kind'[e])
       PROVE  /\ deductions'[e] \subseteq Chain'[e]
              /\ {q \in Chain'[e] : kind'[q] = "progress_invoice" /\ status'[q] = "issued"}
                    \subseteq deductions'[e]
              /\ \A q \in deductions'[e] :
                    status'[q] = "issued"
                    \/ \E between \in Chain'[e] : q \in Chain'[between] /\ status'[between] = "cancelled"
  <2>1. Chain'[e] = Chain[e] /\ \A q \in Chain[e] : q \in Document /\ Followed(q) /\ Chain'[q] = Chain[q]
    BY <1>1, <1>7, ChainFollowed, Links
  <2>2. CASE e = d
    <3>1. Walks(t)
      BY <1>2, <1>12, <2>2 DEF Walks
    <3>2. Walked(t)
      BY <1>1, <3>1 DEF HoldsLinks
    <3>3. Chain[None] = {} /\ tx[t].next = None
      BY <1>1, <1>2, <3>2, ChainLink DEF Walked
    <3>4. /\ tx[t].shared = Chain[d]
          /\ tx[t].found = {q \in Chain[d] : kind[q] = "progress_invoice" /\ status[q] = "issued"}
      BY <3>2, <3>3 DEF Walked
    <3> QED
      BY <1>2, <1>5, <1>11, <2>1, <2>2, <3>4
  <2>3. CASE e # d
    <3>1. e \notin fixed
      BY <1>2, <1>5, <1>12 DEF Deducts
    <3>2. status[e] = "issued" /\ Deducts(kind[e]) /\ deductions'[e] = deductions[e]
      BY <1>2, <1>5, <1>12, <2>3, <3>1
    <3>3. /\ deductions[e] \subseteq Chain[e]
          /\ \A q \in Chain[e] : kind[q] = "progress_invoice" /\ status[q] = "issued" => q \in deductions[e]
          /\ \A q \in deductions[e] :
                status[q] = "issued"
                \/ \E between \in Chain[e] : q \in Chain[between] /\ status[between] = "cancelled"
      BY <1>1, <3>2 DEF TakenOffInv, DeductsItsChain
    <3>4. \A q \in Document : /\ status[q] = "issued" => status'[q] = "issued"
                              /\ status[q] = "cancelled" => status'[q] = "cancelled"
      BY <1>5
    <3> QED
      BY <1>2, <1>11, <2>1, <3>2, <3>3, <3>4
  <2> QED
    BY <2>2, <2>3
<1>13. TakenOffInv' /\ DeductsItsChain'
  BY <1>12 DEF TakenOffInv, DeductsItsChain
<1> QED
  BY <1>8, <1>9, <1>10, <1>13 DEF ChainInv

\* What follows the cancelled invoice is cancelled itself, and so between it and
\* whatever stands and took it off.
LEMMA LinksCancel ==
  ASSUME IInv, TypeOK', ChainInv, NEW t \in Transaction, Cancel(t)
  PROVE  ChainInv'
<1> DEFINE d == tx[t].doc
           c == New
<1>1. /\ TypeOK /\ FieldsOK /\ LinksInv /\ TakenOffInv /\ DeductsItsChain
      /\ \A u \in Transaction : tx[u] \in TxState /\ HoldsRow(u) /\ HoldsLinks(u)
      /\ LocksInv
  BY DEF IInv, TypeOK, FieldsOK, HeldInv, HoldsInv, ChainInv
<1>2. /\ tx[t].at = "write" /\ tx[t].op = "cancel" /\ To(t, Idle)
      /\ status[d] = "issued" /\ c \in Document
  BY DEF Cancel, Goes
<1>3. d \in Document /\ d \in tx[t].locked /\ IsCancellable(kind[d]) /\ d # None
  BY <1>1, <1>2, Links DEF HoldsRow, TxState
<1>4. c \in Nat \ {0} /\ ~Written(c) /\ \A u \in Transaction : c \notin tx[u].locked
  BY <1>2, NewRow
<1>5. /\ status' = [status EXCEPT ![d] = "cancelled", ![c] = "issued"]
      /\ kind' = [kind EXCEPT ![c] = "cancellation_invoice"]
      /\ predecessor' = [predecessor EXCEPT ![c] = d]
      /\ deductions' = [deductions EXCEPT ![c] = deductions[d]]
  BY DEF Cancel
<1> HIDE DEF c
<1>6. /\ c # d
      /\ status'[c] = "issued" /\ kind'[c] = "cancellation_invoice" /\ predecessor'[c] = d
      /\ status'[d] = "cancelled"
      /\ \A e \in Document \ {c} : /\ kind'[e] = kind[e] /\ predecessor'[e] = predecessor[e]
                                   /\ deductions'[e] = deductions[e]
      /\ \A e \in Document \ {c, d} : status'[e] = status[e]
  BY <1>1, <1>2, <1>3, <1>4, <1>5 DEF FieldsOK, Written
<1>7. tx'[t] = Idle /\ \A u \in Transaction \ {t} : tx'[u] = tx[u]
  BY <1>2 DEF To, IInv, TypeOK, FieldsOK
<1>8. \A e \in Document : Written(e) => Chain'[e] = Chain[e]
  BY <1>1, <1>2, <1>4, <1>6, OldChains, Links
<1>9. LinksInv'
  <2>1. \A e \in Document : Followed(e) => Followed(e)' /\ e # c
    BY <1>4, <1>6 DEF Followed, IsSignedReport, Written
  <2>2. \A e \in Document : IsSignedReport(e)' => IsSignedReport(e) /\ e # c
    BY <1>6 DEF IsSignedReport
  <2>3. \A e \in Document : e = d => Followed(e)'
    BY <1>6 DEF Followed
  <2>4. ASSUME NEW e \in Document, predecessor'[e] # None
        PROVE  predecessor'[e] \in Document /\ (Followed(predecessor'[e]) \/ predecessor'[e] = d)
    BY <1>1, <1>3, <1>6, <2>4, Links DEF LinksInv
  <2>5. \A e \in Document : IsSignedReport(e)' => predecessor'[e] = None
    BY <1>1, <1>6, <2>2 DEF LinksInv
  <2> QED
    BY <2>1, <2>3, <2>4, <2>5 DEF LinksInv
<1>10. ASSUME NEW u \in Transaction \ {t}
       PROVE  HoldsLinks(u)'
  <2>1. \A e \in tx[u].locked \cup tx[u].shared : e \in Document /\ e # d /\ e # c
    BY <1>1, <1>3, <1>4, SharedIsWritten DEF LocksInv, TxState
  <2>2. ASSUME NEW e \in Document, predecessor'[e] = tx[u].doc, status'[e] = "issued",
               tx[u].op = "cancel"
        PROVE  predecessor[e] = tx[u].doc /\ status[e] = "issued"
    <3>1. tx[u].doc # d
      BY <1>1, <2>1, <2>2 DEF HoldsRow
    <3> QED
      BY <1>6, <2>2, <3>1
  <2>3. \A e \in tx[u].locked \cup tx[u].shared : status'[e] = status[e] /\ kind'[e] = kind[e]
    BY <1>6, <2>1
  <2>4. \A e \in Document :
           tx[u].op = "cancel" /\ predecessor'[e] = tx[u].doc /\ status'[e] = "issued" =>
              predecessor[e] = tx[u].doc /\ status[e] = "issued"
    BY <2>2
  <2>5. /\ TypeOK /\ LinksInv /\ HoldsRow(u) /\ HoldsLinks(u) /\ tx'[u] = tx[u]
        /\ \A e \in Document \ {c} : predecessor'[e] = predecessor[e]
    BY <1>1, <1>6, <1>7
  <2> QED
    BY <1>4, <2>3, <2>4, <2>5, KeepsLinks
<1>11. HoldsLinks(t)'
  BY <1>7 DEF HoldsLinks, Walks, Idle
<1>12. ASSUME NEW e \in Document, status'[e] = "issued", Deducts(kind'[e])
       PROVE  /\ deductions'[e] \subseteq Chain'[e]
              /\ {q \in Chain'[e] : kind'[q] = "progress_invoice" /\ status'[q] = "issued"}
                    \subseteq deductions'[e]
              /\ \A q \in deductions'[e] :
                    status'[q] = "issued"
                    \/ \E between \in Chain'[e] : q \in Chain'[between] /\ status'[between] = "cancelled"
  <2>1. e # c /\ e # d
    BY <1>6, <1>12 DEF Deducts
  <2>2. /\ status[e] = "issued" /\ Deducts(kind[e])
        /\ deductions'[e] = deductions[e] /\ Chain'[e] = Chain[e]
    BY <1>6, <1>8, <1>12, <2>1 DEF Written
  <2>3. \A q \in Chain[e] : q \in Document /\ Followed(q) /\ q # c /\ Chain'[q] = Chain[q]
    BY <1>1, <1>4, <1>8, ChainFollowed
  <2>4. /\ deductions[e] \subseteq Chain[e]
        /\ \A q \in Chain[e] : kind[q] = "progress_invoice" /\ status[q] = "issued" => q \in deductions[e]
        /\ \A q \in deductions[e] :
              status[q] = "issued"
              \/ \E between \in Chain[e] : q \in Chain[between] /\ status[between] = "cancelled"
    BY <1>1, <2>2 DEF TakenOffInv, DeductsItsChain
  <2>5. \A q \in Chain[e] : kind'[q] = kind[q] /\ (status'[q] = "issued" => status[q] = "issued")
    BY <1>6, <2>3
  <2>6. ASSUME NEW q \in deductions[e]
        PROVE  status'[q] = "issued"
               \/ \E between \in Chain[e] : q \in Chain'[between] /\ status'[between] = "cancelled"
    <3>1. q \in Chain[e] /\ q \in Document /\ q # c
      BY <2>3, <2>4
    <3>2. CASE status[q] = "issued" /\ q # d
      BY <1>6, <3>1, <3>2
    <3>3. CASE q = d
      <4>1. PICK link \in Document : /\ link = e \/ link \in Chain[e]
                                     /\ predecessor[link] = d /\ d \in Chain[link]
        BY <1>1, <3>1, <3>3, ChainShape
      <4>2. status[link] # "issued"
        BY <1>1, <1>2, <4>1 DEF HoldsLinks
      <4>3. link \in Chain[e] /\ Followed(link) /\ ~IsSignedReport(link)
        BY <1>1, <1>3, <2>2, <2>3, <4>1, <4>2 DEF LinksInv
      <4>4. status[link] = "cancelled" /\ link # c /\ link # d
        BY <1>2, <2>3, <4>2, <4>3 DEF Followed
      <4> QED
        BY <1>6, <2>3, <3>3, <4>1, <4>3, <4>4
    <3>4. CASE \E between \in Chain[e] : q \in Chain[between] /\ status[between] = "cancelled"
      BY <1>2, <1>6, <2>3, <3>4
    <3> QED
      BY <2>4, <3>2, <3>3, <3>4
  <2> QED
    BY <2>2, <2>4, <2>5, <2>6
<1>13. TakenOffInv' /\ DeductsItsChain'
  BY <1>12 DEF TakenOffInv, DeductsItsChain
<1> QED
  BY <1>9, <1>10, <1>11, <1>13 DEF ChainInv

LEMMA InitChainInv == Init => IInv /\ ChainInv
<1> SUFFICES ASSUME Init
             PROVE  ChainInv
  BY InitIInv
<1>1. \A t \in Transaction : HoldsLinks(t)
  BY DEF Init, HoldsLinks, Walks, Idle
<1>2. \A d \in Document : status[d] = "unwritten" /\ predecessor[d] = None
  BY DEF Init
<1> QED
  BY <1>1, <1>2 DEF ChainInv, LinksInv, IsSignedReport, TakenOffInv, DeductsItsChain

LEMMA NextChainInv == IInv /\ ChainInv /\ [Next]_vars => IInv' /\ ChainInv'
<1> SUFFICES ASSUME IInv, ChainInv, [Next]_vars
             PROVE  ChainInv'
  BY NextIInv
<1>1. TypeOK'
  BY NextIInv DEF IInv
<1>2. CASE UNCHANGED vars
  BY <1>1, <1>2, LinksBeside DEF vars, documents
<1>3. ASSUME NEW k \in WrittenKinds, Create(k)
      PROVE  ChainInv'
  BY <1>1, <1>3, LinksNewDraft
<1>4. ASSUME NEW d \in Document,
             \/ WriteLine(d) \/ Remove(d) \/ Sign(d) \/ RecordPayment(d) \/ RemovePayment(d)
             \/ \E k \in WrittenKinds : Update(d, k)
      PROVE  ChainInv'
  BY <1>1, <1>4, LinksStatements
<1>5. ASSUME NEW k \in WrittenKinds, ChangeNumberRange(NumberRangeOf(k))
      PROVE  ChainInv'
  BY <1>1, <1>5, LinksBeside DEF ChangeNumberRange, documents
<1>6. ASSUME NEW t \in Transaction, RollBack(t) \/ Books(t)
      PROVE  ChainInv'
  BY <1>1, <1>6, LinksRollBack, LinksPredecessor, LinksReadContent, LinksDeductionsFor,
     LinksIssueWith, LinksNewDraft, LinksCheckCancellation, LinksDrawNumber, LinksCancel
     DEF Books, Issue
<1>7. ASSUME NEW t \in Transaction, NEW d \in Document,
             LockForIssue(t, d) \/ LockForCancel(t, d) \/ \E k \in Kind : LockForSuccessor(t, d, k)
      PROVE  ChainInv'
  BY <1>1, <1>7, LinksBegin
<1> QED
  BY <1>2, <1>3, <1>4, <1>5, <1>6, <1>7 DEF Next

\* An issued invoice has taken off every progress invoice before it that stands,
\* and one it took off goes only after a link between the two went, whatever is
\* issued, continued and cancelled at the same time (deductionsFor and
\* cancelDocument, documents/service.ts).
THEOREM TakesOffItsChain == Spec => []DeductsItsChain
<1>1. IInv /\ ChainInv => DeductsItsChain
  BY DEF ChainInv
<1>2. Spec => [](IInv /\ ChainInv)
  BY InitChainInv, NextChainInv, PTL DEF Spec
<1> QED
  BY <1>1, <1>2, PTL
=============================================================================

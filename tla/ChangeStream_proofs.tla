------------------------- MODULE ChangeStream_proofs ------------------------
(***************************************************************************)
(* What holds of the delta pull for every number of rows, tables, writers  *)
(* and pages, and without the bounds a model is checked under.             *)
(*                                                                         *)
(* The safety of the cursor rests on three parts: the counter is drawn by  *)
(* one transaction at a time and above everything committed (CounterInv),  *)
(* the device holds what lies behind its cursor (DeviceInv), and the       *)
(* answer under way is complete up to where it will end (PullInv).         *)
(***************************************************************************)
EXTENDS ChangeStream, FiniteSetTheorems, TLAPS

CounterInv ==
    /\ counter # 0
    /\ \A v, w \in Writer : HoldsCounter(v) /\ HoldsCounter(w) => v = w
    /\ \A w \in Writer : HoldsCounter(w) => counter < drawn[w]
    /\ \A w \in Writer, r \in Row :
          pending[w][r] # 0 => counter < pending[w][r] /\ pending[w][r] <= drawn[w]
    /\ \A r \in Row : seq[r] <= counter

DeviceInv ==
    /\ cursor <= counter
    /\ stored <= cursor
    /\ \A r \in Row : held[r] <= seq[r]
    /\ NothingBehindCursor

Underway == phase \in {"reading", "writing"}

HasRead(r) == phase = "writing" \/ TableOf[r] < table

\* Where the answer of the tables read so far can end at the latest.
Covered(r) ==
    /\ cursor < seq[r] /\ seq[r] <= seen
    /\ stoppedAt # 0 => seq[r] <= stoppedAt

PullInv ==
    Underway =>
        /\ seen # 0 /\ cursor <= seen /\ seen <= counter
        /\ cursor <= highest
        /\ stoppedAt # 0 => cursor < stoppedAt
        /\ \A r \in Row : answer[r] # 0 => cursor < answer[r] /\ answer[r] <= seq[r]
        /\ \A r \in Row : ~HasRead(r) => answer[r] = 0
        /\ \A r \in Row : HasRead(r) /\ Covered(r) => answer[r] = seq[r]
        /\ \A r \in Row :
              phase = "writing" /\ TableOf[r] < table /\ answer[r] # 0
                  => held[r] = answer[r]

IInv == TypeOK /\ CounterInv /\ DeviceInv /\ PullInv


-----------------------------------------------------------------------------
(* Types. *)

\* The initial state has its types, and every step keeps them.
LEMMA InitTypeOK == Init => TypeOK
  BY ChangeStreamAssumption DEF Init, TypeOK, Nothing, Phase

\* The transactions, the pull, the store of the device: each keeps the types.
LEMMA NextTypeOK == TypeOK /\ [Next]_vars => TypeOK'
<1> SUFFICES ASSUME TypeOK, [Next]_vars PROVE TypeOK'
  OBVIOUS
<1> USE ChangeStreamAssumption
<1>1. ASSUME NEW w \in Writer, NEW r \in Row, Stamp(w, r) PROVE TypeOK'
  <2>1. NextSyncSequence(w) \in Nat
    BY DEF NextSyncSequence, TypeOK
  <2> QED
    BY <1>1, <2>1 DEF Stamp, TypeOK, pullVars, deviceVars
<1>2. ASSUME NEW w \in Writer, Commit(w) PROVE TypeOK'
  BY <1>2 DEF Commit, Release, Nothing, TypeOK, pullVars, deviceVars
<1>3. ASSUME NEW w \in Writer, RollBack(w) PROVE TypeOK'
  BY <1>3 DEF RollBack, Release, Nothing, TypeOK, pullVars, deviceVars
<1>4. CASE ReadCounter
  BY <1>4 DEF ReadCounter, Nothing, Phase, TypeOK, serverVars, deviceVars
<1>5. CASE ReadTable
  <2>1. PICK page \in SUBSET ChangedIn(table) :
          /\ answer' = [r \in Row |-> IF r \in page THEN seq[r] ELSE answer[r]]
          /\ \/ page = {} /\ UNCHANGED <<highest, stoppedAt>>
             \/ \E last \in {seq[r] : r \in page} :
                  /\ highest' = IF last > highest THEN last ELSE highest
                  /\ stoppedAt' =
                       IF Cardinality(page) = Limit /\ (stoppedAt = 0 \/ last < stoppedAt)
                       THEN last ELSE stoppedAt
    BY <1>5 DEF ReadTable
  <2>2. answer' \in [Row -> Nat]
    BY <2>1 DEF TypeOK
  <2>3. highest' \in Nat /\ stoppedAt' \in Nat
    BY <2>1 DEF ChangedIn, TypeOK
  <2> QED
    BY <1>5, <2>2, <2>3 DEF ReadTable, TypeOK, serverVars, deviceVars
<1>6. CASE Answer
  BY <1>6 DEF Answer, Phase, TypeOK, serverVars, deviceVars
<1>7. CASE WriteRows
  BY <1>7 DEF WriteRows, TypeOK, serverVars
<1>8. CASE MoveCursor
  BY <1>8 DEF MoveCursor, AnswerCursor, Reached, Phase, TypeOK, serverVars, pullVars
<1>9. CASE PersistCursor
  BY <1>9 DEF PersistCursor, Phase, TypeOK, serverVars, pullVars
<1>10. CASE BreakOff
  BY <1>10 DEF BreakOff, Phase, TypeOK, serverVars, pullVars, deviceVars
<1>11. CASE Restart
  BY <1>11 DEF Restart, Phase, TypeOK, serverVars, pullVars
<1>12. CASE UNCHANGED vars
  BY <1>12 DEF vars, TypeOK, serverVars, pullVars, deviceVars
<1> QED
  BY <1>1, <1>2, <1>3, <1>4, <1>5, <1>6, <1>7, <1>8, <1>9, <1>10, <1>11, <1>12
  DEF Next, Pull

\* Every variable keeps its type, through every interleaving of transactions,
\* pulls, failures and restarts.
THEOREM TypeCorrect == Spec => []TypeOK
<1>1. Init => TypeOK
  BY InitTypeOK
<1>2. TypeOK /\ [Next]_vars => TypeOK'
  BY NextTypeOK
<1> QED
  BY <1>1, <1>2, PTL DEF Spec

-----------------------------------------------------------------------------
(* What a page of a table is, and what the answer ends at. *)

\* A page either took everything of its table or is full, and a full page
\* leaves out only what lies above it.
LEMMA PageIsComplete ==
  ASSUME NEW t, NEW page, IsPage(page, t)
  PROVE  \/ page = ChangedIn(t)
         \/ Cardinality(page) = Limit /\ page # {}
<1> USE ChangeStreamAssumption
<1>1. IsFiniteSet(page)
  <2>1. page \subseteq Row
    BY DEF IsPage, ChangedIn
  <2> QED
    BY <2>1, FS_Subset
<1>2. Cardinality(page) \in Nat
  BY <1>1, FS_CardinalityType
<1>3. CASE Cardinality(page) < Limit
  BY <1>3 DEF IsPage
<1>4. CASE Cardinality(page) = Limit
  BY <1>4, FS_EmptySet
<1> QED
  BY <1>2, <1>3, <1>4 DEF IsPage

\* The cursor an answer ends at: never back, never above the counter as it
\* was read, never above a full table.
LEMMA AnswerCursorBounds ==
  ASSUME TypeOK, PullInv, Underway
  PROVE  /\ cursor <= AnswerCursor /\ AnswerCursor <= seen
         /\ stoppedAt # 0 => AnswerCursor <= stoppedAt
  BY DEF TypeOK, PullInv, AnswerCursor, Reached

-----------------------------------------------------------------------------
(* The invariant behind the safety of the cursor. *)

\* At the start nothing is handed out above the counter and no cursor has moved.
LEMMA InitIInv == ASSUME FirstCounter # 0 PROVE Init => IInv
<1> SUFFICES ASSUME Init PROVE IInv
  OBVIOUS
<1>1. TypeOK
  BY InitTypeOK
<1>2. CounterInv
  BY ChangeStreamAssumption DEF Init, CounterInv, HoldsCounter, Nothing
<1>3. DeviceInv
  BY ChangeStreamAssumption DEF Init, DeviceInv, NothingBehindCursor, Nothing
<1>4. PullInv
  BY DEF Init, PullInv, Underway
<1> QED
  BY <1>1, <1>2, <1>3, <1>4 DEF IInv

\* One transaction draws at a time, so what is not committed lies above the
\* counter, and above everything that is.
LEMMA NextCounterInv == TypeOK /\ CounterInv /\ [Next]_vars => CounterInv'
<1> SUFFICES ASSUME TypeOK, CounterInv, [Next]_vars PROVE CounterInv'
  OBVIOUS
<1>1. ASSUME NEW w \in Writer, NEW r \in Row, Stamp(w, r) PROVE CounterInv'
  <2> DEFINE n == NextSyncSequence(w)
  <2>1. n \in Nat /\ counter < n /\ drawn[w] < n
    BY DEF NextSyncSequence, HoldsCounter, TypeOK, CounterInv
  <2>2. \A v \in Writer : drawn'[v] = IF v = w THEN n ELSE drawn[v]
    BY <1>1 DEF Stamp, TypeOK
  <2>3. \A v \in Writer, q \in Row :
          pending'[v][q] = IF v = w /\ q = r THEN n ELSE pending[v][q]
    BY <1>1 DEF Stamp, TypeOK
  <2>4. \A v \in Writer \ {w} : drawn[v] = 0
    BY <1>1 DEF Stamp, HoldsCounter
  <2>5. counter' = counter /\ seq' = seq
    BY <1>1 DEF Stamp
  <2> HIDE DEF n
  <2>6. \A v, u \in Writer : HoldsCounter(v)' /\ HoldsCounter(u)' => v = u
    BY <2>2, <2>4 DEF HoldsCounter
  <2>7. \A v \in Writer : HoldsCounter(v)' => counter' < drawn'[v]
    BY <2>1, <2>2, <2>4, <2>5 DEF HoldsCounter
  <2>8. \A v \in Writer, q \in Row :
          pending'[v][q] # 0 => counter' < pending'[v][q] /\ pending'[v][q] <= drawn'[v]
    BY <2>1, <2>2, <2>3, <2>5 DEF CounterInv, TypeOK
  <2> QED
    BY <2>5, <2>6, <2>7, <2>8 DEF CounterInv
<1>2. ASSUME NEW w \in Writer, Commit(w) PROVE CounterInv'
  <2>1. drawn[w] \in Nat /\ counter < drawn[w] /\ counter' = drawn[w]
    BY <1>2 DEF Commit, CounterInv, TypeOK
  <2>2. \A v \in Writer : drawn'[v] = 0 /\ \A q \in Row : pending'[v][q] = 0
    BY <1>2 DEF Commit, Release, Nothing, HoldsCounter, CounterInv, TypeOK
  <2>3. \A q \in Row : seq'[q] <= counter'
    BY <1>2, <2>1 DEF Commit, CounterInv, TypeOK
  <2> QED
    BY <2>1, <2>2, <2>3 DEF CounterInv, HoldsCounter, TypeOK
<1>3. ASSUME NEW w \in Writer, RollBack(w) PROVE CounterInv'
  BY <1>3 DEF RollBack, Release, Nothing, HoldsCounter, CounterInv, TypeOK
<1>4. CASE UNCHANGED serverVars
  BY <1>4 DEF serverVars, CounterInv, HoldsCounter
<1> QED
  BY <1>1, <1>2, <1>3, <1>4
  DEF Next, Pull, ReadCounter, ReadTable, Answer, WriteRows, MoveCursor, PersistCursor,
      BreakOff, Restart, vars

\* A commit moves the rows it wrote above the counter, and no row back.
LEMMA CommitMovesUp ==
  ASSUME TypeOK, CounterInv, NEW w \in Writer, Commit(w)
  PROVE  /\ counter < counter'
         /\ \A r \in Row : seq'[r] = seq[r] \/ counter < seq'[r]
         /\ \A r \in Row : seq[r] <= seq'[r]
  BY DEF Commit, CounterInv, HoldsCounter, TypeOK

\* The device holds what lies behind its cursors, whatever is committed and
\* wherever an exchange breaks off.
LEMMA NextDeviceInv == IInv /\ [Next]_vars => DeviceInv'
<1> SUFFICES ASSUME IInv, [Next]_vars PROVE DeviceInv'
  OBVIOUS
<1> USE DEF IInv
<1>1. CASE UNCHANGED <<seq, counter, deviceVars>>
  BY <1>1 DEF DeviceInv, NothingBehindCursor, deviceVars
<1>2. ASSUME NEW w \in Writer, Commit(w) PROVE DeviceInv'
  <2>1. UNCHANGED deviceVars
    BY <1>2 DEF Commit
  <2>2. /\ counter < counter'
        /\ \A r \in Row : seq'[r] = seq[r] \/ counter < seq'[r]
        /\ \A r \in Row : seq[r] <= seq'[r]
    BY <1>2, CommitMovesUp
  <2>3. \A r \in Row : seq'[r] \in Nat
    BY NextTypeOK DEF TypeOK
  <2>4. counter' \in Nat
    BY NextTypeOK DEF TypeOK
  <2> QED
    BY <2>1, <2>2, <2>3, <2>4 DEF DeviceInv, NothingBehindCursor, TypeOK, deviceVars
<1>3. CASE WriteRows
  <2>1. UNCHANGED <<seq, counter, cursor, stored>>
    BY <1>3 DEF WriteRows, serverVars
  <2>2. \A r \in Row : answer[r] # 0 => cursor < answer[r] /\ answer[r] <= seq[r]
    BY <1>3 DEF WriteRows, PullInv, Underway
  <2>3. \A r \in Row : held'[r] = IF TableOf[r] = table /\ answer[r] # 0
                                  THEN answer[r] ELSE held[r]
    BY <1>3 DEF WriteRows
  <2> QED
    BY <2>1, <2>2, <2>3 DEF DeviceInv, NothingBehindCursor, TypeOK
<1>4. CASE MoveCursor
  <2>1. UNCHANGED <<seq, counter, held, stored>>
    BY <1>4 DEF MoveCursor, serverVars
  <2>2. Underway /\ phase = "writing" /\ cursor' = AnswerCursor
    BY <1>4 DEF MoveCursor, Underway
  <2>3. cursor <= cursor' /\ cursor' <= seen /\ (stoppedAt # 0 => cursor' <= stoppedAt)
    BY <2>2, AnswerCursorBounds
  <2>4. cursor' \in Nat
    BY NextTypeOK DEF TypeOK
  <2>5. cursor' <= counter'
    BY <2>1, <2>2, <2>3, <2>4 DEF PullInv, TypeOK
  <2>6. ASSUME NEW r \in Row, seq[r] <= cursor' PROVE held[r] = seq[r]
    <3>1. CASE seq[r] <= cursor
      BY <3>1 DEF DeviceInv, NothingBehindCursor
    <3>2. CASE cursor < seq[r]
      <4>1. HasRead(r) /\ Covered(r)
        BY <2>2, <2>3, <2>4, <2>6, <3>2 DEF HasRead, Covered, TypeOK
      <4>2. answer[r] = seq[r] /\ answer[r] # 0
        BY <2>2, <3>2, <4>1 DEF PullInv, TypeOK
      <4>3. TableOf[r] < table
        BY <1>4, ChangeStreamAssumption DEF MoveCursor, TypeOK
      <4> QED
        BY <2>2, <4>2, <4>3 DEF PullInv
    <3> QED
      BY <3>1, <3>2 DEF TypeOK
  <2> QED
    BY <2>1, <2>3, <2>4, <2>5, <2>6 DEF DeviceInv, NothingBehindCursor, TypeOK
<1>5. CASE PersistCursor
  BY <1>5 DEF PersistCursor, DeviceInv, NothingBehindCursor, TypeOK, serverVars
<1>6. CASE Restart
  BY <1>6 DEF Restart, DeviceInv, NothingBehindCursor, TypeOK, serverVars
<1> QED
  BY <1>1, <1>2, <1>3, <1>4, <1>5, <1>6
  DEF Next, Pull, Stamp, RollBack, ReadCounter, ReadTable, Answer, BreakOff, vars, serverVars

\* The answer stays complete under whatever is committed while it is read: a
\* commit only adds rows above what the counter was.
LEMMA NextPullInv == IInv /\ [Next]_vars => PullInv'
<1> SUFFICES ASSUME IInv, [Next]_vars, Underway' PROVE PullInv'
  BY DEF PullInv, Underway
<1> USE DEF IInv
<1>1. CASE UNCHANGED <<seq, counter, phase, pullVars, deviceVars>>
  BY <1>1 DEF PullInv, Underway, HasRead, Covered, pullVars, deviceVars
<1>2. ASSUME NEW w \in Writer, Commit(w) PROVE PullInv'
  <2>1. UNCHANGED <<phase, pullVars, deviceVars>> /\ Underway
    BY <1>2 DEF Commit, Underway
  <2>2. /\ counter < counter'
        /\ \A r \in Row : seq'[r] = seq[r] \/ counter < seq'[r]
        /\ \A r \in Row : seq[r] <= seq'[r]
    BY <1>2, CommitMovesUp
  <2>3. counter' \in Nat /\ \A r \in Row : seq'[r] \in Nat
    BY NextTypeOK DEF TypeOK
  <2>4. \A r \in Row : Covered(r)' => Covered(r) /\ seq'[r] = seq[r]
    BY <2>1, <2>2, <2>3 DEF Covered, PullInv, TypeOK, pullVars, deviceVars
  <2>5. \A r \in Row : answer[r] # 0 => cursor < answer[r] /\ answer[r] <= seq'[r]
    BY <2>1, <2>2, <2>3 DEF PullInv, TypeOK
  <2>6. seen # 0 /\ cursor <= seen /\ seen <= counter'
    BY <2>1, <2>2, <2>3 DEF PullInv, TypeOK
  <2> QED
    BY <2>1, <2>4, <2>5, <2>6 DEF PullInv, HasRead, pullVars, deviceVars
<1>3. CASE ReadCounter
  <2>1. \A r \in Row : ~HasRead(r)' /\ answer'[r] = 0
    BY <1>3, ChangeStreamAssumption DEF ReadCounter, HasRead, Nothing
  <2> QED
    BY <1>3, <2>1
    DEF ReadCounter, PullInv, CounterInv, DeviceInv, TypeOK, serverVars, deviceVars
<1>4. CASE ReadTable
  <2>1. /\ Underway /\ phase = "reading" /\ phase' = "reading" /\ table' = table + 1
        /\ UNCHANGED <<seq, counter, seen, held, cursor>>
    BY <1>4 DEF ReadTable, Underway, serverVars, deviceVars
  <2>2. PICK page \in SUBSET ChangedIn(table) :
          /\ IsPage(page, table)
          /\ answer' = [r \in Row |-> IF r \in page THEN seq[r] ELSE answer[r]]
          /\ \/ /\ page = {}
                /\ UNCHANGED <<highest, stoppedAt>>
             \/ \E last \in {seq[r] : r \in page} :
                  /\ \A r \in page : seq[r] <= last
                  /\ highest' = IF last > highest THEN last ELSE highest
                  /\ stoppedAt' =
                       IF Cardinality(page) = Limit /\ (stoppedAt = 0 \/ last < stoppedAt)
                       THEN last ELSE stoppedAt
    BY <1>4 DEF ReadTable
  <2>3. page = ChangedIn(table) \/ (Cardinality(page) = Limit /\ page # {})
    BY <2>2, PageIsComplete
  <2>4. \A r \in page : r \in Row /\ TableOf[r] = table /\ cursor < seq[r]
    BY DEF ChangedIn, TypeOK
  <2>5. cursor <= highest' /\ (stoppedAt' # 0 => cursor < stoppedAt')
    BY <2>1, <2>2, <2>4 DEF PullInv, TypeOK
  <2>6. stoppedAt # 0 => stoppedAt' # 0 /\ stoppedAt' <= stoppedAt
    BY <2>2, <2>4 DEF PullInv, TypeOK
  <2>7. ASSUME NEW r \in Row, r \notin page, TableOf[r] = table, Covered(r)' PROVE FALSE
    <3>1. r \in ChangedIn(table) \ page /\ Cardinality(page) = Limit /\ page # {}
      BY <2>1, <2>3, <2>7 DEF ChangedIn, Covered, TypeOK
    <3>2. PICK last \in {seq[q] : q \in page} :
            stoppedAt' = IF stoppedAt = 0 \/ last < stoppedAt THEN last ELSE stoppedAt
      BY <2>2, <3>1
    <3>3. last < seq[r] /\ last \in Nat /\ last # 0
      BY <2>2, <2>4, <3>1, <3>2 DEF IsPage, TypeOK
    <3>4. stoppedAt' # 0 /\ stoppedAt' <= last
      BY <3>2, <3>3 DEF TypeOK
    <3>5. seq[r] <= stoppedAt'
      BY <2>1, <2>7, <3>4 DEF Covered
    <3>6. stoppedAt' \in Nat
      BY NextTypeOK DEF TypeOK
    <3> QED
      BY <3>3, <3>4, <3>5, <3>6 DEF TypeOK
  <2>8. ASSUME NEW r \in Row, HasRead(r)', Covered(r)' PROVE answer'[r] = seq'[r]
    <3>1. CASE r \in page
      BY <2>1, <2>2, <3>1
    <3>2. CASE r \notin page
      <4>1. TableOf[r] < table
        BY <2>1, <2>7, <2>8, <3>2, ChangeStreamAssumption DEF HasRead, TypeOK
      <4>2. HasRead(r) /\ Covered(r)
        BY <2>1, <2>6, <2>8, <4>1, NextTypeOK DEF HasRead, Covered, TypeOK
      <4> QED
        BY <2>1, <2>2, <3>2, <4>2 DEF PullInv
    <3> QED
      BY <3>1, <3>2
  <2>9. ASSUME NEW r \in Row, ~HasRead(r)' PROVE answer'[r] = 0
    <3>1. ~HasRead(r) /\ TableOf[r] # table
      BY <2>1, <2>9, ChangeStreamAssumption DEF HasRead, TypeOK
    <3> QED
      BY <2>1, <2>2, <2>4, <3>1 DEF PullInv
  <2>10. ASSUME NEW r \in Row, answer'[r] # 0
         PROVE  cursor' < answer'[r] /\ answer'[r] <= seq'[r]
    BY <2>1, <2>2, <2>4, <2>10 DEF PullInv, TypeOK
  <2> QED
    BY <2>1, <2>5, <2>8, <2>9, <2>10 DEF PullInv
<1>5. CASE Answer
  <2>1. \A r \in Row : TableOf[r] < table /\ ~(TableOf[r] < table')
    BY <1>5, ChangeStreamAssumption DEF Answer, TypeOK
  <2> QED
    BY <1>5, <2>1
    DEF Answer, PullInv, Underway, HasRead, Covered, serverVars, deviceVars
<1>6. CASE WriteRows
  <2>1. /\ Underway /\ phase = "writing" /\ phase' = "writing" /\ table' = table + 1
        /\ UNCHANGED <<seq, counter, seen, answer, highest, stoppedAt, cursor>>
        /\ \A r \in Row : held'[r] = IF TableOf[r] = table /\ answer[r] # 0
                                     THEN answer[r] ELSE held[r]
    BY <1>6 DEF WriteRows, Underway, serverVars
  <2>2. ASSUME NEW r \in Row, TableOf[r] < table', answer'[r] # 0
        PROVE  held'[r] = answer'[r]
    <3>1. answer'[r] = answer[r] /\ answer[r] # 0
      BY <2>1, <2>2
    <3>2. CASE TableOf[r] = table
      BY <2>1, <3>1, <3>2
    <3>3. CASE TableOf[r] # table
      <4>1. TableOf[r] \in Nat /\ table \in Nat
        BY ChangeStreamAssumption DEF TypeOK
      <4>2. TableOf[r] < table + 1
        BY <2>1, <2>2
      <4>3. TableOf[r] < table
        BY <3>3, <4>1, <4>2
      <4> QED
        BY <2>1, <3>1, <3>3, <4>3 DEF PullInv
    <3> QED
      BY <3>2, <3>3
  <2> QED
    BY <2>1, <2>2 DEF PullInv, HasRead, Covered
<1>7. CASE MoveCursor \/ PersistCursor \/ BreakOff \/ Restart
  BY <1>7 DEF MoveCursor, PersistCursor, BreakOff, Restart, Underway
<1> QED
  BY <1>1, <1>2, <1>3, <1>4, <1>5, <1>6, <1>7
  DEF Next, Pull, Stamp, RollBack, vars, serverVars

\* The conjunction is inductive.
LEMMA NextIInv == IInv /\ [Next]_vars => IInv'
  BY NextTypeOK, NextCounterInv, NextDeviceInv, NextPullInv DEF IInv

\* The invariant holds of every state a tenant with a counter can reach.
THEOREM Invariance == ASSUME FirstCounter # 0 PROVE Spec => []IInv
<1>1. Init => IInv
  BY InitIInv
<1>2. IInv /\ [Next]_vars => IInv'
  BY NextIInv
<1> QED
  BY <1>1, <1>2, PTL DEF Spec

-----------------------------------------------------------------------------
(* What follows for a tenant whose counter has a row. *)

\* No change is lost behind the cursor, in memory or in the store, whatever is
\* committed between the statements of a pull and wherever an exchange breaks
\* off.
THEOREM NothingIsLost ==
  ASSUME FirstCounter # 0
  PROVE  Spec => [](NothingBehindCursor /\ NothingBehindStored)
<1>1. IInv => NothingBehindCursor /\ NothingBehindStored
  <2> SUFFICES ASSUME IInv, NEW r \in Row, seq[r] <= stored PROVE held[r] = seq[r]
    BY DEF IInv, DeviceInv, NothingBehindStored
  <2>1. seq[r] <= cursor
    BY DEF IInv, DeviceInv, TypeOK
  <2> QED
    BY <2>1 DEF IInv, DeviceInv, NothingBehindCursor
<1>2. Spec => []IInv
  BY Invariance
<1> QED
  BY <1>1, <1>2, PTL

\* The cursor of a device moves back only to what its store says at a restart.
THEOREM CursorMovesForward == ASSUME FirstCounter # 0 PROVE Spec => CursorOnlyForward
<1> DEFINE Forward == cursor' >= cursor \/ (cursor' = stored /\ phase' = "idle")
<1>1. IInv /\ [Next]_vars => [Forward]_vars
  <2> SUFFICES ASSUME IInv, Next PROVE Forward
    OBVIOUS
  <2>1. CASE MoveCursor
    BY <2>1, AnswerCursorBounds DEF MoveCursor, Underway, IInv, TypeOK, AnswerCursor, Reached
  <2>2. CASE Restart
    BY <2>2 DEF Restart
  <2>3. CASE UNCHANGED cursor
    BY <2>3 DEF IInv, TypeOK
  <2> QED
    BY <2>1, <2>2, <2>3
    DEF Next, Pull, Stamp, Commit, RollBack, ReadCounter, ReadTable, Answer, WriteRows,
        PersistCursor, BreakOff, deviceVars
<1>2. Spec => []IInv
  BY Invariance
<1> QED
  BY <1>1, <1>2, PTL DEF Spec, CursorOnlyForward

=============================================================================

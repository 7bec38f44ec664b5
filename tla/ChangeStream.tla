---------------------------- MODULE ChangeStream ----------------------------
(***************************************************************************)
(* The delta pull of the offline sync: the counter of a tenant that stamps *)
(* every row a transaction writes, the reading of what changed since a     *)
(* cursor, statement by statement, and the device that writes the answer   *)
(* into its store and moves its cursor behind it.                          *)
(*                                                                         *)
(* A row is its change sequence: every write stamps a new one, so the      *)
(* number says which of its states somebody holds.                         *)
(***************************************************************************)
EXTENDS Naturals, FiniteSets

CONSTANTS
    Row,            \* the rows of the tenant that travel
    Writer,         \* transactions that may run at the same time
    TableCount,     \* the tables a pull reads, in the order 1 .. TableCount
    TableOf,        \* the table each row lies in
    Limit,          \* rows of one table in one answer
    FirstCounter,   \* the counter at the start, 0 for a tenant without one yet
    MaxCounter,     \* bound: numbers the counter hands out
    MaxFailures     \* bound: restarts, lost answers and refused writes

ASSUME ChangeStreamAssumption ==
    /\ IsFiniteSet(Row)
    /\ TableCount \in Nat \ {0}
    /\ TableOf \in [Row -> 1 .. TableCount]
    /\ Limit \in Nat \ {0}
    /\ FirstCounter \in Nat
    /\ MaxCounter \in Nat
    /\ MaxFailures \in Nat

VARIABLES
    seq,        \* committed change_sequence of each row, 0 while there is no row
    counter,    \* committed sync_sequences.next_value, 0 while there is no counter
    drawn,      \* last number each open transaction drew, 0 when it drew none
    pending,    \* what each open transaction wrote and has not committed
    phase,      \* what the exchange of the device is doing
    table,      \* the table the reading, then the writing, comes to next
    seen,       \* the counter as the first statement of the pull read it
    answer,     \* the rows read so far, 0 for a row that is not among them
    highest,    \* the highest number read so far
    stoppedAt,  \* where the first full table stopped, 0 when none was full
    held,       \* the rows in the store of the device
    cursor,     \* the cursor in the memory of the device
    stored,     \* the cursor in the store of the device
    failures    \* how often something went wrong so far

serverVars == <<seq, counter, drawn, pending>>
pullVars   == <<table, seen, answer, highest, stoppedAt>>
deviceVars == <<held, cursor, stored>>
vars       == <<serverVars, phase, pullVars, deviceVars, failures>>

Nothing == [r \in Row |-> 0]
Phase   == {"idle", "reading", "writing", "persisting"}

TypeOK ==
    /\ seq \in [Row -> Nat] /\ counter \in Nat
    /\ drawn \in [Writer -> Nat] /\ pending \in [Writer -> [Row -> Nat]]
    /\ phase \in Phase
    /\ table \in 1 .. TableCount + 1
    /\ seen \in Nat /\ answer \in [Row -> Nat]
    /\ highest \in Nat /\ stoppedAt \in Nat
    /\ held \in [Row -> Nat] /\ cursor \in Nat /\ stored \in Nat
    /\ failures \in 0 .. MaxFailures

Init ==
    /\ seq = Nothing
    /\ counter = FirstCounter
    /\ drawn = [w \in Writer |-> 0]
    /\ pending = [w \in Writer |-> Nothing]
    /\ phase = "idle"
    /\ table = 1
    /\ seen = 0 /\ answer = Nothing /\ highest = 0 /\ stoppedAt = 0
    /\ held = Nothing /\ cursor = 0 /\ stored = 0
    /\ failures = 0

-----------------------------------------------------------------------------
(* The writing transactions. *)

\* next_sync_sequence: the upsert holds the row of the counter until its
\* transaction ends, so only one transaction at a time draws.
HoldsCounter(w) == drawn[w] # 0

NextSyncSequence(w) == IF HoldsCounter(w) THEN drawn[w] + 1 ELSE counter + 1

\* The trigger stamps a row that is written; others see it at the commit.
Stamp(w, r) ==
    /\ \A v \in Writer \ {w} : ~HoldsCounter(v)
    /\ NextSyncSequence(w) <= MaxCounter
    /\ drawn' = [drawn EXCEPT ![w] = NextSyncSequence(w)]
    /\ pending' = [pending EXCEPT ![w][r] = NextSyncSequence(w)]
    /\ UNCHANGED <<seq, counter, phase, pullVars, deviceVars, failures>>

Release(w) ==
    /\ drawn' = [drawn EXCEPT ![w] = 0]
    /\ pending' = [pending EXCEPT ![w] = Nothing]

Commit(w) ==
    /\ HoldsCounter(w)
    /\ seq' = [r \in Row |-> IF pending[w][r] # 0 THEN pending[w][r] ELSE seq[r]]
    /\ counter' = drawn[w]
    /\ Release(w)
    /\ UNCHANGED <<phase, pullVars, deviceVars, failures>>

\* The number goes back with the transaction: the counter is a row like any.
RollBack(w) ==
    /\ HoldsCounter(w)
    /\ Release(w)
    /\ UNCHANGED <<seq, counter, phase, pullVars, deviceVars, failures>>

-----------------------------------------------------------------------------
(* The pull on the server, a transaction at READ COMMITTED: each statement  *)
(* sees what was committed when it began.                                   *)

\* A plausible slip: an answer without rows says it ends at the beginning.
ReadCounterFromZero ==
    /\ phase = "idle"
    /\ phase' = "reading"
    /\ table' = 1
    /\ seen' = counter
    /\ answer' = Nothing
    /\ highest' = 0
    /\ stoppedAt' = 0
    /\ UNCHANGED <<serverVars, deviceVars, failures>>

\* The device asks from its cursor; the first statement reads the counter.
ReadCounter ==
    /\ phase = "idle"
    /\ phase' = "reading"
    /\ table' = 1
    /\ seen' = counter
    /\ answer' = Nothing
    /\ highest' = cursor
    /\ stoppedAt' = 0
    /\ UNCHANGED <<serverVars, deviceVars, failures>>

ChangedIn(t) == {r \in Row : TableOf[r] = t /\ seq[r] > cursor}

\* What `order by change_sequence limit` returns.
IsPage(page, t) ==
    /\ page \subseteq ChangedIn(t)
    /\ Cardinality(page) <= Limit
    /\ Cardinality(page) < Limit => page = ChangedIn(t)
    /\ \A r \in page, q \in ChangedIn(t) \ page : seq[r] < seq[q]

ReadTable ==
    /\ phase = "reading" /\ table <= TableCount
    /\ \E page \in SUBSET ChangedIn(table) :
        /\ IsPage(page, table)
        /\ answer' = [r \in Row |-> IF r \in page THEN seq[r] ELSE answer[r]]
        /\ \/ /\ page = {}
              /\ UNCHANGED <<highest, stoppedAt>>
           \/ \E last \in {seq[r] : r \in page} :
                /\ \A r \in page : seq[r] <= last
                /\ highest' = IF last > highest THEN last ELSE highest
                /\ stoppedAt' =
                     IF Cardinality(page) = Limit /\ (stoppedAt = 0 \/ last < stoppedAt)
                     THEN last ELSE stoppedAt
    /\ table' = table + 1
    /\ UNCHANGED <<serverVars, phase, seen, deviceVars, failures>>

Answer ==
    /\ phase = "reading" /\ table > TableCount
    /\ phase' = "writing"
    /\ table' = 1
    /\ UNCHANGED <<serverVars, seen, answer, highest, stoppedAt, deviceVars, failures>>

\* A plausible slip: a full table is taken to end one earlier.
ReachedBeforeFullTable == IF stoppedAt # 0 THEN stoppedAt - 1 ELSE highest

\* Where the answer ends: at the first full table, and never above the
\* counter as it was read. A tenant without a counter has nothing to stay under.
Reached == IF stoppedAt # 0 THEN stoppedAt ELSE highest

\* Plausible slips: no cap at the counter, or a cursor that excludes its row.
AnswerCursorUncapped  == Reached
AnswerCursorExclusive == Reached - 1

AnswerCursor == IF seen # 0 /\ seen < Reached THEN seen ELSE Reached

-----------------------------------------------------------------------------
(* The device. *)

\* The rows of one table, in one transaction of the store.
WriteRows ==
    /\ phase = "writing" /\ table <= TableCount
    /\ held' = [r \in Row |->
                  IF TableOf[r] = table /\ answer[r] # 0 THEN answer[r] ELSE held[r]]
    /\ table' = table + 1
    /\ UNCHANGED <<serverVars, phase, seen, answer, highest, stoppedAt,
                   cursor, stored, failures>>

\* The cursor after the rows, first in memory and then in the store.
MoveCursor ==
    /\ phase = "writing" /\ table > TableCount
    /\ cursor' = AnswerCursor
    /\ phase' = "persisting"
    /\ UNCHANGED <<serverVars, pullVars, held, stored, failures>>

PersistCursor ==
    /\ phase = "persisting"
    /\ stored' = cursor
    /\ phase' = "idle"
    /\ UNCHANGED <<serverVars, pullVars, held, cursor, failures>>

\* The answer is lost, the transaction of the pull fails, or the store refuses
\* a write. The exchange ends; the memory stays as it is.
BreakOff ==
    /\ phase # "idle" /\ failures < MaxFailures
    /\ phase' = "idle"
    /\ failures' = failures + 1
    /\ UNCHANGED <<serverVars, pullVars, deviceVars>>

\* The page is closed and opened again: what is left is what the store holds.
Restart ==
    /\ failures < MaxFailures
    /\ phase' = "idle"
    /\ cursor' = stored
    /\ failures' = failures + 1
    /\ UNCHANGED <<serverVars, pullVars, held, stored>>

-----------------------------------------------------------------------------
Pull == ReadCounter \/ ReadTable \/ Answer \/ WriteRows \/ MoveCursor \/ PersistCursor

Next ==
    \/ \E w \in Writer, r \in Row : Stamp(w, r)
    \/ \E w \in Writer : Commit(w) \/ RollBack(w)
    \/ Pull
    \/ BreakOff
    \/ Restart

Spec == Init /\ [][Next]_vars

\* Each step of an exchange under way ends, and the device asks again: at the
\* start, on `online`, after every edit and at the button. Writers owe nothing.
FairSpec == Spec /\ WF_vars(Pull)

-----------------------------------------------------------------------------
(* Properties *)

\* A row whose number the cursor has passed lies on the device in exactly that
\* state. A change behind the cursor is never asked for again, so one that is
\* missing there is missing until somebody happens to change the row.
\* changesSince reads the counter before the first table for this.
NothingBehindCursor ==
    \A r \in Row : seq[r] <= cursor => held[r] = seq[r]

\* The same for the cursor in the store, which is what a restart goes on from:
\* it never runs ahead of the rows written before it.
NothingBehindStored ==
    \A r \in Row : seq[r] <= stored => held[r] = seq[r]

\* The cursor never moves back except to what the store says at a restart. An
\* answer that sent it back would bring the same rows for ever.
CursorOnlyForward ==
    [][cursor' >= cursor \/ (cursor' = stored /\ phase' = "idle")]_vars

\* Whatever is committed reaches the device, however the pages are cut and
\* wherever the exchange broke off, once nothing fails any more.
Converges == <>[](held = seq)

=============================================================================

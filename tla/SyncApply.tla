------------------------------ MODULE SyncApply -----------------------------
(***************************************************************************)
(* Transmissions applied on the server at the same time, one statement     *)
(* after another in transactions at READ COMMITTED: the advisory lock on   *)
(* an operation, the receipt, the read of the record, the lock on the      *)
(* record its gate asks, the write with the counter of the tenant, the     *)
(* commit.  Beside them somebody in the office fixes a record.             *)
(*                                                                         *)
(* A statement sees what is committed and what its own transaction wrote.  *)
(***************************************************************************)
EXTENDS SyncRules, Sequences, FiniteSets

CONSTANTS
    Record, Op,
    Operation,      \* what each operation says
    PolicyOf,       \* the policy of the entity of each record
    ParentOf,       \* the record a gate asks, NoRow for a record without one
    InitialRow,     \* what is on the server at the start
    Sending,        \* transmissions that may run at the same time
    Queue,          \* the operations of each, in the order of the outbox
    Office,         \* the transaction that fixes a record
    Fixing,         \* the record it fixes
    StatusField, FixedValue,
    Nobody,
    MaxAborts       \* bound: transmissions whose connection ends halfway

Holder == Sending \cup {Office}

Kinds == {"create", "update", "delete"}

ASSUME SyncApplyAssumption ==
    /\ PolicyOf \in [Record -> Policies \cup {NoPolicy}]
    /\ ParentOf \in [Record -> Record \cup {NoRow}]
    /\ InitialRow \in [Record -> Rows \cup {NoRow}]
    /\ NoRow \notin Rows /\ NoPolicy \notin Policies /\ NoGate \notin Gates
    /\ \A o \in Op : /\ Operation[o].rec \in Record /\ Operation[o].kind \in Kinds
                      /\ \A f \in Fields(Operation[o]) : Operation[o].patches[f].to \in Value
    /\ Fixing \in Record /\ InitialRow[Fixing] # NoRow
    /\ StatusField \in Field /\ FixedValue \in Value
    /\ Queue \in [Sending -> Seq(Op)] /\ \A t \in Sending : Queue[t] # <<>>
    /\ Office \notin Sending /\ Nobody \notin Holder
    /\ MaxAborts \in Nat

\* Whether another record must stand open for this one to be written.
Gated(r) == PolicyOf[r] # NoPolicy /\ PolicyOf[r].gateFrom # NoGate

\* The gate of a line is the one its document has itself, and a document, which
\* is what the office fixes, hangs on no other record.
ASSUME GateAssumption ==
    /\ ~Gated(Fixing)
    /\ \A r \in Record : Gated(r) =>
          /\ ParentOf[r] \in Record /\ PolicyOf[ParentOf[r]] # NoPolicy
          /\ PolicyOf[ParentOf[r]].onlyWhile = PolicyOf[r].gateFrom

VARIABLES
    row,            \* committed rows
    receipt,        \* committed receipts, "none" for an operation not seen yet
    landed,         \* how often a committed write came from each operation
    astray,         \* operations that landed on a row the rules refuse them
    pc, at,         \* the statement of each transmission, and its operation
    read,           \* the record as each read it before it decided
    draft,          \* rows each open transaction wrote
    made,           \* receipts each open transaction wrote
    opLock,         \* advisory locks on operations
    rowLock,        \* locks on rows
    counterLock,    \* the lock on the counter of the tenant
    fixing,         \* the statement of the office
    aborts

locks == <<opLock, rowLock, counterLock>>
vars  == <<row, receipt, landed, astray, pc, at, read, draft, made, locks, fixing, aborts>>

NoChange == [r \in {} |-> NoRow]
NoneMade == [o \in {} |-> "none"]

Reasons ==
    {"applied", "nothing_to_do", "already_there", "unknown_entity", "record_missing",
     "record_is_fixed", "set_by_server", "online_only", "changed_elsewhere"}

TypeOK ==
    /\ row \in [Record -> Rows \cup {NoRow}]
    /\ receipt \in [Op -> Reasons \cup {"none"}]
    /\ landed \in [Op -> Nat] /\ astray \subseteq Op
    /\ pc \in [Sending -> {"idle", "lock", "read", "decide", "write", "stamp", "commit", "done"}]
    /\ at \in [Sending -> Nat \ {0}]
    /\ \A t \in Sending : at[t] <= Len(Queue[t]) \/ pc[t] \in {"commit", "done"}
    /\ read \in [Sending -> Rows \cup {NoRow}]
    /\ DOMAIN draft = Sending /\ DOMAIN made = Sending
    /\ \A t \in Sending : \A r \in DOMAIN draft[t] : r \in Record /\ draft[t][r] \in Rows
    /\ \A t \in Sending : \A o \in DOMAIN made[t] : o \in Op /\ made[t][o] \in Reasons
    /\ opLock \in [Op -> Sending \cup {Nobody}]
    /\ rowLock \in [Record -> Holder \cup {Nobody}]
    /\ counterLock \in Holder \cup {Nobody}
    /\ fixing \in {"open", "locked", "stamped", "done"}
    /\ aborts \in 0 .. MaxAborts

Init ==
    /\ row = InitialRow
    /\ receipt = [o \in Op |-> "none"]
    /\ landed = [o \in Op |-> 0] /\ astray = {}
    /\ pc = [t \in Sending |-> "idle"] /\ at = [t \in Sending |-> 1]
    /\ read = [t \in Sending |-> NoRow]
    /\ draft = [t \in Sending |-> NoChange] /\ made = [t \in Sending |-> NoneMade]
    /\ opLock = [o \in Op |-> Nobody]
    /\ rowLock = [r \in Record |-> Nobody]
    /\ counterLock = Nobody
    /\ fixing = "open"
    /\ aborts = 0

-----------------------------------------------------------------------------
\* What a statement of t sees of a record now.
Current(t, r) == IF r \in DOMAIN draft[t] THEN draft[t][r] ELSE row[r]

OpAt(t) == Queue[t][at[t]]
RecAt(t) == Operation[OpAt(t)].rec

\* What a transaction has noted, with one thing more.
With(notes, x, what) == [y \in {x} \cup DOMAIN notes |-> IF y = x THEN what ELSE notes[y]]

Free(lock, t) == lock \in {Nobody, t}

GoTo(t, where) == pc' = [pc EXCEPT ![t] = where]

\* On to the next operation, or to the commit after the last.
Advance(t) ==
    /\ at' = [at EXCEPT ![t] = @ + 1]
    /\ GoTo(t, IF at[t] = Len(Queue[t]) THEN "commit" ELSE "lock")

Released(lock, t) == [x \in DOMAIN lock |-> IF lock[x] = t THEN Nobody ELSE lock[x]]

ReleaseAll(t) ==
    /\ opLock' = Released(opLock, t)
    /\ rowLock' = Released(rowLock, t)
    /\ counterLock' = IF counterLock = t THEN Nobody ELSE counterLock

\* The transaction ends without a trace, and the device sends its queue again.
RollBack(t) ==
    /\ GoTo(t, "idle")
    /\ at' = [at EXCEPT ![t] = 1]
    /\ read' = [read EXCEPT ![t] = NoRow]
    /\ draft' = [draft EXCEPT ![t] = NoChange]
    /\ made' = [made EXCEPT ![t] = NoneMade]
    /\ ReleaseAll(t)
    /\ UNCHANGED <<row, receipt, landed, astray, fixing>>

Begin(t) ==
    /\ pc[t] = "idle"
    /\ GoTo(t, "lock")
    /\ UNCHANGED <<row, receipt, landed, astray, at, read, draft, made, locks, fixing, aborts>>

\* A plausible slip: the receipt was asked for before the lock was waited for.
LockOperationUnasked(t) ==
    /\ pc[t] = "lock" /\ Free(opLock[OpAt(t)], t)
    /\ opLock' = [opLock EXCEPT ![OpAt(t)] = t]
    /\ GoTo(t, "read")
    /\ UNCHANGED <<row, receipt, landed, astray, at, read, draft, made,
                   rowLock, counterLock, fixing, aborts>>

\* The lock on the operation, and under it the question for its receipt.
LockOperation(t) ==
    /\ pc[t] = "lock" /\ Free(opLock[OpAt(t)], t)
    /\ opLock' = [opLock EXCEPT ![OpAt(t)] = t]
    /\ IF receipt[OpAt(t)] # "none" \/ OpAt(t) \in DOMAIN made[t]
       THEN Advance(t)
       ELSE GoTo(t, "read") /\ UNCHANGED at
    /\ UNCHANGED <<row, receipt, landed, astray, read, draft, made,
                   rowLock, counterLock, fixing, aborts>>

\* The record, without a lock on it.
ReadRecord(t) ==
    /\ pc[t] = "read"
    /\ read' = [read EXCEPT ![t] = Current(t, RecAt(t))]
    /\ GoTo(t, "decide")
    /\ UNCHANGED <<row, receipt, landed, astray, at, draft, made, locks, fixing, aborts>>

Decision(t, current) ==
    DecideMerge(Operation[OpAt(t)], current,
                IF Gated(RecAt(t)) THEN Current(t, ParentOf[RecAt(t)]) ELSE NoRow,
                PolicyOf[RecAt(t)])

\* A plausible slip: only what landed gets a receipt.
ReceiveLanded(t, outcome) ==
    IF outcome = "applied"
    THEN made' = [made EXCEPT ![t] = With(@, OpAt(t), outcome)]
    ELSE UNCHANGED made

Receive(t, outcome) == made' = [made EXCEPT ![t] = With(@, OpAt(t), outcome)]

\* A plausible slip: the parent is read without a lock.
LockParentNot(t) == UNCHANGED rowLock

\* The record a gate asks, locked until the transaction ends, so that it
\* cannot be fixed between the question and the line that asked it.
LockParent(t) ==
    IF Gated(RecAt(t))
    THEN /\ Free(rowLock[ParentOf[RecAt(t)]], t)
         /\ rowLock' = [rowLock EXCEPT ![ParentOf[RecAt(t)]] = t]
    ELSE UNCHANGED rowLock

Decide(t) ==
    /\ pc[t] = "decide"
    /\ LockParent(t)
    /\ LET decision == Decision(t, read[t]) IN
       \/ /\ decision.outcome = "apply"
          /\ GoTo(t, "write")
          /\ UNCHANGED <<at, made>>
       \/ /\ decision.outcome # "apply"
          /\ Receive(t, decision.reason)
          /\ Advance(t)
    /\ UNCHANGED <<row, receipt, landed, astray, read, draft, opLock, counterLock,
                   fixing, aborts>>

\* A plausible slip: there is no trigger behind the rules.
StaysFixedUnguarded(r, current) == FALSE

\* A trigger refuses every write to a record whose own gate has closed.
StaysFixed(r, current) ==
    /\ PolicyOf[r].onlyWhile # NoGate /\ current # NoRow
    /\ ~StandsOpen(PolicyOf[r].onlyWhile, current)

Refused(t) ==
    \/ Operation[OpAt(t)].kind = "create" /\ Current(t, RecAt(t)) # NoRow
    \/ StaysFixed(RecAt(t), Current(t, RecAt(t)))

\* The statement waits for the row and takes it as it is then: by its id and
\* nothing else. What the database refuses ends the transmission.
WriteRecord(t) ==
    /\ pc[t] = "write" /\ Free(rowLock[RecAt(t)], t)
    /\ \/ Refused(t) /\ RollBack(t)
       \/ /\ ~Refused(t)
          /\ rowLock' = [rowLock EXCEPT ![RecAt(t)] = t]
          /\ GoTo(t, "stamp")
          /\ UNCHANGED <<row, receipt, landed, astray, at, read, draft, made,
                         opLock, counterLock, fixing>>
    /\ UNCHANGED aborts

\* The trigger stamps the row with the next number of the tenant.
StampRecord(t) ==
    /\ pc[t] = "stamp" /\ Free(counterLock, t)
    /\ counterLock' = t
    /\ LET op == Operation[OpAt(t)]
           met == Current(t, RecAt(t)) IN
         /\ draft' = [draft EXCEPT ![t] =
                        With(@, RecAt(t), Landed(op, met, PolicyOf[RecAt(t)]))]
         /\ astray' = IF Decision(t, met).outcome = "apply"
                      THEN astray ELSE astray \cup {OpAt(t)}
    /\ Receive(t, "applied")
    /\ Advance(t)
    /\ UNCHANGED <<row, receipt, landed, read, opLock, rowLock, fixing, aborts>>

Commit(t) ==
    /\ pc[t] = "commit"
    /\ row' = [r \in Record |-> Current(t, r)]
    /\ receipt' = [o \in Op |-> IF o \in DOMAIN made[t] THEN made[t][o] ELSE receipt[o]]
    /\ landed' = [o \in Op |->
                    IF o \in DOMAIN made[t] /\ made[t][o] = "applied"
                    THEN landed[o] + 1 ELSE landed[o]]
    /\ GoTo(t, "done")
    /\ draft' = [draft EXCEPT ![t] = NoChange]
    /\ made' = [made EXCEPT ![t] = NoneMade]
    /\ ReleaseAll(t)
    /\ UNCHANGED <<astray, at, read, fixing, aborts>>

\* The connection of a transmission ends before its commit.
ConnectionLost(t) ==
    /\ pc[t] \notin {"idle", "done"} /\ aborts < MaxAborts
    /\ aborts' = aborts + 1
    /\ RollBack(t)

-----------------------------------------------------------------------------
(* The office fixes the record under a lock, with a stamped write. *)

OfficeLocks ==
    /\ fixing = "open" /\ rowLock[Fixing] = Nobody
    /\ ~row[Fixing].deleted
    /\ rowLock' = [rowLock EXCEPT ![Fixing] = Office]
    /\ fixing' = "locked"
    /\ UNCHANGED <<row, receipt, landed, astray, pc, at, read, draft, made,
                   opLock, counterLock, aborts>>

OfficeWrites ==
    /\ fixing = "locked" /\ counterLock = Nobody
    /\ counterLock' = Office
    /\ fixing' = "stamped"
    /\ UNCHANGED <<row, receipt, landed, astray, pc, at, read, draft, made,
                   opLock, rowLock, aborts>>

OfficeCommits ==
    /\ fixing = "stamped"
    /\ row' = [row EXCEPT ![Fixing].data[StatusField] = FixedValue,
                          ![Fixing].version = @ + 1]
    /\ fixing' = "done"
    /\ ReleaseAll(Office)
    /\ UNCHANGED <<receipt, landed, astray, pc, at, read, draft, made, aborts>>

OfficeSteps == OfficeLocks \/ OfficeWrites \/ OfficeCommits

-----------------------------------------------------------------------------
(* The locks of several transactions can close a circle: the one that holds *)
(* the counter waits for a row whose holder waits for the counter.  The     *)
(* database finds it and ends one of them.                                  *)

WaitsFor(t) ==
    IF t = Office
    THEN CASE fixing = "open"   -> rowLock[Fixing]
           [] fixing = "locked" -> counterLock
           [] OTHER             -> Nobody
    ELSE CASE pc[t] = "lock"    -> opLock[OpAt(t)]
           [] pc[t] = "decide" /\ Gated(RecAt(t)) -> rowLock[ParentOf[RecAt(t)]]
           [] pc[t] = "write"   -> rowLock[RecAt(t)]
           [] pc[t] = "stamp"   -> counterLock
           [] OTHER             -> Nobody

InCircle(t) ==
    \E ring \in SUBSET {u \in Holder : WaitsFor(u) # Nobody} :
        /\ t \in ring /\ Cardinality(ring) > 1
        /\ {WaitsFor(u) : u \in ring} = ring

EndedByDatabase(t) ==
    /\ InCircle(t)
    /\ RollBack(t)
    /\ UNCHANGED aborts

OfficeEndedByDatabase ==
    /\ InCircle(Office)
    /\ ReleaseAll(Office)
    /\ fixing' = "open"
    /\ UNCHANGED <<row, receipt, landed, astray, pc, at, read, draft, made, aborts>>

-----------------------------------------------------------------------------
Step(t) ==
    \/ Begin(t) \/ LockOperation(t) \/ ReadRecord(t) \/ Decide(t)
    \/ WriteRecord(t) \/ StampRecord(t) \/ Commit(t)

Finished == /\ \A t \in Sending : pc[t] = "done"
            /\ fixing = "done" \/ row[Fixing].deleted
            /\ UNCHANGED vars

Next ==
    \/ \E t \in Sending : Step(t) \/ ConnectionLost(t) \/ EndedByDatabase(t)
    \/ OfficeSteps \/ OfficeEndedByDatabase
    \/ Finished

Spec == Init /\ [][Next]_vars

\* The database hands a lock to one that waits for it as often as it comes free,
\* whoever comes back for it later; it ends a circle; and a device sends again
\* what failed.
FairSpec ==
    /\ Spec
    /\ \A t \in Sending : SF_vars(Step(t)) /\ WF_vars(EndedByDatabase(t))
    /\ SF_vars(OfficeSteps) /\ WF_vars(OfficeEndedByDatabase)

-----------------------------------------------------------------------------
(* Properties *)

\* However often and however closely a queue is sent again, each operation
\* writes at most once, and its receipt says so exactly when it did.
OnceOnly ==
    \A o \in Op : landed[o] <= 1 /\ (landed[o] = 1 <=> receipt[o] = "applied")

\* A record is judged as it is when the statement lands on it: no operation
\* overwrites a value neither seen nor wanted by its device, none lands on a
\* deleted row, none under a gate that has closed.
LandsAsDecided == astray = {}

\* Nothing that hangs on a record changes once that record is fixed: the lock
\* on the parent is held from the question to the commit.
NothingAfterFixing ==
    [][\A r \in Record :
          LET parent == row[ParentOf[r]] IN
          (Gated(r) /\ parent # NoRow /\ ~StandsOpen(PolicyOf[r].gateFrom, parent))
              => row'[r] = row[r]]_vars

\* Nobody waits for ever on somebody who waits: every operation is answered in
\* the end, through connections that end halfway and circles of locks, unless
\* what is sent again after one closes the next one for ever.
Circles == \E t \in Sending : InCircle(t)

EveryOperationAnswered ==
    <>(\A o \in Op : receipt[o] # "none") \/ ([]<>Circles /\ []<>~Circles)

=============================================================================

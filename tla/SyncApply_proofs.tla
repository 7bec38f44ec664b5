-------------------------- MODULE SyncApply_proofs --------------------------
(***************************************************************************)
(* What holds of transmissions applied side by side, for every number of   *)
(* them, of records, of operations and of connections lost, and for every  *)
(* policy.                                                                 *)
(*                                                                         *)
(* A transmission may rely on what it has locked.  An operation it is at,  *)
(* or has a receipt for, is locked by it and has none yet (ReceiptOf); a   *)
(* row it wrote is locked by it, stood open itself, and the row its gate   *)
(* asks is locked by it too and stands open as it is committed (RowsOf).   *)
(*                                                                         *)
(* The last sections: what happens to a record between its read, without a *)
(* lock, and the write: what a transmission knows of it holds as long as   *)
(* nobody writes what it has locked (SeenInv); and that the server decides *)
(* operations as `Operations` promises (OrderInv).                         *)
(***************************************************************************)
EXTENDS SyncApply, TLAPS

\* The statements at which a transmission holds the operation it is at.
Busy(t) == pc[t] \in {"read", "decide", "write", "stamp"}

ReceiptOf(t) ==
    /\ \A o \in DOMAIN made[t] : opLock[o] = t /\ receipt[o] = "none"
    /\ Busy(t) => opLock[OpAt(t)] = t /\ receipt[OpAt(t)] = "none"

\* As it is committed, the record a row hangs on stands open and is locked, and
\* so does the row itself.
ParentHeld(t, r) ==
    Gated(r) => /\ rowLock[ParentOf[r]] = t
                /\ row[ParentOf[r]] # NoRow =>
                      StandsOpen(PolicyOf[r].gateFrom, row[ParentOf[r]])

OwnOpen(r) ==
    PolicyOf[r].onlyWhile # NoGate /\ row[r] # NoRow =>
        StandsOpen(PolicyOf[r].onlyWhile, row[r])

WrittenBy(t, r) == rowLock[r] = t /\ OwnOpen(r) /\ ParentHeld(t, r)

RowsOf(t) ==
    /\ \A r \in DOMAIN draft[t] : WrittenBy(t, r)
    /\ pc[t] = "decide" => (read[t] # NoRow => Current(t, RecAt(t)) # NoRow)
    /\ pc[t] \in {"write", "stamp"} =>
          /\ PolicyOf[RecAt(t)] # NoPolicy /\ ParentHeld(t, RecAt(t))
          /\ Operation[OpAt(t)].kind # "create" => Current(t, RecAt(t)) # NoRow
    /\ pc[t] = "stamp" => WrittenBy(t, RecAt(t))

OfficeInv ==
    /\ row[Fixing] # NoRow
    /\ fixing \in {"locked", "stamped"} => rowLock[Fixing] = Office

IInv ==
    /\ TypeOK /\ OnceOnly /\ OfficeInv
    /\ \A t \in Sending : ReceiptOf(t) /\ RowsOf(t)

-----------------------------------------------------------------------------
(* The rules. *)

\* What a decision has asked, and the word it is answered with.
LEMMA Decides ==
  ASSUME NEW op, op.kind \in Kinds, NEW current, NEW parent, NEW policy
  PROVE  LET decision == DecideMerge(op, current, parent, policy) IN
         /\ decision.reason \in Reasons
         /\ decision.outcome = "apply" =>
               /\ policy # NoPolicy
               /\ policy.gateFrom # NoGate => parent # NoRow /\ StandsOpen(policy.gateFrom, parent)
               /\ op.kind # "create" => current # NoRow
<1> DEFINE decision == DecideMerge(op, current, parent, policy)
<1>1. DecideCreate(op, current, policy).reason \in Reasons
  BY DEF DecideCreate, Conflict, Skipped, Applied, Reasons
<1>2. /\ DecideChange(op, current, policy).reason \in Reasons
      /\ DecideChange(op, current, policy).outcome = "apply" => current # NoRow
  <2>1. DecideDelete(op, current).reason \in Reasons
    BY DEF DecideDelete, Conflict, Applied, Reasons
  <2>2. DecideUpdate(op, current).reason \in Reasons
    BY DEF DecideUpdate, Conflict, Skipped, Applied, Reasons
  <2> QED
    BY <2>1, <2>2 DEF DecideChange, Conflict, Skipped, Reasons
<1>3. CASE policy = NoPolicy
  BY <1>3 DEF DecideMerge, Conflict, Reasons
<1>4. CASE policy # NoPolicy
  <2>1. CASE policy.gateFrom # NoGate /\ (parent = NoRow \/ ~StandsOpen(policy.gateFrom, parent))
    BY <1>4, <2>1 DEF DecideMerge, Conflict, Reasons
  <2>2. CASE policy.gateFrom # NoGate => parent # NoRow /\ StandsOpen(policy.gateFrom, parent)
    <3>1. decision = IF Reserved(op, policy) # {}
                     THEN Conflict("set_by_server", Reserved(op, policy))
                     ELSE IF op.kind = "create" THEN DecideCreate(op, current, policy)
                     ELSE DecideChange(op, current, policy)
      BY <1>4, <2>2 DEF DecideMerge
    <3>2. decision.reason \in Reasons
      BY <1>1, <1>2, <3>1 DEF Conflict, Reasons
    <3>3. decision.outcome = "apply" => (op.kind # "create" => current # NoRow)
      BY <1>2, <3>1 DEF Conflict
    <3> QED
      BY <1>4, <2>2, <3>2, <3>3
  <2> QED
    BY <2>1, <2>2
<1> QED
  BY <1>3, <1>4

\* What a statement leaves is a row.
LEMMA Lands ==
  ASSUME NEW op, op.kind \in Kinds, NEW policy \in Policies, NEW met,
         \A f \in Fields(op) : op.patches[f].to \in Value,
         op.kind # "create" => met \in Rows
  PROVE  Landed(op, met, policy) \in Rows
<1>1. \A data \in [Field -> Value] : Laid(op, data) \in [Field -> Value]
  BY DEF Laid
<1>2. CASE op.kind = "create"
  <2>1. policy.start \in [Field -> Value]
    BY DEF Policies
  <2> QED
    BY <1>1, <1>2, <2>1 DEF Landed, Rows
<1>3. ASSUME met \in Rows, NEW data \in [Field -> Value], NEW deleted \in BOOLEAN
      PROVE  [met EXCEPT !.data = data, !.version = @ + 1, !.deleted = deleted] \in Rows
  <2>1. met.version + 1 \in Nat
    BY <1>3 DEF Rows
  <2>2. PICK d \in [Field -> Value], v \in Nat, x \in BOOLEAN :
           met = [data |-> d, version |-> v, deleted |-> x]
    BY <1>3 DEF Rows
  <2>3. [met EXCEPT !.data = data, !.version = @ + 1, !.deleted = deleted]
          = [data |-> data, version |-> met.version + 1, deleted |-> deleted]
    <3>1. [met EXCEPT !.data = data] = [data |-> data, version |-> v, deleted |-> x]
      BY <2>2
    <3>2. [[data |-> data, version |-> v, deleted |-> x] EXCEPT !.version = v + 1]
            = [data |-> data, version |-> v + 1, deleted |-> x]
      OBVIOUS
    <3>3. [[data |-> data, version |-> v + 1, deleted |-> x] EXCEPT !.deleted = deleted]
            = [data |-> data, version |-> v + 1, deleted |-> deleted]
      OBVIOUS
    <3> QED
      BY <2>2, <3>1, <3>2, <3>3
  <2> QED
    BY <1>3, <2>1, <2>3 DEF Rows
<1>4. CASE op.kind = "delete"
  <2>1. met \in Rows /\ met.data \in [Field -> Value]
    BY <1>4 DEF Rows
  <2>2. Landed(op, met, policy)
          = [met EXCEPT !.data = met.data, !.version = @ + 1, !.deleted = TRUE]
    BY <1>4, <2>1 DEF Landed, Rows
  <2> QED
    BY <1>3, <2>1, <2>2
<1>5. CASE op.kind = "update"
  <2>1. met \in Rows /\ met.data \in [Field -> Value] /\ met.deleted \in BOOLEAN
    BY <1>5 DEF Rows
  <2>2. Landed(op, met, policy)
          = [met EXCEPT !.data = Laid(op, met.data), !.version = @ + 1, !.deleted = met.deleted]
    BY <1>5, <2>1 DEF Landed, Rows
  <2>3. Laid(op, met.data) \in [Field -> Value]
    BY <1>1, <2>1
  <2> QED
    BY <1>3, <2>1, <2>2, <2>3
<1> QED
  BY <1>2, <1>4, <1>5 DEF Kinds

-----------------------------------------------------------------------------
(* What the steps share. *)

LEMMA OpFacts ==
  ASSUME TypeOK, NEW t \in Sending, at[t] <= Len(Queue[t])
  PROVE  /\ OpAt(t) \in Op /\ RecAt(t) \in Record
         /\ Operation[OpAt(t)].kind \in Kinds
         /\ \A f \in Fields(Operation[OpAt(t)]) : Operation[OpAt(t)].patches[f].to \in Value
         /\ PolicyOf[RecAt(t)] \in Policies \cup {NoPolicy}
<1>1. Queue[t] \in Seq(Op) /\ at[t] \in 1 .. Len(Queue[t])
  BY SyncApplyAssumption DEF TypeOK
<1>2. OpAt(t) \in Op
  BY <1>1 DEF OpAt
<1> QED
  BY <1>2, SyncApplyAssumption DEF RecAt

\* What a transmission relies on is its own and what it has locked.
LEMMA Still ==
  ASSUME TypeOK, NEW u \in Sending, ReceiptOf(u), RowsOf(u),
         pc'[u] = pc[u], at'[u] = at[u], read'[u] = read[u],
         draft'[u] = draft[u], made'[u] = made[u],
         \A o \in Op : opLock[o] = u => opLock'[o] = u /\ receipt'[o] = receipt[o],
         \A r \in Record : rowLock[r] = u => rowLock'[r] = u /\ row'[r] = row[r],
         \A r \in Record : row[r] # NoRow => row'[r] # NoRow
  PROVE  ReceiptOf(u)' /\ RowsOf(u)'
<1>1. OpAt(u)' = OpAt(u) /\ RecAt(u)' = RecAt(u)
  BY DEF OpAt, RecAt
<1>2. pc[u] \in {"lock", "read", "decide", "write", "stamp"} => OpAt(u) \in Op /\ RecAt(u) \in Record
  BY OpFacts DEF TypeOK
<1>3. ReceiptOf(u)'
  BY <1>1, <1>2 DEF TypeOK, ReceiptOf, Busy
<1>4. \A r \in Record : ParentHeld(u, r) => ParentHeld(u, r)'
  BY GateAssumption DEF ParentHeld
<1>5. \A r \in Record : WrittenBy(u, r) => WrittenBy(u, r)'
  BY <1>4 DEF WrittenBy, OwnOpen
<1>6. \A r \in Record : Current(u, r) # NoRow => Current(u, r)' # NoRow
  BY DEF Current
<1>7. RowsOf(u)'
  BY <1>1, <1>2, <1>4, <1>5, <1>6 DEF TypeOK, RowsOf
<1> QED
  BY <1>3, <1>7

\* A step of one transmission that writes only what it has locked.
LEMMA OthersStill ==
  ASSUME IInv, NEW t \in Sending, fixing' = fixing,
         \A u \in Sending \ {t} : /\ pc'[u] = pc[u] /\ at'[u] = at[u] /\ read'[u] = read[u]
                                  /\ draft'[u] = draft[u] /\ made'[u] = made[u],
         \A o \in Op : opLock'[o] = opLock[o] \/ opLock[o] \in {Nobody, t},
         \A r \in Record : rowLock'[r] = rowLock[r] \/ rowLock[r] \in {Nobody, t},
         \A o \in Op : receipt'[o] = receipt[o] \/ opLock[o] = t,
         \A r \in Record : row'[r] = row[r] \/ rowLock[r] = t,
         \A r \in Record : row[r] # NoRow => row'[r] # NoRow
  PROVE  OfficeInv' /\ \A u \in Sending \ {t} : ReceiptOf(u)' /\ RowsOf(u)'
<1>1. Nobody \notin Holder /\ Office \notin Sending /\ Office # t /\ Fixing \in Record
  BY SyncApplyAssumption
<1>2. OfficeInv'
  BY <1>1 DEF IInv, OfficeInv, Holder
<1>3. ASSUME NEW u \in Sending \ {t}
      PROVE  ReceiptOf(u)' /\ RowsOf(u)'
  <2>1. u # Nobody /\ u # t /\ u \in Sending
    BY <1>1 DEF Holder
  <2> QED
    BY <2>1, Still DEF IInv
<1> QED
  BY <1>2, <1>3

\* A step that commits nothing and moves on in its own transaction.
LEMMA MovesOn ==
  ASSUME IInv, NEW t \in Sending,
         UNCHANGED <<row, receipt, landed, fixing>>, TypeOK',
         \A u \in Sending \ {t} : /\ pc'[u] = pc[u] /\ at'[u] = at[u] /\ read'[u] = read[u]
                                  /\ draft'[u] = draft[u] /\ made'[u] = made[u],
         \A o \in Op : opLock'[o] = opLock[o] \/ opLock[o] \in {Nobody, t},
         \A r \in Record : rowLock'[r] = rowLock[r] \/ rowLock[r] \in {Nobody, t},
         ReceiptOf(t)', RowsOf(t)'
  PROVE  IInv'
BY OthersStill DEF IInv, OnceOnly

-----------------------------------------------------------------------------
(* The steps of a transmission. *)

\* It ends without a trace, and what it had locked is free.
LEMMA NextRollBack ==
  ASSUME IInv, NEW t \in Sending, RollBack(t), aborts' \in 0 .. MaxAborts
  PROVE  IInv'
<1>1. /\ pc'[t] = "idle" /\ at'[t] = 1 /\ draft'[t] = NoChange /\ made'[t] = NoneMade
      /\ DOMAIN NoChange = {} /\ DOMAIN NoneMade = {}
  BY DEF IInv, TypeOK, RollBack, GoTo, NoChange, NoneMade
<1>2. /\ \A o \in Op : opLock'[o] = IF opLock[o] = t THEN Nobody ELSE opLock[o]
      /\ \A r \in Record : rowLock'[r] = IF rowLock[r] = t THEN Nobody ELSE rowLock[r]
      /\ opLock' \in [Op -> Sending \cup {Nobody}] /\ rowLock' \in [Record -> Holder \cup {Nobody}]
      /\ counterLock' \in Holder \cup {Nobody}
  BY DEF IInv, TypeOK, RollBack, ReleaseAll, Released
<1>3. Len(Queue[t]) >= 1
  BY SyncApplyAssumption
<1>4. TypeOK'
  BY <1>1, <1>2, <1>3 DEF IInv, TypeOK, RollBack, GoTo
<1>5. ReceiptOf(t)' /\ RowsOf(t)'
  BY <1>1 DEF ReceiptOf, RowsOf, Busy
<1>6. \A u \in Sending \ {t} : /\ pc'[u] = pc[u] /\ at'[u] = at[u] /\ read'[u] = read[u]
                                /\ draft'[u] = draft[u] /\ made'[u] = made[u]
  BY DEF IInv, TypeOK, RollBack, GoTo
<1>7. UNCHANGED <<row, receipt, landed, fixing>>
  BY DEF RollBack
<1> QED
  BY <1>2, <1>4, <1>5, <1>6, <1>7, MovesOn

LEMMA NextBegin ==
  ASSUME IInv, NEW t \in Sending, Begin(t)
  PROVE  IInv'
<1>1. TypeOK'
  BY DEF IInv, TypeOK, Begin, GoTo, locks
<1>2. ReceiptOf(t)' /\ RowsOf(t)'
  BY DEF IInv, TypeOK, Begin, GoTo, locks, ReceiptOf, RowsOf, Busy, WrittenBy, OwnOpen, ParentHeld
<1> QED
  BY <1>1, <1>2, MovesOn DEF IInv, TypeOK, Begin, GoTo, locks

\* Where a transmission is after an operation.
LEMMA Advances ==
  ASSUME TypeOK, NEW t \in Sending, at[t] <= Len(Queue[t]), Advance(t)
  PROVE  /\ pc' \in [Sending -> {"idle", "lock", "read", "decide", "write", "stamp", "commit", "done"}]
         /\ at' \in [Sending -> Nat \ {0}]
         /\ \A u \in Sending : at'[u] <= Len(Queue[u]) \/ pc'[u] \in {"commit", "done"}
         /\ pc'[t] \in {"lock", "commit"} /\ ~Busy(t)'
         /\ \A u \in Sending \ {t} : pc'[u] = pc[u] /\ at'[u] = at[u]
<1>1. Len(Queue[t]) \in Nat /\ at[t] \in Nat \ {0}
  BY SyncApplyAssumption DEF TypeOK
<1>2. /\ pc'[t] = IF at[t] = Len(Queue[t]) THEN "commit" ELSE "lock"
      /\ at'[t] = at[t] + 1
      /\ \A u \in Sending \ {t} : pc'[u] = pc[u] /\ at'[u] = at[u]
  BY DEF TypeOK, Advance, GoTo
<1>3. at'[t] <= Len(Queue[t]) \/ pc'[t] = "commit"
  BY <1>1, <1>2
<1> QED
  BY <1>1, <1>2, <1>3 DEF TypeOK, Advance, GoTo, Busy

\* What is written keeps as long as the locks and the committed rows do.
LEMMA RowsKeep ==
  ASSUME IInv, NEW t \in Sending, row' = row, draft'[t] = draft[t],
         \A r \in Record : rowLock[r] = t => rowLock'[r] = t
  PROVE  /\ \A r \in Record : ParentHeld(t, r) => ParentHeld(t, r)'
         /\ \A r \in DOMAIN draft'[t] : WrittenBy(t, r)'
<1>1. \A r \in Record : ParentHeld(t, r) => ParentHeld(t, r)'
  BY GateAssumption DEF ParentHeld
<1>2. \A r \in DOMAIN draft[t] : r \in Record /\ WrittenBy(t, r)
  BY DEF IInv, TypeOK, RowsOf
<1> QED
  BY <1>1, <1>2 DEF WrittenBy, OwnOpen

LEMMA NextLockOperation ==
  ASSUME IInv, NEW t \in Sending, LockOperation(t)
  PROVE  IInv'
<1>1. /\ pc[t] = "lock" /\ at[t] <= Len(Queue[t]) /\ OpAt(t) \in Op
      /\ opLock[OpAt(t)] \in {Nobody, t} /\ opLock' = [opLock EXCEPT ![OpAt(t)] = t]
      /\ UNCHANGED <<row, receipt, landed, astray, read, draft, made, rowLock, counterLock,
                     fixing, aborts>>
  BY OpFacts DEF IInv, TypeOK, LockOperation, Free
<1>2. \A o \in Op : opLock'[o] = opLock[o] \/ (opLock[o] \in {Nobody, t} /\ opLock'[o] = t)
  BY <1>1 DEF IInv, TypeOK
<1>3. opLock' \in [Op -> Sending \cup {Nobody}]
  BY <1>1 DEF IInv, TypeOK
<1>4. /\ pc' \in [Sending -> {"idle", "lock", "read", "decide", "write", "stamp", "commit", "done"}]
      /\ at' \in [Sending -> Nat \ {0}]
      /\ \A u \in Sending : at'[u] <= Len(Queue[u]) \/ pc'[u] \in {"commit", "done"}
      /\ \A u \in Sending \ {t} : pc'[u] = pc[u] /\ at'[u] = at[u]
      /\ pc'[t] \in {"lock", "commit", "read"}
      /\ pc'[t] = "read" => at'[t] = at[t] /\ receipt[OpAt(t)] = "none"
  <2>1. CASE Advance(t)
    BY <1>1, <2>1, Advances DEF IInv
  <2>2. CASE receipt[OpAt(t)] = "none" /\ GoTo(t, "read") /\ UNCHANGED at
    BY <1>1, <2>2 DEF IInv, TypeOK, GoTo
  <2> QED
    BY <2>1, <2>2 DEF LockOperation
<1>5. TypeOK'
  BY <1>1, <1>3, <1>4 DEF IInv, TypeOK
<1>6. ReceiptOf(t)'
  <2>1. \A o \in DOMAIN made[t] : o \in Op /\ opLock'[o] = t /\ receipt[o] = "none"
    BY <1>2 DEF IInv, TypeOK, ReceiptOf
  <2>2. Busy(t)' => OpAt(t)' = OpAt(t) /\ receipt[OpAt(t)] = "none" /\ opLock'[OpAt(t)] = t
    BY <1>1, <1>3, <1>4 DEF Busy, OpAt, IInv, TypeOK
  <2> QED
    BY <1>1, <2>1, <2>2 DEF ReceiptOf
<1>7. RowsOf(t)'
  <2>1. \A r \in DOMAIN draft'[t] : WrittenBy(t, r)'
    BY <1>1, RowsKeep
  <2> QED
    BY <1>4, <2>1 DEF RowsOf
<1> QED
  BY <1>1, <1>2, <1>4, <1>5, <1>6, <1>7, MovesOn

LEMMA NextReadRecord ==
  ASSUME IInv, NEW t \in Sending, ReadRecord(t)
  PROVE  IInv'
<1>1. /\ pc[t] = "read" /\ at[t] <= Len(Queue[t]) /\ RecAt(t) \in Record
      /\ pc' = [pc EXCEPT ![t] = "decide"] /\ read' = [read EXCEPT ![t] = Current(t, RecAt(t))]
      /\ UNCHANGED <<row, receipt, landed, astray, at, draft, made, locks, fixing, aborts>>
  BY OpFacts DEF IInv, TypeOK, ReadRecord, GoTo
<1>2. Current(t, RecAt(t)) \in Rows \cup {NoRow}
  BY <1>1 DEF IInv, TypeOK, Current
<1>3. TypeOK'
  BY <1>1, <1>2 DEF IInv, TypeOK, locks
<1>4. ReceiptOf(t)'
  BY <1>1 DEF IInv, TypeOK, ReceiptOf, Busy, OpAt, locks
<1>5. RowsOf(t)'
  <2>1. \A r \in DOMAIN draft'[t] : WrittenBy(t, r)'
    BY <1>1, RowsKeep DEF locks
  <2>2. pc'[t] = "decide" /\ read'[t] = Current(t, RecAt(t)) /\ Current(t, RecAt(t)) = Current(t, RecAt(t))'
    BY <1>1 DEF IInv, TypeOK, Current, RecAt, OpAt
  <2> QED
    BY <2>1, <2>2 DEF RowsOf
<1> QED
  BY <1>1, <1>3, <1>4, <1>5, MovesOn DEF IInv, TypeOK, locks

\* A transmission that notes what came of its operation, and goes on.
LEMMA Notes ==
  ASSUME IInv, NEW t \in Sending, Busy(t), Advance(t),
         NEW outcome \in Reasons, Receive(t, outcome), UNCHANGED <<receipt, opLock>>
  PROVE  /\ ReceiptOf(t)'
         /\ DOMAIN made' = Sending
         /\ \A u \in Sending : \A o \in DOMAIN made'[u] : o \in Op /\ made'[u][o] \in Reasons
         /\ \A u \in Sending \ {t} : made'[u] = made[u]
<1>1. /\ made' = [made EXCEPT ![t] = With(made[t], OpAt(t), outcome)]
      /\ at[t] <= Len(Queue[t]) /\ OpAt(t) \in Op
  BY OpFacts DEF Receive, IInv, TypeOK, Busy
<1>2. /\ DOMAIN made'[t] = {OpAt(t)} \cup DOMAIN made[t]
      /\ \A o \in DOMAIN made'[t] : made'[t][o] = IF o = OpAt(t) THEN outcome ELSE made[t][o]
  BY <1>1 DEF IInv, TypeOK, With
<1>3. ~Busy(t)'
  BY <1>1, Advances DEF IInv
<1>4. ReceiptOf(t)'
  BY <1>2, <1>3 DEF IInv, ReceiptOf
<1> QED
  BY <1>1, <1>2, <1>4 DEF IInv, TypeOK

\* The gate holds where the operation is let through.
LEMMA LetThrough ==
  ASSUME IInv, NEW t \in Sending, pc[t] = "decide", LockParent(t), row' = row,
         Decision(t, read[t]).outcome = "apply"
  PROVE  /\ PolicyOf[RecAt(t)] # NoPolicy
         /\ Gated(RecAt(t)) => /\ rowLock'[ParentOf[RecAt(t)]] = t
                               /\ row[ParentOf[RecAt(t)]] # NoRow =>
                                     StandsOpen(PolicyOf[RecAt(t)].gateFrom, row[ParentOf[RecAt(t)]])
         /\ Operation[OpAt(t)].kind # "create" => Current(t, RecAt(t)) # NoRow
<1> DEFINE r == RecAt(t)
           p == ParentOf[RecAt(t)]
<1>1. r \in Record /\ Operation[OpAt(t)].kind \in Kinds
  BY OpFacts DEF IInv, TypeOK
<1>2. /\ PolicyOf[r] # NoPolicy
      /\ Gated(r) => Current(t, p) # NoRow /\ StandsOpen(PolicyOf[r].gateFrom, Current(t, p))
      /\ Operation[OpAt(t)].kind # "create" => read[t] # NoRow
  BY <1>1, Decides DEF Decision, Gated
<1>3. Operation[OpAt(t)].kind # "create" => Current(t, r) # NoRow
  BY <1>2 DEF IInv, RowsOf
<1>4. ASSUME Gated(r)
      PROVE  /\ rowLock'[p] = t
             /\ row[p] # NoRow => StandsOpen(PolicyOf[r].gateFrom, row[p])
  <2>1. p \in Record /\ PolicyOf[p].onlyWhile = PolicyOf[r].gateFrom /\ PolicyOf[r].gateFrom # NoGate
    BY <1>1, <1>4, GateAssumption DEF Gated
  <2>2. rowLock'[p] = t
    BY <1>4, <2>1 DEF LockParent, IInv, TypeOK
  <2>3. CASE p \in DOMAIN draft[t]
    <3>1. OwnOpen(p)
      BY <2>3 DEF IInv, RowsOf, WrittenBy
    <3> QED
      BY <2>1, <2>2, <3>1 DEF OwnOpen
  <2>4. CASE p \notin DOMAIN draft[t]
    BY <1>2, <1>4, <2>2, <2>4 DEF Current
  <2> QED
    BY <2>3, <2>4
<1> QED
  BY <1>2, <1>3, <1>4

LEMMA NextDecide ==
  ASSUME IInv, NEW t \in Sending, Decide(t)
  PROVE  IInv'
<1>1. /\ pc[t] = "decide" /\ at[t] <= Len(Queue[t]) /\ RecAt(t) \in Record
      /\ Operation[OpAt(t)].kind \in Kinds
      /\ LockParent(t)
      /\ UNCHANGED <<row, receipt, landed, astray, read, draft, opLock, counterLock, fixing, aborts>>
  BY OpFacts DEF IInv, TypeOK, Decide
<1>2. /\ \A r \in Record : rowLock'[r] = rowLock[r] \/ (rowLock[r] \in {Nobody, t} /\ rowLock'[r] = t)
      /\ rowLock' \in [Record -> Holder \cup {Nobody}]
  BY <1>1, GateAssumption, ZenonT(30) DEF LockParent, Free, IInv, TypeOK, Holder
<1>3. \A r \in DOMAIN draft'[t] : WrittenBy(t, r)'
  BY <1>1, <1>2, RowsKeep
<1>4. CASE Decision(t, read[t]).outcome = "apply" /\ GoTo(t, "write") /\ UNCHANGED <<at, made>>
  <2>1. TypeOK'
    BY <1>1, <1>2, <1>4 DEF IInv, TypeOK, GoTo
  <2>2. ReceiptOf(t)'
    BY <1>1, <1>4 DEF IInv, TypeOK, ReceiptOf, Busy, OpAt, GoTo
  <2>3. RowsOf(t)'
    <3>1. /\ pc'[t] = "write" /\ RecAt(t)' = RecAt(t) /\ OpAt(t)' = OpAt(t)
          /\ Current(t, RecAt(t))' = Current(t, RecAt(t))
      BY <1>1, <1>4 DEF IInv, TypeOK, GoTo, RecAt, OpAt, Current
    <3>2. /\ PolicyOf[RecAt(t)] # NoPolicy
          /\ Gated(RecAt(t)) => /\ rowLock'[ParentOf[RecAt(t)]] = t
                                /\ row[ParentOf[RecAt(t)]] # NoRow =>
                                     StandsOpen(PolicyOf[RecAt(t)].gateFrom, row[ParentOf[RecAt(t)]])
          /\ Operation[OpAt(t)].kind # "create" => Current(t, RecAt(t)) # NoRow
      BY <1>1, <1>4, LetThrough
    <3>3. ParentHeld(t, RecAt(t))'
      BY <1>1, <3>1, <3>2 DEF ParentHeld
    <3> QED
      BY <1>3, <3>1, <3>2, <3>3 DEF RowsOf
  <2> QED
    BY <1>1, <1>2, <1>4, <2>1, <2>2, <2>3, MovesOn DEF IInv, TypeOK, GoTo
<1>5. CASE Receive(t, Decision(t, read[t]).reason) /\ Advance(t)
  <2>1. Decision(t, read[t]).reason \in Reasons
    BY <1>1, Decides DEF Decision
  <2>2. /\ ReceiptOf(t)' /\ DOMAIN made' = Sending
        /\ \A u \in Sending : \A o \in DOMAIN made'[u] : o \in Op /\ made'[u][o] \in Reasons
        /\ \A u \in Sending \ {t} : made'[u] = made[u]
    BY <1>1, <1>5, <2>1, Notes DEF Busy
  <2>3. TypeOK'
    BY <1>1, <1>2, <1>5, <2>2, Advances DEF IInv, TypeOK
  <2>4. RowsOf(t)'
    BY <1>1, <1>3, <1>5, Advances DEF IInv, RowsOf
  <2>5. \A u \in Sending \ {t} : pc'[u] = pc[u] /\ at'[u] = at[u]
    BY <1>1, <1>5, Advances DEF IInv
  <2> QED
    BY <1>1, <1>2, <2>2, <2>3, <2>4, <2>5, MovesOn
<1> QED
  BY <1>4, <1>5 DEF Decide

LEMMA NextWriteRecord ==
  ASSUME IInv, NEW t \in Sending, WriteRecord(t)
  PROVE  IInv'
<1>1. CASE Refused(t) /\ RollBack(t)
  <2>1. aborts' \in 0 .. MaxAborts
    BY DEF WriteRecord, IInv, TypeOK
  <2> QED
    BY <1>1, <2>1, NextRollBack
<1>2. CASE ~Refused(t)
  <2> DEFINE r == RecAt(t)
  <2>1. /\ pc[t] = "write" /\ at[t] <= Len(Queue[t]) /\ r \in Record
        /\ rowLock[r] \in {Nobody, t} /\ rowLock' = [rowLock EXCEPT ![r] = t]
        /\ pc' = [pc EXCEPT ![t] = "stamp"]
        /\ UNCHANGED <<row, receipt, landed, astray, at, read, draft, made,
                       opLock, counterLock, fixing, aborts>>
    BY <1>2, OpFacts DEF IInv, TypeOK, WriteRecord, GoTo, Free
  <2>2. /\ \A x \in Record : rowLock'[x] = rowLock[x] \/ (rowLock[x] \in {Nobody, t} /\ rowLock'[x] = t)
        /\ rowLock'[r] = t
    BY <2>1 DEF IInv, TypeOK
  <2>3. TypeOK'
    BY <2>1 DEF IInv, TypeOK, Holder
  <2>4. ReceiptOf(t)'
    BY <2>1 DEF IInv, TypeOK, ReceiptOf, Busy, OpAt
  <2>5. RowsOf(t)'
    <3>1. /\ pc'[t] = "stamp" /\ RecAt(t)' = r /\ OpAt(t)' = OpAt(t)
          /\ Current(t, r)' = Current(t, r)
      BY <2>1 DEF IInv, TypeOK, RecAt, OpAt, Current
    <3>2. /\ PolicyOf[r] # NoPolicy /\ ParentHeld(t, r)
          /\ Operation[OpAt(t)].kind # "create" => Current(t, r) # NoRow
      BY <2>1 DEF IInv, RowsOf
    <3>3. OwnOpen(r)
      <4>1. CASE r \in DOMAIN draft[t]
        BY <4>1 DEF IInv, RowsOf, WrittenBy
      <4>2. CASE r \notin DOMAIN draft[t]
        BY <1>2, <4>2 DEF Refused, StaysFixed, Current, OwnOpen
      <4> QED
        BY <4>1, <4>2
    <3>4. ParentHeld(t, r)' /\ \A x \in DOMAIN draft'[t] : WrittenBy(t, x)'
      BY <2>1, <2>2, <3>1, <3>2, RowsKeep
    <3>5. WrittenBy(t, r)'
      BY <2>1, <2>2, <3>1, <3>3, <3>4 DEF WrittenBy, OwnOpen
    <3> QED
      BY <3>1, <3>2, <3>4, <3>5 DEF RowsOf
  <2> QED
    BY <2>1, <2>2, <2>3, <2>4, <2>5, MovesOn DEF IInv, TypeOK
<1> QED
  BY <1>1, <1>2 DEF WriteRecord

LEMMA NextStampRecord ==
  ASSUME IInv, NEW t \in Sending, StampRecord(t)
  PROVE  IInv'
<1> DEFINE r == RecAt(t)
           new == Landed(Operation[OpAt(t)], Current(t, r), PolicyOf[r])
<1>1. /\ pc[t] = "stamp" /\ at[t] <= Len(Queue[t]) /\ r \in Record /\ OpAt(t) \in Op
      /\ counterLock' = t /\ draft' = [draft EXCEPT ![t] = With(draft[t], r, new)]
      /\ astray' \in {astray, astray \cup {OpAt(t)}}
      /\ Receive(t, "applied") /\ Advance(t)
      /\ UNCHANGED <<row, receipt, landed, read, opLock, rowLock, fixing, aborts>>
  BY OpFacts DEF IInv, TypeOK, StampRecord
<1>2. new \in Rows
  <2>1. /\ Operation[OpAt(t)].kind \in Kinds /\ PolicyOf[r] \in Policies
        /\ \A f \in Fields(Operation[OpAt(t)]) : Operation[OpAt(t)].patches[f].to \in Value
    BY <1>1, OpFacts DEF IInv, RowsOf
  <2>2. Operation[OpAt(t)].kind # "create" => Current(t, r) \in Rows
    BY <1>1 DEF IInv, TypeOK, RowsOf, Current
  <2> QED
    BY <2>1, <2>2, Lands
<1> HIDE DEF new
<1>3. /\ DOMAIN draft'[t] = {r} \cup DOMAIN draft[t]
      /\ \A x \in DOMAIN draft'[t] : draft'[t][x] = IF x = r THEN new ELSE draft[t][x]
      /\ \A u \in Sending \ {t} : draft'[u] = draft[u]
      /\ DOMAIN draft' = Sending
  BY <1>1 DEF IInv, TypeOK, With
<1>4. /\ ReceiptOf(t)' /\ DOMAIN made' = Sending
      /\ \A u \in Sending : \A o \in DOMAIN made'[u] : o \in Op /\ made'[u][o] \in Reasons
      /\ \A u \in Sending \ {t} : made'[u] = made[u]
  <2>1. "applied" \in Reasons
    BY DEF Reasons
  <2> QED
    BY <1>1, <2>1, Notes DEF Busy
<1>5. \A u \in Sending : \A x \in DOMAIN draft'[u] : x \in Record /\ draft'[u][x] \in Rows
  <2>1. \A u \in Sending : \A x \in DOMAIN draft[u] : x \in Record /\ draft[u][x] \in Rows
    BY DEF IInv, TypeOK
  <2>2. \A x \in DOMAIN draft'[t] : x \in Record /\ draft'[t][x] \in Rows
    BY <1>1, <1>2, <1>3, <2>1
  <2> QED
    BY <1>3, <2>1, <2>2
<1>6. TypeOK'
  BY <1>1, <1>3, <1>4, <1>5, Advances DEF IInv, TypeOK, Holder
<1>7. RowsOf(t)'
  <2>1. \A x \in DOMAIN draft'[t] : WrittenBy(t, x)
    BY <1>1, <1>3 DEF IInv, RowsOf
  <2>2. \A x \in DOMAIN draft'[t] : WrittenBy(t, x)'
    BY <1>1, <2>1 DEF WrittenBy, OwnOpen, ParentHeld
  <2>3. pc'[t] \in {"lock", "commit"}
    BY <1>1, Advances DEF IInv
  <2> QED
    BY <2>2, <2>3 DEF RowsOf
<1>8. \A u \in Sending \ {t} : pc'[u] = pc[u] /\ at'[u] = at[u] /\ read'[u] = read[u]
  BY <1>1, Advances DEF IInv
<1> QED
  BY <1>1, <1>3, <1>4, <1>6, <1>7, <1>8, MovesOn

\* A commit writes rows and receipts the transmission has locked, and an
\* operation it has a receipt for had none.
LEMMA NextCommit ==
  ASSUME IInv, NEW t \in Sending, Commit(t)
  PROVE  IInv'
<1>1. /\ pc' = [pc EXCEPT ![t] = "done"] /\ DOMAIN NoChange = {} /\ DOMAIN NoneMade = {}
      /\ draft' = [draft EXCEPT ![t] = NoChange] /\ made' = [made EXCEPT ![t] = NoneMade]
      /\ UNCHANGED <<astray, at, read, fixing, aborts>>
  BY DEF Commit, GoTo, NoChange, NoneMade
<1>2. /\ \A o \in Op : opLock'[o] = IF opLock[o] = t THEN Nobody ELSE opLock[o]
      /\ \A r \in Record : rowLock'[r] = IF rowLock[r] = t THEN Nobody ELSE rowLock[r]
      /\ opLock' \in [Op -> Sending \cup {Nobody}] /\ rowLock' \in [Record -> Holder \cup {Nobody}]
      /\ counterLock' \in Holder \cup {Nobody}
  BY DEF IInv, TypeOK, Commit, ReleaseAll, Released
<1>3. /\ \A r \in Record : row'[r] = row[r] \/ rowLock[r] = t
      /\ \A r \in Record : row[r] # NoRow => row'[r] # NoRow
      /\ row' \in [Record -> Rows \cup {NoRow}]
  BY SyncApplyAssumption DEF Commit, Current, IInv, TypeOK, RowsOf, WrittenBy
<1>4. /\ \A o \in Op : receipt'[o] = IF o \in DOMAIN made[t] THEN made[t][o] ELSE receipt[o]
      /\ \A o \in Op : landed'[o] = IF o \in DOMAIN made[t] /\ made[t][o] = "applied"
                                    THEN landed[o] + 1 ELSE landed[o]
      /\ \A o \in DOMAIN made[t] : opLock[o] = t /\ receipt[o] = "none"
  BY DEF Commit, IInv, ReceiptOf
<1>5. receipt' \in [Op -> Reasons \cup {"none"}] /\ landed' \in [Op -> Nat]
  BY DEF Commit, IInv, TypeOK
<1>6. TypeOK'
  BY <1>1, <1>2, <1>3, <1>5 DEF IInv, TypeOK
<1>7. OnceOnly'
  <2> SUFFICES ASSUME NEW o \in Op
               PROVE  landed'[o] <= 1 /\ (landed'[o] = 1 <=> receipt'[o] = "applied")
    BY DEF OnceOnly
  <2>1. landed[o] \in Nat /\ landed[o] <= 1 /\ (landed[o] = 1 <=> receipt[o] = "applied")
    BY DEF IInv, TypeOK, OnceOnly
  <2> QED
    BY <1>4, <2>1
<1>8. ReceiptOf(t)' /\ RowsOf(t)'
  BY <1>1 DEF IInv, TypeOK, ReceiptOf, RowsOf, Busy
<1>9. \A u \in Sending \ {t} : /\ pc'[u] = pc[u] /\ at'[u] = at[u] /\ read'[u] = read[u]
                                /\ draft'[u] = draft[u] /\ made'[u] = made[u]
  BY <1>1 DEF IInv, TypeOK
<1>10. OfficeInv' /\ \A u \in Sending \ {t} : ReceiptOf(u)' /\ RowsOf(u)'
  BY <1>1, <1>2, <1>3, <1>4, <1>9, OthersStill
<1> QED
  BY <1>6, <1>7, <1>8, <1>10 DEF IInv

LEMMA NextConnectionLost ==
  ASSUME IInv, NEW t \in Sending, ConnectionLost(t)
  PROVE  IInv'
<1>1. aborts' \in 0 .. MaxAborts
  BY SyncApplyAssumption DEF ConnectionLost, IInv, TypeOK
<1> QED
  BY <1>1, NextRollBack DEF ConnectionLost

LEMMA NextEndedByDatabase ==
  ASSUME IInv, NEW t \in Sending, EndedByDatabase(t)
  PROVE  IInv'
<1>1. aborts' \in 0 .. MaxAborts
  BY DEF EndedByDatabase, IInv, TypeOK
<1> QED
  BY <1>1, NextRollBack DEF EndedByDatabase

-----------------------------------------------------------------------------
(* The office. *)

\* The office touches nothing a transmission has locked.
LEMMA OfficeMoves ==
  ASSUME IInv, TypeOK', OfficeInv',
         UNCHANGED <<receipt, landed, pc, at, read, draft, made>>,
         \A u \in Sending : \A o \in Op : opLock[o] = u => opLock'[o] = u,
         \A u \in Sending : \A r \in Record : rowLock[r] = u => rowLock'[r] = u /\ row'[r] = row[r],
         \A r \in Record : row[r] # NoRow => row'[r] # NoRow
  PROVE  IInv'
<1>1. ASSUME NEW u \in Sending
      PROVE  ReceiptOf(u)' /\ RowsOf(u)'
  BY Still DEF IInv
<1> QED
  BY <1>1 DEF IInv, OnceOnly

LEMMA NextOffice ==
  ASSUME IInv, OfficeSteps \/ OfficeEndedByDatabase
  PROVE  IInv'
<1>1. /\ Fixing \in Record /\ Office \notin Sending /\ Nobody \notin Sending
      /\ Office \in Holder /\ Nobody \notin Holder
  BY SyncApplyAssumption DEF Holder
<1>2. CASE OfficeLocks
  <2>1. TypeOK' /\ OfficeInv'
    BY <1>1, <1>2 DEF OfficeLocks, IInv, TypeOK, OfficeInv
  <2> QED
    BY <1>1, <1>2, <2>1, OfficeMoves DEF OfficeLocks, IInv, TypeOK
<1>3. CASE OfficeWrites
  <2>1. TypeOK' /\ OfficeInv'
    BY <1>1, <1>3 DEF OfficeWrites, IInv, TypeOK, OfficeInv
  <2> QED
    BY <1>1, <1>3, <2>1, OfficeMoves DEF OfficeWrites, IInv, TypeOK
<1>4. ASSUME ReleaseAll(Office)
      PROVE  /\ opLock' \in [Op -> Sending \cup {Nobody}] /\ counterLock' \in Holder \cup {Nobody}
             /\ rowLock' \in [Record -> Holder \cup {Nobody}]
             /\ \A u \in Sending : \A o \in Op : opLock[o] = u => opLock'[o] = u
             /\ \A u \in Sending : \A r \in Record : rowLock[r] = u => rowLock'[r] = u
  BY <1>1, <1>4 DEF ReleaseAll, Released, IInv, TypeOK
<1>5. CASE OfficeCommits
  <2>1. row[Fixing] \in Rows /\ rowLock[Fixing] = Office
    BY <1>1, <1>5 DEF OfficeCommits, IInv, TypeOK, OfficeInv
  <2> DEFINE fixed == [row[Fixing] EXCEPT !.data[StatusField] = FixedValue, !.version = @ + 1]
  <2>2. fixed \in Rows
    <3>1. PICK d \in [Field -> Value], v \in Nat, x \in BOOLEAN :
             row[Fixing] = [data |-> d, version |-> v, deleted |-> x]
      BY <2>1 DEF Rows
    <3>2. [d EXCEPT ![StatusField] = FixedValue] \in [Field -> Value] /\ v + 1 \in Nat
      BY SyncApplyAssumption
    <3> DEFINE new == [d EXCEPT ![StatusField] = FixedValue]
    <3>3. [row[Fixing] EXCEPT !.data[StatusField] = FixedValue]
            = [data |-> new, version |-> v, deleted |-> x]
      BY <3>1
    <3>4. [[data |-> new, version |-> v, deleted |-> x] EXCEPT !.version = v + 1]
            = [data |-> new, version |-> v + 1, deleted |-> x]
      OBVIOUS
    <3>5. fixed = [data |-> new, version |-> v + 1, deleted |-> x]
      BY <3>1, <3>3, <3>4
    <3> QED
      BY <3>2, <3>5 DEF Rows
  <2>3. /\ row' = [row EXCEPT ![Fixing] = fixed] /\ fixing' = "done" /\ ReleaseAll(Office)
        /\ UNCHANGED <<receipt, landed, astray, pc, at, read, draft, made, aborts>>
    BY <1>1, <1>5, <2>1 DEF OfficeCommits, IInv, TypeOK
  <2> HIDE DEF fixed
  <2>4. \A r \in Record : row'[r] = IF r = Fixing THEN fixed ELSE row[r]
    BY <2>3 DEF IInv, TypeOK
  <2>5. TypeOK'
    BY <1>4, <2>2, <2>3 DEF IInv, TypeOK
  <2>6. OfficeInv'
    BY <1>1, <2>2, <2>3, <2>4, SyncApplyAssumption DEF OfficeInv
  <2>7. \A u \in Sending : \A r \in Record : rowLock[r] = u => rowLock'[r] = u /\ row'[r] = row[r]
    BY <1>1, <1>4, <2>1, <2>3, <2>4
  <2>8. \A r \in Record : row[r] # NoRow => row'[r] # NoRow
    BY <2>2, <2>4, SyncApplyAssumption
  <2> QED
    BY <1>4, <2>3, <2>5, <2>6, <2>7, <2>8, OfficeMoves
<1>6. CASE OfficeEndedByDatabase
  <2>1. TypeOK' /\ OfficeInv'
    BY <1>4, <1>6 DEF OfficeEndedByDatabase, IInv, TypeOK, OfficeInv
  <2> QED
    BY <1>4, <1>6, <2>1, OfficeMoves DEF OfficeEndedByDatabase
<1> QED
  BY <1>2, <1>3, <1>5, <1>6 DEF OfficeSteps

-----------------------------------------------------------------------------
(* The theorems. *)

LEMMA InitInv == Init => IInv
<1> SUFFICES ASSUME Init PROVE IInv
  OBVIOUS
<1>1. DOMAIN NoChange = {} /\ DOMAIN NoneMade = {}
  BY DEF NoChange, NoneMade
<1>2. \A t \in Sending : Len(Queue[t]) >= 1
  BY SyncApplyAssumption
<1>3. TypeOK
  <2>1. aborts \in 0 .. MaxAborts
    BY SyncApplyAssumption DEF Init
  <2> QED
    BY <1>1, <1>2, <2>1, SyncApplyAssumption DEF Init, TypeOK
<1>4. \A t \in Sending : ReceiptOf(t) /\ RowsOf(t)
  BY <1>1 DEF Init, ReceiptOf, RowsOf, Busy
<1>5. OnceOnly /\ OfficeInv
  BY SyncApplyAssumption DEF Init, OnceOnly, OfficeInv
<1> QED
  BY <1>3, <1>4, <1>5 DEF IInv

LEMMA NextInv ==
  ASSUME IInv, [Next]_vars
  PROVE  IInv'
<1>1. CASE UNCHANGED vars
  <2>1. TypeOK'
    BY <1>1 DEF IInv, TypeOK, vars, locks
  <2>2. OfficeInv'
    BY <1>1 DEF IInv, OfficeInv, vars, locks
  <2> QED
    BY <1>1, <2>1, <2>2, OfficeMoves DEF vars, locks
<1>2. ASSUME NEW t \in Sending, Step(t)
      PROVE  IInv'
  BY <1>2, NextBegin, NextLockOperation, NextReadRecord, NextDecide, NextWriteRecord,
     NextStampRecord, NextCommit DEF Step
<1>3. ASSUME NEW t \in Sending, ConnectionLost(t) \/ EndedByDatabase(t)
      PROVE  IInv'
  BY <1>3, NextConnectionLost, NextEndedByDatabase
<1> QED
  BY <1>1, <1>2, <1>3, NextOffice DEF Next, Finished

LEMMA Invariant == Spec => []IInv
<1>1. IInv /\ [Next]_vars => IInv'
  BY NextInv
<1> QED
  BY <1>1, InitInv, PTL DEF Spec

\* Every row is whole, every lock somebody's or nobody's, and a transmission is
\* at an operation of its queue until it commits (applyOperations, sync/apply.ts).
THEOREM TypeCorrect == Spec => []TypeOK
<1>1. IInv => TypeOK
  BY DEF IInv
<1> QED
  BY <1>1, Invariant, PTL

\* However many transmissions bring an operation, and wherever each of them
\* breaks off, it lands at most once, and its receipt says so (applyOne,
\* sync/apply.ts).
THEOREM AppliedOnce == Spec => []OnceOnly
<1>1. IInv => OnceOnly
  BY DEF IInv
<1> QED
  BY <1>1, Invariant, PTL

\* Only a commit and the office change rows.
LEMMA RowsChange ==
  ASSUME [Next]_vars
  PROVE  row' = row \/ OfficeCommits \/ \E t \in Sending : Commit(t)
<1>1. ASSUME NEW t \in Sending, Step(t) \/ ConnectionLost(t) \/ EndedByDatabase(t)
      PROVE  row' = row \/ Commit(t)
  BY <1>1 DEF Step, Begin, LockOperation, ReadRecord, Decide, WriteRecord, StampRecord,
              ConnectionLost, EndedByDatabase, RollBack
<1>2. OfficeSteps \/ OfficeEndedByDatabase => row' = row \/ OfficeCommits
  BY DEF OfficeSteps, OfficeLocks, OfficeWrites, OfficeEndedByDatabase
<1> QED
  BY <1>1, <1>2 DEF Next, Finished, vars

\* No line changes under a document that is fixed, whichever transmissions had
\* asked before it was (parentFor, sync/apply.ts, and the trigger
\* document_stays_fixed).
THEOREM FixedStaysFixed == Spec => NothingAfterFixing
<1> DEFINE Kept == \A r \in Record :
              LET parent == row[ParentOf[r]] IN
              (Gated(r) /\ parent # NoRow /\ ~StandsOpen(PolicyOf[r].gateFrom, parent))
                  => row'[r] = row[r]
<1>1. ASSUME IInv, [Next]_vars
      PROVE  Kept
  <2> SUFFICES ASSUME NEW r \in Record, Gated(r), row[ParentOf[r]] # NoRow,
                      ~StandsOpen(PolicyOf[r].gateFrom, row[ParentOf[r]])
               PROVE  row'[r] = row[r]
    OBVIOUS
  <2>1. CASE OfficeCommits
    <3>1. r # Fixing
      BY GateAssumption
    <3> QED
      BY <1>1, <2>1, <3>1 DEF OfficeCommits, IInv, TypeOK
  <2>2. ASSUME NEW t \in Sending, Commit(t)
        PROVE  row'[r] = row[r]
    <3>1. r \notin DOMAIN draft[t]
      BY <1>1 DEF IInv, RowsOf, WrittenBy, ParentHeld
    <3> QED
      BY <2>2, <3>1 DEF Commit, Current
  <2> QED
    BY <1>1, <2>1, <2>2, RowsChange
<1>2. IInv /\ [Next]_vars => [Kept]_vars
  BY <1>1
<1>3. Spec => [][Kept]_vars
  BY <1>2, Invariant, PTL DEF Spec
<1> QED
  BY <1>3 DEF NothingAfterFixing

-----------------------------------------------------------------------------
(* What lands elsewhere than on what it was decided on. *)

\* Between the read of a record and the write somebody else has deleted it, or
\* changed a field the operation sets; or has changed it at all, where the
\* operation went by the version alone: a deletion, or an update that misquotes
\* what that version held or wants nothing but that.
Overtaken(op, was, met) ==
    \/ was.deleted # met.deleted
    \/ \E f \in Fields(op) : met.data[f] # was.data[f]
    \/ /\ op.base = was.version /\ met.version # was.version
       /\ op.kind = "delete" \/ Collided(op, was) # {} \/ Changing(op, was) = {}

\* An operation goes astray in no other way: not on a record its transmission
\* wrote before, not on one that was created or fixed in between, not by a
\* change of other fields.
OnlyOvertakenGoAstray ==
    [][\A o \in astray' \ astray : \E t \in Sending :
          /\ pc[t] = "stamp" /\ OpAt(t) = o
          /\ RecAt(t) \notin DOMAIN draft[t] /\ ~Refused(t)
          /\ Overtaken(Operation[o], read[t], Current(t, RecAt(t)))]_vars

\* What a transmission knows of the record it has read and not yet written.
SeenOn(t) ==
    /\ pc[t] \in {"write", "stamp"} => Decision(t, read[t]).outcome = "apply"
    /\ pc[t] \in {"decide", "write", "stamp"} /\ RecAt(t) \in DOMAIN draft[t] =>
          read[t] = draft[t][RecAt(t)]
    /\ pc[t] = "stamp" => ~Refused(t)

SeenInv == \A t \in Sending : SeenOn(t)

\* What is let through on one row is let through on another that does not
\* differ in what the operation is about.
LEMMA LetThroughAgain ==
  ASSUME NEW op, op.kind \in Kinds, NEW was, NEW met, NEW parent, NEW policy,
         DecideMerge(op, was, parent, policy).outcome = "apply",
         op.kind = "create" <=> met = NoRow,
         policy.onlyWhile # NoGate /\ met # NoRow => StandsOpen(policy.onlyWhile, met),
         ~Overtaken(op, was, met)
  PROVE  DecideMerge(op, met, parent, policy).outcome = "apply"
<1>1. /\ policy # NoPolicy /\ Reserved(op, policy) = {}
      /\ policy.gateFrom # NoGate => parent # NoRow /\ StandsOpen(policy.gateFrom, parent)
      /\ IF op.kind = "create" THEN DecideCreate(op, was, policy).outcome = "apply"
                               ELSE DecideChange(op, was, policy).outcome = "apply"
  BY DEF DecideMerge, Conflict
<1>2. CASE op.kind = "create"
  <2>1. policy.create
    BY <1>1, <1>2 DEF DecideCreate, Conflict
  <2>2. DecideCreate(op, met, policy) = Applied
    BY <1>2, <2>1 DEF DecideCreate
  <2> QED
    BY <1>1, <1>2, <2>2 DEF DecideMerge, Applied
<1>3. CASE op.kind # "create"
  <2>1. /\ was # NoRow /\ ~was.deleted /\ policy.change # "never"
        /\ op.kind = "delete" => DecideDelete(op, was).outcome = "apply"
        /\ op.kind # "delete" => DecideUpdate(op, was).outcome = "apply"
    BY <1>1, <1>3 DEF DecideChange, Conflict, Skipped
  <2>2. ~met.deleted /\ met # NoRow
    BY <1>3, <2>1 DEF Overtaken
  <2>3. CASE op.kind = "delete"
    <3>1. op.base \in {NoVersion, met.version}
      BY <2>1, <2>3 DEF DecideDelete, Conflict, Overtaken
    <3> QED
      BY <1>1, <1>3, <2>1, <2>2, <2>3, <3>1 DEF DecideMerge, DecideChange, DecideDelete, Applied
  <2>4. CASE op.kind # "delete"
    <3>1. Collided(op, met) = Collided(op, was) /\ Changing(op, met) = Changing(op, was)
      BY DEF Overtaken, Collided, Changing
    <3>2. op.base = met.version \/ (Collided(op, was) = {} /\ Changing(op, was) # {})
      BY <2>1, <2>4 DEF DecideUpdate, Conflict, Skipped, Overtaken
    <3>3. DecideUpdate(op, met) = Applied
      BY <3>1, <3>2 DEF DecideUpdate
    <3>4. DecideChange(op, met, policy) = Applied
      BY <2>1, <2>2, <2>4, <3>3 DEF DecideChange
    <3> QED
      BY <1>1, <1>3, <3>4 DEF DecideMerge, Applied
  <2> QED
    BY <2>3, <2>4
<1> QED
  BY <1>2, <1>3

\* A transmission keeps what it knows as long as nobody writes what it has
\* locked.
LEMMA StaysSeen ==
  ASSUME IInv, NEW u \in Sending, SeenOn(u),
         pc'[u] = pc[u], at'[u] = at[u], read'[u] = read[u], draft'[u] = draft[u],
         \A r \in Record : rowLock[r] = u => row'[r] = row[r]
  PROVE  SeenOn(u)'
<1>1. OpAt(u)' = OpAt(u) /\ RecAt(u)' = RecAt(u)
  BY DEF OpAt, RecAt
<1>2. ASSUME pc[u] \in {"write", "stamp"}
      PROVE  Decision(u, read[u])' = Decision(u, read[u])
  <2>1. RecAt(u) \in Record /\ ParentHeld(u, RecAt(u))
    BY <1>2, OpFacts DEF IInv, TypeOK, RowsOf
  <2>2. Gated(RecAt(u)) =>
            Current(u, ParentOf[RecAt(u)])' = Current(u, ParentOf[RecAt(u)])
    BY <1>1, <2>1, GateAssumption DEF ParentHeld, Current
  <2> QED
    BY <1>1, <2>2 DEF Decision, Gated
<1>3. ASSUME pc[u] = "stamp"
      PROVE  Refused(u)' <=> Refused(u)
  <2>1. RecAt(u) \in Record /\ rowLock[RecAt(u)] = u
    BY <1>3, OpFacts DEF IInv, TypeOK, RowsOf, WrittenBy
  <2>2. Current(u, RecAt(u))' = Current(u, RecAt(u))
    BY <1>1, <2>1 DEF Current
  <2> QED
    BY <1>1, <2>2 DEF Refused, StaysFixed, StandsOpen
<1> QED
  BY <1>1, <1>2, <1>3 DEF SeenOn

\* A step of one transmission that commits nothing.
LEMMA SeesOn ==
  ASSUME IInv, SeenInv, NEW t \in Sending, row' = row, SeenOn(t)',
         \A u \in Sending \ {t} : /\ pc'[u] = pc[u] /\ at'[u] = at[u] /\ read'[u] = read[u]
                                  /\ draft'[u] = draft[u]
  PROVE  SeenInv'
BY StaysSeen DEF SeenInv

LEMMA SeenRollBack ==
  ASSUME IInv, SeenInv, NEW t \in Sending, RollBack(t)
  PROVE  SeenInv'
<1>1. /\ pc'[t] = "idle" /\ row' = row
      /\ \A u \in Sending \ {t} : /\ pc'[u] = pc[u] /\ at'[u] = at[u] /\ read'[u] = read[u]
                                  /\ draft'[u] = draft[u]
  BY DEF IInv, TypeOK, RollBack, GoTo
<1>2. SeenOn(t)'
  BY <1>1 DEF SeenOn
<1> QED
  BY <1>1, <1>2, SeesOn

LEMMA SeenBegin ==
  ASSUME IInv, SeenInv, NEW t \in Sending, Begin(t)
  PROVE  SeenInv'
<1>1. /\ pc'[t] = "lock" /\ UNCHANGED <<row, at, read, draft>>
      /\ \A u \in Sending \ {t} : pc'[u] = pc[u]
  BY DEF IInv, TypeOK, Begin, GoTo
<1>2. SeenOn(t)'
  BY <1>1 DEF SeenOn
<1> QED
  BY <1>1, <1>2, SeesOn

LEMMA SeenLockOperation ==
  ASSUME IInv, SeenInv, NEW t \in Sending, LockOperation(t)
  PROVE  SeenInv'
<1>1. /\ pc[t] = "lock" /\ at[t] <= Len(Queue[t]) /\ UNCHANGED <<row, read, draft>>
  BY DEF IInv, TypeOK, LockOperation
<1>2. /\ pc'[t] \in {"lock", "commit", "read"}
      /\ \A u \in Sending \ {t} : pc'[u] = pc[u] /\ at'[u] = at[u]
  <2>1. CASE Advance(t)
    BY <1>1, <2>1, Advances DEF IInv
  <2>2. CASE GoTo(t, "read") /\ UNCHANGED at
    BY <2>2 DEF IInv, TypeOK, GoTo
  <2> QED
    BY <2>1, <2>2 DEF LockOperation
<1>3. SeenOn(t)'
  BY <1>2 DEF SeenOn
<1> QED
  BY <1>1, <1>2, <1>3, SeesOn

LEMMA SeenReadRecord ==
  ASSUME IInv, SeenInv, NEW t \in Sending, ReadRecord(t)
  PROVE  SeenInv'
<1>1. /\ pc'[t] = "decide" /\ read'[t] = Current(t, RecAt(t)) /\ UNCHANGED <<row, at, draft>>
      /\ \A u \in Sending \ {t} : pc'[u] = pc[u] /\ read'[u] = read[u]
  BY DEF IInv, TypeOK, ReadRecord, GoTo
<1>2. RecAt(t)' = RecAt(t)
  BY <1>1 DEF RecAt, OpAt
<1>3. SeenOn(t)'
  BY <1>1, <1>2 DEF SeenOn, Current
<1> QED
  BY <1>1, <1>3, SeesOn

LEMMA SeenDecide ==
  ASSUME IInv, SeenInv, NEW t \in Sending, Decide(t)
  PROVE  SeenInv'
<1>1. pc[t] = "decide" /\ at[t] <= Len(Queue[t]) /\ UNCHANGED <<row, read, draft>>
  BY DEF IInv, TypeOK, Decide
<1>2. CASE Decision(t, read[t]).outcome = "apply" /\ GoTo(t, "write") /\ UNCHANGED at
  <2>1. /\ pc'[t] = "write" /\ RecAt(t)' = RecAt(t) /\ OpAt(t)' = OpAt(t)
        /\ \A r : Current(t, r)' = Current(t, r)
        /\ \A u \in Sending \ {t} : pc'[u] = pc[u]
    BY <1>1, <1>2 DEF IInv, TypeOK, GoTo, RecAt, OpAt, Current
  <2>2. Decision(t, read[t])' = Decision(t, read[t])
    BY <1>1, <2>1 DEF Decision, Gated
  <2>3. SeenOn(t)'
    BY <1>1, <1>2, <2>1, <2>2 DEF SeenInv, SeenOn
  <2> QED
    BY <1>1, <1>2, <2>1, <2>3, SeesOn
<1>3. CASE Advance(t)
  <2>1. /\ pc'[t] \in {"lock", "commit"}
        /\ \A u \in Sending \ {t} : pc'[u] = pc[u] /\ at'[u] = at[u]
    BY <1>1, <1>3, Advances DEF IInv
  <2>2. SeenOn(t)'
    BY <2>1 DEF SeenOn
  <2> QED
    BY <1>1, <2>1, <2>2, SeesOn
<1> QED
  BY <1>2, <1>3 DEF Decide

LEMMA SeenWriteRecord ==
  ASSUME IInv, SeenInv, NEW t \in Sending, WriteRecord(t)
  PROVE  SeenInv'
<1>1. CASE Refused(t) /\ RollBack(t)
  BY <1>1, SeenRollBack
<1>2. CASE ~Refused(t) /\ ~(Refused(t) /\ RollBack(t))
  <2>1. /\ pc[t] = "write" /\ pc'[t] = "stamp" /\ UNCHANGED <<row, at, read, draft>>
        /\ \A u \in Sending \ {t} : pc'[u] = pc[u]
    BY <1>2 DEF IInv, TypeOK, WriteRecord, GoTo
  <2>2. RecAt(t)' = RecAt(t) /\ OpAt(t)' = OpAt(t) /\ \A r : Current(t, r)' = Current(t, r)
    BY <2>1 DEF RecAt, OpAt, Current
  <2>3. Decision(t, read[t])' = Decision(t, read[t])
    BY <2>1, <2>2 DEF Decision, Gated
  <2>4. Refused(t)' <=> Refused(t)
    BY <2>2 DEF Refused, StaysFixed, StandsOpen
  <2>5. SeenOn(t)'
    BY <1>2, <2>1, <2>2, <2>3, <2>4 DEF SeenInv, SeenOn
  <2> QED
    BY <2>1, <2>5, SeesOn
<1> QED
  BY <1>1, <1>2 DEF WriteRecord

LEMMA SeenStampRecord ==
  ASSUME IInv, SeenInv, NEW t \in Sending, StampRecord(t)
  PROVE  SeenInv'
<1>1. /\ pc[t] = "stamp" /\ at[t] <= Len(Queue[t]) /\ Advance(t) /\ UNCHANGED <<row, read>>
      /\ \A u \in Sending \ {t} : draft'[u] = draft[u]
  BY DEF IInv, TypeOK, StampRecord
<1>2. /\ pc'[t] \in {"lock", "commit"}
      /\ \A u \in Sending \ {t} : pc'[u] = pc[u] /\ at'[u] = at[u]
  BY <1>1, Advances DEF IInv
<1>3. SeenOn(t)'
  BY <1>2 DEF SeenOn
<1> QED
  BY <1>1, <1>2, <1>3, SeesOn

LEMMA SeenCommit ==
  ASSUME IInv, SeenInv, NEW t \in Sending, Commit(t)
  PROVE  SeenInv'
<1>1. /\ pc'[t] = "done" /\ UNCHANGED <<at, read>>
      /\ \A u \in Sending \ {t} : pc'[u] = pc[u] /\ draft'[u] = draft[u]
  BY DEF IInv, TypeOK, Commit, GoTo
<1>2. \A r \in Record : row'[r] = row[r] \/ rowLock[r] = t
  BY DEF Commit, Current, IInv, RowsOf, WrittenBy, TypeOK
<1>3. SeenOn(t)'
  BY <1>1 DEF SeenOn
<1>4. ASSUME NEW u \in Sending \ {t}
      PROVE  SeenOn(u)'
  <2>1. \A r \in Record : rowLock[r] = u => row'[r] = row[r]
    BY <1>2
  <2> QED
    BY <1>1, <2>1, StaysSeen DEF SeenInv
<1> QED
  BY <1>3, <1>4 DEF SeenInv

\* The office locks what it fixes, so it writes nothing a transmission has.
LEMMA SeenOffice ==
  ASSUME IInv, SeenInv, OfficeSteps \/ OfficeEndedByDatabase
  PROVE  SeenInv'
<1>1. /\ UNCHANGED <<pc, at, read, draft>>
      /\ \A r \in Record : row'[r] = row[r] \/ rowLock[r] = Office
  BY SyncApplyAssumption DEF OfficeSteps, OfficeLocks, OfficeWrites, OfficeCommits,
     OfficeEndedByDatabase, IInv, TypeOK, OfficeInv
<1>2. Office \notin Sending
  BY SyncApplyAssumption
<1>3. ASSUME NEW u \in Sending
      PROVE  SeenOn(u)'
  <2>1. \A r \in Record : rowLock[r] = u => row'[r] = row[r]
    BY <1>1, <1>2
  <2> QED
    BY <1>1, <2>1, StaysSeen DEF SeenInv
<1> QED
  BY <1>3 DEF SeenInv

LEMMA NextSeen ==
  ASSUME IInv, SeenInv, [Next]_vars
  PROVE  SeenInv'
<1>1. CASE UNCHANGED vars
  BY <1>1, StaysSeen DEF vars, SeenInv
<1>2. ASSUME NEW t \in Sending, Step(t)
      PROVE  SeenInv'
  BY <1>2, SeenBegin, SeenLockOperation, SeenReadRecord, SeenDecide, SeenWriteRecord,
     SeenStampRecord, SeenCommit DEF Step
<1>3. ASSUME NEW t \in Sending, ConnectionLost(t) \/ EndedByDatabase(t)
      PROVE  SeenInv'
  BY <1>3, SeenRollBack DEF ConnectionLost, EndedByDatabase
<1> QED
  BY <1>1, <1>2, <1>3, SeenOffice DEF Next, Finished

\* Where the statement lands astray.
LEMMA LandsOvertaken ==
  ASSUME IInv, SeenInv, NEW t \in Sending, pc[t] = "stamp",
         Decision(t, Current(t, RecAt(t))).outcome # "apply"
  PROVE  /\ RecAt(t) \notin DOMAIN draft[t] /\ ~Refused(t)
         /\ Overtaken(Operation[OpAt(t)], read[t], Current(t, RecAt(t)))
<1> DEFINE r == RecAt(t)
           op == Operation[OpAt(t)]
           met == Current(t, r)
           parent == IF Gated(r) THEN Current(t, ParentOf[r]) ELSE NoRow
<1>1. /\ op.kind \in Kinds /\ ~Refused(t) /\ SeenOn(t)
      /\ DecideMerge(op, read[t], parent, PolicyOf[r]).outcome = "apply"
      /\ op.kind # "create" => met # NoRow
  BY OpFacts DEF IInv, TypeOK, RowsOf, SeenInv, SeenOn, Decision
<1>2. /\ op.kind = "create" => met = NoRow
      /\ PolicyOf[r].onlyWhile # NoGate /\ met # NoRow => StandsOpen(PolicyOf[r].onlyWhile, met)
  BY <1>1 DEF Refused, StaysFixed
<1>3. DecideMerge(op, met, parent, PolicyOf[r]).outcome # "apply"
  BY DEF Decision
<1>4. r \notin DOMAIN draft[t]
  BY <1>1, <1>3 DEF SeenOn, Current
<1>5. Overtaken(op, read[t], met)
  <2> DEFINE was == read[t]
             policy == PolicyOf[r]
  <2>1. /\ op.kind \in Kinds /\ DecideMerge(op, was, parent, policy).outcome = "apply"
        /\ op.kind = "create" <=> met = NoRow
        /\ policy.onlyWhile # NoGate /\ met # NoRow => StandsOpen(policy.onlyWhile, met)
        /\ DecideMerge(op, met, parent, policy).outcome # "apply"
    BY <1>1, <1>2, <1>3
  <2> HIDE DEF op, met, parent, was, policy
  <2>2. Overtaken(op, was, met)
    BY <2>1, LetThroughAgain
  <2> QED
    BY <2>2 DEF was
<1> QED
  BY <1>1, <1>4, <1>5

\* What is decided of a record as it was read holds where the statement lands,
\* though nothing locks the record between, unless another device has changed
\* in the meantime what the operation itself changes: for every number of
\* devices, whatever they change and however often they are ended (applyOne
\* and writeRow, sync/apply.ts, decideMerge).
THEOREM AsDecided == Spec => OnlyOvertakenGoAstray
<1> DEFINE Astray == \A o \in astray' \ astray : \E t \in Sending :
                        /\ pc[t] = "stamp" /\ OpAt(t) = o
                        /\ RecAt(t) \notin DOMAIN draft[t] /\ ~Refused(t)
                        /\ Overtaken(Operation[o], read[t], Current(t, RecAt(t)))
<1>1. Init => IInv /\ SeenInv
  BY InitInv DEF Init, SeenInv, SeenOn
<1>2. IInv /\ SeenInv /\ [Next]_vars => IInv' /\ SeenInv'
  BY NextInv, NextSeen
<1>3. IInv /\ SeenInv /\ [Next]_vars => [Astray]_vars
  <2> SUFFICES ASSUME IInv, SeenInv, Next, NEW o \in astray' \ astray
               PROVE  \E t \in Sending :
                        /\ pc[t] = "stamp" /\ OpAt(t) = o
                        /\ RecAt(t) \notin DOMAIN draft[t] /\ ~Refused(t)
                        /\ Overtaken(Operation[o], read[t], Current(t, RecAt(t)))
    OBVIOUS
  <2>1. astray' # astray
    OBVIOUS
  <2>2. \A t \in Sending : ~RollBack(t)
    BY <2>1 DEF RollBack
  <2>3. PICK t \in Sending : StampRecord(t)
    <3>1. ~OfficeSteps /\ ~OfficeEndedByDatabase /\ ~Finished
      BY <2>1 DEF OfficeSteps, OfficeLocks, OfficeWrites, OfficeCommits, OfficeEndedByDatabase,
         Finished, vars
    <3>2. \A t \in Sending : ~ConnectionLost(t) /\ ~EndedByDatabase(t)
      BY <2>2 DEF ConnectionLost, EndedByDatabase
    <3>3. \A t \in Sending : Step(t) => StampRecord(t)
      BY <2>1, <2>2 DEF Step, Begin, LockOperation, ReadRecord, Decide, WriteRecord, Commit
    <3> QED
      BY <3>1, <3>2, <3>3 DEF Next
  <2>4. /\ pc[t] = "stamp" /\ o = OpAt(t)
        /\ Decision(t, Current(t, RecAt(t))).outcome # "apply"
    BY <2>3 DEF StampRecord
  <2> QED
    BY <2>4, LandsOvertaken
<1>4. Spec => [][Astray]_vars
  BY <1>1, <1>2, <1>3, PTL DEF Spec
<1> QED
  BY <1>4 DEF OnlyOvertakenGoAstray

-----------------------------------------------------------------------------
(* The server's half of what is promised of an operation (Operations): it     *)
(* waits, is decided once, and not ahead of an earlier one that still waits.  *)

\* Whether an operation comes before another wherever that one is sent.
Before(p, o) ==
    \A t \in Sending : \A n \in 1 .. Len(Queue[t]) :
        Queue[t][n] = o => \E m \in 1 .. n - 1 : Queue[t][m] = p

StatusOf(o) == IF receipt[o] = "none" THEN "waiting" ELSE receipt[o]

Promise == INSTANCE Operations
             WITH Op <- Op, Outcome <- Reasons, Earlier <- Before,
                  status <- [o \in Op |-> StatusOf(o)]

\* A transmission has been through the operations before the one it is at.
ThroughBefore(t) ==
    /\ pc[t] = "commit" => at[t] > Len(Queue[t])
    /\ \A o \in DOMAIN made[t] : \E n \in 1 .. Len(Queue[t]) : Queue[t][n] = o
    /\ \A m \in 1 .. at[t] - 1 :
          pc[t] \notin {"idle", "done"} /\ m <= Len(Queue[t]) =>
              Queue[t][m] \in DOMAIN made[t] \/ receipt[Queue[t][m]] # "none"
    /\ pc[t] = "idle" => at[t] = 1

OrderInv == \A t \in Sending : ThroughBefore(t)

DecidesInOrder == [][Promise!Decide]_receipt

LEMMA OrderStays ==
  ASSUME NEW u \in Sending, ThroughBefore(u),
         pc'[u] = pc[u], at'[u] = at[u], made'[u] = made[u],
         \A o : receipt[o] # "none" => receipt'[o] # "none"
  PROVE  ThroughBefore(u)'
BY DEF ThroughBefore

\* On from an operation that has its receipt, found or noted.
LEMMA GoesThrough ==
  ASSUME IInv, NEW t \in Sending, ThroughBefore(t), pc[t] \notin {"idle", "done"},
         at[t] <= Len(Queue[t]), Advance(t), receipt' = receipt,
         DOMAIN made[t] \subseteq DOMAIN made'[t],
         \A o \in DOMAIN made'[t] : o \in DOMAIN made[t] \/ o = OpAt(t),
         receipt[OpAt(t)] # "none" \/ OpAt(t) \in DOMAIN made'[t]
  PROVE  ThroughBefore(t)'
<1>1. /\ at[t] \in 1 .. Len(Queue[t]) /\ at'[t] = at[t] + 1 /\ OpAt(t) = Queue[t][at[t]]
      /\ pc'[t] = IF at[t] = Len(Queue[t]) THEN "commit" ELSE "lock"
      /\ Len(Queue[t]) \in Nat
  BY SyncApplyAssumption DEF IInv, TypeOK, Advance, GoTo, OpAt
<1>2. \A m \in 1 .. at'[t] - 1 : m \in 1 .. at[t] - 1 \/ m = at[t]
  BY <1>1
<1>3. \A o \in DOMAIN made'[t] : \E n \in 1 .. Len(Queue[t]) : Queue[t][n] = o
  BY <1>1 DEF ThroughBefore
<1> QED
  BY <1>1, <1>2, <1>3 DEF ThroughBefore

LEMMA NextOrder ==
  ASSUME IInv, OrderInv, [Next]_vars
  PROVE  OrderInv'
<1>1. ASSUME NEW t \in Sending, ThroughBefore(t)',
             \A u \in Sending \ {t} : pc'[u] = pc[u] /\ at'[u] = at[u] /\ made'[u] = made[u],
             \A o : receipt[o] # "none" => receipt'[o] # "none"
      PROVE  OrderInv'
  <2>1. ASSUME NEW u \in Sending \ {t}
        PROVE  ThroughBefore(u)'
    BY <1>1, OrderStays DEF OrderInv
  <2> QED
    BY <1>1, <2>1 DEF OrderInv
<1>2. CASE UNCHANGED <<pc, at, made, receipt>>
  BY <1>2, OrderStays DEF OrderInv
<1>3. ASSUME NEW t \in Sending, RollBack(t)
      PROVE  OrderInv'
  <2>1. /\ pc'[t] = "idle" /\ at'[t] = 1 /\ DOMAIN made'[t] = {} /\ receipt' = receipt
        /\ \A u \in Sending \ {t} : pc'[u] = pc[u] /\ at'[u] = at[u] /\ made'[u] = made[u]
    BY <1>3 DEF IInv, TypeOK, RollBack, GoTo, NoneMade
  <2>2. ThroughBefore(t)'
    BY <2>1 DEF ThroughBefore
  <2> QED
    BY <1>1, <2>1, <2>2
<1>4. ASSUME NEW t \in Sending,
             \/ Begin(t) \/ ReadRecord(t)
             \/ Decide(t) /\ GoTo(t, "write") /\ UNCHANGED <<at, made>>
             \/ WriteRecord(t) /\ GoTo(t, "stamp") /\ UNCHANGED <<at, made>>
             \/ LockOperation(t) /\ GoTo(t, "read") /\ UNCHANGED at
      PROVE  OrderInv'
  <2>1. /\ pc[t] # "done" /\ pc'[t] \notin {"idle", "done", "commit"} /\ UNCHANGED <<at, made>>
        /\ \A u \in Sending \ {t} : pc'[u] = pc[u]
        /\ pc[t] = "idle" => at[t] = 1
    BY <1>4 DEF IInv, TypeOK, Begin, ReadRecord, Decide, WriteRecord, LockOperation, GoTo,
                OrderInv, ThroughBefore
  <2>2. receipt' = receipt
    BY <1>4 DEF Begin, ReadRecord, Decide, WriteRecord, RollBack, LockOperation
  <2>3. ThroughBefore(t)'
    BY <2>1, <2>2 DEF OrderInv, ThroughBefore
  <2> QED
    BY <1>1, <2>1, <2>2, <2>3
<1>5. ASSUME NEW t \in Sending, pc[t] \in {"lock", "decide", "stamp"}, Advance(t),
             receipt' = receipt,
             \/ /\ receipt[OpAt(t)] # "none" \/ OpAt(t) \in DOMAIN made[t]
                /\ made' = made
             \/ \E outcome \in Reasons : Receive(t, outcome)
      PROVE  OrderInv'
  <2>1. at[t] <= Len(Queue[t])
    BY <1>5 DEF IInv, TypeOK
  <2>2. /\ DOMAIN made[t] \subseteq DOMAIN made'[t]
        /\ \A o \in DOMAIN made'[t] : o \in DOMAIN made[t] \/ o = OpAt(t)
        /\ receipt[OpAt(t)] # "none" \/ OpAt(t) \in DOMAIN made'[t]
        /\ \A u \in Sending \ {t} : made'[u] = made[u]
    BY <1>5 DEF Receive, With, IInv, TypeOK
  <2>3. ThroughBefore(t)'
    BY <1>5, <2>1, <2>2, GoesThrough DEF OrderInv
  <2>4. \A u \in Sending \ {t} : pc'[u] = pc[u] /\ at'[u] = at[u]
    BY <1>5, <2>1, Advances DEF IInv
  <2> QED
    BY <1>1, <1>5, <2>2, <2>3, <2>4
<1>6. ASSUME NEW t \in Sending, Commit(t)
      PROVE  OrderInv'
  <2>1. /\ pc'[t] = "done" /\ DOMAIN made'[t] = {} /\ at' = at
        /\ \A u \in Sending \ {t} : pc'[u] = pc[u] /\ made'[u] = made[u]
    BY <1>6 DEF IInv, TypeOK, Commit, GoTo, NoneMade
  <2>2. \A o \in Op : receipt[o] # "none" => receipt'[o] # "none"
    BY <1>6 DEF Commit, Reasons, IInv, TypeOK
  <2>3. ASSUME NEW u \in Sending \ {t}
        PROVE  ThroughBefore(u)'
    <3>1. \A m \in 1 .. Len(Queue[u]) : Queue[u][m] \in Op
      BY SyncApplyAssumption
    <3>2. Len(Queue[u]) \in Nat /\ at[u] \in Nat
      BY SyncApplyAssumption DEF IInv, TypeOK
    <3>3. ThroughBefore(u) /\ pc'[u] = pc[u] /\ made'[u] = made[u] /\ at'[u] = at[u]
      BY <2>1 DEF OrderInv
    <3>4. ASSUME NEW m \in 1 .. at[u] - 1, pc[u] \notin {"idle", "done"}, m <= Len(Queue[u])
          PROVE  Queue[u][m] \in DOMAIN made[u] \/ receipt'[Queue[u][m]] # "none"
      <4>1. m \in 1 .. Len(Queue[u])
        BY <3>2, <3>4
      <4>2. Queue[u][m] \in DOMAIN made[u] \/ receipt[Queue[u][m]] # "none"
        BY <3>3, <3>4 DEF ThroughBefore
      <4>3. Queue[u][m] \in Op
        BY <3>1, <4>1
      <4> QED
        BY <2>2, <4>2, <4>3
    <3>5. /\ pc[u] = "commit" => at[u] > Len(Queue[u])
          /\ \A o \in DOMAIN made[u] : \E n \in 1 .. Len(Queue[u]) : Queue[u][n] = o
          /\ pc[u] = "idle" => at[u] = 1
      BY <3>3 DEF ThroughBefore
    <3> QED
      BY <3>3, <3>4, <3>5 DEF ThroughBefore
  <2>4. ThroughBefore(t)'
    BY <2>1 DEF ThroughBefore
  <2> QED
    BY <2>3, <2>4 DEF OrderInv
<1>7. ASSUME NEW t \in Sending, Step(t)
      PROVE  OrderInv'
  <2>1. CASE LockOperation(t)
    BY <1>4, <1>5, <2>1 DEF LockOperation
  <2>2. CASE Decide(t)
    <3>1. pc[t] = "decide" /\ Operation[OpAt(t)].kind \in Kinds
      BY <2>2, OpFacts DEF Decide, IInv, TypeOK
    <3>2. Decision(t, read[t]).reason \in Reasons
      BY <3>1, Decides DEF Decision
    <3> QED
      BY <1>4, <1>5, <2>2, <3>1, <3>2 DEF Decide
  <2>3. CASE WriteRecord(t)
    BY <1>3, <1>4, <2>3 DEF WriteRecord
  <2>4. CASE StampRecord(t)
    <3>1. "applied" \in Reasons
      BY DEF Reasons
    <3> QED
      BY <1>5, <2>4, <3>1 DEF StampRecord
  <2> QED
    BY <1>4, <1>6, <1>7, <2>1, <2>2, <2>3, <2>4 DEF Step
<1>8. CASE OfficeSteps \/ OfficeEndedByDatabase \/ UNCHANGED vars
  BY <1>2, <1>8 DEF OfficeSteps, OfficeLocks, OfficeWrites, OfficeCommits, OfficeEndedByDatabase,
                    vars, locks
<1> QED
  BY <1>3, <1>7, <1>8 DEF Next, Finished, ConnectionLost, EndedByDatabase

\* Only a commit says something new of operations, and it says it of all it has
\* been through.
LEMMA CommitDecides ==
  ASSUME IInv, OrderInv, NEW t \in Sending, Commit(t)
  PROVE  Promise!Decide
<1> DEFINE status == [o \in Op |-> StatusOf(o)]
           next   == [o \in Op |-> StatusOf(o)']
<1>1. /\ \A o \in Op : receipt[o] \in Reasons \cup {"none"}
      /\ \A o \in Op : receipt'[o] = IF o \in DOMAIN made[t] THEN made[t][o] ELSE receipt[o]
      /\ \A o \in DOMAIN made[t] : o \in Op /\ made[t][o] \in Reasons /\ receipt[o] = "none"
      /\ pc[t] = "commit"
  BY DEF Commit, IInv, TypeOK, ReceiptOf
<1>2. "none" \notin Reasons /\ "waiting" \notin Reasons
  BY DEF Reasons
<1>3. \A o \in Op : next[o] \in Promise!Status
  BY <1>1 DEF StatusOf, Promise!Status
<1>4. \A o \in Op : next[o] # status[o] <=> o \in DOMAIN made[t]
  BY <1>1, <1>2 DEF StatusOf
<1>5. \A o \in DOMAIN made[t] : status[o] = "waiting" /\ next[o] \in Reasons
  BY <1>1, <1>2 DEF StatusOf
<1>6. ASSUME NEW o \in DOMAIN made[t], NEW p \in Op, Before(p, o), status[p] = "waiting"
      PROVE  p \in DOMAIN made[t]
  <2>1. PICK n \in 1 .. Len(Queue[t]) : Queue[t][n] = o
    BY DEF OrderInv, ThroughBefore
  <2>2. PICK m \in 1 .. n - 1 : Queue[t][m] = p
    BY <1>6, <2>1 DEF Before
  <2>3. at[t] > Len(Queue[t]) /\ at[t] \in Nat /\ Len(Queue[t]) \in Nat
    BY <1>1, SyncApplyAssumption DEF OrderInv, ThroughBefore, IInv, TypeOK
  <2>4. m \in 1 .. at[t] - 1 /\ m <= Len(Queue[t])
    BY <2>3
  <2>5. p \in DOMAIN made[t] \/ receipt[p] # "none"
    BY <1>1, <2>2, <2>4 DEF OrderInv, ThroughBefore
  <2> QED
    BY <1>1, <1>2, <1>6, <2>5 DEF StatusOf
<1>7. Promise!Changing = DOMAIN made[t]
  BY <1>1, <1>4 DEF Promise!Changing
<1> QED
  BY <1>3, <1>5, <1>6, <1>7 DEF Promise!Decide

LEMMA DecidesOrNothing ==
  ASSUME IInv, OrderInv, [Next]_vars
  PROVE  [Promise!Decide]_receipt
<1>1. ASSUME NEW t \in Sending, Step(t) \/ ConnectionLost(t) \/ EndedByDatabase(t)
      PROVE  [Promise!Decide]_receipt
  BY <1>1, CommitDecides DEF Step, Begin, LockOperation, ReadRecord, Decide, WriteRecord,
     StampRecord, ConnectionLost, EndedByDatabase, RollBack
<1>2. CASE OfficeSteps \/ OfficeEndedByDatabase
  BY <1>2 DEF OfficeSteps, OfficeLocks, OfficeWrites, OfficeCommits, OfficeEndedByDatabase
<1> QED
  BY <1>1, <1>2 DEF Next, Finished, vars

\* The server's half of the promise: whatever is applied, refused, sent again or
\* broken off, each step decides operations that waited, and none ahead of one
\* that comes before it wherever it is sent; or it says nothing new of any
\* (applyOperations and applyOne, sync/apply.ts).
THEOREM ServerKeepsThePromise == Spec => DecidesInOrder
<1>1. Init => OrderInv
  <2>1. DOMAIN NoneMade = {}
    BY DEF NoneMade
  <2> QED
    BY <2>1 DEF Init, OrderInv, ThroughBefore
<1>2. IInv /\ OrderInv /\ [Next]_vars => OrderInv'
  BY NextOrder
<1>3. Spec => []OrderInv
  BY <1>1, <1>2, Invariant, PTL DEF Spec
<1>4. IInv /\ OrderInv /\ [Next]_vars => [Promise!Decide]_receipt
  BY DecidesOrNothing
<1>5. Spec => [][Promise!Decide]_receipt
  BY <1>3, <1>4, Invariant, PTL DEF Spec
<1> QED
  BY <1>5 DEF DecidesInOrder
=============================================================================

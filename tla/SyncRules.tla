------------------------------ MODULE SyncRules -----------------------------
(***************************************************************************)
(* The decision about one operation that arrives from a device, asked with *)
(* the same answer on the server before it writes and on the device before *)
(* it queues.                                                              *)
(*                                                                         *)
(* A row is [data, version, deleted].  An operation is [rec, kind, base,   *)
(* patches], its patches a function from the fields it sets to what the    *)
(* device saw there and what it wants.                                     *)
(***************************************************************************)
EXTENDS Naturals

CONSTANTS
    Field, Value,
    NoRow,          \* there is no record under the id
    NoVersion,      \* the device made no claim about the version it saw
    NoGate,         \* the entity is writable in every state
    NoPolicy        \* an entity nobody knows

Rows     == [data : [Field -> Value], version : Nat, deleted : BOOLEAN]
Versions == Nat \cup {NoVersion}
Gates    == [field : Field, values : SUBSET Value]

\* `start` is what a created record holds where the operation says nothing:
\* createdAs for a field the server sets, the default of the column otherwise.
Policies ==
    [create : BOOLEAN, change : {"merge", "never"}, reserved : SUBSET Field,
     onlyWhile : Gates \cup {NoGate}, gateFrom : Gates \cup {NoGate},
     start : [Field -> Value]]

Fields(op) == DOMAIN op.patches

Applied               == [outcome |-> "apply", reason |-> "applied", fields |-> {}]
Skipped(reason)       == [outcome |-> "skip", reason |-> reason, fields |-> {}]
Conflict(why, fields) == [outcome |-> "conflict", reason |-> why, fields |-> fields]

StandsOpen(gate, row) == row.data[gate.field] \in gate.values

Reserved(op, policy) == Fields(op) \cap policy.reserved

\* A third value, neither the one the device saw nor the one it wants.
Collided(op, row) ==
    {f \in Fields(op) : row.data[f] \notin {op.patches[f].from, op.patches[f].to}}

Changing(op, row) == {f \in Fields(op) : row.data[f] # op.patches[f].to}

DecideCreate(op, current, policy) ==
    IF ~policy.create THEN Conflict("online_only", {})
    ELSE IF current # NoRow THEN Skipped("already_there")
    ELSE Applied

DecideDelete(op, current) ==
    IF op.base \notin {NoVersion, current.version}
    THEN Conflict("changed_elsewhere", {})
    ELSE Applied

DecideUpdate(op, current) ==
    IF op.base = current.version THEN Applied
    ELSE IF Collided(op, current) # {} THEN Conflict("changed_elsewhere", Collided(op, current))
    ELSE IF Changing(op, current) = {} THEN Skipped("nothing_to_do")
    ELSE Applied

DecideChange(op, current, policy) ==
    IF current = NoRow THEN Conflict("record_missing", {})
    ELSE IF current.deleted
         THEN IF op.kind = "delete" THEN Skipped("nothing_to_do")
              ELSE Conflict("record_missing", {})
    ELSE IF policy.change = "never" THEN Conflict("online_only", {})
    ELSE IF policy.onlyWhile # NoGate /\ ~StandsOpen(policy.onlyWhile, current)
         THEN Conflict("record_is_fixed", {policy.onlyWhile.field})
    ELSE IF op.kind = "delete" THEN DecideDelete(op, current)
    ELSE DecideUpdate(op, current)

\* The gate of the parent first, for a new record as for a change; then the
\* fields the server reserves; then the kind.
DecideMerge(op, current, parent, policy) ==
    IF policy = NoPolicy THEN Conflict("unknown_entity", {})
    ELSE IF policy.gateFrom # NoGate /\ parent = NoRow
         THEN Conflict("record_missing", {})
    ELSE IF policy.gateFrom # NoGate /\ ~StandsOpen(policy.gateFrom, parent)
         THEN Conflict("record_is_fixed", {policy.gateFrom.field})
    ELSE IF Reserved(op, policy) # {}
         THEN Conflict("set_by_server", Reserved(op, policy))
    ELSE IF op.kind = "create" THEN DecideCreate(op, current, policy)
    ELSE DecideChange(op, current, policy)

\* The values of a row with what an operation wants laid over them.
Laid(op, data) == [f \in Field |-> IF f \in Fields(op) THEN op.patches[f].to ELSE data[f]]

\* A plausible slip: a created row has only the fields its operation names.
LandedBare(op, row, policy) ==
    CASE op.kind = "create" ->
           [data |-> [f \in Fields(op) |-> op.patches[f].to], version |-> 1, deleted |-> FALSE]
      [] op.kind = "delete" ->
           [row EXCEPT !.deleted = TRUE, !.version = @ + 1]
      [] OTHER ->
           [row EXCEPT !.data = Laid(op, @), !.version = @ + 1]

\* The row the statement of an operation leaves, written by id alone.
Landed(op, row, policy) ==
    CASE op.kind = "create" ->
           [data |-> Laid(op, policy.start), version |-> 1, deleted |-> FALSE]
      [] op.kind = "delete" ->
           [row EXCEPT !.deleted = TRUE, !.version = @ + 1]
      [] OTHER ->
           [row EXCEPT !.data = Laid(op, @), !.version = @ + 1]

=============================================================================

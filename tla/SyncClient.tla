----------------------------- MODULE SyncClient -----------------------------
(***************************************************************************)
(* Devices that work without a network: what a person enters is laid over  *)
(* what the server last said, waits in the outbox and goes up with the next *)
(* exchange, which then brings down what the server holds.  The requests   *)
(* of an exchange get lost before or after the server acted on them, the   *)
(* server refuses a transmission over one of its operations, pages are     *)
(* closed, and people go on editing in between.                            *)
(*                                                                         *)
(* A transmission is applied in one step here; SyncApply takes it apart. A *)
(* pull reads one state of the server; ChangeStream takes it apart.        *)
(***************************************************************************)
EXTENDS SyncRules, Sequences, Functions

CONSTANTS
    Device, Record,
    PolicyOf,           \* the policy of each record; none has a gate on another
    InitialRow,         \* what is on the server and on every device at the start
    MakerOf,            \* the device that makes a record the server does not have
    Null,               \* a field nobody has set
    Refusable,          \* operations the server may refuse outright, each time
    MaxOps,             \* bound: operations each device makes
    Most,               \* operations in one transmission
    NoOp,
    MaxMishaps          \* bound: requests and answers lost, pulls that stop early, pages closed
                        \* and opened again

OpId == UNION {{<<d, n>> : n \in 1 .. MaxOps[d]} : d \in Device}

ASSUME SyncClientAssumption ==
    /\ MaxOps \in [Device -> Nat]
    /\ PolicyOf \in [Record -> Policies] /\ \A r \in Record : PolicyOf[r].gateFrom = NoGate
    /\ InitialRow \in [Record -> Rows \cup {NoRow}]
    /\ MakerOf \in [{r \in Record : InitialRow[r] = NoRow} -> Device]
    /\ NoRow \notin Rows /\ NoPolicy \notin Policies
    /\ Null \in Value /\ Refusable \subseteq OpId /\ NoOp \notin OpId
    /\ Most \in Nat \ {0} /\ MaxMishaps \in Nat

VARIABLES
    row,            \* the records on the server
    receipt,        \* the receipts on the server, "none" for an operation not seen
    landedAt,       \* the version of the record each applied operation left
    unseen,         \* operations that overwrote a value their device never saw
    unwelcome,      \* operations the server refuses outright
    op,             \* what each operation says, in the order a device made them
    held,           \* on a device: what the server last said
    queued,         \* on a device: the outbox in its store
    outbox,         \* in memory: the outbox
    settling,       \* in memory: what landed and no pull has brought back
    step,           \* in memory: where the exchange is
    parts,          \* in memory: the transmissions it still sends
    refusedNow,     \* in memory: what this exchange was refused over
    refused,        \* what the screen offers to let go of
    wanted,         \* in memory: another exchange was asked for
    trouble,        \* what the strip says of the last exchange: it did not go through
    listed,         \* conflicts the device lists
    discarded,      \* operations a person let go of
    mishaps

serverVars   == <<row, receipt, landedAt, unseen>>
exchangeVars == <<step, parts, refusedNow, wanted, trouble>>
layers       == <<held, queued, outbox, settling>>
screen       == <<refused, listed>>
vars == <<serverVars, unwelcome, op, layers, exchangeVars, screen, discarded, mishaps>>

Reasons == {"applied", "nothing_to_do", "already_there", "record_missing", "record_is_fixed",
            "set_by_server", "online_only", "changed_elsewhere"}

\* A plausible slip: everything that did not land is listed.
InConflictUnlanded(o) == receipt[o] # "applied"

InConflict(o) == receipt[o] \notin {"none", "applied", "nothing_to_do", "already_there"}

Made == {o \in OpId : o[2] <= Len(op[o[1]])}
Says(o) == op[o[1]][o[2]]

TypeOK ==
    /\ row \in [Record -> Rows \cup {NoRow}]
    /\ receipt \in [OpId -> Reasons \cup {"none"}]
    /\ landedAt \in [OpId -> Nat] /\ unwelcome \subseteq Refusable
    /\ \A o \in Made : Says(o).rec \in Record /\ Says(o).base \in Versions
    /\ held \in [Device -> [Record -> Rows \cup {NoRow}]]
    /\ \A d \in Device :
         /\ Range(queued[d]) \cup Range(outbox[d]) \cup Range(settling[d]) \subseteq Made
         /\ listed[d] \subseteq Made
         /\ refused[d] \in Made \cup {NoOp} /\ refusedNow[d] \in Made \cup {NoOp}
    /\ step \in [Device -> {"idle", "push", "pushed", "pull", "conflicts", "cut"}]
    /\ wanted \in [Device -> BOOLEAN] /\ trouble \in [Device -> BOOLEAN]
    /\ mishaps \in 0 .. MaxMishaps

Empty == [d \in Device |-> <<>>]
None  == [d \in Device |-> NoOp]

Init ==
    /\ row = InitialRow /\ receipt = [o \in OpId |-> "none"]
    /\ landedAt = [o \in OpId |-> 0] /\ unseen = {}
    /\ unwelcome \in SUBSET Refusable
    /\ op = Empty
    /\ held = [d \in Device |-> InitialRow]
    /\ queued = Empty /\ outbox = Empty /\ settling = Empty
    /\ step = [d \in Device |-> "idle"] /\ parts = Empty
    /\ refusedNow = None /\ refused = None
    /\ wanted = [d \in Device |-> FALSE] /\ trouble = [d \in Device |-> FALSE]
    /\ listed = [d \in Device |-> {}] /\ discarded = {}
    /\ mishaps = 0

-----------------------------------------------------------------------------
(* Queues are filtered and never reordered. *)

Among(s, S) ==
    LET among[n \in 0 .. Len(s)] ==
            IF n = 0 THEN <<>>
            ELSE IF s[n] \in S THEN Append(among[n - 1], s[n])
            ELSE among[n - 1]
    IN  among[Len(s)]

Without(s, S) == Among(s, Range(s) \ S)

-----------------------------------------------------------------------------
(* What a device shows: the last word of the server with what settles and    *)
(* what waits laid over it.  The version stays the one of the server.        *)

Nulls    == [data |-> [f \in Field |-> Null], version |-> NoVersion, deleted |-> FALSE]
Blank(r) == [Nulls EXCEPT !.data =
               [f \in Field |-> IF f \in PolicyOf[r].reserved THEN PolicyOf[r].start[f] ELSE Null]]

LayOver(current, o) ==
    CASE Says(o).kind = "delete" -> NoRow
      [] Says(o).kind = "create" -> [Blank(Says(o).rec) EXCEPT !.data = Laid(Says(o), @)]
      [] Says(o).kind = "update" /\ current = NoRow ->
            [Nulls EXCEPT !.data = Laid(Says(o), @)]
      [] OTHER                   -> [current EXCEPT !.data = Laid(Says(o), @)]

Project(d, r) ==
    LET laid == settling[d] \o outbox[d]
        under[n \in 0 .. Len(laid)] ==
            IF n = 0 THEN held[d][r]
            ELSE IF Says(laid[n]).rec = r THEN LayOver(under[n - 1], laid[n])
            ELSE under[n - 1]
    IN  under[Len(laid)]

Shown(d, r) ==
    IF Project(d, r) = NoRow THEN NoRow
    ELSE IF Project(d, r).deleted THEN NoRow ELSE Project(d, r)

-----------------------------------------------------------------------------
(* People. *)

\* An entry, judged by what the device shows, with what it shows as what the
\* person saw. It is safe in the store first and in memory after that.
Enter(d, r, kind, current, wants) ==
    LET Saw(f)  == IF current = NoRow THEN Null ELSE current.data[f]
        changes == {f \in DOMAIN wants : wants[f] # Saw(f)}
        entry   == [rec     |-> r,
                    kind    |-> kind,
                    base    |-> IF current = NoRow THEN NoVersion ELSE current.version,
                    patches |-> [f \in changes |-> [from |-> Saw(f), to |-> wants[f]]]]
    IN  /\ Len(op[d]) < MaxOps[d]
        /\ kind = "update" => changes # {}
        /\ DecideMerge(entry, current, NoRow, PolicyOf[r]).outcome = "apply"
        /\ op' = [op EXCEPT ![d] = Append(@, entry)]
        /\ queued' = [queued EXCEPT ![d] = Append(@, <<d, Len(op[d]) + 1>>)]
        /\ UNCHANGED <<serverVars, unwelcome, held, outbox, settling, exchangeVars, screen,
                       discarded, mishaps>>

Drafts == UNION {[fields -> Value] : fields \in SUBSET Field \ {{}}}

Update(d, r) == \E wants \in Drafts : Enter(d, r, "update", Shown(d, r), wants)
Delete(d, r) == Enter(d, r, "delete", Shown(d, r), <<>>)

\* A record is made once, under an id minted for it.
Create(d, r) ==
    /\ InitialRow[r] = NoRow /\ MakerOf[r] = d
    /\ \A o \in Made : Says(o).rec # r
    /\ \E wants \in Drafts : Enter(d, r, "create", NoRow, wants)

\* A plausible slip: the entry waits for whoever asks for an exchange next.
ShowEntryQuietly(d) ==
    /\ Len(queued[d]) > Len(outbox[d])
    /\ outbox' = [outbox EXCEPT ![d] = Append(@, queued[d][Len(@) + 1])]
    /\ UNCHANGED <<serverVars, unwelcome, op, held, queued, settling, step, parts, refusedNow,
                   wanted, trouble, screen, discarded, mishaps>>

\* The store has answered: the entry is laid over, and an exchange asked for.
ShowEntry(d) ==
    /\ Len(queued[d]) > Len(outbox[d])
    /\ outbox' = [outbox EXCEPT ![d] = Append(@, queued[d][Len(@) + 1])]
    /\ wanted' = [wanted EXCEPT ![d] = TRUE]
    /\ UNCHANGED <<serverVars, unwelcome, op, held, queued, settling, step, parts, refusedNow,
                   trouble, screen, discarded, mishaps>>

\* The network comes back, somebody presses the button, or a screen wants to
\* see what happened elsewhere. An exchange that would bring nothing is left out.
Ask(d) ==
    /\ step[d] = "idle" /\ ~wanted[d]
    /\ trouble[d] \/ held[d] # row
    /\ wanted' = [wanted EXCEPT ![d] = TRUE]
    /\ UNCHANGED <<serverVars, unwelcome, op, layers, step, parts, refusedNow, trouble, screen,
                   discarded, mishaps>>

\* Letting go of what the server refused: a create takes the later changes of
\* its record with it.
Discard(d) ==
    /\ refused[d] \in Range(outbox[d])
    /\ LET going == {o \in Range(outbox[d]) :
                       \/ o = refused[d]
                       \/ Says(refused[d]).kind = "create" /\ Says(o).rec = Says(refused[d]).rec}
       IN /\ queued' = [queued EXCEPT ![d] = Without(@, going)]
          /\ outbox' = [outbox EXCEPT ![d] = Without(@, going)]
          /\ discarded' = discarded \cup going
    /\ refused' = [refused EXCEPT ![d] = NoOp]
    /\ wanted' = [wanted EXCEPT ![d] = TRUE]
    /\ UNCHANGED <<serverVars, unwelcome, op, held, settling, step, parts, refusedNow, trouble,
                   listed, mishaps>>

-----------------------------------------------------------------------------
(* The server. *)

\* A plausible slip: a transmission that comes again is judged again.
ApplyAgain(server, o) ==
    LET current  == server.row[Says(o).rec]
        policy   == PolicyOf[Says(o).rec]
        decision == DecideMerge(Says(o), current, NoRow, policy)
    IN  [server EXCEPT
           !.row[Says(o).rec] = IF decision.outcome = "apply"
                                THEN Landed(Says(o), current, policy) ELSE @,
           !.receipt[o] = decision.reason]

\* One operation after another, each judged by what the ones before it left.
\* One that has a receipt is answered with it.
Apply(server, o) ==
    LET current  == server.row[Says(o).rec]
        policy   == PolicyOf[Says(o).rec]
        decision == DecideMerge(Says(o), current, NoRow, policy)
        applies  == decision.outcome = "apply"
    IN  IF server.receipt[o] # "none" THEN server
        ELSE [row     |-> IF applies
                          THEN [server.row EXCEPT ![Says(o).rec] = Landed(Says(o), current, policy)]
                          ELSE server.row,
              receipt |-> [server.receipt EXCEPT ![o] = decision.reason],
              landed  |-> IF applies
                          THEN [server.landed EXCEPT
                                  ![o] = Landed(Says(o), current, policy).version]
                          ELSE server.landed,
              unseen  |-> IF /\ applies /\ Says(o).kind = "update"
                             /\ Collided(Says(o), current) # {}
                          THEN server.unseen \cup {o} ELSE server.unseen]

Transmitted(part) ==
    LET after[n \in 0 .. Len(part)] ==
            IF n = 0
            THEN [row |-> row, receipt |-> receipt, landed |-> landedAt, unseen |-> unseen]
            ELSE Apply(after[n - 1], part[n])
    IN  after[Len(part)]

-----------------------------------------------------------------------------
(* The exchange of a device: push, then pull, then the conflicts. *)

Transmissions(s) ==
    [i \in 1 .. (Len(s) + Most - 1) \div Most |->
       SubSeq(s, (i - 1) * Most + 1, IF i * Most < Len(s) THEN i * Most ELSE Len(s))]

Begin(d) ==
    /\ step[d] = "idle" /\ wanted[d]
    /\ wanted' = [wanted EXCEPT ![d] = FALSE]
    /\ trouble' = [trouble EXCEPT ![d] = FALSE]
    /\ parts' = [parts EXCEPT ![d] = Transmissions(outbox[d])]
    /\ step' = [step EXCEPT ![d] = IF outbox[d] = <<>> THEN "pull" ELSE "push"]
    /\ UNCHANGED <<serverVars, unwelcome, op, layers, refusedNow, screen, discarded, mishaps>>

\* What the server refuses of a transmission, in its order.
RefusedOf(part) == Among(part, unwelcome)

\* The request reaches the server, which applies all of it or nothing.
Push(d) ==
    /\ step[d] = "push"
    /\ \/ /\ RefusedOf(Head(parts[d])) # <<>>
          /\ UNCHANGED serverVars
       \/ /\ RefusedOf(Head(parts[d])) = <<>>
          /\ LET server == Transmitted(Head(parts[d])) IN
               /\ row' = server.row /\ receipt' = server.receipt
               /\ landedAt' = server.landed /\ unseen' = server.unseen
    /\ step' = [step EXCEPT ![d] = "pushed"]
    /\ UNCHANGED <<unwelcome, op, layers, parts, refusedNow, wanted, trouble, screen,
                   discarded, mishaps>>

\* Every outcome empties the slot; what landed stays laid until the pull.
TakeReceipts(d) ==
    /\ step[d] = "pushed" /\ RefusedOf(Head(parts[d])) = <<>>
    /\ LET done    == Range(Head(parts[d]))
           applied == {o \in done : receipt[o] = "applied"}
       IN /\ queued' = [queued EXCEPT ![d] = Without(@, done)]
          /\ outbox' = [outbox EXCEPT ![d] = Without(@, done)]
          /\ settling' = [settling EXCEPT ![d] = @ \o Among(outbox[d], applied)]
    /\ parts' = [parts EXCEPT ![d] = Tail(@)]
    /\ step' = [step EXCEPT ![d] = IF Len(parts[d]) = 1 THEN "pull" ELSE "push"]
    /\ UNCHANGED <<serverVars, unwelcome, op, held, refusedNow, wanted, trouble, screen,
                   discarded, mishaps>>

\* A refusal that names an operation the device holds ends the push and not
\* the exchange.
TakeRefusal(d) ==
    /\ step[d] = "pushed" /\ RefusedOf(Head(parts[d])) # <<>>
    /\ LET named == Head(RefusedOf(Head(parts[d]))) IN
         /\ named \in Range(outbox[d])
         /\ refusedNow' = [refusedNow EXCEPT ![d] = named]
    /\ parts' = [parts EXCEPT ![d] = <<>>]
    /\ step' = [step EXCEPT ![d] = "pull"]
    /\ UNCHANGED <<serverVars, unwelcome, op, layers, wanted, trouble, screen, discarded, mishaps>>

\* A plausible slip: an exchange that failed lets go of what landed in it.
BreakOffForgetting(d) ==
    /\ step' = [step EXCEPT ![d] = "idle"]
    /\ parts' = [parts EXCEPT ![d] = <<>>]
    /\ refusedNow' = [refusedNow EXCEPT ![d] = NoOp]
    /\ trouble' = [trouble EXCEPT ![d] = TRUE]
    /\ settling' = [settling EXCEPT ![d] = <<>>]
    /\ UNCHANGED <<serverVars, unwelcome, op, held, queued, outbox, wanted, screen, discarded>>

BreakOff(d) ==
    /\ step' = [step EXCEPT ![d] = "idle"]
    /\ parts' = [parts EXCEPT ![d] = <<>>]
    /\ refusedNow' = [refusedNow EXCEPT ![d] = NoOp]
    /\ trouble' = [trouble EXCEPT ![d] = TRUE]
    /\ settling' = IF step[d] \in {"conflicts", "cut"} THEN [settling EXCEPT ![d] = <<>>] ELSE settling
    /\ UNCHANGED <<serverVars, unwelcome, op, held, queued, outbox, wanted, screen, discarded>>

\* Any other refusal ends the exchange: the operation was let go of while its
\* transmission was on the way.
RefusedWithoutName(d) ==
    /\ step[d] = "pushed" /\ RefusedOf(Head(parts[d])) # <<>>
    /\ Head(RefusedOf(Head(parts[d]))) \notin Range(outbox[d])
    /\ BreakOff(d)
    /\ UNCHANGED mishaps

\* The rows overwrite by their id what the server said before; what is laid
\* over them stays where it is.
Pull(d) ==
    /\ step[d] = "pull"
    /\ held' = [held EXCEPT ![d] = row]
    /\ step' = [step EXCEPT ![d] = "conflicts"]
    /\ UNCHANGED <<serverVars, unwelcome, op, queued, outbox, settling, parts, refusedNow, wanted,
                   trouble, screen, discarded, mishaps>>

\* A pull stops after a hundred pages whether or not there is more, and the
\* exchange goes on as if there were not.
PullPart(d) ==
    /\ step[d] = "pull" /\ mishaps < MaxMishaps
    /\ \E got \in SUBSET Record :
         held' = [held EXCEPT ![d] = [r \in Record |-> IF r \in got THEN row[r] ELSE held[d][r]]]
    /\ step' = [step EXCEPT ![d] = "cut"]
    /\ mishaps' = mishaps + 1
    /\ UNCHANGED <<serverVars, unwelcome, op, queued, outbox, settling, parts, refusedNow, wanted,
                   trouble, screen, discarded>>

\* What settled is let go of once the rows are in, and the screens see it go
\* with the next change that is published, which is the list of conflicts.
TakeConflicts(d) ==
    /\ step[d] \in {"conflicts", "cut"}
    /\ settling' = [settling EXCEPT ![d] = <<>>]
    /\ listed' = [listed EXCEPT ![d] = {o \in OpId : o[1] = d /\ InConflict(o)}]
    /\ refused' = [refused EXCEPT ![d] = refusedNow[d]]
    /\ refusedNow' = [refusedNow EXCEPT ![d] = NoOp]
    /\ step' = [step EXCEPT ![d] = "idle"]
    /\ UNCHANGED <<serverVars, unwelcome, op, held, queued, outbox, parts, wanted, trouble,
                   discarded, mishaps>>

\* The request or its answer is lost. Nothing is asked for again on account of
\* the failure; what was asked for meanwhile still stands.
Fail(d) ==
    /\ step[d] # "idle" /\ mishaps < MaxMishaps
    /\ BreakOff(d)
    /\ mishaps' = mishaps + 1

\* The page is closed and opened again: the store is what is left of it, and
\* the start asks for an exchange.
Restart(d) ==
    /\ mishaps < MaxMishaps
    /\ outbox' = [outbox EXCEPT ![d] = queued[d]]
    /\ settling' = [settling EXCEPT ![d] = <<>>]
    /\ step' = [step EXCEPT ![d] = "idle"]
    /\ parts' = [parts EXCEPT ![d] = <<>>]
    /\ refusedNow' = [refusedNow EXCEPT ![d] = NoOp]
    /\ refused' = [refused EXCEPT ![d] = NoOp]
    /\ wanted' = [wanted EXCEPT ![d] = TRUE]
    /\ trouble' = [trouble EXCEPT ![d] = FALSE]
    /\ mishaps' = mishaps + 1
    /\ UNCHANGED <<serverVars, unwelcome, op, held, queued, listed, discarded>>

-----------------------------------------------------------------------------
Exchange(d) ==
    \/ Begin(d) \/ Push(d) \/ TakeReceipts(d) \/ TakeRefusal(d) \/ RefusedWithoutName(d)
    \/ Pull(d) \/ PullPart(d) \/ TakeConflicts(d)

\* Nobody enters anything more, and there is nothing left to exchange.
AtRest ==
    /\ \A d \in Device : /\ step[d] = "idle" /\ ~wanted[d] /\ ~trouble[d]
                         /\ outbox[d] = queued[d] /\ held[d] = row
    /\ UNCHANGED vars

Next ==
    \/ AtRest
    \/ \E d \in Device :
          \/ \E r \in Record : Create(d, r) \/ Update(d, r) \/ Delete(d, r)
          \/ ShowEntry(d) \/ Ask(d) \/ Discard(d)
          \/ Exchange(d) \/ Fail(d) \/ Restart(d)

Spec == Init /\ [][Next]_vars

\* A page goes on: the store answers, an exchange under way takes its next step,
\* or the network, a screen or the button asks for the next one. Nobody has to
\* let go of anything.
GoesOn(d) == ShowEntry(d) \/ Exchange(d) \/ Ask(d)

FairSpec == Spec /\ \A d \in Device : WF_vars(GoesOn(d))

-----------------------------------------------------------------------------
(* Properties *)

\* What became of an operation, told from where the device keeps it.
StatusOf(o) ==
    IF receipt[o] # "none" THEN receipt[o]
    ELSE IF o \in Range(queued[o[1]]) THEN "waiting"
    ELSE IF o \in discarded THEN "discarded"
    ELSE IF o \in Made THEN "lost"
    ELSE "none"

MadeEarlier(o, p) == o[1] = p[1] /\ o[2] < p[2]

Promise == INSTANCE Operations
             WITH Op <- OpId, Outcome <- Reasons, Earlier <- MadeEarlier,
                  status <- [o \in OpId |-> StatusOf(o)]

\* No entry is lost by a lost request, a lost answer, a transmission sent
\* twice, a refusal or a closed page; none is decided twice; and none is
\* decided ahead of an earlier one of its device that still waits.
KeepsThePromise == Promise!Spec

Laying(d) == Range(settling[d]) \cup Range(outbox[d])

BroughtBack(o) ==
    /\ landedAt[o] # 0
    /\ held[o[1]][Says(o).rec] # NoRow
    /\ held[o[1]][Says(o).rec].version >= landedAt[o]

\* What somebody entered stays on the screen until the row that carries it is
\* there: it does not vanish for a round trip between the receipt and the pull.
\* Only a refusal, letting go of it or a closed page take it away before, and,
\* of what has its receipt, the end of an exchange whose pull stopped early.
StaysOnScreen ==
    [][\A d \in Device : \A o \in Laying(d) \ Laying(d)' :
          \/ BroughtBack(o)' \/ receipt[o] \notin {"none", "applied"}
          \/ o \in discarded' \/ Restart(d)
          \/ step[d] = "cut" /\ receipt[o] = "applied"]_vars

\* In the end every device shows what the server holds and lists the conflicts
\* it caused, and what it has not got rid of waits behind an operation the
\* screen names: nothing waits unseen, and the rest of the work comes down
\* however long nobody decides.
ComesToRest ==
    <>[](\A d \in Device :
            /\ held[d] = row /\ settling[d] = <<>>
            /\ listed[d] = {o \in OpId : o[1] = d /\ InConflict(o)}
            /\ queued[d] # <<>> => refused[d] \in Range(queued[d]))

\* No operation overwrites a value that its device neither saw nor wants.
NothingUnseenOverwritten == unseen = {}

=============================================================================

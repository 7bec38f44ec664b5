----------------------------- MODULE DeviceStore ----------------------------
(***************************************************************************)
(* What a device keeps of a tenant between two starts of the application:  *)
(* rows, the cursor, the list of entities the cursor was written under, and *)
(* the two notes about what the rows were narrowed to.  Each is written by *)
(* a transaction of the local store of its own, and the page can be closed *)
(* between any two of them.                                                *)
(*                                                                         *)
(* What an answer was narrowed to goes by a text for each narrowed entity. *)
(* A text is a fingerprint of some ids, of the jobs of a person or of the  *)
(* articles in use; the rows it stands for also follow keys behind those   *)
(* ids, and change under the same text when such a key does.               *)
(*                                                                         *)
(* An answer of the server is complete up to its cursor, which is what     *)
(* ChangeStream shows of one.                                              *)
(***************************************************************************)
EXTENDS Naturals, FiniteSets, Sequences, SequencesExt

CONSTANTS
    Row, Entity, EntityOf,
    Narrowed,       \* the entities of which a device holds a part
    Text,           \* what an answer can name for a narrowed entity
    Scope,          \* what it can name for all of them
    StandsFor,      \* of a text, the sets of rows that can go by it
    Build, Knows,   \* versions of the application and the entities each knows
    Tab,            \* pages of the application open over the one store
    NoScope,        \* nothing kept yet, or not settled
    NoAnswer,
    Closed,
    HandedBack,     \* whether a scope the device left may come back
    MaxCounter,     \* bound: rows written
    MaxRescopes,    \* bound: changes of the scope of the person asking
    MaxOpens        \* bound: starts of the application

ASSUME DeviceStoreAssumption ==
    /\ IsFiniteSet(Entity)
    /\ EntityOf \in [Row -> Entity] /\ Narrowed \subseteq Entity
    /\ Scope \subseteq [Narrowed -> Text]
    /\ StandsFor \in [Text -> SUBSET SUBSET Row]
    /\ Knows \in [Build -> SUBSET Entity]
    /\ NoScope \notin Scope /\ Closed \notin Build
    /\ HandedBack \in BOOLEAN
    /\ MaxCounter \in Nat /\ MaxRescopes \in Nat /\ MaxOpens \in Nat

VARIABLES
    seq, counter,   \* the rows on the server, and the counter that numbers them
    scope,          \* what the answer to the person asking names now
    left,           \* the scopes somebody asked with before
    reach,          \* of a text, the rows that go by it now
    late, gone,     \* history: of a text, the rows that came to it without being
                    \* written since, and the rows that left it
    held,           \* in the store: rows, 0 for one that is not there
    stored,         \* in the store: sync.cursor
    entities,       \* in the store: sync.entities
    kept,           \* in the store: sync.narrowed
    settled,        \* in the store: sync.settled
    build,          \* the version a page runs, or Closed
    cursor,         \* the cursor in the memory of a page
    narrowedNow,    \* what a page takes its rows to add up to
    got,            \* the answer a page has received and not looked at
    todo,           \* the writes a page still awaits, one after another
    opens

serverVars == <<seq, counter, scope, left, reach, late, gone>>
storeVars  == <<held, stored, entities, kept, settled>>
pageVars   == <<build, cursor, narrowedNow, got, todo>>
vars       == <<serverVars, storeVars, pageVars, opens>>

MayHold(s, r) == EntityOf[r] \in Narrowed => r \in reach[s[EntityOf[r]]]

CameLate(s, r) == EntityOf[r] \in Narrowed /\ r \in late[s[EntityOf[r]]]

WentAway(s, r) == EntityOf[r] \in Narrowed /\ r \in gone[s[EntityOf[r]]]

ScopeOrNone == Scope \cup {NoScope}

Answers == [rows : [Row -> 0 .. MaxCounter], cursor : 0 .. MaxCounter,
            more : BOOLEAN, narrowed : Scope]

\* A write the page awaits.
Write ==
    [op : {"rows"}, entity : Entity, rows : [Row -> 0 .. MaxCounter]]
      \cup [op : {"cursor"}, cursor : 0 .. MaxCounter]
      \cup [op : {"entities"}, entities : SUBSET Entity]
      \cup [op : {"kept"}, scope : Scope]
      \cup [op : {"settled"}, scope : ScopeOrNone]
      \cup [op : {"drop"}, entity : Entity]

TypeOK ==
    /\ seq \in [Row -> 0 .. MaxCounter] /\ counter \in 0 .. MaxCounter
    /\ scope \in Scope /\ left \subseteq Scope
    /\ reach \in [Text -> SUBSET Row]
    /\ late \in [Text -> SUBSET Row] /\ gone \in [Text -> SUBSET Row]
    /\ held \in [Row -> 0 .. MaxCounter] /\ stored \in 0 .. MaxCounter
    /\ entities \subseteq Entity
    /\ kept \in ScopeOrNone /\ settled \in ScopeOrNone
    /\ build \in [Tab -> Build \cup {Closed}]
    /\ cursor \in [Tab -> 0 .. MaxCounter]
    /\ narrowedNow \in [Tab -> ScopeOrNone]
    /\ got \in [Tab -> Answers \cup {NoAnswer}]
    /\ todo \in [Tab -> Seq(Write)]
    /\ opens \in 0 .. MaxOpens

\* The rows that go by each text; a text nobody asked with yet has none.
Reachable == {f \in [Text -> SUBSET Row] : \A x \in Text : f[x] \in StandsFor[x] \cup {{}}}

TextsOf(s) == {s[e] : e \in Narrowed}

Init ==
    /\ seq = [r \in Row |-> 0] /\ counter = 0
    /\ scope \in Scope /\ left = {}
    /\ reach \in {f \in Reachable : \A x \in Text :
                    IF x \in TextsOf(scope) THEN f[x] \in StandsFor[x] ELSE f[x] = {}}
    /\ late = [x \in Text |-> {}] /\ gone = [x \in Text |-> {}]
    /\ held = [r \in Row |-> 0] /\ stored = 0
    /\ entities = {} /\ kept = NoScope /\ settled = NoScope
    /\ build = [t \in Tab |-> Closed]
    /\ cursor = [t \in Tab |-> 0]
    /\ narrowedNow = [t \in Tab |-> NoScope]
    /\ got = [t \in Tab |-> NoAnswer]
    /\ todo = [t \in Tab |-> <<>>]
    /\ opens = 0

-----------------------------------------------------------------------------
(* The server. *)

Seen == UNION {TextsOf(s) : s \in left \cup {scope}}

\* A row is written, and with it what goes by a text may change, the text
\* staying as it is: a task is handed to somebody else, a job gets another
\* site. Rows that hang on what was written come and go without a write.
Change(r, now) ==
    /\ counter < MaxCounter
    /\ \A x \in Text : now[x] # reach[x] => x \in Seen /\ now[x] \in StandsFor[x]
    /\ counter' = counter + 1
    /\ seq' = [seq EXCEPT ![r] = counter + 1]
    /\ reach' = now
    /\ late' = [x \in Text |-> ((late[x] \cap now[x]) \cup (now[x] \ reach[x])) \ {r}]
    /\ gone' = [x \in Text |-> gone[x] \cup (reach[x] \ now[x])]
    /\ UNCHANGED <<scope, left, storeVars, pageVars, opens>>

\* Somebody else signs in on the device, gets another role, or is put on a job
\* or taken off it, or an article comes into use. A text is a new one then, and
\* what goes by a text that is new is whatever the server finds for it.
Rescope(s, now) ==
    /\ s # scope /\ Cardinality(left) < MaxRescopes
    /\ HandedBack \/ s \notin left
    /\ \A x \in Text : IF x \in TextsOf(s) \ Seen THEN now[x] \in StandsFor[x]
                                              ELSE now[x] = reach[x]
    /\ scope' = s
    /\ left' = left \cup {scope}
    /\ reach' = now
    /\ UNCHANGED <<seq, counter, late, gone, storeVars, pageVars, opens>>

-----------------------------------------------------------------------------
(* The writes of the store, each a transaction. *)

PutRows(e, rows)  == [op |-> "rows", entity |-> e, rows |-> rows]
PutCursor(c)      == [op |-> "cursor", cursor |-> c]
PutEntities(list) == [op |-> "entities", entities |-> list]
PutKept(s)        == [op |-> "kept", scope |-> s]
PutSettled(s)     == [op |-> "settled", scope |-> s]
Drop(e)           == [op |-> "drop", entity |-> e]

Overwrite(e, rows) ==
    [r \in Row |-> IF EntityOf[r] = e /\ rows[r] # 0 THEN rows[r] ELSE held[r]]

Without(e) == [r \in Row |-> IF EntityOf[r] = e THEN 0 ELSE held[r]]

\* The next write a page awaits. The cursor of the page moves with the one it
\* writes.
StoreWrite(t) ==
    /\ todo[t] # <<>>
    /\ LET w == Head(todo[t]) IN
         /\ held' = CASE w.op = "rows" -> Overwrite(w.entity, w.rows)
                      [] w.op = "drop" -> Without(w.entity)
                      [] OTHER -> held
         /\ stored' = IF w.op = "cursor" THEN w.cursor ELSE stored
         /\ cursor' = IF w.op = "cursor" THEN [cursor EXCEPT ![t] = w.cursor] ELSE cursor
         /\ entities' = IF w.op = "entities" THEN w.entities ELSE entities
         /\ kept' = IF w.op = "kept" THEN w.scope ELSE kept
         /\ settled' = IF w.op = "settled" THEN w.scope ELSE settled
         /\ narrowedNow' =
              IF w.op = "settled" THEN [narrowedNow EXCEPT ![t] = w.scope] ELSE narrowedNow
    /\ todo' = [todo EXCEPT ![t] = Tail(@)]
    /\ UNCHANGED <<serverVars, build, got, opens>>

-----------------------------------------------------------------------------
(* A page of the application. *)

\* A plausible slip: the version that wrote it has to know no more than this one.
CursorStandsForSubset(b) == entities \subseteq Knows[b]

\* The cursor only stands when the version that wrote it knew at least what
\* this one knows.
CursorStands(b) == Knows[b] \subseteq entities

Open(t, b) ==
    /\ build[t] = Closed /\ opens < MaxOpens
    /\ build' = [build EXCEPT ![t] = b]
    /\ cursor' = [cursor EXCEPT ![t] = IF CursorStands(b) THEN stored ELSE 0]
    /\ narrowedNow' = [narrowedNow EXCEPT ![t] = settled]
    /\ todo' = [todo EXCEPT ![t] =
                  (IF CursorStands(b) THEN <<>> ELSE <<PutCursor(0)>>)
                    \o (IF entities = Knows[b] THEN <<>> ELSE <<PutEntities(Knows[b])>>)]
    /\ opens' = opens + 1
    /\ UNCHANGED <<serverVars, storeVars, got>>

\* What the person asking may hold and the page has not.
Visible(t) == {r \in Row : MayHold(scope, r) /\ seq[r] > cursor[t]}

AnswerOf(sent, end, more) ==
    [rows     |-> [r \in Row |-> IF r \in sent THEN seq[r] ELSE 0],
     cursor   |-> end,
     more     |-> more,
     narrowed |-> scope]

\* An answer is complete up to where it ends, at one of its rows; a row behind
\* that may be in it all the same, from a table that was not cut there. A table
\* can be full to the limit with nothing behind it.
Ask(t) ==
    /\ build[t] # Closed /\ todo[t] = <<>> /\ got[t] = NoAnswer
    /\ \E end \in IF Visible(t) = {} THEN {cursor[t]} ELSE {seq[r] : r \in Visible(t)},
          sent \in SUBSET Visible(t), more \in BOOLEAN :
         /\ {r \in Visible(t) : seq[r] <= end} \subseteq sent
         /\ (\E r \in Visible(t) : seq[r] > end) => more
         /\ more => Visible(t) # {}
         /\ got' = [got EXCEPT ![t] = AnswerOf(sent, end, more)]
    /\ UNCHANGED <<serverVars, storeVars, build, cursor, narrowedNow, todo, opens>>

\* A plausible slip: the cursor is written as the first number not yet there.
WritesBeyond(t, a) ==
    LET known == SetToSeq({e \in Knows[build[t]] :
                             \E r \in Row : EntityOf[r] = e /\ a.rows[r] # 0})
    IN  [i \in DOMAIN known |-> PutRows(known[i], a.rows)]
          \o <<PutCursor(a.cursor + 1)>>
          \o (IF a.more \/ narrowedNow[t] = a.narrowed
              THEN <<>> ELSE <<PutSettled(a.narrowed)>>)

\* A plausible slip: what the rows add up to is noted where it stands already.
WritesNotSettling(t, a) ==
    LET known == SetToSeq({e \in Knows[build[t]] :
                             \E r \in Row : EntityOf[r] = e /\ a.rows[r] # 0})
    IN  [i \in DOMAIN known |-> PutRows(known[i], a.rows)]
          \o <<PutCursor(a.cursor)>>
          \o (IF a.more \/ narrowedNow[t] # a.narrowed
              THEN <<>> ELSE <<PutSettled(a.narrowed)>>)

\* Rows of an entity this version does not know are passed over, and the
\* cursor moves behind them all the same.
WritesOf(t, a) ==
    LET known == SetToSeq({e \in Knows[build[t]] :
                             \E r \in Row : EntityOf[r] = e /\ a.rows[r] # 0})
    IN  [i \in DOMAIN known |-> PutRows(known[i], a.rows)]
          \o <<PutCursor(a.cursor)>>
          \o (IF a.more \/ narrowedNow[t] = a.narrowed
              THEN <<>> ELSE <<PutSettled(a.narrowed)>>)

ChangedEntities(s) == {e \in Narrowed : kept[e] # s[e]}

\* A plausible slip: what the answer was narrowed to is kept first.
DropKeepingFirst(s) ==
    LET changed == SetToSeq(ChangedEntities(s)) IN
    <<PutKept(s), PutSettled(NoScope)>>
      \o [i \in DOMAIN changed |-> Drop(changed[i])]
      \o <<PutCursor(0)>>

\* Everything of the narrowed entities goes, the cursor starts again, and what
\* the answer was narrowed to is kept last.
DropWrites(s) ==
    LET changed == SetToSeq(ChangedEntities(s)) IN
    <<PutSettled(NoScope)>>
      \o [i \in DOMAIN changed |-> Drop(changed[i])]
      \o <<PutCursor(0), PutKept(s)>>

Receive(t) ==
    /\ got[t] # NoAnswer
    /\ LET a == got[t] IN
       todo' = [todo EXCEPT ![t] =
                  CASE kept = a.narrowed -> WritesOf(t, a)
                    [] kept = NoScope    -> <<PutKept(a.narrowed)>> \o WritesOf(t, a)
                    [] OTHER             -> DropWrites(a.narrowed)]
    /\ got' = [got EXCEPT ![t] = NoAnswer]
    /\ UNCHANGED <<serverVars, storeVars, build, cursor, narrowedNow, opens>>

\* The page is gone with everything it still awaited.
Close(t) ==
    /\ build[t] # Closed /\ opens < MaxOpens
    /\ build' = [build EXCEPT ![t] = Closed]
    /\ cursor' = [cursor EXCEPT ![t] = 0]
    /\ narrowedNow' = [narrowedNow EXCEPT ![t] = NoScope]
    /\ got' = [got EXCEPT ![t] = NoAnswer]
    /\ todo' = [todo EXCEPT ![t] = <<>>]
    /\ UNCHANGED <<serverVars, storeVars, opens>>

-----------------------------------------------------------------------------
Exchange(t) == Ask(t) \/ Receive(t) \/ StoreWrite(t)

Next ==
    \/ \E r \in Row, now \in Reachable : Change(r, now)
    \/ \E s \in Scope, now \in Reachable : Rescope(s, now)
    \/ \E t \in Tab, b \in Build : Open(t, b)
    \/ \E t \in Tab : Exchange(t) \/ Close(t)

Spec == Init /\ [][Next]_vars

\* A page that is open goes on with its exchange and asks again.
FairSpec == Spec /\ \A t \in Tab : WF_vars(Exchange(t))

-----------------------------------------------------------------------------
(* Properties *)

\* What the store says its rows add up to is what they add up to: every row
\* of that scope up to the cursor lies there as the server last changed it,
\* of every entity the version that wrote the cursor knew. A row that came to
\* the scope under the same text, and was not written when it came or since,
\* lies behind the cursor and is excused.
SettledIsComplete ==
    settled # NoScope =>
        \A r \in Row :
            (/\ EntityOf[r] \in entities /\ seq[r] <= stored
             /\ MayHold(settled, r) /\ ~CameLate(settled, r)) => held[r] = seq[r]

\* A tablet handed on does not go on holding the rows of whoever had it
\* before, once it says for whom its rows are: each is of that scope, or left
\* it under the same text.
NoForeignRows ==
    settled # NoScope =>
        \A r \in Row : held[r] # 0 => MayHold(settled, r) \/ WentAway(settled, r)

\* Once nothing changes any more and a page stays open, the store says so for
\* the person asking, and holds every row that person may hold, but for the
\* excused ones.
ComesToRest ==
    \A t \in Tab : \A b \in Build :
        <>[](build[t] = b) =>
            <>[](/\ settled = scope
                 /\ \A r \in Row :
                      (/\ MayHold(scope, r) /\ ~CameLate(scope, r)
                       /\ EntityOf[r] \in Knows[b]) => held[r] = seq[r])

=============================================================================

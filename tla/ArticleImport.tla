---------------------------- MODULE ArticleImport ---------------------------
(***************************************************************************)
(* Imports of a supplier's catalogue into the articles of a tenant, beside *)
(* a device that holds the part of the articles that is used lately.       *)
(*                                                                         *)
(* Files are read for a preview and taken over once the office confirms    *)
(* it, both in the background, one after the other.  A takeover writes     *)
(* tens of thousands of rows in one transaction, past the stamp of the     *)
(* sync: its rows keep a number below every cursor, and only the ones the  *)
(* devices hold get numbers of the counter, at its very end.  A device     *)
(* whose part of the articles changes drops them and asks from 0.          *)
(*                                                                         *)
(* A row is an article with its selling price; a document line that uses   *)
(* one brings it into the part the devices hold.                           *)
(***************************************************************************)
EXTENDS Naturals, Sequences, FiniteSets, FiniteSetsExt

CONSTANTS
    Article, Import,
    Contents,           \* the articles each import changes
    Limit,              \* rows of a table in one answer
    MaxChanges,         \* bound: what the office and the sites do
    MaxFailures         \* bound: readings and takeovers that fail, marks lost, processes ended

ASSUME ImportAssumption ==
    /\ Contents \in [Import -> SUBSET Article \ {{}}] /\ IsFiniteSet(Article)
    /\ Limit \in Nat \ {0} /\ MaxChanges \in Nat /\ MaxFailures \in Nat

Unnumbered == 1         \* `unnumbered`, the number of a row no device holds

VARIABLES
    status,     \* `article_imports`
    used,       \* the articles the devices hold, as what uses them says
    price,      \* how often the price of an article has changed
    number,     \* its change number
    counter,    \* the counter of the tenant
    up,         \* whether the process runs
    queue,      \* in memory: readings and takeovers in line, the first under way
    at,         \* where the transaction of a takeover is
    held,       \* what the devices hold, as it read it
    first,      \* the first number it reserved
    copy,       \* on the device: the price of an article, 0 where it holds none
    told,       \* on the device: whether it was told which part it holds
    noted,      \* on the device: that part
    cursor,     \* on the device
    asking,     \* whether an answer is under way
    asked,      \* the part it is narrowed to
    taken,      \* history: imports whose rows are committed
    unmarked,   \* history: imports whose end the process could not write down
    away,       \* history: what the device still took for held when a takeover read the part
    late,       \* history: articles that joined it between that and the commit
    excused,    \* history: articles left behind for one of these reasons
    changes, failures

records    == <<used, price, number, counter>>
process    == <<up, queue, at, held, first>>
device     == <<copy, told, noted, cursor, asking, asked>>
ghosts     == <<taken, unmarked, away, late, excused>>
importVars == <<status, records, process, device, ghosts, changes, failures>>

Running == {"reading", "applying"}
Status  == Running \cup {"none", "ready", "failed", "applied", "discarded"}
Job     == {"read", "take"} \X Import

ImportsTypeOK ==
    /\ status \in [Import -> Status]
    /\ used \subseteq Article /\ price \in [Article -> Nat \ {0}] /\ counter \in Nat \ {0}
    /\ number \in [Article -> 1 .. counter]
    /\ up \in BOOLEAN /\ queue \in Seq(Job) /\ (~up => queue = <<>>)
    /\ \A n, m \in 1 .. Len(queue) : queue[n][2] = queue[m][2] => n = m
    /\ at \in {"none", "written", "numbering", "reserved"} /\ held \subseteq Article /\ first \in Nat
    /\ at # "none" => queue # <<>> /\ queue[1][1] = "take"
    /\ copy \in [Article -> Nat] /\ \A a \in Article : copy[a] <= price[a]
    /\ told \in BOOLEAN /\ noted \subseteq Article /\ (~told => noted = {})
    /\ asking \in BOOLEAN /\ asked \subseteq Article /\ (~asking => asked = {})
    /\ cursor \in 0 .. counter
    /\ taken \subseteq Import /\ unmarked \subseteq Import
    /\ away \cup late \cup excused \subseteq Article
    /\ changes \in 0 .. MaxChanges /\ failures \in 0 .. MaxFailures

ImportsInit ==
    /\ status = [i \in Import |-> "none"]
    /\ used \in SUBSET Article /\ price = [a \in Article |-> 1]
    /\ number = [a \in Article |-> Unnumbered] /\ counter = Unnumbered + 1
    /\ up = TRUE /\ queue = <<>> /\ at = "none" /\ held = {} /\ first = 0
    /\ copy = [a \in Article |-> 0] /\ told = FALSE /\ noted = {} /\ cursor = 0
    /\ asking = FALSE /\ asked = {}
    /\ taken = {} /\ unmarked = {} /\ away = {} /\ late = {} /\ excused = {}
    /\ changes = 0 /\ failures = 0

Change == changes < MaxChanges /\ changes' = changes + 1
Failure == failures < MaxFailures /\ failures' = failures + 1

-----------------------------------------------------------------------------
(* Records beside the import.  Every write of a synced row takes the         *)
(* counter and holds it until it commits; each is one short transaction.     *)

\* A plausible slip: a run of numbers is taken without holding the counter.
CounterAlwaysFree == TRUE

CounterFree == at # "reserved"

\* A line is written that uses an article no other one does.
Join(a) ==
    /\ Change /\ CounterFree /\ a \notin used
    /\ used' = used \cup {a} /\ counter' = counter + 1
    /\ late' = IF at \in {"numbering", "reserved"} THEN late \cup {a} ELSE late
    /\ UNCHANGED <<status, price, number, process, device, taken, unmarked, away, excused, failures>>

\* The last line that uses an article has become old.
Leave(a) ==
    /\ Change /\ a \in used /\ used' = used \ {a}
    /\ UNCHANGED <<status, price, number, counter, process, device, ghosts, failures>>

\* The rows a takeover has written wait for its end.
RowFree(a) == at # "none" => a \notin Contents[Head(queue)[2]]

\* The office sets a price; what was left behind of the article comes with it.
SetPrice(a) ==
    /\ Change /\ CounterFree /\ RowFree(a)
    /\ price' = [price EXCEPT ![a] = @ + 1] /\ counter' = counter + 1
    /\ number' = [number EXCEPT ![a] = counter + 1] /\ excused' = excused \ {a}
    /\ UNCHANGED <<status, used, process, device, taken, unmarked, away, late, failures>>

-----------------------------------------------------------------------------
(* The routes of an import.                                                  *)

\* One at a time in a tenant, by the question and by the index behind it.
NoneRuns == \A i \in Import : status[i] \notin Running

InLine(kind, i) == queue' = Append(queue, <<kind, i>>)

Route(i, from, to) ==
    /\ up /\ status[i] \in from /\ status' = [status EXCEPT ![i] = to]
    /\ UNCHANGED <<records, up, at, held, first, device, taken, away, late, excused, changes, failures>>

\* `start`: the files are named, and read in the background.
Start(i) == NoneRuns /\ Route(i, {"none"}, "reading") /\ InLine("read", i) /\ UNCHANGED unmarked

\* `change`: other options, and the files are read again.
ChangeOptions(i) ==
    NoneRuns /\ Route(i, {"ready", "failed"}, "reading") /\ InLine("read", i) /\ UNCHANGED unmarked

\* `apply`: the office confirms the preview.
Apply(i) == NoneRuns /\ Route(i, {"ready"}, "applying") /\ InLine("take", i) /\ UNCHANGED unmarked

Discard(i) == Route(i, {"ready", "failed"}, "discarded") /\ UNCHANGED <<queue, unmarked>>

-----------------------------------------------------------------------------
(* What runs in the background.                                              *)

First(kind, i) == queue # <<>> /\ Head(queue) = <<kind, i>>

\* The job is over, and its transaction with it.
Over ==
    /\ queue' = Tail(queue) /\ at' = "none" /\ held' = {} /\ first' = 0
    /\ away' = {} /\ late' = {} /\ UNCHANGED up

\* A plausible slip: whatever the import says meanwhile.
FailAnyway(was, i, from) == [was EXCEPT ![i] = IF from \in Running THEN "failed" ELSE @]

\* `fail`: only what still says it runs is marked.
Fail(was, i, from) == [was EXCEPT ![i] = IF @ = from THEN "failed" ELSE @]

\* The end of a job that failed, written down or not.
EndsBadly(i, from) ==
    /\ Failure /\ Over
    /\ \/ status' = Fail(status, i, from) /\ UNCHANGED unmarked
       \/ UNCHANGED status /\ unmarked' = unmarked \cup {i}

ReadFiles(i) ==
    /\ First("read", i)
    /\ \/ /\ status' = [status EXCEPT ![i] = IF @ = "reading" THEN "ready" ELSE @]
          /\ Over /\ UNCHANGED <<unmarked, failures>>
       \/ EndsBadly(i, "reading")
    /\ UNCHANGED <<records, device, taken, excused, changes>>

\* The rows, with a number below every cursor.
WriteRows(i) ==
    /\ First("take", i) /\ at = "none" /\ at' = "written"
    /\ UNCHANGED <<status, records, up, queue, held, first, device, ghosts, changes, failures>>

\* The part the devices hold, read when everything else is written.
ReadPart ==
    /\ at = "written" /\ at' = "numbering" /\ held' = used
    /\ away' = (noted \cup asked) \ used
    /\ UNCHANGED <<status, records, up, queue, first, device, taken, unmarked, late, excused,
                   changes, failures>>

\* A plausible slip: no row is told to the devices.
NoneToNumber(i) == {}

ToNumber(i) == Contents[i] \cap held

\* A run of numbers for those rows, and the counter is held from here on.
Reserve(i) ==
    /\ First("take", i) /\ at = "numbering" /\ ToNumber(i) # {}
    /\ at' = "reserved" /\ first' = counter + 1
    /\ UNCHANGED <<status, records, up, queue, held, device, ghosts, changes, failures>>

\* All of it becomes visible at once.  The answer to the commit may be lost: the
\* import has been taken over, and the process takes it for failed.
Commit(i) ==
    /\ First("take", i) /\ at = IF ToNumber(i) = {} THEN "numbering" ELSE "reserved"
    /\ LET numbered == ToNumber(i)
           left == Contents[i] \ numbered
       IN  /\ \E run \in [numbered -> first .. first + Cardinality(numbered) - 1] :
                /\ \A a, b \in numbered : run[a] = run[b] => a = b
                /\ number' = [a \in Article |-> IF a \in numbered THEN run[a]
                                                ELSE IF a \in left THEN Unnumbered ELSE number[a]]
           /\ counter' = IF numbered = {} THEN counter ELSE Max({counter, first + Cardinality(numbered) - 1})
           /\ excused' = (excused \ Contents[i]) \cup (left \cap (late \cup away))
    /\ price' = [a \in Article |-> IF a \in Contents[i] THEN price[a] + 1 ELSE price[a]]
    /\ taken' = taken \cup {i} /\ Over
    /\ LET applied == [status EXCEPT ![i] = "applied"]
       IN  \/ status' = applied /\ UNCHANGED failures
           \/ status' = Fail(applied, i, "applying") /\ Failure
    /\ UNCHANGED <<used, device, unmarked, changes>>

\* Refused, out of memory, a number given away meanwhile, a circle of locks:
\* nothing of it was written.
TakeoverFails(i) ==
    /\ First("take", i) /\ EndsBadly(i, "applying")
    /\ UNCHANGED <<records, device, taken, excused, changes>>

ServerEnds ==
    /\ up /\ Failure
    /\ up' = FALSE /\ queue' = <<>> /\ at' = "none" /\ held' = {} /\ first' = 0
    /\ away' = {} /\ late' = {}
    /\ UNCHANGED <<status, records, device, taken, unmarked, excused, changes>>

\* A plausible slip: only readings are ended.
EndReadings == [i \in Import |-> IF status[i] = "reading" THEN "failed" ELSE status[i]]

\* `endInterruptedImports`
EndInterrupted == [i \in Import |-> IF status[i] \in Running THEN "failed" ELSE status[i]]

\* Before the first request, so that none started later is ended with them.
ServerStarts ==
    /\ ~up /\ up' = TRUE /\ status' = EndInterrupted /\ unmarked' = {}
    /\ UNCHANGED <<records, queue, at, held, first, device, taken, away, late, excused, changes,
                   failures>>

-----------------------------------------------------------------------------
(* A device asks what has changed.                                           *)

\* What it may hold is read first.
AskPart ==
    /\ up /\ ~asking /\ asking' = TRUE /\ asked' = used
    /\ UNCHANGED <<status, records, process, copy, told, noted, cursor, ghosts, changes, failures>>

\* One answer of rows above the cursor, in order of their numbers.
Page ==
    LET behind == {a \in asked : number[a] > cursor}
        size == Min({Limit, Cardinality(behind)})
    IN  {p \in SUBSET behind : /\ Cardinality(p) = size
                               /\ \A a \in p, b \in behind \ p : number[a] <= number[b]}

\* A part other than the one it holds: the articles go, and are asked for from 0.
PartChanged == told /\ noted # asked

DropArticles ==
    /\ PartChanged
    /\ copy' = [a \in Article |-> 0] /\ cursor' = 0 /\ UNCHANGED excused

\* The other tables bring the cursor to the counter, unless this one was full.
TakeRows ==
    /\ ~PartChanged
    /\ \E page \in Page :
        /\ copy' = [a \in Article |-> IF a \in page THEN price[a] ELSE copy[a]]
        /\ cursor' = IF Cardinality(page) = Limit THEN Max({number[a] : a \in page}) ELSE counter
    /\ excused' = {a \in excused : copy'[a] # price[a]}

Answer ==
    /\ up /\ asking /\ (DropArticles \/ TakeRows)
    /\ told' = TRUE /\ noted' = asked /\ asking' = FALSE /\ asked' = {}
    /\ UNCHANGED <<status, records, process, taken, unmarked, away, late, changes, failures>>

AnswerLost ==
    /\ asking /\ Failure /\ asking' = FALSE /\ asked' = {}
    /\ UNCHANGED <<status, records, process, copy, told, noted, cursor, ghosts, changes>>

-----------------------------------------------------------------------------

Takeover(i) == WriteRows(i) \/ Reserve(i) \/ Commit(i) \/ TakeoverFails(i)

Work == ReadPart \/ \E i \in Import : ReadFiles(i) \/ Takeover(i)

ImportsNext ==
    \/ \E a \in Article : Join(a) \/ Leave(a) \/ SetPrice(a)
    \/ \E i \in Import : Start(i) \/ ChangeOptions(i) \/ Apply(i) \/ Discard(i)
    \/ Work \/ ServerEnds \/ ServerStarts
    \/ AskPart \/ Answer \/ AnswerLost

ImportsSpec == ImportsInit /\ [][ImportsNext]_importVars

\* The line moves on, and a process that ended is started again.
FairImportsSpec == ImportsSpec /\ WF_importVars(Work) /\ WF_importVars(ServerStarts)

-----------------------------------------------------------------------------

\* A device that has caught up holds every article that is used as it is,
\* whatever takeovers wrote past the stamp meanwhile: an article that joined
\* while a takeover ran is numbered with it, and one that joins later is
\* fetched with the whole part.  Two ways lead past that and are excused: the
\* article joins between the question and the commit, or it left the part and
\* came back without the device noticing.
HoldsTheArticles ==
    ~asking /\ told /\ noted = used /\ cursor = counter =>
        \A a \in used \ excused : copy[a] = price[a]

\* What an import says of itself is what became of its rows: a failed or
\* discarded one has written nothing, one that has written stays applied,
\* whatever of its end the process saw.
SaysWhatWasTaken == \A i \in Import : status[i] = "applied" <=> i \in taken

\* No reading and no takeover keeps the next import out for ever, unless its
\* end could not be written down, and then until the next start.
NoneRunsForEver ==
    \A i \in Import : (status[i] \in Running) ~> (status[i] \notin Running \/ i \in unmarked)

=============================================================================

------------------------------ MODULE Deadlines -----------------------------
(***************************************************************************)
(* The deadlines of a tenant: a pass follows the sources, closes what a    *)
(* done task has done, and acts on what has come, once per due day, while  *)
(* people mark deadlines done and open again and do the tasks.             *)
(*                                                                         *)
(* A pass reads the rows it keeps at the start of its transaction and      *)
(* writes by their id at its end, so people come between.  Its writes are  *)
(* one step here: whoever wants a row it has written waits for its end.    *)
(* Two passes run at once only while one process replaces another; their   *)
(* reminders come between each other then, their first transactions do not *)
(* here: of two that insert the same deadline the key fails one.           *)
(***************************************************************************)
EXTENDS Integers, Sequences, SequencesExt

CONSTANTS
    Deadline,           \* deadlines by their id, of one kind, one for each source
    Pass,               \* the processes that run passes
    Day,                \* days a source may count from
    Interval,           \* what the tenant may set the interval of the kind to
    MostReminders,      \* `mostRemindersPerPass`
    LastClock,          \* bound: the mornings and nights that pass, the last one a morning
    MaxChanges          \* bound: changes of sources and settings, what people do, failures

ASSUME DeadlinesAssumption ==
    /\ Deadline \subseteq Nat \ {0} /\ Day \subseteq Nat \ {0} /\ Interval \subseteq Nat
    /\ Interval # {} /\ MostReminders \in Nat \ {0}
    /\ LastClock \in Nat /\ LastClock % 2 = 1 /\ MaxChanges \in Nat

Never == 0      \* no day, no task

VARIABLES
    clock,      \* nights and mornings so far
    source,     \* the day each source counts from, Never while it asks for nothing
    interval,   \* the interval the tenant has set
    failing,    \* deadlines whose action fails
    row,        \* `deadlines`
    tasks,      \* what the action made, in the order made
    at,         \* where each pass is
    read,       \* the rows as a pass read them, and the interval
    asked,      \* the answers of the sources to it
    turn,       \* what it has yet to remind of
    stopped,    \* in memory: the place the last pass stopped at, if it did
    doneFor,    \* history: the due day each deadline was done for
    between,    \* history: deadlines done between the reading and the writing of a pass
    acted,      \* history: the due days each deadline was acted on for
    changes

world == <<clock, source, interval, failing>>
pass  == <<at, read, asked, turn, stopped>>
past == <<doneFor, between, acted>>
deadlineVars == <<world, row, tasks, pass, past, changes>>

Unkept == [status |-> "none", anchorOn |-> Never, dueOn |-> Never, remindedFor |-> Never,
           task |-> Never]

DueDay == {d + i : d \in Day, i \in Interval}
KeptRow == [status : {"none", "open", "done", "dropped"}, anchorOn : Day \cup {Never},
            dueOn : DueDay \cup {Never}, remindedFor : DueDay \cup {Never}, task : Nat]

NoPlace == <<Never, Never>>
PlaceOf(listed) == <<listed.dueOn, listed.id>>

Today == (clock \div 2) + 1
Morning == clock % 2 = 1

Following(p) == at[p] \in {"read", "asked"}

Task == [dueOn : DueDay, done : BOOLEAN]

KeptFieldsOK ==
    /\ clock \in 1 .. LastClock /\ source \in [Deadline -> Day \cup {Never}]
    /\ interval \in Interval /\ failing \subseteq Deadline
    /\ row \in [Deadline -> KeptRow] /\ tasks \in Seq(Task)
    /\ at \in [Pass -> {"idle", "read", "asked", "followed", "reminding"}]
    /\ read \in [Pass -> [rows : [Deadline -> KeptRow], interval : Interval]]
    /\ asked \in [Pass -> [Deadline -> Day \cup {Never}]]
    /\ doneFor \in [Deadline -> DueDay \cup {Never}] /\ between \subseteq Deadline
    /\ acted \in [Deadline -> Seq(DueDay)]
    /\ changes \in 0 .. MaxChanges

TurnOK ==
    /\ \A p \in Pass : (turn[p] # <<>> <=> at[p] = "reminding") /\ Len(turn[p]) <= MostReminders
    /\ stopped \in [Pass -> {NoPlace} \cup (DueDay \X Deadline)]

DeadlinesTypeOK == KeptFieldsOK /\ TurnOK

\* What a pass holds between its steps is let go of with it.
Nothing == [rows |-> [d \in Deadline |-> Unkept], interval |-> CHOOSE i \in Interval : TRUE]
NoAnswer == [d \in Deadline |-> Never]

DeadlinesInit ==
    /\ clock = 1 /\ source = NoAnswer /\ interval \in Interval /\ failing = {}
    /\ row = Nothing.rows /\ tasks = <<>>
    /\ at = [p \in Pass |-> "idle"] /\ read = [p \in Pass |-> Nothing]
    /\ asked = [p \in Pass |-> NoAnswer] /\ turn = [p \in Pass |-> <<>>]
    /\ stopped = [p \in Pass |-> NoPlace]
    /\ doneFor = NoAnswer /\ between = {} /\ acted = [d \in Deadline |-> <<>>] /\ changes = 0

Change == changes < MaxChanges /\ changes' = changes + 1

-----------------------------------------------------------------------------
(* The world around: time, the sources, the settings, what people do. *)

TimePasses ==
    /\ clock < LastClock /\ clock' = clock + 1
    /\ UNCHANGED <<source, interval, failing, row, tasks, pass, past, changes>>

\* A source asks for a deadline, from another day, or no more.
SourceChanges(d) ==
    /\ Change
    /\ \E day \in Day \cup {Never} : day # source[d] /\ source' = [source EXCEPT ![d] = day]
    /\ UNCHANGED <<clock, interval, failing, row, tasks, pass, past>>

IntervalChanges ==
    /\ Change
    /\ interval' \in Interval \ {interval}
    /\ UNCHANGED <<clock, source, failing, row, tasks, pass, past>>

\* The action of a deadline begins to fail.
Breaks(d) ==
    /\ Change /\ d \notin failing /\ failing' = failing \cup {d}
    /\ UNCHANGED <<clock, source, interval, row, tasks, pass, past>>

DoTask(t) ==
    /\ Change /\ ~tasks[t].done /\ tasks' = [tasks EXCEPT ![t].done = TRUE]
    /\ UNCHANGED <<world, row, pass, past>>

\* A plausible slip: the task of an older day counts.
HasSomeTask(r) == r.task # Never

\* The task made for the due day a deadline has now; an older one is left as it is.
HasTaskOfTheDay(r) == r.task # Never /\ r.remindedFor = r.dueOn

\* The task of the day goes with the deadline, done and open again.
WithItsTask(d, isDone) ==
    IF HasTaskOfTheDay(row[d]) THEN tasks' = [tasks EXCEPT ![row[d].task].done = isDone]
                               ELSE UNCHANGED tasks

MarkDone(d) ==
    /\ Change /\ row[d].status = "open"
    /\ row' = [row EXCEPT ![d].status = "done"] /\ doneFor' = [doneFor EXCEPT ![d] = row[d].dueOn]
    /\ between' = IF \E p \in Pass : Following(p) THEN between \cup {d} ELSE between \ {d}
    /\ WithItsTask(d, TRUE)
    /\ UNCHANGED <<world, pass, acted>>

Reopen(d) ==
    /\ Change /\ row[d].status = "done"
    /\ row' = [row EXCEPT ![d].status = "open"] /\ WithItsTask(d, FALSE)
    /\ UNCHANGED <<world, pass, past>>

-----------------------------------------------------------------------------
(* `reconcileDeadlines`: the rows, the sources, and what follows from both. *)

ReadKept(p) ==
    /\ at[p] = "idle" /\ \A q \in Pass : ~Following(q)
    /\ read' = [read EXCEPT ![p] = [rows |-> row, interval |-> interval]]
    /\ at' = [at EXCEPT ![p] = "read"]
    /\ UNCHANGED <<world, row, tasks, asked, turn, stopped, past, changes>>

AskSources(p) ==
    /\ at[p] = "read"
    /\ asked' = [asked EXCEPT ![p] = source] /\ at' = [at EXCEPT ![p] = "asked"]
    /\ UNCHANGED <<world, row, tasks, read, turn, stopped, past, changes>>

StartsOver(was, day) == was.status = "done" /\ was.anchorOn # day

Reopens(was, day) == was.status = "dropped" \/ StartsOver(was, day)

Moves(was, day, due) == was.status = "open" /\ (was.anchorOn # day \/ was.dueOn # due)

\* What a pass writes over the row there is, for what it read and was answered.
Followed(was, is, day, due) ==
    CASE day = Never -> IF was.status = "open" THEN [is EXCEPT !.status = "dropped"] ELSE is
      [] day # Never /\ was.status = "none" ->
            [Unkept EXCEPT !.status = "open", !.anchorOn = day, !.dueOn = due]
      [] day # Never /\ Reopens(was, day) ->
            [is EXCEPT !.status = "open", !.anchorOn = day, !.dueOn = due]
      [] day # Never /\ Moves(was, day, due) -> [is EXCEPT !.anchorOn = day, !.dueOn = due]
      [] OTHER -> is

\* `complete`: an open deadline whose task of the day is done.
DoneByItsTask(r) == r.status = "open" /\ HasTaskOfTheDay(r) /\ tasks[r.task].done

\* The end of the transaction.
Follow(p) ==
    /\ at[p] = "asked"
    /\ LET Result(d) == Followed(read[p].rows[d], row[d], asked[p][d],
                                 asked[p][d] + read[p].interval)
           completed == {d \in Deadline : DoneByItsTask(Result(d))}
       IN  /\ row' = [d \in Deadline |-> IF d \in completed
                                        THEN [Result(d) EXCEPT !.status = "done"]
                                        ELSE Result(d)]
           /\ doneFor' = [d \in Deadline |-> IF d \in completed THEN tasks[Result(d).task].dueOn
                                                               ELSE doneFor[d]]
           /\ between' = between \ completed
    /\ at' = [at EXCEPT ![p] = "followed"]
    /\ read' = [read EXCEPT ![p] = Nothing] /\ asked' = [asked EXCEPT ![p] = NoAnswer]
    /\ UNCHANGED <<world, tasks, turn, stopped, acted, changes>>

-----------------------------------------------------------------------------
(* The reminders of a pass, each in a transaction of its own. *)

Unreminded(r) == r.status = "open" /\ r.remindedFor # r.dueOn

Before(x, y) == x.dueOn < y.dueOn \/ (x.dueOn = y.dueOn /\ x.id < y.id)

\* What is due, by day and id, of what has come; what has not is passed over.
Due ==
    LET come == {d \in Deadline : Unreminded(row[d]) /\ row[d].dueOn <= Today}
    IN  SetToSortSeq({[id |-> d, dueOn |-> row[d].dueOn] : d \in come}, Before)

IsAfter(listed, place) ==
    listed.dueOn > place[1] \/ (listed.dueOn = place[1] /\ listed.id > place[2])

\* A plausible slip: every pass begins with the first.
FromTheFirst(due, place) == due

\* The pass goes on after the last one the pass before it tried, and around.
From(due, place) ==
    SelectSeq(due, LAMBDA x : IsAfter(x, place)) \o SelectSeq(due, LAMBDA x : ~IsAfter(x, place))

MostOf(due) == IF Len(due) > MostReminders THEN MostReminders ELSE Len(due)

\* Before the morning a pass only follows the sources.
List(p) ==
    /\ at[p] = "followed"
    /\ \/ /\ Morning
          /\ LET due == From(Due, stopped[p])
                 most == MostOf(due)
             IN  /\ turn' = [turn EXCEPT ![p] = SubSeq(due, 1, most)]
                 /\ stopped' = [stopped EXCEPT ![p] = IF most < Len(due) THEN PlaceOf(due[most])
                                                                       ELSE NoPlace]
       \/ ~Morning /\ UNCHANGED <<turn, stopped>>
    /\ at' = [at EXCEPT ![p] = IF turn'[p] = <<>> THEN "idle" ELSE "reminding"]
    /\ UNCHANGED <<world, row, tasks, read, asked, past, changes>>

\* A plausible slip: the claim does not ask whether it was reminded already.
ClaimsOpen(listed) == row[listed.id].dueOn = listed.dueOn /\ row[listed.id].status = "open"

\* Of two passes one gets the row, and only for the day it listed.
Claims(listed) == row[listed.id].dueOn = listed.dueOn /\ Unreminded(row[listed.id])

\* An open task of the day that another deadline made is shared.
Shared(due) == {t \in 1 .. Len(tasks) : tasks[t].dueOn = due /\ ~tasks[t].done}

Reminded(d, task) == [row EXCEPT ![d].remindedFor = row[d].dueOn, ![d].task = task]

Act(d) ==
    /\ \/ /\ Shared(row[d].dueOn) = {}
          /\ tasks' = Append(tasks, [dueOn |-> row[d].dueOn, done |-> FALSE])
          /\ row' = Reminded(d, Len(tasks) + 1)
       \/ \E t \in Shared(row[d].dueOn) : row' = Reminded(d, t) /\ UNCHANGED tasks
    /\ acted' = [acted EXCEPT ![d] = Append(@, row[d].dueOn)]

\* The mark and what it makes are one transaction: an action that fails takes
\* the mark back with it, and the others have their turn all the same.
Remind(p, d) ==
    /\ at[p] = "reminding" /\ d = Head(turn[p]).id
    /\ \/ Claims(Head(turn[p])) /\ d \notin failing /\ Act(d)
       \/ /\ ~Claims(Head(turn[p])) \/ d \in failing
          /\ UNCHANGED <<row, tasks, acted>>
    /\ turn' = [turn EXCEPT ![p] = Tail(@)]
    /\ at' = [at EXCEPT ![p] = IF Len(turn[p]) = 1 THEN "idle" ELSE @]
    /\ UNCHANGED <<world, read, asked, stopped, doneFor, between, changes>>

\* A process ends in the middle of a pass, and its memory with it.
PassEnds(p) ==
    /\ Change /\ (at[p] # "idle" \/ stopped[p] # NoPlace)
    /\ at' = [at EXCEPT ![p] = "idle"] /\ read' = [read EXCEPT ![p] = Nothing]
    /\ asked' = [asked EXCEPT ![p] = NoAnswer] /\ turn' = [turn EXCEPT ![p] = <<>>]
    /\ stopped' = [stopped EXCEPT ![p] = NoPlace]
    /\ UNCHANGED <<world, row, tasks, past>>

-----------------------------------------------------------------------------

People ==
    \/ \E d \in Deadline : SourceChanges(d) \/ MarkDone(d) \/ Reopen(d)
    \/ \E t \in 1 .. Len(tasks) : DoTask(t)
    \/ IntervalChanges

RunPass(p) ==
    \/ ReadKept(p) \/ AskSources(p) \/ Follow(p) \/ List(p)
    \/ \E d \in Deadline : Remind(p, d)

DeadlinesNext ==
    \/ TimePasses \/ People
    \/ \E d \in Deadline : Breaks(d)
    \/ \E p \in Pass : RunPass(p) \/ PassEnds(p)

DeadlinesSpec == DeadlinesInit /\ [][DeadlinesNext]_deadlineVars

\* A pass every minute, one after the other; and time passes.
FairDeadlinesSpec ==
    /\ DeadlinesSpec /\ WF_deadlineVars(TimePasses)
    /\ \A p \in Pass : WF_deadlineVars(RunPass(p))

-----------------------------------------------------------------------------

\* A done deadline was done for its day: what somebody did or marked done for
\* one due day never stands as done for another, which nobody would be reminded
\* of again. Excused is what somebody marked done while a pass had read it open
\* and not written yet: the pass moves it by what it read.
DoneForItsDay ==
    \A d \in Deadline :
        row[d].status = "done" => row[d].dueOn = doneFor[d] \/ d \in between

\* What a deadline makes it makes once for each due day it comes to: not by two
\* passes at once, not again after it was done, reopened, dropped or moved and
\* moved back before the other day came.
ActsOncePerDay ==
    \A d \in Deadline : \A i \in 1 .. Len(acted[d]) - 1 : acted[d][i] # acted[d][i + 1]

\* What a source keeps asking for is kept for its day, and acted on once the day
\* has come unless somebody had it done before, whatever else fails and however
\* few reminders a pass makes; what no source asks for is open no more.
WhatIsAskedIsActedOn ==
    \A d \in Deadline :
        LET Settled ==
                IF source[d] = Never THEN row[d].status # "open"
                ELSE /\ row[d].anchorOn = source[d] /\ row[d].status \in {"open", "done"}
                     /\ row[d].status = "open" =>
                            /\ row[d].dueOn = source[d] + interval
                            /\ \/ row[d].remindedFor = row[d].dueOn
                               \/ row[d].dueOn > Today \/ d \in failing
        IN  <>[]Settled

=============================================================================

----------------------------- MODULE PushOutbox -----------------------------
(***************************************************************************)
(* Push messages of a tenant: telephones that subscribe with the session   *)
(* they are signed in with, the outbox with one message for each cause and *)
(* subscription, and the pass that takes the signed out telephones off,    *)
(* writes what has become due and sends what waits; a person sends a test  *)
(* message past the pass.                                                  *)
(*                                                                         *)
(* Every transaction is one step.  What a push service was handed it shows *)
(* on the telephone, whether its answer comes back or not.                 *)
(***************************************************************************)
EXTENDS FiniteSets, Naturals

CONSTANTS
    Person, Session, Telephone,
    PersonOf, TelephoneOf,  \* whose each session is, and where
    Row,                \* rows of `push_subscriptions`, in the order they are inserted
    Cause, PersonFor,   \* what messages are about, and whom they are for
    Process,            \* processes that run passes, or the route of the test message
    NoSession, NoMessage,
    MaxAttempts,        \* `pushMaximumAttempts`
    TestsBeside,        \* whether a test message is sent while a pass runs
    MaxMishaps          \* bound: answers lost, processes ended, claims run out while held

Message == Cause \X Row
CauseOf(m) == m[1]
RowOf(m) == m[2]

ASSUME PushOutboxAssumption ==
    /\ Row \subseteq Nat /\ IsFiniteSet(Row)
    /\ PersonOf \in [Session -> Person] /\ TelephoneOf \in [Session -> Telephone]
    /\ PersonFor \in [Cause -> Person]
    /\ NoSession \notin Session
    /\ MaxAttempts \in Nat \ {0} /\ TestsBeside \in BOOLEAN /\ MaxMishaps \in Nat

VARIABLES
    session,    \* the sessions: not begun, alive, or out
    state,      \* the rows: not inserted, there, or deleted
    bound,      \* the session each row is bound to
    raised,     \* causes that have become due, test messages among them
    tests,      \* those a person asked for
    expired,    \* causes whose messages are no use any more
    status,     \* `push_outbox`; a message goes with its row
    attempts,
    due,        \* messages whose next attempt has come
    pc,         \* where each process is
    only,       \* whether it sends its own messages only, as the route does
    outAtStart, \* history: the sessions that were out when it began
    forget,     \* rows it found signed out
    todo,       \* causes it has yet to write
    drafts,     \* messages it is about to write
    claimed,    \* messages it has claimed, with the attempt and the session as claimed
    current,    \* the one it has handed to the push service
    outcome,    \* what that answered
    delivered,  \* history: how often a telephone showed each message
    excused,    \* history: mishaps after which it may be shown again
    mishaps

devices == <<session, state, bound>>
causes  == <<raised, tests, expired>>
outbox  == <<status, attempts, due>>
writing == <<only, outAtStart, forget, todo, drafts>>
sending == <<claimed, current, outcome>>
history == <<delivered, excused>>
vars == <<devices, causes, outbox, pc, writing, sending, history, mishaps>>

\* A message as a pass claimed it.
Claim == [message : Message, attempt : Nat \ {0}, session : Session]

ASSUME NoClaimAssumption == NoMessage \notin Claim

There(r) == state[r] = "there"

FieldsOK ==
    /\ session \in [Session -> {"none", "alive", "out"}]
    /\ state \in [Row -> {"unused", "there", "deleted"}]
    /\ bound \in [Row -> Session \cup {NoSession}]
    /\ raised \subseteq Cause /\ tests \subseteq raised /\ expired \subseteq raised
    /\ status \in [Message -> {"none", "pending", "sent", "failed"}]
    /\ attempts \in [Message -> Nat] /\ due \subseteq Message
    /\ pc \in [Process -> {"idle", "forgetting", "writing", "drafted", "claiming", "sending",
                           "answered"}]
    /\ only \in [Process -> BOOLEAN] /\ outAtStart \in [Process -> SUBSET Session]
    /\ forget \in [Process -> SUBSET Row] /\ todo \in [Process -> SUBSET Cause]
    /\ drafts \in [Process -> SUBSET Message] /\ claimed \in [Process -> SUBSET Claim]
    /\ current \in [Process -> Claim \cup {NoMessage}]
    /\ outcome \in [Process -> {"none", "sent", "gone", "retry", "refused"}]
    /\ delivered \in [Message -> Nat] /\ excused \in [Message -> Nat]
    /\ mishaps \in 0 .. MaxMishaps

\* A telephone has one row, and it is bound to a session.
RowsOK ==
    /\ \A r \in Row : There(r) <=> bound[r] # NoSession
    /\ \A r, q \in Row : There(r) /\ There(q) /\ TelephoneOf[bound[r]] = TelephoneOf[bound[q]]
                            => r = q

\* Messages are there with their rows, and what is due waits.
MessagesOK ==
    /\ \A m \in Message : status[m] # "none" => There(RowOf(m))
    /\ \A m \in due : status[m] = "pending"

\* What a process holds, by where it is.
PassOK ==
    \A p \in Process :
        /\ claimed[p] # {} <=> pc[p] \in {"sending", "answered"}
        /\ \A x, y \in claimed[p] : x.message = y.message => x = y
        /\ current[p] # NoMessage <=> pc[p] = "answered"
        /\ pc[p] = "answered" => current[p] \in claimed[p]
        /\ only[p] => pc[p] \in {"drafted", "claiming", "sending", "answered"}
        /\ pc[p] = "claiming" => only[p]
        /\ forget[p] # {} => pc[p] = "forgetting"

TypeOK == FieldsOK /\ RowsOK /\ MessagesOK /\ PassOK

Init ==
    /\ session = [s \in Session |-> "none"] /\ state = [r \in Row |-> "unused"]
    /\ bound = [r \in Row |-> NoSession] /\ raised = {} /\ tests = {} /\ expired = {}
    /\ status = [m \in Message |-> "none"] /\ attempts = [m \in Message |-> 0] /\ due = {}
    /\ pc = [p \in Process |-> "idle"] /\ only = [p \in Process |-> FALSE]
    /\ outAtStart = [p \in Process |-> {}] /\ forget = [p \in Process |-> {}]
    /\ todo = [p \in Process |-> {}] /\ drafts = [p \in Process |-> {}]
    /\ claimed = [p \in Process |-> {}] /\ current = [p \in Process |-> NoMessage]
    /\ outcome = [p \in Process |-> "none"]
    /\ delivered = [m \in Message |-> 0] /\ excused = [m \in Message |-> 0]
    /\ mishaps = 0

Mishap == mishaps < MaxMishaps /\ mishaps' = mishaps + 1

-----------------------------------------------------------------------------
(* People and their telephones. *)

\* A telephone shows the way to sign in only where nobody is signed in.
SignIn(s) ==
    /\ \A other \in Session : TelephoneOf[other] = TelephoneOf[s] => session[other] # "alive"
    /\ session[s] = "none" /\ session' = [session EXCEPT ![s] = "alive"]
    /\ UNCHANGED <<state, bound, causes, outbox, pc, writing, sending, history, mishaps>>

\* The session is deleted, by the telephone, from another one or by a new password.
SignOut(s) ==
    /\ session[s] = "alive" /\ session' = [session EXCEPT ![s] = "out"]
    /\ UNCHANGED <<state, bound, causes, outbox, pc, writing, sending, history, mishaps>>

RowsOf(t) == {r \in Row : There(r) /\ TelephoneOf[bound[r]] = t}

\* Once per address of the push service: the row a telephone has is bound anew,
\* to whoever is signed in there now, and keeps its messages.
Subscribe(s) ==
    /\ session[s] = "alive"
    /\ LET own == RowsOf(TelephoneOf[s])
       IN  \/ \E r \in own : bound[r] # s /\ bound' = [bound EXCEPT ![r] = s] /\ UNCHANGED state
           \/ /\ own = {}
              /\ \E r \in Row :
                  /\ state[r] = "unused" /\ \A q \in Row : q < r => state[q] # "unused"
                  /\ state' = [state EXCEPT ![r] = "there"] /\ bound' = [bound EXCEPT ![r] = s]
    /\ UNCHANGED <<session, causes, outbox, pc, writing, sending, history, mishaps>>

\* A row goes, and its messages with it, whatever they were.
Off(r) ==
    /\ state' = [state EXCEPT ![r] = "deleted"] /\ bound' = [bound EXCEPT ![r] = NoSession]
    /\ status' = [m \in Message |-> IF RowOf(m) = r THEN "none" ELSE status[m]]
    /\ attempts' = [m \in Message |-> IF RowOf(m) = r THEN 0 ELSE attempts[m]]
    /\ due' = {m \in due : RowOf(m) # r}

Unsubscribe(r) ==
    /\ There(r) /\ Off(r)
    /\ UNCHANGED <<session, causes, pc, writing, sending, history, mishaps>>

-----------------------------------------------------------------------------
(* Time. *)

Raise(c) ==
    /\ c \notin raised /\ raised' = raised \cup {c}
    /\ UNCHANGED <<devices, tests, expired, outbox, pc, writing, sending, history, mishaps>>

Expire(c) ==
    /\ c \in raised \ expired /\ expired' = expired \cup {c}
    /\ UNCHANGED <<devices, raised, tests, outbox, pc, writing, sending, history, mishaps>>

Held(m) == \E p \in Process : \E x \in claimed[p] : x.message = m

\* The wait is over, or the claim of a process that ended; under a pass that
\* still holds the message, that is a mishap.
ComesDue(m) ==
    /\ status[m] = "pending" /\ m \notin due /\ due' = due \cup {m}
    /\ IF Held(m) THEN Mishap /\ excused' = [excused EXCEPT ![m] = @ + 1]
                  ELSE UNCHANGED <<mishaps, excused>>
    /\ UNCHANGED <<devices, causes, status, attempts, pc, writing, sending, delivered>>

-----------------------------------------------------------------------------
(* The pass. *)

To(p, place) == pc' = [pc EXCEPT ![p] = place]

OutNow == {s \in Session : session[s] = "out"}

\* A plausible slip: whoever is signed in on the telephone keeps the row.
NobodySignedIn(r) ==
    /\ There(r)
    /\ \A s \in Session : TelephoneOf[s] = TelephoneOf[bound[r]] => session[s] # "alive"

SignedOut(r) == There(r) /\ session[bound[r]] = "out"

\* The devices are read and their sessions asked for; each goes on its own.
Begin(p) ==
    /\ pc[p] = "idle" /\ (TestsBeside \/ \A q \in Process : ~only[q])
    /\ \E r \in Row : There(r)
    /\ forget' = [forget EXCEPT ![p] = {r \in Row : SignedOut(r)}]
    /\ outAtStart' = [outAtStart EXCEPT ![p] = OutNow] /\ To(p, "forgetting")
    /\ UNCHANGED <<devices, causes, outbox, only, todo, drafts, sending, history, mishaps>>

Forget(p, r) ==
    /\ pc[p] = "forgetting" /\ r \in forget[p]
    /\ forget' = [forget EXCEPT ![p] = @ \ {r}]
    /\ IF There(r) THEN Off(r) ELSE UNCHANGED <<state, bound, outbox>>
    /\ UNCHANGED <<session, causes, pc, only, outAtStart, todo, drafts, sending,
                   history, mishaps>>

Forgotten(p) ==
    /\ pc[p] = "forgetting" /\ forget[p] = {}
    /\ todo' = [todo EXCEPT ![p] = raised \ (expired \cup tests)] /\ To(p, "writing")
    /\ UNCHANGED <<devices, causes, outbox, only, outAtStart, forget, drafts, sending, history,
                   mishaps>>

SignedInOf(person) ==
    {r \in Row : There(r) /\ PersonOf[bound[r]] = person /\ session[bound[r]] = "alive"}

\* `write`: the devices of the person, those that are signed in, and then the
\* messages in a transaction of its own.
Draft(p, c) ==
    /\ pc[p] = "writing" /\ c \in todo[p]
    /\ todo' = [todo EXCEPT ![p] = @ \ {c}]
    /\ drafts' = [drafts EXCEPT ![p] = {c} \X SignedInOf(PersonFor[c])] /\ To(p, "drafted")
    /\ UNCHANGED <<devices, causes, outbox, only, outAtStart, forget, sending, history, mishaps>>

\* What a process holds it lets go of.
Stops(p) ==
    /\ To(p, "idle") /\ only' = [only EXCEPT ![p] = FALSE]
    /\ outAtStart' = [outAtStart EXCEPT ![p] = {}] /\ forget' = [forget EXCEPT ![p] = {}]
    /\ todo' = [todo EXCEPT ![p] = {}] /\ drafts' = [drafts EXCEPT ![p] = {}]
    /\ claimed' = [claimed EXCEPT ![p] = {}] /\ current' = [current EXCEPT ![p] = NoMessage]
    /\ outcome' = [outcome EXCEPT ![p] = "none"]

\* Once for each cause and row; a row that went meanwhile fails the whole of it,
\* and the pass.  The route goes on with what it wrote, if that is anything.
Write(p) ==
    /\ pc[p] = "drafted"
    /\ IF \A m \in drafts[p] : There(RowOf(m))
       THEN LET new == {m \in drafts[p] : status[m] = "none"}
            IN  /\ status' = [m \in Message |-> IF m \in new THEN "pending" ELSE status[m]]
                /\ due' = due \cup new
                /\ IF only[p] /\ new = {} THEN Stops(p)
                   ELSE /\ To(p, IF only[p] THEN "claiming" ELSE "writing")
                        /\ drafts' = [drafts EXCEPT ![p] = IF only[p] THEN new ELSE {}]
                        /\ UNCHANGED <<only, outAtStart, forget, todo, sending>>
       ELSE Stops(p) /\ UNCHANGED <<status, due>>
    /\ UNCHANGED <<devices, causes, attempts, history, mishaps>>

\* A person asks for a test message: written, and sent at once and alone.
SendTest(p, c) ==
    /\ pc[p] = "idle" /\ c \notin raised
    /\ TestsBeside \/ \A q \in Process : pc[q] = "idle"
    /\ raised' = raised \cup {c} /\ tests' = tests \cup {c}
    /\ only' = [only EXCEPT ![p] = TRUE]
    /\ drafts' = [drafts EXCEPT ![p] = {c} \X SignedInOf(PersonFor[c])]
    /\ outAtStart' = [outAtStart EXCEPT ![p] = OutNow] /\ To(p, "drafted")
    /\ UNCHANGED <<devices, expired, outbox, forget, todo, sending, history, mishaps>>

\* What this process may claim: what is due, or what it has just written,
\* whatever the clock says.
Claimable(p) ==
    {m \in Message : /\ status[m] = "pending" /\ CauseOf(m) \notin expired
                     /\ IF only[p] THEN m \in drafts[p] ELSE m \in due}

\* A plausible slip: what comes too late is not claimed, and no more is done.
NoneGivenUp == {}

GivenUpLate == {m \in Message : status[m] = "pending" /\ CauseOf(m) \in expired}

\* A plausible slip: what is claimed stays due.
StaysDue(batch) == due

\* What is claimed is left alone for a while.
LeftAlone(batch) == due \ batch

\* What comes too late is given up on, the rest is claimed with its devices.
ClaimDue(p) ==
    /\ pc[p] = "claiming" \/ (pc[p] = "writing" /\ todo[p] = {})
    /\ LET batch == Claimable(p)
       IN  /\ status' = [m \in Message |-> IF m \in GivenUpLate THEN "failed" ELSE status[m]]
           /\ due' = LeftAlone(batch) \ GivenUpLate
           /\ attempts' = [m \in Message |-> IF m \in batch THEN attempts[m] + 1 ELSE attempts[m]]
           /\ IF batch = {} THEN Stops(p)
              ELSE /\ claimed' = [claimed EXCEPT ![p] =
                        {[message |-> m, attempt |-> attempts'[m], session |-> bound[RowOf(m)]] :
                            m \in batch}]
                   /\ To(p, "sending") /\ UNCHANGED <<writing, current, outcome>>
    /\ UNCHANGED <<devices, causes, history, mishaps>>

\* The push service is handed the message.  It shows it, or the subscription is
\* gone, or it refuses, for now or for good.
Deliver(p) ==
    /\ pc[p] = "sending"
    /\ \E x \in claimed[p], answer \in {"sent", "gone", "retry", "refused"} :
        /\ current' = [current EXCEPT ![p] = x] /\ outcome' = [outcome EXCEPT ![p] = answer]
        /\ LET m == x.message
           IN  \/ /\ answer = "sent" /\ UNCHANGED <<excused, mishaps>>
                  /\ delivered' = [delivered EXCEPT ![m] = @ + 1]
               \/ /\ answer = "retry" /\ Mishap      \* shown, and the answer is lost
                  /\ delivered' = [delivered EXCEPT ![m] = @ + 1]
                  /\ excused' = [excused EXCEPT ![m] = @ + 1]
               \/ answer # "sent" /\ UNCHANGED <<delivered, excused, mishaps>>
    /\ To(p, "answered")
    /\ UNCHANGED <<devices, causes, outbox, writing, claimed>>

\* Tried often enough.  A message may be given up on sooner: when the wait would
\* outlast it, which its clock decides.
TriedEnough(x) == x.attempt >= MaxAttempts

\* What became of it is marked by its id alone; a message that went with its row
\* is marked no more.
Mark(p) ==
    /\ pc[p] = "answered"
    /\ LET x == current[p]
           m == x.message
           Marked(s) == status' = IF status[m] = "none" THEN status ELSE [status EXCEPT ![m] = s]
       IN  /\ \/ /\ outcome[p] = "sent" /\ Marked("sent") /\ due' = due \ {m}
                 /\ UNCHANGED <<state, bound, attempts>>
              \/ /\ outcome[p] \in {"refused", "retry"}
                 /\ Marked("failed") /\ due' = due \ {m}
                 /\ UNCHANGED <<state, bound, attempts>>
              \/ /\ outcome[p] = "retry" /\ ~TriedEnough(x)
                 /\ Marked("pending") /\ due' = due \ {m}
                 /\ UNCHANGED <<state, bound, attempts>>
              \/ /\ outcome[p] = "gone"
                 /\ IF There(RowOf(m)) THEN Off(RowOf(m)) ELSE UNCHANGED <<state, bound, outbox>>
           /\ IF claimed[p] = {x} THEN Stops(p)
              ELSE /\ claimed' = [claimed EXCEPT ![p] = @ \ {x}]
                   /\ current' = [current EXCEPT ![p] = NoMessage]
                   /\ outcome' = [outcome EXCEPT ![p] = "none"]
                   /\ To(p, "sending") /\ UNCHANGED writing
    /\ UNCHANGED <<session, causes, history, mishaps>>

\* A process ends; what the push service had shown and nobody marked goes again.
ProcessEnds(p) ==
    /\ pc[p] # "idle" /\ Mishap /\ Stops(p)
    /\ excused' = [m \in Message |-> IF current[p] # NoMessage /\ current[p].message = m
                                       THEN excused[m] + 1 ELSE excused[m]]
    /\ UNCHANGED <<devices, causes, outbox, delivered>>

-----------------------------------------------------------------------------

Run(p) ==
    \/ Begin(p) \/ Forgotten(p) \/ Write(p) \/ ClaimDue(p) \/ Deliver(p) \/ Mark(p)
    \/ \E r \in Row : Forget(p, r)
    \/ \E c \in Cause : Draft(p, c)

Next ==
    \/ \E s \in Session : SignIn(s) \/ SignOut(s) \/ Subscribe(s)
    \/ \E r \in Row : Unsubscribe(r)
    \/ \E c \in Cause : Raise(c) \/ Expire(c)
    \/ \E m \in Message : ComesDue(m)
    \/ \E p \in Process : Run(p) \/ ProcessEnds(p) \/ \E c \in Cause : SendTest(p, c)

Spec == Init /\ [][Next]_vars

\* A pass every minute, a request that runs on, and waits that end.
FairSpec ==
    /\ Spec /\ \A p \in Process : WF_vars(Run(p))
    /\ \A m \in Message : WF_vars(ComesDue(m))

-----------------------------------------------------------------------------

\* A message goes out once, however passes, the route of the test message and
\* the processes run side by side; every further time has its mishap.
NothingGoesOutTwice == \A m \in Message : delivered[m] <= 1 + excused[m]

\* A step in which a telephone shows a message a process has handed over.
Shows(p) == Deliver(p) /\ delivered' # delivered

\* A telephone signed out before a pass began is told nothing by it, although
\* its browser still holds the subscription and messages were waiting for it.
QuietAfterSignOut ==
    [][\A p \in Process : Shows(p) => current'[p].session \notin outAtStart[p]]_vars

\* A message that waits is sent, given up on or gone with its device at last.
Settles == \A m \in Message : (status[m] = "pending") ~> (status[m] # "pending")

\* A message is shown to nobody but the person it was written for.
ToItsPerson ==
    [][\A p \in Process : Shows(p) =>
            PersonOf[current'[p].session] = PersonFor[CauseOf(current'[p].message)]]_vars

=============================================================================

------------------------------ MODULE MailOutbox ----------------------------
(***************************************************************************)
(* The outbox of the mail of one tenant: messages are written with what    *)
(* caused them, and passes of the processes that run claim what is due in  *)
(* one short transaction, send it outside of any, and write down what      *)
(* became of it in another.  A process may end in between, a claim may run *)
(* out under a slow pass, and the mail server may be removed meanwhile.    *)
(*                                                                         *)
(* Time is what it makes due: next_attempt_at is still to come or past,    *)
(* and `due` keeps the order in which it came.                             *)
(***************************************************************************)
EXTENDS Naturals, Sequences, SequencesExt

CONSTANTS
    Message, Process,
    NoMessage,
    Limit,              \* messages one pass claims
    MaximumAttempts,    \* attempts after which a message is given up on
    MaxChanges,         \* bound: changes of the mail server
    MaxMishaps          \* bound: what goes wrong between sending and writing it down

ASSUME MailOutboxAssumption ==
    /\ NoMessage \notin Message
    /\ Limit \in Nat \ {0} /\ MaximumAttempts \in Nat \ {0}
    /\ MaxChanges \in Nat /\ MaxMishaps \in Nat

VARIABLES
    server,         \* the mail server: none, ready, or its password does not open
    asked,          \* messages whose cause found a mail server and writes them next
    status,
    attempts,
    due,            \* pending messages whose next attempt has come, in that order
    pc,             \* where the pass of each process is
    batch,          \* what it claimed and has not written down, with the attempts it read
    current,        \* the message it is at
    failure,        \* why that one did not go out
    serverDown,     \* the failure the rest of the pass is put back with
    delivered,      \* how often the mail server took each message
    excused,        \* mishaps that may make each go out once more
    changes, mishaps

outbox  == <<status, attempts, due>>
pass    == <<pc, batch, current, failure, serverDown>>
history == <<delivered, excused>>
vars    == <<server, asked, outbox, pass, history, changes, mishaps>>

\* A failure about the server and not about one message spares the rest of a
\* pass the same wait.
Failures  == [permanent : BOOLEAN, serverWide : BOOLEAN]
NoFailure == [permanent |-> FALSE, serverWide |-> FALSE]

Claimed(p) == DOMAIN batch[p]
Held(m)    == \E p \in Process : m \in Claimed(p)
Nothing    == [m \in {} |-> 0]

FieldsOK ==
    /\ server \in {"none", "ready", "unreadable"} /\ asked \subseteq Message
    /\ status \in [Message -> {"unwritten", "pending", "sent", "failed"}]
    /\ attempts \in [Message -> Nat]
    /\ pc \in [Process -> {"idle", "connected", "sending", "sent", "unsent"}]
    /\ current \in [Process -> Message \cup {NoMessage}]
    /\ failure \in [Process -> Failures] /\ serverDown \in [Process -> Failures]
    /\ delivered \in [Message -> Nat] /\ excused \in [Message -> Nat]
    /\ changes \in 0 .. MaxChanges /\ mishaps \in 0 .. MaxMishaps

\* The list of what is due holds pending messages, each once.
DueOK ==
    /\ due \in Seq(Message) /\ IsInjective(due)
    /\ \A m \in Range(due) : status[m] = "pending"

\* A pass that is under way has claimed something, and has one of it at hand
\* between sending it and writing it down.
PassOK ==
    /\ DOMAIN batch = Process
    /\ \A p \in Process :
         /\ Claimed(p) \subseteq Message
         /\ Claimed(p) = {} <=> pc[p] \in {"idle", "connected"}
         /\ current[p] \in Claimed(p) <=> pc[p] \in {"sent", "unsent"}
         /\ current[p] = NoMessage <=> pc[p] \notin {"sent", "unsent"}

TypeOK == FieldsOK /\ DueOK /\ PassOK

Init ==
    /\ server = "ready" /\ asked = {}
    /\ status = [m \in Message |-> "unwritten"] /\ attempts = [m \in Message |-> 0] /\ due = <<>>
    /\ pc = [p \in Process |-> "idle"] /\ batch = [p \in Process |-> Nothing]
    /\ current = [p \in Process |-> NoMessage]
    /\ failure = [p \in Process |-> NoFailure] /\ serverDown = [p \in Process |-> NoFailure]
    /\ delivered = [m \in Message |-> 0] /\ excused = [m \in Message |-> 0]
    /\ changes = 0 /\ mishaps = 0

-----------------------------------------------------------------------------
(* What causes messages, and who sets up the mail server. *)

\* A wish to send is refused without a mail server, and a pass raises nothing
\* for a tenant that has none; the message is written in a later transaction.
RequireMailServer(m) ==
    /\ server # "none" /\ status[m] = "unwritten" /\ m \notin asked
    /\ asked' = asked \cup {m}
    /\ UNCHANGED <<server, outbox, pass, history, changes, mishaps>>

\* Once for each cause, and due at once.
Write(m) ==
    /\ m \in asked
    /\ asked' = asked \ {m}
    /\ status' = [status EXCEPT ![m] = "pending"]
    /\ due' = Append(due, m)
    /\ UNCHANGED <<server, attempts, pass, history, changes, mishaps>>

\* Set up or put right, or its password no longer opens.
ServerBecomes(state) ==
    /\ changes < MaxChanges /\ state # server
    /\ server = "none" => state = "ready"
    /\ server' = state
    /\ changes' = changes + 1
    /\ UNCHANGED <<asked, outbox, pass, history, mishaps>>

\* Everything that waits is given up on with the settings.
RemoveMailServer ==
    /\ changes < MaxChanges /\ server # "none"
    /\ server' = "none"
    /\ status' = [m \in Message |-> IF status[m] = "pending" THEN "failed" ELSE status[m]]
    /\ due' = <<>>
    /\ changes' = changes + 1
    /\ UNCHANGED <<asked, attempts, pass, history, mishaps>>

-----------------------------------------------------------------------------
(* Time. *)

\* A plausible slip: only what was never tried comes due.
ComesDueOnce(m) ==
    /\ status[m] = "pending" /\ m \notin Range(due) /\ attempts[m] = 0
    /\ due' = Append(due, m)
    /\ UNCHANGED <<server, asked, status, attempts, pass, delivered, excused, changes, mishaps>>

\* The next attempt of a message has come: its wait is over, or the claim of a
\* pass that ended. Under a pass that still holds it, that is a mishap.
ComesDue(m) ==
    /\ status[m] = "pending" /\ m \notin Range(due)
    /\ Held(m) => mishaps < MaxMishaps
    /\ due' = Append(due, m)
    /\ mishaps' = IF Held(m) THEN mishaps + 1 ELSE mishaps
    /\ excused' = IF Held(m) THEN [excused EXCEPT ![m] = @ + 1] ELSE excused
    /\ UNCHANGED <<server, asked, status, attempts, pass, delivered, changes>>

-----------------------------------------------------------------------------
(* A pass. *)

\* A tenant without a mail server, or with one that does not open, is passed
\* over: nothing is claimed, and nothing counts against a message.
PassOver(p) ==
    /\ pc[p] = "idle" /\ server # "ready"
    /\ UNCHANGED vars

Connect(p) ==
    /\ pc[p] = "idle" /\ server = "ready"
    /\ pc' = [pc EXCEPT ![p] = "connected"]
    /\ serverDown' = [serverDown EXCEPT ![p] = NoFailure]
    /\ UNCHANGED <<server, asked, outbox, batch, current, failure, history, changes, mishaps>>

First(n) == SubSeq(due, 1, IF n < Len(due) THEN n ELSE Len(due))

\* A plausible slip: what is claimed stays due until it is written down.
ClaimStillDue(p) ==
    /\ pc[p] = "connected"
    /\ LET taken == Range(First(Limit)) IN
         /\ attempts' = [m \in Message |-> IF m \in taken THEN attempts[m] + 1 ELSE attempts[m]]
         /\ batch' = [batch EXCEPT ![p] = [m \in taken |-> attempts[m] + 1]]
         /\ pc' = [pc EXCEPT ![p] = IF taken = {} THEN "idle" ELSE "sending"]
    /\ UNCHANGED <<server, asked, status, due, current, failure, serverDown, history, changes,
                   mishaps>>

\* The longest due first; each is left alone for the length of a claim. What
\* another pass is claiming is passed by.
ClaimDue(p) ==
    /\ pc[p] = "connected"
    /\ LET taken == Range(First(Limit)) IN
         /\ attempts' = [m \in Message |-> IF m \in taken THEN attempts[m] + 1 ELSE attempts[m]]
         /\ batch' = [batch EXCEPT ![p] = [m \in taken |-> attempts[m] + 1]]
         /\ pc' = [pc EXCEPT ![p] = IF taken = {} THEN "idle" ELSE "sending"]
    /\ due' = SubSeq(due, Len(First(Limit)) + 1, Len(due))
    /\ UNCHANGED <<server, asked, status, current, failure, serverDown, history, changes, mishaps>>

GoTo(p, where, m) ==
    /\ pc' = [pc EXCEPT ![p] = where]
    /\ current' = [current EXCEPT ![p] = m]

FailsWith(p, f) ==
    /\ failure' = [failure EXCEPT ![p] = f]
    /\ serverDown' = IF f.serverWide THEN [serverDown EXCEPT ![p] = f] ELSE serverDown

\* The mail server takes the next message of the batch.
Send(p) ==
    /\ pc[p] = "sending" /\ ~serverDown[p].serverWide
    /\ \E m \in Claimed(p) :
         /\ GoTo(p, "sent", m)
         /\ delivered' = [delivered EXCEPT ![m] = @ + 1]
    /\ UNCHANGED <<server, asked, outbox, batch, failure, serverDown, excused, changes, mishaps>>

\* It refuses it, does not answer, or the message cannot be put together.
SendFails(p) ==
    /\ pc[p] = "sending" /\ ~serverDown[p].serverWide
    /\ \E m \in Claimed(p) : GoTo(p, "unsent", m)
    /\ \E f \in Failures : FailsWith(p, f)
    /\ UNCHANGED <<server, asked, outbox, batch, history, changes, mishaps>>

\* It takes the message, and its answer comes after the deadline or never.
AnswerComesLate(p) ==
    /\ pc[p] = "sending" /\ ~serverDown[p].serverWide /\ mishaps < MaxMishaps
    /\ \E m \in Claimed(p) :
         /\ GoTo(p, "unsent", m)
         /\ delivered' = [delivered EXCEPT ![m] = @ + 1]
         /\ excused' = [excused EXCEPT ![m] = @ + 1]
    /\ FailsWith(p, [permanent |-> FALSE, serverWide |-> TRUE])
    /\ mishaps' = mishaps + 1
    /\ UNCHANGED <<server, asked, outbox, batch, changes>>

\* A plausible slip: the rest of the batch counts as sent.
PutBackSent(p) ==
    /\ pc[p] = "sending" /\ serverDown[p].serverWide
    /\ \E m \in Claimed(p) : GoTo(p, "sent", m)
    /\ UNCHANGED <<server, asked, outbox, batch, failure, serverDown, history, changes, mishaps>>

\* The rest of the batch is not tried, and is put back with the same failure.
PutBack(p) ==
    /\ pc[p] = "sending" /\ serverDown[p].serverWide
    /\ \E m \in Claimed(p) : GoTo(p, "unsent", m)
    /\ failure' = [failure EXCEPT ![p] = serverDown[p]]
    /\ UNCHANGED <<server, asked, outbox, batch, serverDown, history, changes, mishaps>>

\* The message at hand is written down, by its id alone.
Done(p, result) ==
    LET m == current[p] IN
    /\ status' = [status EXCEPT ![m] = result]
    /\ due' = RemoveFirst(due, m)
    /\ batch' = [batch EXCEPT ![p] = [n \in Claimed(p) \ {m} |-> @[n]]]
    /\ GoTo(p, IF Claimed(p) = {m} THEN "idle" ELSE "sending", NoMessage)
    /\ UNCHANGED <<server, asked, attempts, failure, serverDown, history, changes, mishaps>>

MarkSent(p) ==
    /\ pc[p] = "sent"
    /\ Done(p, "sent")

GivenUp(p) == failure[p].permanent \/ batch[p][current[p]] >= MaximumAttempts

MarkFailed(p) ==
    /\ pc[p] = "unsent"
    /\ Done(p, IF GivenUp(p) THEN "failed" ELSE "pending")

\* The database does not take that a message was sent: it counts as failed.
MarkSentFails(p) ==
    /\ pc[p] = "sent" /\ mishaps < MaxMishaps
    /\ pc' = [pc EXCEPT ![p] = "unsent"]
    /\ failure' = [failure EXCEPT ![p] = NoFailure]
    /\ excused' = [excused EXCEPT ![current[p]] = @ + 1]
    /\ mishaps' = mishaps + 1
    /\ UNCHANGED <<server, asked, outbox, batch, current, serverDown, delivered, changes>>

\* The process ends, or the database takes nothing more in this pass. What was
\* claimed and not written down is due again once the claim has run out.
PassEnds(p) ==
    /\ pc[p] # "idle" /\ mishaps < MaxMishaps
    /\ excused' = IF pc[p] = "sent" THEN [excused EXCEPT ![current[p]] = @ + 1] ELSE excused
    /\ batch' = [batch EXCEPT ![p] = Nothing]
    /\ GoTo(p, "idle", NoMessage)
    /\ mishaps' = mishaps + 1
    /\ UNCHANGED <<server, asked, outbox, failure, serverDown, delivered, changes>>

-----------------------------------------------------------------------------
RunMailCycle(p) ==
    \/ Connect(p) \/ ClaimDue(p)
    \/ Send(p) \/ SendFails(p) \/ PutBack(p)
    \/ MarkSent(p) \/ MarkFailed(p)

Next ==
    \/ \E m \in Message : RequireMailServer(m) \/ Write(m) \/ ComesDue(m)
    \/ \E state \in {"ready", "unreadable"} : ServerBecomes(state)
    \/ RemoveMailServer
    \/ \E p \in Process :
          \/ PassOver(p) \/ RunMailCycle(p)
          \/ AnswerComesLate(p) \/ MarkSentFails(p) \/ PassEnds(p)

Spec == Init /\ [][Next]_vars

\* A pass goes on and another follows it, and time goes by. Nobody has to write
\* a message, to set up a mail server or to keep it.
FairSpec ==
    /\ Spec
    /\ \A p \in Process : WF_vars(RunMailCycle(p))
    /\ \A m \in Message : WF_vars(ComesDue(m))

-----------------------------------------------------------------------------
(* Properties *)

\* Two passes side by side send nothing twice. A message goes out once more
\* only for each time its claim ran out under a pass, its process ended, or the
\* answer or the note that it was sent got lost.
NothingGoesOutTwice ==
    \A m \in Message : delivered[m] <= 1 + excused[m]

\* What the outbox says of a message nobody is sending is true: sent is what
\* the mail server took, and nothing it took waits or counts as given up,
\* whatever two passes and a removed server wrote in between.
TellsTheTruth ==
    \A m \in Message :
        ~Held(m) /\ excused[m] = 0 => (status[m] = "sent" <=> delivered[m] > 0)

\* With a mail server from some time on, no message waits for ever: it is sent
\* or given up on, through claims whose process ended and failures of the server.
Settles ==
    <>[](server = "ready") => \A m \in Message : <>[](status[m] # "pending")

=============================================================================

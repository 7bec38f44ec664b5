------------------------- MODULE Notifications_proofs ----------------------
(***************************************************************************)
(* What holds of the notifications: of the deadlines that raise them and   *)
(* of the outbox that takes them to a telephone, for every number of       *)
(* deadlines, people, telephones, messages and processes.                  *)
(*                                                                         *)
(* Of the outbox: a pass takes the devices off that are signed out before  *)
(* it writes or claims, and a session that is out stays out: so no row it  *)
(* finds later is bound to one that was out when it began (QuietInv).  And *)
(* a message has chances to go out, one for every process that claimed it  *)
(* and has not handed it over and one as long as it may still be claimed;  *)
(* only a mishap adds one (ChancesInv).                                    *)
(*                                                                         *)
(* Of the deadlines: the mark of one says for which day its last task was  *)
(* made (TaskInv) and is the last day it was acted on for (ActedInv), and  *)
(* only a deadline nobody keeps yet starts without one.  One pass follows  *)
(* the sources at a time (ReadInv), and what it read open and finds done   *)
(* somebody marked in between (BetweenInv).  In which order a pass reminds *)
(* plays no part.                                                          *)
(***************************************************************************)
EXTENDS PushOutbox, Deadlines, FiniteSetTheorems, SequenceTheorems, TLAPS

\* The way a pass is quiet towards the sessions that were out when it began.
QuietOf(p) ==
    /\ \A s \in outAtStart[p] : session[s] = "out"
    /\ ~only[p] => \A r \in Row : There(r) /\ bound[r] \in outAtStart[p] => r \in forget[p]
    /\ only[p] => \A m \in drafts[p] : There(RowOf(m)) => bound[RowOf(m)] \notin outAtStart[p]
    /\ \A x \in claimed[p] : x.session \notin outAtStart[p]

QuietInv == \A p \in Process : QuietOf(p)

\* The route of the test message runs alone, and what it has written is due.
AloneInv ==
    \A p \in Process :
        /\ only[p] => \A q \in Process : q # p => pc[q] = "idle"
        /\ pc[p] = "claiming" => \A m \in drafts[p] : status[m] = "pending" => m \in due

\* A process that has claimed a message and may still hand it over.
Carries(p, m) ==
    \E x \in claimed[p] : x.message = m /\ ~(current[p] = x /\ outcome[p] = "sent")
Carriers(m) == {p \in Process : Carries(p, m)}

\* A message that can be claimed, now or later, without anything going wrong.
Open(m) ==
    \/ status[m] = "none" /\ state[RowOf(m)] # "deleted"
    \/ m \in due
    \/ status[m] = "pending" /\ ~Held(m)

Unclaimed(m) == IF Open(m) THEN 1 ELSE 0
ChancesOf(m) == /\ IsFiniteSet(Carriers(m))
                /\ delivered[m] + Cardinality(Carriers(m)) + Unclaimed(m) <= 1 + excused[m]

ChancesInv == \A m \in Message : ChancesOf(m)

-----------------------------------------------------------------------------
(* What a step does to a row, to a message and to a process. *)

LEMMA MessageParts ==
  /\ \A m \in Message : CauseOf(m) \in Cause /\ RowOf(m) \in Row
  /\ \A c \in Cause, R \in SUBSET Row : {c} \X R \subseteq Message
  /\ \A c \in Cause : \A R \in SUBSET Row : \A m \in {c} \X R : RowOf(m) \in R
BY DEF Message, CauseOf, RowOf

\* What a process holds and where it is stay.
SamePlace(q) ==
    /\ pc'[q] = pc[q] /\ only'[q] = only[q] /\ outAtStart'[q] = outAtStart[q]
    /\ forget'[q] = forget[q] /\ drafts'[q] = drafts[q]
    /\ claimed'[q] = claimed[q] /\ current'[q] = current[q] /\ outcome'[q] = outcome[q]

\* It holds nothing any more.
Rests(p) ==
    /\ pc'[p] = "idle" /\ only'[p] = FALSE /\ outAtStart'[p] = {}
    /\ forget'[p] = {} /\ drafts'[p] = {}
    /\ claimed'[p] = {} /\ current'[p] = NoMessage

LEMMA Stopped ==
  ASSUME FieldsOK, NEW p \in Process, Stops(p)
  PROVE  Rests(p) /\ \A q \in Process : q # p => SamePlace(q)
<1>1. /\ pc'[p] = "idle" /\ only'[p] = FALSE
      /\ \A q \in Process : q # p => pc'[q] = pc[q] /\ only'[q] = only[q]
  BY DEF Stops, To, FieldsOK
<1>2. /\ outAtStart'[p] = {} /\ forget'[p] = {} /\ drafts'[p] = {} /\ claimed'[p] = {}
      /\ \A q \in Process : q # p => /\ outAtStart'[q] = outAtStart[q] /\ forget'[q] = forget[q]
                                     /\ drafts'[q] = drafts[q] /\ claimed'[q] = claimed[q]
  BY DEF Stops, FieldsOK
<1>3. /\ current'[p] = NoMessage
      /\ \A q \in Process : q # p => current'[q] = current[q] /\ outcome'[q] = outcome[q]
  BY DEF Stops, FieldsOK
<1> QED
  BY <1>1, <1>2, <1>3 DEF Rests, SamePlace

\* With a row go its messages, and nothing else.
LEMMA OffRow ==
  ASSUME FieldsOK, NEW r \in Row, Off(r)
  PROVE  /\ state'[r] = "deleted" /\ bound'[r] = NoSession
         /\ \A q \in Row : q # r => state'[q] = state[q] /\ bound'[q] = bound[q]
         /\ \A m \in Message : IF RowOf(m) = r THEN status'[m] = "none" /\ m \notin due'
                               ELSE status'[m] = status[m] /\ (m \in due' <=> m \in due)
         /\ due' \subseteq due
         /\ state' \in [Row -> {"unused", "there", "deleted"}]
         /\ bound' \in [Row -> Session \cup {NoSession}]
         /\ status' \in [Message -> {"none", "pending", "sent", "failed"}]
         /\ attempts' \in [Message -> Nat]
<1>1. /\ state'[r] = "deleted" /\ bound'[r] = NoSession
      /\ \A q \in Row : q # r => state'[q] = state[q] /\ bound'[q] = bound[q]
      /\ state' \in [Row -> {"unused", "there", "deleted"}]
      /\ bound' \in [Row -> Session \cup {NoSession}]
  BY DEF Off, FieldsOK
<1>2. \A m \in Message : status'[m] = IF RowOf(m) = r THEN "none" ELSE status[m]
  BY DEF Off
<1>3. status' \in [Message -> {"none", "pending", "sent", "failed"}]
  BY DEF Off, FieldsOK
<1>4. attempts' \in [Message -> Nat]
  BY DEF Off, FieldsOK
<1>5. due' = {m \in due : RowOf(m) # r}
  BY DEF Off
<1> QED
  BY <1>1, <1>2, <1>3, <1>4, <1>5

\* Where a process goes, all else it holds staying.
Keeps(p) ==
    /\ only'[p] = only[p] /\ outAtStart'[p] = outAtStart[p] /\ forget'[p] = forget[p]

\* Writing makes messages wait that were not there, or fails and ends the pass.
LEMMA Written ==
  ASSUME TypeOK, NEW p \in Process, Write(p)
  PROVE  \E fresh \in SUBSET drafts[p] :
           /\ \A m \in fresh : status[m] = "none" /\ There(RowOf(m))
           /\ \A m \in Message : status'[m] = IF m \in fresh THEN "pending" ELSE status[m]
           /\ status' \in [Message -> {"none", "pending", "sent", "failed"}]
           /\ due' = due \cup fresh
           /\ \A q \in Process : q # p => SamePlace(q)
           /\ \/ Stops(p)
              \/ /\ pc'[p] = (IF only[p] THEN "claiming" ELSE "writing") /\ Keeps(p)
                 /\ drafts'[p] = (IF only[p] THEN fresh ELSE {})
                 /\ claimed' = claimed /\ current' = current
                 /\ outcome' = outcome /\ todo' = todo /\ only' = only
                 /\ outAtStart' = outAtStart /\ forget' = forget
                 /\ drafts' = [drafts EXCEPT ![p] = IF only[p] THEN fresh ELSE {}]
                 /\ pc' = [pc EXCEPT ![p] = IF only[p] THEN "claiming" ELSE "writing"]
<1>0. FieldsOK
  BY DEF TypeOK
<1>1. CASE \A m \in drafts[p] : There(RowOf(m))
  <2> DEFINE fresh == {m \in drafts[p] : status[m] = "none"}
  <2>1. /\ status' = [m \in Message |-> IF m \in fresh THEN "pending" ELSE status[m]]
        /\ due' = due \cup fresh
        /\ IF only[p] /\ fresh = {} THEN Stops(p)
           ELSE /\ To(p, IF only[p] THEN "claiming" ELSE "writing")
                /\ drafts' = [drafts EXCEPT ![p] = IF only[p] THEN fresh ELSE {}]
                /\ UNCHANGED <<only, outAtStart, forget, todo, sending>>
    BY <1>1 DEF Write
  <2>2. fresh \in SUBSET drafts[p] /\ \A m \in fresh : status[m] = "none" /\ There(RowOf(m))
    BY <1>1
  <2> HIDE DEF fresh
  <2>3. /\ status' \in [Message -> {"none", "pending", "sent", "failed"}]
        /\ \A m \in Message : status'[m] = IF m \in fresh THEN "pending" ELSE status[m]
    BY <1>0, <2>1 DEF FieldsOK
  <2>4. CASE only[p] /\ fresh = {}
    BY <1>0, <2>1, <2>2, <2>3, <2>4, Stopped
  <2>5. CASE ~(only[p] /\ fresh = {})
    <3>1. /\ pc' = [pc EXCEPT ![p] = IF only[p] THEN "claiming" ELSE "writing"]
          /\ drafts' = [drafts EXCEPT ![p] = IF only[p] THEN fresh ELSE {}]
          /\ UNCHANGED <<only, outAtStart, forget, todo, claimed, current, outcome>>
      BY <2>1, <2>5 DEF To, sending
    <3>2. /\ pc'[p] = (IF only[p] THEN "claiming" ELSE "writing")
          /\ drafts'[p] = (IF only[p] THEN fresh ELSE {})
          /\ \A q \in Process : q # p => pc'[q] = pc[q] /\ drafts'[q] = drafts[q]
      BY <1>0, <3>1 DEF FieldsOK
    <3>3. Keeps(p) /\ \A q \in Process : q # p => SamePlace(q)
      BY <3>1, <3>2 DEF Keeps, SamePlace
    <3> QED
      BY <2>1, <2>2, <2>3, <3>1, <3>2, <3>3
  <2> QED
    BY <2>4, <2>5
<1>2. CASE ~\A m \in drafts[p] : There(RowOf(m))
  <2>1. Stops(p) /\ status' = status /\ due' = due
    BY <1>2 DEF Write
  <2>2. {} \in SUBSET drafts[p]
    OBVIOUS
  <2> QED
    BY <1>0, <2>1, <2>2, Stopped DEF FieldsOK
<1> QED
  BY <1>1, <1>2

\* A claim takes what may be claimed with the session its row is bound to, and
\* gives up on what comes too late.
LEMMA ClaimTakes ==
  ASSUME TypeOK, NEW p \in Process, ClaimDue(p)
  PROVE  /\ \A x \in claimed'[p] : /\ x \in Claim /\ x.message \in Claimable(p)
                                   /\ x.session = bound[RowOf(x.message)]
         /\ \A m \in Claimable(p) : \E x \in claimed'[p] : x.message = m
         /\ \A x, y \in claimed'[p] : x.message = y.message => x = y
         /\ claimed[p] = {} /\ claimed' \in [Process -> SUBSET Claim]
         /\ attempts' \in [Message -> Nat]
         /\ status' \in [Message -> {"none", "pending", "sent", "failed"}]
         /\ \A m \in Message : status'[m] = IF m \in GivenUpLate THEN "failed" ELSE status[m]
         /\ due' = (due \ Claimable(p)) \ GivenUpLate
         /\ IF Claimable(p) = {} THEN Stops(p)
            ELSE /\ pc' = [pc EXCEPT ![p] = "sending"]
                 /\ pc'[p] = "sending" /\ claimed'[p] # {} /\ Keeps(p)
                 /\ UNCHANGED <<only, outAtStart, forget, todo, drafts, current, outcome>>
         /\ \A q \in Process : q # p => SamePlace(q)
<1> DEFINE batch == Claimable(p)
           taken == {[message |-> m, attempt |-> attempts'[m], session |-> bound[RowOf(m)]] :
                        m \in batch}
<1>0. FieldsOK
  BY DEF TypeOK
<1>1. /\ status' = [m \in Message |-> IF m \in GivenUpLate THEN "failed" ELSE status[m]]
      /\ due' = (due \ batch) \ GivenUpLate
      /\ attempts' = [m \in Message |-> IF m \in batch THEN attempts[m] + 1 ELSE attempts[m]]
      /\ IF batch = {} THEN Stops(p)
         ELSE /\ claimed' = [claimed EXCEPT ![p] = taken]
              /\ To(p, "sending") /\ UNCHANGED <<writing, current, outcome>>
      /\ pc[p] \in {"claiming", "writing"}
  BY DEF ClaimDue, LeftAlone
<1>2. batch \subseteq Message /\ \A m \in batch : status[m] = "pending"
  BY DEF Claimable
<1>3. claimed[p] = {}
  BY <1>1 DEF TypeOK, PassOK
<1>4. attempts' \in [Message -> Nat] /\ \A m \in batch : attempts'[m] \in Nat \ {0}
  <2> HIDE DEF batch
  <2> QED
    BY <1>0, <1>1, <1>2 DEF FieldsOK
<1>5. \A m \in batch : bound[RowOf(m)] \in Session
  <2>1. \A m \in batch : There(RowOf(m)) /\ RowOf(m) \in Row
    BY <1>2, MessageParts DEF TypeOK, MessagesOK
  <2> HIDE DEF batch
  <2> QED
    BY <1>0, <2>1 DEF FieldsOK, TypeOK, RowsOK
<1>6. /\ \A x \in taken : x \in Claim /\ x.message \in batch /\ x.session = bound[RowOf(x.message)]
      /\ \A m \in batch : \E x \in taken : x.message = m
      /\ \A x, y \in taken : x.message = y.message => x = y
  <2> HIDE DEF batch
  <2> DEFINE made(m) == [message |-> m, attempt |-> attempts'[m], session |-> bound[RowOf(m)]]
  <2>1. \A m \in batch : /\ made(m) \in Claim /\ made(m).message = m
                         /\ made(m).session = bound[RowOf(m)]
    BY <1>2, <1>4, <1>5 DEF Claim
  <2>2. taken = {made(m) : m \in batch}
    OBVIOUS
  <2> HIDE DEF taken, made
  <2> QED
    BY <2>1, <2>2
<1> HIDE DEF batch, taken
<1>7. /\ status' \in [Message -> {"none", "pending", "sent", "failed"}]
      /\ \A m \in Message : status'[m] = IF m \in GivenUpLate THEN "failed" ELSE status[m]
  BY <1>0, <1>1 DEF FieldsOK
<1>8. CASE batch = {}
  <2>1. claimed'[p] = {} /\ claimed' \in [Process -> SUBSET Claim]
    BY <1>0, <1>1, <1>8 DEF Stops, FieldsOK
  <2> QED
    BY <1>0, <1>1, <1>3, <1>4, <1>7, <1>8, <2>1, Stopped DEF batch
<1>9. CASE batch # {}
  <2>1. /\ claimed' = [claimed EXCEPT ![p] = taken] /\ pc' = [pc EXCEPT ![p] = "sending"]
        /\ UNCHANGED <<only, outAtStart, forget, todo, drafts, current, outcome>>
    BY <1>1, <1>9 DEF To, writing
  <2>2. /\ claimed'[p] = taken /\ claimed' \in [Process -> SUBSET Claim] /\ pc'[p] = "sending"
        /\ \A q \in Process : q # p => claimed'[q] = claimed[q] /\ pc'[q] = pc[q]
    BY <1>0, <1>6, <2>1 DEF FieldsOK
  <2>3. Keeps(p) /\ \A q \in Process : q # p => SamePlace(q)
    BY <2>1, <2>2 DEF Keeps, SamePlace
  <2>4. claimed'[p] # {}
    BY <1>6, <1>9, <2>2
  <2> QED
    BY <1>1, <1>3, <1>4, <1>6, <1>7, <1>9, <2>1, <2>2, <2>3, <2>4 DEF batch
<1> QED
  BY <1>8, <1>9

\* The push service is handed a message of the batch: it shows it, or shows it
\* and the answer is lost, or does not show it.
LEMMA Delivered ==
  ASSUME TypeOK, NEW p \in Process, Deliver(p)
  PROVE  \E x \in claimed[p], answer \in {"sent", "gone", "retry", "refused"} :
           /\ x \in Claim /\ x.message \in Message /\ pc[p] = "sending" /\ current[p] = NoMessage
           /\ pc' = [pc EXCEPT ![p] = "answered"] /\ current' = [current EXCEPT ![p] = x]
           /\ outcome' = [outcome EXCEPT ![p] = answer]
           /\ pc'[p] = "answered" /\ current'[p] = x /\ outcome'[p] = answer /\ Keeps(p)
           /\ claimed'[p] = claimed[p] /\ drafts'[p] = drafts[p]
           /\ \A q \in Process : q # p => SamePlace(q)
           /\ \/ /\ answer = "sent" /\ UNCHANGED <<excused, mishaps>>
                 /\ delivered' = [delivered EXCEPT ![x.message] = @ + 1]
              \/ /\ answer = "retry" /\ Mishap
                 /\ delivered' = [delivered EXCEPT ![x.message] = @ + 1]
                 /\ excused' = [excused EXCEPT ![x.message] = @ + 1]
              \/ answer # "sent" /\ UNCHANGED <<delivered, excused, mishaps>>
<1>0. FieldsOK
  BY DEF TypeOK
<1>1. PICK x \in claimed[p], answer \in {"sent", "gone", "retry", "refused"} :
        /\ current' = [current EXCEPT ![p] = x] /\ outcome' = [outcome EXCEPT ![p] = answer]
        /\ \/ /\ answer = "sent" /\ UNCHANGED <<excused, mishaps>>
              /\ delivered' = [delivered EXCEPT ![x.message] = @ + 1]
           \/ /\ answer = "retry" /\ Mishap
              /\ delivered' = [delivered EXCEPT ![x.message] = @ + 1]
              /\ excused' = [excused EXCEPT ![x.message] = @ + 1]
           \/ answer # "sent" /\ UNCHANGED <<delivered, excused, mishaps>>
  BY DEF Deliver
<1>2. /\ pc' = [pc EXCEPT ![p] = "answered"] /\ pc[p] = "sending"
      /\ UNCHANGED <<only, outAtStart, forget, todo, drafts, claimed>>
  BY DEF Deliver, To, writing
<1>3. x \in Claim /\ x.message \in Message /\ current[p] = NoMessage
  BY <1>0, <1>2 DEF FieldsOK, TypeOK, PassOK, Claim
<1>4. /\ pc'[p] = "answered" /\ current'[p] = x /\ outcome'[p] = answer
      /\ \A q \in Process : q # p => pc'[q] = pc[q] /\ current'[q] = current[q]
                                     /\ outcome'[q] = outcome[q]
  BY <1>0, <1>1, <1>2 DEF FieldsOK
<1>5. Keeps(p) /\ claimed'[p] = claimed[p] /\ drafts'[p] = drafts[p]
      /\ \A q \in Process : q # p => SamePlace(q)
  BY <1>2, <1>4 DEF Keeps, SamePlace
<1> QED
  BY <1>1, <1>2, <1>3, <1>4, <1>5

\* Marking touches one message or takes off its row, and the pass goes on or is
\* through.
LEMMA MarkedAs ==
  ASSUME TypeOK, NEW p \in Process, Mark(p)
  PROVE  LET x == current[p]
             m == x.message
         IN  /\ x \in claimed[p] /\ m \in Message /\ RowOf(m) \in Row
             /\ \/ outcome[p] # "sent" /\ There(RowOf(m)) /\ Off(RowOf(m))
                \/ /\ UNCHANGED <<state, bound, attempts>>
                   /\ status' \in [Message -> {"none", "pending", "sent", "failed"}]
                   /\ \A n \in Message : n # m => status'[n] = status[n]
                   /\ status[m] = "none" => status'[m] = "none"
                   /\ due' \subseteq due /\ \A n \in Message : n # m => (n \in due' <=> n \in due)
                   /\ m \notin due'
                   /\ outcome[p] = "sent" => status'[m] \in {"none", "sent"}
                   /\ status'[m] = "none" => status[m] = "none"
             /\ claimed'[p] = claimed[p] \ {x} /\ current'[p] = NoMessage
             /\ \/ Stops(p) /\ claimed[p] = {x}
                \/ /\ Keeps(p) /\ drafts'[p] = drafts[p] /\ pc'[p] = "sending"
                   /\ claimed'[p] # {}
                   /\ claimed' = [claimed EXCEPT ![p] = @ \ {x}]
                   /\ current' = [current EXCEPT ![p] = NoMessage]
                   /\ outcome' = [outcome EXCEPT ![p] = "none"]
                   /\ pc' = [pc EXCEPT ![p] = "sending"]
                   /\ UNCHANGED <<only, outAtStart, forget, todo, drafts>>
             /\ \A q \in Process : q # p => SamePlace(q)
<1> DEFINE x == current[p]
           m == x.message
<1>0. FieldsOK /\ MessagesOK
  BY DEF TypeOK
<1>1. pc[p] = "answered" /\ x \in claimed[p] /\ x \in Claim /\ m \in Message /\ RowOf(m) \in Row
  <2>1. pc[p] = "answered" /\ x \in claimed[p]
    BY DEF Mark, TypeOK, PassOK
  <2>2. x \in Claim /\ m \in Message
    BY <1>0, <2>1 DEF FieldsOK, Claim
  <2> QED
    BY <2>1, <2>2, MessageParts
<1>2. \/ outcome[p] # "sent" /\ There(RowOf(m)) /\ Off(RowOf(m))
      \/ outcome[p] # "sent" /\ ~There(RowOf(m)) /\ UNCHANGED <<state, bound, outbox>>
      \/ \E s \in {"sent", "failed", "pending"} :
            /\ status' = IF status[m] = "none" THEN status ELSE [status EXCEPT ![m] = s]
            /\ due' = due \ {m} /\ UNCHANGED <<state, bound, attempts>>
            /\ outcome[p] = "sent" => s = "sent"
  BY DEF Mark
<1>3. \/ outcome[p] # "sent" /\ There(RowOf(m)) /\ Off(RowOf(m))
      \/ /\ UNCHANGED <<state, bound, attempts>>
         /\ status' \in [Message -> {"none", "pending", "sent", "failed"}]
         /\ \A n \in Message : n # m => status'[n] = status[n]
         /\ status[m] = "none" => status'[m] = "none"
         /\ due' \subseteq due /\ \A n \in Message : n # m => (n \in due' <=> n \in due)
         /\ m \notin due'
         /\ outcome[p] = "sent" => status'[m] \in {"none", "sent"}
         /\ status'[m] = "none" => status[m] = "none"
  <2>1. CASE outcome[p] # "sent" /\ ~There(RowOf(m)) /\ UNCHANGED <<state, bound, outbox>>
    <3>1. m \notin due
      BY <1>0, <1>1, <2>1 DEF MessagesOK
    <3> QED
      BY <1>0, <2>1, <3>1 DEF outbox, FieldsOK
  <2>2. ASSUME NEW s \in {"sent", "failed", "pending"},
               status' = IF status[m] = "none" THEN status ELSE [status EXCEPT ![m] = s],
               due' = due \ {m}, outcome[p] = "sent" => s = "sent",
               UNCHANGED <<state, bound, attempts>>
        PROVE  /\ UNCHANGED <<state, bound, attempts>>
               /\ status' \in [Message -> {"none", "pending", "sent", "failed"}]
               /\ \A n \in Message : n # m => status'[n] = status[n]
               /\ status[m] = "none" => status'[m] = "none"
               /\ due' \subseteq due /\ \A n \in Message : n # m => (n \in due' <=> n \in due)
               /\ m \notin due'
               /\ outcome[p] = "sent" => status'[m] \in {"none", "sent"}
               /\ status'[m] = "none" => status[m] = "none"
    <3> HIDE DEF m
    <3>1. CASE status[m] = "none"
      BY <1>0, <2>2, <3>1 DEF FieldsOK
    <3>2. CASE status[m] # "none"
      BY <1>0, <1>1, <2>2, <3>2 DEF FieldsOK
    <3> QED
      BY <3>1, <3>2
  <2> QED
    BY <1>2, <2>1, <2>2
<1>4. CASE claimed[p] = {x}
  <2>1. Stops(p)
    BY <1>4 DEF Mark
  <2> QED
    BY <1>0, <1>1, <1>3, <1>4, <2>1, Stopped DEF Rests
<1>5. CASE claimed[p] # {x}
  <2>1. /\ claimed' = [claimed EXCEPT ![p] = @ \ {x}]
        /\ current' = [current EXCEPT ![p] = NoMessage]
        /\ outcome' = [outcome EXCEPT ![p] = "none"]
        /\ pc' = [pc EXCEPT ![p] = "sending"]
        /\ UNCHANGED <<only, outAtStart, forget, todo, drafts>>
    BY <1>5 DEF Mark, To, writing
  <2> HIDE DEF m, x
  <2>2. /\ claimed'[p] = claimed[p] \ {x} /\ current'[p] = NoMessage /\ pc'[p] = "sending"
        /\ \A q \in Process : q # p => /\ claimed'[q] = claimed[q] /\ current'[q] = current[q]
                                       /\ outcome'[q] = outcome[q] /\ pc'[q] = pc[q]
    BY <1>0, <2>1 DEF FieldsOK
  <2>3. claimed'[p] # {}
    BY <1>1, <1>5, <2>2
  <2>4. Keeps(p) /\ drafts'[p] = drafts[p] /\ \A q \in Process : q # p => SamePlace(q)
    BY <2>1, <2>2 DEF Keeps, SamePlace
  <2> QED
    BY <1>1, <1>3, <2>1, <2>2, <2>3, <2>4 DEF m, x
<1> QED
  BY <1>4, <1>5

\* The steps of a pass up to its claim, and its end.
LEMMA Began ==
  ASSUME FieldsOK, NEW p \in Process, Begin(p)
  PROVE  /\ pc[p] = "idle" /\ pc'[p] = "forgetting" /\ only'[p] = only[p]
         /\ forget'[p] = {r \in Row : SignedOut(r)} /\ outAtStart'[p] = OutNow
         /\ drafts'[p] = drafts[p] /\ claimed'[p] = claimed[p] /\ current'[p] = current[p]
         /\ \A q \in Process : q # p => SamePlace(q)
BY DEF Begin, To, sending, FieldsOK, SamePlace

LEMMA Forgot ==
  ASSUME FieldsOK, NEW p \in Process, NEW r \in Row, Forget(p, r)
  PROVE  /\ pc[p] = "forgetting" /\ pc'[p] = pc[p] /\ only'[p] = only[p]
         /\ forget'[p] = forget[p] \ {r} /\ outAtStart'[p] = outAtStart[p]
         /\ drafts'[p] = drafts[p] /\ claimed'[p] = claimed[p] /\ current'[p] = current[p]
         /\ outcome'[p] = outcome[p]
         /\ \A q \in Process : q # p => SamePlace(q)
<1>1. forget' = [forget EXCEPT ![p] = @ \ {r}] /\ pc[p] = "forgetting"
      /\ UNCHANGED <<pc, only, outAtStart, drafts, claimed, current, outcome>>
  BY DEF Forget, sending
<1>2. forget'[p] = forget[p] \ {r} /\ \A q \in Process : q # p => forget'[q] = forget[q]
  BY <1>1 DEF FieldsOK
<1> QED
  BY <1>1, <1>2 DEF SamePlace

LEMMA HasForgotten ==
  ASSUME FieldsOK, NEW p \in Process, Forgotten(p)
  PROVE  /\ pc[p] = "forgetting" /\ pc'[p] = "writing" /\ Keeps(p) /\ forget[p] = {}
         /\ drafts'[p] = drafts[p] /\ claimed'[p] = claimed[p] /\ current'[p] = current[p]
         /\ \A q \in Process : q # p => SamePlace(q)
BY DEF Forgotten, To, sending, FieldsOK, SamePlace, Keeps

LEMMA Drafted ==
  ASSUME FieldsOK, NEW p \in Process, NEW c \in Cause, Draft(p, c)
  PROVE  /\ pc[p] = "writing" /\ pc'[p] = "drafted" /\ Keeps(p)
         /\ claimed'[p] = claimed[p] /\ current'[p] = current[p]
         /\ \A q \in Process : q # p => SamePlace(q)
BY DEF Draft, To, sending, FieldsOK, SamePlace, Keeps

LEMMA TestSent ==
  ASSUME FieldsOK, NEW p \in Process, NEW c \in Cause, SendTest(p, c)
  PROVE  /\ pc[p] = "idle" /\ pc'[p] = "drafted" /\ only'[p] = TRUE
         /\ outAtStart'[p] = OutNow /\ forget'[p] = forget[p]
         /\ \A m \in drafts'[p] : RowOf(m) \in SignedInOf(PersonFor[c])
         /\ claimed'[p] = claimed[p] /\ current'[p] = current[p]
         /\ \A q \in Process : q # p => SamePlace(q)
<1> DEFINE new == {c} \X SignedInOf(PersonFor[c])
<1>1. \A m \in new : RowOf(m) \in SignedInOf(PersonFor[c])
  BY DEF RowOf
<1>2. /\ pc' = [pc EXCEPT ![p] = "drafted"] /\ pc[p] = "idle"
      /\ only' = [only EXCEPT ![p] = TRUE]
      /\ outAtStart' = [outAtStart EXCEPT ![p] = OutNow]
      /\ drafts' = [drafts EXCEPT ![p] = new]
      /\ UNCHANGED <<forget, claimed, current, outcome>>
  BY DEF SendTest, To, sending
<1> HIDE DEF new
<1>3. /\ pc'[p] = "drafted" /\ only'[p] = TRUE /\ outAtStart'[p] = OutNow /\ drafts'[p] = new
      /\ \A q \in Process : q # p => /\ pc'[q] = pc[q] /\ only'[q] = only[q]
                                     /\ outAtStart'[q] = outAtStart[q] /\ drafts'[q] = drafts[q]
  BY <1>2 DEF FieldsOK
<1> QED
  BY <1>1, <1>2, <1>3 DEF SamePlace

-----------------------------------------------------------------------------
(* Types. *)

LEMMA NextFieldsOK == TypeOK /\ [Next]_vars => FieldsOK'
<1> SUFFICES ASSUME TypeOK, [Next]_vars PROVE FieldsOK'
  OBVIOUS
<1> USE PushOutboxAssumption DEF FieldsOK
<1>1. FieldsOK
  BY DEF TypeOK
<1>2. ASSUME NEW s \in Session, SignIn(s) \/ SignOut(s) PROVE FieldsOK'
  BY <1>1, <1>2 DEF SignIn, SignOut, causes, outbox, writing, sending, history
<1>3. ASSUME NEW s \in Session, Subscribe(s) PROVE FieldsOK'
  <2>1. PICK r \in Row : bound' = [bound EXCEPT ![r] = s]
                         /\ (state' = state \/ state' = [state EXCEPT ![r] = "there"])
    BY <1>3 DEF Subscribe, RowsOf
  <2>2. /\ bound' \in [Row -> Session \cup {NoSession}]
        /\ state' \in [Row -> {"unused", "there", "deleted"}]
    BY <1>1, <2>1
  <2> QED
    BY <1>1, <1>3, <2>2 DEF Subscribe, causes, outbox, writing, sending, history
<1>4. ASSUME NEW r \in Row, Unsubscribe(r) PROVE FieldsOK'
  BY <1>1, <1>4, OffRow DEF Unsubscribe, causes, writing, sending, history
<1>5. ASSUME NEW c \in Cause, Raise(c) \/ Expire(c) PROVE FieldsOK'
  BY <1>1, <1>5 DEF Raise, Expire, devices, outbox, writing, sending, history
<1>6. ASSUME NEW m \in Message, ComesDue(m) PROVE FieldsOK'
  <2>1. excused' \in [Message -> Nat] /\ mishaps' \in 0 .. MaxMishaps
    <3>1. CASE Held(m)
      BY <1>1, <1>6, <3>1 DEF ComesDue, Mishap
    <3>2. CASE ~Held(m)
      BY <1>1, <1>6, <3>2 DEF ComesDue
    <3> QED
      BY <3>1, <3>2
  <2> QED
    BY <1>1, <1>6, <2>1 DEF ComesDue, devices, causes, writing, sending
<1>7. ASSUME NEW p \in Process, Stops(p)
      PROVE  /\ pc' \in [Process -> {"idle", "forgetting", "writing", "drafted", "claiming",
                                     "sending", "answered"}]
             /\ only' \in [Process -> BOOLEAN] /\ outAtStart' \in [Process -> SUBSET Session]
             /\ forget' \in [Process -> SUBSET Row] /\ todo' \in [Process -> SUBSET Cause]
             /\ drafts' \in [Process -> SUBSET Message] /\ claimed' \in [Process -> SUBSET Claim]
             /\ current' \in [Process -> Claim \cup {NoMessage}]
             /\ outcome' \in [Process -> {"none", "sent", "gone", "retry", "refused"}]
  BY <1>1, <1>7 DEF Stops, To
<1>8. ASSUME NEW p \in Process, Begin(p) PROVE FieldsOK'
  <2>1. pc' \in [Process -> {"idle", "forgetting", "writing", "drafted", "claiming", "sending",
                             "answered"}]
    BY <1>1, <1>8 DEF Begin, To
  <2>2. forget' \in [Process -> SUBSET Row] /\ outAtStart' \in [Process -> SUBSET Session]
    BY <1>1, <1>8 DEF Begin, OutNow
  <2> QED
    BY <1>1, <1>8, <2>1, <2>2 DEF Begin, devices, causes, outbox, sending, history
<1>9. ASSUME NEW p \in Process, NEW r \in Row, Forget(p, r) PROVE FieldsOK'
  <2>1. forget' \in [Process -> SUBSET Row]
    BY <1>1, <1>9 DEF Forget
  <2>2. CASE There(r)
    BY <1>1, <1>9, <2>1, <2>2, OffRow DEF Forget, causes, sending, history
  <2>3. CASE ~There(r)
    BY <1>1, <1>9, <2>1, <2>3 DEF Forget, causes, outbox, sending, history
  <2> QED
    BY <2>2, <2>3
<1>10. ASSUME NEW p \in Process, Forgotten(p) PROVE FieldsOK'
  <2>1. /\ pc' \in [Process -> {"idle", "forgetting", "writing", "drafted", "claiming", "sending",
                                "answered"}]
        /\ todo' \in [Process -> SUBSET Cause]
    BY <1>1, <1>10 DEF Forgotten, To
  <2> QED
    BY <1>1, <1>10, <2>1 DEF Forgotten, devices, causes, outbox, sending, history
<1>11. ASSUME NEW p \in Process, NEW c \in Cause
       PROVE  {c} \X SignedInOf(PersonFor[c]) \in SUBSET Message
  BY MessageParts DEF SignedInOf
<1>12. ASSUME NEW p \in Process, NEW c \in Cause, Draft(p, c) PROVE FieldsOK'
  <2>1. /\ pc' \in [Process -> {"idle", "forgetting", "writing", "drafted", "claiming", "sending",
                                "answered"}]
        /\ todo' \in [Process -> SUBSET Cause]
    BY <1>1, <1>12 DEF Draft, To
  <2>2. drafts' \in [Process -> SUBSET Message]
    <3> DEFINE new == {c} \X SignedInOf(PersonFor[c])
    <3>1. drafts' = [drafts EXCEPT ![p] = new] /\ new \in SUBSET Message
      BY <1>11, <1>12 DEF Draft
    <3> HIDE DEF new
    <3> QED
      BY <1>1, <3>1
  <2> QED
    BY <1>1, <1>12, <2>1, <2>2 DEF Draft, devices, causes, outbox, sending, history
<1>13. ASSUME NEW p \in Process, NEW c \in Cause, SendTest(p, c) PROVE FieldsOK'
  <2>1. /\ pc' \in [Process -> {"idle", "forgetting", "writing", "drafted", "claiming", "sending",
                                "answered"}]
        /\ only' \in [Process -> BOOLEAN]
    BY <1>1, <1>13 DEF SendTest, To
  <2>2. drafts' \in [Process -> SUBSET Message]
    <3> DEFINE new == {c} \X SignedInOf(PersonFor[c])
    <3>1. drafts' = [drafts EXCEPT ![p] = new] /\ new \in SUBSET Message
      BY <1>11, <1>13 DEF SendTest
    <3> HIDE DEF new
    <3> QED
      BY <1>1, <3>1
  <2>3. outAtStart' \in [Process -> SUBSET Session]
    BY <1>1, <1>13 DEF SendTest, OutNow
  <2>4. raised' \subseteq Cause /\ tests' \subseteq raised' /\ expired' \subseteq raised'
    BY <1>1, <1>13 DEF SendTest
  <2> QED
    BY <1>1, <1>13, <2>1, <2>2, <2>3, <2>4 DEF SendTest, devices, outbox, sending, history
<1>14. ASSUME NEW p \in Process, Write(p) PROVE FieldsOK'
  <2>1. PICK fresh \in SUBSET drafts[p] :
          /\ status' \in [Message -> {"none", "pending", "sent", "failed"}]
          /\ due' = due \cup fresh
          /\ \/ Stops(p)
             \/ /\ claimed' = claimed /\ current' = current
                /\ outcome' = outcome /\ todo' = todo /\ only' = only
                /\ outAtStart' = outAtStart /\ forget' = forget
                /\ drafts' = [drafts EXCEPT ![p] = IF only[p] THEN fresh ELSE {}]
                /\ pc' = [pc EXCEPT ![p] = IF only[p] THEN "claiming" ELSE "writing"]
    BY <1>14, Written
  <2>2. due' \subseteq Message
    BY <1>1, <2>1
  <2>3. UNCHANGED <<session, state, bound, raised, tests, expired, attempts, delivered, excused,
                    mishaps>>
    BY <1>14 DEF Write, devices, causes, history
  <2>4. CASE Stops(p)
    BY <1>1, <1>7, <2>1, <2>2, <2>3, <2>4
  <2>5. CASE ~Stops(p)
    <3>1. drafts' \in [Process -> SUBSET Message]
      BY <1>1, <2>1, <2>5
    <3>2. pc' \in [Process -> {"idle", "forgetting", "writing", "drafted", "claiming", "sending",
                               "answered"}]
      BY <1>1, <2>1, <2>5
    <3> QED
      BY <1>1, <2>1, <2>2, <2>3, <2>5, <3>1, <3>2
  <2> QED
    BY <2>4, <2>5
<1>15. ASSUME NEW p \in Process, ClaimDue(p) PROVE FieldsOK'
  <2>1. /\ claimed' \in [Process -> SUBSET Claim]
        /\ attempts' \in [Message -> Nat] /\ due' \subseteq due
        /\ status' \in [Message -> {"none", "pending", "sent", "failed"}]
        /\ \/ Stops(p)
           \/ /\ pc' = [pc EXCEPT ![p] = "sending"]
              /\ UNCHANGED <<only, outAtStart, forget, todo, drafts, current, outcome>>
    BY <1>15, ClaimTakes
  <2>2. UNCHANGED <<session, state, bound, raised, tests, expired, delivered, excused, mishaps>>
    BY <1>15 DEF ClaimDue, devices, causes, history
  <2>3. CASE Stops(p)
    BY <1>1, <1>7, <2>1, <2>2, <2>3
  <2>4. CASE ~Stops(p)
    BY <1>1, <2>1, <2>2, <2>4
  <2> QED
    BY <2>3, <2>4
<1>16. ASSUME NEW p \in Process, Deliver(p) PROVE FieldsOK'
  <2>1. PICK x \in Claim, answer \in {"sent", "gone", "retry", "refused"} :
          /\ pc' = [pc EXCEPT ![p] = "answered"] /\ current' = [current EXCEPT ![p] = x]
          /\ outcome' = [outcome EXCEPT ![p] = answer] /\ x.message \in Message
          /\ \/ /\ UNCHANGED <<excused, mishaps>>
                /\ delivered' = [delivered EXCEPT ![x.message] = @ + 1]
             \/ /\ Mishap
                /\ delivered' = [delivered EXCEPT ![x.message] = @ + 1]
                /\ excused' = [excused EXCEPT ![x.message] = @ + 1]
             \/ UNCHANGED <<delivered, excused, mishaps>>
    BY <1>16, Delivered
  <2>2. /\ pc' \in [Process -> {"idle", "forgetting", "writing", "drafted", "claiming", "sending",
                                "answered"}]
        /\ current' \in [Process -> Claim \cup {NoMessage}]
        /\ outcome' \in [Process -> {"none", "sent", "gone", "retry", "refused"}]
    BY <1>1, <2>1
  <2>3. delivered' \in [Message -> Nat]
    BY <1>1, <2>1, SMTT(30)
  <2>4. excused' \in [Message -> Nat]
    BY <1>1, <2>1
  <2>5. mishaps' \in 0 .. MaxMishaps
    BY <1>1, <2>1 DEF Mishap
  <2>6. UNCHANGED <<session, state, bound, raised, tests, expired, status, attempts, due,
                    only, outAtStart, forget, todo, drafts, claimed>>
    BY <1>16 DEF Deliver, devices, causes, outbox, writing
  <2> QED
    BY <1>1, <2>2, <2>3, <2>4, <2>5, <2>6
<1>17. ASSUME NEW p \in Process, Mark(p) PROVE FieldsOK'
  <2>1. UNCHANGED <<session, raised, tests, expired, delivered, excused, mishaps>>
    BY <1>17 DEF Mark, causes, history
  <2>2. /\ state' \in [Row -> {"unused", "there", "deleted"}]
        /\ bound' \in [Row -> Session \cup {NoSession}]
        /\ status' \in [Message -> {"none", "pending", "sent", "failed"}]
        /\ attempts' \in [Message -> Nat] /\ due' \subseteq Message
    <3>1. CASE \E r \in Row : Off(r)
      BY <1>1, <3>1, OffRow
    <3>2. CASE ~\E r \in Row : Off(r)
      <4>1. /\ UNCHANGED <<state, bound, attempts>> /\ due' \subseteq due
            /\ status' \in [Message -> {"none", "pending", "sent", "failed"}]
        BY <1>17, <3>2, MarkedAs
      <4> QED
        BY <1>1, <4>1
    <3> QED
      BY <3>1, <3>2
  <2>3. CASE Stops(p)
    BY <1>1, <1>7, <2>1, <2>2, <2>3
  <2>4. CASE ~Stops(p)
    <3>1. /\ claimed' = [claimed EXCEPT ![p] = @ \ {current[p]}]
          /\ current' = [current EXCEPT ![p] = NoMessage]
          /\ outcome' = [outcome EXCEPT ![p] = "none"]
          /\ pc' = [pc EXCEPT ![p] = "sending"]
          /\ UNCHANGED <<only, outAtStart, forget, todo, drafts>>
      BY <1>17, <2>4, MarkedAs
    <3>2. /\ claimed' \in [Process -> SUBSET Claim]
          /\ current' \in [Process -> Claim \cup {NoMessage}]
          /\ outcome' \in [Process -> {"none", "sent", "gone", "retry", "refused"}]
          /\ pc' \in [Process -> {"idle", "forgetting", "writing", "drafted", "claiming",
                                  "sending", "answered"}]
      BY <1>1, <3>1
    <3> QED
      BY <1>1, <2>1, <2>2, <3>1, <3>2
  <2> QED
    BY <2>3, <2>4
<1>18. ASSUME NEW p \in Process, ProcessEnds(p) PROVE FieldsOK'
  <2>1. excused' \in [Message -> Nat] /\ mishaps' \in 0 .. MaxMishaps
    BY <1>1, <1>18 DEF ProcessEnds, Mishap
  <2> QED
    BY <1>1, <1>7, <1>18, <2>1 DEF ProcessEnds, devices, causes, outbox
<1>19. CASE UNCHANGED vars
  BY <1>1, <1>19 DEF vars, devices, causes, outbox, writing, sending, history
<1> HIDE DEF FieldsOK
<1>20. ASSUME NEW p \in Process, Run(p) PROVE FieldsOK'
  BY <1>8, <1>9, <1>10, <1>12, <1>14, <1>15, <1>16, <1>17, <1>20 DEF Run
<1> QED
  BY <1>2, <1>3, <1>4, <1>5, <1>6, <1>13, <1>18, <1>19, <1>20 DEF Next

\* What goes on outside of passes touches none of them.
LEMMA Outside ==
  ASSUME [Next]_vars
  PROVE  \/ \E p \in Process : Run(p) \/ ProcessEnds(p) \/ \E c \in Cause : SendTest(p, c)
         \/ UNCHANGED <<pc, only, outAtStart, forget, drafts, claimed, current, outcome>>
BY DEF Next, SignIn, SignOut, Subscribe, Unsubscribe, Raise, Expire, ComesDue, vars, writing, sending

\* Every row that is there has a session, and every telephone one row.
LEMMA NextRowsOK == TypeOK /\ [Next]_vars => RowsOK'
<1> SUFFICES ASSUME TypeOK, [Next]_vars PROVE RowsOK'
  OBVIOUS
<1> USE PushOutboxAssumption
<1>0. FieldsOK /\ RowsOK
  BY DEF TypeOK
<1>1. CASE UNCHANGED <<state, bound>>
  BY <1>0, <1>1 DEF RowsOK, There
<1>2. ASSUME NEW r \in Row, Off(r) PROVE RowsOK'
  <2>1. /\ state'[r] = "deleted" /\ bound'[r] = NoSession
        /\ \A q \in Row : q # r => state'[q] = state[q] /\ bound'[q] = bound[q]
    BY <1>0, <1>2, OffRow
  <2>2. \A q \in Row : There(q)' <=> There(q) /\ q # r
    BY <2>1 DEF There
  <2>3. \A q \in Row : There(q)' <=> bound'[q] # NoSession
    BY <1>0, <2>1, <2>2 DEF RowsOK
  <2> QED
    BY <1>0, <2>1, <2>2, <2>3 DEF RowsOK
<1>3. ASSUME NEW s \in Session, Subscribe(s) PROVE RowsOK'
  <2>1. PICK r \in Row :
          /\ bound' = [bound EXCEPT ![r] = s]
          /\ \/ /\ There(r) /\ TelephoneOf[bound[r]] = TelephoneOf[s] /\ state' = state
             \/ /\ \A q \in Row : There(q) => TelephoneOf[bound[q]] # TelephoneOf[s]
                /\ state' = [state EXCEPT ![r] = "there"]
    BY <1>3 DEF Subscribe, RowsOf
  <2>2. /\ bound'[r] = s /\ state'[r] = "there" /\ s # NoSession
        /\ \A q \in Row : q # r => state'[q] = state[q] /\ bound'[q] = bound[q]
    BY <1>0, <2>1 DEF FieldsOK, There
  <2>3. \A q \in Row : q # r /\ There(q) => TelephoneOf[bound[q]] # TelephoneOf[s]
    BY <1>0, <2>1 DEF RowsOK
  <2>4. There(r)' /\ \A q \in Row : q # r => (There(q)' <=> There(q))
    BY <2>2 DEF There
  <2>5. \A q \in Row : There(q)' <=> bound'[q] # NoSession
    BY <1>0, <2>2, <2>4 DEF RowsOK
  <2>6. ASSUME NEW q \in Row, NEW u \in Row, There(q)', There(u)',
               TelephoneOf[bound'[q]] = TelephoneOf[bound'[u]]
        PROVE  q = u
    <3>1. CASE q # r /\ u # r
      BY <1>0, <2>2, <2>4, <2>6, <3>1 DEF RowsOK
    <3>2. CASE q = r \/ u = r
      BY <2>2, <2>3, <2>4, <2>6, <3>2
    <3> QED
      BY <3>1, <3>2
  <2> QED
    BY <2>5, <2>6 DEF RowsOK
<1>4. ASSUME NEW p \in Process, Run(p) PROVE RowsOK'
  <2>1. CASE Mark(p)
    BY <1>1, <1>2, <2>1, MarkedAs
  <2>2. CASE \E r \in Row : Forget(p, r)
    BY <1>1, <1>2, <2>2 DEF Forget
  <2> QED
    BY <1>1, <1>4, <2>1, <2>2
    DEF Run, Begin, Forgotten, Write, ClaimDue, Deliver, Draft, devices
<1> QED
  BY <1>1, <1>2, <1>3, <1>4
  DEF Next, SignIn, SignOut, Unsubscribe, Raise, Expire, ComesDue, SendTest, ProcessEnds, vars, devices

\* Messages wait only while their row is there.
LEMMA NextMessagesOK == TypeOK /\ [Next]_vars => MessagesOK'
<1> SUFFICES ASSUME TypeOK, [Next]_vars PROVE MessagesOK'
  OBVIOUS
<1>0. FieldsOK /\ MessagesOK
  BY DEF TypeOK
<1>1. CASE UNCHANGED <<state, status, due>>
  BY <1>0, <1>1 DEF MessagesOK, There
<1>2. ASSUME NEW r \in Row, Off(r) PROVE MessagesOK'
  <2>1. /\ \A q \in Row : q # r => state'[q] = state[q]
        /\ \A m \in Message : IF RowOf(m) = r THEN status'[m] = "none" /\ m \notin due'
                              ELSE status'[m] = status[m] /\ (m \in due' <=> m \in due)
        /\ due' \subseteq due
    BY <1>0, <1>2, OffRow
  <2>2. due \subseteq Message
    BY <1>0 DEF FieldsOK
  <2> QED
    BY <1>0, <2>1, <2>2, MessageParts DEF MessagesOK, There
<1>3. ASSUME NEW s \in Session, Subscribe(s) PROVE MessagesOK'
  <2>1. PICK r \in Row : state' = state \/ state' = [state EXCEPT ![r] = "there"]
    BY <1>3 DEF Subscribe, RowsOf
  <2>2. \A q \in Row : There(q) => There(q)'
    BY <1>0, <2>1 DEF FieldsOK, There
  <2>3. status' = status /\ due' = due
    BY <1>3 DEF Subscribe, outbox
  <2> QED
    BY <1>0, <2>2, <2>3, MessageParts DEF MessagesOK
<1>4. ASSUME NEW m \in Message, ComesDue(m) PROVE MessagesOK'
  BY <1>0, <1>4 DEF ComesDue, MessagesOK, There, devices
<1>5. ASSUME NEW p \in Process, Write(p) PROVE MessagesOK'
  <2>1. PICK fresh \in SUBSET drafts[p] :
          /\ \A m \in fresh : status[m] = "none" /\ There(RowOf(m))
          /\ \A m \in Message : status'[m] = IF m \in fresh THEN "pending" ELSE status[m]
          /\ due' = due \cup fresh
    BY <1>5, Written
  <2>2. fresh \subseteq Message /\ due \subseteq Message
    BY <1>0, <2>1 DEF FieldsOK
  <2>3. state' = state
    BY <1>5 DEF Write, devices
  <2> QED
    BY <1>0, <2>1, <2>2, <2>3 DEF MessagesOK, There
<1>6. ASSUME NEW p \in Process, ClaimDue(p) PROVE MessagesOK'
  <2>1. /\ \A m \in Message : status'[m] = IF m \in GivenUpLate THEN "failed" ELSE status[m]
        /\ due' = (due \ Claimable(p)) \ GivenUpLate
    BY <1>6, ClaimTakes
  <2>2. state' = state /\ due \subseteq Message
    BY <1>0, <1>6 DEF ClaimDue, devices, FieldsOK
  <2>3. \A m \in GivenUpLate : status[m] = "pending"
    BY DEF GivenUpLate
  <2> QED
    BY <1>0, <2>1, <2>2, <2>3 DEF MessagesOK, There
<1>7. ASSUME NEW p \in Process, Mark(p) PROVE MessagesOK'
  <2> DEFINE m == current[p].message
  <2>1. CASE \E r \in Row : Off(r)
    BY <1>2, <2>1
  <2>2. CASE ~\E r \in Row : Off(r)
    <3>1. /\ state' = state
          /\ \A n \in Message : n # m => status'[n] = status[n]
          /\ status[m] = "none" => status'[m] = "none"
          /\ due' \subseteq due /\ m \notin due' /\ m \in Message
      BY <1>7, <2>2, MarkedAs
    <3>2. due \subseteq Message
      BY <1>0 DEF FieldsOK
    <3> HIDE DEF m
    <3> QED
      BY <1>0, <3>1, <3>2 DEF MessagesOK, There
  <2> QED
    BY <2>1, <2>2
<1>8. ASSUME NEW p \in Process, Run(p) PROVE MessagesOK'
  <2>1. CASE \E r \in Row : Forget(p, r)
    BY <1>1, <1>2, <2>1 DEF Forget, outbox
  <2> QED
    BY <1>1, <1>5, <1>6, <1>7, <1>8, <2>1 DEF Run, Begin, Forgotten, Deliver, Draft, devices, outbox
<1> QED
  BY <1>1, <1>2, <1>3, <1>4, <1>8
  DEF Next, SignIn, SignOut, Unsubscribe, Raise, Expire, SendTest, ProcessEnds, vars, devices, outbox

\* A process holds claims while it sends, and has one handed over at a time.
LEMMA NextPassOK == TypeOK /\ [Next]_vars => PassOK'
<1> SUFFICES ASSUME TypeOK, [Next]_vars PROVE PassOK'
  OBVIOUS
<1> DEFINE PlaceOK(p) ==
        /\ claimed[p] # {} <=> pc[p] \in {"sending", "answered"}
        /\ \A x, y \in claimed[p] : x.message = y.message => x = y
        /\ current[p] # NoMessage <=> pc[p] = "answered"
        /\ pc[p] = "answered" => current[p] \in claimed[p]
        /\ only[p] => pc[p] \in {"drafted", "claiming", "sending", "answered"}
        /\ pc[p] = "claiming" => only[p]
        /\ forget[p] # {} => pc[p] = "forgetting"
<1>0. FieldsOK /\ PassOK /\ \A p \in Process : PlaceOK(p)
  BY DEF TypeOK, PassOK
<1>1. CASE UNCHANGED <<pc, only, outAtStart, forget, drafts, claimed, current, outcome>>
  BY <1>0, <1>1 DEF PassOK
<1>2. ASSUME NEW p \in Process, PlaceOK(p)', \A q \in Process : q # p => SamePlace(q)
      PROVE  PassOK'
  BY <1>0, <1>2 DEF PassOK, SamePlace
<1>3. ASSUME NEW p \in Process, Rests(p), \A q \in Process : q # p => SamePlace(q) PROVE PassOK'
  BY <1>2, <1>3 DEF Rests
<1>4. ASSUME NEW p \in Process, Begin(p) PROVE PassOK'
  BY <1>0, <1>2, <1>4, Began
<1>5. ASSUME NEW p \in Process, NEW r \in Row, Forget(p, r) PROVE PassOK'
  BY <1>0, <1>2, <1>5, Forgot
<1>6. ASSUME NEW p \in Process, Forgotten(p) PROVE PassOK'
  BY <1>0, <1>2, <1>6, HasForgotten DEF Keeps
<1>7. ASSUME NEW p \in Process, NEW c \in Cause, Draft(p, c) PROVE PassOK'
  BY <1>0, <1>2, <1>7, Drafted DEF Keeps
<1>8. ASSUME NEW p \in Process, NEW c \in Cause, SendTest(p, c) PROVE PassOK'
  BY <1>0, <1>2, <1>8, TestSent, ZenonT(30)
<1>9. ASSUME NEW p \in Process, Write(p) PROVE PassOK'
  <2>1. /\ \A q \in Process : q # p => SamePlace(q)
        /\ \/ Stops(p)
           \/ /\ pc'[p] = (IF only[p] THEN "claiming" ELSE "writing") /\ Keeps(p)
              /\ claimed' = claimed /\ current' = current
    BY <1>9, Written
  <2>2. pc[p] = "drafted"
    BY <1>9 DEF Write
  <2>3. CASE Stops(p)
    BY <1>0, <1>3, <2>3, Stopped
  <2>4. CASE ~Stops(p)
    BY <1>0, <1>2, <2>1, <2>2, <2>4 DEF Keeps
  <2> QED
    BY <2>3, <2>4
<1>10. ASSUME NEW p \in Process, ClaimDue(p) PROVE PassOK'
  <2>1. /\ \A q \in Process : q # p => SamePlace(q)
        /\ \A x, y \in claimed'[p] : x.message = y.message => x = y
        /\ \/ Stops(p)
           \/ /\ pc'[p] = "sending" /\ Keeps(p) /\ claimed'[p] # {} /\ current' = current
    BY <1>10, ClaimTakes
  <2>2. pc[p] \in {"claiming", "writing"}
    BY <1>10 DEF ClaimDue
  <2>3. CASE Stops(p)
    BY <1>0, <1>3, <2>3, Stopped
  <2>4. CASE ~Stops(p)
    BY <1>0, <1>2, <2>1, <2>2, <2>4 DEF Keeps
  <2> QED
    BY <2>3, <2>4
<1>11. ASSUME NEW p \in Process, Deliver(p) PROVE PassOK'
  <2>1. /\ pc[p] = "sending" /\ pc'[p] = "answered" /\ current'[p] \in claimed[p] /\ Keeps(p)
        /\ claimed'[p] = claimed[p] /\ current'[p] # NoMessage
        /\ \A q \in Process : q # p => SamePlace(q)
    BY <1>11, Delivered, NoClaimAssumption
  <2> QED
    BY <1>0, <1>2, <2>1 DEF Keeps
<1>12. ASSUME NEW p \in Process, Mark(p) PROVE PassOK'
  <2>1. /\ \A q \in Process : q # p => SamePlace(q)
        /\ claimed'[p] = claimed[p] \ {current[p]} /\ current'[p] = NoMessage
        /\ \/ Stops(p)
           \/ Keeps(p) /\ pc'[p] = "sending" /\ claimed'[p] # {}
    BY <1>12, MarkedAs
  <2>2. pc[p] = "answered"
    BY <1>12 DEF Mark
  <2>3. CASE Stops(p)
    BY <1>0, <1>3, <2>3, Stopped
  <2>4. CASE ~Stops(p)
    BY <1>0, <1>2, <2>1, <2>2, <2>4 DEF Keeps
  <2> QED
    BY <2>3, <2>4
<1>13. ASSUME NEW p \in Process, ProcessEnds(p) PROVE PassOK'
  BY <1>0, <1>3, <1>13, Stopped DEF ProcessEnds
<1>14. ASSUME NEW p \in Process, Run(p) PROVE PassOK'
  BY <1>4, <1>5, <1>6, <1>7, <1>9, <1>10, <1>11, <1>12, <1>14 DEF Run
<1> QED
  BY <1>1, <1>8, <1>13, <1>14, Outside

LEMMA NextTypeOK == TypeOK /\ [Next]_vars => TypeOK'
  BY NextFieldsOK, NextRowsOK, NextMessagesOK, NextPassOK DEF TypeOK

LEMMA InitTypeOK == Init => TypeOK
<1> SUFFICES ASSUME Init PROVE TypeOK
  OBVIOUS
<1> USE PushOutboxAssumption
<1>1. FieldsOK
  BY DEF Init, FieldsOK
<1>2. RowsOK
  BY DEF Init, RowsOK, There
<1>3. MessagesOK
  BY DEF Init, MessagesOK
<1>4. PassOK
  BY DEF Init, PassOK
<1> QED
  BY <1>1, <1>2, <1>3, <1>4 DEF TypeOK

-----------------------------------------------------------------------------
(* Signed out telephones. *)

\* What a pass may claim is bound to no session that was out when it began.
LEMMA NextQuietInv == TypeOK /\ QuietInv /\ [Next]_vars => QuietInv'
<1> SUFFICES ASSUME TypeOK, QuietInv, [Next]_vars PROVE QuietInv'
  OBVIOUS
<1> USE PushOutboxAssumption
<1>0. FieldsOK /\ \A p \in Process : QuietOf(p)
  BY DEF TypeOK, QuietInv
<1>1. \A s \in Session : session[s] = "out" => session'[s] = "out"
  <2>1. ASSUME NEW s \in Session, SignIn(s) \/ SignOut(s)
        PROVE  \A o \in Session : session[o] = "out" => session'[o] = "out"
    BY <1>0, <2>1 DEF SignIn, SignOut, FieldsOK
  <2>2. CASE session' = session
    BY <2>2
  <2>3. session' = session \/ \E s \in Session : SignIn(s) \/ SignOut(s)
    <3>1. ASSUME NEW p \in Process, Run(p)
          PROVE  session' = session
      BY <3>1 DEF Run, Begin, Forget, Forgotten, Draft, Write, ClaimDue, Deliver, Mark, devices
    <3>2. ASSUME NEW p \in Process, ProcessEnds(p) \/ \E c \in Cause : SendTest(p, c)
          PROVE  session' = session
      BY <3>2 DEF SendTest, ProcessEnds, devices
    <3>3. ASSUME \/ \E s \in Session : Subscribe(s)
                 \/ \E r \in Row : Unsubscribe(r)
                 \/ \E c \in Cause : Raise(c) \/ Expire(c)
                 \/ \E m \in Message : ComesDue(m)
                 \/ UNCHANGED vars
          PROVE  session' = session
      BY <3>3 DEF Subscribe, Unsubscribe, Raise, Expire, ComesDue, vars, devices
    <3> QED
      BY <3>1, <3>2, <3>3 DEF Next
  <2> QED
    BY <2>1, <2>2, <2>3
<1>2. \A r \in Row : There(r)' => \/ There(r) /\ bound'[r] = bound[r]
                                  \/ session[bound'[r]] = "alive" /\ session' = session
  <2>1. CASE UNCHANGED <<state, bound>>
    BY <2>1 DEF There
  <2>2. ASSUME NEW r \in Row, Off(r)
        PROVE  \A q \in Row : There(q)' => There(q) /\ bound'[q] = bound[q]
    BY <1>0, <2>2, OffRow DEF There
  <2>3. ASSUME NEW s \in Session, Subscribe(s)
        PROVE  \A q \in Row : There(q)' => \/ There(q) /\ bound'[q] = bound[q]
                                           \/ session[bound'[q]] = "alive" /\ session' = session
    <3>1. PICK r \in Row : bound' = [bound EXCEPT ![r] = s]
                           /\ (state' = state \/ state' = [state EXCEPT ![r] = "there"])
      BY <2>3 DEF Subscribe, RowsOf
    <3>2. bound'[r] = s /\ \A q \in Row : q # r => bound'[q] = bound[q] /\ state'[q] = state[q]
      BY <1>0, <3>1 DEF FieldsOK
    <3>3. session[s] = "alive" /\ session' = session
      BY <2>3 DEF Subscribe
    <3> QED
      BY <3>2, <3>3 DEF There
  <2>4. ASSUME NEW p \in Process, Run(p)
        PROVE  \/ UNCHANGED <<state, bound>>
               \/ \E r \in Row : Off(r)
    <3>1. CASE Mark(p)
      BY <3>1, MarkedAs
    <3> QED
      BY <2>4, <3>1 DEF Run, Begin, Forget, Forgotten, Draft, Write, ClaimDue, Deliver, devices
  <2> QED
    BY <2>1, <2>2, <2>3, <2>4 DEF Next, SignIn, SignOut, Unsubscribe, Raise, Expire, ComesDue,
        SendTest, ProcessEnds, vars, devices
<1>3. ASSUME NEW p \in Process, outAtStart'[p] = outAtStart[p], NEW r \in Row, There(r)',
             bound'[r] \in outAtStart'[p]
      PROVE  There(r) /\ bound'[r] = bound[r] /\ bound[r] \in outAtStart[p]
  <2>1. session[bound'[r]] = "out"
    BY <1>0, <1>3 DEF QuietOf
  <2> QED
    BY <1>2, <1>3, <2>1
<1>4. ASSUME NEW p \in Process, outAtStart'[p] = outAtStart[p], only'[p] = only[p],
             ~only[p] => \A r \in Row : r \in forget[p] /\ There(r)' => r \in forget'[p],
             only[p] => drafts'[p] \subseteq drafts[p],
             \A x \in claimed'[p] : x.session \notin outAtStart[p]
      PROVE  QuietOf(p)'
  <2>1. \A s \in outAtStart'[p] : session'[s] = "out"
    BY <1>0, <1>1, <1>4 DEF QuietOf, FieldsOK
  <2>2. ~only[p] => \A r \in Row : There(r)' /\ bound'[r] \in outAtStart'[p] => r \in forget'[p]
    BY <1>0, <1>3, <1>4 DEF QuietOf
  <2>3. only[p] => \A m \in drafts'[p] :
                      There(RowOf(m))' => bound'[RowOf(m)] \notin outAtStart'[p]
    <3>1. drafts[p] \subseteq Message
      BY <1>0 DEF FieldsOK
    <3>2. ASSUME only[p], NEW m \in drafts'[p], There(RowOf(m))',
                 bound'[RowOf(m)] \in outAtStart'[p]
          PROVE  FALSE
      <4>1. m \in drafts[p] /\ RowOf(m) \in Row
        BY <1>4, <3>1, <3>2, MessageParts
      <4>2. There(RowOf(m)) /\ bound[RowOf(m)] \in outAtStart[p]
        BY <1>3, <1>4, <3>2, <4>1
      <4> QED
        BY <1>0, <3>2, <4>1, <4>2 DEF QuietOf
    <3> QED
      BY <3>2
  <2> QED
    BY <1>4, <2>1, <2>2, <2>3 DEF QuietOf
<1>5. ASSUME NEW p \in Process, SamePlace(p) PROVE QuietOf(p)'
  BY <1>0, <1>4, <1>5 DEF SamePlace, QuietOf
<1>6. ASSUME NEW p \in Process, Rests(p) PROVE QuietOf(p)'
  BY <1>6 DEF Rests, QuietOf
<1>7. ASSUME NEW p \in Process, QuietOf(p)', \A q \in Process : q # p => SamePlace(q)
      PROVE  QuietInv'
  BY <1>5, <1>7 DEF QuietInv
<1>8. ASSUME NEW p \in Process, Begin(p) PROVE QuietOf(p)'
  <2>1. /\ pc[p] = "idle" /\ only'[p] = only[p] /\ forget'[p] = {r \in Row : SignedOut(r)}
        /\ outAtStart'[p] = OutNow /\ claimed'[p] = claimed[p]
    BY <1>0, <1>8, Began
  <2>2. ~only[p] /\ claimed[p] = {}
    BY <2>1 DEF TypeOK, PassOK
  <2>3. UNCHANGED <<session, state, bound>>
    BY <1>8 DEF Begin, devices
  <2> QED
    BY <2>1, <2>2, <2>3 DEF QuietOf, SignedOut, OutNow, There
<1>9. ASSUME NEW p \in Process, NEW r \in Row, Forget(p, r) PROVE QuietOf(p)'
  <2>1. /\ only'[p] = only[p] /\ forget'[p] = forget[p] \ {r} /\ outAtStart'[p] = outAtStart[p]
        /\ drafts'[p] = drafts[p] /\ claimed'[p] = claimed[p]
    BY <1>0, <1>9, Forgot
  <2>2. ~There(r)'
    BY <1>0, <1>9, OffRow DEF Forget, There
  <2> QED
    BY <1>0, <1>4, <2>1, <2>2 DEF QuietOf
<1>10. ASSUME NEW p \in Process, Forgotten(p) PROVE QuietOf(p)'
  BY <1>0, <1>4, <1>10, HasForgotten DEF Keeps, QuietOf
<1>11. ASSUME NEW p \in Process, NEW c \in Cause, Draft(p, c) PROVE QuietOf(p)'
  <2>1. pc[p] = "writing" /\ Keeps(p) /\ claimed'[p] = claimed[p]
    BY <1>0, <1>11, Drafted
  <2>2. ~only[p]
    BY <2>1 DEF TypeOK, PassOK
  <2> QED
    BY <1>0, <1>4, <2>1, <2>2 DEF Keeps, QuietOf
<1>12. ASSUME NEW p \in Process, NEW c \in Cause, SendTest(p, c) PROVE QuietOf(p)'
  <2>1. /\ pc[p] = "idle" /\ only'[p] = TRUE /\ outAtStart'[p] = OutNow
        /\ \A m \in drafts'[p] : RowOf(m) \in SignedInOf(PersonFor[c])
        /\ claimed'[p] = claimed[p]
    BY <1>0, <1>12, TestSent
  <2>2. claimed[p] = {}
    BY <2>1 DEF TypeOK, PassOK
  <2>3. UNCHANGED <<session, state, bound>>
    BY <1>12 DEF SendTest, devices
  <2>4. \A m \in drafts'[p] : session[bound[RowOf(m)]] = "alive"
    BY <2>1 DEF SignedInOf
  <2> QED
    BY <2>1, <2>2, <2>3, <2>4 DEF QuietOf, OutNow
<1>13. ASSUME NEW p \in Process, Write(p) PROVE QuietOf(p)'
  <2>1. \/ Stops(p)
        \/ Keeps(p) /\ claimed' = claimed /\ (only[p] => drafts'[p] \subseteq drafts[p])
    BY <1>13, Written
  <2>2. CASE Stops(p)
    BY <1>0, <1>6, <2>2, Stopped
  <2>3. CASE ~Stops(p)
    BY <1>0, <1>4, <2>1, <2>3 DEF Keeps, QuietOf
  <2> QED
    BY <2>2, <2>3
<1>14. ASSUME NEW p \in Process, ClaimDue(p) PROVE QuietOf(p)'
  <2>1. /\ \A x \in claimed'[p] : x.message \in Claimable(p)
                                  /\ x.session = bound[RowOf(x.message)]
        /\ \/ Stops(p)
           \/ Keeps(p) /\ drafts' = drafts
    BY <1>14, ClaimTakes
  <2>2. forget[p] = {}
    BY <1>14 DEF ClaimDue, TypeOK, PassOK
  <2>3. ASSUME NEW m \in Claimable(p) PROVE bound[RowOf(m)] \notin outAtStart[p]
    <3>1. There(RowOf(m)) /\ RowOf(m) \in Row /\ (only[p] => m \in drafts[p])
      BY MessageParts DEF Claimable, TypeOK, MessagesOK
    <3> QED
      BY <1>0, <2>2, <3>1 DEF QuietOf
  <2>4. CASE Stops(p)
    BY <1>0, <1>6, <2>4, Stopped
  <2>5. CASE ~Stops(p)
    BY <1>4, <2>1, <2>3, <2>5 DEF Keeps
  <2> QED
    BY <2>4, <2>5
<1>15. ASSUME NEW p \in Process, Deliver(p) PROVE QuietOf(p)'
  <2>1. Keeps(p) /\ claimed'[p] = claimed[p] /\ drafts'[p] = drafts[p]
    BY <1>15, Delivered
  <2> QED
    BY <1>0, <1>4, <2>1 DEF Keeps, QuietOf
<1>16. ASSUME NEW p \in Process, Mark(p) PROVE QuietOf(p)'
  <2>1. /\ claimed'[p] \subseteq claimed[p]
        /\ Stops(p) \/ (Keeps(p) /\ drafts'[p] = drafts[p])
    BY <1>16, MarkedAs
  <2>2. CASE Stops(p)
    BY <1>0, <1>6, <2>2, Stopped
  <2>3. CASE ~Stops(p)
    BY <1>0, <1>4, <2>1, <2>3 DEF Keeps, QuietOf
  <2> QED
    BY <2>2, <2>3
<1>17. ASSUME NEW p \in Process, ProcessEnds(p) PROVE QuietInv'
  BY <1>0, <1>6, <1>7, <1>17, Stopped DEF ProcessEnds
<1>18. ASSUME NEW p \in Process, NEW c \in Cause, SendTest(p, c) PROVE QuietInv'
  BY <1>0, <1>7, <1>12, <1>18, TestSent
<1>19. ASSUME NEW p \in Process, Run(p) PROVE QuietInv'
  <2>1. QuietOf(p)'
    BY <1>8, <1>9, <1>10, <1>11, <1>13, <1>14, <1>15, <1>16, <1>19 DEF Run
  <2>2. \A q \in Process : q # p => SamePlace(q)
    BY <1>0, <1>19, Began, Forgot, HasForgotten, Drafted, Written, ClaimTakes, Delivered, MarkedAs
    DEF Run
  <2> QED
    BY <1>7, <2>1, <2>2
<1>20. CASE UNCHANGED <<pc, only, outAtStart, forget, drafts, claimed, current, outcome>>
  BY <1>5, <1>20 DEF QuietInv, SamePlace
<1> QED
  BY <1>17, <1>18, <1>19, <1>20, Outside

-----------------------------------------------------------------------------
(* Chances. *)

\* A test message is sent while nothing else runs, and what it wrote is due.
LEMMA NextAloneInv ==
  ASSUME TestsBeside = FALSE, TypeOK, AloneInv, [Next]_vars
  PROVE  AloneInv'
<1> DEFINE AloneOf(p) ==
        /\ only[p] => \A q \in Process : q # p => pc[q] = "idle"
        /\ pc[p] = "claiming" => \A m \in drafts[p] : status[m] = "pending" => m \in due
<1>0. FieldsOK /\ MessagesOK /\ PassOK /\ \A p \in Process : AloneOf(p)
  BY DEF TypeOK, AloneInv
<1>1. ASSUME NEW p \in Process, pc[p] # "idle", \A q \in Process : q # p => SamePlace(q),
             only'[p] => only[p],
             pc'[p] = "claiming" => \A m \in drafts'[p] : status'[m] = "pending" => m \in due'
      PROVE  AloneInv'
  <2>1. \A q \in Process : q # p => ~only'[q] /\ pc'[q] # "claiming"
    BY <1>0, <1>1 DEF SamePlace, PassOK
  <2>2. only'[p] => \A q \in Process : q # p => pc'[q] = "idle"
    BY <1>0, <1>1 DEF SamePlace
  <2> QED
    BY <1>1, <2>1, <2>2 DEF AloneInv
<1>2. ASSUME NEW p \in Process, pc[p] # "idle", \A q \in Process : q # p => SamePlace(q), Rests(p)
      PROVE  AloneInv'
  BY <1>1, <1>2 DEF Rests
<1>3. ASSUME NEW p \in Process, Begin(p) PROVE AloneInv'
  <2>1. \A q \in Process : ~only[q] /\ pc[q] # "claiming"
    BY <1>0, <1>3 DEF Begin, PassOK
  <2>2. /\ pc'[p] = "forgetting" /\ only'[p] = only[p]
        /\ \A q \in Process : q # p => SamePlace(q)
    BY <1>0, <1>3, Began
  <2> QED
    BY <2>1, <2>2 DEF AloneInv, SamePlace
<1>4. ASSUME NEW p \in Process, NEW c \in Cause, SendTest(p, c) PROVE AloneInv'
  <2>1. \A q \in Process : pc[q] = "idle" /\ ~only[q]
    BY <1>0, <1>4 DEF SendTest, PassOK
  <2>2. pc'[p] = "drafted" /\ \A q \in Process : q # p => SamePlace(q)
    BY <1>0, <1>4, TestSent
  <2> QED
    BY <2>1, <2>2 DEF AloneInv, SamePlace
<1>5. ASSUME NEW p \in Process, Write(p) PROVE AloneInv'
  <2>0. pc[p] = "drafted"
    BY <1>5 DEF Write
  <2>1. PICK fresh \in SUBSET drafts[p] :
          /\ due' = due \cup fresh
          /\ \A q \in Process : q # p => SamePlace(q)
          /\ \/ Stops(p)
             \/ /\ pc'[p] = (IF only[p] THEN "claiming" ELSE "writing") /\ Keeps(p)
                /\ drafts'[p] = (IF only[p] THEN fresh ELSE {})
    BY <1>5, Written
  <2>2. CASE Stops(p)
    BY <1>0, <1>2, <2>0, <2>1, <2>2, Stopped
  <2>3. CASE ~Stops(p)
    BY <1>1, <2>0, <2>1, <2>3 DEF Keeps
  <2> QED
    BY <2>2, <2>3
<1>6. ASSUME NEW p \in Process, ClaimDue(p) PROVE AloneInv'
  <2>1. /\ \A q \in Process : q # p => SamePlace(q)
        /\ Stops(p) \/ (pc'[p] = "sending" /\ Keeps(p))
    BY <1>6, ClaimTakes
  <2>2. pc[p] # "idle"
    BY <1>6 DEF ClaimDue
  <2> QED
    BY <1>0, <1>1, <1>2, <2>1, <2>2, Stopped DEF Keeps
<1>7. ASSUME NEW p \in Process, Deliver(p) PROVE AloneInv'
  BY <1>1, <1>7, Delivered DEF Keeps
<1>8. ASSUME NEW p \in Process, Mark(p) PROVE AloneInv'
  <2>1. /\ \A q \in Process : q # p => SamePlace(q)
        /\ Stops(p) \/ (pc'[p] = "sending" /\ Keeps(p))
    BY <1>8, MarkedAs
  <2>2. pc[p] # "idle"
    BY <1>8 DEF Mark
  <2> QED
    BY <1>0, <1>1, <1>2, <2>1, <2>2, Stopped DEF Keeps
<1>9. ASSUME NEW p \in Process, NEW r \in Row, Forget(p, r) PROVE AloneInv'
  BY <1>0, <1>1, <1>9, Forgot
<1>10. ASSUME NEW p \in Process, Forgotten(p) PROVE AloneInv'
  BY <1>0, <1>1, <1>10, HasForgotten DEF Keeps
<1>11. ASSUME NEW p \in Process, NEW c \in Cause, Draft(p, c) PROVE AloneInv'
  BY <1>0, <1>1, <1>11, Drafted DEF Keeps
<1>12. ASSUME NEW p \in Process, ProcessEnds(p) PROVE AloneInv'
  BY <1>0, <1>2, <1>12, Stopped DEF ProcessEnds
<1>13. ASSUME NEW p \in Process, Run(p) PROVE AloneInv'
  BY <1>3, <1>5, <1>6, <1>7, <1>8, <1>9, <1>10, <1>11, <1>13 DEF Run
<1>14. CASE ~\E p \in Process : Run(p) \/ ProcessEnds(p) \/ \E c \in Cause : SendTest(p, c)
  <2>1. UNCHANGED <<pc, only, drafts>>
    BY <1>14, Outside
  <2>2. \A m \in Message : status'[m] = "pending" /\ m \in due => m \in due'
    <3>1. CASE status' = status /\ due \subseteq due'
      BY <3>1
    <3>2. ASSUME NEW r \in Row, Off(r)
          PROVE  \A m \in Message : status'[m] = "pending" /\ m \in due => m \in due'
      BY <1>0, <3>2, OffRow
    <3> QED
      BY <1>14, <3>1, <3>2 DEF Next, SignIn, SignOut, Subscribe, Unsubscribe, Raise, Expire,
          ComesDue, vars, outbox
  <2>3. \A m \in Message : status'[m] = "pending" => status[m] = "pending"
    <3>1. CASE status' = status
      BY <3>1
    <3>2. ASSUME NEW r \in Row, Off(r)
          PROVE  \A m \in Message : status'[m] = "pending" => status[m] = "pending"
      BY <1>0, <3>2, OffRow
    <3> QED
      BY <1>14, <3>1, <3>2 DEF Next, SignIn, SignOut, Subscribe, Unsubscribe, Raise, Expire,
          ComesDue, vars, outbox
  <2>4. \A p \in Process : drafts[p] \subseteq Message
    BY <1>0 DEF FieldsOK
  <2> QED
    BY <1>0, <2>1, <2>2, <2>3, <2>4 DEF AloneInv
<1> QED
  BY <1>4, <1>12, <1>13, <1>14

\* As many carry a message as before.
LEMMA SameChances ==
  ASSUME NEW m \in Message, FieldsOK, FieldsOK', ChancesOf(m), Carriers(m)' = Carriers(m),
         delivered'[m] + Unclaimed(m)' + excused[m] <= delivered[m] + Unclaimed(m) + excused'[m]
  PROVE  ChancesOf(m)'
<1>1. Cardinality(Carriers(m)) \in Nat
  BY FS_CardinalityType DEF ChancesOf
<1>2. Unclaimed(m) \in {0, 1} /\ Unclaimed(m)' \in {0, 1}
  BY DEF Unclaimed
<1>3. /\ delivered[m] \in Nat /\ excused[m] \in Nat
      /\ delivered'[m] \in Nat /\ excused'[m] \in Nat
  BY DEF FieldsOK
<1> QED
  BY <1>1, <1>2, <1>3 DEF ChancesOf

\* One carries it no more: it was shown, or it may be claimed again.
LEMMA OneChanceLess ==
  ASSUME NEW m \in Message, FieldsOK, FieldsOK', ChancesOf(m),
         NEW p \in Carriers(m), Carriers(m)' = Carriers(m) \ {p},
         delivered'[m] + Unclaimed(m)' + excused[m] <= delivered[m] + Unclaimed(m) + excused'[m] + 1
  PROVE  ChancesOf(m)'
<1>1. /\ IsFiniteSet(Carriers(m) \ {p}) /\ Cardinality(Carriers(m)) \in Nat
      /\ Cardinality(Carriers(m) \ {p}) = Cardinality(Carriers(m)) - 1
  BY FS_CardinalityType, FS_RemoveElement DEF ChancesOf
<1>2. Unclaimed(m) \in {0, 1} /\ Unclaimed(m)' \in {0, 1}
  BY DEF Unclaimed
<1>3. /\ delivered[m] \in Nat /\ excused[m] \in Nat
      /\ delivered'[m] \in Nat /\ excused'[m] \in Nat
  BY DEF FieldsOK
<1> QED
  BY <1>1, <1>2, <1>3 DEF ChancesOf

\* One more carries it, and nobody else can claim it.
LEMMA OneChanceMore ==
  ASSUME NEW m \in Message, FieldsOK, FieldsOK', ChancesOf(m),
         NEW p, p \notin Carriers(m), Carriers(m)' = Carriers(m) \cup {p},
         delivered'[m] = delivered[m], excused'[m] = excused[m],
         Unclaimed(m) = 1, Unclaimed(m)' = 0
  PROVE  ChancesOf(m)'
<1>1. /\ IsFiniteSet(Carriers(m) \cup {p}) /\ Cardinality(Carriers(m)) \in Nat
      /\ Cardinality(Carriers(m) \cup {p}) = Cardinality(Carriers(m)) + 1
  BY FS_CardinalityType, FS_AddElement DEF ChancesOf
<1>2. delivered[m] \in Nat /\ excused[m] \in Nat
  BY DEF FieldsOK
<1> QED
  BY <1>1, <1>2 DEF ChancesOf

\* No step makes a chance out of nothing.
LEMMA NextChancesInv ==
  ASSUME TypeOK, AloneInv, ChancesInv, [Next]_vars
  PROVE  ChancesInv'
<1> SUFFICES ASSUME NEW m \in Message PROVE ChancesOf(m)'
  BY DEF ChancesInv
<1>0. FieldsOK /\ FieldsOK' /\ ChancesOf(m) /\ MessagesOK /\ PassOK
  BY NextFieldsOK DEF TypeOK, ChancesInv
<1>a. /\ delivered[m] \in Nat /\ excused[m] \in Nat
      /\ Unclaimed(m) \in {0, 1} /\ Unclaimed(m)' \in {0, 1}
      /\ RowOf(m) \in Row
  BY <1>0, MessageParts DEF FieldsOK, Unclaimed
\* Whoever holds claims keeps them, and the message is no nearer to a claim.
<1>1. ASSUME UNCHANGED <<delivered, excused>>,
             \A q \in Process : claimed'[q] = claimed[q] /\ (claimed[q] # {} =>
                                    current'[q] = current[q] /\ outcome'[q] = outcome[q]),
             Open(m)' => Open(m)
      PROVE  ChancesOf(m)'
  <2>1. Carriers(m)' = Carriers(m)
    BY <1>1 DEF Carriers, Carries
  <2>2. Unclaimed(m)' <= Unclaimed(m)
    BY <1>1 DEF Unclaimed
  <2> QED
    BY <1>0, <1>1, <1>a, <2>1, <2>2, SameChances
<1>2. ASSUME UNCHANGED <<status, state, due>>, \A q \in Process : claimed'[q] = claimed[q]
      PROVE  Open(m)' <=> Open(m)
  BY <1>2 DEF Open, Held
<1>3. ASSUME NEW r \in Row, Off(r), \A q \in Process : claimed'[q] = claimed[q]
      PROVE  Open(m)' => Open(m)
  <2>1. /\ state'[r] = "deleted" /\ \A q \in Row : q # r => state'[q] = state[q]
        /\ IF RowOf(m) = r THEN status'[m] = "none" /\ m \notin due'
           ELSE status'[m] = status[m] /\ (m \in due' <=> m \in due)
    BY <1>0, <1>3, OffRow
  <2> QED
    BY <1>3, <1>a, <2>1 DEF Open, Held
<1>4. ASSUME NEW n \in Message, ComesDue(n) PROVE ChancesOf(m)'
  <2>1. /\ due' = due \cup {n} /\ status[n] = "pending" /\ delivered' = delivered
        /\ UNCHANGED <<status, state, claimed, current, outcome>>
    BY <1>4 DEF ComesDue, devices, sending
  <2>2. Carriers(m)' = Carriers(m)
    BY <2>1 DEF Carriers, Carries
  <2>3. CASE m = n /\ Held(m)
    <3>1. excused'[m] = excused[m] + 1
      BY <1>0, <1>4, <2>3 DEF ComesDue, FieldsOK
    <3> QED
      BY <1>0, <1>a, <2>1, <2>2, <3>1, SameChances
  <2>4. CASE ~(m = n /\ Held(m))
    <3>1. excused'[m] = excused[m]
      BY <1>0, <1>4, <2>4 DEF ComesDue, FieldsOK
    <3>2. Open(m)' <=> Open(m)
      BY <2>1, <2>4 DEF Open, Held
    <3> QED
      BY <1>0, <1>a, <2>1, <2>2, <3>1, <3>2, SameChances DEF Unclaimed
  <2> QED
    BY <2>3, <2>4
<1>5. ASSUME NEW s \in Session, Subscribe(s) PROVE ChancesOf(m)'
  <2>1. PICK r \in Row : \/ state' = state
                         \/ state[r] = "unused" /\ state' = [state EXCEPT ![r] = "there"]
    BY <1>5 DEF Subscribe, RowsOf
  <2>2. state'[RowOf(m)] # "deleted" <=> state[RowOf(m)] # "deleted"
    BY <1>0, <1>a, <2>1 DEF FieldsOK
  <2>3. UNCHANGED <<status, due, claimed, current, outcome, delivered, excused>>
    BY <1>5 DEF Subscribe, outbox, sending, history
  <2>4. Open(m)' <=> Open(m)
    BY <2>2, <2>3 DEF Open, Held
  <2> QED
    BY <1>1, <2>3, <2>4
<1>6. ASSUME NEW p \in Process, Write(p) PROVE ChancesOf(m)'
  <2>1. PICK fresh \in SUBSET drafts[p] :
          /\ \A n \in fresh : status[n] = "none" /\ There(RowOf(n))
          /\ \A n \in Message : status'[n] = IF n \in fresh THEN "pending" ELSE status[n]
          /\ due' = due \cup fresh
          /\ \A q \in Process : q # p => SamePlace(q)
          /\ Stops(p) \/ (claimed' = claimed /\ current' = current)
    BY <1>6, Written
  <2>2. claimed[p] = {} /\ UNCHANGED <<state, delivered, excused>>
    BY <1>0, <1>6 DEF Write, devices, history, PassOK
  <2>3. \A q \in Process : claimed'[q] = claimed[q]
    BY <1>0, <2>1, <2>2, Stopped DEF SamePlace, Rests
  <2>4. Open(m)' => Open(m)
    BY <2>1, <2>2, <2>3 DEF Open, Held, There
  <2> QED
    BY <1>1, <2>1, <2>2, <2>3, <2>4 DEF SamePlace
<1>7. ASSUME NEW p \in Process, ClaimDue(p) PROVE ChancesOf(m)'
  <2>1. /\ \A x \in claimed'[p] : x.message \in Claimable(p)
        /\ \A n \in Claimable(p) : \E x \in claimed'[p] : x.message = n
        /\ claimed[p] = {}
        /\ \A n \in Message : status'[n] = IF n \in GivenUpLate THEN "failed" ELSE status[n]
        /\ due' = (due \ Claimable(p)) \ GivenUpLate
        /\ IF Claimable(p) = {} THEN Stops(p) ELSE current' = current
        /\ \A q \in Process : q # p => SamePlace(q)
    BY <1>7, ClaimTakes
  <2>2. /\ UNCHANGED <<state, delivered, excused>> /\ current[p] = NoMessage
        /\ pc[p] = "claiming" \/ ~only[p]
    BY <1>0, <1>7 DEF ClaimDue, devices, history, PassOK
  <2>3. CASE m \in Claimable(p)
    <3>1. /\ status[m] = "pending" /\ CauseOf(m) \notin expired
          /\ IF only[p] THEN m \in drafts[p] ELSE m \in due
      BY <2>3 DEF Claimable
    <3>2. m \in due
      BY <2>2, <3>1 DEF AloneInv
    <3>3. PICK x \in claimed'[p] : x.message = m
      BY <2>1, <2>3
    <3>4. Held(m)' /\ m \notin GivenUpLate
      BY <3>1, <3>3 DEF Held, GivenUpLate
    <3>5. Open(m) /\ ~Open(m)'
      BY <2>1, <2>3, <3>1, <3>2, <3>4 DEF Open
    <3>6. \A y \in claimed'[p] : current'[p] # y
      BY <2>1, <2>2, <2>3, <1>0, NoClaimAssumption DEF FieldsOK
    <3>7. Carriers(m)' = Carriers(m) \cup {p} /\ p \notin Carriers(m)
      BY <2>1, <3>3, <3>6 DEF Carriers, Carries, SamePlace
    <3>8. Unclaimed(m) = 1 /\ Unclaimed(m)' = 0
      BY <3>5 DEF Unclaimed
    <3> QED
      BY <1>0, <2>2, <3>7, <3>8, OneChanceMore
  <2>4. CASE m \notin Claimable(p)
    <3>1. Carriers(m)' = Carriers(m)
      BY <2>1, <2>4 DEF Carriers, Carries, SamePlace
    <3>2. Held(m)' <=> Held(m)
      BY <2>1, <2>4 DEF Held, SamePlace
    <3>3. Open(m)' => Open(m)
      BY <2>1, <2>2, <2>4, <3>2 DEF Open
    <3>4. Unclaimed(m)' <= Unclaimed(m)
      BY <3>3 DEF Unclaimed
    <3> QED
      BY <1>0, <1>a, <2>2, <3>1, <3>4, SameChances
  <2> QED
    BY <2>3, <2>4
<1>8. ASSUME NEW p \in Process, Deliver(p) PROVE ChancesOf(m)'
  <2>1. PICK x \in claimed[p], answer \in {"sent", "gone", "retry", "refused"} :
           /\ x.message \in Message /\ current[p] = NoMessage
           /\ current'[p] = x /\ outcome'[p] = answer /\ claimed'[p] = claimed[p]
           /\ \A q \in Process : q # p => SamePlace(q)
           /\ \/ /\ answer = "sent" /\ UNCHANGED excused
                 /\ delivered' = [delivered EXCEPT ![x.message] = @ + 1]
              \/ /\ answer = "retry"
                 /\ delivered' = [delivered EXCEPT ![x.message] = @ + 1]
                 /\ excused' = [excused EXCEPT ![x.message] = @ + 1]
              \/ answer # "sent" /\ UNCHANGED <<delivered, excused>>
    BY <1>8, Delivered
  <2>2. UNCHANGED <<status, state, due>>
    BY <1>8 DEF Deliver, devices, outbox
  <2>3. Unclaimed(m)' = Unclaimed(m)
    BY <1>2, <2>1, <2>2 DEF SamePlace, Unclaimed
  <2>4. \A y \in claimed[p] : current[p] # y /\ (y.message = x.message => y = x)
    BY <1>0, <2>1, NoClaimAssumption DEF FieldsOK, PassOK
  <2>5. CASE answer = "sent" /\ m = x.message
    <3>1. p \in Carriers(m) /\ Carriers(m)' = Carriers(m) \ {p}
      BY <2>1, <2>4, <2>5 DEF Carriers, Carries, SamePlace
    <3>2. delivered'[m] = delivered[m] + 1 /\ excused'[m] = excused[m]
      BY <1>0, <2>1, <2>5 DEF FieldsOK
    <3> QED
      BY <1>0, <1>a, <2>3, <3>1, <3>2, OneChanceLess
  <2>6. CASE ~(answer = "sent" /\ m = x.message)
    <3>1. Carriers(m)' = Carriers(m)
      BY <2>1, <2>4, <2>6 DEF Carriers, Carries, SamePlace
    <3>2. CASE answer = "retry" /\ m = x.message /\ delivered' # delivered
      <4>1. delivered'[m] = delivered[m] + 1 /\ excused'[m] = excused[m] + 1
        BY <1>0, <2>1, <3>2 DEF FieldsOK
      <4> QED
        BY <1>0, <1>a, <2>3, <3>1, <4>1, SameChances
    <3>3. CASE ~(answer = "retry" /\ m = x.message /\ delivered' # delivered)
      <4>1. delivered'[m] = delivered[m] /\ excused'[m] >= excused[m]
        BY <1>0, <1>a, <2>1, <2>6, <3>3 DEF FieldsOK
      <4>2. excused'[m] \in Nat
        BY <1>0 DEF FieldsOK
      <4> QED
        BY <1>0, <1>a, <2>3, <3>1, <4>1, <4>2, SameChances
    <3> QED
      BY <3>2, <3>3
  <2> QED
    BY <2>5, <2>6
<1>9. ASSUME NEW p \in Process, Mark(p) PROVE ChancesOf(m)'
  <2> DEFINE x == current[p]
             n == x.message
  <2>1. /\ x \in claimed[p] /\ n \in Message
        /\ claimed'[p] = claimed[p] \ {x} /\ current'[p] = NoMessage
        /\ \A q \in Process : q # p => SamePlace(q)
        /\ \/ outcome[p] # "sent" /\ Off(RowOf(n)) /\ RowOf(n) \in Row
           \/ /\ UNCHANGED state
              /\ \A o \in Message : o # n => status'[o] = status[o] /\ (o \in due' <=> o \in due)
              /\ status[n] = "none" => status'[n] = "none"
              /\ n \notin due'
              /\ outcome[p] = "sent" => status'[n] \in {"none", "sent"}
              /\ status'[n] = "none" => status[n] = "none"
    BY <1>9, MarkedAs
  <2>2. UNCHANGED <<delivered, excused>>
    BY <1>9 DEF Mark, history
  <2>3. \A y \in claimed[p] : y.message = n => y = x
    BY <1>0, <2>1 DEF PassOK
  <2>4. \A y \in claimed'[p] : y \in claimed[p] /\ y # x /\ current'[p] # y
    BY <1>0, <2>1, NoClaimAssumption DEF FieldsOK
  <2> HIDE DEF x, n
  <2>5. CASE m = n /\ outcome[p] # "sent"
    <3>1. p \in Carriers(m) /\ Carriers(m)' = Carriers(m) \ {p}
      BY <2>1, <2>3, <2>4, <2>5 DEF Carriers, Carries, SamePlace, x, n
    <3> QED
      BY <1>0, <1>a, <2>2, <3>1, OneChanceLess
  <2>6. CASE m = n /\ outcome[p] = "sent"
    <3>1. Carriers(m)' = Carriers(m)
      BY <2>1, <2>3, <2>4, <2>6 DEF Carriers, Carries, SamePlace, x, n
    <3>2. Open(m)' => Open(m)
      BY <2>1, <2>6 DEF Open
    <3>3. Unclaimed(m)' <= Unclaimed(m)
      BY <3>2 DEF Unclaimed
    <3> QED
      BY <1>0, <1>a, <2>2, <3>1, <3>3, SameChances
  <2>7. CASE m # n
    <3>1. \A y : y.message = m => (y \in claimed'[p] <=> y \in claimed[p])
      BY <2>1, <2>7 DEF n
    <3>2. Carriers(m)' = Carriers(m)
      BY <2>1, <2>4, <2>7, <3>1 DEF Carriers, Carries, SamePlace, x, n
    <3>3. Held(m)' <=> Held(m)
      BY <2>1, <3>1 DEF Held, SamePlace
    <3>4. Open(m)' => Open(m)
      <4>1. CASE outcome[p] # "sent" /\ Off(RowOf(n)) /\ RowOf(n) \in Row
        <5>1. /\ state'[RowOf(n)] = "deleted"
              /\ \A q \in Row : q # RowOf(n) => state'[q] = state[q]
              /\ IF RowOf(m) = RowOf(n) THEN status'[m] = "none" /\ m \notin due'
                 ELSE status'[m] = status[m] /\ (m \in due' <=> m \in due)
          BY <1>0, <4>1, OffRow
        <5> QED
          BY <1>a, <3>3, <5>1 DEF Open
      <4>2. CASE ~(outcome[p] # "sent" /\ Off(RowOf(n)) /\ RowOf(n) \in Row)
        BY <2>1, <2>7, <3>3, <4>2 DEF Open
      <4> QED
        BY <4>1, <4>2
    <3>5. Unclaimed(m)' <= Unclaimed(m)
      BY <3>4 DEF Unclaimed
    <3> QED
      BY <1>0, <1>a, <2>2, <3>2, <3>5, SameChances
  <2> QED
    BY <2>5, <2>6, <2>7
<1>10. ASSUME NEW p \in Process, ProcessEnds(p) PROVE ChancesOf(m)'
  <2>1. claimed'[p] = {} /\ \A q \in Process : q # p => SamePlace(q)
    BY <1>0, <1>10, Stopped DEF ProcessEnds, Rests
  <2>2. /\ UNCHANGED <<status, state, due, delivered>>
        /\ excused'[m] = IF current[p] # NoMessage /\ current[p].message = m
                         THEN excused[m] + 1 ELSE excused[m]
    BY <1>10 DEF ProcessEnds, devices, outbox
  <2>3. CASE Carries(p, m)
    <3>1. p \in Carriers(m) /\ Carriers(m)' = Carriers(m) \ {p}
      BY <2>1, <2>3 DEF Carriers, Carries, SamePlace
    <3> QED
      BY <1>0, <1>a, <2>2, <3>1, OneChanceLess
  <2>4. CASE ~Carries(p, m)
    <3>1. Carriers(m)' = Carriers(m)
      BY <2>1, <2>4 DEF Carriers, Carries, SamePlace
    <3>2. CASE \E y \in claimed[p] : y.message = m
      <4>1. current[p] \in claimed[p] /\ current[p].message = m
        BY <2>4, <3>2 DEF Carries
      <4>2. current[p] # NoMessage
        BY <1>0, <4>1, NoClaimAssumption DEF FieldsOK
      <4> QED
        BY <1>0, <1>a, <2>2, <3>1, <4>1, <4>2, SameChances
    <3>3. CASE ~\E y \in claimed[p] : y.message = m
      <4>1. Held(m)' <=> Held(m)
        BY <2>1, <3>3 DEF Held, SamePlace
      <4>2. Unclaimed(m)' = Unclaimed(m)
        BY <2>2, <4>1 DEF Unclaimed, Open
      <4>3. excused'[m] >= excused[m] /\ excused'[m] \in Nat
        BY <1>0, <1>a, <2>2 DEF FieldsOK
      <4> QED
        BY <1>0, <1>a, <2>2, <3>1, <4>2, <4>3, SameChances
    <3> QED
      BY <3>2, <3>3
  <2> QED
    BY <2>3, <2>4
<1>11. ASSUME NEW p \in Process, Begin(p) \/ Forgotten(p) \/ \E c \in Cause : Draft(p, c) \/ SendTest(p, c)
       PROVE  ChancesOf(m)'
  BY <1>1, <1>2, <1>11
  DEF Begin, Forgotten, Draft, SendTest, devices, outbox, sending, history
<1>12. ASSUME NEW p \in Process, NEW r \in Row, Forget(p, r) PROVE ChancesOf(m)'
  BY <1>1, <1>2, <1>3, <1>12 DEF Forget, outbox, sending, history
<1>13. ASSUME NEW r \in Row, Unsubscribe(r) PROVE ChancesOf(m)'
  BY <1>1, <1>3, <1>13 DEF Unsubscribe, sending, history
<1>14. CASE UNCHANGED <<state, outbox, sending, history>>
  BY <1>1, <1>2, <1>14 DEF outbox, sending, history
<1>15. ASSUME NEW p \in Process, Run(p) PROVE ChancesOf(m)'
  BY <1>6, <1>7, <1>8, <1>9, <1>11, <1>12, <1>15 DEF Run
<1> QED
  BY <1>4, <1>5, <1>10, <1>11, <1>13, <1>14, <1>15
  DEF Next, SignIn, SignOut, Raise, Expire, vars, devices

-----------------------------------------------------------------------------
(* What follows for the outbox. *)

LEMMA QuietInvariant == Spec => [](TypeOK /\ QuietInv)
<1>1. Init => TypeOK /\ QuietInv
  <2>1. Init => QuietInv
    BY DEF Init, QuietInv, QuietOf
  <2> QED
    BY <2>1, InitTypeOK
<1>2. TypeOK /\ QuietInv /\ [Next]_vars => (TypeOK /\ QuietInv)'
  BY NextTypeOK, NextQuietInv
<1> QED
  BY <1>1, <1>2, PTL DEF Spec

\* The rows, the messages and the passes are what they are taken for: messages
\* wait only on rows that are there, and every telephone has one row at most.
THEOREM TypeCorrect == Spec => []TypeOK
  BY QuietInvariant, PTL

\* No pass, nor the route of the test message, shows a telephone anything that
\* was signed out before it began, whoever signs in, subscribes, is written to
\* or takes a row off meanwhile, and however many passes run side by side.
THEOREM Quiet == Spec => QuietAfterSignOut
<1>1. TypeOK /\ QuietInv /\ [Next]_vars =>
        [\A p \in Process : Shows(p) => current'[p].session \notin outAtStart[p]]_vars
  <2> SUFFICES ASSUME TypeOK, QuietInv, NEW p \in Process, Shows(p)
               PROVE  current'[p].session \notin outAtStart[p]
    OBVIOUS
  <2>1. current'[p] \in claimed[p]
    BY Delivered DEF Shows
  <2> QED
    BY <2>1 DEF QuietInv, QuietOf
<1> QED
  BY <1>1, QuietInvariant, PTL DEF Spec, QuietAfterSignOut

\* No message goes out once more than there were mishaps to send it again, for
\* every number of processes whose passes run side by side, as long as a test
\* message is sent while none of them runs.
THEOREM NothingTwice == ASSUME TestsBeside = FALSE PROVE Spec => []NothingGoesOutTwice
<1> DEFINE Inv == TypeOK /\ AloneInv /\ ChancesInv
<1>1. Init => Inv
  <2> SUFFICES ASSUME Init PROVE Inv
    OBVIOUS
  <2>1. AloneInv
    BY DEF Init, AloneInv
  <2>2. \A m \in Message : Carriers(m) = {} /\ Unclaimed(m) <= 1 /\ Unclaimed(m) \in Nat
    BY DEF Init, Carriers, Carries, Unclaimed
  <2>3. IsFiniteSet({}) /\ Cardinality({}) = 0
    BY FS_EmptySet
  <2>4. \A m \in Message : delivered[m] = 0 /\ excused[m] = 0
    BY DEF Init
  <2>5. ChancesInv
    BY <2>2, <2>3, <2>4 DEF ChancesInv, ChancesOf
  <2> QED
    BY <2>1, <2>5, InitTypeOK
<1>2. Inv /\ [Next]_vars => Inv'
  BY NextTypeOK, NextAloneInv, NextChancesInv
<1>3. Inv => NothingGoesOutTwice
  <2> SUFFICES ASSUME Inv, NEW m \in Message PROVE delivered[m] <= 1 + excused[m]
    BY DEF NothingGoesOutTwice
  <2>1. /\ delivered[m] \in Nat /\ excused[m] \in Nat
        /\ Cardinality(Carriers(m)) \in Nat /\ Unclaimed(m) \in {0, 1}
        /\ delivered[m] + Cardinality(Carriers(m)) + Unclaimed(m) <= 1 + excused[m]
    BY FS_CardinalityType DEF TypeOK, FieldsOK, ChancesInv, ChancesOf, Unclaimed
  <2> QED
    BY <2>1
<1> HIDE DEF Inv
<1> QED
  BY <1>1, <1>2, <1>3, PTL DEF Spec

-----------------------------------------------------------------------------
(* The deadlines. *)

RowInv == \A d \in Deadline : row[d].status # "none" => row[d].dueOn \in DueDay

TaskOf(r) ==
    /\ r.task \in 0 .. Len(tasks)
    /\ r.task # Never => tasks[r.task].dueOn = r.remindedFor

TaskInv == \A d \in Deadline : TaskOf(row[d])

ActedOf(d) ==
    /\ row[d].status = "none" => acted[d] = <<>>
    /\ acted[d] # <<>> => row[d].remindedFor = acted[d][Len(acted[d])]
    /\ \A i \in 1 .. Len(acted[d]) - 1 : acted[d][i] # acted[d][i + 1]

ActedInv == \A d \in Deadline : ActedOf(d)

ReadInv ==
    /\ \A p, q \in Pass : Following(p) /\ Following(q) => p = q
    /\ \A p \in Pass : Following(p) => \A d \in Deadline :
          read[p].rows[d].status = "none" <=> row[d].status = "none"

\* What a pass read as open and somebody has marked done since was done in between.
BetweenInv ==
    \A p \in Pass : Following(p) => \A d \in Deadline :
        read[p].rows[d].status = "open" /\ row[d].status = "done" => d \in between

ActsInv ==
    KeptFieldsOK /\ RowInv /\ TaskInv /\ ActedInv /\ ReadInv /\ BetweenInv /\ DoneForItsDay

-----------------------------------------------------------------------------
(* Types. *)

\* A task that is marked stays the task of its day.
LEMMA MarkedTask ==
  ASSUME NEW s \in Seq(Task), NEW i \in 1 .. Len(s), NEW x \in Task, x.dueOn = s[i].dueOn,
         NEW marked, marked = [s EXCEPT ![i] = x]
  PROVE  /\ marked \in Seq(Task) /\ Len(marked) = Len(s)
         /\ \A j \in 1 .. Len(s) : marked[j].dueOn = s[j].dueOn
BY ExceptSeq

\* What an action notes comes after what it noted before.
LEMMA Noted ==
  ASSUME NEW S, NEW s \in Seq(S), NEW x \in S
  PROVE  /\ Append(s, x) \in Seq(S) /\ Append(s, x) # <<>> /\ Len(Append(s, x)) = Len(s) + 1
         /\ \A i \in 1 .. Len(s) : Append(s, x)[i] = s[i]
         /\ Append(s, x)[Len(s) + 1] = x
BY AppendProperties

LEMMA RowFacts ==
  ASSUME KeptFieldsOK
  PROVE  /\ \A d \in Deadline : row[d] \in KeptRow
         /\ \A p \in Pass : /\ read[p].interval \in Interval
                            /\ \A d \in Deadline : read[p].rows[d] \in KeptRow /\ asked[p][d] \in Day \cup {Never}
BY DEF KeptFieldsOK

LEMMA DayFacts ==
  /\ \A d \in Day, i \in Interval : d + i \in DueDay
  /\ Never \notin Day /\ Never \notin DueDay
  /\ Unkept \in KeptRow
<1>1. \A d \in Day, i \in Interval : d + i \in DueDay
  BY DEF DueDay
<1>2. Never \notin Day /\ Never \notin DueDay
  BY DeadlinesAssumption DEF Never, DueDay
<1>3. Unkept \in KeptRow
  BY DEF Unkept, KeptRow, Never
<1> QED
  BY <1>1, <1>2, <1>3

\* What a pass may write over a row.
LEMMA FollowedIs ==
  ASSUME NEW was \in KeptRow, NEW is \in KeptRow, NEW day \in Day \cup {Never}, NEW i \in Interval,
         was.status = "none" <=> is.status = "none",
         is.status # "none" => is.dueOn \in DueDay,
         NEW r, r = Followed(was, is, day, day + i)
  PROVE  /\ r \in KeptRow
         /\ r.status # "none" => r.dueOn \in DueDay
         /\ r.status = "none" => r = is
         /\ \/ r.remindedFor = is.remindedFor /\ r.task = is.task
            \/ is.status = "none" /\ r.remindedFor = Never /\ r.task = Never
         /\ r.status = "done" /\ ~(was.status = "open" /\ is.status = "done") => r = is
<1>1. CASE day = Never
  BY <1>1 DEF Followed, KeptRow
<1>2. CASE day # Never
  <2>1. day \in Day /\ day + i \in DueDay
    BY <1>2, DayFacts
  <2> HIDE DEF Never
  <2>2. CASE was.status = "none"
    <3>1. r = [Unkept EXCEPT !.status = "open", !.anchorOn = day, !.dueOn = day + i]
      BY <1>2, <2>2 DEF Followed, Reopens, StartsOver, Moves
    <3>2. /\ Unkept.remindedFor = Never /\ Unkept.task = Never
          /\ r \in KeptRow /\ r.status = "open" /\ r.dueOn = day + i /\ r.remindedFor = Never /\ r.task = Never
      BY <2>1, <3>1, DayFacts, ZenonT(30) DEF Unkept, KeptRow
    <3> QED
      BY <2>1, <2>2, <3>2
  <2>3. CASE was.status # "none" /\ Reopens(was, day)
    <3>1. r = [is EXCEPT !.status = "open", !.anchorOn = day, !.dueOn = day + i]
      BY <1>2, <2>3 DEF Followed, Reopens, StartsOver, Moves
    <3>2. /\ r \in KeptRow /\ r.status = "open" /\ r.dueOn = day + i
          /\ r.remindedFor = is.remindedFor /\ r.task = is.task
      <4>1. PICK said \in {"none", "open", "done", "dropped"}, anchorOn \in Day \cup {Never},
                 dueOn \in DueDay \cup {Never}, remindedFor \in DueDay \cup {Never}, task \in Nat :
               is = [status |-> said, anchorOn |-> anchorOn, dueOn |-> dueOn,
                     remindedFor |-> remindedFor, task |-> task]
        BY DEF KeptRow
      <4>2. r = [status |-> "open", anchorOn |-> day, dueOn |-> day + i,
                 remindedFor |-> remindedFor, task |-> task]
        BY <3>1, <4>1
      <4> QED
        BY <2>1, <4>1, <4>2 DEF KeptRow
    <3> QED
      BY <2>1, <3>2
  <2>4. CASE was.status # "none" /\ ~Reopens(was, day) /\ Moves(was, day, day + i)
    BY <1>2, <2>1, <2>4 DEF Followed, KeptRow, Moves
  <2>5. CASE was.status # "none" /\ ~Reopens(was, day) /\ ~Moves(was, day, day + i)
    BY <1>2, <2>1, <2>5 DEF Followed
  <2> QED
    BY <2>2, <2>3, <2>4, <2>5
<1> QED
  BY <1>1, <1>2

-----------------------------------------------------------------------------
(* The steps. *)

\* What is shown of each step.
Kept == ActsInv'

LEMMA RowsStay ==
  ASSUME ActsInv, KeptFieldsOK', UNCHANGED <<row, acted, doneFor, between>>,
         Len(tasks') = Len(tasks),
         \A t \in 1 .. Len(tasks) : tasks'[t].dueOn = tasks[t].dueOn,
         \A p \in Pass : Following(p)' => Following(p) /\ read'[p] = read[p]
  PROVE  Kept
<1>1. RowInv' /\ ActedInv' /\ ReadInv'
  <2>1. RowInv /\ ActedInv /\ ReadInv
    BY DEF ActsInv
  <2>2. RowInv' /\ ActedInv'
    BY <2>1 DEF RowInv, ActedInv, ActedOf
  <2>3. ReadInv'
    BY <2>1 DEF ReadInv
  <2> QED
    BY <2>2, <2>3
<1>2. TaskInv'
  <2>1. Len(tasks) \in Nat
    BY LenProperties DEF ActsInv, KeptFieldsOK
  <2> QED
    BY <2>1 DEF ActsInv, TaskInv, TaskOf, Never
<1>3. BetweenInv' /\ DoneForItsDay'
  BY DEF ActsInv, BetweenInv, DoneForItsDay
<1> QED
  BY <1>1, <1>2, <1>3 DEF Kept, ActsInv

LEMMA NextTimePasses ==
  ASSUME ActsInv, TimePasses
  PROVE  Kept
<1>1. KeptFieldsOK'
  BY DeadlinesAssumption DEF ActsInv, KeptFieldsOK, TimePasses, pass, past
<1> QED
  BY <1>1, RowsStay DEF TimePasses, pass, past, Following

LEMMA NextSourceChanges ==
  ASSUME ActsInv, NEW d \in Deadline, SourceChanges(d)
  PROVE  Kept
<1>1. KeptFieldsOK'
  BY DeadlinesAssumption DEF ActsInv, KeptFieldsOK, SourceChanges, Change, pass, past
<1> QED
  BY <1>1, RowsStay DEF SourceChanges, pass, past, Following

LEMMA NextIntervalChanges ==
  ASSUME ActsInv, IntervalChanges
  PROVE  Kept
<1>1. KeptFieldsOK'
  BY DeadlinesAssumption DEF ActsInv, KeptFieldsOK, IntervalChanges, Change, pass, past
<1> QED
  BY <1>1, RowsStay DEF IntervalChanges, pass, past, Following

LEMMA NextBreaks ==
  ASSUME ActsInv, NEW d \in Deadline, Breaks(d)
  PROVE  Kept
<1>1. KeptFieldsOK'
  BY DeadlinesAssumption DEF ActsInv, KeptFieldsOK, Breaks, Change, pass, past
<1> QED
  BY <1>1, RowsStay DEF Breaks, pass, past, Following

LEMMA NextDoTask ==
  ASSUME ActsInv, NEW t \in 1 .. Len(tasks), DoTask(t)
  PROVE  Kept
<1>1. tasks \in Seq(Task)
  BY DEF ActsInv, KeptFieldsOK
<1>2. /\ tasks' \in Seq(Task) /\ Len(tasks') = Len(tasks)
      /\ \A u \in 1 .. Len(tasks) : tasks'[u].dueOn = tasks[u].dueOn
  <2>1. tasks[t] \in Task
    BY <1>1, ElementOfSeq
  <2>2. tasks' = [tasks EXCEPT ![t] = [tasks[t] EXCEPT !.done = TRUE]]
    BY DEF DoTask
  <2>3. [tasks[t] EXCEPT !.done = TRUE] \in Task /\ [tasks[t] EXCEPT !.done = TRUE].dueOn = tasks[t].dueOn
    BY <2>1 DEF Task
  <2> QED
    BY <1>1, <2>2, <2>3, MarkedTask
<1>3. KeptFieldsOK'
  BY <1>2, DeadlinesAssumption DEF ActsInv, KeptFieldsOK, DoTask, Change, pass, past, world
<1> QED
  BY <1>2, <1>3, RowsStay DEF DoTask, pass, past, Following

LEMMA NextAskSources ==
  ASSUME ActsInv, NEW p \in Pass, AskSources(p)
  PROVE  Kept
<1>1. KeptFieldsOK'
  BY DEF ActsInv, KeptFieldsOK, AskSources, past, world
<1>2. \A q \in Pass : Following(q)' => Following(q)
  BY DEF ActsInv, KeptFieldsOK, AskSources, Following
<1> QED
  BY <1>1, <1>2, RowsStay DEF AskSources, past

LEMMA NextList ==
  ASSUME ActsInv, NEW p \in Pass, List(p)
  PROVE  Kept
<1>1. /\ at' = [at EXCEPT ![p] = IF turn'[p] = <<>> THEN "idle" ELSE "reminding"]
      /\ UNCHANGED <<world, row, tasks, read, asked, past, changes>>
  BY DEF List
<1>2. KeptFieldsOK'
  BY <1>1 DEF ActsInv, KeptFieldsOK, past, world
<1>3. \A q \in Pass : Following(q)' => Following(q)
  BY <1>1 DEF ActsInv, KeptFieldsOK, Following
<1> QED
  BY <1>1, <1>2, <1>3, RowsStay DEF past

LEMMA NothingIs ==
  Nothing \in [rows : [Deadline -> KeptRow], interval : Interval]
<1>1. (CHOOSE i \in Interval : TRUE) \in Interval
  BY DeadlinesAssumption
<1> QED
  BY <1>1, DayFacts DEF Nothing

LEMMA NextProcessEnds ==
  ASSUME ActsInv, NEW p \in Pass, PassEnds(p)
  PROVE  Kept
<1>1. NoAnswer \in [Deadline -> Day \cup {Never}]
  BY DEF NoAnswer
<1>2. KeptFieldsOK'
  BY <1>1, NothingIs, DeadlinesAssumption DEF ActsInv, KeptFieldsOK, PassEnds, Change, past, world
<1>3. \A q \in Pass : Following(q)' => Following(q) /\ read'[q] = read[q]
  BY DEF ActsInv, KeptFieldsOK, PassEnds, Following
<1> QED
  BY <1>2, <1>3, RowsStay DEF PassEnds, past

LEMMA NextReadKept ==
  ASSUME ActsInv, NEW p \in Pass, ReadKept(p)
  PROVE  Kept
<1>1. KeptFieldsOK'
  BY DEF ActsInv, KeptFieldsOK, ReadKept, past, world
<1>2. /\ read'[p] = [rows |-> row, interval |-> interval]
      /\ \A q \in Pass : Following(q)' => q = p
  BY DEF ActsInv, KeptFieldsOK, ReadKept, Following
<1>3. RowInv' /\ TaskInv' /\ ActedInv'
  BY DEF ActsInv, RowInv, TaskInv, TaskOf, ActedInv, ActedOf, ReadKept, past
<1>4. ReadInv'
  BY <1>2 DEF ReadInv, ReadKept
<1>5. BetweenInv' /\ DoneForItsDay'
  BY <1>2 DEF ActsInv, BetweenInv, DoneForItsDay, ReadKept, past
<1> QED
  BY <1>1, <1>3, <1>4, <1>5 DEF Kept, ActsInv

\* Somebody marks a deadline, and with it the task of its day.
LEMMA Marks ==
  ASSUME ActsInv, NEW d \in Deadline, NEW s \in {"open", "done"}, row[d].status # "none",
         row' = [row EXCEPT ![d].status = s], WithItsTask(d, s = "done"),
         UNCHANGED <<pass, acted, world>>, changes' \in 0 .. MaxChanges,
         doneFor' = IF s = "done" THEN [doneFor EXCEPT ![d] = row[d].dueOn] ELSE doneFor,
         between' = IF s = "open" THEN between
                    ELSE IF \E p \in Pass : Following(p) THEN between \cup {d} ELSE between \ {d}
  PROVE  Kept
<1>1. row \in [Deadline -> KeptRow] /\ tasks \in Seq(Task) /\ row[d] \in KeptRow
      /\ doneFor \in [Deadline -> DueDay \cup {Never}]
  BY DEF ActsInv, KeptFieldsOK
<1>2. /\ row'[d].status = s /\ row'[d].anchorOn = row[d].anchorOn /\ row'[d].dueOn = row[d].dueOn
      /\ row'[d].remindedFor = row[d].remindedFor /\ row'[d].task = row[d].task
      /\ row' \in [Deadline -> KeptRow]
      /\ \A e \in Deadline \ {d} : row'[e] = row[e]
  BY <1>1 DEF KeptRow
<1>3. /\ tasks' \in Seq(Task) /\ Len(tasks') = Len(tasks)
      /\ \A t \in 1 .. Len(tasks) : tasks'[t].dueOn = tasks[t].dueOn
  <2>1. CASE HasTaskOfTheDay(row[d])
    <3>1. Len(tasks) \in Nat /\ row[d].task \in 0 .. Len(tasks) /\ row[d].task # 0
      BY <1>1, <2>1, LenProperties DEF ActsInv, TaskInv, TaskOf, HasTaskOfTheDay, Never
    <3> DEFINE t == row[d].task
               x == [tasks[t] EXCEPT !.done = (s = "done")]
    <3>2. t \in 1 .. Len(tasks)
      BY <3>1
    <3>3. tasks' = [tasks EXCEPT ![t] = x]
      BY <2>1 DEF WithItsTask
    <3>4. tasks[t] \in Task
      BY <1>1, <3>2, ElementOfSeq
    <3>5. x \in Task /\ x.dueOn = tasks[t].dueOn
      BY <3>4 DEF Task
    <3> HIDE DEF x, t
    <3> QED
      BY <1>1, <3>2, <3>3, <3>5, MarkedTask
  <2>2. CASE ~HasTaskOfTheDay(row[d])
    BY <1>1, <2>2 DEF WithItsTask
  <2> QED
    BY <2>1, <2>2
<1>4. UNCHANGED <<at, read, asked, clock, source, interval, failing>>
  BY DEF pass, world
<1>5. row[d].dueOn \in DueDay
  BY DEF ActsInv, RowInv
<1>6. KeptFieldsOK'
  <2>1. doneFor' \in [Deadline -> DueDay \cup {Never}]
    BY <1>1, <1>5
  <2> QED
    BY <1>2, <1>3, <1>4, <2>1 DEF ActsInv, KeptFieldsOK
<1>7. RowInv'
  BY <1>2, <1>5 DEF ActsInv, RowInv
<1>8. TaskInv'
  <2>1. Len(tasks) \in Nat
    BY <1>1, LenProperties
  <2> QED
    BY <1>2, <1>3, <2>1 DEF ActsInv, TaskInv, TaskOf, Never
<1>9. ActedInv'
  BY <1>2 DEF ActsInv, ActedInv, ActedOf
<1>10. ReadInv'
  BY <1>2, <1>4 DEF ActsInv, ReadInv, Following
<1>11. BetweenInv'
  <2>1. \A p \in Pass : Following(p)' <=> Following(p)
    BY <1>4 DEF Following
  <2>2. s = "done" /\ (\E p \in Pass : Following(p)) => d \in between'
    OBVIOUS
  <2>3. (\E p \in Pass : Following(p)) => between \subseteq between'
    OBVIOUS
  <2> QED
    BY <1>2, <1>4, <2>1, <2>2, <2>3 DEF ActsInv, BetweenInv
<1>12. DoneForItsDay'
  <2>1. \A e \in Deadline \ {d} : e \in between => e \in between'
    OBVIOUS
  <2> QED
    BY <1>1, <1>2, <2>1 DEF ActsInv, DoneForItsDay
<1> QED
  BY <1>6, <1>7, <1>8, <1>9, <1>10, <1>11, <1>12 DEF Kept, ActsInv

LEMMA NextMarkDone ==
  ASSUME ActsInv, NEW d \in Deadline, MarkDone(d)
  PROVE  Kept
<1>1. changes' \in 0 .. MaxChanges
  BY DeadlinesAssumption DEF MarkDone, Change, ActsInv, KeptFieldsOK
<1>2. WithItsTask(d, "done" = "done")
  BY DEF MarkDone
<1> QED
  BY <1>1, <1>2, Marks DEF MarkDone

LEMMA NextReopen ==
  ASSUME ActsInv, NEW d \in Deadline, Reopen(d)
  PROVE  Kept
<1>1. changes' \in 0 .. MaxChanges
  BY DeadlinesAssumption DEF Reopen, Change, ActsInv, KeptFieldsOK
<1>2. WithItsTask(d, "open" = "done")
  BY DEF Reopen, WithItsTask
<1> QED
  BY <1>1, <1>2, Marks DEF Reopen, past

\* The end of the transaction: what it writes over each row.
LEMMA NextFollow ==
  ASSUME ActsInv, NEW p \in Pass, Follow(p)
  PROVE  Kept
<1> DEFINE Result(d) == Followed(read[p].rows[d], row[d], asked[p][d],
                                 asked[p][d] + read[p].interval)
           completed == {d \in Deadline : DoneByItsTask(Result(d))}
<1>1. /\ KeptFieldsOK /\ RowInv /\ TaskInv /\ ActedInv /\ ReadInv
      /\ BetweenInv /\ DoneForItsDay
      /\ row \in [Deadline -> KeptRow] /\ doneFor \in [Deadline -> DueDay \cup {Never}]
  BY DEF ActsInv, KeptFieldsOK
<1>2. /\ at[p] = "asked" /\ at' = [at EXCEPT ![p] = "followed"]
      /\ read' = [read EXCEPT ![p] = Nothing] /\ asked' = [asked EXCEPT ![p] = NoAnswer]
      /\ UNCHANGED <<world, tasks, turn, stopped, acted, changes>>
      /\ row' = [d \in Deadline |-> IF d \in completed THEN [Result(d) EXCEPT !.status = "done"]
                                                       ELSE Result(d)]
      /\ doneFor' = [d \in Deadline |-> IF d \in completed THEN tasks[Result(d).task].dueOn
                                                           ELSE doneFor[d]]
      /\ between' = between \ completed
  BY DEF Follow
<1>3. /\ Following(p)
      /\ \A q \in Pass : Following(q)' => Following(q) /\ q # p
      /\ \A q \in Pass : q # p => ~Following(q)
  <2>1. Following(p)
    BY <1>2 DEF Following
  <2>2. \A q \in Pass : Following(q)' => Following(q) /\ q # p
    BY <1>1, <1>2 DEF Following, KeptFieldsOK
  <2> QED
    BY <1>1, <2>1, <2>2 DEF ReadInv
<1> HIDE DEF Result
<1>4. ASSUME NEW d \in Deadline
      PROVE  /\ Result(d) \in KeptRow
             /\ Result(d).status # "none" => Result(d).dueOn \in DueDay
             /\ Result(d).status = "none" => Result(d) = row[d]
             /\ \/ Result(d).remindedFor = row[d].remindedFor /\ Result(d).task = row[d].task
                \/ row[d].status = "none" /\ Result(d).remindedFor = Never /\ Result(d).task = Never
             /\ Result(d).status = "done" /\ ~(read[p].rows[d].status = "open" /\ row[d].status = "done")
                   => Result(d) = row[d]
  <2>1. /\ read[p].rows[d] \in KeptRow /\ row[d] \in KeptRow /\ asked[p][d] \in Day \cup {Never}
        /\ read[p].interval \in Interval
    BY <1>1, RowFacts
  <2>2. /\ read[p].rows[d].status = "none" <=> row[d].status = "none"
        /\ row[d].status # "none" => row[d].dueOn \in DueDay
    BY <1>1, <1>3 DEF ReadInv, RowInv
  <2>3. Result(d) = Followed(read[p].rows[d], row[d], asked[p][d], asked[p][d] + read[p].interval)
    BY DEF Result
  <2> DEFINE was  == read[p].rows[d]
             is   == row[d]
             days == read[p].interval
             from == asked[p][d]
             r    == Result(d)
  <2>4. /\ was \in KeptRow /\ is \in KeptRow /\ from \in Day \cup {Never} /\ days \in Interval
        /\ was.status = "none" <=> is.status = "none"
        /\ is.status # "none" => is.dueOn \in DueDay
        /\ r = Followed(was, is, from, from + days)
    BY <2>1, <2>2, <2>3
  <2> HIDE DEF was, is, days, from, r
  <2>5. /\ r \in KeptRow
        /\ r.status # "none" => r.dueOn \in DueDay
        /\ r.status = "none" => r = is
        /\ \/ r.remindedFor = is.remindedFor /\ r.task = is.task
           \/ is.status = "none" /\ r.remindedFor = Never /\ r.task = Never
        /\ r.status = "done" /\ ~(was.status = "open" /\ is.status = "done") => r = is
    BY <2>4, FollowedIs
  <2> QED
    BY <2>5 DEF was, is, r
<1>5. \A d \in Deadline : TaskOf(Result(d))
  <2>1. Len(tasks) \in Nat
    BY <1>1, LenProperties DEF KeptFieldsOK
  <2> QED
    BY <1>1, <1>4, <2>1 DEF TaskInv, TaskOf, Never
<1>6. \A d \in completed : /\ d \in Deadline /\ Result(d).status = "open"
                           /\ tasks[Result(d).task].dueOn = Result(d).dueOn
  BY <1>5 DEF DoneByItsTask, HasTaskOfTheDay, TaskOf
<1>7. \A d \in Deadline :
         /\ row'[d] \in KeptRow /\ row'[d].dueOn = Result(d).dueOn
         /\ row'[d].remindedFor = Result(d).remindedFor /\ row'[d].task = Result(d).task
         /\ d \in completed => row'[d].status = "done" /\ doneFor'[d] = Result(d).dueOn
         /\ d \notin completed => row'[d] = Result(d) /\ doneFor'[d] = doneFor[d]
  BY <1>2, <1>4, <1>6, ZenonT(30) DEF KeptRow
<1> HIDE DEF completed
<1>8. KeptFieldsOK'
  <2>1. row' \in [Deadline -> KeptRow]
    BY <1>2, <1>7
  <2>2. \A d \in Deadline : doneFor'[d] \in DueDay \cup {Never}
    BY <1>1, <1>4, <1>6, <1>7
  <2>3. doneFor' \in [Deadline -> DueDay \cup {Never}]
    BY <1>2, <2>2
  <2>4. read' \in [Pass -> [rows : [Deadline -> KeptRow], interval : Interval]]
    BY <1>1, <1>2, NothingIs DEF KeptFieldsOK
  <2>5. asked' \in [Pass -> [Deadline -> Day \cup {Never}]]
    BY <1>1, <1>2 DEF KeptFieldsOK, NoAnswer
  <2> QED
    BY <1>1, <1>2, <2>1, <2>3, <2>4, <2>5 DEF KeptFieldsOK, world
<1>9. RowInv'
  BY <1>4, <1>6, <1>7 DEF RowInv
<1>10. TaskInv'
  BY <1>2, <1>5, <1>7 DEF TaskInv, TaskOf
<1>11. ActedInv'
  <2>1. \A d \in Deadline : row'[d].status = "none" => row[d].status = "none"
    BY <1>4, <1>7
  <2>2. \A d \in Deadline : row'[d].remindedFor = row[d].remindedFor \/ row[d].status = "none"
    BY <1>4, <1>7
  <2> QED
    BY <1>1, <1>2, <2>1, <2>2 DEF ActedInv, ActedOf
<1>12. ReadInv'
  BY <1>3 DEF ReadInv
<1>13. BetweenInv'
  BY <1>3 DEF BetweenInv
<1>14. DoneForItsDay'
  <2>1. ASSUME NEW d \in Deadline, row'[d].status = "done"
        PROVE  row'[d].dueOn = doneFor'[d] \/ d \in between'
    <3>1. CASE d \in completed
      BY <1>7, <3>1
    <3>2. CASE d \notin completed
      <4>1. Result(d).status = "done" /\ row'[d] = Result(d) /\ doneFor'[d] = doneFor[d]
            /\ (d \in between => d \in between')
        BY <1>2, <1>7, <2>1, <3>2
      <4>2. row[d].status = "done" => row[d].dueOn = doneFor[d] \/ d \in between
        BY <1>1 DEF DoneForItsDay
      <4>3. read[p].rows[d].status = "open" /\ row[d].status = "done" => d \in between
        BY <1>1, <1>3 DEF BetweenInv
      <4> QED
        BY <1>4, <4>1, <4>2, <4>3
    <3> QED
      BY <3>1, <3>2
  <2> QED
    BY <2>1 DEF DoneForItsDay
<1> QED
  BY <1>8, <1>9, <1>10, <1>11, <1>12, <1>13, <1>14 DEF Kept, ActsInv

\* The mark of the day, and a task of it.
LEMMA Acts ==
  ASSUME ActsInv, NEW d \in Deadline, Unreminded(row[d]), Act(d),
         UNCHANGED <<world, read, asked, doneFor, between, changes>>,
         at' \in [Pass -> {"idle", "read", "asked", "followed", "reminding"}],
         \A q \in Pass : Following(q)' => Following(q)
  PROVE  Kept
<1> DEFINE day == row[d].dueOn
<1>1. /\ KeptFieldsOK /\ RowInv /\ TaskInv /\ ActedInv /\ ReadInv
      /\ row \in [Deadline -> KeptRow] /\ row[d] \in KeptRow /\ tasks \in Seq(Task) /\ Len(tasks) \in Nat
      /\ acted \in [Deadline -> Seq(DueDay)] /\ acted[d] \in Seq(DueDay) /\ Len(acted[d]) \in Nat
  BY LenProperties DEF ActsInv, KeptFieldsOK
<1>2. row[d].status = "open" /\ row[d].remindedFor # day /\ day \in DueDay
  BY <1>1 DEF Unreminded, RowInv
<1>3. PICK t \in Nat \ {0} :
         /\ row' = Reminded(d, t)
         /\ tasks' \in Seq(Task) /\ t <= Len(tasks') /\ Len(tasks) <= Len(tasks') /\ Len(tasks') \in Nat
         /\ tasks'[t].dueOn = day
         /\ \A u \in 1 .. Len(tasks) : tasks'[u].dueOn = tasks[u].dueOn
  <2>1. CASE /\ tasks' = Append(tasks, [dueOn |-> day, done |-> FALSE])
             /\ row' = Reminded(d, Len(tasks) + 1)
    <3>1. [dueOn |-> day, done |-> FALSE] \in Task
      BY <1>2 DEF Task
    <3>2. /\ tasks' \in Seq(Task) /\ Len(tasks') = Len(tasks) + 1
          /\ tasks'[Len(tasks) + 1].dueOn = day
          /\ \A u \in 1 .. Len(tasks) : tasks'[u].dueOn = tasks[u].dueOn
      BY <1>1, <2>1, <3>1, Noted
    <3> DEFINE t == Len(tasks) + 1
    <3>3. t \in Nat \ {0} /\ t <= Len(tasks') /\ Len(tasks) <= Len(tasks') /\ Len(tasks') \in Nat
      BY <1>1, <3>2
    <3>4. row' = Reminded(d, t) /\ tasks'[t].dueOn = day
      BY <2>1, <3>2
    <3> HIDE DEF t
    <3> QED
      BY <3>2, <3>3, <3>4
  <2>2. \A t \in Shared(day) : t \in 1 .. Len(tasks) /\ tasks[t].dueOn = day
    BY DEF Shared
  <2>3. CASE \E t \in Shared(day) : row' = Reminded(d, t) /\ UNCHANGED tasks
    <3>1. PICK t \in Shared(day) : row' = Reminded(d, t) /\ UNCHANGED tasks
      BY <2>3
    <3>2. t \in Nat \ {0} /\ t <= Len(tasks) /\ tasks[t].dueOn = day
      BY <1>1, <2>2
    <3> QED
      BY <1>1, <3>1, <3>2
  <2> QED
    BY <2>1, <2>3 DEF Act
<1>4. /\ row'[d].remindedFor = day /\ row'[d].task = t /\ row'[d].status = "open"
      /\ row'[d].dueOn = day
      /\ row' \in [Deadline -> KeptRow] /\ \A e \in Deadline \ {d} : row'[e] = row[e]
  BY <1>1, <1>2, <1>3 DEF KeptRow, Reminded
<1>5. /\ acted' = [acted EXCEPT ![d] = Append(@, day)]
      /\ acted'[d] \in Seq(DueDay) /\ acted'[d] # <<>> /\ Len(acted'[d]) = Len(acted[d]) + 1
      /\ \A i \in 1 .. Len(acted[d]) : acted'[d][i] = acted[d][i]
      /\ acted'[d][Len(acted[d]) + 1] = day
      /\ acted' \in [Deadline -> Seq(DueDay)]
      /\ \A e \in Deadline \ {d} : acted'[e] = acted[e]
  <2>1. acted' = [acted EXCEPT ![d] = Append(@, day)]
    BY DEF Act
  <2>2. acted'[d] = Append(acted[d], day)
    BY <1>1, <2>1
  <2>3. /\ Append(acted[d], day) \in Seq(DueDay) /\ Append(acted[d], day) # <<>>
        /\ Len(Append(acted[d], day)) = Len(acted[d]) + 1
        /\ \A i \in 1 .. Len(acted[d]) : Append(acted[d], day)[i] = acted[d][i]
        /\ Append(acted[d], day)[Len(acted[d]) + 1] = day
    <3>1. day \in DueDay /\ acted[d] \in Seq(DueDay)
      BY <1>1, <1>2
    <3> HIDE DEF day
    <3> QED
      BY <3>1, Noted
  <2> HIDE DEF day
  <2> QED
    BY <1>1, <2>1, <2>2, <2>3
<1> HIDE DEF day
<1>6. KeptFieldsOK'
  BY <1>1, <1>3, <1>4, <1>5 DEF KeptFieldsOK, world
<1>7. RowInv'
  BY <1>1, <1>2, <1>4 DEF RowInv
<1>8. TaskInv'
  <2>1. ASSUME NEW e \in Deadline \ {d}
        PROVE  /\ row'[e].task \in 0 .. Len(tasks')
               /\ row'[e].task # Never => tasks'[row'[e].task].dueOn = row'[e].remindedFor
    <3>1. /\ row'[e] = row[e] /\ row[e].task \in 0 .. Len(tasks)
          /\ row[e].task # Never => tasks[row[e].task].dueOn = row[e].remindedFor
      BY <1>1, <1>4 DEF TaskInv, TaskOf
    <3>2. row[e].task # Never => row[e].task \in 1 .. Len(tasks)
      BY <1>1, <3>1 DEF Never
    <3> QED
      BY <1>1, <1>3, <3>1, <3>2
  <2>2. row'[d].task \in 0 .. Len(tasks') /\ tasks'[row'[d].task].dueOn = row'[d].remindedFor
    BY <1>3, <1>4
  <2> QED
    BY <2>1, <2>2 DEF TaskInv, TaskOf
<1>9. ActedInv'
  <2>1. ActedOf(d)'
    <3>1. acted[d] # <<>> => acted[d][Len(acted[d])] # day
      BY <1>1, <1>2 DEF ActedInv, ActedOf, day
    <3>2. acted[d] = <<>> => Len(acted[d]) = 0
      BY <1>1, EmptySeq
    <3>3. \A i \in 1 .. Len(acted'[d]) - 1 : acted'[d][i] # acted'[d][i + 1]
      BY <1>1, <1>5, <3>1, <3>2 DEF ActedInv, ActedOf
    <3> QED
      BY <1>4, <1>5, <3>3 DEF ActedOf
  <2>2. \A e \in Deadline \ {d} : ActedOf(e)'
    BY <1>1, <1>4, <1>5 DEF ActedInv, ActedOf
  <2> QED
    BY <2>1, <2>2 DEF ActedInv
<1>10. \A e \in Deadline : row'[e].status = row[e].status /\ row'[e].dueOn = row[e].dueOn
  BY <1>2, <1>4 DEF day
<1>11. ReadInv'
  BY <1>1, <1>10 DEF ReadInv
<1>12. BetweenInv' /\ DoneForItsDay'
  BY <1>1, <1>10 DEF ActsInv, BetweenInv, DoneForItsDay
<1> QED
  BY <1>6, <1>7, <1>8, <1>9, <1>11, <1>12 DEF Kept, ActsInv

LEMMA NextRemind ==
  ASSUME ActsInv, NEW p \in Pass, NEW d \in Deadline, Remind(p, d)
  PROVE  Kept
<1>1. /\ at[p] = "reminding" /\ UNCHANGED <<world, read, asked, stopped, doneFor, between, changes>>
      /\ at' = [at EXCEPT ![p] = IF Len(turn[p]) = 1 THEN "idle" ELSE @]
  BY DEF Remind
<1>2. /\ at' \in [Pass -> {"idle", "read", "asked", "followed", "reminding"}]
      /\ \A q \in Pass : Following(q)' => Following(q)
  BY <1>1 DEF ActsInv, KeptFieldsOK, Following
<1>3. CASE Claims(Head(turn[p])) /\ d \notin failing /\ Act(d)
  <2>1. Unreminded(row[d])
    BY <1>3 DEF Claims, Remind
  <2> QED
    BY <1>1, <1>2, <1>3, <2>1, Acts
<1>4. CASE UNCHANGED <<row, tasks, acted>>
  <2>1. KeptFieldsOK'
    BY <1>1, <1>2, <1>4 DEF ActsInv, KeptFieldsOK, world
  <2> QED
    BY <1>1, <1>2, <1>4, <2>1, RowsStay
<1> QED
  BY <1>3, <1>4 DEF Remind

-----------------------------------------------------------------------------
LEMMA InitInv == DeadlinesInit => ActsInv
<1> SUFFICES ASSUME DeadlinesInit
             PROVE  ActsInv
  OBVIOUS
<1>1. /\ row = [d \in Deadline |-> Unkept] /\ tasks = <<>> /\ \A p \in Pass : ~Following(p)
      /\ doneFor = [d \in Deadline |-> Never] /\ acted = [d \in Deadline |-> <<>>]
  BY DEF DeadlinesInit, Nothing, NoAnswer, Following
<1>2. Len(tasks) = 0 /\ tasks \in Seq(Task) /\ \A S : <<>> \in Seq(S)
  BY <1>1, EmptySeq
<1>3. /\ Unkept.status = "none" /\ Unkept.task = Never /\ Never = 0
      /\ Unkept.remindedFor = Never
  BY DEF Unkept, Never
<1>4. NoAnswer \in [Deadline -> Day \cup {Never}]
  BY DEF NoAnswer
<1>5. KeptFieldsOK
  <2>1. row \in [Deadline -> KeptRow] /\ acted \in [Deadline -> Seq(DueDay)]
    BY <1>1, <1>2, DayFacts
  <2>2. clock \in 1 .. LastClock /\ changes \in 0 .. MaxChanges
    BY DeadlinesAssumption DEF DeadlinesInit
  <2>3. doneFor \in [Deadline -> DueDay \cup {Never}]
    BY <1>1
  <2>4. /\ at \in [Pass -> {"idle", "read", "asked", "followed", "reminding"}]
        /\ read \in [Pass -> [rows : [Deadline -> KeptRow], interval : Interval]]
        /\ asked \in [Pass -> [Deadline -> Day \cup {Never}]]
    BY <1>4, NothingIs DEF DeadlinesInit
  <2> QED
    BY <1>2, <1>4, <2>1, <2>2, <2>3, <2>4 DEF DeadlinesInit, KeptFieldsOK
<1>6. RowInv /\ ReadInv /\ BetweenInv /\ DoneForItsDay
  BY <1>1, <1>3 DEF RowInv, ReadInv, BetweenInv, DoneForItsDay
<1>7. TaskInv
  BY <1>1, <1>2, <1>3 DEF TaskInv, TaskOf
<1>8. ActedInv
  <2>1. Len(<<>>) = 0
    BY EmptySeq
  <2> QED
    BY <1>1, <2>1 DEF ActedInv, ActedOf
<1> QED
  BY <1>5, <1>6, <1>7, <1>8 DEF ActsInv

LEMMA NextInv == ActsInv /\ [DeadlinesNext]_deadlineVars => Kept
<1> SUFFICES ASSUME ActsInv, [DeadlinesNext]_deadlineVars
             PROVE  Kept
  OBVIOUS
<1>1. CASE UNCHANGED deadlineVars
  <2>1. KeptFieldsOK'
    BY <1>1 DEF deadlineVars, pass, past, world, ActsInv, KeptFieldsOK
  <2> QED
    BY <1>1, <2>1, RowsStay DEF deadlineVars, pass, past, Following
<1>2. CASE TimePasses \/ People
  BY <1>2, NextTimePasses, NextSourceChanges, NextMarkDone, NextReopen, NextDoTask,
     NextIntervalChanges DEF People
<1>3. ASSUME NEW d \in Deadline, Breaks(d)
      PROVE  Kept
  BY <1>3, NextBreaks
<1>4. ASSUME NEW p \in Pass, RunPass(p) \/ PassEnds(p)
      PROVE  Kept
  BY <1>4, NextReadKept, NextAskSources, NextFollow, NextList, NextRemind, NextProcessEnds
     DEF RunPass
<1> QED
  BY <1>1, <1>2, <1>3, <1>4 DEF DeadlinesNext

LEMMA Invariant == DeadlinesSpec => []ActsInv
<1>1. ActsInv /\ [DeadlinesNext]_deadlineVars => ActsInv'
  BY NextInv DEF Kept
<1> QED
  BY <1>1, InitInv, PTL DEF DeadlinesSpec

\* What a deadline makes it makes once for each due day it comes to, whoever marks
\* it in between, and however many passes run (remindOne, deadlines/engine.ts).
THEOREM OncePerDay == DeadlinesSpec => []ActsOncePerDay
<1>1. ActsInv => ActsOncePerDay
  BY DEF ActsInv, ActedInv, ActedOf, ActsOncePerDay
<1> QED
  BY <1>1, Invariant, PTL

\* Whoever marks deadlines, and whenever: a done deadline is done for the day it
\* has, but for one that was marked done between the reading and the writing of a
\* pass (reconcileDeadlines, deadlines/engine.ts, and done, deadlines.controller.ts).
THEOREM DoneForTheDay == DeadlinesSpec => []DoneForItsDay
<1>1. ActsInv => DoneForItsDay
  BY DEF ActsInv
<1> QED
  BY <1>1, Invariant, PTL
=============================================================================

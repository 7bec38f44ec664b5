-------------------------- MODULE MailOutbox_proofs -------------------------
(***************************************************************************)
(* What holds of the outbox of the mail for every number of messages,      *)
(* processes and mishaps.                                                  *)
(*                                                                         *)
(* A message has chances to go out: one for every pass that has claimed it *)
(* and not handed it over, and one more as long as it can still be claimed *)
(* without a mishap.  No step makes a chance out of nothing but a mishap   *)
(* that is counted, and every delivery uses one up (ChancesInv).  That a   *)
(* note in the outbox is true needs that without a mishap nobody but one   *)
(* pass holds a message (TruthInv).                                        *)
(***************************************************************************)
EXTENDS MailOutbox, FiniteSetTheorems, SequenceTheorems, TLAPS

\* A pass that has claimed a message and may still hand it over.
Carries(p, m) == m \in Claimed(p) /\ ~(pc[p] = "sent" /\ current[p] = m)
Carriers(m)   == {p \in Process : Carries(p, m)}

\* A message that can be claimed, now or later, without anything going wrong.
Open(m) ==
    \/ status[m] = "unwritten" \/ m \in Range(due)
    \/ status[m] = "pending" /\ ~Held(m)

Unclaimed(m) == IF Open(m) THEN 1 ELSE 0
ChancesOf(m) == /\ IsFiniteSet(Carriers(m))
                /\ delivered[m] + Cardinality(Carriers(m)) + Unclaimed(m) <= 1 + excused[m]

ChancesInv == \A m \in Message : ChancesOf(m)

CauseOf(m) ==
    /\ m \in asked => status[m] = "unwritten"
    /\ status[m] = "unwritten" => ~Held(m) /\ delivered[m] = 0

CauseInv == \A m \in Message : CauseOf(m)

TruthOf(m) ==
    excused[m] = 0 =>
        /\ \A p, q \in Process : m \in Claimed(p) /\ m \in Claimed(q) => p = q
        /\ m \in Range(due) => ~Held(m)
        /\ \A p \in Process : m \in Claimed(p) =>
              /\ status[m] \in {"pending", "failed"}
              /\ delivered[m] > 0 <=> pc[p] = "sent" /\ current[p] = m
        /\ ~Held(m) => (status[m] = "sent" <=> delivered[m] > 0)

TruthInv == \A m \in Message : TruthOf(m)

IInv == TypeOK /\ CauseInv /\ ChancesInv /\ TruthInv

-----------------------------------------------------------------------------
(* The list of what is due. *)

\* A message that comes due is on the list once more than before.
LEMMA AppendedOnce ==
  ASSUME NEW s \in Seq(Message), IsInjective(s), NEW m \in Message, m \notin Range(s)
  PROVE  /\ Append(s, m) \in Seq(Message) /\ IsInjective(Append(s, m))
         /\ Range(Append(s, m)) = Range(s) \cup {m}
<1>1. /\ Append(s, m) \in Seq(Message) /\ Len(Append(s, m)) = Len(s) + 1
      /\ \A i \in 1 .. Len(s) : Append(s, m)[i] = s[i]
      /\ Append(s, m)[Len(s) + 1] = m
  BY AppendProperties
<1>2. \A i \in 1 .. Len(s) + 1 : i \in 1 .. Len(s) \/ i = Len(s) + 1
  OBVIOUS
<1>3. Range(s) = {s[i] : i \in 1 .. Len(s)}
  BY RangeEquality
<1>4. Range(Append(s, m)) = {Append(s, m)[i] : i \in 1 .. Len(s) + 1}
  BY <1>1, RangeEquality
<1>5. Range(Append(s, m)) = Range(s) \cup {m}
  BY <1>1, <1>2, <1>3, <1>4
<1>6. IsInjective(Append(s, m))
  BY <1>1, <1>2, <1>3 DEF IsInjective
<1> QED
  BY <1>1, <1>5, <1>6

\* Claiming cuts the list in two, and no message is in both parts.
LEMMA CutInTwo ==
  ASSUME NEW s \in Seq(Message), IsInjective(s), NEW k \in 0 .. Len(s)
  PROVE  LET rest == SubSeq(s, k + 1, Len(s)) IN
         /\ Range(SubSeq(s, 1, k)) \subseteq Range(s)
         /\ rest \in Seq(Message) /\ IsInjective(rest)
         /\ Range(rest) = Range(s) \ Range(SubSeq(s, 1, k))
<1> DEFINE first == SubSeq(s, 1, k)
           rest  == SubSeq(s, k + 1, Len(s))
<1>1. \A i \in 1 .. Len(s) : s[i] \in Message
  BY ElementOfSeq
<1>2. Len(s) \in Nat
  BY LenProperties
<1>3. /\ first \in Seq(Message) /\ Len(first) = k
      /\ \A i \in 1 .. k : first[i] = s[i]
  BY <1>1, <1>2, SubSeqProperties
<1>4. /\ rest \in Seq(Message) /\ Len(rest) = Len(s) - k
      /\ \A i \in 1 .. Len(s) - k : rest[i] = s[k + i]
  <2>1. \A i \in k + 1 .. Len(s) : s[i] \in Message
    BY <1>1
  <2>2. \A i \in 1 .. Len(s) - k : (k + 1) + i - 1 = k + i
    BY <1>2
  <2> QED
    BY <1>2, <2>1, <2>2, SubSeqProperties
<1>5. Range(s) = {s[i] : i \in 1 .. Len(s)} /\ Range(first) = {s[i] : i \in 1 .. k}
  <2>1. Range(first) = {first[i] : i \in 1 .. k}
    <3> HIDE DEF first
    <3> QED
      BY <1>3, RangeEquality
  <2>2. {first[i] : i \in 1 .. k} = {s[i] : i \in 1 .. k}
    BY <1>3
  <2> QED
    BY <2>1, <2>2, RangeEquality
<1>6. Range(rest) = {s[i] : i \in k + 1 .. Len(s)}
  <2> HIDE DEF rest
  <2>1. Range(rest) = {rest[i] : i \in 1 .. Len(s) - k}
    BY <1>4, RangeEquality
  <2>2. \A i \in k + 1 .. Len(s) : i - k \in 1 .. Len(s) - k /\ rest[i - k] = s[i]
    BY <1>2, <1>4
  <2>3. \A i \in 1 .. Len(s) - k : k + i \in k + 1 .. Len(s) /\ rest[i] = s[k + i]
    BY <1>2, <1>4
  <2>4. ASSUME NEW e \in Range(rest) PROVE e \in {s[i] : i \in k + 1 .. Len(s)}
    BY <2>1, <2>3
  <2>5. ASSUME NEW i \in k + 1 .. Len(s) PROVE s[i] \in Range(rest)
    BY <2>1, <2>2
  <2> QED
    BY <2>4, <2>5
<1>7. \A i, j \in 1 .. Len(s) : s[i] = s[j] => i = j
  BY DEF IsInjective
<1>8. IsInjective(rest)
  <2> SUFFICES ASSUME NEW i \in 1 .. Len(s) - k, NEW j \in 1 .. Len(s) - k, rest[i] = rest[j]
               PROVE  i = j
    BY <1>4 DEF IsInjective
  <2>1. k + i \in 1 .. Len(s) /\ k + j \in 1 .. Len(s) /\ s[k + i] = s[k + j]
    BY <1>2, <1>4
  <2>2. k + i = k + j
    BY <1>7, <2>1
  <2> QED
    BY <2>2
<1>9. \A i \in 1 .. Len(s) : i \in 1 .. k \/ i \in k + 1 .. Len(s)
  BY <1>2
<1>10. \A i \in 1 .. k, j \in k + 1 .. Len(s) : s[i] # s[j]
  BY <1>2, <1>7
<1> QED
  BY <1>4, <1>5, <1>6, <1>8, <1>9, <1>10

\* What is written down is due no more.
LEMMA RemovedOnce ==
  ASSUME NEW s \in Seq(Message), IsInjective(s), NEW m
  PROVE  /\ RemoveFirst(s, m) \in Seq(Message) /\ IsInjective(RemoveFirst(s, m))
         /\ Range(RemoveFirst(s, m)) = Range(s) \ {m}
<1>1. Range(s) = {s[i] : i \in 1 .. Len(s)} /\ Len(s) \in Nat
  BY RangeEquality, LenProperties
<1>2. CASE m \notin Range(s)
  <2>1. RemoveFirst(s, m) = s
    BY <1>1, <1>2 DEF RemoveFirst
  <2> QED
    BY <1>2, <2>1
<1>3. CASE m \in Range(s)
  <2>1. PICK k \in 1 .. Len(s) : s[k] = m
    BY <1>1, <1>3
  <2>2. {i \in 1 .. Len(s) : s[i] = m} = {k}
    BY <2>1 DEF IsInjective
  <2>3. Min({k}) = k
    BY DEF Min
  <2>4. RemoveFirst(s, m) = SubSeq(s, 1, k - 1) \o SubSeq(s, k + 1, Len(s))
    BY <2>1, <2>2, <2>3 DEF RemoveFirst, SelectInSeq, RemoveAt
  <2> DEFINE r == RemoveFirst(s, m)
  <2>5. \A i \in 1 .. Len(s) : s[i] \in Message
    BY ElementOfSeq
  <2>6. /\ SubSeq(s, 1, k - 1) \in Seq(Message) /\ Len(SubSeq(s, 1, k - 1)) = k - 1
        /\ \A i \in 1 .. k - 1 : SubSeq(s, 1, k - 1)[i] = s[i]
    BY <1>1, <2>5, SubSeqProperties
  <2>7. /\ SubSeq(s, k + 1, Len(s)) \in Seq(Message) /\ Len(SubSeq(s, k + 1, Len(s))) = Len(s) - k
        /\ \A i \in 1 .. Len(s) - k : SubSeq(s, k + 1, Len(s))[i] = s[k + i]
    <3>1. \A i \in k + 1 .. Len(s) : s[i] \in Message
      BY <2>5
    <3>2. \A i \in 1 .. Len(s) - k : (k + 1) + i - 1 = k + i
      BY <1>1
    <3> QED
      BY <1>1, <3>1, <3>2, SubSeqProperties
  <2>8. /\ r \in Seq(Message) /\ Len(r) = Len(s) - 1
        /\ \A i \in 1 .. Len(s) - 1 : r[i] = IF i < k THEN s[i] ELSE s[i + 1]
    <3>1. /\ r \in Seq(Message) /\ Len(r) = (k - 1) + (Len(s) - k)
          /\ \A i \in 1 .. (k - 1) + (Len(s) - k) :
                r[i] = IF i <= k - 1 THEN SubSeq(s, 1, k - 1)[i]
                                     ELSE SubSeq(s, k + 1, Len(s))[i - (k - 1)]
      <4> DEFINE first == SubSeq(s, 1, k - 1)
                 rest  == SubSeq(s, k + 1, Len(s))
      <4>1. /\ first \in Seq(Message) /\ rest \in Seq(Message) /\ r = first \o rest
            /\ Len(first) = k - 1 /\ Len(rest) = Len(s) - k
        BY <2>4, <2>6, <2>7
      <4> HIDE DEF first, rest, r
      <4>2. /\ r \in Seq(Message) /\ Len(r) = Len(first) + Len(rest)
            /\ \A i \in 1 .. Len(first) + Len(rest) :
                  r[i] = IF i <= Len(first) THEN first[i] ELSE rest[i - Len(first)]
        BY <4>1, ConcatProperties
      <4> QED
        BY <4>1, <4>2 DEF first, rest
    <3>2. (k - 1) + (Len(s) - k) = Len(s) - 1
      BY <1>1
    <3>3. ASSUME NEW i \in 1 .. Len(s) - 1
          PROVE  r[i] = IF i < k THEN s[i] ELSE s[i + 1]
      <4>1. CASE i < k
        BY <1>1, <2>6, <3>1, <3>2, <4>1
      <4>2. CASE ~(i < k)
        <5>1. i - (k - 1) \in 1 .. Len(s) - k /\ k + (i - (k - 1)) = i + 1
          BY <1>1, <4>2
        <5>2. r[i] = SubSeq(s, k + 1, Len(s))[i - (k - 1)]
          BY <1>1, <3>1, <3>2, <4>2
        <5>3. SubSeq(s, k + 1, Len(s))[i - (k - 1)] = s[k + (i - (k - 1))]
          BY <2>7, <5>1
        <5> QED
          BY <4>2, <5>1, <5>2, <5>3
      <4> QED
        BY <4>1, <4>2
    <3> QED
      BY <3>1, <3>2, <3>3
  <2>9. \A i, j \in 1 .. Len(s) : s[i] = s[j] => i = j
    BY DEF IsInjective
  <2>10. IsInjective(r)
    <3> SUFFICES ASSUME NEW i \in 1 .. Len(s) - 1, NEW j \in 1 .. Len(s) - 1, r[i] = r[j]
                 PROVE  i = j
      BY <2>8 DEF IsInjective
    <3> QED
      BY <1>1, <2>8, <2>9
  <2>11. Range(r) = {r[i] : i \in 1 .. Len(s) - 1}
    BY <2>8, RangeEquality
  <2>12. \A i \in 1 .. Len(s) - 1 : r[i] \in Range(s) \ {m}
    BY <1>1, <2>1, <2>8, <2>9
  <2>13. ASSUME NEW i \in 1 .. Len(s), s[i] # m PROVE s[i] \in Range(r)
    <3>1. CASE i < k
      BY <1>1, <2>8, <2>11, <3>1
    <3>2. CASE i > k
      <4>1. i - 1 \in 1 .. Len(s) - 1 /\ ~(i - 1 < k) /\ (i - 1) + 1 = i
        BY <1>1, <3>2
      <4>2. r[i - 1] = s[i]
        BY <2>8, <4>1
      <4> QED
        BY <2>11, <4>1, <4>2
    <3> QED
      BY <2>1, <2>13, <3>1, <3>2
  <2> QED
    BY <1>1, <2>8, <2>10, <2>11, <2>12, <2>13, ZenonT(30)
<1> QED
  BY <1>2, <1>3

-----------------------------------------------------------------------------
(* Types. *)

\* What a claim takes is due before and not after.
LEMMA ClaimTakesDue ==
  ASSUME TypeOK, NEW p \in Process, ClaimDue(p)
  PROVE  LET taken == Range(First(Limit)) IN
         /\ taken \subseteq Range(due)
         /\ due' \in Seq(Message) /\ IsInjective(due') /\ Range(due') = Range(due) \ taken
         /\ Claimed(p) = {} /\ Claimed(p)' = taken
         /\ \A q \in Process : q # p => Claimed(q)' = Claimed(q)
<1> DEFINE k == IF Limit < Len(due) THEN Limit ELSE Len(due)
<1>1. due \in Seq(Message) /\ IsInjective(due) /\ Len(due) \in Nat
  BY LenProperties DEF TypeOK, FieldsOK, DueOK
<1>2. k \in 0 .. Len(due)
  BY <1>1, MailOutboxAssumption
<1>3. First(Limit) = SubSeq(due, 1, k)
  BY DEF First
<1>4. Len(First(Limit)) = k
  <2>1. \A i \in 1 .. k : due[i] \in Message
    BY <1>1, <1>2, ElementOfSeq
  <2> QED
    BY <1>2, <1>3, <2>1, SubSeqProperties
<1>5. due' = SubSeq(due, k + 1, Len(due))
  BY <1>4 DEF ClaimDue
<1> HIDE DEF k
<1>6. /\ Range(First(Limit)) \subseteq Range(due)
      /\ due' \in Seq(Message) /\ IsInjective(due')
      /\ Range(due') = Range(due) \ Range(First(Limit))
  BY <1>1, <1>2, <1>3, <1>5, CutInTwo
<1>7. Claimed(p) = {}
  BY DEF ClaimDue, TypeOK, FieldsOK, PassOK
<1>8. Claimed(p)' = Range(First(Limit)) /\ \A q \in Process : q # p => Claimed(q)' = Claimed(q)
  BY DEF ClaimDue, TypeOK, FieldsOK, PassOK, Claimed
<1> QED
  BY <1>6, <1>7, <1>8

\* What is due is pending, and due once.
LEMMA NextDueOK == TypeOK /\ CauseInv /\ [Next]_vars => DueOK'
<1> SUFFICES ASSUME TypeOK, CauseInv, [Next]_vars PROVE DueOK'
  OBVIOUS
<1>0. Range(due) \subseteq Message
  BY RangeOfSeq DEF TypeOK, FieldsOK, DueOK
<1>1. ASSUME NEW m \in Message, Write(m) PROVE DueOK'
  <2>1. m \notin Range(due)
    BY <1>1 DEF Write, TypeOK, DueOK, CauseInv, CauseOf
  <2>2. due' \in Seq(Message) /\ IsInjective(due') /\ Range(due') = Range(due) \cup {m}
    BY <1>1, <2>1, AppendedOnce DEF Write, TypeOK, FieldsOK, DueOK
  <2> QED
    BY <1>0, <1>1, <2>2 DEF Write, TypeOK, FieldsOK, DueOK
<1>2. ASSUME NEW m \in Message, ComesDue(m) PROVE DueOK'
  <2>1. due' \in Seq(Message) /\ IsInjective(due') /\ Range(due') = Range(due) \cup {m}
    BY <1>2, AppendedOnce DEF ComesDue, TypeOK, FieldsOK, DueOK
  <2> QED
    BY <1>2, <2>1 DEF ComesDue, TypeOK, FieldsOK, DueOK
<1>3. CASE RemoveMailServer
  BY <1>3 DEF RemoveMailServer, DueOK, IsInjective, Range
<1>4. ASSUME NEW p \in Process, ClaimDue(p) PROVE DueOK'
  BY <1>4, ClaimTakesDue DEF ClaimDue, TypeOK, FieldsOK, DueOK
<1>5. ASSUME NEW p \in Process, NEW result, Done(p, result) PROVE DueOK'
  <2>1. due' \in Seq(Message) /\ IsInjective(due') /\ Range(due') = Range(due) \ {current[p]}
    BY <1>5, RemovedOnce DEF Done, TypeOK, FieldsOK, DueOK
  <2> QED
    BY <1>0, <1>5, <2>1 DEF Done, TypeOK, FieldsOK, DueOK
<1>6. CASE UNCHANGED <<status, due>>
  BY <1>6 DEF TypeOK, FieldsOK, DueOK
<1> QED
  BY <1>1, <1>2, <1>3, <1>4, <1>5, <1>6
  DEF Next, RunMailCycle, RequireMailServer, ServerBecomes, PassOver, Connect, Send, SendFails,
      AnswerComesLate, PutBack, MarkSent, MarkFailed, MarkSentFails, PassEnds, outbox, vars

\* A pass claims, takes one message after the other, and lets go.
LEMMA NextPassOK == TypeOK /\ [Next]_vars => PassOK'
<1> SUFFICES ASSUME TypeOK, [Next]_vars PROVE PassOK'
  OBVIOUS
<1> USE MailOutboxAssumption
<1> DEFINE PlaceOK(p) ==
        /\ Claimed(p) \subseteq Message
        /\ Claimed(p) = {} <=> pc[p] \in {"idle", "connected"}
        /\ current[p] \in Claimed(p) <=> pc[p] \in {"sent", "unsent"}
        /\ current[p] = NoMessage <=> pc[p] \notin {"sent", "unsent"}
<1>0. \A p \in Process : PlaceOK(p)
  BY DEF TypeOK, FieldsOK, PassOK
<1>1. CASE UNCHANGED <<pc, batch, current>>
  BY <1>1 DEF TypeOK, FieldsOK, PassOK, Claimed
<1>2. ASSUME NEW p \in Process, DOMAIN batch' = Process, PlaceOK(p)',
             \A q \in Process \ {p} :
                pc'[q] = pc[q] /\ current'[q] = current[q] /\ Claimed(q)' = Claimed(q)
      PROVE  PassOK'
  BY <1>0, <1>2 DEF PassOK
<1>3. ASSUME NEW p \in Process, Connect(p) PROVE PassOK'
  BY <1>2, <1>3 DEF Connect, TypeOK, FieldsOK, PassOK, Claimed
<1>4. ASSUME NEW p \in Process, ClaimDue(p) PROVE PassOK'
  <2> DEFINE taken == Range(First(Limit))
  <2>0. Claimed(p)' = taken /\ taken \subseteq Range(due)
        /\ \A q \in Process : q # p => Claimed(q)' = Claimed(q)
    BY <1>4, ClaimTakesDue
  <2>a. pc' = [pc EXCEPT ![p] = IF taken = {} THEN "idle" ELSE "sending"]
    BY <1>4 DEF ClaimDue
  <2>b. Range(due) \subseteq Message /\ DOMAIN pc = Process
    BY RangeOfSeq DEF TypeOK, FieldsOK, DueOK
  <2> HIDE DEF taken
  <2>1. /\ Claimed(p)' \subseteq Message
        /\ pc'[p] = IF Claimed(p)' = {} THEN "idle" ELSE "sending"
        /\ \A q \in Process : q # p => Claimed(q)' = Claimed(q)
    BY <2>0, <2>a, <2>b
  <2>2. current' = current /\ pc[p] = "connected" /\ DOMAIN batch' = Process
        /\ \A q \in Process : q # p => pc'[q] = pc[q]
    BY <1>4 DEF ClaimDue, TypeOK, FieldsOK, PassOK
  <2>3. PlaceOK(p)'
    BY <1>0, <2>1, <2>2
  <2> QED
    BY <1>2, <2>1, <2>2, <2>3
<1>5. ASSUME NEW p \in Process, Send(p) \/ SendFails(p) \/ AnswerComesLate(p) \/ PutBack(p)
      PROVE  PassOK'
  <2>1. PICK m \in Claimed(p), where \in {"sent", "unsent"} : GoTo(p, where, m)
    BY <1>5 DEF Send, SendFails, AnswerComesLate, PutBack
  <2>2. pc[p] = "sending" /\ UNCHANGED batch
    BY <1>5 DEF Send, SendFails, AnswerComesLate, PutBack
  <2>3. pc'[p] = where /\ current'[p] = m /\ m \in Message
    BY <1>0, <2>1 DEF GoTo, TypeOK, FieldsOK
  <2>4. \A q \in Process \ {p} : pc'[q] = pc[q] /\ current'[q] = current[q]
    BY <2>1 DEF GoTo, TypeOK, FieldsOK
  <2> QED
    BY <1>0, <1>2, <2>2, <2>3, <2>4 DEF TypeOK, FieldsOK, PassOK, Claimed
<1>6. ASSUME NEW p \in Process, MarkSent(p) \/ MarkFailed(p) PROVE PassOK'
  <2>1. current[p] \in Claimed(p)
    BY <1>0, <1>6 DEF MarkSent, MarkFailed
  <2>2. DOMAIN batch' = Process /\ Claimed(p)' = Claimed(p) \ {current[p]}
        /\ \A q \in Process : q # p => Claimed(q)' = Claimed(q)
    BY <1>6 DEF MarkSent, MarkFailed, Done, TypeOK, FieldsOK, PassOK, Claimed
  <2>3. /\ pc'[p] = IF Claimed(p) = {current[p]} THEN "idle" ELSE "sending"
        /\ current'[p] = NoMessage
        /\ \A q \in Process : q # p => pc'[q] = pc[q] /\ current'[q] = current[q]
    BY <1>6 DEF MarkSent, MarkFailed, Done, GoTo, TypeOK, FieldsOK
  <2> QED
    BY <1>0, <1>2, <2>1, <2>2, <2>3
<1>7. ASSUME NEW p \in Process, MarkSentFails(p) PROVE PassOK'
  BY <1>0, <1>2, <1>7 DEF MarkSentFails, TypeOK, FieldsOK, PassOK, Claimed
<1>8. ASSUME NEW p \in Process, PassEnds(p) PROVE PassOK'
  <2>1. DOMAIN batch' = Process /\ Claimed(p)' = {}
        /\ \A q \in Process : q # p => Claimed(q)' = Claimed(q)
    BY <1>8 DEF PassEnds, TypeOK, FieldsOK, PassOK, Claimed, Nothing
  <2>2. /\ pc'[p] = "idle" /\ current'[p] = NoMessage
        /\ \A q \in Process : q # p => pc'[q] = pc[q] /\ current'[q] = current[q]
    BY <1>8 DEF PassEnds, GoTo, TypeOK, FieldsOK
  <2> QED
    BY <1>2, <2>1, <2>2
<1> QED
  BY <1>1, <1>3, <1>4, <1>5, <1>6, <1>7, <1>8
  DEF Next, RunMailCycle, RequireMailServer, Write, ComesDue, ServerBecomes, RemoveMailServer,
      PassOver, pass, vars

\* What a variable holds stays of its type.
LEMMA NextFieldsOK == TypeOK /\ [Next]_vars => FieldsOK'
<1> SUFFICES ASSUME TypeOK, [Next]_vars PROVE FieldsOK'
  OBVIOUS
<1> USE MailOutboxAssumption DEF FieldsOK
<1>1. FieldsOK
  BY DEF TypeOK
<1>2. \A p \in Process : Claimed(p) \subseteq Message
  BY DEF TypeOK, PassOK
<1>3. ASSUME NEW m \in Message, RequireMailServer(m) PROVE FieldsOK'
  BY <1>1, <1>3 DEF RequireMailServer, outbox, pass, history
<1>4. ASSUME NEW m \in Message, Write(m) PROVE FieldsOK'
  BY <1>1, <1>4 DEF Write, pass, history
<1>5. ASSUME NEW m \in Message, ComesDue(m) PROVE FieldsOK'
  <2>1. CASE Held(m)
    BY <1>1, <1>5, <2>1 DEF ComesDue, pass
  <2>2. CASE ~Held(m)
    BY <1>1, <1>5, <2>2 DEF ComesDue, pass
  <2> QED
    BY <2>1, <2>2
<1>6. ASSUME NEW state \in {"ready", "unreadable"}, ServerBecomes(state) PROVE FieldsOK'
  BY <1>1, <1>6 DEF ServerBecomes, outbox, pass, history
<1>7. CASE RemoveMailServer
  BY <1>1, <1>7 DEF RemoveMailServer, pass, history
<1>8. ASSUME NEW p \in Process, Connect(p) PROVE FieldsOK'
  BY <1>1, <1>8 DEF Connect, outbox, history, Failures, NoFailure
<1>9. ASSUME NEW p \in Process, ClaimDue(p) PROVE FieldsOK'
  <2> DEFINE taken == Range(First(Limit))
  <2>1. attempts' = [m \in Message |-> IF m \in taken THEN attempts[m] + 1 ELSE attempts[m]]
    BY <1>9 DEF ClaimDue
  <2>2. pc' = [pc EXCEPT ![p] = IF taken = {} THEN "idle" ELSE "sending"]
    BY <1>9 DEF ClaimDue
  <2>3. UNCHANGED <<server, asked, status, current, failure, serverDown, delivered, excused,
                    changes, mishaps>>
    BY <1>9 DEF ClaimDue, history
  <2> HIDE DEF taken
  <2>4. attempts' \in [Message -> Nat]
    BY <1>1, <2>1
  <2>5. pc' \in [Process -> {"idle", "connected", "sending", "sent", "unsent"}]
    BY <1>1, <2>2
  <2> QED
    BY <1>1, <2>3, <2>4, <2>5
<1>10. ASSUME NEW p \in Process, NEW where \in {"idle", "sending", "sent", "unsent"},
              NEW m \in Message \cup {NoMessage}, GoTo(p, where, m)
       PROVE  /\ pc' \in [Process -> {"idle", "connected", "sending", "sent", "unsent"}]
              /\ current' \in [Process -> Message \cup {NoMessage}]
  BY <1>1, <1>10 DEF GoTo
<1>11. ASSUME NEW p \in Process, NEW f \in Failures, FailsWith(p, f)
       PROVE  failure' \in [Process -> Failures] /\ serverDown' \in [Process -> Failures]
  <2>1. CASE f.serverWide
    BY <1>1, <1>11, <2>1 DEF FailsWith
  <2>2. CASE ~f.serverWide
    BY <1>1, <1>11, <2>2 DEF FailsWith
  <2> QED
    BY <2>1, <2>2
<1>12. ASSUME NEW p \in Process, Send(p) PROVE FieldsOK'
  <2>1. PICK m \in Message : GoTo(p, "sent", m) /\ delivered' = [delivered EXCEPT ![m] = @ + 1]
    BY <1>2, <1>12 DEF Send
  <2>2. delivered' \in [Message -> Nat]
    BY <1>1, <2>1
  <2> QED
    BY <1>1, <1>10, <1>12, <2>1, <2>2 DEF Send, outbox
<1>13. ASSUME NEW p \in Process, SendFails(p) PROVE FieldsOK'
  <2>1. PICK m \in Message : GoTo(p, "unsent", m)
    BY <1>2, <1>13 DEF SendFails
  <2>2. PICK f \in Failures : FailsWith(p, f)
    BY <1>13 DEF SendFails
  <2> QED
    BY <1>1, <1>10, <1>11, <1>13, <2>1, <2>2 DEF SendFails, outbox, history
<1>14. ASSUME NEW p \in Process, AnswerComesLate(p) PROVE FieldsOK'
  <2>1. PICK m \in Message : /\ GoTo(p, "unsent", m)
                             /\ delivered' = [delivered EXCEPT ![m] = @ + 1]
                             /\ excused' = [excused EXCEPT ![m] = @ + 1]
    BY <1>2, <1>14 DEF AnswerComesLate
  <2>2. delivered' \in [Message -> Nat] /\ excused' \in [Message -> Nat]
    BY <1>1, <2>1
  <2>3. failure' \in [Process -> Failures] /\ serverDown' \in [Process -> Failures]
    BY <1>11, <1>14 DEF AnswerComesLate, Failures
  <2>4. mishaps' \in 0 .. MaxMishaps
    BY <1>1, <1>14 DEF AnswerComesLate
  <2> QED
    BY <1>1, <1>10, <1>14, <2>1, <2>2, <2>3, <2>4 DEF AnswerComesLate, outbox
<1>15. ASSUME NEW p \in Process, PutBack(p) PROVE FieldsOK'
  <2>1. PICK m \in Message : GoTo(p, "unsent", m)
    BY <1>2, <1>15 DEF PutBack
  <2>2. failure' \in [Process -> Failures]
    BY <1>1, <1>15 DEF PutBack
  <2> QED
    BY <1>1, <1>10, <1>15, <2>1, <2>2 DEF PutBack, outbox, history
<1>16. ASSUME NEW p \in Process, NEW result \in {"pending", "sent", "failed"}, Done(p, result)
       PROVE  FieldsOK'
  <2>1. PICK where \in {"idle", "sending"} : GoTo(p, where, NoMessage)
    BY <1>16 DEF Done
  <2>2. status' \in [Message -> {"unwritten", "pending", "sent", "failed"}]
    BY <1>1, <1>16 DEF Done
  <2> QED
    BY <1>1, <1>10, <1>16, <2>1, <2>2 DEF Done, history
<1>17. ASSUME NEW p \in Process, MarkSentFails(p) PROVE FieldsOK'
  <2>1. /\ pc' \in [Process -> {"idle", "connected", "sending", "sent", "unsent"}]
        /\ failure' \in [Process -> Failures]
    BY <1>1, <1>17 DEF MarkSentFails, NoFailure, Failures
  <2>2. excused' \in [Message -> Nat]
    <3>1. current[p] \in Message
      BY <1>17 DEF MarkSentFails, TypeOK, PassOK
    <3>2. excused' = [excused EXCEPT ![current[p]] = @ + 1]
      BY <1>17 DEF MarkSentFails
    <3> QED
      BY <1>1, <3>1, <3>2
  <2>3. mishaps' \in 0 .. MaxMishaps
    BY <1>1, <1>17 DEF MarkSentFails
  <2> QED
    BY <1>1, <1>17, <2>1, <2>2, <2>3 DEF MarkSentFails, outbox
<1>18. ASSUME NEW p \in Process, PassEnds(p) PROVE FieldsOK'
  <2>1. GoTo(p, "idle", NoMessage)
    BY <1>18 DEF PassEnds
  <2>2. excused' \in [Message -> Nat]
    <3>1. CASE pc[p] = "sent"
      <4>1. current[p] \in Message
        BY <3>1 DEF TypeOK, PassOK
      <4>2. excused' = [excused EXCEPT ![current[p]] = @ + 1]
        BY <1>18, <3>1 DEF PassEnds
      <4> QED
        BY <1>1, <4>1, <4>2
    <3>2. CASE pc[p] # "sent"
      BY <1>1, <1>18, <3>2 DEF PassEnds
    <3> QED
      BY <3>1, <3>2
  <2>3. mishaps' \in 0 .. MaxMishaps
    BY <1>1, <1>18 DEF PassEnds
  <2> QED
    BY <1>1, <1>10, <1>18, <2>1, <2>2, <2>3 DEF PassEnds, outbox
<1>19. CASE UNCHANGED vars
  BY <1>1, <1>19 DEF vars, outbox, pass, history
<1> HIDE DEF FieldsOK
<1>20. ASSUME NEW p \in Process, RunMailCycle(p) \/ PassOver(p) PROVE FieldsOK'
  <2>1. CASE MarkSent(p)
    BY <1>16, <2>1 DEF MarkSent
  <2>2. CASE MarkFailed(p)
    BY <1>16, <2>2 DEF MarkFailed
  <2> QED
    BY <1>8, <1>9, <1>12, <1>13, <1>15, <1>19, <1>20, <2>1, <2>2 DEF RunMailCycle, PassOver
<1> QED
  BY <1>3, <1>4, <1>5, <1>6, <1>7, <1>14, <1>17, <1>18, <1>19, <1>20 DEF Next

\* What causes messages, time and the passes keep the types.
LEMMA NextTypeOK == TypeOK /\ CauseInv /\ [Next]_vars => TypeOK'
  BY NextFieldsOK, NextDueOK, NextPassOK DEF TypeOK

LEMMA InitIInv == Init => IInv
<1> SUFFICES ASSUME Init PROVE IInv
  OBVIOUS
<1> USE MailOutboxAssumption
<1>1. /\ \A p \in Process : Claimed(p) = {} /\ pc[p] = "idle" /\ current[p] = NoMessage
      /\ \A m \in Message : ~Held(m) /\ delivered[m] = 0 /\ excused[m] = 0
                            /\ status[m] = "unwritten"
  BY DEF Init, Claimed, Nothing, Held
<1>2. due = <<>> /\ Range(due) = {} /\ asked = {}
  BY DEF Init, Range
<1>3. FieldsOK
  BY DEF Init, FieldsOK, Failures, NoFailure
<1>4. DueOK
  BY <1>2 DEF DueOK, IsInjective
<1>5. PassOK
  BY <1>1 DEF Init, PassOK
<1>6. CauseInv
  BY <1>1, <1>2 DEF CauseInv, CauseOf
<1>7. ChancesInv
  <2>1. \A m \in Message : Carriers(m) = {}
    BY <1>1 DEF Carriers, Carries
  <2>2. IsFiniteSet({}) /\ Cardinality({}) = 0
    BY FS_EmptySet
  <2> QED
    BY <1>1, <2>1, <2>2 DEF ChancesInv, ChancesOf, Unclaimed
<1>8. TruthInv
  BY <1>1, <1>2 DEF TruthInv, TruthOf, Held
<1> QED
  BY <1>3, <1>4, <1>5, <1>6, <1>7, <1>8 DEF IInv, TypeOK

\* Nothing is claimed and nothing goes out that was not written.
LEMMA NextCauseInv == TypeOK /\ CauseInv /\ [Next]_vars => CauseInv'
<1> SUFFICES ASSUME TypeOK, CauseInv, [Next]_vars PROVE CauseInv'
  OBVIOUS
<1>0. \A m \in Message : CauseOf(m)
  BY DEF CauseInv
<1> SUFFICES ASSUME NEW m \in Message PROVE CauseOf(m)'
  BY DEF CauseInv
<1> USE DEF CauseOf
<1>1. CASE UNCHANGED <<status, asked, batch, delivered>>
  BY <1>0, <1>1 DEF Held, Claimed
<1>2. ASSUME NEW n \in Message, RequireMailServer(n) \/ Write(n) PROVE CauseOf(m)'
  BY <1>0, <1>2 DEF RequireMailServer, Write, outbox, pass, history, Held, Claimed, TypeOK, FieldsOK
<1>3. CASE RemoveMailServer
  BY <1>0, <1>3 DEF RemoveMailServer, pass, history, Held, Claimed, TypeOK, FieldsOK
<1>4. ASSUME NEW p \in Process, ClaimDue(p) PROVE CauseOf(m)'
  <2>1. m \in Claimed(p)' => status[m] = "pending"
    BY <1>4, ClaimTakesDue DEF TypeOK, DueOK
  <2>2. UNCHANGED <<status, asked, delivered>>
    BY <1>4 DEF ClaimDue, history
  <2>3. Held(m)' => Held(m) \/ m \in Claimed(p)'
    BY <1>4, ClaimTakesDue DEF Held
  <2> QED
    BY <1>0, <2>1, <2>2, <2>3
<1>5. ASSUME NEW p \in Process, Send(p) \/ AnswerComesLate(p) PROVE CauseOf(m)'
  <2>1. PICK n \in Claimed(p) : delivered' = [delivered EXCEPT ![n] = @ + 1]
    BY <1>5 DEF Send, AnswerComesLate
  <2>2. UNCHANGED <<status, asked, batch>>
    BY <1>5 DEF Send, AnswerComesLate, outbox
  <2>3. status[m] = "unwritten" => m # n
    BY <1>0 DEF Held
  <2>4. Held(m)' <=> Held(m)
    BY <2>2 DEF Held, Claimed
  <2> QED
    BY <1>0, <2>1, <2>2, <2>3, <2>4 DEF TypeOK, FieldsOK
<1>6. ASSUME NEW p \in Process, NEW result \in {"pending", "sent", "failed"},
             current[p] \in Claimed(p), Done(p, result)
      PROVE  CauseOf(m)'
  <2>1. status'[m] = "unwritten" => status[m] = "unwritten" /\ ~Held(m)'
    BY <1>0, <1>6 DEF Done, Held, Claimed, TypeOK, FieldsOK, PassOK
  <2>2. status[current[p]] # "unwritten"
    BY <1>0, <1>6 DEF Held, TypeOK, PassOK, CauseInv
  <2>3. m \in asked => status'[m] = "unwritten"
    BY <1>0, <1>6, <2>2 DEF Done, TypeOK, FieldsOK
  <2> QED
    BY <1>0, <1>6, <2>1, <2>3 DEF Done, history
<1>7. ASSUME NEW p \in Process, PassEnds(p) PROVE CauseOf(m)'
  <2>1. Held(m)' => Held(m)
    BY <1>7 DEF PassEnds, Held, Claimed, Nothing, TypeOK, PassOK
  <2> QED
    BY <1>0, <1>7, <2>1 DEF PassEnds, outbox
<1>8. ASSUME NEW p \in Process, MarkSent(p) \/ MarkFailed(p) PROVE CauseOf(m)'
  <2>1. current[p] \in Claimed(p)
    BY <1>8 DEF MarkSent, MarkFailed, TypeOK, PassOK
  <2> QED
    BY <1>6, <1>8, <2>1 DEF MarkSent, MarkFailed
<1> HIDE DEF CauseOf
<1>9. ASSUME NEW p \in Process, RunMailCycle(p) \/ PassOver(p) PROVE CauseOf(m)'
  BY <1>1, <1>4, <1>5, <1>8, <1>9
  DEF RunMailCycle, PassOver, Connect, SendFails, PutBack, outbox, pass, history, vars
<1>10. ASSUME NEW p \in Process, MarkSentFails(p) PROVE CauseOf(m)'
  BY <1>1, <1>10 DEF MarkSentFails, outbox
<1>11. ASSUME NEW n \in Message, ComesDue(n) PROVE CauseOf(m)'
  BY <1>1, <1>11 DEF ComesDue, pass
<1>12. ASSUME NEW state, ServerBecomes(state) PROVE CauseOf(m)'
  BY <1>1, <1>12 DEF ServerBecomes, outbox, pass, history
<1>13. CASE UNCHANGED vars
  BY <1>1, <1>13 DEF vars, outbox, pass, history
<1> QED
  BY <1>2, <1>3, <1>5, <1>7, <1>9, <1>10, <1>11, <1>12, <1>13 DEF Next

-----------------------------------------------------------------------------
(* What a step of a pass does to a message. *)

\* A pass puts one message it has claimed to hand.
LEMMA GoesTo ==
  ASSUME TypeOK, NEW p \in Process, NEW m \in Claimed(p), NEW where, GoTo(p, where, m)
  PROVE  /\ m \in Message /\ pc'[p] = where /\ current'[p] = m
         /\ \A q \in Process : q # p => pc'[q] = pc[q] /\ current'[q] = current[q]
  BY DEF GoTo, TypeOK, FieldsOK, PassOK

\* Writing down touches one message, and takes it from the pass.
LEMMA DoneWith ==
  ASSUME TypeOK, NEW p \in Process, NEW result, pc[p] \in {"sent", "unsent"}, Done(p, result)
  PROVE  /\ current[p] \in Message /\ current[p] \in Claimed(p)
         /\ status'[current[p]] = result
         /\ \A m \in Message : m # current[p] => status'[m] = status[m]
         /\ Range(due') = Range(due) \ {current[p]}
         /\ Claimed(p)' = Claimed(p) \ {current[p]}
         /\ pc'[p] \in {"idle", "sending"}
         /\ \A q \in Process : q # p => /\ pc'[q] = pc[q] /\ current'[q] = current[q]
                                        /\ Claimed(q)' = Claimed(q)
         /\ delivered' = delivered /\ excused' = excused
<1>1. current[p] \in Claimed(p) /\ current[p] \in Message
  BY DEF TypeOK, PassOK
<1>2. status'[current[p]] = result /\ \A m \in Message : m # current[p] => status'[m] = status[m]
  BY <1>1 DEF Done, TypeOK, FieldsOK
<1>3. Range(due') = Range(due) \ {current[p]}
  BY RemovedOnce DEF Done, TypeOK, DueOK
<1>4. Claimed(p)' = Claimed(p) \ {current[p]}
      /\ \A q \in Process : q # p => Claimed(q)' = Claimed(q)
  BY DEF Done, TypeOK, PassOK, Claimed
<1>5. /\ pc'[p] \in {"idle", "sending"}
      /\ \A q \in Process : q # p => pc'[q] = pc[q] /\ current'[q] = current[q]
  BY DEF Done, GoTo, TypeOK, FieldsOK
<1> QED
  BY <1>1, <1>2, <1>3, <1>4, <1>5 DEF Done, history

\* A pass that ends lets go of what it had claimed.
LEMMA EndsWith ==
  ASSUME TypeOK, NEW p \in Process, PassEnds(p)
  PROVE  /\ Claimed(p)' = {} /\ pc'[p] = "idle"
         /\ \A q \in Process : q # p => /\ pc'[q] = pc[q] /\ current'[q] = current[q]
                                        /\ Claimed(q)' = Claimed(q)
         /\ status' = status /\ due' = due /\ delivered' = delivered
         /\ \A m \in Message : excused'[m] = IF pc[p] = "sent" /\ current[p] = m
                                             THEN excused[m] + 1 ELSE excused[m]
<1>1. Claimed(p)' = {} /\ \A q \in Process : q # p => Claimed(q)' = Claimed(q)
  BY DEF PassEnds, TypeOK, PassOK, Claimed, Nothing
<1>2. /\ pc'[p] = "idle"
      /\ \A q \in Process : q # p => pc'[q] = pc[q] /\ current'[q] = current[q]
  BY DEF PassEnds, GoTo, TypeOK, FieldsOK
<1>3. \A m \in Message : excused'[m] = IF pc[p] = "sent" /\ current[p] = m
                                       THEN excused[m] + 1 ELSE excused[m]
  BY DEF PassEnds, TypeOK, FieldsOK
<1> QED
  BY <1>1, <1>2, <1>3 DEF PassEnds, outbox

-----------------------------------------------------------------------------
(* Chances. *)

\* As many carry a message as before.
LEMMA SameChances ==
  ASSUME NEW m \in Message, FieldsOK, FieldsOK', ChancesOf(m), Carriers(m)' = Carriers(m),
         delivered'[m] + Unclaimed(m)' + excused[m] <= delivered[m] + Unclaimed(m) + excused'[m]
  PROVE  ChancesOf(m)'
<1>1. Cardinality(Carriers(m)) \in Nat
  BY FS_CardinalityType DEF ChancesOf
<1>2. Unclaimed(m) \in {0, 1} /\ Unclaimed(m)' \in {0, 1}
  BY DEF Unclaimed
<1>3. /\ delivered[m] \in Nat /\ excused[m] \in Nat
      /\ delivered'[m] \in Nat /\ excused'[m] \in Nat
  BY DEF FieldsOK
<1> QED
  BY <1>1, <1>2, <1>3 DEF ChancesOf

\* One carries it no more: it went out, or it can be claimed again.
LEMMA OneChanceLess ==
  ASSUME NEW m \in Message, FieldsOK, FieldsOK', ChancesOf(m),
         NEW p \in Carriers(m), Carriers(m)' = Carriers(m) \ {p},
         delivered'[m] + Unclaimed(m)' + excused[m] <= delivered[m] + Unclaimed(m) + excused'[m] + 1
  PROVE  ChancesOf(m)'
<1>1. /\ IsFiniteSet(Carriers(m) \ {p}) /\ Cardinality(Carriers(m)) \in Nat
      /\ Cardinality(Carriers(m) \ {p}) = Cardinality(Carriers(m)) - 1
  BY FS_CardinalityType, FS_RemoveElement DEF ChancesOf
<1>2. Unclaimed(m) \in {0, 1} /\ Unclaimed(m)' \in {0, 1}
  BY DEF Unclaimed
<1>3. /\ delivered[m] \in Nat /\ excused[m] \in Nat
      /\ delivered'[m] \in Nat /\ excused'[m] \in Nat
  BY DEF FieldsOK
<1> QED
  BY <1>1, <1>2, <1>3 DEF ChancesOf

\* One more carries it: nobody else can claim it, or a mishap is counted.
LEMMA OneChanceMore ==
  ASSUME NEW m \in Message, FieldsOK, FieldsOK', ChancesOf(m),
         NEW p, p \notin Carriers(m), Carriers(m)' = Carriers(m) \cup {p},
         delivered'[m] = delivered[m], Unclaimed(m)' + excused[m] + 1 <= Unclaimed(m) + excused'[m]
  PROVE  ChancesOf(m)'
<1>1. /\ IsFiniteSet(Carriers(m) \cup {p}) /\ Cardinality(Carriers(m)) \in Nat
      /\ Cardinality(Carriers(m) \cup {p}) = Cardinality(Carriers(m)) + 1
  BY FS_CardinalityType, FS_AddElement DEF ChancesOf
<1>2. Unclaimed(m) \in {0, 1} /\ Unclaimed(m)' \in {0, 1}
  BY DEF Unclaimed
<1>3. delivered[m] \in Nat /\ excused[m] \in Nat /\ excused'[m] \in Nat
  BY DEF FieldsOK
<1> QED
  BY <1>1, <1>2, <1>3 DEF ChancesOf

\* No step makes a chance out of nothing.
LEMMA NextChancesInv == TypeOK /\ CauseInv /\ ChancesInv /\ [Next]_vars => ChancesInv'
<1> SUFFICES ASSUME TypeOK, CauseInv, ChancesInv, [Next]_vars, NEW m \in Message
             PROVE  ChancesOf(m)'
  BY DEF ChancesInv
<1>0. FieldsOK /\ FieldsOK' /\ ChancesOf(m)
  BY NextFieldsOK DEF TypeOK, ChancesInv
<1>a. /\ delivered[m] \in Nat /\ excused[m] \in Nat /\ Unclaimed(m) \in {0, 1} /\ Unclaimed(m)' \in {0, 1}
  BY <1>0 DEF FieldsOK, Unclaimed
<1>1. CASE UNCHANGED <<status, Range(due), pc, batch, current, delivered, excused>>
  <2>1. Carriers(m)' = Carriers(m) /\ Unclaimed(m)' = Unclaimed(m)
    BY <1>1 DEF Carriers, Carries, Claimed, Unclaimed, Open, Held
  <2> QED
    BY <1>0, <1>1, <1>a, <2>1, SameChances
<1>2. ASSUME NEW n \in Message, Write(n) PROVE ChancesOf(m)'
  <2>1. Carriers(m)' = Carriers(m) /\ (Held(m)' <=> Held(m))
    BY <1>2 DEF Write, pass, Carriers, Carries, Claimed, Held
  <2>2. status[n] = "unwritten" /\ n \notin Range(due)
    BY <1>2 DEF Write, CauseInv, CauseOf, TypeOK, DueOK
  <2>3. Range(due') = Range(due) \cup {n}
    BY <1>2, <2>2, AppendedOnce DEF Write, TypeOK, DueOK
  <2>4. m # n => status'[m] = status[m]
    BY <1>0, <1>2 DEF Write, FieldsOK
  <2>5. Open(m)' <=> Open(m)
    <3>1. CASE m = n
      BY <2>2, <2>3, <3>1 DEF Open
    <3>2. CASE m # n
      BY <2>1, <2>3, <2>4, <3>2 DEF Open
    <3> QED
      BY <3>1, <3>2
  <2>6. Unclaimed(m)' = Unclaimed(m) /\ delivered' = delivered /\ excused' = excused
    BY <1>2, <2>5 DEF Write, history, Unclaimed
  <2> QED
    BY <1>0, <1>a, <2>1, <2>6, SameChances
<1>3. ASSUME NEW n \in Message, ComesDue(n) PROVE ChancesOf(m)'
  <2>1. Carriers(m)' = Carriers(m) /\ (Held(m)' <=> Held(m))
    BY <1>3 DEF ComesDue, pass, Carriers, Carries, Claimed, Held
  <2>2. Range(due') = Range(due) \cup {n}
    BY <1>3, AppendedOnce DEF ComesDue, TypeOK, DueOK
  <2>3. delivered' = delivered /\ status' = status
    BY <1>3 DEF ComesDue
  <2>4. CASE m = n /\ Held(m)
    <3>1. excused'[m] = excused[m] + 1
      BY <1>0, <1>3, <2>4 DEF ComesDue, FieldsOK
    <3> QED
      BY <1>0, <1>a, <2>1, <2>3, <3>1, SameChances
  <2>5. CASE ~(m = n /\ Held(m))
    <3>1. excused'[m] = excused[m]
      BY <1>0, <1>3, <2>5 DEF ComesDue, FieldsOK
    <3>2. Open(m)' <=> Open(m)
      BY <1>3, <2>1, <2>2, <2>3, <2>5 DEF Open, ComesDue
    <3> QED
      BY <1>0, <1>a, <2>1, <2>3, <3>1, <3>2, SameChances DEF Unclaimed
  <2> QED
    BY <2>4, <2>5
<1>4. CASE RemoveMailServer
  <2>1. Carriers(m)' = Carriers(m)
    BY <1>4 DEF RemoveMailServer, pass, Carriers, Carries, Claimed
  <2>2. Open(m)' => Open(m)
    BY <1>4 DEF RemoveMailServer, Open, Range
  <2>3. Unclaimed(m)' <= Unclaimed(m) /\ delivered' = delivered /\ excused' = excused
    BY <1>4, <2>2 DEF RemoveMailServer, history, Unclaimed
  <2> QED
    BY <1>0, <1>a, <2>1, <2>3, SameChances
<1>5. ASSUME NEW p \in Process, Connect(p) PROVE ChancesOf(m)'
  <2>1. Carriers(m)' = Carriers(m)
    BY <1>0, <1>5 DEF Connect, Carriers, Carries, Claimed, FieldsOK
  <2>2. Unclaimed(m)' = Unclaimed(m) /\ delivered' = delivered /\ excused' = excused
    BY <1>5 DEF Connect, outbox, history, Unclaimed, Open, Held, Claimed
  <2> QED
    BY <1>0, <1>a, <2>1, <2>2, SameChances
<1>6. ASSUME NEW p \in Process, ClaimDue(p) PROVE ChancesOf(m)'
  <2> DEFINE taken == Range(First(Limit))
  <2>1. /\ taken \subseteq Range(due) /\ Range(due') = Range(due) \ taken
        /\ Claimed(p) = {} /\ Claimed(p)' = taken
        /\ \A q \in Process : q # p => Claimed(q)' = Claimed(q)
    BY <1>6, ClaimTakesDue
  <2>2. pc' = [pc EXCEPT ![p] = IF taken = {} THEN "idle" ELSE "sending"]
    BY <1>6 DEF ClaimDue
  <2>3. /\ status' = status /\ current' = current
        /\ delivered' = delivered /\ excused' = excused
    BY <1>6 DEF ClaimDue, history
  <2> HIDE DEF taken
  <2>4. pc'[p] # "sent" /\ \A q \in Process : q # p => pc'[q] = pc[q]
    BY <1>0, <2>2 DEF FieldsOK
  <2>5. CASE m \in taken
    <3>1. Carriers(m)' = Carriers(m) \cup {p} /\ p \notin Carriers(m)
      BY <2>1, <2>3, <2>4, <2>5 DEF Carriers, Carries
    <3>2. Open(m) /\ ~Open(m)'
      BY <2>1, <2>3, <2>5 DEF Open, Held, TypeOK, DueOK
    <3>3. Unclaimed(m) = 1 /\ Unclaimed(m)' = 0
      BY <3>2 DEF Unclaimed
    <3> QED
      BY <1>0, <1>a, <2>3, <3>1, <3>3, OneChanceMore
  <2>6. CASE m \notin taken
    <3>1. Carriers(m)' = Carriers(m)
      BY <2>1, <2>3, <2>4, <2>6 DEF Carriers, Carries
    <3>2. Held(m)' <=> Held(m)
      BY <2>1, <2>6 DEF Held
    <3>3. Unclaimed(m)' = Unclaimed(m)
      BY <2>1, <2>3, <2>6, <3>2 DEF Unclaimed, Open
    <3> QED
      BY <1>0, <1>a, <2>3, <3>1, <3>3, SameChances
  <2> QED
    BY <2>5, <2>6
<1>7. ASSUME NEW p \in Process, Send(p) PROVE ChancesOf(m)'
  <2>1. PICK n \in Claimed(p) : GoTo(p, "sent", n) /\ delivered' = [delivered EXCEPT ![n] = @ + 1]
    BY <1>7 DEF Send
  <2>2. /\ n \in Message /\ pc'[p] = "sent" /\ current'[p] = n
        /\ \A q \in Process : q # p => pc'[q] = pc[q] /\ current'[q] = current[q]
    BY <2>1, GoesTo
  <2>3. pc[p] = "sending" /\ UNCHANGED <<status, due, batch, excused>>
    BY <1>7 DEF Send, outbox
  <2>4. Unclaimed(m)' = Unclaimed(m) /\ \A q \in Process : Claimed(q)' = Claimed(q)
    BY <2>3 DEF Unclaimed, Open, Held, Claimed
  <2>5. CASE m = n
    <3>1. p \in Carriers(m) /\ Carriers(m)' = Carriers(m) \ {p}
      BY <2>1, <2>2, <2>3, <2>4, <2>5 DEF Carriers, Carries
    <3>2. delivered'[m] = delivered[m] + 1
      BY <1>0, <2>1, <2>5 DEF FieldsOK
    <3> QED
      BY <1>0, <1>a, <2>3, <2>4, <3>1, <3>2, OneChanceLess
  <2>6. CASE m # n
    <3>1. Carriers(m)' = Carriers(m)
      BY <2>2, <2>3, <2>4, <2>6 DEF Carriers, Carries
    <3>2. delivered'[m] = delivered[m]
      BY <1>0, <2>1, <2>6 DEF FieldsOK
    <3> QED
      BY <1>0, <1>a, <2>3, <2>4, <3>1, <3>2, SameChances
  <2> QED
    BY <2>5, <2>6
<1>8. ASSUME NEW p \in Process, SendFails(p) \/ PutBack(p) PROVE ChancesOf(m)'
  <2>1. PICK n \in Claimed(p) : GoTo(p, "unsent", n)
    BY <1>8 DEF SendFails, PutBack
  <2>2. /\ pc'[p] = "unsent" /\ current'[p] = n
        /\ \A q \in Process : q # p => pc'[q] = pc[q] /\ current'[q] = current[q]
    BY <2>1, GoesTo
  <2>3. pc[p] = "sending" /\ UNCHANGED <<status, due, batch, delivered, excused>>
    BY <1>8 DEF SendFails, PutBack, outbox, history
  <2>4. Unclaimed(m)' = Unclaimed(m) /\ \A q \in Process : Claimed(q)' = Claimed(q)
    BY <2>3 DEF Unclaimed, Open, Held, Claimed
  <2>5. Carriers(m)' = Carriers(m)
    BY <2>2, <2>3, <2>4 DEF Carriers, Carries
  <2> QED
    BY <1>0, <1>a, <2>3, <2>4, <2>5, SameChances
<1>9. ASSUME NEW p \in Process, AnswerComesLate(p) PROVE ChancesOf(m)'
  <2>1. PICK n \in Claimed(p) : /\ GoTo(p, "unsent", n)
                                /\ delivered' = [delivered EXCEPT ![n] = @ + 1]
                                /\ excused' = [excused EXCEPT ![n] = @ + 1]
    BY <1>9 DEF AnswerComesLate
  <2>2. /\ pc'[p] = "unsent" /\ current'[p] = n
        /\ \A q \in Process : q # p => pc'[q] = pc[q] /\ current'[q] = current[q]
    BY <2>1, GoesTo
  <2>3. pc[p] = "sending" /\ UNCHANGED <<status, due, batch>>
    BY <1>9 DEF AnswerComesLate, outbox
  <2>4. Unclaimed(m)' = Unclaimed(m) /\ \A q \in Process : Claimed(q)' = Claimed(q)
    BY <2>3 DEF Unclaimed, Open, Held, Claimed
  <2>5. Carriers(m)' = Carriers(m)
    BY <2>2, <2>3, <2>4 DEF Carriers, Carries
  <2>6. delivered'[m] - delivered[m] = excused'[m] - excused[m]
    BY <1>0, <1>a, <2>1 DEF FieldsOK
  <2>7. delivered'[m] \in Nat /\ excused'[m] \in Nat
    BY <1>0 DEF FieldsOK
  <2>8. delivered'[m] + Unclaimed(m)' + excused[m] <= delivered[m] + Unclaimed(m) + excused'[m]
    BY <1>a, <2>4, <2>6, <2>7
  <2> QED
    BY <1>0, <2>5, <2>8, SameChances
<1>10. ASSUME NEW p \in Process, MarkSent(p) \/ MarkFailed(p) PROVE ChancesOf(m)'
  <2>1. PICK result : Done(p, result) /\ (pc[p] = "sent" => result = "sent")
    BY <1>10 DEF MarkSent, MarkFailed
  <2>2. /\ pc[p] \in {"sent", "unsent"}
    BY <1>10 DEF MarkSent, MarkFailed
  <2>3. /\ current[p] \in Message /\ current[p] \in Claimed(p)
        /\ status'[current[p]] = result
        /\ m # current[p] => status'[m] = status[m]
        /\ Range(due') = Range(due) \ {current[p]}
        /\ Claimed(p)' = Claimed(p) \ {current[p]}
        /\ pc'[p] \in {"idle", "sending"}
        /\ \A q \in Process : q # p => /\ pc'[q] = pc[q] /\ current'[q] = current[q]
                                       /\ Claimed(q)' = Claimed(q)
        /\ delivered' = delivered /\ excused' = excused
    BY <2>1, <2>2, DoneWith
  <2>4. CASE m = current[p] /\ pc[p] = "sent"
    <3>1. Carriers(m)' = Carriers(m)
      BY <2>3, <2>4 DEF Carriers, Carries
    <3>2. ~Open(m)'
      BY <2>1, <2>3, <2>4 DEF Open
    <3>3. Unclaimed(m)' = 0
      BY <3>2 DEF Unclaimed
    <3> QED
      BY <1>0, <1>a, <2>3, <3>1, <3>3, SameChances
  <2>5. CASE m = current[p] /\ pc[p] = "unsent"
    <3>1. p \in Carriers(m) /\ Carriers(m)' = Carriers(m) \ {p}
      BY <2>3, <2>5 DEF Carriers, Carries
    <3> QED
      BY <1>0, <1>a, <2>3, <3>1, OneChanceLess
  <2>6. CASE m # current[p]
    <3>1. Carriers(m)' = Carriers(m)
      BY <2>3, <2>6 DEF Carriers, Carries
    <3>2. Held(m)' <=> Held(m)
      BY <2>3, <2>6 DEF Held
    <3>3. Unclaimed(m)' = Unclaimed(m)
      BY <2>3, <2>6, <3>2 DEF Unclaimed, Open
    <3> QED
      BY <1>0, <1>a, <2>3, <3>1, <3>3, SameChances
  <2> QED
    BY <2>2, <2>4, <2>5, <2>6
<1>11. ASSUME NEW p \in Process, MarkSentFails(p) PROVE ChancesOf(m)'
  <2>1. pc[p] = "sent" /\ UNCHANGED <<status, due, batch, current, delivered>>
    BY <1>11 DEF MarkSentFails, outbox
  <2>2. pc'[p] = "unsent" /\ \A q \in Process : q # p => pc'[q] = pc[q]
    BY <1>0, <1>11 DEF MarkSentFails, FieldsOK
  <2>3. excused'[m] = IF m = current[p] THEN excused[m] + 1 ELSE excused[m]
    BY <1>0, <1>11 DEF MarkSentFails, FieldsOK
  <2>4. current[p] \in Claimed(p)
    BY <2>1 DEF TypeOK, PassOK
  <2>5. Unclaimed(m)' = Unclaimed(m) /\ \A q \in Process : Claimed(q)' = Claimed(q)
    BY <2>1 DEF Unclaimed, Open, Held, Claimed
  <2>6. CASE m = current[p]
    <3>1. p \notin Carriers(m) /\ Carriers(m)' = Carriers(m) \cup {p}
      BY <2>1, <2>2, <2>4, <2>5, <2>6 DEF Carriers, Carries
    <3> QED
      BY <1>0, <1>a, <2>1, <2>3, <2>5, <2>6, <3>1, OneChanceMore
  <2>7. CASE m # current[p]
    <3>1. Carriers(m)' = Carriers(m)
      BY <2>1, <2>2, <2>5, <2>7 DEF Carriers, Carries
    <3> QED
      BY <1>0, <1>a, <2>1, <2>3, <2>5, <2>7, <3>1, SameChances
  <2> QED
    BY <2>6, <2>7
<1>12. ASSUME NEW p \in Process, PassEnds(p) PROVE ChancesOf(m)'
  <2>1. /\ Claimed(p)' = {} /\ pc'[p] = "idle"
        /\ \A q \in Process : q # p => /\ pc'[q] = pc[q] /\ current'[q] = current[q]
                                       /\ Claimed(q)' = Claimed(q)
        /\ status' = status /\ due' = due /\ delivered' = delivered
        /\ excused'[m] = IF pc[p] = "sent" /\ current[p] = m THEN excused[m] + 1 ELSE excused[m]
    BY <1>12, EndsWith
  <2>2. CASE Carries(p, m)
    <3>1. p \in Carriers(m) /\ Carriers(m)' = Carriers(m) \ {p}
      BY <2>1, <2>2 DEF Carriers, Carries
    <3> QED
      BY <1>0, <1>a, <2>1, <3>1, OneChanceLess
  <2>3. CASE ~Carries(p, m)
    <3>1. Carriers(m)' = Carriers(m)
      BY <2>1, <2>3 DEF Carriers, Carries
    <3>2. CASE m \in Claimed(p)
      <4>1. excused'[m] = excused[m] + 1
        BY <2>1, <2>3, <3>2 DEF Carries
      <4> QED
        BY <1>0, <1>a, <2>1, <3>1, <4>1, SameChances
    <3>3. CASE m \notin Claimed(p)
      <4>1. Held(m)' <=> Held(m)
        BY <2>1, <3>3 DEF Held
      <4>2. Unclaimed(m)' = Unclaimed(m)
        BY <2>1, <4>1 DEF Unclaimed, Open
      <4>3. excused'[m] >= excused[m]
        BY <1>a, <2>1
      <4>4. excused'[m] \in Nat
        BY <1>0 DEF FieldsOK
      <4> QED
        BY <1>0, <1>a, <2>1, <3>1, <4>2, <4>3, <4>4, SameChances
    <3> QED
      BY <3>2, <3>3
  <2> QED
    BY <2>2, <2>3
<1>13. ASSUME NEW n, RequireMailServer(n) \/ ServerBecomes(n) PROVE ChancesOf(m)'
  BY <1>1, <1>13 DEF RequireMailServer, ServerBecomes, outbox, pass, history
<1>14. CASE UNCHANGED vars
  BY <1>1, <1>14 DEF vars, outbox, pass, history
<1>15. ASSUME NEW p \in Process, RunMailCycle(p) \/ PassOver(p) PROVE ChancesOf(m)'
  BY <1>5, <1>6, <1>7, <1>8, <1>10, <1>14, <1>15 DEF RunMailCycle, PassOver
<1> QED
  BY <1>2, <1>3, <1>4, <1>9, <1>11, <1>12, <1>13, <1>14, <1>15 DEF Next

-----------------------------------------------------------------------------
(* What the outbox says. *)

\* Without a mishap a message is with one pass at a time, and the note it ends
\* with is the right one.
LEMMA NextTruthInv == TypeOK /\ CauseInv /\ TruthInv /\ [Next]_vars => TruthInv'
<1> SUFFICES ASSUME TypeOK, CauseInv, TruthInv, [Next]_vars, NEW m \in Message, excused'[m] = 0
             PROVE  TruthOf(m)'
  BY DEF TruthInv, TruthOf
<1>0. FieldsOK /\ FieldsOK' /\ TruthOf(m) /\ delivered[m] \in Nat /\ excused[m] \in Nat
  BY NextFieldsOK DEF TypeOK, TruthInv, FieldsOK
<1>a. ASSUME excused[m] = 0, NEW p \in Process, m \in Claimed(p)
      PROVE  /\ status[m] \in {"pending", "failed"} /\ m \notin Range(due)
             /\ pc[p] # "sent" \/ current[p] # m => delivered[m] = 0
             /\ \A q \in Process : m \in Claimed(q) => q = p
  BY <1>0, <1>a DEF TruthOf, Held
<1>1. CASE UNCHANGED <<status, Range(due), pc, batch, current, delivered, excused>>
  BY <1>0, <1>1 DEF TruthOf, Held, Claimed
<1>2. ASSUME NEW n \in Message, Write(n) PROVE TruthOf(m)'
  <2>1. status[n] = "unwritten" /\ n \notin Range(due) /\ ~Held(n) /\ delivered[n] = 0
    BY <1>2 DEF Write, CauseInv, CauseOf, TypeOK, DueOK
  <2>2. Range(due') = Range(due) \cup {n}
    BY <1>2, <2>1, AppendedOnce DEF Write, TypeOK, DueOK
  <2>3. UNCHANGED <<pc, batch, current, delivered, excused>>
    BY <1>2 DEF Write, pass, history
  <2>4. status' = [status EXCEPT ![n] = "pending"]
    BY <1>2 DEF Write
  <2>5. CASE m = n
    <3>1. status'[m] = "pending" /\ ~Held(m)' /\ delivered'[m] = 0
      BY <1>0, <2>1, <2>3, <2>4, <2>5 DEF Held, Claimed, FieldsOK
    <3> QED
      BY <3>1 DEF TruthOf, Held
  <2>6. CASE m # n
    <3>1. status'[m] = status[m] /\ (m \in Range(due') <=> m \in Range(due))
      BY <1>0, <2>2, <2>4, <2>6 DEF FieldsOK
    <3> QED
      BY <1>0, <2>3, <3>1 DEF TruthOf, Held, Claimed
  <2> QED
    BY <2>5, <2>6
<1>3. ASSUME NEW n \in Message, ComesDue(n) PROVE TruthOf(m)'
  <2>1. Range(due') = Range(due) \cup {n}
    BY <1>3, AppendedOnce DEF ComesDue, TypeOK, DueOK
  <2>2. m = n => ~Held(m)
    BY <1>0, <1>3 DEF ComesDue, FieldsOK
  <2>3. excused[m] = 0
    BY <1>0, <1>3, <2>2 DEF ComesDue, FieldsOK
  <2>4. UNCHANGED <<status, pc, batch, current, delivered>>
    BY <1>3 DEF ComesDue, pass
  <2> QED
    BY <1>0, <2>1, <2>2, <2>3, <2>4 DEF TruthOf, Held, Claimed
<1>4. CASE RemoveMailServer
  <2>1. UNCHANGED <<pc, batch, current, delivered, excused>> /\ Range(due') = {}
    BY <1>4 DEF RemoveMailServer, pass, history, Range
  <2>2. status'[m] = IF status[m] = "pending" THEN "failed" ELSE status[m]
    BY <1>4 DEF RemoveMailServer
  <2> QED
    BY <1>0, <2>1, <2>2 DEF TruthOf, Held, Claimed
<1>5. ASSUME NEW p \in Process, Connect(p) PROVE TruthOf(m)'
  <2>1. UNCHANGED <<status, due, batch, current, delivered, excused>>
    BY <1>5 DEF Connect, outbox, history
  <2>2. \A q \in Process : q # p => pc'[q] = pc[q]
    BY <1>0, <1>5 DEF Connect, FieldsOK
  <2>3. m \notin Claimed(p)
    BY <1>5 DEF Connect, TypeOK, PassOK
  <2> QED
    BY <1>0, <2>1, <2>2, <2>3 DEF TruthOf, Held, Claimed
<1>6. ASSUME NEW p \in Process, ClaimDue(p) PROVE TruthOf(m)'
  <2> DEFINE taken == Range(First(Limit))
  <2>1. /\ taken \subseteq Range(due) /\ Range(due') = Range(due) \ taken
        /\ Claimed(p) = {} /\ Claimed(p)' = taken
        /\ \A q \in Process : q # p => Claimed(q)' = Claimed(q)
    BY <1>6, ClaimTakesDue
  <2>2. pc' = [pc EXCEPT ![p] = IF taken = {} THEN "idle" ELSE "sending"]
    BY <1>6 DEF ClaimDue
  <2>3. status' = status /\ current' = current /\ delivered' = delivered /\ excused' = excused
    BY <1>6 DEF ClaimDue, history
  <2> HIDE DEF taken
  <2>4. pc'[p] # "sent" /\ \A q \in Process : q # p => pc'[q] = pc[q]
    BY <1>0, <2>2 DEF FieldsOK
  <2>5. CASE m \in taken
    <3>1. ~Held(m) /\ status[m] = "pending" /\ delivered[m] = 0
      BY <1>0, <2>1, <2>3, <2>5 DEF TruthOf, TypeOK, DueOK
    <3>2. m \notin Range(due') /\ \A q \in Process : m \in Claimed(q)' <=> q = p
      BY <2>1, <2>5, <3>1 DEF Held
    <3> QED
      BY <2>3, <2>4, <3>1, <3>2 DEF TruthOf, Held
  <2>6. CASE m \notin taken
    <3>1. \A q \in Process : m \in Claimed(q)' <=> m \in Claimed(q)
      BY <2>1, <2>6
    <3>2. m \in Range(due') <=> m \in Range(due)
      BY <2>1, <2>6
    <3> QED
      BY <1>0, <2>1, <2>3, <2>4, <2>6, <3>1, <3>2 DEF TruthOf, Held
  <2> QED
    BY <2>5, <2>6
<1>7. ASSUME NEW p \in Process, NEW n \in Claimed(p), pc[p] = "sending",
             \/ /\ GoTo(p, "sent", n) /\ delivered' = [delivered EXCEPT ![n] = @ + 1]
                /\ excused' = excused
             \/ GoTo(p, "unsent", n) /\ delivered' = delivered /\ excused' = excused
             \/ /\ GoTo(p, "unsent", n) /\ delivered' = [delivered EXCEPT ![n] = @ + 1]
                /\ excused' = [excused EXCEPT ![n] = @ + 1],
             UNCHANGED <<status, due, batch>>
      PROVE  TruthOf(m)'
  <2>1. PICK where \in {"sent", "unsent"} :
          /\ pc'[p] = where /\ current'[p] = n /\ n \in Message
          /\ \A q \in Process : q # p => pc'[q] = pc[q] /\ current'[q] = current[q]
    BY <1>7, GoesTo
  <2>2. \A q \in Process : Claimed(q)' = Claimed(q)
    BY <1>7 DEF Claimed
  <2>3. /\ excused[m] = 0
        /\ n # m => delivered'[m] = delivered[m]
        /\ n = m => delivered'[m] = IF pc'[p] = "sent" THEN delivered[m] + 1 ELSE delivered[m]
    <3>1. CASE GoTo(p, "sent", n) /\ delivered' = [delivered EXCEPT ![n] = @ + 1] /\ excused' = excused
      <4>1. pc'[p] = "sent"
        BY <3>1, GoesTo
      <4> QED
        BY <1>0, <2>1, <3>1, <4>1 DEF FieldsOK
    <3>2. CASE GoTo(p, "unsent", n) /\ delivered' = delivered /\ excused' = excused
      <4>1. pc'[p] = "unsent"
        BY <3>2, GoesTo
      <4> QED
        BY <3>2, <4>1
    <3>3. CASE /\ GoTo(p, "unsent", n) /\ delivered' = [delivered EXCEPT ![n] = @ + 1]
               /\ excused' = [excused EXCEPT ![n] = @ + 1]
      <4>1. n # m
        BY <1>0, <3>3 DEF FieldsOK
      <4> QED
        BY <1>0, <2>1, <3>3, <4>1 DEF FieldsOK
    <3> QED
      BY <1>7, <3>1, <3>2, <3>3
  <2>4. CASE m \in Claimed(p)
    <3>1. /\ delivered[m] = 0 /\ status[m] \in {"pending", "failed"} /\ m \notin Range(due)
          /\ \A q \in Process : m \in Claimed(q) => q = p
      BY <1>7, <1>a, <2>3, <2>4
    <3>2. delivered'[m] > 0 <=> pc'[p] = "sent" /\ current'[p] = m
      BY <2>1, <2>3, <3>1
    <3>3. /\ status'[m] \in {"pending", "failed"} /\ m \notin Range(due')
          /\ m \in Claimed(p)' /\ \A q \in Process : m \in Claimed(q)' => q = p
      BY <1>7, <2>2, <2>4, <3>1
    <3> QED
      BY <3>2, <3>3 DEF TruthOf, Held
  <2>5. CASE m \notin Claimed(p)
    <3>1. delivered'[m] = delivered[m] /\ status'[m] = status[m] /\ due' = due
      BY <1>7, <2>3, <2>5
    <3> QED
      BY <1>0, <2>1, <2>2, <2>3, <2>5, <3>1 DEF TruthOf, Held
  <2> QED
    BY <2>4, <2>5
<1>8. ASSUME NEW p \in Process, Send(p) \/ SendFails(p) \/ PutBack(p) \/ AnswerComesLate(p)
      PROVE  TruthOf(m)'
  <2>1. CASE Send(p)
    BY <1>7, <2>1 DEF Send, outbox
  <2>2. CASE SendFails(p)
    BY <1>7, <2>2 DEF SendFails, outbox, history
  <2>3. CASE PutBack(p)
    BY <1>7, <2>3 DEF PutBack, outbox, history
  <2>4. CASE AnswerComesLate(p)
    BY <1>7, <2>4 DEF AnswerComesLate, outbox
  <2> QED
    BY <1>8, <2>1, <2>2, <2>3, <2>4
<1>9. ASSUME NEW p \in Process, MarkSent(p) \/ MarkFailed(p) PROVE TruthOf(m)'
  <2>1. PICK result \in {"pending", "sent", "failed"} :
          Done(p, result) /\ (pc[p] = "sent" <=> result = "sent")
    BY <1>9 DEF MarkSent, MarkFailed
  <2>2. pc[p] \in {"sent", "unsent"}
    BY <1>9 DEF MarkSent, MarkFailed
  <2>3. /\ current[p] \in Message /\ current[p] \in Claimed(p)
        /\ status'[current[p]] = result
        /\ m # current[p] => status'[m] = status[m]
        /\ Range(due') = Range(due) \ {current[p]}
        /\ Claimed(p)' = Claimed(p) \ {current[p]}
        /\ pc'[p] \in {"idle", "sending"}
        /\ \A q \in Process : q # p => /\ pc'[q] = pc[q] /\ current'[q] = current[q]
                                       /\ Claimed(q)' = Claimed(q)
        /\ delivered' = delivered /\ excused' = excused
    BY <2>1, <2>2, DoneWith
  <2>4. CASE m = current[p]
    <3>1. delivered[m] > 0 <=> pc[p] = "sent"
      BY <1>0, <2>3, <2>4 DEF TruthOf
    <3>2. ~Held(m)'
      BY <1>a, <2>3, <2>4 DEF Held
    <3>3. status'[m] = "sent" <=> delivered'[m] > 0
      BY <2>1, <2>3, <2>4, <3>1
    <3> QED
      BY <3>2, <3>3 DEF TruthOf, Held
  <2>5. CASE m # current[p]
    <3>1. /\ \A q \in Process : m \in Claimed(q)' <=> m \in Claimed(q)
          /\ m \in Range(due') <=> m \in Range(due)
      BY <2>3, <2>5
    <3>2. m \in Claimed(p) => delivered[m] = 0
      BY <1>a, <2>3, <2>5
    <3> QED
      BY <1>0, <2>3, <2>5, <3>1, <3>2 DEF TruthOf, Held
  <2> QED
    BY <2>4, <2>5
<1>10. ASSUME NEW p \in Process, MarkSentFails(p) PROVE TruthOf(m)'
  <2>1. pc[p] = "sent" /\ UNCHANGED <<status, due, batch, current, delivered>>
    BY <1>10 DEF MarkSentFails, outbox
  <2>2. pc'[p] = "unsent" /\ \A q \in Process : q # p => pc'[q] = pc[q]
    BY <1>0, <1>10 DEF MarkSentFails, FieldsOK
  <2>3. m # current[p] /\ excused[m] = 0
    BY <1>0, <1>10 DEF MarkSentFails, FieldsOK
  <2>4. \A q \in Process : Claimed(q)' = Claimed(q)
    BY <2>1 DEF Claimed
  <2>5. m \in Claimed(p) => delivered[m] = 0
    BY <1>a, <2>3
  <2> QED
    BY <1>0, <2>1, <2>2, <2>3, <2>4, <2>5 DEF TruthOf, Held
<1>11. ASSUME NEW p \in Process, PassEnds(p) PROVE TruthOf(m)'
  <2>1. /\ Claimed(p)' = {} /\ pc'[p] = "idle"
        /\ \A q \in Process : q # p => /\ pc'[q] = pc[q] /\ current'[q] = current[q]
                                       /\ Claimed(q)' = Claimed(q)
        /\ status' = status /\ due' = due /\ delivered' = delivered
        /\ excused'[m] = IF pc[p] = "sent" /\ current[p] = m THEN excused[m] + 1 ELSE excused[m]
    BY <1>11, EndsWith
  <2>2. excused[m] = 0 /\ ~(pc[p] = "sent" /\ current[p] = m)
    BY <1>0, <2>1
  <2>3. CASE m \in Claimed(p)
    <3>1. /\ delivered[m] = 0 /\ status[m] \in {"pending", "failed"}
          /\ \A q \in Process : m \in Claimed(q) => q = p
      BY <1>a, <2>2, <2>3
    <3>2. ~Held(m)'
      BY <2>1, <3>1 DEF Held
    <3> QED
      BY <2>1, <3>1, <3>2 DEF TruthOf, Held
  <2>4. CASE m \notin Claimed(p)
    BY <1>0, <2>1, <2>2, <2>4 DEF TruthOf, Held
  <2> QED
    BY <2>3, <2>4
<1>12. ASSUME NEW n, RequireMailServer(n) \/ ServerBecomes(n) PROVE TruthOf(m)'
  BY <1>1, <1>12 DEF RequireMailServer, ServerBecomes, outbox, pass, history
<1>13. CASE UNCHANGED vars
  BY <1>1, <1>13 DEF vars, outbox, pass, history
<1>14. ASSUME NEW p \in Process, RunMailCycle(p) \/ PassOver(p) PROVE TruthOf(m)'
  BY <1>5, <1>6, <1>8, <1>9, <1>13, <1>14 DEF RunMailCycle, PassOver
<1> QED
  BY <1>2, <1>3, <1>4, <1>8, <1>10, <1>11, <1>12, <1>13, <1>14 DEF Next

-----------------------------------------------------------------------------
(* What follows for the outbox. *)

LEMMA Invariant == Spec => []IInv
<1>1. IInv /\ [Next]_vars => IInv'
  BY NextTypeOK, NextCauseInv, NextChancesInv, NextTruthInv DEF IInv
<1> QED
  BY InitIInv, <1>1, PTL DEF Spec

\* The outbox, what waits in it and the passes over it are what they are taken
\* for: what is due waits, is there once, and a pass under way holds what it is at.
THEOREM TypeCorrect == Spec => []TypeOK
<1>1. IInv => TypeOK
  BY DEF IInv
<1> QED
  BY Invariant, <1>1, PTL

\* However many processes run passes over however many messages, none goes out
\* once more than there were mishaps to send it again.
THEOREM NothingTwice == Spec => []NothingGoesOutTwice
<1>1. IInv => NothingGoesOutTwice
  <2> SUFFICES ASSUME IInv, NEW m \in Message PROVE delivered[m] <= 1 + excused[m]
    BY DEF NothingGoesOutTwice
  <2>1. /\ delivered[m] \in Nat /\ excused[m] \in Nat
        /\ Cardinality(Carriers(m)) \in Nat /\ Unclaimed(m) \in {0, 1}
        /\ delivered[m] + Cardinality(Carriers(m)) + Unclaimed(m) <= 1 + excused[m]
    BY FS_CardinalityType DEF IInv, TypeOK, FieldsOK, ChancesInv, ChancesOf, Unclaimed
  <2> QED
    BY <2>1
<1> QED
  BY Invariant, <1>1, PTL

\* Of a message no pass holds and no mishap befell, the outbox says it is sent
\* exactly if the mail server took it, whatever passes wrote side by side.
THEOREM TellsTruth == Spec => []TellsTheTruth
<1>1. IInv => TellsTheTruth
  BY DEF IInv, TruthInv, TruthOf, TellsTheTruth
<1> QED
  BY Invariant, <1>1, PTL

=============================================================================

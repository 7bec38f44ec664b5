------------------------- MODULE DeviceStore_proofs -------------------------
(***************************************************************************)
(* What holds of the local store of a device for any rows, entities, texts,*)
(* scopes, builds and bounds, and whatever comes to a text or leaves it:   *)
(* with one page open over the store, and where no scope a device has left *)
(* comes back to it.                                                       *)
(*                                                                         *)
(* The store is described without the page (StoreInv), because a page can  *)
(* be closed between any two writes: the rows are complete up to the       *)
(* cursor for what they were narrowed to, unless a drop has begun, and then *)
(* they are settled for nobody, and were narrowed to a scope that is left. *)
(* The page is described by the writes it still awaits (PageInv).          *)
(***************************************************************************)
EXTENDS DeviceStore, FiniteSetTheorems, TLAPS

OnePage == \A t, u \in Tab : t = u

\* What a store narrowed to a scope has to hold, and what it may hold.
Owed(s, r)    == MayHold(s, r) /\ ~CameLate(s, r)
Allowed(s, r) == MayHold(s, r) \/ WentAway(s, r)

\* The rows of that scope up to there lie in the store.
Complete(s, c) ==
    \A r \in Row : (EntityOf[r] \in entities /\ Owed(s, r) /\ seq[r] <= c)
                       => held[r] = seq[r]

StoreInv ==
    /\ scope \notin left
    /\ kept \in {scope, NoScope} \cup left
    /\ settled \in {kept, NoScope}
    /\ stored <= counter
    /\ \A r \in Row : seq[r] <= counter /\ held[r] <= seq[r]
    /\ kept = NoScope => stored = 0 /\ \A r \in Row : held[r] = 0
    /\ kept # NoScope =>
         /\ \A r \in Row : held[r] # 0 => Allowed(kept, r)
         /\ Complete(kept, stored) \/ (kept \in left /\ settled = NoScope)

\* What an answer brings, from the cursor of the store on.
Offer(s, rows, c) ==
    /\ s \in {scope} \cup left
    /\ stored <= c /\ c <= counter
    /\ \A r \in Row : rows[r] # 0 =>
         /\ Allowed(s, r) /\ stored < rows[r] /\ rows[r] <= seq[r]
         /\ rows[r] = seq[r] \/ c < seq[r]
    /\ \A r \in Row : (Owed(s, r) /\ stored < seq[r] /\ seq[r] <= c)
                          => rows[r] = seq[r]

AnswerInv(t) == got[t] # NoAnswer =>
    /\ build[t] # Closed /\ todo[t] = <<>>
    /\ Offer(got[t].narrowed, got[t].rows, got[t].cursor)
    /\ kept \in {got[t].narrowed, NoScope} \cup left
    /\ kept = got[t].narrowed => Complete(kept, stored)

\* Rows still to be written, then the cursor, then what they add up to.
RowList(q, s, rows, c) == \E k \in 1 .. Len(q) :
    /\ \A i \in 1 .. k - 1 : \E e \in Entity : q[i] = PutRows(e, rows)
    /\ q[k] = PutCursor(c)
    /\ Len(q) <= k + 1 /\ (Len(q) = k + 1 => q[k + 1] = PutSettled(s))
    /\ \A r \in Row : (EntityOf[r] \in entities /\ Owed(s, r) /\ seq[r] <= c)
         => \/ held[r] = seq[r]
            \/ rows[r] = seq[r] /\ \E i \in 1 .. k - 1 : q[i] = PutRows(EntityOf[r], rows)

\* Entities still to be dropped, then the cursor, then the new narrowing.
DropList(q, s) ==
    /\ Len(q) >= 1 /\ q[Len(q)] = PutKept(s)
    /\ IF Len(q) = 1 THEN stored = 0 ELSE q[Len(q) - 1] = PutCursor(0)
    /\ \A i \in 1 .. Len(q) - 2 : \/ i = 1 /\ q[i] = PutSettled(NoScope)
                                  \/ \E e \in Narrowed : q[i] = Drop(e)
    /\ settled = NoScope \/ (Len(q) >= 3 /\ q[1] = PutSettled(NoScope))
    /\ \A r \in Row : EntityOf[r] \in ChangedEntities(s)
         => held[r] = 0 \/ \E i \in 1 .. Len(q) - 2 : q[i] = Drop(EntityOf[r])

Known(t) == Knows[build[t]]

Opening(t) ==
    \/ todo[t] = <<PutCursor(0), PutEntities(Known(t))>>
    \/ /\ todo[t] = <<PutEntities(Known(t))>> /\ cursor[t] = stored
       /\ Known(t) \subseteq entities \/ stored = 0

Rows == [Row -> 0 .. MaxCounter]

Starting(t) ==
    /\ kept = NoScope
    /\ \E s \in Scope, rows \in Rows, c \in 0 .. MaxCounter :
         /\ todo[t] # <<>> /\ Head(todo[t]) = PutKept(s)
         /\ Offer(s, rows, c) /\ RowList(Tail(todo[t]), s, rows, c)

Paging(t) == 
    /\ kept # NoScope /\ Complete(kept, stored)
    /\ \E rows \in Rows, c \in 0 .. MaxCounter :
         Offer(kept, rows, c) /\ RowList(todo[t], kept, rows, c)

Settling(t) ==
    /\ kept # NoScope /\ Complete(kept, stored)
    /\ todo[t] = <<PutSettled(kept)>>

Dropping(t) == kept \in left /\ \E s \in {scope} \cup left : s # kept /\ DropList(todo[t], s)

AtWork(t) == Starting(t) \/ Paging(t) \/ Settling(t) \/ Dropping(t)

PageInv(t) ==
    /\ build[t] = Closed => todo[t] = <<>> /\ got[t] = NoAnswer
    /\ build[t] # Closed => \/ Opening(t)
                            \/ /\ cursor[t] = stored /\ entities = Known(t)
                               /\ todo[t] = <<>> \/ AtWork(t)

IInv == TypeOK /\ StoreInv /\ \A t \in Tab : AnswerInv(t) /\ PageInv(t)

-----------------------------------------------------------------------------
(* Sequences made of a set. *)

LEMMA SeqOfSet ==
  ASSUME NEW S, IsFiniteSet(S)
  PROVE  /\ SetToSeq(S) \in [1 .. Cardinality(S) -> S]
         /\ Cardinality(S) \in Nat
         /\ \A x \in S : \E i \in 1 .. Cardinality(S) : SetToSeq(S)[i] = x
<1> DEFINE n == Cardinality(S)
<1>1. n \in Nat /\ ExistsBijection(1 .. n, S)
  BY FS_CardinalityType
<1>2. PICK f \in Bijection(1 .. n, S) : TRUE
  BY <1>1 DEF ExistsBijection
<1>3. f \in [1 .. n -> S] /\ IsInjective(f)
  BY <1>2 DEF Bijection, Injection, IsInjective
<1>4. SetToSeq(S) \in [1 .. n -> S] /\ IsInjective(SetToSeq(S))
  BY <1>3 DEF SetToSeq
<1>5. SetToSeq(S) \in Injection(1 .. n, S)
  BY <1>4 DEF Injection, IsInjective
<1>6. IsFiniteSet(1 .. n) /\ Cardinality(1 .. n) = n
  BY <1>1, FS_Interval
<1>7. SetToSeq(S) \in Surjection(1 .. n, S)
  BY <1>5, <1>6, FS_Injection
<1> QED
  BY <1>1, <1>4, <1>7 DEF Surjection

\* What is at each place of two sequences, one after the other, and of three.
LEMMA TwoParts ==
  ASSUME NEW T, NEW a \in Seq(T), NEW b \in Seq(T)
  PROVE  /\ a \o b \in Seq(T)
         /\ Len(a \o b) = Len(a) + Len(b)
         /\ \A i \in 1 .. Len(a) : (a \o b)[i] = a[i]
         /\ \A i \in 1 .. Len(b) : (a \o b)[Len(a) + i] = b[i]
OBVIOUS

LEMMA ThreeParts ==
  ASSUME NEW T, NEW a \in Seq(T), NEW b \in Seq(T), NEW c \in Seq(T)
  PROVE  /\ a \o b \o c \in Seq(T)
         /\ Len(a \o b \o c) = Len(a) + Len(b) + Len(c)
         /\ \A i \in 1 .. Len(a) : (a \o b \o c)[i] = a[i]
         /\ \A i \in 1 .. Len(b) : (a \o b \o c)[Len(a) + i] = b[i]
         /\ \A i \in 1 .. Len(c) : (a \o b \o c)[Len(a) + Len(b) + i] = c[i]
<1> DEFINE ab == a \o b
<1>1. ab \in Seq(T) /\ Len(ab) = Len(a) + Len(b)
  BY TwoParts
<1>2. /\ \A i \in 1 .. Len(a) : ab[i] = a[i]
      /\ \A i \in 1 .. Len(b) : ab[Len(a) + i] = b[i]
  BY TwoParts
<1> HIDE DEF ab
<1>3. /\ ab \o c \in Seq(T) /\ Len(ab \o c) = Len(ab) + Len(c)
      /\ \A i \in 1 .. Len(ab) : (ab \o c)[i] = ab[i]
      /\ \A i \in 1 .. Len(c) : (ab \o c)[Len(ab) + i] = c[i]
  <2>1. ab \in Seq(T)
    BY <1>1
  <2>2. ab \o c \in Seq(T) /\ Len(ab \o c) = Len(ab) + Len(c)
    BY <2>1
  <2>3. \A i \in 1 .. Len(ab) : (ab \o c)[i] = ab[i]
    BY <2>1
  <2>4. \A i \in 1 .. Len(c) : (ab \o c)[Len(ab) + i] = c[i]
    BY <2>1
  <2> QED
    BY <2>2, <2>3, <2>4
<1>4. \A i \in 1 .. Len(b) : (ab \o c)[Len(a) + i] = b[i]
  BY <1>1, <1>2, <1>3
<1>5. \A i \in 1 .. Len(a) : (ab \o c)[i] = a[i]
  BY <1>1, <1>2, <1>3
<1>6. /\ Len(ab \o c) = Len(a) + Len(b) + Len(c)
      /\ \A i \in 1 .. Len(c) : (ab \o c)[Len(a) + Len(b) + i] = c[i]
  BY <1>1, <1>3
<1> QED
  BY <1>3, <1>4, <1>5, <1>6 DEF ab

LEMMA WriteTypes ==
  /\ \A e \in Entity, rows \in Rows : PutRows(e, rows) \in Write
  /\ \A c \in 0 .. MaxCounter : PutCursor(c) \in Write
  /\ \A list \in SUBSET Entity : PutEntities(list) \in Write
  /\ \A s \in Scope : PutKept(s) \in Write
  /\ \A s \in ScopeOrNone : PutSettled(s) \in Write
  /\ \A e \in Entity : Drop(e) \in Write
BY DEF Write, Rows, PutRows, PutCursor, PutEntities, PutKept, PutSettled, Drop

\* The writes of an answer are its rows, one known entity after another, its
\* cursor, and perhaps what they add up to.
LEMMA WritesFacts ==
  ASSUME TypeOK, NEW t \in Tab, build[t] # Closed, NEW a \in Answers
  PROVE  /\ WritesOf(t, a) \in Seq(Write)
         /\ \E k \in 1 .. Len(WritesOf(t, a)) :
              /\ \A i \in 1 .. k - 1 : \E e \in Entity : WritesOf(t, a)[i] = PutRows(e, a.rows)
              /\ WritesOf(t, a)[k] = PutCursor(a.cursor)
              /\ Len(WritesOf(t, a)) <= k + 1
              /\ Len(WritesOf(t, a)) = k + 1 => WritesOf(t, a)[k + 1] = PutSettled(a.narrowed)
              /\ \A r \in Row : (EntityOf[r] \in Known(t) /\ a.rows[r] # 0) =>
                   \E i \in 1 .. k - 1 : WritesOf(t, a)[i] = PutRows(EntityOf[r], a.rows)
<1> DEFINE S     == {e \in Known(t) : \E r \in Row : EntityOf[r] = e /\ a.rows[r] # 0}
           known == SetToSeq(S)
           n     == Cardinality(S)
           head  == [i \in DOMAIN known |-> PutRows(known[i], a.rows)]
           tail  == IF a.more \/ narrowedNow[t] = a.narrowed
                    THEN <<>> ELSE <<PutSettled(a.narrowed)>>
<1>1. Known(t) \subseteq Entity /\ IsFiniteSet(Entity) /\ EntityOf \in [Row -> Entity]
  BY DeviceStoreAssumption DEF TypeOK, Known
<1>2. S \subseteq Entity /\ IsFiniteSet(S)
  BY <1>1, FS_Subset
<1>3. /\ known \in [1 .. n -> S] /\ n \in Nat
      /\ \A x \in S : \E i \in 1 .. n : known[i] = x
  BY <1>2, SeqOfSet
<1>4. a.rows \in Rows /\ a.cursor \in 0 .. MaxCounter /\ a.narrowed \in Scope
  BY DEF Answers, Rows
<1>5. WritesOf(t, a) = head \o <<PutCursor(a.cursor)>> \o tail
  BY DEF WritesOf, Known
<1> HIDE DEF S, known, n
<1>6. head \in Seq(Write) /\ Len(head) = n /\ \A i \in 1 .. n : head[i] = PutRows(known[i], a.rows)
  <2>1. \A i \in 1 .. n : PutRows(known[i], a.rows) \in Write
    BY <1>2, <1>3, <1>4, WriteTypes
  <2> QED
    BY <2>1, <1>3
<1>7. /\ tail \in Seq(Write) /\ Len(tail) \in {0, 1}
      /\ Len(tail) = 1 => tail[1] = PutSettled(a.narrowed)
  <2>1. PutSettled(a.narrowed) \in Write
    BY <1>4, WriteTypes DEF ScopeOrNone
  <2> HIDE DEF head
  <2> QED
    BY <2>1
<1>8. <<PutCursor(a.cursor)>> \in Seq(Write)
  BY <1>4, WriteTypes
<1> HIDE DEF head, tail
<1> DEFINE q == WritesOf(t, a)
<1>9. /\ q \in Seq(Write) /\ Len(q) = n + 1 + Len(tail)
      /\ \A i \in 1 .. n : q[i] = PutRows(known[i], a.rows)
      /\ q[n + 1] = PutCursor(a.cursor)
      /\ Len(tail) = 1 => q[n + 2] = PutSettled(a.narrowed)
  <2>1. Len(<<PutCursor(a.cursor)>>) = 1 /\ <<PutCursor(a.cursor)>>[1] = PutCursor(a.cursor)
    OBVIOUS
  <2> DEFINE mid == <<PutCursor(a.cursor)>>
  <2>2. /\ q \in Seq(Write)
        /\ Len(q) = Len(head) + Len(mid) + Len(tail)
        /\ \A i \in 1 .. Len(head) : q[i] = head[i]
        /\ \A i \in 1 .. Len(mid) : q[Len(head) + i] = mid[i]
        /\ \A i \in 1 .. Len(tail) : q[Len(head) + Len(mid) + i] = tail[i]
    <3>1. head \in Seq(Write) /\ mid \in Seq(Write) /\ tail \in Seq(Write)
      BY <1>6, <1>7, <1>8
    <3>2. q = head \o mid \o tail
      BY <1>5
    <3> HIDE DEF mid, q
    <3> DEFINE p == head \o mid \o tail
    <3>3. /\ p \in Seq(Write)
          /\ Len(p) = Len(head) + Len(mid) + Len(tail)
          /\ \A i \in 1 .. Len(head) : p[i] = head[i]
          /\ \A i \in 1 .. Len(mid) : p[Len(head) + i] = mid[i]
          /\ \A i \in 1 .. Len(tail) : p[Len(head) + Len(mid) + i] = tail[i]
      BY <3>1, ThreeParts, SMTT(30)
    <3>4. q = p
      BY <3>2
    <3> HIDE DEF p
    <3> QED
      BY <3>3, <3>4
  <2>3. Len(mid) = 1 /\ mid[1] = PutCursor(a.cursor)
    BY <2>1 DEF mid
  <2> HIDE DEF q, mid
  <2>4. q \in Seq(Write) /\ Len(q) = n + 1 + Len(tail)
    BY <2>2, <2>3, <1>6
  <2>5. \A i \in 1 .. n : q[i] = PutRows(known[i], a.rows)
    BY <2>2, <1>6
  <2>6. q[n + 1] = PutCursor(a.cursor)
    BY <2>2, <2>3, <1>6
  <2>7. Len(tail) = 1 => q[n + 2] = PutSettled(a.narrowed)
    <3> SUFFICES ASSUME Len(tail) = 1 PROVE q[n + 2] = PutSettled(a.narrowed)
      OBVIOUS
    <3>1. q[n + 1 + 1] = tail[1]
      BY <2>2, <2>3, <1>6
    <3> QED
      BY <3>1, <1>7, <1>3
  <2> QED
    BY <2>4, <2>5, <2>6, <2>7
<1>10. \A r \in Row : (EntityOf[r] \in Known(t) /\ a.rows[r] # 0) => EntityOf[r] \in S
  BY DEF S
<1> HIDE DEF q
<1>11. n + 1 \in 1 .. Len(q) /\ (n + 1) - 1 = n /\ (n + 1) + 1 = n + 2
  BY <1>9, <1>7, <1>3
<1>12. \A i \in 1 .. n : \E e \in Entity : q[i] = PutRows(e, a.rows)
  BY <1>2, <1>3, <1>9
<1>13. \A r \in Row : (EntityOf[r] \in Known(t) /\ a.rows[r] # 0) =>
          \E i \in 1 .. n : q[i] = PutRows(EntityOf[r], a.rows)
  BY <1>3, <1>9, <1>10
<1>14. Len(q) <= n + 2 /\ (Len(q) = n + 2 => q[n + 2] = PutSettled(a.narrowed))
  <2>1. CASE Len(tail) = 0
    <3>1. Len(q) = n + 1
      BY <2>1, <1>9, <1>3
    <3> QED
      BY <3>1, <1>3
  <2>2. CASE Len(tail) = 1
    <3>1. Len(q) = n + 2
      BY <2>2, <1>9, <1>3
    <3> QED
      BY <3>1, <2>2, <1>9, <1>3
  <2> QED
    BY <2>1, <2>2, <1>7
<1>15. \E k \in 1 .. Len(q) :
         /\ \A i \in 1 .. k - 1 : \E e \in Entity : q[i] = PutRows(e, a.rows)
         /\ q[k] = PutCursor(a.cursor)
         /\ Len(q) <= k + 1
         /\ Len(q) = k + 1 => q[k + 1] = PutSettled(a.narrowed)
         /\ \A r \in Row : (EntityOf[r] \in Known(t) /\ a.rows[r] # 0) =>
              \E i \in 1 .. k - 1 : q[i] = PutRows(EntityOf[r], a.rows)
  BY <1>9, <1>11, <1>12, <1>13, <1>14
<1> QED
  BY <1>9, <1>15 DEF q

\* A drop withdraws what the rows add up to, drops one changed entity after
\* another, starts the cursor again and keeps the new narrowing last.
LEMMA DropFacts ==
  ASSUME NEW s \in Scope
  PROVE  LET q == DropWrites(s) IN
         /\ q \in Seq(Write) /\ Len(q) >= 3
         /\ q[1] = PutSettled(NoScope)
         /\ q[Len(q)] = PutKept(s) /\ q[Len(q) - 1] = PutCursor(0)
         /\ \A i \in 2 .. Len(q) - 2 : \E e \in Narrowed : q[i] = Drop(e)
         /\ \A e \in ChangedEntities(s) : \E i \in 2 .. Len(q) - 2 : q[i] = Drop(e)
<1> DEFINE S       == ChangedEntities(s)
           changed == SetToSeq(S)
           n       == Cardinality(S)
           front   == <<PutSettled(NoScope)>>
           mid     == [i \in DOMAIN changed |-> Drop(changed[i])]
           end     == <<PutCursor(0), PutKept(s)>>
           q       == DropWrites(s)
<1>1. S \subseteq Narrowed /\ Narrowed \subseteq Entity /\ IsFiniteSet(Entity) /\ MaxCounter \in Nat
  BY DeviceStoreAssumption DEF ChangedEntities
<1>2. IsFiniteSet(S)
  BY <1>1, FS_Subset
<1>3. /\ changed \in [1 .. n -> S] /\ n \in Nat
      /\ \A x \in S : \E i \in 1 .. n : changed[i] = x
  BY <1>2, SeqOfSet
<1>4. q = front \o mid \o end
  BY DEF DropWrites
<1> HIDE DEF S, changed, n, q
<1>5. mid \in Seq(Write) /\ Len(mid) = n /\ \A i \in 1 .. n : mid[i] = Drop(changed[i])
  <2>1. \A i \in 1 .. n : Drop(changed[i]) \in Write
    BY <1>1, <1>3, WriteTypes
  <2> QED
    BY <2>1, <1>3
<1> HIDE DEF mid
<1>6. front \in Seq(Write) /\ Len(front) = 1 /\ front[1] = PutSettled(NoScope)
  BY WriteTypes DEF ScopeOrNone
<1>7. end \in Seq(Write) /\ Len(end) = 2 /\ end[1] = PutCursor(0) /\ end[2] = PutKept(s)
  BY WriteTypes, <1>1
<1> HIDE DEF front, end
<1>8. /\ q \in Seq(Write)
      /\ Len(q) = Len(front) + Len(mid) + Len(end)
      /\ \A i \in 1 .. Len(front) : q[i] = front[i]
      /\ \A i \in 1 .. Len(mid) : q[Len(front) + i] = mid[i]
      /\ \A i \in 1 .. Len(end) : q[Len(front) + Len(mid) + i] = end[i]
  <2>1. front \in Seq(Write) /\ mid \in Seq(Write) /\ end \in Seq(Write)
    BY <1>5, <1>6, <1>7
  <2> DEFINE p == front \o mid \o end
  <2>2. /\ p \in Seq(Write)
        /\ Len(p) = Len(front) + Len(mid) + Len(end)
        /\ \A i \in 1 .. Len(front) : p[i] = front[i]
        /\ \A i \in 1 .. Len(mid) : p[Len(front) + i] = mid[i]
        /\ \A i \in 1 .. Len(end) : p[Len(front) + Len(mid) + i] = end[i]
    BY <2>1, ThreeParts
  <2>3. q = p
    BY <1>4
  <2> HIDE DEF p
  <2> QED
    BY <2>2, <2>3
<1>9. Len(q) = n + 3 /\ q[1] = PutSettled(NoScope) /\ q[n + 2] = PutCursor(0) /\ q[n + 3] = PutKept(s)
  BY <1>3, <1>5, <1>6, <1>7, <1>8
<1>10. \A i \in 1 .. n : q[1 + i] = Drop(changed[i])
  <2> TAKE i \in 1 .. n
  <2>1. i \in 1 .. Len(mid) /\ Len(front) = 1
    BY <1>5, <1>6
  <2> QED
    BY <2>1, <1>5, <1>8
<1>11. \A i \in 2 .. n + 1 : \E e \in Narrowed : q[i] = Drop(e)
  <2> TAKE i \in 2 .. n + 1
  <2>1. i - 1 \in 1 .. n /\ 1 + (i - 1) = i
    BY <1>3
  <2> QED
    BY <2>1, <1>1, <1>3, <1>10, ZenonT(30)
<1>12. \A e \in S : \E i \in 2 .. n + 1 : q[i] = Drop(e)
  <2> TAKE e \in S
  <2>1. PICK j \in 1 .. n : changed[j] = e
    BY <1>3
  <2>2. 1 + j \in 2 .. n + 1
    BY <1>3
  <2> QED
    BY <2>1, <2>2, <1>10
<1>13. Len(q) - 2 = n + 1 /\ Len(q) - 1 = n + 2 /\ Len(q) >= 3
  BY <1>9, <1>3
<1>14. q \in Seq(Write)
  BY <1>8
<1> QED
  BY <1>9, <1>11, <1>12, <1>13, <1>14 DEF q, S

-----------------------------------------------------------------------------
(* Types. *)

\* What a write does, by its kind.
WritesRows(t, e, rows) ==
    /\ Head(todo[t]) = PutRows(e, rows) /\ held' = Overwrite(e, rows)
    /\ UNCHANGED <<stored, cursor, entities, kept, settled, narrowedNow>>

WritesCursor(t, c) ==
    /\ Head(todo[t]) = PutCursor(c) /\ stored' = c /\ cursor' = [cursor EXCEPT ![t] = c]
    /\ UNCHANGED <<held, entities, kept, settled, narrowedNow>>

WritesEntities(t, list) ==
    /\ Head(todo[t]) = PutEntities(list) /\ entities' = list
    /\ UNCHANGED <<held, stored, cursor, kept, settled, narrowedNow>>

WritesKept(t, s) ==
    /\ Head(todo[t]) = PutKept(s) /\ kept' = s
    /\ UNCHANGED <<held, stored, cursor, entities, settled, narrowedNow>>

WritesSettled(t, s) ==
    /\ Head(todo[t]) = PutSettled(s) /\ settled' = s
    /\ narrowedNow' = [narrowedNow EXCEPT ![t] = s]
    /\ UNCHANGED <<held, stored, cursor, entities, kept>>

Drops(t, e) ==
    /\ Head(todo[t]) = Drop(e) /\ held' = Without(e)
    /\ UNCHANGED <<stored, cursor, entities, kept, settled, narrowedNow>>

ByKind(t) ==
    \/ \E e \in Entity, rows \in Rows : WritesRows(t, e, rows)
    \/ \E c \in 0 .. MaxCounter : WritesCursor(t, c)
    \/ \E list \in SUBSET Entity : WritesEntities(t, list)
    \/ \E s \in Scope : WritesKept(t, s)
    \/ \E s \in ScopeOrNone : WritesSettled(t, s)
    \/ \E e \in Entity : Drops(t, e)

LEMMA StoreWriteByKind ==
  ASSUME TypeOK, NEW t \in Tab, StoreWrite(t)
  PROVE  /\ ByKind(t)
         /\ todo[t] # <<>> /\ todo' = [todo EXCEPT ![t] = Tail(todo[t])]
         /\ UNCHANGED <<seq, counter, scope, left, reach, late, gone, build, got, opens>>
<1> DEFINE w == Head(todo[t])
<1>1. todo[t] # <<>> /\ todo' = [todo EXCEPT ![t] = Tail(todo[t])]
      /\ UNCHANGED <<seq, counter, scope, left, reach, late, gone, build, got, opens>>
  BY DEF StoreWrite, serverVars, TypeOK
<1>2. w \in Write
  BY <1>1 DEF TypeOK
<1>3. /\ held' = CASE w.op = "rows" -> Overwrite(w.entity, w.rows)
                   [] w.op = "drop" -> Without(w.entity)
                   [] OTHER -> held
      /\ stored' = IF w.op = "cursor" THEN w.cursor ELSE stored
      /\ cursor' = IF w.op = "cursor" THEN [cursor EXCEPT ![t] = w.cursor] ELSE cursor
      /\ entities' = IF w.op = "entities" THEN w.entities ELSE entities
      /\ kept' = IF w.op = "kept" THEN w.scope ELSE kept
      /\ settled' = IF w.op = "settled" THEN w.scope ELSE settled
      /\ narrowedNow' =
           IF w.op = "settled" THEN [narrowedNow EXCEPT ![t] = w.scope] ELSE narrowedNow
  BY DEF StoreWrite
<1> HIDE DEF w
<1>4. CASE w \in [op : {"rows"}, entity : Entity, rows : [Row -> 0 .. MaxCounter]]
  <2>1. w.op = "rows" /\ w = PutRows(w.entity, w.rows) /\ w.entity \in Entity /\ w.rows \in Rows
    BY <1>4 DEF PutRows, Rows
  <2>2. WritesRows(t, w.entity, w.rows)
    BY <2>1, <1>3 DEF WritesRows, w
  <2> QED
    BY <2>1, <2>2, <1>1 DEF ByKind
<1>5. CASE w \in [op : {"cursor"}, cursor : 0 .. MaxCounter]
  <2>1. w.op = "cursor" /\ w = PutCursor(w.cursor) /\ w.cursor \in 0 .. MaxCounter
    BY <1>5 DEF PutCursor
  <2>2. WritesCursor(t, w.cursor)
    BY <2>1, <1>3 DEF WritesCursor, w
  <2> QED
    BY <2>1, <2>2, <1>1 DEF ByKind
<1>6. CASE w \in [op : {"entities"}, entities : SUBSET Entity]
  <2>1. w.op = "entities" /\ w = PutEntities(w.entities) /\ w.entities \in SUBSET Entity
    BY <1>6 DEF PutEntities
  <2>2. WritesEntities(t, w.entities)
    BY <2>1, <1>3 DEF WritesEntities, w
  <2> QED
    BY <2>1, <2>2, <1>1 DEF ByKind
<1>7. CASE w \in [op : {"kept"}, scope : Scope]
  <2>1. w.op = "kept" /\ w = PutKept(w.scope) /\ w.scope \in Scope
    BY <1>7 DEF PutKept
  <2>2. WritesKept(t, w.scope)
    BY <2>1, <1>3 DEF WritesKept, w
  <2> QED
    BY <2>1, <2>2, <1>1 DEF ByKind
<1>8. CASE w \in [op : {"settled"}, scope : ScopeOrNone]
  <2>1. w.op = "settled" /\ w = PutSettled(w.scope) /\ w.scope \in ScopeOrNone
    BY <1>8 DEF PutSettled
  <2>2. WritesSettled(t, w.scope)
    BY <2>1, <1>3 DEF WritesSettled, w
  <2> QED
    BY <2>1, <2>2, <1>1 DEF ByKind
<1>9. CASE w \in [op : {"drop"}, entity : Entity]
  <2>1. w.op = "drop" /\ w = Drop(w.entity) /\ w.entity \in Entity
    BY <1>9 DEF Drop
  <2>2. Drops(t, w.entity)
    BY <2>1, <1>3 DEF Drops, w
  <2> QED
    BY <2>1, <2>2, <1>1 DEF ByKind
<1> QED
  BY <1>2, <1>4, <1>5, <1>6, <1>7, <1>8, <1>9 DEF Write

LEMMA StoreWriteTypes ==
  ASSUME TypeOK, NEW t \in Tab, StoreWrite(t)
  PROVE  TypeOK'
<1>1. /\ ByKind(t)
      /\ todo[t] # <<>> /\ todo' = [todo EXCEPT ![t] = Tail(todo[t])]
      /\ UNCHANGED <<seq, counter, scope, left, reach, late, gone, build, got, opens>>
  BY StoreWriteByKind
<1>2. todo' \in [Tab -> Seq(Write)]
  BY <1>1 DEF TypeOK
<1> DEFINE StoreTypes ==
             /\ held' \in [Row -> 0 .. MaxCounter] /\ stored' \in 0 .. MaxCounter
             /\ entities' \subseteq Entity /\ kept' \in ScopeOrNone /\ settled' \in ScopeOrNone
             /\ cursor' \in [Tab -> 0 .. MaxCounter] /\ narrowedNow' \in [Tab -> ScopeOrNone]
<1>3. StoreTypes
  <2>0. 0 \in 0 .. MaxCounter
    BY DeviceStoreAssumption
  <2>1. ASSUME NEW e \in Entity, NEW rows \in Rows, WritesRows(t, e, rows) PROVE StoreTypes
    BY <2>1 DEF TypeOK, WritesRows, Overwrite, Rows
  <2>2. ASSUME NEW c \in 0 .. MaxCounter, WritesCursor(t, c) PROVE StoreTypes
    BY <2>2 DEF TypeOK, WritesCursor
  <2>3. ASSUME NEW list \in SUBSET Entity, WritesEntities(t, list) PROVE StoreTypes
    BY <2>3 DEF TypeOK, WritesEntities
  <2>4. ASSUME NEW s \in Scope, WritesKept(t, s) PROVE StoreTypes
    BY <2>4 DEF TypeOK, WritesKept, ScopeOrNone
  <2>5. ASSUME NEW s \in ScopeOrNone, WritesSettled(t, s) PROVE StoreTypes
    BY <2>5 DEF TypeOK, WritesSettled
  <2>6. ASSUME NEW e \in Entity, Drops(t, e) PROVE StoreTypes
    BY <2>6, <2>0 DEF TypeOK, Drops, Without
  <2> HIDE DEF StoreTypes
  <2> QED
    BY <1>1, <2>1, <2>2, <2>3, <2>4, <2>5, <2>6 DEF ByKind
<1> QED
  BY <1>1, <1>2, <1>3 DEF TypeOK

LEMMA OpenTypes ==
  ASSUME TypeOK, NEW t \in Tab, NEW b \in Build, Open(t, b)
  PROVE  TypeOK'
<1> DEFINE q == (IF CursorStands(b) THEN <<>> ELSE <<PutCursor(0)>>)
                  \o (IF entities = Knows[b] THEN <<>> ELSE <<PutEntities(Knows[b])>>)
<1>1. 0 \in 0 .. MaxCounter /\ Knows[b] \in SUBSET Entity
  BY DeviceStoreAssumption
<1>2. PutCursor(0) \in Write /\ PutEntities(Knows[b]) \in Write
  BY <1>1, WriteTypes
<1>3. q \in Seq(Write)
  BY <1>2
<1>4. todo' = [todo EXCEPT ![t] = q]
  BY DEF Open
<1> HIDE DEF q
<1>5. todo' \in [Tab -> Seq(Write)]
  BY <1>3, <1>4 DEF TypeOK
<1>6. build' \in [Tab -> Build \cup {Closed}] /\ cursor' \in [Tab -> 0 .. MaxCounter]
      /\ narrowedNow' \in [Tab -> ScopeOrNone]
  BY <1>1 DEF Open, TypeOK
<1>7. opens' \in 0 .. MaxOpens
  BY DeviceStoreAssumption DEF Open, TypeOK
<1> QED
  BY <1>5, <1>6, <1>7 DEF Open, TypeOK, serverVars, storeVars

LEMMA AskTypes ==
  ASSUME TypeOK, NEW t \in Tab, Ask(t)
  PROVE  TypeOK' /\ \E a \in Answers : got' = [got EXCEPT ![t] = a]
<1>1. PICK end \in (IF Visible(t) = {} THEN {cursor[t]} ELSE {seq[r] : r \in Visible(t)}),
           sent \in SUBSET Visible(t), more \in BOOLEAN :
        got' = [got EXCEPT ![t] = AnswerOf(sent, end, more)]
  BY Zenon DEF Ask
<1>2. end \in 0 .. MaxCounter
  BY DEF TypeOK, Visible
<1>3. [r \in Row |-> IF r \in sent THEN seq[r] ELSE 0] \in [Row -> 0 .. MaxCounter]
  BY DeviceStoreAssumption DEF TypeOK
<1> DEFINE a == AnswerOf(sent, end, more)
<1>4. a \in Answers
  BY <1>2, <1>3 DEF AnswerOf, Answers, TypeOK
<1>5. got' = [got EXCEPT ![t] = a]
  BY <1>1
<1> HIDE DEF a
<1>6. got' \in [Tab -> Answers \cup {NoAnswer}]
  BY <1>4, <1>5 DEF TypeOK
<1> QED
  BY <1>4, <1>5, <1>6 DEF TypeOK, Ask, serverVars, storeVars

LEMMA ReceiveTypes ==
  ASSUME TypeOK, NEW t \in Tab, build[t] # Closed, Receive(t)
  PROVE  TypeOK'
<1> DEFINE a == got[t]
           q == CASE kept = a.narrowed -> WritesOf(t, a)
                  [] kept = NoScope    -> <<PutKept(a.narrowed)>> \o WritesOf(t, a)
                  [] OTHER             -> DropWrites(a.narrowed)
<1>1. a \in Answers /\ a.narrowed \in Scope
  BY DEF Receive, TypeOK, Answers
<1>2. WritesOf(t, a) \in Seq(Write) /\ DropWrites(a.narrowed) \in Seq(Write)
  BY <1>1, WritesFacts, DropFacts
<1>3. <<PutKept(a.narrowed)>> \in Seq(Write)
  BY <1>1, WriteTypes
<1>4. <<PutKept(a.narrowed)>> \o WritesOf(t, a) \in Seq(Write)
  BY <1>2, <1>3, TwoParts
<1>5. q \in Seq(Write)
  BY <1>2, <1>4
<1>6. todo' = [todo EXCEPT ![t] = q] /\ got' = [got EXCEPT ![t] = NoAnswer]
  BY DEF Receive
<1> HIDE DEF q
<1>7. todo' \in [Tab -> Seq(Write)] /\ got' \in [Tab -> Answers \cup {NoAnswer}]
  BY <1>5, <1>6 DEF TypeOK
<1> QED
  BY <1>7 DEF TypeOK, Receive, serverVars, storeVars

\* A page that is closed has no answer.
TypeInv == TypeOK /\ \A t \in Tab : build[t] = Closed => got[t] = NoAnswer

LEMMA TypeInit == Init => TypeInv
<1> SUFFICES ASSUME Init PROVE TypeInv
  OBVIOUS
<1>1. 0 \in 0 .. MaxCounter /\ 0 \in 0 .. MaxOpens
  BY DeviceStoreAssumption
<1>2. todo \in [Tab -> Seq(Write)]
  BY DEF Init
<1> QED
  BY <1>1, <1>2 DEF Init, Reachable, TypeInv, TypeOK, ScopeOrNone

LEMMA TypeNext == TypeInv /\ [Next]_vars => TypeInv'
<1> SUFFICES ASSUME TypeInv, [Next]_vars PROVE TypeInv'
  OBVIOUS
<1>0. TypeOK
  BY DEF TypeInv
<1>1. CASE UNCHANGED vars
  BY <1>1 DEF vars, serverVars, storeVars, pageVars, TypeInv, TypeOK
<1>2. ASSUME NEW r \in Row, NEW now \in Reachable, Change(r, now) PROVE TypeInv'
  <2>1. counter + 1 \in 0 .. MaxCounter
    BY <1>2, DeviceStoreAssumption DEF Change, TypeInv, TypeOK
  <2>2. /\ reach' \in [Text -> SUBSET Row]
        /\ late' \in [Text -> SUBSET Row] /\ gone' \in [Text -> SUBSET Row]
    BY <1>2 DEF Change, Reachable, TypeInv, TypeOK
  <2> QED
    BY <1>2, <2>1, <2>2 DEF Change, storeVars, pageVars, TypeInv, TypeOK
<1>3. ASSUME NEW s \in Scope, NEW now \in Reachable, Rescope(s, now) PROVE TypeInv'
  BY <1>3 DEF Rescope, Reachable, storeVars, pageVars, TypeInv, TypeOK
<1>4. ASSUME NEW t \in Tab, NEW b \in Build, Open(t, b) PROVE TypeInv'
  <2>1. TypeOK'
    BY <1>0, <1>4, OpenTypes
  <2>2. \A u \in Tab : build'[u] = Closed => build[u] = Closed /\ got'[u] = got[u]
    BY <1>4, DeviceStoreAssumption DEF Open, TypeInv, TypeOK
  <2> QED
    BY <2>1, <2>2 DEF TypeInv
<1>5. ASSUME NEW t \in Tab, Ask(t) PROVE TypeInv'
  <2>1. TypeOK' /\ \E a \in Answers : got' = [got EXCEPT ![t] = a]
    BY <1>0, <1>5, AskTypes
  <2>2. \A u \in Tab : build'[u] = Closed => build[u] = Closed /\ got'[u] = got[u]
    BY <1>5, <2>1 DEF Ask, TypeInv, TypeOK
  <2> QED
    BY <2>1, <2>2 DEF TypeInv
<1>6. ASSUME NEW t \in Tab, Receive(t) PROVE TypeInv'
  <2>1. build[t] # Closed
    BY <1>6 DEF Receive, TypeInv
  <2>2. TypeOK'
    BY <1>0, <1>6, <2>1, ReceiveTypes
  <2>3. \A u \in Tab : build'[u] = build[u] /\ got'[u] \in {got[u], NoAnswer}
    BY <1>6 DEF Receive, TypeInv, TypeOK
  <2> QED
    BY <2>2, <2>3 DEF TypeInv
<1>7. ASSUME NEW t \in Tab, StoreWrite(t) PROVE TypeInv'
  <2>1. TypeOK' /\ UNCHANGED <<build, got>>
    BY <1>0, <1>7, StoreWriteTypes, StoreWriteByKind
  <2> QED
    BY <2>1 DEF TypeInv
<1>8. ASSUME NEW t \in Tab, Close(t) PROVE TypeInv'
  <2>1. 0 \in 0 .. MaxCounter
    BY DeviceStoreAssumption
  <2>2. todo' \in [Tab -> Seq(Write)]
    BY <1>8 DEF Close, TypeInv, TypeOK
  <2> QED
    BY <1>8, <2>1, <2>2 DEF Close, TypeInv, TypeOK, ScopeOrNone, serverVars, storeVars
<1> QED
  BY <1>1, <1>2, <1>3, <1>4, <1>5, <1>6, <1>7, <1>8 DEF Next, Exchange

\* Every variable of the store and of its pages has its type: what is written
\* is a row, a cursor, a list of entities or a note of the kind the code keeps,
\* for any number of pages and with a device handed back as well.
THEOREM TypeCorrect == Spec => []TypeOK
<1>1. TypeInv => TypeOK
  BY DEF TypeInv
<1> QED
  BY <1>1, TypeInit, TypeNext, PTL DEF Spec

-----------------------------------------------------------------------------
(* The server goes on: a row that changes is numbered above the counter,   *)
(* what may be held may be held from then on, what has to be held had to be *)
(* before unless it was written, and a scope that is left does not come back. *)

ServerGoesOn ==
    /\ UNCHANGED <<storeVars, pageVars>>
    /\ counter <= counter'
    /\ \A r \in Row : seq[r] <= seq'[r] /\ seq'[r] <= counter'
    /\ \A r \in Row : seq'[r] = seq[r] \/ counter < seq'[r]
    /\ scope' \notin left' /\ left \subseteq left' /\ scope \in {scope'} \cup left'
    /\ \A s \in {scope} \cup left : \A r \in Row :
         /\ Allowed(s, r) => Allowed(s, r)'
         /\ (Owed(s, r)' /\ seq'[r] = seq[r]) => Owed(s, r)

LEMMA ScopeTexts ==
  ASSUME TypeOK, NEW s \in {scope} \cup left, NEW e \in Narrowed
  PROVE  s[e] \in Text /\ s[e] \in Seen
<1>1. s \in Scope /\ s \in left \cup {scope}
  BY DEF TypeOK
<1> QED
  BY <1>1, DeviceStoreAssumption DEF Seen, TextsOf

LEMMA ChangeGoesOn ==
  ASSUME TypeOK, StoreInv, NEW r \in Row, NEW now \in Reachable, Change(r, now)
  PROVE  ServerGoesOn
<1>1. /\ UNCHANGED <<storeVars, pageVars, scope, left>>
      /\ counter \in Nat /\ counter' = counter + 1 /\ seq \in [Row -> Nat]
      /\ \A p \in Row : seq'[p] = IF p = r THEN counter + 1 ELSE seq[p]
      /\ \A p \in Row : seq[p] <= counter
      /\ scope \notin left
  BY DEF TypeOK, StoreInv, Change
<1>2. ASSUME NEW x \in Text, NEW p \in Row
      PROVE  /\ p \in reach[x] \cup gone[x] => p \in reach'[x] \cup gone'[x]
             /\ (p # r /\ p \in reach'[x] /\ p \notin late'[x]) => p \in reach[x] /\ p \notin late[x]
  <2>1. /\ reach'[x] = now[x]
        /\ late'[x] = ((late[x] \cap now[x]) \cup (now[x] \ reach[x])) \ {r}
        /\ gone'[x] = gone[x] \cup (reach[x] \ now[x])
    BY DEF Change
  <2> QED
    BY <2>1
<1>3. ASSUME NEW s \in {scope} \cup left, NEW p \in Row
      PROVE  /\ Allowed(s, p) => Allowed(s, p)'
             /\ (Owed(s, p)' /\ seq'[p] = seq[p]) => Owed(s, p)
  <2>1. CASE EntityOf[p] \notin Narrowed
    BY <2>1 DEF Allowed, Owed, MayHold, CameLate
  <2>2. CASE EntityOf[p] \in Narrowed
    <3>1. PICK x \in Text : x = s[EntityOf[p]]
      BY <2>2, ScopeTexts
    <3>2. seq'[p] = seq[p] => p # r
      BY <1>1
    <3> QED
      BY <2>2, <3>1, <3>2, <1>2 DEF Allowed, Owed, MayHold, CameLate, WentAway
  <2> QED
    BY <2>1, <2>2
<1> QED
  BY <1>1, <1>3 DEF ServerGoesOn

LEMMA RescopeGoesOn ==
  ASSUME TypeOK, StoreInv, HandedBack = FALSE, NEW s \in Scope, NEW now \in Reachable,
         Rescope(s, now)
  PROVE  ServerGoesOn
<1>1. ASSUME NEW u \in {scope} \cup left, NEW p \in Row
      PROVE  /\ Allowed(u, p) => Allowed(u, p)'
             /\ (Owed(u, p)' /\ seq'[p] = seq[p]) => Owed(u, p)
  <2>1. CASE EntityOf[p] \notin Narrowed
    BY <2>1 DEF Allowed, Owed, MayHold, CameLate
  <2>2. CASE EntityOf[p] \in Narrowed
    <3>1. PICK x \in Text : x = u[EntityOf[p]] /\ x \in Seen
      BY <2>2, ScopeTexts
    <3>2. reach'[x] = reach[x] /\ UNCHANGED <<late, gone>>
      BY <3>1 DEF Rescope
    <3> QED
      BY <2>2, <3>1, <3>2 DEF Allowed, Owed, MayHold, CameLate, WentAway
  <2> QED
    BY <2>1, <2>2
<1>2. /\ UNCHANGED <<storeVars, pageVars, seq, counter>>
      /\ scope' \notin left' /\ left \subseteq left' /\ scope \in {scope'} \cup left'
  BY DEF Rescope, TypeOK, StoreInv
<1> QED
  BY <1>1, <1>2 DEF ServerGoesOn, StoreInv, TypeOK

LEMMA ServerNumbers ==
  ASSUME TypeOK, TypeOK', StoreInv, ServerGoesOn
  PROVE  /\ seq \in [Row -> Nat] /\ seq' \in [Row -> Nat]
         /\ counter \in Nat /\ counter' \in Nat /\ stored \in Nat
         /\ held \in [Row -> Nat]
BY DEF TypeOK

\* What is complete up to there stays so.
LEMMA ServerComplete ==
  ASSUME TypeOK, TypeOK', StoreInv, ServerGoesOn, NEW s \in {scope} \cup left,
         NEW c \in Nat, c <= counter
  PROVE  /\ Complete(s, c) => Complete(s, c)'
         /\ \A rows \in Rows : Offer(s, rows, c) => Offer(s, rows, c)'
<1>0. /\ seq \in [Row -> Nat] /\ seq' \in [Row -> Nat]
      /\ counter \in Nat /\ counter' \in Nat /\ stored \in Nat
  BY ServerNumbers
<1>1. /\ entities' = entities /\ held' = held /\ stored' = stored
      /\ \A r \in Row : seq'[r] <= c => seq'[r] = seq[r]
  BY <1>0 DEF ServerGoesOn, storeVars
<1>2. Complete(s, c) => Complete(s, c)'
  BY <1>1 DEF Complete, ServerGoesOn
<1>3. ASSUME NEW rows \in Rows, Offer(s, rows, c) PROVE Offer(s, rows, c)'
  <2>0. rows \in [Row -> Nat]
    BY <1>3 DEF Rows
  <2>1. s \in {scope'} \cup left'
    BY <1>3 DEF Offer, ServerGoesOn
  <2>2. stored' <= c /\ c <= counter'
    BY <1>0, <1>1, <1>3 DEF Offer, ServerGoesOn
  <2>3. \A r \in Row : rows[r] # 0 =>
          /\ Allowed(s, r)' /\ stored' < rows[r] /\ rows[r] <= seq'[r]
          /\ rows[r] = seq'[r] \/ c < seq'[r]
    <3> SUFFICES ASSUME NEW r \in Row, rows[r] # 0
                 PROVE  /\ Allowed(s, r)' /\ stored' < rows[r] /\ rows[r] <= seq'[r]
                        /\ rows[r] = seq'[r] \/ c < seq'[r]
      OBVIOUS
    <3>1. /\ Allowed(s, r)' /\ stored < rows[r] /\ rows[r] <= seq[r]
          /\ rows[r] = seq[r] \/ c < seq[r]
      BY <1>3 DEF Offer, ServerGoesOn
    <3>2. seq[r] <= seq'[r] /\ (seq'[r] = seq[r] \/ c < seq'[r])
      BY <1>0 DEF ServerGoesOn
    <3> QED
      BY <3>1, <3>2, <1>0, <1>1, <2>0
  <2>4. \A r \in Row : (Owed(s, r)' /\ stored' < seq'[r] /\ seq'[r] <= c) => rows[r] = seq'[r]
    BY <1>1, <1>3 DEF Offer, ServerGoesOn
  <2> QED
    BY <2>1, <2>2, <2>3, <2>4 DEF Offer
<1> QED
  BY <1>2, <1>3

LEMMA ServerStore ==
  ASSUME TypeOK, TypeOK', StoreInv, ServerGoesOn
  PROVE  StoreInv'
<1>0. /\ seq \in [Row -> Nat] /\ seq' \in [Row -> Nat] /\ held \in [Row -> Nat]
      /\ counter \in Nat /\ counter' \in Nat /\ stored \in Nat
  BY ServerNumbers
<1>1. UNCHANGED <<held, stored, entities, kept, settled>>
  BY DEF ServerGoesOn, storeVars
<1>2. scope' \notin left' /\ kept' \in {scope', NoScope} \cup left'
  BY <1>1 DEF StoreInv, ServerGoesOn
<1>3. stored' <= counter' /\ \A r \in Row : seq'[r] <= counter' /\ held'[r] <= seq'[r]
  BY <1>0, <1>1 DEF StoreInv, ServerGoesOn
<1>4. \A r \in Row : seq'[r] <= stored => seq'[r] = seq[r]
  BY <1>0 DEF StoreInv, ServerGoesOn
<1>5. kept # NoScope => Complete(kept, stored)' \/ (kept' \in left' /\ settled' = NoScope)
  BY <1>1, <1>4 DEF StoreInv, ServerGoesOn, Complete
<1>6. /\ settled' \in {kept', NoScope}
      /\ kept' = NoScope => stored' = 0 /\ \A r \in Row : held'[r] = 0
      /\ kept' # NoScope => \A r \in Row : held'[r] # 0 => Allowed(kept, r)'
  BY <1>1 DEF StoreInv, ServerGoesOn
<1> QED
  BY <1>1, <1>2, <1>3, <1>5, <1>6 DEF StoreInv, Owed, Allowed, MayHold, CameLate, WentAway

LEMMA ServerAnswer ==
  ASSUME TypeOK, TypeOK', StoreInv, ServerGoesOn, NEW t \in Tab, AnswerInv(t)
  PROVE  AnswerInv(t)'
<1> SUFFICES ASSUME got'[t] # NoAnswer PROVE AnswerInv(t)'
  BY DEF AnswerInv
<1>1. UNCHANGED <<held, stored, entities, kept, settled, build, todo, got>>
  BY DEF ServerGoesOn, storeVars, pageVars
<1>2. PICK a \in Answers : a = got[t]
  BY <1>1 DEF TypeOK
<1>3. a.narrowed \in Scope /\ a.rows \in Rows /\ a.cursor \in Nat
  BY DEF Answers, Rows
<1>4. /\ build[t] # Closed /\ todo[t] = <<>>
      /\ Offer(a.narrowed, a.rows, a.cursor)
      /\ kept \in {a.narrowed, NoScope} \cup left
      /\ kept = a.narrowed => Complete(kept, stored)
  BY <1>1, <1>2 DEF AnswerInv
<1>5. a.cursor <= counter /\ a.narrowed \in {scope} \cup left
  BY <1>4 DEF Offer
<1>6. Offer(a.narrowed, a.rows, a.cursor)'
  BY <1>3, <1>4, <1>5, ServerComplete
<1>7. stored \in Nat /\ stored <= counter
  BY DEF TypeOK, StoreInv
<1>8. \A r \in Row : seq'[r] <= stored => seq'[r] = seq[r]
  BY <1>7, ServerNumbers DEF ServerGoesOn
<1>9. kept' = a.narrowed => Complete(kept, stored)'
  <2> SUFFICES ASSUME kept = a.narrowed PROVE Complete(a.narrowed, stored)'
    BY <1>1 DEF Complete
  <2>1. Complete(a.narrowed, stored)
    BY <1>4
  <2> QED
    BY <2>1, <1>1, <1>5, <1>7, ServerComplete DEF Complete
<1>10. kept' \in {a.narrowed, NoScope} \cup left'
  BY <1>1, <1>4 DEF ServerGoesOn
<1>11. got'[t] = a
  BY <1>1, <1>2
<1> QED
  BY <1>1, <1>4, <1>6, <1>9, <1>10, <1>11 DEF AnswerInv, Offer

LEMMA ServerPage ==
  ASSUME TypeOK, TypeOK', StoreInv, ServerGoesOn, NEW t \in Tab, PageInv(t)
  PROVE  PageInv(t)'
<1>0. /\ seq \in [Row -> Nat] /\ seq' \in [Row -> Nat] /\ held \in [Row -> Nat]
      /\ counter \in Nat /\ counter' \in Nat /\ stored \in Nat /\ stored <= counter
  BY ServerNumbers DEF StoreInv
<1>1. UNCHANGED <<held, stored, entities, kept, settled, build, todo, got, cursor>>
  BY DEF ServerGoesOn, storeVars, pageVars
<1>2. \A r \in Row : seq'[r] <= stored => seq'[r] = seq[r]
  BY <1>0 DEF ServerGoesOn
<1>3. kept # NoScope /\ Complete(kept, stored) => Complete(kept, stored)'
  <2> SUFFICES ASSUME kept # NoScope, Complete(kept, stored) PROVE Complete(kept, stored)'
    OBVIOUS
  <2>1. kept \in {scope} \cup left
    BY DEF StoreInv
  <2> QED
    BY <2>1, <1>1, <1>2 DEF Complete, ServerGoesOn
<1>4. ASSUME NEW s, NEW q, NEW rows \in Rows, NEW c \in 0 .. MaxCounter,
             Offer(s, rows, c), RowList(q, s, rows, c)
      PROVE  Offer(s, rows, c)' /\ RowList(q, s, rows, c)'
  <2>1. c \in Nat /\ c <= counter /\ s \in {scope} \cup left
    BY <1>4 DEF Offer
  <2>2. Offer(s, rows, c)'
    BY <1>4, <2>1, ServerComplete
  <2>3. \A r \in Row : seq'[r] <= c => seq'[r] = seq[r]
    BY <2>1, <1>0 DEF ServerGoesOn
  <2>4. RowList(q, s, rows, c)'
    <3>1. \A r \in Row : (Owed(s, r)' /\ seq'[r] <= c) => Owed(s, r) /\ seq[r] = seq'[r]
      BY <2>1, <2>3 DEF ServerGoesOn
    <3> QED
      BY <1>4, <3>1, <1>1 DEF RowList
  <2> QED
    BY <2>2, <2>4
<1>5. Starting(t) => Starting(t)'
  <2> SUFFICES ASSUME Starting(t) PROVE Starting(t)'
    OBVIOUS
  <2>1. PICK s \in Scope, rows \in Rows, c \in 0 .. MaxCounter :
          /\ todo[t] # <<>> /\ Head(todo[t]) = PutKept(s)
          /\ Offer(s, rows, c) /\ RowList(Tail(todo[t]), s, rows, c)
    BY DEF Starting
  <2>2. PICK p : p = Tail(todo[t])
    OBVIOUS
  <2>3. Offer(s, rows, c)' /\ RowList(p, s, rows, c)'
    BY <2>1, <2>2, <1>4
  <2>4. p = Tail(todo'[t])
    BY <2>2, <1>1
  <2>5. RowList(Tail(todo[t]), s, rows, c)'
    BY <2>3, <2>4 DEF RowList
  <2>6. kept' = NoScope /\ todo'[t] # <<>> /\ Head(todo'[t]) = PutKept(s)
    BY <1>1, <2>1 DEF Starting
  <2> QED
    BY <2>3, <2>5, <2>6 DEF Starting, PutKept
<1>6. Paging(t) => Paging(t)'
  <2> SUFFICES ASSUME Paging(t) PROVE Paging(t)'
    OBVIOUS
  <2>1. PICK rows \in Rows, c \in 0 .. MaxCounter :
          Offer(kept, rows, c) /\ RowList(todo[t], kept, rows, c)
    BY DEF Paging
  <2>2. PICK p, s : p = todo[t] /\ s = kept
    OBVIOUS
  <2>3. Offer(s, rows, c)' /\ RowList(p, s, rows, c)'
    BY <2>1, <2>2, <1>4
  <2>4. p = todo'[t] /\ s = kept'
    BY <2>2, <1>1
  <2>5. Offer(kept, rows, c)'
    BY <2>3, <2>4 DEF Offer
  <2>6. RowList(todo[t], kept, rows, c)'
    BY <2>3, <2>4 DEF RowList
  <2>7. kept' # NoScope /\ Complete(kept, stored)'
    BY <1>1, <1>3 DEF Paging
  <2> QED
    BY <2>5, <2>6, <2>7 DEF Paging
<1>7. Settling(t) => Settling(t)'
  BY <1>1, <1>3 DEF Settling
<1>8. Dropping(t) => Dropping(t)'
  BY <1>1 DEF Dropping, DropList, ChangedEntities, ServerGoesOn
<1>9. Opening(t) => Opening(t)'
  BY <1>1 DEF Opening, Known
<1> QED
  BY <1>1, <1>5, <1>6, <1>7, <1>8, <1>9 DEF PageInv, AtWork, Known

-----------------------------------------------------------------------------
(* The page opens, asks, receives and is closed: the store stays. *)

LEMMA StoreStays ==
  ASSUME StoreInv, UNCHANGED <<serverVars, storeVars>>
  PROVE  StoreInv'
BY DEF StoreInv, serverVars, storeVars, Complete, Owed, Allowed, MayHold, CameLate, WentAway

\* A page that awaits no write has the cursor of the store, and the store the
\* list of its build.
LEMMA AtRest ==
  ASSUME NEW t \in Tab, PageInv(t), build[t] # Closed, todo[t] = <<>>
  PROVE  cursor[t] = stored /\ entities = Known(t)
<1>1. ~Opening(t)
  BY DEF Opening
<1> QED
  BY <1>1 DEF PageInv

LEMMA OpenPage ==
  ASSUME IInv, NEW t \in Tab, NEW b \in Build, Open(t, b)
  PROVE  AnswerInv(t)' /\ PageInv(t)'
<1>1. build[t] = Closed /\ got[t] = NoAnswer /\ b # Closed
  BY DeviceStoreAssumption DEF IInv, PageInv, Open
<1>2. /\ got'[t] = NoAnswer /\ build'[t] = b
      /\ UNCHANGED <<stored, entities>>
      /\ cursor'[t] = IF CursorStands(b) THEN stored ELSE 0
      /\ todo'[t] = (IF CursorStands(b) THEN <<>> ELSE <<PutCursor(0)>>)
                      \o (IF entities = Knows[b] THEN <<>> ELSE <<PutEntities(Knows[b])>>)
  BY <1>1 DEF Open, IInv, TypeOK, storeVars
<1>3. AnswerInv(t)'
  BY <1>2 DEF AnswerInv
<1>4. Known(t)' = Knows[b]
  BY <1>2 DEF Known
<1> DEFINE x == PutCursor(0)
           y == PutEntities(Knows[b])
<1>5. <<>> \o <<>> = <<>> /\ <<>> \o <<y>> = <<y>> /\ <<x>> \o <<y>> = <<x, y>>
  <2> HIDE DEF x, y
  <2>1. <<>> \o <<>> = <<>>
    OBVIOUS
  <2>2. <<>> \o <<y>> = <<y>>
    OBVIOUS
  <2>3. <<x>> \o <<y>> = <<x, y>>
    <3> DEFINE z == <<x>> \o <<y>>
    <3>1. z \in Seq({x, y}) /\ Len(z) = 2 /\ z[1] = x /\ z[2] = y
      OBVIOUS
    <3> HIDE DEF z
    <3>2. z = <<x, y>>
      BY <3>1
    <3> QED
      BY <3>2 DEF z
  <2> QED
    BY <2>1, <2>2, <2>3
<1>6. CASE CursorStands(b) /\ entities = Knows[b]
  BY <1>1, <1>2, <1>3, <1>4, <1>5, <1>6 DEF PageInv
<1>7. CASE CursorStands(b) /\ entities # Knows[b]
  <2>1. todo'[t] = <<y>>
    BY <1>2, <1>5, <1>7
  <2>2. Opening(t)'
    BY <1>2, <1>4, <1>7, <2>1 DEF Opening, CursorStands, PutEntities
  <2> QED
    BY <1>1, <1>2, <1>3, <2>2 DEF PageInv
<1>8. CASE ~CursorStands(b)
  <2>1. entities # Knows[b]
    BY <1>8 DEF CursorStands
  <2>2. todo'[t] = <<x, y>>
    BY <1>2, <1>5, <1>8, <2>1
  <2>3. Opening(t)'
    BY <1>4, <2>2 DEF Opening, PutCursor, PutEntities
  <2> QED
    BY <1>1, <1>2, <1>3, <2>3 DEF PageInv
<1> QED
  BY <1>6, <1>7, <1>8

LEMMA AskPage ==
  ASSUME IInv, NEW t \in Tab, Ask(t)
  PROVE  AnswerInv(t)' /\ PageInv(t)'
<1>1. PICK end \in (IF Visible(t) = {} THEN {cursor[t]} ELSE {seq[r] : r \in Visible(t)}),
           sent \in SUBSET Visible(t), more \in BOOLEAN :
        /\ {r \in Visible(t) : seq[r] <= end} \subseteq sent
        /\ got' = [got EXCEPT ![t] = AnswerOf(sent, end, more)]
  BY Zenon DEF Ask
<1>2. /\ build[t] # Closed /\ todo[t] = <<>>
      /\ UNCHANGED <<serverVars, storeVars, build, cursor, todo>>
  BY DEF Ask
<1>3. cursor[t] = stored /\ entities = Known(t)
  BY <1>2, AtRest DEF IInv
<1>4. /\ seq \in [Row -> Nat] /\ counter \in Nat /\ stored \in Nat /\ stored <= counter
      /\ \A r \in Row : seq[r] <= counter
  BY DEF IInv, TypeOK, StoreInv
<1> DEFINE rows == [r \in Row |-> IF r \in sent THEN seq[r] ELSE 0]
<1>5. \A r \in Row : r \in Visible(t) <=> MayHold(scope, r) /\ stored < seq[r]
  BY <1>3, <1>4 DEF Visible
<1>6. end \in Nat /\ stored <= end /\ end <= counter
  <2>1. CASE Visible(t) = {}
    BY <2>1, <1>3, <1>4
  <2>2. CASE Visible(t) # {}
    <3>1. PICK r \in Visible(t) : end = seq[r]
      BY <2>2
    <3>2. r \in Row
      BY DEF Visible
    <3> QED
      BY <3>1, <3>2, <1>4, <1>5
  <2> QED
    BY <2>1, <2>2
<1>7. \A r \in Row : rows[r] # 0 =>
        Allowed(scope, r) /\ stored < rows[r] /\ rows[r] <= seq[r] /\ rows[r] = seq[r]
  BY <1>4, <1>5 DEF Allowed
<1>8. \A r \in Row : (Owed(scope, r) /\ stored < seq[r] /\ seq[r] <= end) => rows[r] = seq[r]
  BY <1>1, <1>5 DEF Owed
<1>9. Offer(scope, rows, end)
  <2> HIDE DEF rows
  <2> QED
    BY <1>6, <1>7, <1>8 DEF Offer
<1>10. /\ got'[t].rows = rows /\ got'[t].cursor = end /\ got'[t].narrowed = scope
  BY <1>1 DEF AnswerOf, IInv, TypeOK
<1> HIDE DEF rows
<1>11. kept = scope => Complete(kept, stored)
  BY DeviceStoreAssumption DEF IInv, StoreInv, TypeOK
<1>12. kept \in {scope, NoScope} \cup left
  BY DEF IInv, StoreInv
<1>13. Offer(got[t].narrowed, got[t].rows, got[t].cursor)'
  <2>1. UNCHANGED <<scope, left, reach, late, gone, stored, counter, seq>>
    BY <1>2 DEF serverVars, storeVars
  <2> QED
    BY <2>1, <1>9, <1>10 DEF Offer, Owed, Allowed, MayHold, CameLate, WentAway
<1>14. kept' = got'[t].narrowed => Complete(kept, stored)'
  BY <1>2, <1>10, <1>11 DEF Complete, Owed, Allowed, MayHold, CameLate, WentAway, serverVars, storeVars
<1>15. AnswerInv(t)'
  BY <1>2, <1>10, <1>12, <1>13, <1>14 DEF AnswerInv, serverVars, storeVars
<1>16. PageInv(t)'
  BY <1>2, <1>3 DEF PageInv, Known, storeVars
<1> QED
  BY <1>15, <1>16

LEMMA ClosePage ==
  ASSUME IInv, NEW t \in Tab, Close(t)
  PROVE  AnswerInv(t)' /\ PageInv(t)'
<1>1. got'[t] = NoAnswer /\ build'[t] = Closed /\ todo'[t] = <<>>
  BY DEF Close, IInv, TypeOK
<1> QED
  BY <1>1 DEF AnswerInv, PageInv

\* The writes of an answer, when the store has the list of the build: what the
\* store does not hold of the answer is among them.
LEMMA AnswerWrites ==
  ASSUME IInv, NEW t \in Tab, build[t] # Closed, entities = Known(t), NEW a \in Answers,
         Offer(a.narrowed, a.rows, a.cursor), Complete(a.narrowed, stored)
  PROVE  RowList(WritesOf(t, a), a.narrowed, a.rows, a.cursor)
<1>1. PICK k \in 1 .. Len(WritesOf(t, a)) :
        /\ \A i \in 1 .. k - 1 : \E e \in Entity : WritesOf(t, a)[i] = PutRows(e, a.rows)
        /\ WritesOf(t, a)[k] = PutCursor(a.cursor)
        /\ Len(WritesOf(t, a)) <= k + 1
        /\ Len(WritesOf(t, a)) = k + 1 => WritesOf(t, a)[k + 1] = PutSettled(a.narrowed)
        /\ \A r \in Row : (EntityOf[r] \in Known(t) /\ a.rows[r] # 0) =>
             \E i \in 1 .. k - 1 : WritesOf(t, a)[i] = PutRows(EntityOf[r], a.rows)
  BY WritesFacts DEF IInv
<1>2. /\ seq \in [Row -> Nat] /\ stored \in Nat
  BY DEF IInv, TypeOK
<1>3. ASSUME NEW r \in Row, EntityOf[r] \in entities, Owed(a.narrowed, r), seq[r] <= a.cursor
      PROVE  \/ held[r] = seq[r]
             \/ a.rows[r] = seq[r]
                /\ \E i \in 1 .. k - 1 : WritesOf(t, a)[i] = PutRows(EntityOf[r], a.rows)
  <2>1. CASE seq[r] <= stored
    BY <1>3, <2>1 DEF Complete
  <2>2. CASE stored < seq[r]
    <3>1. a.rows[r] = seq[r] /\ seq[r] # 0
      BY <1>2, <1>3, <2>2 DEF Offer
    <3> QED
      BY <1>1, <1>3, <3>1
  <2> QED
    BY <1>2, <2>1, <2>2
<1> QED
  BY <1>1, <1>3 DEF RowList

LEMMA ReceivePage ==
  ASSUME IInv, NEW t \in Tab, Receive(t)
  PROVE  AnswerInv(t)' /\ PageInv(t)'
<1>1. PICK a \in Answers : a = got[t]
  BY DEF Receive, IInv, TypeOK
<1>2. a.narrowed \in Scope /\ a.rows \in Rows /\ a.cursor \in 0 .. MaxCounter
  BY DEF Answers, Rows
<1>3. /\ build[t] # Closed /\ todo[t] = <<>>
      /\ Offer(a.narrowed, a.rows, a.cursor)
      /\ kept \in {a.narrowed, NoScope} \cup left
      /\ kept = a.narrowed => Complete(kept, stored)
  BY <1>1 DEF Receive, IInv, AnswerInv
<1>4. cursor[t] = stored /\ entities = Known(t)
  BY <1>3, AtRest DEF IInv
<1>5. /\ got'[t] = NoAnswer
      /\ UNCHANGED <<seq, counter, scope, left, reach, late, gone, held, stored, entities, kept, settled, build, cursor>>
      /\ todo'[t] = CASE kept = a.narrowed -> WritesOf(t, a)
                      [] kept = NoScope    -> <<PutKept(a.narrowed)>> \o WritesOf(t, a)
                      [] OTHER             -> DropWrites(a.narrowed)
  BY <1>1 DEF Receive, IInv, TypeOK, serverVars, storeVars
<1>6. AnswerInv(t)'
  BY <1>5 DEF AnswerInv
<1>7. NoScope \notin Scope
  BY DeviceStoreAssumption
<1>8. CASE kept = a.narrowed
  <2>1. RowList(WritesOf(t, a), a.narrowed, a.rows, a.cursor)
    BY <1>3, <1>4, <1>8, AnswerWrites
  <2>2. PICK q : q = WritesOf(t, a)
    OBVIOUS
  <2>3. todo'[t] = q /\ RowList(q, kept, a.rows, a.cursor)
    <3>1. todo'[t] = q
      BY <1>2, <1>5, <1>7, <1>8, <2>2
    <3>2. RowList(q, kept, a.rows, a.cursor)
      BY <1>8, <2>1, <2>2, Zenon
    <3> QED
      BY <3>1, <3>2
  <2>4. RowList(todo[t], kept, a.rows, a.cursor)'
    <3>1. \A r \in Row : Owed(kept, r)' <=> Owed(kept, r)
      BY <1>5 DEF Owed, MayHold, CameLate
    <3> QED
      BY <3>1, <1>5, <2>3 DEF RowList
  <2>5. Offer(kept, a.rows, a.cursor)' /\ Complete(kept, stored)' /\ kept' # NoScope
    BY <1>2, <1>3, <1>5, <1>7, <1>8 DEF Offer, Complete, Owed, Allowed, MayHold, CameLate, WentAway
  <2>6. Paging(t)'
    BY <1>2, <2>4, <2>5 DEF Paging
  <2> QED
    BY <1>3, <1>4, <1>5, <1>6, <2>6 DEF PageInv, AtWork, Known
<1>9. CASE kept = NoScope
  <2>1. /\ stored = 0 /\ \A r \in Row : held[r] = 0
        /\ seq \in [Row -> Nat]
    BY <1>9 DEF IInv, StoreInv, TypeOK
  <2>2. Complete(a.narrowed, stored)
    BY <2>1 DEF Complete
  <2>3. RowList(WritesOf(t, a), a.narrowed, a.rows, a.cursor) /\ WritesOf(t, a) \in Seq(Write)
    BY <1>3, <1>4, <2>2, AnswerWrites, WritesFacts DEF IInv
  <2>4. PICK q \in Seq(Write) : q = WritesOf(t, a)
    BY <2>3
  <2>5. todo'[t] = <<PutKept(a.narrowed)>> \o q
    BY <1>2, <1>5, <1>7, <1>9, <2>4
  <2>6. PICK w : w = PutKept(a.narrowed)
    OBVIOUS
  <2>7. <<w>> \o q # <<>> /\ Head(<<w>> \o q) = w /\ Tail(<<w>> \o q) = q
    OBVIOUS
  <2>8. todo'[t] # <<>> /\ Head(todo'[t]) = PutKept(a.narrowed) /\ Tail(todo'[t]) = q
    BY <2>5, <2>6, <2>7
  <2>9. RowList(Tail(todo[t]), a.narrowed, a.rows, a.cursor)'
    <3>1. RowList(q, a.narrowed, a.rows, a.cursor)
      BY <2>3, <2>4, Zenon
    <3>2. RowList(q, a.narrowed, a.rows, a.cursor)'
      BY <3>1, <1>5 DEF RowList, Owed, Allowed, MayHold, CameLate, WentAway
    <3> QED
      BY <3>2, <2>8 DEF RowList
  <2>10. Offer(a.narrowed, a.rows, a.cursor)'
    BY <1>3, <1>5 DEF Offer, Owed, Allowed, MayHold, CameLate, WentAway
  <2>11. Starting(t)'
    BY <1>2, <1>5, <1>9, <2>8, <2>9, <2>10 DEF Starting, PutKept
  <2> QED
    BY <1>3, <1>4, <1>5, <1>6, <2>11 DEF PageInv, AtWork, Known
<1>10. CASE kept # a.narrowed /\ kept # NoScope
  <2> DEFINE s == a.narrowed
  <2>1. kept \in left /\ s \in {scope} \cup left
    BY <1>3, <1>10 DEF Offer
  <2>2. PICK q : q = DropWrites(s)
    OBVIOUS
  <2>3. /\ q \in Seq(Write) /\ Len(q) >= 3
        /\ q[1] = PutSettled(NoScope)
        /\ q[Len(q)] = PutKept(s) /\ q[Len(q) - 1] = PutCursor(0)
        /\ \A i \in 2 .. Len(q) - 2 : \E e \in Narrowed : q[i] = Drop(e)
        /\ \A e \in ChangedEntities(s) : \E i \in 2 .. Len(q) - 2 : q[i] = Drop(e)
    BY <1>2, <2>2, DropFacts
  <2>4. \A i \in 1 .. Len(q) - 2 : i = 1 \/ i \in 2 .. Len(q) - 2
    BY <2>3
  <2>5. \A i \in 2 .. Len(q) - 2 : i \in 1 .. Len(q) - 2
    BY <2>3
  <2>6. DropList(q, s)
    <3>1. Len(q) # 1 /\ Len(q) >= 1
      BY <2>3
    <3> QED
      BY <2>3, <2>4, <2>5, <3>1 DEF DropList
  <2>7. todo'[t] = q
    BY <1>5, <1>10, <2>2
  <2>8. DropList(q, s)'
    BY <1>5, <2>6 DEF DropList, ChangedEntities
  <2>9. Dropping(t)'
    BY <1>5, <1>10, <2>1, <2>7, <2>8 DEF Dropping, DropList
  <2> QED
    BY <1>3, <1>4, <1>5, <1>6, <2>9 DEF PageInv, AtWork, Known
<1> QED
  BY <1>8, <1>9, <1>10

-----------------------------------------------------------------------------
(* The writes, one by one. *)

\* Which write it is, its kind tells.
LEMMA HeadTells ==
  ASSUME NEW t \in Tab, ByKind(t)
  PROVE  /\ \A e, rows : Head(todo[t]) = PutRows(e, rows) => WritesRows(t, e, rows)
         /\ \A c : Head(todo[t]) = PutCursor(c) => WritesCursor(t, c)
         /\ \A list : Head(todo[t]) = PutEntities(list) => WritesEntities(t, list)
         /\ \A s : Head(todo[t]) = PutKept(s) => WritesKept(t, s)
         /\ \A s : Head(todo[t]) = PutSettled(s) => WritesSettled(t, s)
         /\ \A e : Head(todo[t]) = Drop(e) => Drops(t, e)
<1> DEFINE w == Head(todo[t])
<1>1. /\ \A e, rows : PutRows(e, rows).op = "rows" /\ PutRows(e, rows).entity = e
                        /\ PutRows(e, rows).rows = rows
      /\ \A c : PutCursor(c).op = "cursor" /\ PutCursor(c).cursor = c
      /\ \A list : PutEntities(list).op = "entities" /\ PutEntities(list).entities = list
      /\ \A s : PutKept(s).op = "kept" /\ PutKept(s).scope = s
      /\ \A s : PutSettled(s).op = "settled" /\ PutSettled(s).scope = s
      /\ \A e : Drop(e).op = "drop" /\ Drop(e).entity = e
  BY DEF PutRows, PutCursor, PutEntities, PutKept, PutSettled, Drop
<1>2. CASE \E e \in Entity, rows \in Rows : WritesRows(t, e, rows)
  <2>1. PICK e \in Entity, rows \in Rows : WritesRows(t, e, rows)
    BY <1>2
  <2>2. Head(todo[t]) = PutRows(e, rows)
    BY <2>1 DEF WritesRows
  <2> QED
    BY <1>1, <2>1, <2>2
<1>3. CASE \E c \in 0 .. MaxCounter : WritesCursor(t, c)
  <2>1. PICK c \in 0 .. MaxCounter : WritesCursor(t, c)
    BY <1>3
  <2>2. Head(todo[t]) = PutCursor(c)
    BY <2>1 DEF WritesCursor
  <2> QED
    BY <1>1, <2>1, <2>2
<1>4. CASE \E list \in SUBSET Entity : WritesEntities(t, list)
  <2>1. PICK list \in SUBSET Entity : WritesEntities(t, list)
    BY <1>4
  <2>2. Head(todo[t]) = PutEntities(list)
    BY <2>1 DEF WritesEntities
  <2> QED
    BY <1>1, <2>1, <2>2
<1>5. CASE \E s \in Scope : WritesKept(t, s)
  <2>1. PICK s \in Scope : WritesKept(t, s)
    BY <1>5
  <2>2. Head(todo[t]) = PutKept(s)
    BY <2>1 DEF WritesKept
  <2> QED
    BY <1>1, <2>1, <2>2
<1>6. CASE \E s \in ScopeOrNone : WritesSettled(t, s)
  <2>1. PICK s \in ScopeOrNone : WritesSettled(t, s)
    BY <1>6
  <2>2. Head(todo[t]) = PutSettled(s)
    BY <2>1 DEF WritesSettled
  <2> QED
    BY <1>1, <2>1, <2>2
<1>7. CASE \E e \in Entity : Drops(t, e)
  <2>1. PICK e \in Entity : Drops(t, e)
    BY <1>7
  <2>2. Head(todo[t]) = Drop(e)
    BY <2>1 DEF Drops
  <2> QED
    BY <1>1, <2>1, <2>2
<1> QED
  BY <1>2, <1>3, <1>4, <1>5, <1>6, <1>7 DEF ByKind

\* What every write leaves alone, and the list without its first.
Wrote(t) ==
    /\ ByKind(t) /\ todo[t] \in Seq(Write) /\ todo[t] # <<>>
    /\ todo'[t] = Tail(todo[t])
    /\ got[t] = NoAnswer /\ got'[t] = NoAnswer /\ build[t] # Closed /\ build'[t] = build[t]
    /\ UNCHANGED <<seq, counter, scope, left, reach, late, gone>>

LEMMA WroteIt ==
  ASSUME IInv, NEW t \in Tab, StoreWrite(t)
  PROVE  Wrote(t)
<1>1. /\ ByKind(t) /\ todo[t] # <<>> /\ todo' = [todo EXCEPT ![t] = Tail(todo[t])]
      /\ UNCHANGED <<seq, counter, scope, left, reach, late, gone, build, got, opens>>
  BY StoreWriteByKind DEF IInv
<1>2. got[t] = NoAnswer /\ build[t] # Closed
  BY <1>1 DEF IInv, AnswerInv, PageInv
<1> QED
  BY <1>1, <1>2 DEF Wrote, IInv, TypeOK

LEMMA TailFacts ==
  ASSUME NEW T, NEW q \in Seq(T), q # <<>>
  PROVE  /\ Head(q) = q[1] /\ Len(q) \in Nat /\ Len(q) >= 1
         /\ Tail(q) \in Seq(T) /\ Len(Tail(q)) = Len(q) - 1
         /\ \A i \in 1 .. Len(q) - 1 : Tail(q)[i] = q[i + 1]
OBVIOUS

LEMMA Empty ==
  ASSUME NEW T, NEW q \in Seq(T), Len(q) = 0
  PROVE  q = <<>>
OBVIOUS

LEMMA OneOrTwo == \A n \in Nat : n >= 1 /\ n <= 2 => n = 1 \/ n = 2
OBVIOUS

LEMMA Numbers ==
  ASSUME IInv
  PROVE  /\ seq \in [Row -> Nat] /\ held \in [Row -> Nat] /\ stored \in Nat /\ counter \in Nat
         /\ EntityOf \in [Row -> Entity] /\ NoScope \notin Scope
BY DeviceStoreAssumption DEF IInv, TypeOK

LEMMA OpeningWrites ==
  ASSUME IInv, NEW t \in Tab, Wrote(t), Opening(t)
  PROVE  StoreInv' /\ AnswerInv(t)' /\ PageInv(t)'
<1>1. AnswerInv(t)'
  BY DEF Wrote, AnswerInv
<1>2. Known(t)' = Known(t)
  BY DEF Wrote, Known
<1>3. ByKind(t) /\ UNCHANGED <<seq, counter, scope, left, reach, late, gone>>
      /\ todo'[t] = Tail(todo[t])
  BY DEF Wrote
<1>4. CASE todo[t] = <<PutCursor(0), PutEntities(Known(t))>>
  <2>1. PICK x, y : x = PutCursor(0) /\ y = PutEntities(Known(t))
    OBVIOUS
  <2>2. Head(<<x, y>>) = x /\ Tail(<<x, y>>) = <<y>>
    OBVIOUS
  <2>3. Head(todo[t]) = PutCursor(0) /\ todo'[t] = <<PutEntities(Known(t))>>
    BY <1>3, <1>4, <2>1, <2>2
  <2>4. WritesCursor(t, 0)
    BY <1>3, <2>3, HeadTells
  <2>5. stored' = 0 /\ cursor'[t] = 0 /\ UNCHANGED <<held, entities, kept, settled>>
    BY <2>4 DEF WritesCursor, IInv, TypeOK
  <2>6. Opening(t)'
    BY <1>2, <2>3, <2>5 DEF Opening, PutEntities
  <2>7. \A r \in Row : seq[r] <= 0 => held[r] = seq[r]
    BY Numbers DEF IInv, StoreInv
  <2>8. Complete(kept, stored)'
    BY <1>3, <2>5, <2>7 DEF Complete
  <2>9. StoreInv'
    BY <1>3, <2>5, <2>8, Numbers DEF IInv, StoreInv, Owed, Allowed, MayHold, CameLate, WentAway
  <2> QED
    BY <1>1, <2>6, <2>9 DEF PageInv, Wrote
<1>5. CASE /\ todo[t] = <<PutEntities(Known(t))>> /\ cursor[t] = stored
           /\ Known(t) \subseteq entities \/ stored = 0
  <2>1. PICK y : y = PutEntities(Known(t))
    OBVIOUS
  <2>2. Head(<<y>>) = y /\ Tail(<<y>>) = <<>>
    OBVIOUS
  <2>3. Head(todo[t]) = PutEntities(Known(t)) /\ todo'[t] = <<>>
    BY <1>3, <1>5, <2>1, <2>2
  <2>4. WritesEntities(t, Known(t))
    BY <1>3, <2>3, HeadTells
  <2>5. entities' = Known(t) /\ UNCHANGED <<held, stored, cursor, kept, settled>>
    BY <2>4 DEF WritesEntities
  <2>6. \A r \in Row : seq[r] <= 0 => held[r] = seq[r]
    BY Numbers DEF IInv, StoreInv
  <2>7. Complete(kept, stored) => Complete(kept, stored)'
    BY <1>3, <1>5, <2>5, <2>6 DEF Complete, Owed, Allowed, MayHold, CameLate, WentAway
  <2>8. StoreInv'
    BY <1>3, <2>5, <2>7 DEF IInv, StoreInv, Owed, Allowed, MayHold, CameLate, WentAway
  <2>9. PageInv(t)'
    BY <1>2, <1>5, <2>3, <2>5 DEF PageInv, Wrote
  <2> QED
    BY <1>1, <2>8, <2>9
<1> QED
  BY <1>4, <1>5 DEF Opening

LEMMA StartingWrites ==
  ASSUME IInv, NEW t \in Tab, Wrote(t), cursor[t] = stored, entities = Known(t), Starting(t)
  PROVE  StoreInv' /\ AnswerInv(t)' /\ PageInv(t)'
<1>1. AnswerInv(t)'
  BY DEF Wrote, AnswerInv
<1>2. Known(t)' = Known(t)
  BY DEF Wrote, Known
<1>3. ByKind(t) /\ UNCHANGED <<seq, counter, scope, left, reach, late, gone>>
      /\ todo'[t] = Tail(todo[t])
  BY DEF Wrote
<1>4. PICK s \in Scope, rows \in Rows, c \in 0 .. MaxCounter :
        /\ Head(todo[t]) = PutKept(s)
        /\ Offer(s, rows, c) /\ RowList(Tail(todo[t]), s, rows, c)
  BY DEF Starting
<1>5. WritesKept(t, s)
  BY <1>3, <1>4, HeadTells
<1>6. kept' = s /\ UNCHANGED <<held, stored, cursor, entities, settled>>
  BY <1>5 DEF WritesKept
<1>7. kept = NoScope /\ stored = 0 /\ settled = NoScope /\ \A r \in Row : held[r] = 0
  BY DEF Starting, IInv, StoreInv
<1>8. Complete(kept, stored)'
  BY <1>3, <1>6, <1>7, Numbers DEF Complete
<1>9. s \in {scope} \cup left
  BY <1>4 DEF Offer
<1>10. StoreInv'
  BY <1>3, <1>6, <1>7, <1>8, <1>9 DEF IInv, StoreInv
<1>11. Offer(kept, rows, c)'
  BY <1>3, <1>4, <1>6 DEF Offer, Owed, Allowed, MayHold, CameLate, WentAway
<1>12. PICK q : q = Tail(todo[t])
  OBVIOUS
<1>13. RowList(q, s, rows, c)
  BY <1>4, <1>12, Zenon
<1>14. RowList(q, s, rows, c)'
  BY <1>3, <1>6, <1>13 DEF RowList, Owed, Allowed, MayHold, CameLate, WentAway
<1>15. RowList(todo[t], kept, rows, c)'
  <2>1. q = todo'[t] /\ s = kept'
    BY <1>3, <1>6, <1>12
  <2> QED
    BY <1>14, <2>1 DEF RowList
<1>16. Paging(t)'
  BY <1>6, <1>8, <1>11, <1>15, Numbers DEF Paging
<1> QED
  BY <1>1, <1>2, <1>6, <1>10, <1>16 DEF PageInv, AtWork, Wrote

LEMMA SettlingWrites ==
  ASSUME IInv, NEW t \in Tab, Wrote(t), cursor[t] = stored, entities = Known(t), Settling(t)
  PROVE  StoreInv' /\ AnswerInv(t)' /\ PageInv(t)'
<1>1. AnswerInv(t)'
  BY DEF Wrote, AnswerInv
<1>2. Known(t)' = Known(t)
  BY DEF Wrote, Known
<1>3. ByKind(t) /\ UNCHANGED <<seq, counter, scope, left, reach, late, gone>>
      /\ todo'[t] = Tail(todo[t])
  BY DEF Wrote
<1>4. PICK y : y = PutSettled(kept)
  OBVIOUS
<1>5. Head(<<y>>) = y /\ Tail(<<y>>) = <<>>
  OBVIOUS
<1>6. Head(todo[t]) = PutSettled(kept) /\ todo'[t] = <<>>
  BY <1>3, <1>4, <1>5 DEF Settling
<1>7. WritesSettled(t, kept)
  BY <1>3, <1>6, HeadTells
<1>8. settled' = kept /\ UNCHANGED <<held, stored, cursor, entities, kept>>
  BY <1>7 DEF WritesSettled
<1>9. kept # NoScope /\ Complete(kept, stored)
  BY DEF Settling
<1>10. Complete(kept, stored)'
  BY <1>3, <1>8, <1>9 DEF Complete, Owed, Allowed, MayHold, CameLate, WentAway
<1>11. StoreInv'
  BY <1>3, <1>8, <1>9, <1>10 DEF IInv, StoreInv, Owed, Allowed, MayHold, CameLate, WentAway
<1>12. PageInv(t)'
  BY <1>2, <1>6, <1>8 DEF PageInv, Wrote
<1> QED
  BY <1>1, <1>11, <1>12

\* The rows of one entity are written over what lies there: none of them is
\* older than what the store vouches for.
LEMMA RowsWrites ==
  ASSUME IInv, NEW t \in Tab, Wrote(t), cursor[t] = stored, entities = Known(t),
         kept # NoScope, Complete(kept, stored),
         NEW rows \in Rows, NEW c \in 0 .. MaxCounter, Offer(kept, rows, c),
         NEW k \in 2 .. Len(todo[t]),
         \A i \in 1 .. k - 1 : \E e \in Entity : todo[t][i] = PutRows(e, rows),
         todo[t][k] = PutCursor(c),
         Len(todo[t]) <= k + 1,
         Len(todo[t]) = k + 1 => todo[t][k + 1] = PutSettled(kept),
         \A r \in Row : (EntityOf[r] \in entities /\ Owed(kept, r) /\ seq[r] <= c)
           => \/ held[r] = seq[r]
              \/ rows[r] = seq[r] /\ \E i \in 1 .. k - 1 : todo[t][i] = PutRows(EntityOf[r], rows)
  PROVE  StoreInv' /\ Paging(t)' /\ UNCHANGED <<stored, cursor, entities>>
<1> DEFINE q == todo[t]
<1>1. ByKind(t) /\ UNCHANGED <<seq, counter, scope, left, reach, late, gone>> /\ todo'[t] = Tail(q)
      /\ q \in Seq(Write) /\ q # <<>>
  BY DEF Wrote
<1>2. /\ Head(q) = q[1] /\ Len(q) \in Nat /\ Len(q) >= 1
      /\ Len(Tail(q)) = Len(q) - 1
      /\ \A i \in 1 .. Len(q) - 1 : Tail(q)[i] = q[i + 1]
  BY <1>1, TailFacts
<1>3. PICK e \in Entity : q[1] = PutRows(e, rows)
  <2>1. 1 \in 1 .. k - 1
    BY <1>2
  <2> QED
    BY <2>1
<1>4. WritesRows(t, e, rows)
  BY <1>1, <1>2, <1>3, HeadTells
<1>5. held' = Overwrite(e, rows) /\ UNCHANGED <<stored, cursor, entities, kept, settled>>
  BY <1>4 DEF WritesRows
<1>6. rows \in [Row -> Nat] /\ c \in Nat
  BY DEF Rows
<1>7. \A r \in Row : held'[r] = IF EntityOf[r] = e /\ rows[r] # 0 THEN rows[r] ELSE held[r]
  BY <1>5 DEF Overwrite
<1>8. \A r \in Row : rows[r] # 0 =>
        /\ Allowed(kept, r) /\ stored < rows[r] /\ rows[r] <= seq[r]
        /\ rows[r] = seq[r] \/ c < seq[r]
  BY DEF Offer
<1>9. \A r \in Row : held'[r] <= seq[r] /\ (held'[r] # 0 => Allowed(kept, r))
  BY <1>7, <1>8 DEF IInv, StoreInv
<1>10. \A r \in Row : (held[r] = seq[r] /\ (seq[r] <= stored \/ seq[r] <= c)) => held'[r] = seq[r]
  <2> SUFFICES ASSUME NEW r \in Row, held[r] = seq[r], seq[r] <= stored \/ seq[r] <= c
               PROVE  held'[r] = seq[r]
    OBVIOUS
  <2>1. CASE EntityOf[r] = e /\ rows[r] # 0
    <3>1. /\ stored < rows[r] /\ rows[r] <= seq[r]
          /\ rows[r] = seq[r] \/ c < seq[r]
      BY <2>1, <1>8
    <3>2. seq[r] \in Nat /\ stored \in Nat /\ rows[r] \in Nat
      BY <1>6, Numbers
    <3>3. rows[r] = seq[r]
      BY <3>1, <3>2, <1>6
    <3> QED
      BY <2>1, <3>3, <1>7
  <2>2. CASE ~(EntityOf[r] = e /\ rows[r] # 0)
    BY <2>2, <1>7
  <2> QED
    BY <2>1, <2>2
<1>11. Complete(kept, stored)'
  BY <1>1, <1>5, <1>10 DEF Complete, Owed, Allowed, MayHold, CameLate, WentAway
<1>12. StoreInv'
  BY <1>1, <1>5, <1>9, <1>11 DEF IInv, StoreInv, Owed, Allowed, MayHold, CameLate, WentAway
<1>13. Offer(kept, rows, c)'
  BY <1>1, <1>5 DEF Offer, Owed, Allowed, MayHold, CameLate, WentAway
<1> DEFINE p == Tail(q)
           j == k - 1
<1>14. j \in 1 .. Len(p) /\ Len(p) = Len(q) - 1 /\ Len(p) \in Nat
  BY <1>2
<1>15. \A i \in 1 .. j - 1 : \E f \in Entity : p[i] = PutRows(f, rows)
  <2> TAKE i \in 1 .. j - 1
  <2>1. i + 1 \in 1 .. k - 1 /\ i \in 1 .. Len(q) - 1
    BY <1>2
  <2> QED
    BY <2>1, <1>2
<1>16. p[j] = PutCursor(c) /\ Len(p) <= j + 1 /\ (Len(p) = j + 1 => p[j + 1] = PutSettled(kept))
  <2>1. j \in 1 .. Len(q) - 1 /\ j + 1 = k
    BY <1>2
  <2>2. Len(p) = j + 1 => (Len(q) = k + 1 /\ j + 1 \in 1 .. Len(q) - 1 /\ (j + 1) + 1 = k + 1)
    BY <1>2
  <2> QED
    BY <2>1, <2>2, <1>2
<1>17. \A r \in Row : (EntityOf[r] \in entities /\ Owed(kept, r) /\ seq[r] <= c)
         => \/ held'[r] = seq[r]
            \/ rows[r] = seq[r] /\ \E i \in 1 .. j - 1 : p[i] = PutRows(EntityOf[r], rows)
  <2> SUFFICES ASSUME NEW r \in Row, EntityOf[r] \in entities, Owed(kept, r), seq[r] <= c,
                      held'[r] # seq[r]
               PROVE  rows[r] = seq[r] /\ \E i \in 1 .. j - 1 : p[i] = PutRows(EntityOf[r], rows)
    OBVIOUS
  <2>1. held[r] # seq[r]
    BY <1>10
  <2>2. PICK i \in 1 .. k - 1 : rows[r] = seq[r] /\ q[i] = PutRows(EntityOf[r], rows)
    BY <2>1
  <2>3. EntityOf[r] # e
    <3> SUFFICES ASSUME EntityOf[r] = e PROVE FALSE
      OBVIOUS
    <3>1. CASE rows[r] = 0
      BY <3>1, <2>1, <2>2, Numbers DEF IInv, StoreInv
    <3>2. CASE rows[r] # 0
      BY <3>2, <2>2, <1>7
    <3> QED
      BY <3>1, <3>2
  <2>4. i # 1
    <3> SUFFICES ASSUME i = 1 PROVE FALSE
      OBVIOUS
    <3>1. PutRows(EntityOf[r], rows) = PutRows(e, rows)
      BY <2>2, <1>3
    <3> QED
      BY <3>1, <2>3 DEF PutRows
  <2>5. i - 1 \in 1 .. j - 1 /\ i - 1 \in 1 .. Len(q) - 1 /\ (i - 1) + 1 = i
    BY <2>4, <1>2
  <2>6. p[i - 1] = PutRows(EntityOf[r], rows)
    BY <2>2, <2>5, <1>2
  <2> QED
    BY <2>2, <2>5, <2>6
<1> HIDE DEF p, j
<1>18. RowList(todo[t], kept, rows, c)'
  <2>1. p = todo'[t]
    BY <1>1 DEF p
  <2>2. \A r \in Row : (EntityOf[r] \in entities' /\ Owed(kept, r)' /\ seq'[r] <= c)
         => \/ held'[r] = seq'[r]
            \/ rows[r] = seq'[r] /\ \E i \in 1 .. j - 1 : p[i] = PutRows(EntityOf[r], rows)
    <3>1. \A r \in Row : Owed(kept, r)' <=> Owed(kept, r)
      BY <1>1, <1>5 DEF Owed, MayHold, CameLate
    <3> QED
      BY <3>1, <1>1, <1>5, <1>17
  <2>3. kept' = kept
    BY <1>5
  <2> QED
    BY <2>1, <2>2, <2>3, <1>14, <1>15, <1>16 DEF RowList
<1>19. Paging(t)'
  BY <1>5, <1>11, <1>13, <1>18 DEF Paging
<1> QED
  BY <1>5, <1>12, <1>19

\* The cursor follows: by now every row up to there is held.
LEMMA CursorWrites ==
  ASSUME IInv, NEW t \in Tab, Wrote(t), cursor[t] = stored, entities = Known(t),
         kept # NoScope, Complete(kept, stored),
         NEW rows \in Rows, NEW c \in 0 .. MaxCounter, Offer(kept, rows, c),
         todo[t][1] = PutCursor(c),
         Len(todo[t]) <= 2,
         Len(todo[t]) = 2 => todo[t][2] = PutSettled(kept),
         Complete(kept, c)
  PROVE  /\ StoreInv' /\ cursor'[t] = stored' /\ UNCHANGED entities
         /\ todo'[t] = <<>> \/ Settling(t)'
<1> DEFINE q == todo[t]
<1>1. ByKind(t) /\ UNCHANGED <<seq, counter, scope, left, reach, late, gone>> /\ todo'[t] = Tail(q)
      /\ q \in Seq(Write) /\ q # <<>>
  BY DEF Wrote
<1>2. /\ Head(q) = q[1] /\ Len(q) \in Nat /\ Len(q) >= 1
      /\ Tail(q) \in Seq(Write) /\ Len(Tail(q)) = Len(q) - 1
      /\ \A i \in 1 .. Len(q) - 1 : Tail(q)[i] = q[i + 1]
  BY <1>1, TailFacts
<1>3. WritesCursor(t, c)
  BY <1>1, <1>2, HeadTells
<1>4. /\ stored' = c /\ cursor'[t] = c
      /\ UNCHANGED <<held, entities, kept, settled>>
  BY <1>3 DEF WritesCursor, IInv, TypeOK
<1>5. c <= counter
  BY DEF Offer
<1>6. Complete(kept, stored)'
  BY <1>1, <1>4 DEF Complete, Owed, Allowed, MayHold, CameLate, WentAway
<1>7. StoreInv'
  BY <1>1, <1>4, <1>5, <1>6 DEF IInv, StoreInv, Owed, Allowed, MayHold, CameLate, WentAway
<1>8. CASE Len(q) = 1
  <2>1. Tail(q) \in Seq(Write) /\ Len(Tail(q)) = 0
    BY <1>2, <1>8
  <2>2. todo'[t] = <<>>
    BY <1>1, <2>1, Empty
  <2> QED
    BY <1>4, <1>7, <2>2
<1>9. CASE Len(q) = 2
  <2>1. PICK y : y = PutSettled(kept)
    OBVIOUS
  <2>2. Len(Tail(q)) = 1 /\ Tail(q)[1] = y
    BY <1>2, <1>9, <2>1
  <2>3. Tail(q) = <<y>>
    <3> DEFINE p == Tail(q)
    <3>1. p \in Seq(Write) /\ Len(p) = 1 /\ p[1] = y
      BY <1>2, <2>2
    <3> HIDE DEF p
    <3>2. p = <<y>>
      BY <3>1
    <3> QED
      BY <3>2 DEF p
  <2>4. Settling(t)'
    BY <1>1, <1>4, <1>6, <2>1, <2>3 DEF Settling, PutSettled
  <2> QED
    BY <1>4, <1>7, <2>4
<1>10. Len(q) = 1 \/ Len(q) = 2
  BY <1>2, OneOrTwo
<1> QED
  BY <1>8, <1>9, <1>10, Zenon

LEMMA PagingWrites ==
  ASSUME IInv, NEW t \in Tab, Wrote(t), cursor[t] = stored, entities = Known(t), Paging(t)
  PROVE  StoreInv' /\ AnswerInv(t)' /\ PageInv(t)'
<1>1. AnswerInv(t)'
  BY DEF Wrote, AnswerInv
<1>2. Known(t)' = Known(t) /\ build'[t] # Closed
  BY DEF Wrote, Known
<1>3. PICK rows \in Rows, c \in 0 .. MaxCounter :
        Offer(kept, rows, c) /\ RowList(todo[t], kept, rows, c)
  BY DEF Paging
<1>4. kept # NoScope /\ Complete(kept, stored)
  BY DEF Paging
<1>5. PICK k \in 1 .. Len(todo[t]) :
        /\ \A i \in 1 .. k - 1 : \E e \in Entity : todo[t][i] = PutRows(e, rows)
        /\ todo[t][k] = PutCursor(c)
        /\ Len(todo[t]) <= k + 1
        /\ Len(todo[t]) = k + 1 => todo[t][k + 1] = PutSettled(kept)
        /\ \A r \in Row : (EntityOf[r] \in entities /\ Owed(kept, r) /\ seq[r] <= c)
             => \/ held[r] = seq[r]
                \/ rows[r] = seq[r] /\ \E i \in 1 .. k - 1 : todo[t][i] = PutRows(EntityOf[r], rows)
  BY <1>3 DEF RowList
<1>6. Len(todo[t]) \in Nat
  BY DEF Wrote
<1>7. CASE k = 1
  <2>1. Complete(kept, c)
    BY <1>5, <1>7 DEF Complete
  <2>2. /\ StoreInv' /\ cursor'[t] = stored' /\ UNCHANGED entities
        /\ todo'[t] = <<>> \/ Settling(t)'
    BY <1>3, <1>4, <1>5, <1>7, <2>1, CursorWrites
  <2> QED
    BY <1>1, <1>2, <2>2 DEF PageInv, AtWork
<1>8. CASE k # 1
  <2>1. k \in 2 .. Len(todo[t])
    BY <1>6, <1>8
  <2>2. StoreInv' /\ Paging(t)' /\ UNCHANGED <<stored, cursor, entities>>
    BY <1>3, <1>4, <1>5, <2>1, RowsWrites
  <2> QED
    BY <1>1, <1>2, <2>2 DEF PageInv, AtWork
<1> QED
  BY <1>7, <1>8

\* A drop withdraws what the rows add up to before the first of them goes, and
\* says whose they are again when all is gone that changed hands.
LEMMA DroppingWrites ==
  ASSUME IInv, NEW t \in Tab, Wrote(t), cursor[t] = stored, entities = Known(t), Dropping(t)
  PROVE  StoreInv' /\ AnswerInv(t)' /\ PageInv(t)'
<1> DEFINE q == todo[t]
           n == Len(q)
<1>1. AnswerInv(t)'
  BY DEF Wrote, AnswerInv
<1>2. Known(t)' = Known(t) /\ build'[t] # Closed
  BY DEF Wrote, Known
<1>3. ByKind(t) /\ UNCHANGED <<seq, counter, scope, left, reach, late, gone>> /\ todo'[t] = Tail(q)
      /\ q \in Seq(Write) /\ q # <<>>
  BY DEF Wrote
<1>4. /\ Head(q) = q[1] /\ n \in Nat /\ n >= 1
      /\ Tail(q) \in Seq(Write) /\ Len(Tail(q)) = n - 1
      /\ \A i \in 1 .. n - 1 : Tail(q)[i] = q[i + 1]
  BY <1>3, TailFacts
<1>5. PICK s \in {scope} \cup left : s # kept /\ DropList(q, s)
  BY DEF Dropping
<1>6. kept \in left /\ kept # NoScope /\ scope \notin left
  BY Numbers DEF Dropping, IInv, StoreInv, TypeOK
<1>7. /\ q[n] = PutKept(s)
      /\ IF n = 1 THEN stored = 0 ELSE q[n - 1] = PutCursor(0)
      /\ \A i \in 1 .. n - 2 : (i = 1 /\ q[i] = PutSettled(NoScope)) \/ \E e \in Narrowed : q[i] = Drop(e)
      /\ settled = NoScope \/ (n >= 3 /\ q[1] = PutSettled(NoScope))
      /\ \A r \in Row : EntityOf[r] \in ChangedEntities(s)
           => held[r] = 0 \/ \E i \in 1 .. n - 2 : q[i] = Drop(EntityOf[r])
  BY <1>5 DEF DropList
<1> HIDE DEF n
<1>8. PICK p : /\ p = Tail(todo[t])
               /\ Len(p) = n - 1 /\ \A i \in 1 .. n - 1 : p[i] = q[i + 1]
  BY <1>4 DEF n
<1>9. ASSUME DropList(p, s)', kept' = kept, cursor'[t] = stored', entities' = entities
      PROVE  PageInv(t)'
  <2>1. DropList(todo[t], s)'
    <3>1. p = todo'[t]
      BY <1>3, <1>8
    <3> QED
      BY <1>9, <3>1 DEF DropList
  <2>2. Dropping(t)'
    BY <1>3, <1>5, <1>6, <1>9, <2>1 DEF Dropping
  <2> QED
    BY <1>2, <1>9, <2>2 DEF PageInv, AtWork
<1>10. CASE n = 1
  <2>1. WritesKept(t, s)
    BY <1>3, <1>4, <1>7, <1>10, HeadTells
  <2>2. kept' = s /\ UNCHANGED <<held, stored, cursor, entities, settled>>
    BY <2>1 DEF WritesKept
  <2>3. stored = 0 /\ settled = NoScope
    BY <1>7, <1>10
  <2>4. \A r \in Row : seq[r] <= 0 => held[r] = seq[r]
    BY Numbers DEF IInv, StoreInv
  <2>5. Complete(kept, stored)'
    BY <1>3, <2>2, <2>3, <2>4 DEF Complete
  <2>6. ASSUME NEW r \in Row, held[r] # 0 PROVE Allowed(s, r)
    <3>1. Allowed(kept, r)
      BY <1>6, <2>6 DEF IInv, StoreInv
    <3>2. EntityOf[r] \notin ChangedEntities(s)
      BY <1>4, <1>7, <1>10, <2>6
    <3> QED
      BY <3>1, <3>2 DEF Owed, Allowed, MayHold, CameLate, WentAway, ChangedEntities
  <2>7. \A r \in Row : held'[r] # 0 => Allowed(kept, r)'
    BY <1>3, <2>2, <2>6 DEF Allowed, MayHold, WentAway
  <2>8. kept' \in {scope', NoScope} \cup left' /\ kept' # NoScope
    BY <1>3, <1>5, <2>2, Numbers DEF IInv, TypeOK
  <2>9. StoreInv'
    BY <1>3, <2>2, <2>3, <2>5, <2>7, <2>8 DEF IInv, StoreInv, Owed, Allowed, MayHold, CameLate, WentAway
  <2>10. todo'[t] = <<>>
    <3>1. Tail(q) \in Seq(Write) /\ Len(Tail(q)) = 0
      BY <1>4, <1>10 DEF n
    <3> QED
      BY <1>3, <3>1, Empty
  <2>11. PageInv(t)'
    BY <1>2, <2>2, <2>10 DEF PageInv
  <2> QED
    BY <1>1, <2>9, <2>11
<1>11. CASE n = 2
  <2>1. Head(q) = PutCursor(0)
    BY <1>4, <1>7, <1>11
  <2>2. WritesCursor(t, 0)
    BY <1>3, <2>1, HeadTells
  <2>3. stored' = 0 /\ cursor'[t] = 0 /\ UNCHANGED <<held, entities, kept, settled>>
    BY <2>2 DEF WritesCursor, IInv, TypeOK
  <2>4. settled = NoScope
    BY <1>7, <1>11
  <2>5. StoreInv'
    BY <1>3, <1>6, <2>3, <2>4, Numbers DEF IInv, StoreInv, Owed, Allowed, MayHold, CameLate, WentAway
  <2>6. Len(p) = 1 /\ p[1] = PutKept(s)
    BY <1>7, <1>11, <1>8
  <2>7. \A r \in Row : EntityOf[r] \in ChangedEntities(s) => held[r] = 0
    BY <1>4, <1>7, <1>11
  <2>8. DropList(p, s)'
    BY <2>3, <2>4, <2>6, <2>7 DEF DropList, PutKept, ChangedEntities
  <2>9. kept' = kept /\ cursor'[t] = stored' /\ entities' = entities
    BY <2>3
  <2> QED
    BY <1>1, <1>9, <2>5, <2>8, <2>9
<1>12. CASE n >= 3
  <2>1. 1 \in 1 .. n - 2
    BY <1>4, <1>12
  <2>2. \A i \in 1 .. n - 2 : q[i] = PutSettled(NoScope) => \A e : q[i] # Drop(e)
    BY DEF PutSettled, Drop
  <2>3. \A e, f : Drop(e) = Drop(f) => e = f
    BY DEF Drop
  <2> DEFINE Pending(r) == \E i \in 1 .. (n - 1) - 2 : p[i] = Drop(EntityOf[r])
  <2>4. /\ Len(p) = n - 1 /\ n - 1 >= 1 /\ n - 1 # 1
        /\ p[n - 1] = PutKept(s) /\ p[(n - 1) - 1] = PutCursor(0)
        /\ \A i \in 1 .. (n - 1) - 2 : \E e \in Narrowed : p[i] = Drop(e)
    <3>1. n - 1 \in 1 .. n - 1 /\ n - 2 \in 1 .. n - 1 /\ (n - 1) + 1 = n /\ (n - 2) + 1 = n - 1
          /\ (n - 1) - 1 = n - 2
      BY <1>4, <1>12
    <3>2. p[n - 1] = PutKept(s) /\ p[(n - 1) - 1] = PutCursor(0)
      BY <3>1, <1>7, <1>8, <1>12
    <3>3. ASSUME NEW i \in 1 .. (n - 1) - 2 PROVE \E e \in Narrowed : p[i] = Drop(e)
      <4>1. i + 1 \in 1 .. n - 2 /\ i + 1 # 1 /\ i \in 1 .. n - 1
        BY <1>4, <1>12
      <4> QED
        BY <4>1, <1>7, <1>8
    <3>4. Len(p) = n - 1 /\ n - 1 >= 1 /\ n - 1 # 1
      BY <1>4, <1>8, <1>12
    <3> QED
      BY <3>2, <3>3, <3>4
  <2>5. \A r \in Row : \A i \in 1 .. n - 2 : (i # 1 /\ q[i] = Drop(EntityOf[r])) => Pending(r)
    <3> SUFFICES ASSUME NEW r \in Row, NEW i \in 1 .. n - 2, i # 1, q[i] = Drop(EntityOf[r])
                 PROVE  Pending(r)
      OBVIOUS
    <3>1. i - 1 \in 1 .. (n - 1) - 2 /\ i - 1 \in 1 .. n - 1 /\ (i - 1) + 1 = i
      BY <1>4, <1>12
    <3>2. p[i - 1] = Drop(EntityOf[r])
      BY <3>1, <1>8
    <3> QED
      BY <3>1, <3>2
  <2> HIDE DEF Pending
  <2>6. ASSUME settled' = NoScope, UNCHANGED <<kept, stored, cursor, entities>>,
               \A r \in Row : held'[r] = held[r] \/ held'[r] = 0,
               \A r \in Row : EntityOf[r] \in ChangedEntities(s) => held'[r] = 0 \/ Pending(r)
        PROVE  StoreInv' /\ AnswerInv(t)' /\ PageInv(t)'
    <3>1. \A r \in Row : held'[r] <= seq[r] /\ (held'[r] # 0 => Allowed(kept, r))
      BY <1>6, <2>6, Numbers DEF IInv, StoreInv
    <3>2. StoreInv'
      BY <1>3, <1>6, <2>6, <3>1 DEF IInv, StoreInv, Owed, Allowed, MayHold, CameLate, WentAway
    <3>3. PICK m : m = n - 1
      OBVIOUS
    <3>4. /\ Len(p) = m /\ m >= 1 /\ m # 1
          /\ p[m] = PutKept(s) /\ p[m - 1] = PutCursor(0)
          /\ \A i \in 1 .. m - 2 : \E e \in Narrowed : p[i] = Drop(e)
      BY <2>4, <3>3
    <3>5. \A r \in Row : EntityOf[r] \in ChangedEntities(s)'
            => held'[r] = 0 \/ \E i \in 1 .. m - 2 : p[i] = Drop(EntityOf[r])
      BY <2>6, <3>3 DEF Pending, ChangedEntities
    <3>6. DropList(p, s)'
      BY <2>6, <3>4, <3>5 DEF DropList
    <3> QED
      BY <1>1, <1>9, <2>6, <3>2, <3>6
  <2>7. CASE q[1] = PutSettled(NoScope)
    <3>1. WritesSettled(t, NoScope)
      BY <1>3, <1>4, <2>7, HeadTells
    <3>2. settled' = NoScope /\ UNCHANGED <<held, stored, cursor, entities, kept>>
      BY <3>1 DEF WritesSettled
    <3>3. \A r \in Row : EntityOf[r] \in ChangedEntities(s) => held'[r] = 0 \/ Pending(r)
      BY <1>7, <2>1, <2>2, <2>5, <2>7, <3>2
    <3> QED
      BY <2>6, <3>2, <3>3
  <2>8. CASE q[1] # PutSettled(NoScope)
    <3>1. PICK e \in Narrowed : q[1] = Drop(e)
      BY <1>7, <2>1, <2>8
    <3>2. Drops(t, e) /\ settled = NoScope
      BY <1>3, <1>4, <1>7, <2>8, <3>1, HeadTells
    <3>3. held' = Without(e) /\ UNCHANGED <<stored, cursor, entities, kept, settled>>
      BY <3>2 DEF Drops
    <3>4. \A r \in Row : held'[r] = IF EntityOf[r] = e THEN 0 ELSE held[r]
      BY <3>3 DEF Without
    <3>5. ASSUME NEW r \in Row, EntityOf[r] \in ChangedEntities(s), held'[r] # 0
          PROVE  Pending(r)
      <4>1. held[r] # 0 /\ EntityOf[r] # e
        BY <3>4, <3>5
      <4>2. PICK i \in 1 .. n - 2 : q[i] = Drop(EntityOf[r])
        BY <1>7, <3>5, <4>1
      <4>3. i # 1
        BY <2>3, <3>1, <4>1, <4>2
      <4> QED
        BY <2>5, <4>2, <4>3
    <3> QED
      BY <2>6, <3>2, <3>3, <3>4, <3>5
  <2> QED
    BY <2>7, <2>8
<1>13. n = 1 \/ n = 2 \/ n >= 3
  BY <1>4
<1> QED
  BY <1>10, <1>11, <1>12, <1>13, Zenon

-----------------------------------------------------------------------------
(* The invariant. *)

LEMMA Inductive_Init == Init => IInv
<1> SUFFICES ASSUME Init PROVE IInv
  OBVIOUS
<1>1. TypeOK
  BY TypeInit DEF TypeInv
<1>2. StoreInv
  BY DEF Init, StoreInv
<1>3. \A t \in Tab : AnswerInv(t) /\ PageInv(t)
  BY DEF Init, AnswerInv, PageInv
<1> QED
  BY <1>1, <1>2, <1>3 DEF IInv

LEMMA Inductive_Next ==
  ASSUME HandedBack = FALSE, OnePage, IInv, [Next]_vars
  PROVE  IInv'
<1>1. TypeOK'
  BY TypeNext DEF IInv, TypeInv, PageInv
<1>2. ASSUME UNCHANGED vars PROVE IInv'
  <2>1. UNCHANGED <<seq, counter, scope, left, reach, late, gone, held, stored, entities, kept, settled,
                    build, cursor, narrowedNow, got, todo, opens>>
    BY <1>2 DEF vars, serverVars, storeVars, pageVars
  <2>2. ServerGoesOn
    BY <2>1 DEF IInv, TypeOK, StoreInv, ServerGoesOn, storeVars, pageVars,
                Owed, Allowed, MayHold, CameLate, WentAway
  <2> QED
    BY <1>1, <2>2, ServerStore, ServerAnswer, ServerPage DEF IInv
<1>3. ASSUME ServerGoesOn PROVE IInv'
  BY <1>1, <1>3, ServerStore, ServerAnswer, ServerPage DEF IInv
<1>4. ASSUME NEW r \in Row, NEW now \in Reachable, Change(r, now) PROVE IInv'
  BY <1>3, <1>4, ChangeGoesOn DEF IInv
<1>5. ASSUME NEW s \in Scope, NEW now \in Reachable, Rescope(s, now) PROVE IInv'
  BY <1>3, <1>5, RescopeGoesOn DEF IInv
<1>6. ASSUME NEW t \in Tab, StoreInv', AnswerInv(t)' /\ PageInv(t)' PROVE IInv'
  <2>1. \A u \in Tab : u = t
    BY DEF OnePage
  <2>2. \A u \in Tab : AnswerInv(u)' /\ PageInv(u)'
    BY <1>6, <2>1
  <2> QED
    BY <1>1, <1>6, <2>2 DEF IInv
<1>7. ASSUME NEW t \in Tab, NEW b \in Build, Open(t, b) PROVE IInv'
  <2>1. StoreInv'
    BY <1>7, StoreStays DEF Open, IInv
  <2> QED
    BY <1>6, <1>7, <2>1, OpenPage
<1>8. ASSUME NEW t \in Tab, Ask(t) PROVE IInv'
  <2>1. StoreInv'
    BY <1>8, StoreStays DEF Ask, IInv
  <2> QED
    BY <1>6, <1>8, <2>1, AskPage
<1>9. ASSUME NEW t \in Tab, Receive(t) PROVE IInv'
  <2>1. StoreInv'
    BY <1>9, StoreStays DEF Receive, IInv
  <2> QED
    BY <1>6, <1>9, <2>1, ReceivePage
<1>10. ASSUME NEW t \in Tab, Close(t) PROVE IInv'
  <2>1. StoreInv'
    BY <1>10, StoreStays DEF Close, IInv
  <2> QED
    BY <1>6, <1>10, <2>1, ClosePage
<1>11. ASSUME NEW t \in Tab, StoreWrite(t) PROVE IInv'
  <2>1. Wrote(t)
    BY <1>11, WroteIt
  <2>2. Opening(t) \/ (cursor[t] = stored /\ entities = Known(t) /\ AtWork(t))
    BY <2>1 DEF Wrote, IInv, PageInv
  <2>3. StoreInv' /\ AnswerInv(t)' /\ PageInv(t)'
    BY <2>1, <2>2, OpeningWrites, StartingWrites, PagingWrites, SettlingWrites, DroppingWrites
       DEF AtWork
  <2> QED
    BY <1>6, <2>3
<1> QED
  BY <1>2, <1>4, <1>5, <1>7, <1>8, <1>9, <1>10, <1>11 DEF Next, Exchange

\* The invariant of the store and of the one page open over it.
THEOREM Invariance ==
  ASSUME HandedBack = FALSE, OnePage
  PROVE  Spec => []IInv
<1>1. IInv /\ [Next]_vars => IInv'
  BY Inductive_Next
<1> QED
  BY <1>1, Inductive_Init, PTL DEF Spec

\* What the store says its rows add up to is what they add up to, wherever the
\* page was closed and whatever comes to a text or leaves it meanwhile:
\* sync.settled is only written with the last page of an answer, and withdrawn
\* before the first row of a drop goes. Excused is no more than a row that came
\* to the scope under the same text and was not written since.
THEOREM VouchesForWhatIsThere ==
  ASSUME HandedBack = FALSE, OnePage
  PROVE  Spec => []SettledIsComplete
<1>1. IInv => SettledIsComplete
  BY DEF IInv, StoreInv, SettledIsComplete, Complete, Owed
<1> QED
  BY <1>1, Invariance, PTL

\* A tablet handed on holds no row that the person it vouches for may not hold,
\* but for those that left the scope under the same text.
THEOREM NothingForeign ==
  ASSUME HandedBack = FALSE, OnePage
  PROVE  Spec => []NoForeignRows
<1>1. IInv => NoForeignRows
  BY DEF IInv, StoreInv, NoForeignRows, Allowed
<1> QED
  BY <1>1, Invariance, PTL
=============================================================================

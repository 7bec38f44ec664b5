-------------------------- MODULE SyncClient_proofs -------------------------
(***************************************************************************)
(* What holds of the exchange for every number of devices, of records and  *)
(* of operations, every size of a transmission and every policy that asks  *)
(* no other record.                                                        *)
(*                                                                         *)
(* A device names only what it made (NamesInv), and what it made waits,    *)
(* has its receipt or was let go of (KeptInv).  Its outbox is in the order *)
(* it was made in, the one in memory the front of the one in the store     *)
(* (QueueInv), so that a transmission is never ahead of what waits from    *)
(* before it, and one that was not refused when it went up has a receipt   *)
(* for each of its operations (SendInv).  What landed is in the row of the *)
(* server or in a later version of it (LandInv): a pull that comes after   *)
(* it brings it back, and then it need not be laid over any more           *)
(* (SettleInv).                                                            *)
(*                                                                         *)
(* The first sections are about the recursive functions of the model: what *)
(* a filtered queue keeps, what a transmission decides on the server, what *)
(* a device shows of a record.                                             *)
(***************************************************************************)
EXTENDS SyncClient, FiniteSetTheorems, SequenceTheorems, WellFoundedInduction, TLAPS

\* A set of numbers has a first one, because finite sets are well-founded under
\* inclusion.
LEMMA LeastOfAll ==
  ASSUME NEW S \in SUBSET Nat, S # {}
  PROVE  \E n \in S : \A m \in S : n <= m
<1> DEFINE Upto == {1 .. n : n \in S}
           Sub  == StrictSubsetOrdering(Nat)
<1>1. Upto \subseteq FiniteSubsetsOf(Nat) /\ Upto # {}
  <2>1. \A n \in S : IsFiniteSet(1 .. n) /\ 1 .. n \in SUBSET Nat
    BY FS_Interval
  <2> QED
    BY <2>1 DEF FiniteSubsetsOf
<1>2. IsWellFoundedOn(Sub, FiniteSubsetsOf(Nat))
  BY FS_StrictSubsetOrderingWellFounded
<1>3. \E X \in Upto : \A Y \in Upto : ~(<<Y, X>> \in Sub)
  <2> HIDE DEF Upto, Sub
  <2> QED
    BY <1>1, <1>2, WFMin
<1>4. PICK n \in S : \A m \in S : ~(<<1 .. m, 1 .. n>> \in Sub)
  BY <1>3
<1>5. ASSUME NEW m \in S, ~(n <= m)
      PROVE  FALSE
  <2>1. 1 .. m \subseteq 1 .. n /\ n \in 1 .. n /\ n \notin 1 .. m
    BY <1>5
  <2>2. 1 .. m \in SUBSET Nat /\ 1 .. n \in SUBSET Nat
    BY <1>5
  <2> QED
    BY <1>4, <2>1, <2>2 DEF StrictSubsetOrdering
<1> QED
  BY <1>5

\* Induction, said of a set: what holds of 0 and of each number after one it
\* holds of, holds up to k.
LEMMA Climbs ==
  ASSUME NEW k \in Nat, NEW G, 0 \in G, \A n \in 1 .. k : n - 1 \in G => n \in G
  PROVE  \A n \in 0 .. k : n \in G
<1> DEFINE Out == {n \in 0 .. k : n \notin G}
<1>1. SUFFICES ASSUME Out # {} PROVE FALSE
  OBVIOUS
<1>2. PICK n \in Out : \A m \in Out : n <= m
  <2>1. Out \in SUBSET Nat
    OBVIOUS
  <2> HIDE DEF Out
  <2> QED
    BY <1>1, <2>1, LeastOfAll
<1>3. n # 0 /\ n \in 1 .. k
  OBVIOUS
<1>4. n - 1 \in 0 .. k /\ ~(n <= n - 1)
  BY <1>3
<1>5. n - 1 \in G
  BY <1>2, <1>4
<1> QED
  BY <1>3, <1>5

Recurs(k, S, b, F, g) ==
    g \in [0 .. k -> S] /\ g[0] = b /\ \A n \in 1 .. k : g[n] = F[n][g[n - 1]]

\* A function may be defined by what it makes of its value one before.
LEMMA Recursion ==
  ASSUME NEW k \in Nat, NEW S, NEW b \in S, NEW F \in [1 .. k -> [S -> S]]
  PROVE  \E g : Recurs(k, S, b, F, g)
<1> DEFINE Runs(g, n) == g[0] = b /\ \A m \in 1 .. n : g[m] = F[m][g[m - 1]]
           G == {n \in 0 .. k : \E g \in [0 .. k -> S] : Runs(g, n)}
<1>1. 0 \in G
  <2>1. [n \in 0 .. k |-> b] \in [0 .. k -> S] /\ Runs([n \in 0 .. k |-> b], 0)
    OBVIOUS
  <2>2. 0 \in 0 .. k
    OBVIOUS
  <2> HIDE DEF Runs
  <2> QED
    BY <2>1, <2>2
<1>2. ASSUME NEW n \in 1 .. k, n - 1 \in G
      PROVE  n \in G
  <2>1. PICK g \in [0 .. k -> S] : Runs(g, n - 1)
    BY <1>2
  <2> DEFINE h == [g EXCEPT ![n] = F[n][g[n - 1]]]
  <2>2. n - 1 \in 0 .. k /\ n \in 0 .. k /\ F[n][g[n - 1]] \in S
    <3>1. n - 1 \in 0 .. k /\ n \in 0 .. k
      OBVIOUS
    <3>2. F[n] \in [S -> S] /\ g[n - 1] \in S
      BY <3>1
    <3> QED
      BY <3>1, <3>2
  <2>3. h \in [0 .. k -> S]
    BY <2>2
  <2>4. \A m \in 0 .. n - 1 : h[m] = g[m]
    OBVIOUS
  <2>5. h[n] = F[n][g[n - 1]]
    BY <2>2
  <2>6. ASSUME NEW m \in 1 .. n
        PROVE  h[m] = F[m][h[m - 1]]
    <3>1. CASE m = n
      BY <3>1, <2>2, <2>4, <2>5
    <3>2. CASE m # n
      <4>1. m \in 1 .. n - 1 /\ m - 1 \in 0 .. n - 1 /\ m \in 0 .. n - 1
        BY <3>2
      <4>2. g[m] = F[m][g[m - 1]]
        BY <2>1, <4>1
      <4> QED
        BY <4>1, <4>2, <2>4
    <3> QED
      BY <3>1, <3>2
  <2>7. h[0] = b
    BY <2>1, <2>4
  <2>8. Runs(h, n)
    BY <2>6, <2>7
  <2> HIDE DEF h, Runs
  <2> QED
    BY <2>2, <2>3, <2>8
<1>3. k \in G
  <2> HIDE DEF G
  <2>1. \A n \in 0 .. k : n \in G
    BY <1>1, <1>2, Climbs
  <2>2. k \in 0 .. k
    OBVIOUS
  <2> QED
    BY <2>1, <2>2
<1>4. PICK g \in [0 .. k -> S] : Runs(g, k)
  BY <1>3
<1> QED
  BY <1>4 DEF Recurs

-----------------------------------------------------------------------------
(* Filtering a queue. *)

Filtering(s, S, g) ==
    [n \in 0 .. Len(s) |-> IF n = 0 THEN <<>>
                           ELSE IF s[n] \in S THEN Append(g[n - 1], s[n])
                           ELSE g[n - 1]]

\* The recursion of a filtered queue runs.
LEMMA FilterRuns ==
  ASSUME NEW T, NEW s \in Seq(T), NEW S
  PROVE  \E g \in [0 .. Len(s) -> Seq(T)] :
            g = Filtering(s, S, g) /\ Among(s, S) = g[Len(s)]
<1>1. Len(s) \in Nat /\ \A n \in 1 .. Len(s) : s[n] \in T
  OBVIOUS
<1> DEFINE k == Len(s)
           F == [n \in 1 .. k |-> [x \in Seq(T) |-> IF s[n] \in S THEN Append(x, s[n]) ELSE x]]
<1>2. F \in [1 .. k -> [Seq(T) -> Seq(T)]]
  <2>1. \A n \in 1 .. k, x \in Seq(T) : (IF s[n] \in S THEN Append(x, s[n]) ELSE x) \in Seq(T)
    BY <1>1
  <2> QED
    BY <2>1
<1>3. <<>> \in Seq(T)
  OBVIOUS
<1>4. \E g \in [0 .. k -> Seq(T)] : g[0] = <<>> /\ \A n \in 1 .. k : g[n] = F[n][g[n - 1]]
  <2>1. k \in Nat
    BY <1>1
  <2>2. \E g : Recurs(k, Seq(T), <<>>, F, g)
    <3> HIDE DEF F, k
    <3> QED
      BY <1>2, <1>3, <2>1, Recursion
  <2> HIDE DEF F
  <2> QED
    BY <2>2 DEF Recurs
<1>5. PICK f \in [0 .. k -> Seq(T)] : f[0] = <<>> /\ \A n \in 1 .. k : f[n] = F[n][f[n - 1]]
  BY <1>4
<1>6. \A n \in 1 .. k : n - 1 \in 0 .. k /\ f[n - 1] \in Seq(T)
  <2>1. \A n \in 1 .. k : n - 1 \in 0 .. k
    BY <1>1
  <2> HIDE DEF F, k
  <2> QED
    BY <2>1
<1>7. \A n \in 1 .. k : f[n] = IF s[n] \in S THEN Append(f[n - 1], s[n]) ELSE f[n - 1]
  BY <1>5, <1>6
<1>8. f = Filtering(s, S, f)
  <2>1. DOMAIN f = 0 .. k
    OBVIOUS
  <2>2. \A n \in 0 .. k : n = 0 \/ n \in 1 .. k
    BY <1>1
  <2>3. \A n \in 0 .. k : f[n] = Filtering(s, S, f)[n]
    BY <1>5, <1>7, <2>2 DEF Filtering
  <2>4. f = [n \in 0 .. k |-> f[n]]
    OBVIOUS
  <2>5. Filtering(s, S, f) = [n \in 0 .. k |-> Filtering(s, S, f)[n]]
    BY DEF Filtering
  <2> HIDE DEF F
  <2> QED
    BY <2>3, <2>4, <2>5
<1>9. \E g : g = Filtering(s, S, g)
  BY <1>8
<1> DEFINE g0 == CHOOSE g : g = Filtering(s, S, g)
<1>10. g0 = Filtering(s, S, g0)
  BY <1>9
<1>11. Among(s, S) = g0[Len(s)]
  BY DEF Among, Filtering
<1>12. g0 \in [0 .. k -> Seq(T)]
  <2> HIDE DEF g0
  <2>1. DOMAIN g0 = 0 .. k /\ g0 = [n \in 0 .. k |-> g0[n]]
    BY <1>10 DEF Filtering
  <2> DEFINE G == {n \in 0 .. k : g0[n] \in Seq(T)}
  <2>2. /\ g0[0] = <<>>
        /\ \A n \in 1 .. k : g0[n] = IF s[n] \in S THEN Append(g0[n - 1], s[n]) ELSE g0[n - 1]
    <3>1. \A n \in 0 .. k : g0[n] = Filtering(s, S, g0)[n]
      BY <1>10
    <3>2. \A n \in 0 .. k : Filtering(s, S, g0)[n] =
             IF n = 0 THEN <<>> ELSE IF s[n] \in S THEN Append(g0[n - 1], s[n]) ELSE g0[n - 1]
      BY DEF Filtering
    <3>3. 0 \in 0 .. k /\ \A n \in 1 .. k : n \in 0 .. k /\ n # 0
      BY <1>1
    <3> HIDE DEF k
    <3>4. g0[0] = <<>>
      BY <3>1, <3>2, <3>3
    <3>5. ASSUME NEW n \in 1 .. k
          PROVE  g0[n] = IF s[n] \in S THEN Append(g0[n - 1], s[n]) ELSE g0[n - 1]
      BY <3>1, <3>2, <3>3
    <3> QED
      BY <3>4, <3>5
  <2>3. 0 \in G
    <3>1. 0 \in 0 .. k
      BY <1>1
    <3> QED
      BY <2>2, <1>3, <3>1
  <2>4. ASSUME NEW n \in 1 .. k, n - 1 \in G
        PROVE  n \in G
    <3>1. n \in 0 .. k /\ s[n] \in T /\ g0[n - 1] \in Seq(T)
      BY <2>4, <1>1
    <3>2. Append(g0[n - 1], s[n]) \in Seq(T)
      BY <3>1
    <3>3. g0[n] \in Seq(T)
      BY <2>2, <3>1, <3>2
    <3> QED
      BY <3>1, <3>3
  <2>5. \A n \in 0 .. k : n \in G
    <3> HIDE DEF G
    <3> QED
      BY <1>1, <2>3, <2>4, Climbs
  <2> QED
    BY <2>1, <2>5
<1> QED
  BY <1>10, <1>11, <1>12

Filters(T, s, S, g) ==
    /\ g \in [0 .. Len(s) -> Seq(T)] /\ g[0] = <<>>
    /\ \A n \in 1 .. Len(s) : g[n] = IF s[n] \in S THEN Append(g[n - 1], s[n]) ELSE g[n - 1]
    /\ Among(s, S) = g[Len(s)]

LEMMA Filtered ==
  ASSUME NEW T, NEW s \in Seq(T), NEW S
  PROVE  \E g : Filters(T, s, S, g)
<1>1. PICK g \in [0 .. Len(s) -> Seq(T)] : g = Filtering(s, S, g) /\ Among(s, S) = g[Len(s)]
  BY FilterRuns
<1>2. Len(s) \in Nat
  OBVIOUS
<1>3. \A n \in 0 .. Len(s) : g[n] = Filtering(s, S, g)[n]
  BY <1>1
<1>4. g[0] = <<>>
  BY <1>2, <1>3 DEF Filtering
<1>5. ASSUME NEW n \in 1 .. Len(s)
      PROVE  g[n] = IF s[n] \in S THEN Append(g[n - 1], s[n]) ELSE g[n - 1]
  <2>1. n \in 0 .. Len(s) /\ n # 0
    BY <1>2
  <2>2. Filtering(s, S, g)[n] = IF s[n] \in S THEN Append(g[n - 1], s[n]) ELSE g[n - 1]
    BY <2>1 DEF Filtering
  <2> QED
    BY <1>3, <2>1, <2>2
<1> QED
  BY <1>1, <1>4, <1>5 DEF Filters

\* One member more: it is kept at the end, or nothing changes.
LEMMA FilterStep ==
  ASSUME NEW T, NEW s \in Seq(T), NEW S, NEW g, Filters(T, s, S, g), NEW n \in 1 .. Len(s)
  PROVE  /\ n \in Nat /\ n - 1 \in 0 .. Len(s) /\ n \in 0 .. Len(s) /\ s[n] \in T
         /\ g[n - 1] \in Seq(T) /\ g[n] \in Seq(T)
         /\ s[n] \notin S => g[n] = g[n - 1]
         /\ s[n] \in S =>
               /\ Len(g[n]) = Len(g[n - 1]) + 1 /\ g[n][Len(g[n - 1]) + 1] = s[n]
               /\ \A i \in 1 .. Len(g[n - 1]) : g[n][i] = g[n - 1][i]
<1>1. Len(s) \in Nat /\ s[n] \in T
  OBVIOUS
<1>2. n \in Nat /\ n - 1 \in 0 .. Len(s) /\ n \in 0 .. Len(s)
  BY <1>1
<1>3. g[n - 1] \in Seq(T) /\ g[n] \in Seq(T)
  BY <1>2 DEF Filters
<1>4. g[n] = IF s[n] \in S THEN Append(g[n - 1], s[n]) ELSE g[n - 1]
  BY DEF Filters
<1> QED
  BY <1>1, <1>2, <1>3, <1>4

Rising(s) == \A i, j \in 1 .. Len(s) : i < j => s[i][2] < s[j][2]

\* What is kept up to a place is what is wanted of what stood up to there, in
\* its order.
KeptUpTo(s, S, kept, n) ==
    /\ \A i \in 1 .. Len(kept) : \E m \in 1 .. n : kept[i] = s[m] /\ s[m] \in S
    /\ \A m \in 1 .. n : s[m] \in S => \E i \in 1 .. Len(kept) : kept[i] = s[m]
    /\ Rising(s) => Rising(kept)

LEMMA KeepsOn ==
  ASSUME NEW T, NEW s \in Seq(T), NEW S, NEW g, Filters(T, s, S, g), NEW n \in 1 .. Len(s),
         KeptUpTo(s, S, g[n - 1], n - 1)
  PROVE  KeptUpTo(s, S, g[n], n)
<1>1. /\ n \in Nat /\ n - 1 \in 0 .. Len(s) /\ n \in 0 .. Len(s) /\ s[n] \in T
      /\ g[n - 1] \in Seq(T) /\ g[n] \in Seq(T)
      /\ s[n] \notin S => g[n] = g[n - 1]
      /\ s[n] \in S =>
            /\ Len(g[n]) = Len(g[n - 1]) + 1 /\ g[n][Len(g[n - 1]) + 1] = s[n]
            /\ \A i \in 1 .. Len(g[n - 1]) : g[n][i] = g[n - 1][i]
  BY FilterStep
<1>2. Len(s) \in Nat /\ Len(g[n - 1]) \in Nat
  BY <1>1
<1>3. \A m \in 1 .. n : m = n \/ m \in 1 .. n - 1
  BY <1>1
<1>4. \A m \in 1 .. n - 1 : m \in 1 .. n /\ m < n /\ m \in 1 .. Len(s)
  BY <1>1, <1>2
<1>5. CASE s[n] \notin S
  <2>1. g[n] = g[n - 1]
    BY <1>1, <1>5
  <2> QED
    BY <1>3, <1>4, <1>5, <2>1 DEF KeptUpTo
<1>6. CASE s[n] \in S
  <2> DEFINE k == Len(g[n - 1])
  <2>1. /\ Len(g[n]) = k + 1 /\ g[n][k + 1] = s[n] /\ k \in Nat
        /\ \A i \in 1 .. k : g[n][i] = g[n - 1][i]
    BY <1>1, <1>2, <1>6
  <2>2. \A i \in 1 .. k + 1 : i = k + 1 \/ i \in 1 .. k
    BY <1>2
  <2>3. \A i \in 1 .. k : i \in 1 .. k + 1 /\ i < k + 1
    BY <1>2
  <2>4. k + 1 \in 1 .. k + 1 /\ n \in 1 .. n
    BY <1>1, <1>2
  <2> HIDE DEF k
  <2>5. \A i \in 1 .. k : \E m \in 1 .. n - 1 : g[n][i] = s[m] /\ s[m] \in S
    BY <2>1 DEF KeptUpTo, k
  <2>6. \A i \in 1 .. k + 1 : \E m \in 1 .. n : g[n][i] = s[m] /\ s[m] \in S
    BY <1>4, <1>6, <2>1, <2>2, <2>4, <2>5
  <2>7. \A m \in 1 .. n : s[m] \in S => \E i \in 1 .. k + 1 : g[n][i] = s[m]
    <3>1. \A m \in 1 .. n - 1 : s[m] \in S => \E i \in 1 .. k : g[n][i] = s[m]
      BY <2>1 DEF KeptUpTo, k
    <3> QED
      BY <1>3, <2>1, <2>3, <2>4, <3>1
  <2>8. ASSUME Rising(s)
        PROVE  Rising(g[n])
    <3>1. \A i \in 1 .. k : g[n][i][2] < s[n][2]
      BY <1>1, <1>4, <2>5, <2>8 DEF Rising
    <3>2. \A i, j \in 1 .. k : i < j => g[n][i][2] < g[n][j][2]
      BY <2>1, <2>8 DEF KeptUpTo, Rising, k
    <3>3. ASSUME NEW i \in 1 .. k + 1, NEW j \in 1 .. k + 1, i < j
          PROVE  g[n][i][2] < g[n][j][2]
      <4>1. i \in 1 .. k /\ (j = k + 1 \/ j \in 1 .. k)
        BY <2>1, <3>3
      <4> QED
        BY <2>1, <3>1, <3>2, <3>3, <4>1
    <3> QED
      BY <2>1, <3>3 DEF Rising
  <2> QED
    BY <2>1, <2>6, <2>7, <2>8 DEF KeptUpTo
<1> QED
  BY <1>5, <1>6

\* Being in a queue is being at a place of it.
LEMMA InRange ==
  ASSUME NEW T, NEW s \in Seq(T), NEW x
  PROVE  x \in Range(s) <=> \E i \in 1 .. Len(s) : s[i] = x
<1>1. DOMAIN s = 1 .. Len(s)
  OBVIOUS
<1> QED
  BY <1>1 DEF Range

\* Among and Without filter a queue: what is left is what was wanted of it, and in the order it had.
LEMMA AmongKeeps ==
  ASSUME NEW T, NEW s \in Seq(T), NEW S
  PROVE  /\ Among(s, S) \in Seq(T) /\ Range(Among(s, S)) = Range(s) \cap S
         /\ Rising(s) => Rising(Among(s, S))
<1>1. PICK g : Filters(T, s, S, g)
  BY Filtered
<1>2. Len(s) \in Nat /\ Len(s) \in 0 .. Len(s) /\ 0 \in 0 .. Len(s)
  OBVIOUS
<1>3. g \in [0 .. Len(s) -> Seq(T)] /\ g[0] = <<>> /\ Among(s, S) = g[Len(s)]
  BY <1>1 DEF Filters
<1> DEFINE G == {n \in 0 .. Len(s) : KeptUpTo(s, S, g[n], n)}
<1>4. 0 \in G
  <2>1. KeptUpTo(s, S, <<>>, 0)
    BY DEF KeptUpTo, Rising
  <2> QED
    BY <1>2, <1>3, <2>1
<1>5. \A n \in 1 .. Len(s) : n - 1 \in G => n \in G
  <2>1. \A n \in 1 .. Len(s) : n \in 0 .. Len(s)
    BY <1>2
  <2> QED
    BY <1>1, <2>1, KeepsOn
<1>6. KeptUpTo(s, S, g[Len(s)], Len(s))
  <2>1. \A n \in 0 .. Len(s) : n \in G
    <3> HIDE DEF G
    <3> QED
      BY <1>2, <1>4, <1>5, Climbs
  <2> QED
    BY <1>2, <2>1
<1>7. Among(s, S) \in Seq(T) /\ KeptUpTo(s, S, Among(s, S), Len(s))
  BY <1>2, <1>3, <1>6
<1>8. ASSUME NEW x
      PROVE  x \in Range(Among(s, S)) <=> x \in Range(s) \cap S
  <2>1. x \in Range(s) <=> \E i \in 1 .. Len(s) : s[i] = x
    BY InRange
  <2>2. x \in Range(Among(s, S)) <=> \E i \in 1 .. Len(Among(s, S)) : Among(s, S)[i] = x
    BY <1>7, InRange
  <2> QED
    BY <1>7, <2>1, <2>2 DEF KeptUpTo
<1> QED
  BY <1>7, <1>8 DEF KeptUpTo

LEMMA WithoutKeeps ==
  ASSUME NEW T, NEW s \in Seq(T), NEW S
  PROVE  /\ Without(s, S) \in Seq(T) /\ Range(Without(s, S)) = Range(s) \ S
         /\ Rising(s) => Rising(Without(s, S))
BY AmongKeeps DEF Without

Begins(s, q) == Len(s) <= Len(q) /\ \A i \in 1 .. Len(s) : s[i] = q[i]

\* A filter that goes on adds at the end.
LEMMA FilterGrows ==
  ASSUME NEW T, NEW s \in Seq(T), NEW S, NEW g, Filters(T, s, S, g), NEW m \in 0 .. Len(s)
  PROVE  \A n \in 0 .. Len(s) : m <= n => Begins(g[m], g[n])
<1>1. Len(s) \in Nat
  OBVIOUS
<1>2. \A n \in 0 .. Len(s) : g[n] \in Seq(T) /\ Len(g[n]) \in Nat
  <2>1. \A n \in 0 .. Len(s) : g[n] \in Seq(T)
    BY DEF Filters
  <2>2. \A t \in Seq(T) : Len(t) \in Nat
    OBVIOUS
  <2> QED
    BY <2>1, <2>2
<1>3. \A n \in 0 .. Len(s) : Begins(g[n], g[n])
  BY <1>2 DEF Begins
<1> DEFINE G == {n \in 0 .. Len(s) : m <= n => Begins(g[m], g[n])}
<1>4. 0 \in G
  BY <1>1, <1>3
<1>5. ASSUME NEW n \in 1 .. Len(s), n - 1 \in G
      PROVE  n \in G
  <2>1. /\ n \in Nat /\ n - 1 \in 0 .. Len(s) /\ n \in 0 .. Len(s)
        /\ s[n] \notin S => g[n] = g[n - 1]
        /\ s[n] \in S =>
              /\ Len(g[n]) = Len(g[n - 1]) + 1
              /\ \A i \in 1 .. Len(g[n - 1]) : g[n][i] = g[n - 1][i]
    BY FilterStep
  <2>2. Begins(g[n - 1], g[n])
    BY <1>2, <1>3, <2>1 DEF Begins
  <2>3. ASSUME m <= n - 1
        PROVE  Begins(g[m], g[n])
    <3>1. Begins(g[m], g[n - 1])
      BY <1>5, <2>3
    <3>2. Len(g[m]) \in Nat /\ Len(g[n - 1]) \in Nat /\ Len(g[n]) \in Nat
      BY <1>2, <2>1
    <3> QED
      BY <2>2, <3>1, <3>2 DEF Begins
  <2>4. m <= n => m = n \/ m <= n - 1
    BY <2>1
  <2> QED
    BY <1>3, <2>1, <2>3, <2>4
<1> QED
  <2>1. \A n \in 0 .. Len(s) : n \in G
    <3> HIDE DEF G
    <3> QED
      BY <1>1, <1>4, <1>5, Climbs
  <2> QED
    BY <2>1

\* The front of a queue, filtered as the queue, is the front of what is left of it.
LEMMA AmongBegins ==
  ASSUME NEW T, NEW s \in Seq(T), NEW q \in Seq(T), Begins(s, q), NEW S, NEW R,
         \A i \in 1 .. Len(s) : s[i] \in S <=> s[i] \in R
  PROVE  Begins(Among(s, S), Among(q, R))
<1>1. PICK f : Filters(T, s, S, f)
  BY Filtered
<1>2. PICK g : Filters(T, q, R, g)
  BY Filtered
<1>3. Len(s) \in Nat /\ Len(q) \in Nat /\ Len(s) <= Len(q)
  BY DEF Begins
<1> DEFINE G == {n \in 0 .. Len(s) : f[n] = g[n]}
<1>4. 0 \in G
  BY <1>1, <1>2, <1>3 DEF Filters
<1>5. ASSUME NEW n \in 1 .. Len(s), n - 1 \in G
      PROVE  n \in G
  <2>1. n \in 0 .. Len(s) /\ n \in 1 .. Len(q) /\ s[n] = q[n] /\ f[n - 1] = g[n - 1]
    BY <1>3, <1>5 DEF Begins
  <2>2. f[n] = IF s[n] \in S THEN Append(f[n - 1], s[n]) ELSE f[n - 1]
    BY <1>1 DEF Filters
  <2>3. g[n] = IF q[n] \in R THEN Append(g[n - 1], q[n]) ELSE g[n - 1]
    BY <1>2, <2>1 DEF Filters
  <2> QED
    BY <2>1, <2>2, <2>3
<1>6. Among(s, S) = g[Len(s)]
  <2>1. \A n \in 0 .. Len(s) : n \in G
    <3> HIDE DEF G
    <3> QED
      BY <1>3, <1>4, <1>5, Climbs
  <2>2. Len(s) \in 0 .. Len(s)
    BY <1>3
  <2>3. f[Len(s)] = g[Len(s)]
    BY <2>1, <2>2
  <2> QED
    BY <1>1, <2>3 DEF Filters
<1>7. Begins(g[Len(s)], g[Len(q)])
  <2>1. Len(s) \in 0 .. Len(q) /\ Len(q) \in 0 .. Len(q)
    BY <1>3
  <2> QED
    BY <1>2, <1>3, <2>1, FilterGrows
<1> QED
  BY <1>2, <1>6, <1>7 DEF Filters

\* What is taken out of a queue and of its front leaves a front.
LEMMA WithoutBegins ==
  ASSUME NEW T, NEW s \in Seq(T), NEW q \in Seq(T), Begins(s, q), NEW S
  PROVE  Begins(Without(s, S), Without(q, S))
<1>1. ASSUME NEW i \in 1 .. Len(s)
      PROVE  s[i] \in Range(s) \ S <=> s[i] \in Range(q) \ S
  <2>1. i \in 1 .. Len(q) /\ s[i] = q[i]
    <3>1. Len(s) \in Nat /\ Len(q) \in Nat
      OBVIOUS
    <3> QED
      BY <3>1 DEF Begins
  <2>2. s[i] \in Range(s) /\ s[i] \in Range(q)
    BY <2>1, InRange
  <2> QED
    BY <2>2
<1> QED
  BY <1>1, AmongBegins DEF Without

-----------------------------------------------------------------------------
(* The inductive invariant. *)

Operation ==
    [rec : Record, kind : {"create", "update", "delete"}, base : Versions,
     patches : UNION {[fields -> [from : Value, to : Value]] : fields \in SUBSET Field}]

FieldsInv ==
    /\ row \in [Record -> Rows \cup {NoRow}]
    /\ receipt \in [OpId -> Reasons \cup {"none"}]
    /\ landedAt \in [OpId -> Nat] /\ unseen \subseteq OpId
    /\ unwelcome \subseteq Refusable
    /\ op \in [Device -> Seq(Operation)] /\ \A d \in Device : Len(op[d]) <= MaxOps[d]
    /\ held \in [Device -> [Record -> Rows \cup {NoRow}]]
    /\ queued \in [Device -> Seq(OpId)] /\ outbox \in [Device -> Seq(OpId)]
    /\ settling \in [Device -> Seq(OpId)]
    /\ step \in [Device -> {"idle", "push", "pushed", "pull", "conflicts", "cut"}]
    /\ parts \in [Device -> Seq(Seq(OpId))]
    /\ refusedNow \in [Device -> OpId \cup {NoOp}] /\ refused \in [Device -> OpId \cup {NoOp}]
    /\ wanted \in [Device -> BOOLEAN] /\ trouble \in [Device -> BOOLEAN]
    /\ listed \in [Device -> SUBSET OpId] /\ discarded \subseteq OpId
    /\ mishaps \in 0 .. MaxMishaps

\* Whatever is named was made, and on the device that names it.
MadeBy(d) == {o \in Made : o[1] = d}

NamedBy(d) ==
    /\ Range(queued[d]) \subseteq MadeBy(d) /\ Range(outbox[d]) \subseteq MadeBy(d)
    /\ Range(settling[d]) \subseteq MadeBy(d)
    /\ \A i \in 1 .. Len(parts[d]) : Range(parts[d][i]) \subseteq MadeBy(d)
    /\ refusedNow[d] \in Made \cup {NoOp} /\ refused[d] \in Made \cup {NoOp}
    /\ listed[d] \subseteq Made

NamesInv ==
    /\ \A d \in Device : NamedBy(d)
    /\ discarded \subseteq Made
    /\ \A o \in OpId : receipt[o] # "none" => o \in Made

\* Nothing that was made is forgotten.
KeptInv ==
    \A o \in Made : receipt[o] # "none" \/ o \in Range(queued[o[1]]) \/ o \in discarded

\* The outbox in memory is the front of the one in the store, which is in order.
QueueInv(d) == Rising(queued[d]) /\ Begins(outbox[d], queued[d])

Waits(p, d) == p \in Range(queued[d]) /\ receipt[p] = "none"

\* No transmission is ahead of what was made before and waits, and what one was
\* answered for was decided.
SendInv(d) ==
    /\ step[d] \in {"push", "pushed"} => parts[d] # <<>>
    /\ step[d] = "pushed" /\ Range(Head(parts[d])) \cap unwelcome = {} =>
          \A o \in Range(Head(parts[d])) : receipt[o] # "none"
    /\ \A i \in 1 .. Len(parts[d]) : \A o \in Range(parts[d][i]), p \in Made :
          MadeEarlier(p, o) /\ Waits(p, d) =>
             \E j \in 1 .. i : p \in Range(parts[d][j])

\* What landed is in the row of the server, or in a later version of it.
LandInv ==
    \A o \in Made : receipt[o] = "applied" =>
        /\ landedAt[o] # 0 /\ row[Says(o).rec] # NoRow
        /\ row[Says(o).rec].version >= landedAt[o]

SettleInv(d) ==
    \A o \in Range(settling[d]) :
        receipt[o] = "applied" /\ (step[d] = "conflicts" => BroughtBack(o))

IInv ==
    /\ FieldsInv /\ NamesInv /\ KeptInv /\ LandInv
    /\ \A d \in Device : QueueInv(d) /\ SendInv(d) /\ SettleInv(d)

-----------------------------------------------------------------------------
(* What is made, and the rules. *)

LEMMA OpIds ==
  /\ \A o \in OpId : o[1] \in Device /\ o[2] \in 1 .. MaxOps[o[1]] /\ o = <<o[1], o[2]>>
  /\ \A d \in Device : \A n \in 1 .. MaxOps[d] : <<d, n>> \in OpId
BY DEF OpId

LEMMA MadeSays ==
  ASSUME FieldsInv, NEW o \in Made
  PROVE  /\ o \in OpId /\ o[1] \in Device /\ o[2] \in 1 .. Len(op[o[1]])
         /\ Says(o) \in Operation /\ Says(o).rec \in Record /\ Says(o).base \in Versions
         /\ PolicyOf[Says(o).rec] \in Policies /\ PolicyOf[Says(o).rec].gateFrom = NoGate
<1>1. o \in OpId /\ o[1] \in Device /\ o[2] \in 1 .. MaxOps[o[1]] /\ o[2] <= Len(op[o[1]])
  BY OpIds DEF Made
<1>2. op[o[1]] \in Seq(Operation) /\ MaxOps[o[1]] \in Nat
  BY <1>1, SyncClientAssumption DEF FieldsInv
<1>3. o[2] \in 1 .. Len(op[o[1]])
  BY <1>1, <1>2
<1>4. Says(o) \in Operation
  BY <1>2, <1>3 DEF Says
<1>5. Says(o).rec \in Record /\ Says(o).base \in Versions
  BY <1>4 DEF Operation
<1> QED
  BY <1>1, <1>3, <1>4, <1>5, SyncClientAssumption

\* Whether an entry applies is what its receipt says.
LEMMA Judges ==
  ASSUME NEW entry \in Operation, NEW current, NEW policy \in Policies, policy.gateFrom = NoGate
  PROVE  LET decision == DecideMerge(entry, current, NoRow, policy) IN
         /\ decision.reason \in Reasons
         /\ decision.outcome = "apply" <=> decision.reason = "applied"
         /\ decision.outcome = "apply" => (entry.kind = "create" <=> current = NoRow)
<1>1. policy # NoPolicy
  BY SyncClientAssumption
<1>2. /\ DecideCreate(entry, current, policy).reason \in Reasons
      /\ DecideCreate(entry, current, policy).outcome = "apply"
            <=> DecideCreate(entry, current, policy).reason = "applied"
      /\ DecideCreate(entry, current, policy).outcome = "apply" => current = NoRow
  BY DEF DecideCreate, Conflict, Skipped, Applied, Reasons
<1>3. /\ DecideDelete(entry, current).reason \in Reasons
      /\ DecideDelete(entry, current).outcome = "apply"
            <=> DecideDelete(entry, current).reason = "applied"
  BY DEF DecideDelete, Conflict, Applied, Reasons
<1>4. /\ DecideUpdate(entry, current).reason \in Reasons
      /\ DecideUpdate(entry, current).outcome = "apply"
            <=> DecideUpdate(entry, current).reason = "applied"
  BY DEF DecideUpdate, Conflict, Skipped, Applied, Reasons
<1>5. /\ DecideChange(entry, current, policy).reason \in Reasons
      /\ DecideChange(entry, current, policy).outcome = "apply"
            <=> DecideChange(entry, current, policy).reason = "applied"
      /\ DecideChange(entry, current, policy).outcome = "apply" => current # NoRow
  BY <1>3, <1>4 DEF DecideChange, Conflict, Skipped, Reasons
<1>6. DecideMerge(entry, current, NoRow, policy)
        = IF Reserved(entry, policy) # {} THEN Conflict("set_by_server", Reserved(entry, policy))
          ELSE IF entry.kind = "create" THEN DecideCreate(entry, current, policy)
          ELSE DecideChange(entry, current, policy)
  BY <1>1 DEF DecideMerge
<1>7. /\ Conflict("set_by_server", Reserved(entry, policy)).reason \in Reasons \ {"applied"}
      /\ Conflict("set_by_server", Reserved(entry, policy)).outcome # "apply"
  BY DEF Conflict, Reasons
<1> QED
  BY <1>2, <1>5, <1>6, <1>7

LEMMA Patches ==
  ASSUME NEW entry \in Operation
  PROVE  /\ entry.kind \in {"create", "update", "delete"}
         /\ Fields(entry) \subseteq Field
         /\ \A f \in Fields(entry) : entry.patches[f].to \in Value
         /\ \A data \in [Field -> Value] : Laid(entry, data) \in [Field -> Value]
<1>1. PICK fields \in SUBSET Field : entry.patches \in [fields -> [from : Value, to : Value]]
  BY DEF Operation
<1>2. Fields(entry) = fields /\ \A f \in fields : entry.patches[f].to \in Value
  BY <1>1 DEF Fields
<1>3. \A data \in [Field -> Value] : Laid(entry, data) \in [Field -> Value]
  BY <1>2 DEF Laid
<1> QED
  BY <1>2, <1>3 DEF Operation

\* What lands is a row, of a version that is new.
LEMMA Lands ==
  ASSUME NEW entry \in Operation, NEW policy \in Policies, NEW current,
         entry.kind # "create" => current \in Rows
  PROVE  /\ Landed(entry, current, policy) \in Rows
         /\ entry.kind = "create" => Landed(entry, current, policy).version = 1
         /\ entry.kind # "create" => Landed(entry, current, policy).version = current.version + 1
<1>1. \A data \in [Field -> Value] : Laid(entry, data) \in [Field -> Value]
  BY Patches
<1>2. CASE entry.kind = "create"
  <2>1. policy.start \in [Field -> Value]
    BY DEF Policies
  <2>2. Landed(entry, current, policy)
          = [data |-> Laid(entry, policy.start), version |-> 1, deleted |-> FALSE]
    BY <1>2 DEF Landed
  <2> QED
    BY <1>1, <1>2, <2>1, <2>2 DEF Rows
<1>3. CASE entry.kind # "create"
  <2>1. PICK data \in [Field -> Value], version \in Nat, deleted \in BOOLEAN :
           current = [data |-> data, version |-> version, deleted |-> deleted]
    BY <1>3 DEF Rows
  <2>2. CASE entry.kind = "delete"
    <3>0. PICK gone \in BOOLEAN : gone = TRUE
      OBVIOUS
    <3>1. Landed(entry, current, policy) = [current EXCEPT !.deleted = gone, !.version = @ + 1]
      BY <2>2, <3>0 DEF Landed
    <3>2. [current EXCEPT !.deleted = gone, !.version = @ + 1]
            = [data |-> data, version |-> version + 1, deleted |-> gone]
      <4>1. [current EXCEPT !.deleted = gone] = [data |-> data, version |-> version, deleted |-> gone]
        BY <2>1
      <4>2. [[data |-> data, version |-> version, deleted |-> gone] EXCEPT !.version = version + 1]
              = [data |-> data, version |-> version + 1, deleted |-> gone]
        OBVIOUS
      <4> QED
        BY <2>1, <4>1, <4>2
    <3>3. Landed(entry, current, policy) = [data |-> data, version |-> version + 1, deleted |-> gone]
      BY <3>1, <3>2
    <3>4. version + 1 \in Nat /\ current.version = version
      BY <2>1
    <3>5. [data |-> data, version |-> version + 1, deleted |-> gone] \in Rows
      BY <3>4 DEF Rows
    <3> QED
      BY <1>3, <3>3, <3>4, <3>5
  <2>3. CASE entry.kind = "update"
    <3>1. Landed(entry, current, policy) = [current EXCEPT !.data = Laid(entry, @), !.version = @ + 1]
      BY <2>3 DEF Landed
    <3>2. [current EXCEPT !.data = Laid(entry, @), !.version = @ + 1]
            = [data |-> Laid(entry, data), version |-> version + 1, deleted |-> deleted]
      <4>1. [current EXCEPT !.data = Laid(entry, data)]
              = [data |-> Laid(entry, data), version |-> version, deleted |-> deleted]
        BY <2>1
      <4>2. [[data |-> Laid(entry, data), version |-> version, deleted |-> deleted]
               EXCEPT !.version = version + 1]
              = [data |-> Laid(entry, data), version |-> version + 1, deleted |-> deleted]
        OBVIOUS
      <4> QED
        BY <2>1, <4>1, <4>2
    <3>3. Landed(entry, current, policy)
            = [data |-> Laid(entry, data), version |-> version + 1, deleted |-> deleted]
      BY <3>1, <3>2
    <3>4. version + 1 \in Nat /\ current.version = version
      BY <2>1
    <3>5. [data |-> Laid(entry, data), version |-> version + 1, deleted |-> deleted] \in Rows
      BY <1>1, <3>4 DEF Rows
    <3> QED
      BY <1>3, <3>3, <3>4, <3>5
  <2> QED
    BY <1>3, <2>2, <2>3, Patches
<1> QED
  BY <1>2, <1>3

-----------------------------------------------------------------------------
(* A transmission on the server. *)

Servers ==
    [row : [Record -> Rows \cup {NoRow}], receipt : [OpId -> Reasons \cup {"none"}],
     landed : [OpId -> Nat], unseen : SUBSET OpId]

\* What landed is there, or was overwritten since.
LandedIn(server) ==
    \A o \in Made : server.receipt[o] = "applied" =>
        /\ server.landed[o] # 0 /\ server.row[Says(o).rec] # NoRow
        /\ server.row[Says(o).rec].version >= server.landed[o]

\* What an operation that comes up may change: its own receipt, once.
LEMMA Applies ==
  ASSUME FieldsInv, NEW server \in Servers, NEW o \in Made
  PROVE  /\ Apply(server, o) \in Servers
         /\ Apply(server, o).receipt[o] # "none"
         /\ server.receipt[o] # "none" => Apply(server, o) = server
         /\ \A p \in OpId \ {o} : /\ Apply(server, o).receipt[p] = server.receipt[p]
                                  /\ Apply(server, o).landed[p] = server.landed[p]
         /\ LandedIn(server) => LandedIn(Apply(server, o))
<1>1. /\ o \in OpId /\ Says(o) \in Operation /\ Says(o).rec \in Record
      /\ PolicyOf[Says(o).rec] \in Policies /\ PolicyOf[Says(o).rec].gateFrom = NoGate
  BY MadeSays
<1>2. CASE server.receipt[o] # "none"
  BY <1>2 DEF Apply
<1>3. CASE server.receipt[o] = "none"
  <2> DEFINE r        == Says(o).rec
             current  == server.row[r]
             decision == DecideMerge(Says(o), current, NoRow, PolicyOf[r])
             applies  == decision.outcome = "apply"
             lands    == Landed(Says(o), current, PolicyOf[r])
             collides == Says(o).kind = "update" /\ Collided(Says(o), current) # {}
             after    == Apply(server, o)
  <2>1. /\ decision.reason \in Reasons /\ (applies <=> decision.reason = "applied")
        /\ applies => (Says(o).kind = "create" <=> current = NoRow)
    BY <1>1, Judges
  <2>2. current \in Rows \cup {NoRow}
    BY <1>1 DEF Servers
  <2>3. applies => /\ lands \in Rows
                   /\ Says(o).kind = "create" => lands.version = 1
                   /\ Says(o).kind # "create" => lands.version = current.version + 1 /\ current \in Rows
    BY <1>1, <2>1, <2>2, Lands
  <2>4. /\ server.row \in [Record -> Rows \cup {NoRow}] /\ server.landed \in [OpId -> Nat]
        /\ server.receipt \in [OpId -> Reasons \cup {"none"}] /\ server.unseen \in SUBSET OpId
    BY DEF Servers
  <2>5. after = [row     |-> IF applies THEN [server.row EXCEPT ![r] = lands] ELSE server.row,
                 receipt |-> [server.receipt EXCEPT ![o] = decision.reason],
                 landed  |-> IF applies THEN [server.landed EXCEPT ![o] = lands.version]
                             ELSE server.landed,
                 unseen  |-> IF /\ applies /\ Says(o).kind = "update"
                                /\ Collided(Says(o), current) # {}
                             THEN server.unseen \cup {o} ELSE server.unseen]
    BY <1>3 DEF Apply
  <2>6. applies => lands.version \in Nat /\ lands # NoRow
    BY <2>3, SyncClientAssumption DEF Rows
  <2>7. /\ after.row = IF applies THEN [server.row EXCEPT ![r] = lands] ELSE server.row
        /\ after.receipt = [server.receipt EXCEPT ![o] = decision.reason]
        /\ after.landed = IF applies THEN [server.landed EXCEPT ![o] = lands.version] ELSE server.landed
        /\ after.unseen \in SUBSET OpId
    BY <1>1, <2>4, <2>5
  <2>8. after \in Servers
    <3>1. /\ after.row \in [Record -> Rows \cup {NoRow}] /\ after.landed \in [OpId -> Nat]
          /\ after.receipt \in [OpId -> Reasons \cup {"none"}]
      <4>1. r \in Record /\ o \in OpId
        BY <1>1
      <4> HIDE DEF r, applies, lands, decision, after
      <4>2. after.row \in [Record -> Rows \cup {NoRow}]
        BY <2>3, <2>4, <2>7, <4>1
      <4>3. after.landed \in [OpId -> Nat]
        BY <2>4, <2>6, <2>7, <4>1
      <4>4. after.receipt \in [OpId -> Reasons \cup {"none"}]
        BY <2>1, <2>4, <2>7, <4>1
      <4> QED
        BY <4>2, <4>3, <4>4
    <3>2. after = [row |-> after.row, receipt |-> after.receipt, landed |-> after.landed,
                   unseen |-> after.unseen]
      <4> HIDE DEF r, applies, lands, decision, current
      <4> QED
        BY <2>5
    <3> HIDE DEF after
    <3> QED
      BY <2>7, <3>1, <3>2 DEF Servers
  <2>9. after.receipt[o] # "none" /\ after.receipt[o] = decision.reason
    <3> HIDE DEF decision, after
    <3> QED
      BY <1>1, <2>1, <2>4, <2>7 DEF Reasons
  <2>10. \A p \in OpId \ {o} : after.receipt[p] = server.receipt[p] /\ after.landed[p] = server.landed[p]
    <3> HIDE DEF decision, after, applies, lands
    <3> QED
      BY <2>4, <2>7
  <2>11. ASSUME LandedIn(server)
         PROVE  LandedIn(after)
    <3> SUFFICES ASSUME NEW p \in Made, after.receipt[p] = "applied"
                 PROVE  /\ after.landed[p] # 0 /\ after.row[Says(p).rec] # NoRow
                        /\ after.row[Says(p).rec].version >= after.landed[p]
      BY DEF LandedIn
    <3>1. p \in OpId /\ Says(p).rec \in Record
      BY MadeSays
    <3>2. CASE p = o
      <4>1. applies
        BY <2>1, <2>9, <3>2
      <4>2. after.landed[p] = lands.version /\ after.row[Says(p).rec] = lands
        <5> HIDE DEF decision, after, applies, lands
        <5> QED
          BY <1>1, <2>4, <2>7, <3>2, <4>1
      <4>3. lands.version # 0
        <5>1. current \in Rows => current.version \in Nat
          BY DEF Rows
        <5> HIDE DEF lands, applies, current
        <5> QED
          BY <2>3, <4>1, <5>1
      <4> HIDE DEF after, lands, applies
      <4> QED
        BY <2>6, <4>1, <4>2, <4>3
    <3>3. CASE p # o
      <4>1. /\ server.landed[p] # 0 /\ server.row[Says(p).rec] # NoRow
            /\ server.row[Says(p).rec].version >= server.landed[p]
            /\ after.landed[p] = server.landed[p] /\ server.landed[p] \in Nat
        BY <2>4, <2>10, <2>11, <3>1, <3>3 DEF LandedIn
      <4>2. CASE applies /\ Says(p).rec = r
        <5>1. after.row[Says(p).rec] = lands
          <6> HIDE DEF decision, after, applies, lands
          <6> QED
            BY <1>1, <2>4, <2>7, <4>2
        <5>2. current # NoRow /\ current.version \in Nat /\ lands.version = current.version + 1
          <6>1. current # NoRow
            BY <4>1, <4>2
          <6>2. Says(o).kind # "create"
            BY <2>1, <4>2, <6>1
          <6> QED
            BY <2>3, <4>2, <6>1, <6>2 DEF Rows
        <5>3. current.version >= server.landed[p]
          BY <4>1, <4>2
        <5> HIDE DEF after, lands, applies, current
        <5> QED
          BY <2>6, <4>1, <4>2, <5>1, <5>2, <5>3
      <4>3. CASE ~(applies /\ Says(p).rec = r)
        <5>1. after.row[Says(p).rec] = server.row[Says(p).rec]
          <6> HIDE DEF decision, after, applies, lands
          <6> QED
            BY <2>4, <2>7, <3>1, <4>3
        <5> QED
          BY <4>1, <5>1
      <4> QED
        BY <4>2, <4>3
    <3> QED
      BY <3>2, <3>3
  <2> QED
    BY <1>3, <2>8, <2>9, <2>10, <2>11
<1> QED
  <2>1. \A p \in OpId : server.receipt[p] \in Reasons \cup {"none"}
    BY DEF Servers
  <2> QED
    BY <1>2, <1>3

ServerNow == [row |-> row, receipt |-> receipt, landed |-> landedAt, unseen |-> unseen]

Applying(part, g) ==
    [n \in 0 .. Len(part) |-> IF n = 0 THEN ServerNow ELSE Apply(g[n - 1], part[n])]

\* The recursion of a transmission runs, one operation after another.
LEMMA TransmissionRuns ==
  ASSUME FieldsInv, NEW part \in Seq(OpId), Range(part) \subseteq Made
  PROVE  \E g \in [0 .. Len(part) -> Servers] :
            /\ g[0] = ServerNow /\ \A n \in 1 .. Len(part) : g[n] = Apply(g[n - 1], part[n])
            /\ Transmitted(part) = g[Len(part)]
<1>1. Len(part) \in Nat /\ \A n \in 1 .. Len(part) : part[n] \in Made
  BY InRange
<1>2. ServerNow \in Servers
  BY DEF FieldsInv, ServerNow, Servers
<1>3. \A n \in 1 .. Len(part) : n \in 0 .. Len(part) /\ n # 0 /\ n - 1 \in 0 .. Len(part)
  BY <1>1
<1> DEFINE k == Len(part)
           F == [n \in 1 .. k |-> [server \in Servers |-> Apply(server, part[n])]]
<1>4. F \in [1 .. k -> [Servers -> Servers]]
  <2>1. \A n \in 1 .. k, server \in Servers : Apply(server, part[n]) \in Servers
    BY <1>1, Applies
  <2> QED
    BY <2>1
<1>5. PICK f : Recurs(k, Servers, ServerNow, F, f)
  <2>1. k \in Nat
    BY <1>1
  <2> HIDE DEF F, k
  <2> QED
    BY <1>2, <1>4, <2>1, Recursion
<1>6. f \in [0 .. k -> Servers] /\ f[0] = ServerNow /\ \A n \in 1 .. k : f[n] = F[n][f[n - 1]]
  <2> HIDE DEF F
  <2> QED
    BY <1>5 DEF Recurs
<1>7. ASSUME NEW n \in 1 .. k
      PROVE  f[n] = Apply(f[n - 1], part[n])
  <2>1. f[n - 1] \in Servers
    BY <1>3, <1>6
  <2>2. F[n][f[n - 1]] = Apply(f[n - 1], part[n])
    BY <2>1
  <2> HIDE DEF F
  <2> QED
    BY <1>6, <2>2
<1>8. f = Applying(part, f)
  <2>1. \A n \in 0 .. k : n = 0 \/ n \in 1 .. k
    BY <1>1
  <2>2. \A n \in 0 .. k : f[n] = Applying(part, f)[n]
    BY <1>6, <1>7, <2>1 DEF Applying
  <2>3. f = [n \in 0 .. k |-> f[n]]
    BY <1>6
  <2>4. Applying(part, f) = [n \in 0 .. k |-> Applying(part, f)[n]]
    BY DEF Applying
  <2> QED
    BY <2>2, <2>3, <2>4
<1>9. \E g : g = Applying(part, g)
  BY <1>8
<1> DEFINE g0 == CHOOSE g : g = Applying(part, g)
<1>10. g0 = Applying(part, g0)
  BY <1>9
<1>11. Transmitted(part) = g0[Len(part)]
  BY DEF Transmitted, Applying, ServerNow
<1> HIDE DEF g0, F
<1>12. DOMAIN g0 = 0 .. k /\ g0 = [n \in 0 .. k |-> g0[n]]
  BY <1>10 DEF Applying
<1>13. g0[0] = ServerNow /\ \A n \in 1 .. k : g0[n] = Apply(g0[n - 1], part[n])
  <2>1. \A n \in 0 .. k : g0[n] = Applying(part, g0)[n]
    BY <1>10
  <2>2. 0 \in 0 .. k
    BY <1>1
  <2>3. \A n \in 1 .. k : Applying(part, g0)[n] = Apply(g0[n - 1], part[n])
    BY <1>3 DEF Applying
  <2>4. Applying(part, g0)[0] = ServerNow
    BY <2>2 DEF Applying
  <2> QED
    BY <1>3, <2>1, <2>2, <2>3, <2>4
<1> DEFINE G == {n \in 0 .. k : g0[n] \in Servers}
<1>14. 0 \in G
  BY <1>1, <1>2, <1>13
<1>15. \A n \in 1 .. k : n - 1 \in G => n \in G
  BY <1>1, <1>3, <1>13, Applies
<1>16. \A n \in 0 .. k : n \in G
  <2>1. k \in Nat
    BY <1>1
  <2> HIDE DEF G, k
  <2> QED
    BY <1>14, <1>15, <2>1, Climbs
<1>17. g0 \in [0 .. k -> Servers]
  BY <1>12, <1>16
<1> QED
  BY <1>11, <1>13, <1>17

\* A transmission decides each of its operations that was not decided, and
\* nothing else.
LEMMA Transmits ==
  ASSUME FieldsInv, NEW part \in Seq(OpId), Range(part) \subseteq Made
  PROVE  LET server == Transmitted(part) IN
         /\ server \in Servers
         /\ \A o \in Range(part) : server.receipt[o] # "none"
         /\ \A o \in OpId : receipt[o] # "none" \/ o \notin Range(part) =>
               server.receipt[o] = receipt[o] /\ server.landed[o] = landedAt[o]
         /\ LandInv => LandedIn(server)
<1>1. PICK g \in [0 .. Len(part) -> Servers] :
         /\ g[0] = ServerNow /\ \A n \in 1 .. Len(part) : g[n] = Apply(g[n - 1], part[n])
         /\ Transmitted(part) = g[Len(part)]
  BY TransmissionRuns
<1>2. Len(part) \in Nat /\ \A n \in 1 .. Len(part) : part[n] \in Made /\ part[n] \in OpId
  BY InRange
<1> DEFINE Decided(n) ==
             /\ \A m \in 1 .. n : g[n].receipt[part[m]] # "none"
             /\ \A o \in OpId : receipt[o] # "none" \/ (\A m \in 1 .. n : part[m] # o) =>
                   g[n].receipt[o] = receipt[o] /\ g[n].landed[o] = landedAt[o]
             /\ LandInv => LandedIn(g[n])
           G == {n \in 0 .. Len(part) : Decided(n)}
<1>3. 0 \in G
  <2>1. g[0].receipt = receipt /\ g[0].landed = landedAt /\ g[0].row = row
    BY <1>1 DEF ServerNow
  <2>2. LandInv => LandedIn(g[0])
    BY <2>1 DEF LandInv, LandedIn
  <2> QED
    BY <1>2, <2>1, <2>2
<1>4. ASSUME NEW n \in 1 .. Len(part), n - 1 \in G
      PROVE  n \in G
  <2>1. n - 1 \in 0 .. Len(part) /\ n \in 0 .. Len(part) /\ part[n] \in Made /\ part[n] \in OpId
    BY <1>2
  <2>2. g[n - 1] \in Servers /\ g[n] = Apply(g[n - 1], part[n]) /\ Decided(n - 1)
    BY <1>1, <1>4, <2>1
  <2>3. /\ g[n].receipt[part[n]] # "none"
        /\ g[n - 1].receipt[part[n]] # "none" => g[n] = g[n - 1]
        /\ \A p \in OpId \ {part[n]} : /\ g[n].receipt[p] = g[n - 1].receipt[p]
                                       /\ g[n].landed[p] = g[n - 1].landed[p]
        /\ LandedIn(g[n - 1]) => LandedIn(g[n])
    BY <2>1, <2>2, Applies
  <2>4. \A m \in 1 .. n : m = n \/ m \in 1 .. n - 1
    BY <2>1
  <2>5. \A m \in 1 .. n : g[n].receipt[part[m]] # "none"
    <3>1. \A m \in 1 .. n - 1 : part[m] \in OpId
      BY <1>2
    <3> QED
      BY <2>2, <2>3, <2>4, <3>1
  <2>6. ASSUME NEW o \in OpId, receipt[o] # "none" \/ \A m \in 1 .. n : part[m] # o
        PROVE  g[n].receipt[o] = receipt[o] /\ g[n].landed[o] = landedAt[o]
    <3>1. receipt[o] # "none" \/ \A m \in 1 .. n - 1 : part[m] # o
      <4>1. \A m \in 1 .. n - 1 : m \in 1 .. n
        BY <2>1
      <4> QED
        BY <2>6, <4>1
    <3>2. g[n - 1].receipt[o] = receipt[o] /\ g[n - 1].landed[o] = landedAt[o]
      BY <2>2, <3>1
    <3>3. CASE o = part[n]
      <4>1. n \in 1 .. n
        BY <2>1
      <4>2. g[n - 1].receipt[part[n]] # "none"
        BY <2>6, <3>2, <3>3, <4>1
      <4> QED
        BY <2>3, <3>2, <4>2
    <3>4. CASE o # part[n]
      BY <2>3, <3>2, <3>4
    <3> QED
      BY <3>3, <3>4
  <2>7. LandInv => LandedIn(g[n])
    BY <2>2, <2>3
  <2>8. Decided(n)
    BY <2>5, <2>6, <2>7
  <2> HIDE DEF Decided
  <2> QED
    BY <2>1, <2>8
<1>5. Decided(Len(part))
  <2>1. \A n \in 0 .. Len(part) : n \in G
    <3> HIDE DEF G
    <3> QED
      BY <1>2, <1>3, <1>4, Climbs
  <2>2. Len(part) \in 0 .. Len(part)
    BY <1>2
  <2> HIDE DEF Decided
  <2> QED
    BY <2>1, <2>2
<1>6. g[Len(part)] \in Servers
  BY <1>2
<1>7. \A o : o \in Range(part) <=> \E m \in 1 .. Len(part) : part[m] = o
  BY InRange
<1> QED
  BY <1>1, <1>5, <1>6, <1>7

-----------------------------------------------------------------------------
(* What a device shows, and an entry made over it. *)

ShownRows == [data : [Field -> Value], version : Versions, deleted : BOOLEAN]

LEMMA Overlaid ==
  ASSUME NEW current \in ShownRows, NEW data \in [Field -> Value]
  PROVE  [current EXCEPT !.data = data] \in ShownRows
<1>1. PICK d \in [Field -> Value], version \in Versions, deleted \in BOOLEAN :
        current = [data |-> d, version |-> version, deleted |-> deleted]
  BY DEF ShownRows
<1>2. [current EXCEPT !.data = data] = [data |-> data, version |-> version, deleted |-> deleted]
  BY <1>1
<1> QED
  BY <1>2 DEF ShownRows

\* An entry laid over a row is a row, of the version of the server.
LEMMA LaysOver ==
  ASSUME FieldsInv, NEW current \in ShownRows \cup {NoRow}, NEW o \in Made
  PROVE  LayOver(current, o) \in ShownRows \cup {NoRow}
<1>1. Says(o) \in Operation /\ Says(o).rec \in Record /\ PolicyOf[Says(o).rec] \in Policies
  BY MadeSays
<1>2. /\ Says(o).kind \in {"create", "update", "delete"}
      /\ \A data \in [Field -> Value] : Laid(Says(o), data) \in [Field -> Value]
  BY <1>1, Patches
<1>3. [f \in Field |-> Null] \in [Field -> Value] /\ NoVersion \in Versions
  BY SyncClientAssumption DEF Versions
<1>4. Nulls \in ShownRows /\ Nulls.data = [f \in Field |-> Null]
  <2>1. \E no \in BOOLEAN : no = FALSE
    OBVIOUS
  <2> QED
    BY <1>3, <2>1 DEF Nulls, ShownRows
<1>5. Blank(Says(o).rec) \in ShownRows /\ Blank(Says(o).rec).data \in [Field -> Value]
  <2> DEFINE r == Says(o).rec
             data == [f \in Field |-> IF f \in PolicyOf[r].reserved THEN PolicyOf[r].start[f] ELSE Null]
  <2>1. data \in [Field -> Value]
    <3>1. PolicyOf[r].start \in [Field -> Value]
      BY <1>1 DEF Policies
    <3> QED
      BY <3>1, SyncClientAssumption
  <2>2. Blank(r) = [Nulls EXCEPT !.data = data]
    BY DEF Blank
  <2> HIDE DEF data, r
  <2>3. Blank(r) \in ShownRows
    BY <1>4, <2>1, <2>2, Overlaid
  <2> QED
    BY <2>3 DEF ShownRows, r
<1>6. CASE Says(o).kind = "delete"
  BY <1>6 DEF LayOver
<1>7. CASE Says(o).kind = "create"
  <2>1. LayOver(current, o)
          = [Blank(Says(o).rec) EXCEPT !.data = Laid(Says(o), Blank(Says(o).rec).data)]
    BY <1>7 DEF LayOver
  <2> QED
    BY <1>2, <1>5, <2>1, Overlaid
<1>8. CASE Says(o).kind = "update" /\ current = NoRow
  <2>1. LayOver(current, o) = [Nulls EXCEPT !.data = Laid(Says(o), Nulls.data)]
    BY <1>8 DEF LayOver
  <2> QED
    BY <1>2, <1>3, <1>4, <2>1, Overlaid
<1>9. CASE Says(o).kind = "update" /\ current # NoRow
  <2>1. LayOver(current, o) = [current EXCEPT !.data = Laid(Says(o), current.data)]
    BY <1>9 DEF LayOver
  <2>2. current \in ShownRows /\ current.data \in [Field -> Value]
    BY <1>9 DEF ShownRows
  <2> QED
    BY <1>2, <2>1, <2>2, Overlaid
<1> QED
  BY <1>2, <1>6, <1>7, <1>8, <1>9

LaidOver(d) == settling[d] \o outbox[d]

Under(d, r, g) ==
    [n \in 0 .. Len(LaidOver(d)) |->
       IF n = 0 THEN held[d][r]
       ELSE IF Says(LaidOver(d)[n]).rec = r THEN LayOver(g[n - 1], LaidOver(d)[n])
       ELSE g[n - 1]]

\* A device shows a row or none, whatever it lays over what it holds.
LEMMA ShowsRows ==
  ASSUME FieldsInv, NamesInv, NEW d \in Device, NEW r \in Record
  PROVE  Shown(d, r) \in ShownRows \cup {NoRow}
<1> DEFINE laid == LaidOver(d)
           S    == ShownRows \cup {NoRow}
           k    == Len(laid)
           over(n, x) == IF Says(laid[n]).rec = r THEN LayOver(x, laid[n]) ELSE x
<1>1. laid \in Seq(OpId) /\ k \in Nat
  BY DEF FieldsInv, LaidOver
<1>2. \A n \in 1 .. k : laid[n] \in Made
  <2>1. settling[d] \in Seq(OpId) /\ outbox[d] \in Seq(OpId)
    BY DEF FieldsInv
  <2>2. Range(settling[d]) \subseteq Made /\ Range(outbox[d]) \subseteq Made
    BY DEF NamesInv, NamedBy, MadeBy
  <2>3. /\ k = Len(settling[d]) + Len(outbox[d])
        /\ \A n \in 1 .. k : laid[n] = IF n <= Len(settling[d]) THEN settling[d][n]
                                       ELSE outbox[d][n - Len(settling[d])]
    <3>1. laid = settling[d] \o outbox[d]
      BY DEF LaidOver
    <3>2. Len(settling[d] \o outbox[d]) = Len(settling[d]) + Len(outbox[d])
      BY <2>1, ConcatProperties
    <3>3. \A n \in 1 .. Len(settling[d]) + Len(outbox[d]) :
             (settling[d] \o outbox[d])[n] = IF n <= Len(settling[d]) THEN settling[d][n]
                                             ELSE outbox[d][n - Len(settling[d])]
      BY <2>1, ConcatProperties
    <3> HIDE DEF laid
    <3> QED
      BY <3>1, <3>2, <3>3
  <2>4. \A n \in 1 .. Len(settling[d]) : settling[d][n] \in Made
    BY <2>1, <2>2, InRange
  <2>5. \A n \in 1 .. Len(outbox[d]) : outbox[d][n] \in Made
    BY <2>1, <2>2, InRange
  <2>6. Len(settling[d]) \in Nat /\ Len(outbox[d]) \in Nat
    BY <2>1
  <2>7. ASSUME NEW n \in 1 .. k
        PROVE  \/ n <= Len(settling[d]) /\ n \in 1 .. Len(settling[d])
               \/ ~(n <= Len(settling[d])) /\ n - Len(settling[d]) \in 1 .. Len(outbox[d])
    <3> DEFINE a == Len(settling[d])
               b == Len(outbox[d])
    <3>1. k = a + b
      BY <2>3
    <3>2. a \in Nat /\ b \in Nat
      BY <2>6
    <3> HIDE DEF laid, k, a, b
    <3>3. \/ n <= a /\ n \in 1 .. a
          \/ ~(n <= a) /\ n - a \in 1 .. b
      BY <3>1, <3>2
    <3> QED
      BY <3>3 DEF a, b
  <2> HIDE DEF laid, k
  <2> QED
    BY <2>3, <2>4, <2>5, <2>7
<1>3. held[d][r] \in S
  <2>1. held[d][r] \in Rows \cup {NoRow}
    BY DEF FieldsInv
  <2> QED
    BY <2>1 DEF Rows, ShownRows, Versions
<1>4. \A n \in 1 .. k, x \in S : over(n, x) \in S
  BY <1>2, LaysOver
<1> DEFINE F == [n \in 1 .. k |-> [x \in S |-> over(n, x)]]
<1>5. F \in [1 .. k -> [S -> S]]
  <2> HIDE DEF over, S, k
  <2> QED
    BY <1>4
<1>6. PICK f : Recurs(k, S, held[d][r], F, f)
  <2> HIDE DEF F, S, k
  <2> QED
    BY <1>1, <1>3, <1>5, Recursion
<1>7. f \in [0 .. k -> S] /\ f[0] = held[d][r] /\ \A n \in 1 .. k : f[n] = F[n][f[n - 1]]
  <2> HIDE DEF F, S, k
  <2> QED
    BY <1>6 DEF Recurs
<1>8. \A n \in 1 .. k : n \in 0 .. k /\ n # 0 /\ n - 1 \in 0 .. k
  BY <1>1
<1>9. ASSUME NEW n \in 1 .. k
      PROVE  f[n] = over(n, f[n - 1])
  <2>1. f[n - 1] \in S
    <3> HIDE DEF S, k, F
    <3> QED
      BY <1>7, <1>8
  <2>2. F[n][f[n - 1]] = over(n, f[n - 1])
    <3> HIDE DEF S, k, over
    <3> QED
      BY <2>1
  <2> HIDE DEF F, over, S, k
  <2> QED
    BY <1>7, <2>2
<1>10. f = Under(d, r, f)
  <2>1. \A n \in 0 .. k : n = 0 \/ n \in 1 .. k
    BY <1>1
  <2>2. \A n \in 1 .. k : f[n] = Under(d, r, f)[n]
    BY <1>8, <1>9 DEF Under
  <2>3. f[0] = Under(d, r, f)[0]
    <3>1. 0 \in 0 .. k
      BY <1>1
    <3> QED
      BY <1>7, <3>1 DEF Under
  <2>4. f = [n \in 0 .. k |-> f[n]]
    <3> HIDE DEF F, S
    <3> QED
      BY <1>7
  <2>5. Under(d, r, f) = [n \in 0 .. k |-> Under(d, r, f)[n]]
    BY DEF Under
  <2> HIDE DEF F, S, over, k
  <2> QED
    BY <2>1, <2>2, <2>3, <2>4, <2>5
<1>11. \E g : g = Under(d, r, g)
  BY <1>10
<1> DEFINE g0 == CHOOSE g : g = Under(d, r, g)
<1>12. g0 = Under(d, r, g0)
  BY <1>11
<1>13. Project(d, r) = g0[k]
  BY DEF Project, Under, LaidOver
<1> HIDE DEF g0, F
<1>14. /\ g0[0] = held[d][r]
       /\ \A n \in 1 .. k : g0[n] = over(n, g0[n - 1])
  <2>1. \A n \in 0 .. k : g0[n] = Under(d, r, g0)[n]
    BY <1>12
  <2>2. 0 \in 0 .. k
    BY <1>1
  <2>3. \A n \in 1 .. k : Under(d, r, g0)[n] = over(n, g0[n - 1])
    BY <1>8 DEF Under
  <2>4. Under(d, r, g0)[0] = held[d][r]
    BY <2>2 DEF Under
  <2> HIDE DEF over, k
  <2> QED
    BY <1>8, <2>1, <2>2, <2>3, <2>4
<1> DEFINE G == {n \in 0 .. k : g0[n] \in S}
<1>15. 0 \in G
  <2>1. 0 \in 0 .. k
    BY <1>1
  <2> QED
    BY <1>3, <1>14, <2>1
<1>16. \A n \in 1 .. k : n - 1 \in G => n \in G
  <2> HIDE DEF over, S, k
  <2> QED
    BY <1>4, <1>8, <1>14
<1>17. k \in G
  <2>1. \A n \in 0 .. k : n \in G
    <3> HIDE DEF G, k
    <3> QED
      BY <1>1, <1>15, <1>16, Climbs
  <2>2. k \in 0 .. k
    BY <1>1
  <2> HIDE DEF G, k
  <2> QED
    BY <2>1, <2>2
<1>18. Project(d, r) \in S
  BY <1>13, <1>17
<1> QED
  BY <1>18 DEF Shown

-----------------------------------------------------------------------------
(* The outbox cut into transmissions. *)

LEMMA Divides ==
  ASSUME NEW n \in Nat, NEW m \in Nat \ {0}
  PROVE  (n + m - 1) \div m \in Nat /\ (n > 0 => (n + m - 1) \div m > 0)
OBVIOUS

\* Each takes the next ones: with an entry, all before it are in its
\* transmission or in an earlier one.
LEMMA Cut ==
  ASSUME NEW s \in Seq(OpId)
  PROVE  /\ Transmissions(s) \in Seq(Seq(OpId)) /\ (s # <<>> => Transmissions(s) # <<>>)
         /\ \A i \in 1 .. Len(Transmissions(s)) : \A o \in Range(Transmissions(s)[i]) :
               \E k \in 1 .. Len(s) : s[k] = o /\ \A m \in 1 .. k :
                  \E j \in 1 .. i : s[m] \in Range(Transmissions(s)[j])
<1> DEFINE N == (Len(s) + Most - 1) \div Most
           End(i) == IF i * Most < Len(s) THEN i * Most ELSE Len(s)
           Part(i) == SubSeq(s, (i - 1) * Most + 1, End(i))
           T == Transmissions(s)
<1>1. Len(s) \in Nat /\ Most \in Nat \ {0} /\ (s # <<>> => Len(s) > 0)
  BY SyncClientAssumption
<1>2. N \in Nat /\ (s # <<>> => N > 0)
  BY <1>1, Divides
<1>3. T = [i \in 1 .. N |-> Part(i)]
  BY DEF Transmissions
<1>4. \A i \in 1 .. N : i \in Nat /\ (i - 1) * Most \in Nat /\ i * Most \in Nat
                        /\ i * Most = (i - 1) * Most + Most
  <2> SUFFICES ASSUME NEW i \in 1 .. N
               PROVE  i \in Nat /\ (i - 1) * Most \in Nat /\ i * Most \in Nat
                      /\ i * Most = (i - 1) * Most + Most
    OBVIOUS
  <2>1. i \in Nat \ {0} /\ i - 1 \in Nat
    <3> HIDE DEF N
    <3> QED
      BY <1>2
  <2>2. \A x, y \in Nat : x * y \in Nat
    OBVIOUS
  <2>3. \A x \in Nat : \A y \in Nat : (x + 1) * y = x * y + y
    OBVIOUS
  <2>4. (i - 1) + 1 = i
    BY <2>1
  <2>5. ((i - 1) + 1) * Most = (i - 1) * Most + Most
    BY <1>1, <2>1, <2>3
  <2> QED
    BY <1>1, <2>1, <2>2, <2>4, <2>5
<1> HIDE DEF N
<1>5. ASSUME NEW i \in 1 .. N
      PROVE  /\ Part(i) \in Seq(OpId)
             /\ \A x : x \in Range(Part(i)) <=>
                   \E k \in 1 .. Len(s) : s[k] = x /\ (i - 1) * Most < k /\ k <= i * Most
  <2> DEFINE a == (i - 1) * Most
             b == i * Most
             e == End(i)
  <2>1. a \in Nat /\ b \in Nat /\ e = IF b < Len(s) THEN b ELSE Len(s)
    BY <1>4
  <2>2. e \in Nat /\ e <= Len(s)
    BY <1>1, <2>1
  <2> HIDE DEF a, b, e
  <2>3. Part(i) = SubSeq(s, a + 1, e)
    BY DEF a, e
  <2>4. \A k \in (a + 1) .. e : k \in 1 .. Len(s) /\ s[k] \in OpId
    <3>1. \A k \in (a + 1) .. e : k \in 1 .. Len(s)
      BY <1>1, <2>1, <2>2
    <3> QED
      BY <3>1
  <2>5. /\ SubSeq(s, a + 1, e) \in Seq(OpId)
        /\ Len(SubSeq(s, a + 1, e)) = IF a + 1 <= e THEN e - (a + 1) + 1 ELSE 0
        /\ \A n \in 1 .. e - (a + 1) + 1 : SubSeq(s, a + 1, e)[n] = s[a + 1 + n - 1]
    <3>1. a + 1 \in Int /\ e \in Int
      BY <2>1, <2>2
    <3>2. \A k \in (a + 1) .. e : s[k] \in OpId
      BY <2>4
    <3> QED
      BY <3>1, <3>2, SubSeqProperties
  <2>6. ASSUME NEW x, x \in Range(Part(i))
        PROVE  \E k \in 1 .. Len(s) : s[k] = x /\ a < k /\ k <= b
    <3>1. PICK n \in 1 .. Len(Part(i)) : Part(i)[n] = x
      <4>1. Part(i) \in Seq(OpId)
        BY <2>3, <2>5
      <4> HIDE DEF Part
      <4> QED
        BY <2>6, <4>1, InRange
    <3>2. a + 1 <= e /\ n \in 1 .. e - (a + 1) + 1
      <4> HIDE DEF Part
      <4> QED
        BY <2>1, <2>2, <2>3, <2>5, <3>1
    <3> DEFINE k == a + n
    <3>3. k \in (a + 1) .. e /\ a + 1 + n - 1 = k
      BY <2>1, <2>2, <3>2
    <3>4. s[k] = x
      BY <2>3, <2>5, <3>1, <3>2, <3>3
    <3>5. a < k /\ k <= b /\ k \in 1 .. Len(s)
      BY <1>1, <2>1, <2>2, <3>3
    <3> QED
      BY <3>4, <3>5
  <2>7. ASSUME NEW k \in 1 .. Len(s), a < k, k <= b
        PROVE  s[k] \in Range(Part(i))
    <3> DEFINE n == k - a
    <3>1. n \in 1 .. e - (a + 1) + 1 /\ a + 1 <= e /\ a + 1 + n - 1 = k
      BY <1>1, <2>1, <2>2, <2>7
    <3>2. n \in 1 .. Len(Part(i)) /\ Part(i)[n] = s[k]
      BY <2>3, <2>5, <3>1
    <3> QED
      BY <2>3, <2>5, <3>2, InRange
  <2> QED
    BY <2>3, <2>5, <2>6, <2>7 DEF a, b
<1>6. T \in Seq(Seq(OpId)) /\ Len(T) = N /\ (s # <<>> => T # <<>>) /\ \A i \in 1 .. N : T[i] = Part(i)
  <2> HIDE DEF Part, T
  <2>1. T \in [1 .. N -> Seq(OpId)] /\ \A i \in 1 .. N : T[i] = Part(i)
    BY <1>3, <1>5
  <2>2. T \in Seq(Seq(OpId)) /\ Len(T) = N
    BY <1>2, <2>1, IsASeq
  <2>3. s # <<>> => T # <<>>
    BY <1>2, <2>2
  <2> QED
    BY <2>1, <2>2, <2>3
<1>7. ASSUME NEW i \in 1 .. N, NEW o \in Range(T[i])
      PROVE  \E k \in 1 .. Len(s) : s[k] = o /\ \A m \in 1 .. k : \E j \in 1 .. i : s[m] \in Range(T[j])
  <2>1. o \in Range(Part(i))
    BY <1>6, <1>7
  <2>2. PICK k \in 1 .. Len(s) : s[k] = o /\ (i - 1) * Most < k /\ k <= i * Most
    BY <1>5, <2>1
  <2>3. ASSUME NEW m \in 1 .. k
        PROVE  \E j \in 1 .. i : s[m] \in Range(T[j])
    <3> DEFINE J == {j \in 1 .. i : m <= j * Most}
    <3>1. m \in Nat /\ 1 <= m /\ m <= k /\ m \in 1 .. Len(s) /\ i \in Nat /\ 1 <= i /\ i <= N
      BY <1>1, <1>2
    <3>2. \A j \in 1 .. i : j \in 1 .. N
      BY <1>2, <3>1
    <3>3. i \in J
      <4>1. i * Most \in Nat
        BY <1>4
      <4> DEFINE b == i * Most
      <4>2. m <= b
        <5> HIDE DEF b
        <5>1. b \in Nat /\ k <= b
          BY <2>2, <4>1 DEF b
        <5> QED
          BY <3>1, <5>1
      <4>3. i \in 1 .. i
        BY <3>1
      <4> QED
        BY <4>2, <4>3
    <3>4. PICK j \in J : \A l \in J : j <= l
      <4>1. J \in SUBSET Nat
        OBVIOUS
      <4> HIDE DEF J
      <4> QED
        BY <3>3, <4>1, LeastOfAll
    <3>5. j \in 1 .. i /\ j \in 1 .. N /\ m <= j * Most
      BY <3>2, <3>4
    <3>6. (j - 1) * Most < m
      <4>1. CASE j = 1
        <5>1. (j - 1) * Most = 0
          <6>1. j - 1 = 0
            BY <4>1
          <6>2. 0 * Most = 0
            BY <1>1
          <6> QED
            BY <6>1, <6>2
        <5> QED
          BY <3>1, <5>1
      <4>2. CASE j # 1
        <5>1. j - 1 \in 1 .. i /\ ~(j <= j - 1)
          BY <3>5, <4>2
        <5>2. j - 1 \notin J
          <6> HIDE DEF J
          <6> QED
            BY <3>4, <5>1
        <5>3. ~(m <= (j - 1) * Most)
          BY <5>1, <5>2
        <5>4. (j - 1) * Most \in Nat
          BY <1>4, <3>5
        <5> DEFINE c == (j - 1) * Most
        <5>5. c \in Nat /\ ~(m <= c)
          BY <5>3, <5>4
        <5> HIDE DEF c
        <5>6. c < m
          BY <3>1, <5>5
        <5> QED
          BY <5>6 DEF c
      <4> QED
        BY <4>1, <4>2
    <3>7. s[m] \in Range(Part(j))
      BY <1>5, <3>1, <3>5, <3>6
    <3> QED
      BY <1>6, <3>5, <3>7
  <2> QED
    BY <2>2, <2>3
<1> QED
  <2> HIDE DEF T
  <2>1. T \in Seq(Seq(OpId)) /\ (s # <<>> => T # <<>>)
    BY <1>6
  <2>2. \A i \in 1 .. Len(T) : \A o \in Range(T[i]) :
           \E k \in 1 .. Len(s) : s[k] = o /\ \A m \in 1 .. k : \E j \in 1 .. i : s[m] \in Range(T[j])
    BY <1>6, <1>7
  <2> QED
    BY <2>1, <2>2 DEF T

-----------------------------------------------------------------------------
(* What the steps share. *)

LEMMA InitInv == Init => IInv
<1> SUFFICES ASSUME Init PROVE IInv
  OBVIOUS
<1>1. \A x \in [Device -> Nat] : x = MaxOps => \A d \in Device : 0 <= x[d]
  OBVIOUS
<1>2. FieldsInv
  <2>1. \A d \in Device : Empty[d] = <<>> /\ None[d] = NoOp
    BY DEF Empty, None
  <2>2. /\ Empty \in [Device -> Seq(Operation)] /\ Empty \in [Device -> Seq(OpId)]
        /\ Empty \in [Device -> Seq(Seq(OpId))] /\ None \in [Device -> OpId \cup {NoOp}]
    BY DEF Empty, None
  <2>3. \A d \in Device : Len(op[d]) <= MaxOps[d]
    BY <1>1, <2>1, SyncClientAssumption DEF Init
  <2>4. mishaps \in 0 .. MaxMishaps
    BY SyncClientAssumption DEF Init
  <2> QED
    BY <2>2, <2>3, <2>4, SyncClientAssumption DEF Init, FieldsInv
<1>3. Made = {}
  <2>1. \A o \in OpId : o[1] \in Device /\ o[2] \in Nat /\ 1 <= o[2]
    BY OpIds, SyncClientAssumption
  <2>2. \A d \in Device : Len(op[d]) = 0
    BY DEF Init, Empty
  <2> QED
    BY <2>1, <2>2 DEF Made
<1>4. ASSUME NEW d \in Device
      PROVE  NamedBy(d) /\ QueueInv(d) /\ SendInv(d) /\ SettleInv(d)
  <2>1. /\ queued[d] = <<>> /\ outbox[d] = <<>> /\ settling[d] = <<>> /\ parts[d] = <<>>
        /\ refused[d] = NoOp /\ refusedNow[d] = NoOp /\ step[d] = "idle" /\ listed[d] = {}
    BY DEF Init, Empty, None
  <2>2. Range(<<>>) = {}
    BY DEF Range
  <2> QED
    BY <2>1, <2>2 DEF NamedBy, QueueInv, SendInv, SettleInv, Rising, Begins
<1>5. NamesInv
  BY <1>4 DEF NamesInv, Init
<1>6. KeptInv /\ LandInv
  BY <1>3 DEF KeptInv, LandInv
<1> QED
  BY <1>2, <1>4, <1>5, <1>6 DEF IInv

\* Entries come to be and are never changed, and a decision is final.
Onward ==
    /\ Made \subseteq Made' /\ \A o \in Made : Says(o)' = Says(o)
    /\ \A o \in OpId : receipt[o] # "none" => receipt'[o] = receipt[o] /\ landedAt'[o] = landedAt[o]
    /\ unwelcome' = unwelcome

\* Nothing of a device is touched.
Untouched(d) ==
    /\ queued'[d] = queued[d] /\ outbox'[d] = outbox[d] /\ settling'[d] = settling[d]
    /\ held'[d] = held[d] /\ step'[d] = step[d] /\ parts'[d] = parts[d]
    /\ refusedNow'[d] = refusedNow[d] /\ refused'[d] = refused[d] /\ listed'[d] = listed[d]

DeviceInv(d) == NamedBy(d) /\ QueueInv(d) /\ SendInv(d) /\ SettleInv(d)

LEMMA UntouchedKeeps ==
  ASSUME IInv, FieldsInv', Onward, NEW d \in Device, Untouched(d)
  PROVE  DeviceInv(d)'
<1>1. FieldsInv /\ NamedBy(d) /\ QueueInv(d) /\ SendInv(d) /\ SettleInv(d)
  BY DEF IInv, NamesInv
<1>2. MadeBy(d) \subseteq MadeBy(d)' /\ Made \subseteq Made'
  BY DEF Onward, MadeBy
<1>3. NamedBy(d)'
  BY <1>1, <1>2 DEF NamedBy, Untouched
<1>4. QueueInv(d)'
  BY <1>1 DEF QueueInv, Untouched
<1>5. SettleInv(d)'
  <2> SUFFICES ASSUME NEW o \in Range(settling[d])
               PROVE  receipt'[o] = "applied" /\ (step'[d] = "conflicts" => BroughtBack(o)')
    BY DEF SettleInv, Untouched
  <2>1. o \in Made /\ receipt[o] = "applied" /\ (step[d] = "conflicts" => BroughtBack(o))
    BY <1>1 DEF NamedBy, MadeBy, SettleInv
  <2>2. o \in OpId /\ o[1] = d
    BY <1>1, <2>1 DEF NamedBy, MadeBy, Made
  <2> QED
    BY <2>1, <2>2 DEF BroughtBack, Untouched, Onward
<1>6. SendInv(d)'
  <2>1. parts'[d] # <<>> => Range(Head(parts[d])) \subseteq OpId
    <3>1. parts[d] \in Seq(Seq(OpId))
      BY <1>1 DEF FieldsInv
    <3>2. parts[d] # <<>> => Head(parts[d]) = parts[d][1] /\ 1 \in 1 .. Len(parts[d])
      BY <3>1
    <3> QED
      BY <1>1, <3>2 DEF NamedBy, MadeBy, Made, Untouched
  <2>2. step'[d] = "pushed" /\ Range(Head(parts'[d])) \cap unwelcome' = {} =>
          \A o \in Range(Head(parts'[d])) : receipt'[o] # "none"
    BY <1>1, <2>1 DEF SendInv, Untouched, Onward
  <2>3. ASSUME NEW i \in 1 .. Len(parts'[d]), NEW o \in Range(parts'[d][i]), NEW p \in Made',
               MadeEarlier(p, o), Waits(p, d)'
        PROVE  \E j \in 1 .. i : p \in Range(parts'[d][j])
    <3>1. p \in Range(queued[d]) /\ p \in Made /\ p \in OpId
      BY <1>1, <2>3 DEF Waits, Untouched, NamedBy, MadeBy, Made
    <3>2. Waits(p, d)
      BY <2>3, <3>1 DEF Waits, Untouched, Onward
    <3> QED
      BY <1>1, <2>3, <3>1, <3>2 DEF SendInv, Untouched
  <2>4. step'[d] \in {"push", "pushed"} => parts'[d] # <<>>
    BY <1>1 DEF SendInv, Untouched
  <2> QED
    BY <2>2, <2>3, <2>4 DEF SendInv, MadeEarlier
<1> QED
  BY <1>3, <1>4, <1>5, <1>6 DEF DeviceInv

\* A step of one device.
LEMMA OneDevice ==
  ASSUME IInv, FieldsInv', Onward, NEW d \in Device, \A e \in Device \ {d} : Untouched(e),
         DeviceInv(d)', KeptInv', LandInv', discarded' \subseteq Made',
         \A o \in OpId : receipt'[o] # "none" => o \in Made'
  PROVE  IInv'
<1>1. \A e \in Device : DeviceInv(e)'
  BY UntouchedKeeps
<1> QED
  BY <1>1 DEF IInv, NamesInv, DeviceInv

\* A step of one device that the server has no part in and that makes nothing.
LEMMA OnTheDevice ==
  ASSUME IInv, FieldsInv', UNCHANGED <<serverVars, unwelcome, op>>,
         NEW d \in Device, \A e \in Device \ {d} : Untouched(e), DeviceInv(d)',
         discarded \subseteq discarded', discarded' \subseteq Made,
         \A o \in Range(queued[d]) :
            o \in Range(queued'[d]) \/ receipt[o] # "none" \/ o \in discarded'
  PROVE  IInv'
<1>1. Made' = Made /\ \A o : Says(o)' = Says(o)
  BY DEF Made, Says
<1>2. receipt' = receipt /\ landedAt' = landedAt /\ row' = row /\ unwelcome' = unwelcome
  BY DEF serverVars
<1>3. Onward
  BY <1>1, <1>2 DEF Onward
<1>4. LandInv'
  BY <1>1, <1>2 DEF IInv, LandInv
<1>5. KeptInv'
  <2> SUFFICES ASSUME NEW o \in Made
               PROVE  receipt[o] # "none" \/ o \in Range(queued'[o[1]]) \/ o \in discarded'
    BY <1>1, <1>2 DEF KeptInv
  <2>1. o[1] \in Device
    BY MadeSays DEF IInv
  <2>2. CASE o[1] = d
    BY <2>2 DEF IInv, KeptInv
  <2>3. CASE o[1] # d
    BY <2>1, <2>3 DEF IInv, KeptInv, Untouched
  <2> QED
    BY <2>2, <2>3
<1>6. \A o \in OpId : receipt'[o] # "none" => o \in Made'
  BY <1>1, <1>2 DEF IInv, NamesInv
<1> QED
  BY <1>1, <1>3, <1>4, <1>5, <1>6, OneDevice

-----------------------------------------------------------------------------
(* Each action keeps the invariant: what people do. *)

\* The operation a device makes next.
Coming(d) == <<d, Len(op[d]) + 1>>

IsDraft(wants) == DOMAIN wants \subseteq Field /\ \A f \in DOMAIN wants : wants[f] \in Value

\* An entry is one operation more, under the next number of its device.
LEMMA EnterMakes ==
  ASSUME FieldsInv, NEW d \in Device, NEW r \in Record, NEW kind \in {"create", "update", "delete"},
         NEW current \in ShownRows \cup {NoRow}, NEW wants, IsDraft(wants),
         Enter(d, r, kind, current, wants)
  PROVE  /\ op' \in [Device -> Seq(Operation)] /\ \A e \in Device : Len(op'[e]) <= MaxOps[e]
         /\ Coming(d) \in OpId /\ Coming(d) \notin Made /\ Made' = Made \cup {Coming(d)}
         /\ \A o \in Made : Says(o)' = Says(o)
         /\ queued' = [queued EXCEPT ![d] = Append(@, Coming(d))]
         /\ UNCHANGED <<serverVars, unwelcome, held, outbox, settling, exchangeVars, screen,
                        discarded, mishaps>>
<1> DEFINE Saw(f)  == IF current = NoRow THEN Null ELSE current.data[f]
           changes == {f \in DOMAIN wants : wants[f] # Saw(f)}
           entry   == [rec     |-> r,
                       kind    |-> kind,
                       base    |-> IF current = NoRow THEN NoVersion ELSE current.version,
                       patches |-> [f \in changes |-> [from |-> Saw(f), to |-> wants[f]]]]
           n == Len(op[d])
<1>1. /\ n < MaxOps[d] /\ op' = [op EXCEPT ![d] = Append(@, entry)]
      /\ queued' = [queued EXCEPT ![d] = Append(@, <<d, n + 1>>)]
      /\ UNCHANGED <<serverVars, unwelcome, held, outbox, settling, exchangeVars, screen,
                     discarded, mishaps>>
  BY DEF Enter
<1>2. entry \in Operation
  <2>1. \A f \in changes : f \in Field /\ Saw(f) \in Value /\ wants[f] \in Value
    <3>1. current # NoRow => current.data \in [Field -> Value]
      BY DEF ShownRows
    <3> QED
      BY <3>1, SyncClientAssumption DEF IsDraft
  <2>2. (IF current = NoRow THEN NoVersion ELSE current.version) \in Versions
    BY DEF ShownRows, Versions
  <2>3. [f \in changes |-> [from |-> Saw(f), to |-> wants[f]]] \in [changes -> [from : Value, to : Value]]
    <3> HIDE DEF changes, Saw
    <3> QED
      BY <2>1
  <2>4. changes \in SUBSET Field
    BY <2>1
  <2>5. [f \in changes |-> [from |-> Saw(f), to |-> wants[f]]]
          \in UNION {[fields -> [from : Value, to : Value]] : fields \in SUBSET Field}
    <3> DEFINE patches == [f \in changes |-> [from |-> Saw(f), to |-> wants[f]]]
    <3>1. patches \in [changes -> [from : Value, to : Value]]
      BY <2>3
    <3> HIDE DEF patches, changes
    <3>2. patches \in UNION {[fields -> [from : Value, to : Value]] : fields \in SUBSET Field}
      BY <2>4, <3>1
    <3> QED
      BY <3>2 DEF patches
  <2> HIDE DEF changes, Saw
  <2> QED
    BY <2>2, <2>5 DEF Operation
<1> HIDE DEF entry
<1>3. op[d] \in Seq(Operation) /\ n \in Nat /\ MaxOps[d] \in Nat
  BY SyncClientAssumption DEF FieldsInv
<1>4. /\ op' \in [Device -> Seq(Operation)] /\ op'[d] = Append(op[d], entry)
      /\ \A e \in Device \ {d} : op'[e] = op[e]
  <2>1. Append(op[d], entry) \in Seq(Operation)
    BY <1>2, <1>3
  <2> QED
    BY <1>1, <2>1 DEF FieldsInv
<1>5. Len(op'[d]) = n + 1 /\ \A m \in 1 .. n : op'[d][m] = op[d][m]
  BY <1>2, <1>3, <1>4
<1>6. \A e \in Device : Len(op'[e]) <= MaxOps[e]
  <2>1. n + 1 <= MaxOps[d]
    BY <1>1, <1>3
  <2> QED
    BY <1>4, <1>5, <2>1 DEF FieldsInv
<1>7. n + 1 \in 1 .. MaxOps[d]
  BY <1>1, <1>3
<1>8. Coming(d) \in OpId /\ Coming(d)[1] = d /\ Coming(d)[2] = n + 1
  BY <1>7, OpIds DEF Coming
<1>9. Coming(d) \notin Made
  BY <1>3, <1>8 DEF Made
<1>10. ASSUME NEW o \in OpId
       PROVE  (o[2] <= Len(op'[o[1]])) <=> (o[2] <= Len(op[o[1]]) \/ o = Coming(d))
  <2>1. o[1] \in Device /\ o[2] \in 1 .. MaxOps[o[1]] /\ o = <<o[1], o[2]>> /\ MaxOps[o[1]] \in Nat
    BY OpIds, SyncClientAssumption
  <2>2. CASE o[1] # d
    BY <1>4, <1>8, <2>1, <2>2
  <2>3. CASE o[1] = d
    <3>1. o = Coming(d) <=> o[2] = n + 1
      BY <1>8, <2>1, <2>3 DEF Coming
    <3>2. (o[2] <= n + 1) <=> (o[2] <= n \/ o[2] = n + 1)
      BY <1>3, <2>1
    <3> QED
      BY <1>5, <2>3, <3>1, <3>2
  <2> QED
    BY <2>2, <2>3
<1>11. Made' = Made \cup {Coming(d)}
  BY <1>8, <1>10 DEF Made
<1>12. ASSUME NEW o \in Made
       PROVE  Says(o)' = Says(o)
  <2>1. o[1] \in Device /\ o[2] \in 1 .. Len(op[o[1]])
    BY MadeSays
  <2>2. op'[o[1]][o[2]] = op[o[1]][o[2]]
    BY <1>4, <1>5, <2>1
  <2> QED
    BY <2>2 DEF Says
<1> QED
  BY <1>1, <1>4, <1>6, <1>8, <1>9, <1>11, <1>12 DEF Coming

\* The entry is the last of its queue.
LEMMA Enqueues ==
  ASSUME FieldsInv, NEW d \in Device, Coming(d) \in OpId,
         queued' = [queued EXCEPT ![d] = Append(@, Coming(d))]
  PROVE  /\ queued'[d] = Append(queued[d], Coming(d))
         /\ \A e \in Device \ {d} : queued'[e] = queued[e]
         /\ queued' \in [Device -> Seq(OpId)]
         /\ Len(queued'[d]) = Len(queued[d]) + 1
         /\ queued'[d][Len(queued[d]) + 1] = Coming(d)
         /\ \A i \in 1 .. Len(queued[d]) : queued'[d][i] = queued[d][i]
         /\ \A x : x \in Range(queued'[d]) <=> x \in Range(queued[d]) \/ x = Coming(d)
<1> DEFINE q == queued[d]
           k == Len(q)
<1>1. q \in Seq(OpId) /\ k \in Nat
  BY DEF FieldsInv
<1>2. /\ queued'[d] = Append(q, Coming(d)) /\ \A e \in Device \ {d} : queued'[e] = queued[e]
      /\ queued' \in [Device -> Seq(OpId)]
  <2>1. Append(q, Coming(d)) \in Seq(OpId)
    BY <1>1
  <2> QED
    BY <2>1 DEF FieldsInv
<1>3. /\ Len(queued'[d]) = k + 1 /\ queued'[d][k + 1] = Coming(d)
      /\ \A i \in 1 .. k : queued'[d][i] = q[i]
  BY <1>1, <1>2
<1>4. \A x : x \in Range(queued'[d]) <=> x \in Range(q) \/ x = Coming(d)
  <2>1. queued'[d] \in Seq(OpId)
    BY <1>2
  <2>2. \A x : x \in Range(queued'[d]) <=> \E i \in 1 .. k + 1 : queued'[d][i] = x
    <3>1. \A x : x \in Range(queued'[d]) <=> \E i \in 1 .. Len(queued'[d]) : queued'[d][i] = x
      BY <2>1, InRange
    <3> QED
      BY <1>3, <3>1
  <2>3. \A x : x \in Range(q) <=> \E i \in 1 .. k : q[i] = x
    BY <1>1, InRange
  <2>4. \A i \in 1 .. k + 1 : i = k + 1 \/ i \in 1 .. k
    BY <1>1
  <2>5. k + 1 \in 1 .. k + 1 /\ \A i \in 1 .. k : i \in 1 .. k + 1
    BY <1>1
  <2> HIDE DEF q, k
  <2> QED
    BY <1>3, <2>2, <2>3, <2>4, <2>5
<1> QED
  BY <1>2, <1>3, <1>4

LEMMA InvEnter ==
  ASSUME IInv, NEW d \in Device, NEW r \in Record, NEW kind \in {"create", "update", "delete"},
         NEW current \in ShownRows \cup {NoRow}, NEW wants, IsDraft(wants),
         Enter(d, r, kind, current, wants)
  PROVE  IInv'
<1>1. FieldsInv /\ NamesInv /\ KeptInv /\ LandInv /\ DeviceInv(d)
  BY DEF IInv, NamesInv, DeviceInv
<1>2. /\ op' \in [Device -> Seq(Operation)] /\ \A e \in Device : Len(op'[e]) <= MaxOps[e]
      /\ Coming(d) \in OpId /\ Coming(d) \notin Made /\ Made' = Made \cup {Coming(d)}
      /\ \A o \in Made : Says(o)' = Says(o)
      /\ queued' = [queued EXCEPT ![d] = Append(@, Coming(d))]
      /\ UNCHANGED <<serverVars, unwelcome, held, outbox, settling, exchangeVars, screen,
                     discarded, mishaps>>
  BY <1>1, EnterMakes
<1>3. /\ row' = row /\ receipt' = receipt /\ landedAt' = landedAt /\ unseen' = unseen
      /\ unwelcome' = unwelcome /\ held' = held /\ outbox' = outbox /\ settling' = settling
      /\ step' = step /\ parts' = parts /\ refusedNow' = refusedNow /\ wanted' = wanted
      /\ trouble' = trouble /\ refused' = refused /\ listed' = listed /\ discarded' = discarded
      /\ mishaps' = mishaps
  BY <1>2 DEF serverVars, exchangeVars, screen
<1>4. queued[d] \in Seq(OpId) /\ outbox[d] \in Seq(OpId) /\ op[d] \in Seq(Operation)
  BY <1>1 DEF FieldsInv
<1> DEFINE q == queued[d]
           k == Len(q)
<1>5. /\ queued'[d] = Append(q, Coming(d)) /\ \A e \in Device \ {d} : queued'[e] = queued[e]
      /\ queued' \in [Device -> Seq(OpId)]
      /\ Len(queued'[d]) = k + 1 /\ queued'[d][k + 1] = Coming(d) /\ k \in Nat
      /\ \A i \in 1 .. k : queued'[d][i] = q[i]
      /\ \A x : x \in Range(queued'[d]) <=> x \in Range(q) \/ x = Coming(d)
  <2>1. Coming(d) \in OpId /\ queued' = [queued EXCEPT ![d] = Append(@, Coming(d))]
    BY <1>2
  <2>2. k \in Nat
    BY <1>4
  <2> QED
    BY <1>1, <2>1, <2>2, Enqueues
<1>6. FieldsInv'
  BY <1>1, <1>2, <1>3, <1>5 DEF FieldsInv
<1>9. \A i \in 1 .. k : q[i] \in Made /\ q[i][1] = d /\ q[i][2] < Len(op[d]) + 1
  <2>1. \A i \in 1 .. k : q[i] \in Range(q)
    BY <1>4, InRange
  <2>2. \A o \in MadeBy(d) : o \in Made /\ o[1] = d /\ o[2] < Len(op[d]) + 1
    <3>1. \A o \in MadeBy(d) : o \in Made /\ o[1] = d
      BY DEF MadeBy
    <3>2. \A o \in MadeBy(d) : o[2] \in 1 .. Len(op[d])
      BY <1>1, <3>1, MadeSays
    <3>3. Len(op[d]) \in Nat
      BY <1>4
    <3> QED
      BY <3>1, <3>2, <3>3
  <2> QED
    BY <1>1, <2>1, <2>2 DEF DeviceInv, NamedBy
<1>10. Onward
  BY <1>2, <1>3 DEF Onward
<1>11. NamedBy(d)'
  <2>1. MadeBy(d) \subseteq MadeBy(d)' /\ Coming(d) \in MadeBy(d)'
    BY <1>2 DEF MadeBy, Coming
  <2>2. Range(queued'[d]) \subseteq MadeBy(d)'
    BY <1>1, <1>5, <2>1 DEF DeviceInv, NamedBy
  <2> QED
    BY <1>1, <1>2, <1>3, <2>1, <2>2 DEF DeviceInv, NamedBy
<1>12. QueueInv(d)'
  <2>1. Rising(queued'[d])
    <3> SUFFICES ASSUME NEW i \in 1 .. k + 1, NEW j \in 1 .. k + 1, i < j
                 PROVE  queued'[d][i][2] < queued'[d][j][2]
      BY <1>5 DEF Rising
    <3>1. i \in 1 .. k /\ (j \in 1 .. k \/ j = k + 1)
      BY <1>5
    <3>2. Rising(q)
      BY <1>1 DEF DeviceInv, QueueInv
    <3>3. Coming(d)[2] = Len(op[d]) + 1
      BY DEF Coming
    <3> HIDE DEF q, k
    <3>4. j \in 1 .. k => q[i][2] < q[j][2]
      BY <3>1, <3>2 DEF Rising, k
    <3> QED
      BY <1>5, <1>9, <3>1, <3>3, <3>4
  <2>2. Begins(outbox'[d], queued'[d])
    <3>1. Begins(outbox[d], q) /\ Len(outbox[d]) \in Nat
      BY <1>1, <1>4 DEF DeviceInv, QueueInv
    <3> QED
      BY <1>3, <1>5, <3>1 DEF Begins
  <2> QED
    BY <2>1, <2>2 DEF QueueInv
<1>13. SettleInv(d)'
  <2>1. \A o \in Range(settling[d]) : o \in Made /\ o[1] = d
    BY <1>1 DEF DeviceInv, NamedBy, MadeBy
  <2>2. \A o \in Range(settling[d]) : BroughtBack(o) => BroughtBack(o)'
    BY <1>2, <1>3, <2>1 DEF BroughtBack
  <2> QED
    BY <1>1, <1>3, <2>2 DEF DeviceInv, SettleInv
<1>14. SendInv(d)'
  <2>1. ASSUME NEW i \in 1 .. Len(parts[d]), NEW o \in Range(parts[d][i]), NEW p \in Made',
               MadeEarlier(p, o), Waits(p, d)'
        PROVE  \E j \in 1 .. i : p \in Range(parts[d][j])
    <3>1. o \in MadeBy(d)
      BY <1>1 DEF DeviceInv, NamedBy
    <3>2. o \in Made /\ o[1] = d /\ o[2] \in 1 .. Len(op[d])
      BY <1>1, <3>1, MadeSays DEF MadeBy
    <3>3. p # Coming(d)
      <4>1. Len(op[d]) \in Nat /\ Coming(d)[2] = Len(op[d]) + 1
        BY <1>4 DEF Coming
      <4> QED
        BY <2>1, <3>2, <4>1 DEF MadeEarlier
    <3>4. p \in Made /\ Waits(p, d)
      BY <1>2, <1>3, <1>5, <2>1, <3>3 DEF Waits
    <3> QED
      BY <1>1, <2>1, <3>4 DEF DeviceInv, SendInv
  <2> QED
    BY <1>1, <1>3, <2>1 DEF DeviceInv, SendInv, MadeEarlier
<1>15. KeptInv'
  <2> SUFFICES ASSUME NEW o \in Made'
               PROVE  receipt'[o] # "none" \/ o \in Range(queued'[o[1]]) \/ o \in discarded'
    BY DEF KeptInv
  <2>1. CASE o = Coming(d)
    BY <1>5, <2>1 DEF Coming
  <2>2. CASE o \in Made
    <3>1. o[1] \in Device
      BY <1>1, <2>2, MadeSays
    <3> QED
      BY <1>1, <1>3, <1>5, <2>2, <3>1 DEF KeptInv
  <2> QED
    BY <1>2, <2>1, <2>2
<1>16. LandInv'
  <2>1. receipt[Coming(d)] = "none"
    BY <1>1, <1>2 DEF NamesInv
  <2> QED
    BY <1>1, <1>2, <1>3, <2>1 DEF LandInv
<1>17. discarded' \subseteq Made' /\ \A o \in OpId : receipt'[o] # "none" => o \in Made'
  BY <1>1, <1>2, <1>3 DEF NamesInv
<1>18. \A e \in Device \ {d} : Untouched(e)
  BY <1>3, <1>5 DEF Untouched
<1>19. DeviceInv(d)'
  BY <1>11, <1>12, <1>13, <1>14 DEF DeviceInv
<1> QED
  BY <1>6, <1>10, <1>15, <1>16, <1>17, <1>18, <1>19, OneDevice

\* A create is laid over nothing, everything else over what the device shows.
LEMMA InvPeople ==
  ASSUME IInv, NEW d \in Device, NEW r \in Record, Create(d, r) \/ Update(d, r) \/ Delete(d, r)
  PROVE  IInv'
<1>1. Shown(d, r) \in ShownRows \cup {NoRow}
  BY ShowsRows DEF IInv
<1>2. \A wants \in Drafts : IsDraft(wants)
  BY DEF Drafts, IsDraft
<1>3. IsDraft(<<>>)
  BY DEF IsDraft
<1>4. CASE Create(d, r)
  BY <1>2, <1>4, InvEnter DEF Create
<1>5. CASE Update(d, r)
  BY <1>1, <1>2, <1>5, InvEnter DEF Update
<1>6. CASE Delete(d, r)
  BY <1>1, <1>3, <1>6, InvEnter DEF Delete
<1> QED
  BY <1>4, <1>5, <1>6

LEMMA NothingMade ==
  ASSUME UNCHANGED op
  PROVE  /\ Made' = Made /\ \A o : Says(o)' = Says(o) /\ \A d : MadeBy(d)' = MadeBy(d)
BY DEF Made, Says, MadeBy

\* What settles still does where the server and the pulled rows are the same.
LEMMA SettlesOn ==
  ASSUME IInv, UNCHANGED <<receipt, landedAt, op>>, NEW d \in Device, held'[d] = held[d],
         Range(settling'[d]) \subseteq Range(settling[d]),
         step'[d] = "conflicts" => step[d] = "conflicts"
  PROVE  SettleInv(d)'
<1> SUFFICES ASSUME NEW o \in Range(settling[d])
             PROVE  receipt[o] = "applied" /\ (step'[d] = "conflicts" => BroughtBack(o)')
  BY DEF SettleInv
<1>1. o[1] = d /\ receipt[o] = "applied" /\ (step[d] = "conflicts" => BroughtBack(o))
  BY DEF IInv, SettleInv, NamesInv, NamedBy, MadeBy
<1>2. BroughtBack(o) => BroughtBack(o)'
  BY <1>1, NothingMade DEF BroughtBack
<1> QED
  BY <1>1, <1>2

\* What is still sent is as far ahead of what waits as before.
LEMMA SendsOn ==
  ASSUME IInv, UNCHANGED <<receipt, unwelcome, op>>, NEW d \in Device,
         Range(queued'[d]) \subseteq Range(queued[d]), parts'[d] = parts[d], step'[d] = step[d]
  PROVE  SendInv(d)'
<1>1. SendInv(d) /\ Made' = Made
  BY NothingMade DEF IInv
<1>2. \A p : Waits(p, d)' => Waits(p, d)
  BY DEF Waits
<1> QED
  BY <1>1, <1>2 DEF SendInv, MadeEarlier

LEMMA SendsNothing ==
  ASSUME NEW d \in Device, parts'[d] = <<>>, step'[d] \notin {"push", "pushed"}
  PROVE  SendInv(d)'
BY DEF SendInv

LEMMA InvShowEntry ==
  ASSUME IInv, NEW d \in Device, ShowEntry(d)
  PROVE  IInv'
<1> DEFINE k == Len(outbox[d])
           next == queued[d][k + 1]
<1>1. /\ Len(queued[d]) > k /\ outbox' = [outbox EXCEPT ![d] = Append(@, next)]
      /\ wanted' = [wanted EXCEPT ![d] = TRUE]
      /\ UNCHANGED <<serverVars, unwelcome, op, held, queued, settling, step, parts, refusedNow,
                     refused, listed, trouble, discarded, mishaps>>
  BY DEF ShowEntry, screen
<1>2. /\ FieldsInv /\ NamesInv /\ QueueInv(d)
      /\ receipt' = receipt /\ landedAt' = landedAt /\ row' = row /\ unseen' = unseen
  BY <1>1 DEF IInv, serverVars
<1>3. outbox[d] \in Seq(OpId) /\ queued[d] \in Seq(OpId) /\ k \in Nat
  BY <1>2 DEF FieldsInv
<1>4. k + 1 \in 1 .. Len(queued[d]) /\ next \in OpId
  BY <1>1, <1>3
<1>5. /\ outbox'[d] = Append(outbox[d], next) /\ Append(outbox[d], next) \in Seq(OpId)
      /\ \A e \in Device \ {d} : outbox'[e] = outbox[e]
  BY <1>1, <1>2, <1>3, <1>4 DEF FieldsInv
<1>6. FieldsInv'
  <2>1. outbox' \in [Device -> Seq(OpId)] /\ wanted' \in [Device -> BOOLEAN]
    BY <1>1, <1>2, <1>5 DEF FieldsInv
  <2> QED
    BY <1>1, <1>2, <2>1 DEF FieldsInv
<1>7. Len(outbox'[d]) = k + 1 /\ outbox'[d][k + 1] = next /\ \A i \in 1 .. k : outbox'[d][i] = outbox[d][i]
  BY <1>3, <1>4, <1>5
<1>8. Begins(outbox'[d], queued[d])
  BY <1>1, <1>2, <1>3, <1>7 DEF QueueInv, Begins
<1>9. Range(outbox'[d]) \subseteq Range(queued[d])
  <2> SUFFICES ASSUME NEW x \in Range(outbox'[d]) PROVE x \in Range(queued[d])
    OBVIOUS
  <2>0. outbox'[d] \in Seq(OpId)
    BY <1>5
  <2>1. PICK i \in 1 .. Len(outbox'[d]) : outbox'[d][i] = x
    BY <2>0, InRange
  <2>2. i \in 1 .. Len(queued[d]) /\ queued[d][i] = x
    BY <1>3, <1>4, <1>7, <1>8, <2>1 DEF Begins
  <2> QED
    BY <1>3, <2>2, InRange
<1>10. DeviceInv(d)'
  <2>1. NamedBy(d)'
    BY <1>1, <1>2, <1>9, NothingMade DEF NamesInv, NamedBy
  <2>2. QueueInv(d)'
    BY <1>1, <1>2, <1>8 DEF QueueInv
  <2>3. SettleInv(d)' /\ SendInv(d)'
    BY <1>1, <1>2, SettlesOn, SendsOn
  <2> QED
    BY <2>1, <2>2, <2>3 DEF DeviceInv
<1>11. \A e \in Device \ {d} : Untouched(e)
  BY <1>1, <1>5 DEF Untouched
<1> QED
  BY <1>1, <1>2, <1>6, <1>10, <1>11, OnTheDevice DEF NamesInv

LEMMA InvAsk ==
  ASSUME IInv, NEW d \in Device, Ask(d)
  PROVE  IInv'
<1>1. /\ wanted' = [wanted EXCEPT ![d] = TRUE]
      /\ UNCHANGED <<serverVars, unwelcome, op, held, queued, outbox, settling, step, parts,
                     refusedNow, trouble, refused, listed, discarded, mishaps>>
  BY DEF Ask, layers, screen
<1>2. FieldsInv /\ NamesInv /\ QueueInv(d) /\ receipt' = receipt /\ landedAt' = landedAt
  BY <1>1 DEF IInv, serverVars
<1>3. FieldsInv'
  BY <1>1, <1>2 DEF FieldsInv, serverVars
<1>4. NamedBy(d)' /\ QueueInv(d)' /\ SettleInv(d)' /\ SendInv(d)'
  BY <1>1, <1>2, NothingMade, SettlesOn, SendsOn DEF NamesInv, NamedBy, QueueInv
<1> QED
  BY <1>1, <1>2, <1>3, <1>4, OnTheDevice DEF NamesInv, DeviceInv, Untouched

LEMMA InvDiscard ==
  ASSUME IInv, NEW d \in Device, Discard(d)
  PROVE  IInv'
<1> DEFINE going == {o \in Range(outbox[d]) :
                       \/ o = refused[d]
                       \/ Says(refused[d]).kind = "create" /\ Says(o).rec = Says(refused[d]).rec}
<1>1. /\ queued' = [queued EXCEPT ![d] = Without(@, going)]
      /\ outbox' = [outbox EXCEPT ![d] = Without(@, going)]
      /\ discarded' = discarded \cup going
      /\ refused' = [refused EXCEPT ![d] = NoOp] /\ wanted' = [wanted EXCEPT ![d] = TRUE]
      /\ UNCHANGED <<serverVars, unwelcome, op, held, settling, step, parts, refusedNow, trouble,
                     listed, mishaps>>
  BY DEF Discard
<1>2. going \subseteq Range(outbox[d])
  OBVIOUS
<1> HIDE DEF going
<1>3. /\ FieldsInv /\ NamesInv /\ QueueInv(d) /\ receipt' = receipt /\ landedAt' = landedAt
      /\ row' = row /\ unseen' = unseen /\ outbox[d] \in Seq(OpId) /\ queued[d] \in Seq(OpId)
  BY <1>1 DEF IInv, serverVars, FieldsInv
<1>4. /\ queued'[d] = Without(queued[d], going) /\ outbox'[d] = Without(outbox[d], going)
      /\ \A e \in Device \ {d} : queued'[e] = queued[e] /\ outbox'[e] = outbox[e]
  BY <1>1, <1>3 DEF FieldsInv
<1>5. /\ Without(queued[d], going) \in Seq(OpId) /\ Without(outbox[d], going) \in Seq(OpId)
      /\ Range(Without(queued[d], going)) = Range(queued[d]) \ going
      /\ Range(Without(outbox[d], going)) = Range(outbox[d]) \ going
      /\ Rising(queued[d]) => Rising(Without(queued[d], going))
  BY <1>3, WithoutKeeps
<1>6. Begins(Without(outbox[d], going), Without(queued[d], going))
  BY <1>3, WithoutBegins DEF QueueInv
<1>7. going \subseteq MadeBy(d) /\ going \subseteq Made /\ going \subseteq OpId
  BY <1>2, <1>3 DEF NamesInv, NamedBy, MadeBy, Made
<1>8. FieldsInv'
  <2>1. /\ queued' \in [Device -> Seq(OpId)] /\ outbox' \in [Device -> Seq(OpId)]
        /\ refused' \in [Device -> OpId \cup {NoOp}] /\ wanted' \in [Device -> BOOLEAN]
        /\ discarded' \subseteq OpId
    BY <1>1, <1>3, <1>5, <1>7 DEF FieldsInv
  <2> QED
    BY <1>1, <1>3, <2>1 DEF FieldsInv
<1>9. DeviceInv(d)'
  <2>1. NamedBy(d)'
    <3>1. refused'[d] = NoOp
      BY <1>1, <1>3 DEF FieldsInv
    <3>2. NamedBy(d) /\ Made' = Made /\ MadeBy(d)' = MadeBy(d)
      BY <1>1, <1>3, NothingMade DEF NamesInv
    <3>3. Range(queued'[d]) \subseteq MadeBy(d) /\ Range(outbox'[d]) \subseteq MadeBy(d)
      BY <1>4, <1>5, <3>2 DEF NamedBy
    <3> QED
      BY <1>1, <3>1, <3>2, <3>3 DEF NamedBy
  <2>2. QueueInv(d)'
    BY <1>3, <1>4, <1>5, <1>6 DEF QueueInv
  <2>3. SettleInv(d)' /\ SendInv(d)'
    BY <1>1, <1>3, <1>4, <1>5, SettlesOn, SendsOn
  <2> QED
    BY <2>1, <2>2, <2>3 DEF DeviceInv
<1>10. \A e \in Device \ {d} : Untouched(e)
  BY <1>1, <1>3, <1>4 DEF Untouched, FieldsInv
<1>11. discarded \subseteq discarded' /\ discarded' \subseteq Made
  BY <1>1, <1>3, <1>7 DEF NamesInv
<1>12. \A o \in Range(queued[d]) : o \in Range(queued'[d]) \/ o \in discarded'
  BY <1>1, <1>4, <1>5
<1> QED
  BY <1>1, <1>8, <1>9, <1>10, <1>11, <1>12, OnTheDevice

-----------------------------------------------------------------------------
(* The exchange. *)

\* What a transmission is, and what the rest of them are.
LEMMA NextPart ==
  ASSUME IInv, NEW d \in Device, step[d] \in {"push", "pushed"}
  PROVE  /\ parts[d] # <<>> /\ Len(parts[d]) \in Nat \ {0} /\ 1 \in 1 .. Len(parts[d])
         /\ Head(parts[d]) = parts[d][1] /\ Head(parts[d]) \in Seq(OpId)
         /\ Range(Head(parts[d])) \subseteq MadeBy(d)
         /\ Tail(parts[d]) \in Seq(Seq(OpId)) /\ Len(Tail(parts[d])) = Len(parts[d]) - 1
         /\ \A i \in 1 .. Len(Tail(parts[d])) : Tail(parts[d])[i] = parts[d][i + 1]
<1>1. parts[d] \in Seq(Seq(OpId)) /\ parts[d] # <<>> /\ NamedBy(d)
  BY DEF IInv, FieldsInv, SendInv, NamesInv
<1>2. Len(parts[d]) \in Nat \ {0} /\ 1 \in 1 .. Len(parts[d]) /\ Head(parts[d]) = parts[d][1]
  BY <1>1
<1>3. /\ Tail(parts[d]) \in Seq(Seq(OpId)) /\ Len(Tail(parts[d])) = Len(parts[d]) - 1
      /\ \A i \in 1 .. Len(Tail(parts[d])) : Tail(parts[d])[i] = parts[d][i + 1]
  BY <1>1, <1>2, HeadTailProperties
<1>4. parts[d][1] \in Seq(OpId)
  BY <1>1, <1>2
<1> QED
  BY <1>1, <1>2, <1>3, <1>4 DEF NamedBy

LEMMA Refuses ==
  ASSUME NEW part \in Seq(OpId)
  PROVE  /\ RefusedOf(part) = <<>> <=> Range(part) \cap unwelcome = {}
         /\ RefusedOf(part) # <<>> => Head(RefusedOf(part)) \in Range(part)
<1>1. RefusedOf(part) \in Seq(OpId) /\ Range(RefusedOf(part)) = Range(part) \cap unwelcome
  BY AmongKeeps DEF RefusedOf
<1>2. RefusedOf(part) # <<>> => Head(RefusedOf(part)) = RefusedOf(part)[1] /\ 1 \in 1 .. Len(RefusedOf(part))
  BY <1>1
<1>3. RefusedOf(part) = <<>> => Range(RefusedOf(part)) = {}
  BY DEF Range
<1>4. RefusedOf(part) # <<>> => RefusedOf(part)[1] \in Range(RefusedOf(part))
  BY <1>1, <1>2, InRange
<1> QED
  BY <1>1, <1>2, <1>3, <1>4

LEMMA InvBegin ==
  ASSUME IInv, NEW d \in Device, Begin(d)
  PROVE  IInv'
<1> DEFINE T == Transmissions(outbox[d])
<1>1. /\ parts' = [parts EXCEPT ![d] = T]
      /\ step' = [step EXCEPT ![d] = IF outbox[d] = <<>> THEN "pull" ELSE "push"]
      /\ wanted' = [wanted EXCEPT ![d] = FALSE] /\ trouble' = [trouble EXCEPT ![d] = FALSE]
      /\ step[d] = "idle"
      /\ UNCHANGED <<serverVars, unwelcome, op, held, queued, outbox, settling, refusedNow,
                     refused, listed, discarded, mishaps>>
  BY DEF Begin, layers, screen
<1>2. /\ FieldsInv /\ NamesInv /\ QueueInv(d) /\ receipt' = receipt /\ landedAt' = landedAt
      /\ row' = row /\ unseen' = unseen /\ outbox[d] \in Seq(OpId) /\ queued[d] \in Seq(OpId)
  BY <1>1 DEF IInv, serverVars, FieldsInv
<1>3. /\ T \in Seq(Seq(OpId)) /\ (outbox[d] # <<>> => T # <<>>)
      /\ \A i \in 1 .. Len(T) : \A o \in Range(T[i]) :
            \E k \in 1 .. Len(outbox[d]) : outbox[d][k] = o /\ \A m \in 1 .. k :
               \E j \in 1 .. i : outbox[d][m] \in Range(T[j])
  BY <1>2, Cut
<1> HIDE DEF T
<1>4. /\ parts'[d] = T /\ step'[d] = IF outbox[d] = <<>> THEN "pull" ELSE "push"
      /\ \A e \in Device \ {d} : parts'[e] = parts[e] /\ step'[e] = step[e]
      /\ parts' \in [Device -> Seq(Seq(OpId))] /\ wanted' \in [Device -> BOOLEAN]
      /\ trouble' \in [Device -> BOOLEAN]
      /\ step' \in [Device -> {"idle", "push", "pushed", "pull", "conflicts", "cut"}]
  BY <1>1, <1>2, <1>3 DEF FieldsInv
<1>5. FieldsInv'
  BY <1>1, <1>2, <1>4 DEF FieldsInv
<1>6. \A k \in 1 .. Len(outbox[d]) : k \in 1 .. Len(queued[d]) /\ outbox[d][k] = queued[d][k]
  <2>1. Len(queued[d]) \in Nat /\ Len(outbox[d]) \in Nat
    BY <1>2
  <2> QED
    BY <1>2, <2>1 DEF QueueInv, Begins
<1>7. \A i \in 1 .. Len(T) : Range(T[i]) \subseteq MadeBy(d)
  <2>1. \A k \in 1 .. Len(outbox[d]) : outbox[d][k] \in Range(outbox[d])
    BY <1>2, InRange
  <2>2. Range(outbox[d]) \subseteq MadeBy(d)
    BY <1>2 DEF NamesInv, NamedBy
  <2>3. ASSUME NEW i \in 1 .. Len(T), NEW o \in Range(T[i])
        PROVE  o \in MadeBy(d)
    <3>1. PICK k \in 1 .. Len(outbox[d]) : outbox[d][k] = o
      BY <1>3
    <3> QED
      BY <2>1, <2>2, <3>1
  <2> QED
    BY <2>3
<1>8. ASSUME NEW i \in 1 .. Len(T), NEW o \in Range(T[i]), NEW p \in Made,
             MadeEarlier(p, o), Waits(p, d)
      PROVE  \E j \in 1 .. i : p \in Range(T[j])
  <2>1. PICK k \in 1 .. Len(outbox[d]) :
           outbox[d][k] = o /\ \A m \in 1 .. k : \E j \in 1 .. i : outbox[d][m] \in Range(T[j])
    BY <1>3
  <2>2. PICK m \in 1 .. Len(queued[d]) : queued[d][m] = p
    BY <1>2, <1>8, InRange DEF Waits
  <2>3. k \in 1 .. Len(queued[d]) /\ queued[d][k] = o
    BY <1>6, <2>1
  <2>4. p[2] \in Nat /\ o[2] \in Nat /\ p[2] < o[2]
    <3>1. o \in Made
      BY <1>7 DEF MadeBy
    <3>2. p[2] \in 1 .. Len(op[p[1]]) /\ o[2] \in 1 .. Len(op[o[1]])
      BY <1>2, <3>1, MadeSays
    <3> QED
      BY <1>8, <3>2 DEF MadeEarlier
  <2>5. ~ k < m /\ k # m
    <3>1. k < m => queued[d][k][2] < queued[d][m][2]
      BY <1>2, <2>3 DEF QueueInv, Rising
    <3> QED
      BY <2>2, <2>3, <2>4, <3>1
  <2>6. m \in 1 .. k /\ m \in 1 .. Len(outbox[d])
    <3>1. k \in Nat /\ m \in Nat /\ 1 <= m /\ k <= Len(outbox[d]) /\ Len(outbox[d]) \in Nat
      BY <1>2
    <3> QED
      BY <2>5, <3>1
  <2>7. outbox[d][m] = p
    BY <1>6, <2>2, <2>6
  <2> QED
    BY <2>1, <2>6, <2>7
<1>9. DeviceInv(d)'
  <2>1. NamedBy(d)'
    <3>1. NamedBy(d) /\ Made' = Made /\ MadeBy(d)' = MadeBy(d)
      BY <1>1, <1>2, NothingMade DEF NamesInv
    <3>2. \A i \in 1 .. Len(parts'[d]) : Range(parts'[d][i]) \subseteq MadeBy(d)
      BY <1>4, <1>7
    <3> QED
      BY <1>1, <3>1, <3>2 DEF NamedBy
  <2>2. SendInv(d)'
    <3>1. \A p : Waits(p, d)' <=> Waits(p, d)
      BY <1>1, <1>2 DEF Waits
    <3>2. Made' = Made
      BY <1>1, NothingMade
    <3> QED
      BY <1>3, <1>4, <1>8, <3>1, <3>2 DEF SendInv, MadeEarlier
  <2>3. SettleInv(d)'
    BY <1>1, <1>2, <1>4, SettlesOn
  <2> QED
    BY <1>1, <1>2, <2>1, <2>2, <2>3 DEF DeviceInv, QueueInv
<1>10. \A e \in Device \ {d} : Untouched(e)
  BY <1>1, <1>4 DEF Untouched
<1> QED
  BY <1>1, <1>2, <1>5, <1>9, <1>10, OnTheDevice DEF NamesInv

\* The request decides what was not decided of its transmission; the rest of the
\* device stands as it stood.
LEMMA InvPush ==
  ASSUME IInv, NEW d \in Device, Push(d)
  PROVE  IInv'
<1> DEFINE part   == Head(parts[d])
           server == Transmitted(part)
<1>1. /\ step[d] = "push" /\ step' = [step EXCEPT ![d] = "pushed"]
      /\ UNCHANGED <<unwelcome, op, held, queued, outbox, settling, parts, refusedNow, wanted,
                     trouble, refused, listed, discarded, mishaps>>
      /\ \/ RefusedOf(part) # <<>> /\ UNCHANGED serverVars
         \/ /\ RefusedOf(part) = <<>> /\ row' = server.row /\ receipt' = server.receipt
            /\ landedAt' = server.landed /\ unseen' = server.unseen
  BY DEF Push, layers, screen
<1>2. FieldsInv /\ NamesInv /\ KeptInv /\ LandInv /\ NamedBy(d) /\ QueueInv(d) /\ SendInv(d) /\ SettleInv(d)
  BY DEF IInv, NamesInv
<1>3. /\ parts[d] # <<>> /\ part \in Seq(OpId) /\ Range(part) \subseteq MadeBy(d)
      /\ Range(part) \subseteq Made /\ Range(part) \subseteq OpId
  BY <1>1, NextPart DEF MadeBy, Made
<1>4. RefusedOf(part) = <<>> <=> Range(part) \cap unwelcome = {}
  BY <1>3, Refuses
<1> HIDE DEF part, server
<1>5. /\ step'[d] = "pushed" /\ \A e \in Device \ {d} : step'[e] = step[e]
      /\ step' \in [Device -> {"idle", "push", "pushed", "pull", "conflicts", "cut"}]
  BY <1>1, <1>2 DEF FieldsInv
<1>6. Made' = Made /\ (\A o : Says(o)' = Says(o)) /\ MadeBy(d)' = MadeBy(d)
  BY <1>1, NothingMade
<1>7. /\ row' \in [Record -> Rows \cup {NoRow}] /\ receipt' \in [OpId -> Reasons \cup {"none"}]
      /\ landedAt' \in [OpId -> Nat] /\ unseen' \subseteq OpId
      /\ \A o \in OpId : receipt[o] # "none" \/ o \notin Range(part) =>
            receipt'[o] = receipt[o] /\ landedAt'[o] = landedAt[o]
      /\ Range(part) \cap unwelcome = {} => \A o \in Range(part) : receipt'[o] # "none"
      /\ LandInv'
  <2>1. CASE RefusedOf(part) # <<>> /\ UNCHANGED serverVars
    <3>1. LandInv'
      BY <1>2, <1>6, <2>1 DEF LandInv, serverVars
    <3> QED
      BY <1>2, <1>4, <2>1, <3>1 DEF FieldsInv, serverVars
  <2>2. CASE /\ row' = server.row /\ receipt' = server.receipt
             /\ landedAt' = server.landed /\ unseen' = server.unseen
    <3>1. /\ server \in Servers /\ LandedIn(server)
          /\ \A o \in Range(part) : server.receipt[o] # "none"
          /\ \A o \in OpId : receipt[o] # "none" \/ o \notin Range(part) =>
                server.receipt[o] = receipt[o] /\ server.landed[o] = landedAt[o]
      BY <1>2, <1>3, Transmits DEF server
    <3>2. LandInv'
      BY <1>6, <2>2, <3>1 DEF LandInv, LandedIn
    <3> QED
      BY <2>2, <3>1, <3>2 DEF Servers
  <2> QED
    BY <1>1, <2>1, <2>2
<1>8. FieldsInv'
  BY <1>1, <1>2, <1>5, <1>7 DEF FieldsInv
<1>9. Onward
  BY <1>1, <1>6, <1>7 DEF Onward
<1>10. NamedBy(d)' /\ QueueInv(d)'
  BY <1>1, <1>2, <1>6 DEF NamedBy, QueueInv
<1>11. SettleInv(d)'
  <2>1. \A o \in Range(settling[d]) : o \in OpId
    BY <1>2 DEF NamedBy, MadeBy, Made
  <2>2. \A o \in Range(settling[d]) : receipt'[o] = "applied"
    BY <1>2, <1>7, <2>1 DEF SettleInv
  <2> QED
    BY <1>1, <1>5, <2>2 DEF SettleInv
<1>12. SendInv(d)'
  <2>1. \A p \in Made : Waits(p, d)' => Waits(p, d)
    BY <1>1, <1>7 DEF Waits, Made
  <2>2. \A i \in 1 .. Len(parts'[d]) : \A o \in Range(parts'[d][i]), p \in Made' :
           MadeEarlier(p, o)' /\ Waits(p, d)' => \E j \in 1 .. i : p \in Range(parts'[d][j])
    BY <1>1, <1>2, <1>6, <2>1 DEF SendInv, MadeEarlier
  <2>3. parts'[d] # <<>> /\ Head(parts'[d]) = part
    BY <1>1, <1>3 DEF part
  <2> QED
    BY <1>1, <1>7, <2>2, <2>3 DEF SendInv
<1>13. KeptInv'
  BY <1>1, <1>2, <1>6, <1>7 DEF KeptInv, Made
<1>14. discarded' \subseteq Made' /\ \A o \in OpId : receipt'[o] # "none" => o \in Made'
  BY <1>1, <1>2, <1>3, <1>6, <1>7 DEF NamesInv
<1>15. \A e \in Device \ {d} : Untouched(e)
  BY <1>1, <1>5 DEF Untouched
<1> QED
  BY <1>7, <1>8, <1>9, <1>10, <1>11, <1>12, <1>13, <1>14, <1>15, OneDevice DEF DeviceInv

\* What was decided leaves the outbox, and what landed of it settles.
LEMMA InvTakeReceipts ==
  ASSUME IInv, NEW d \in Device, TakeReceipts(d)
  PROVE  /\ IInv' /\ Range(outbox'[d]) = Range(outbox[d]) \ Range(Head(parts[d]))
         /\ \A o \in Range(Head(parts[d])) : receipt[o] # "none"
         /\ Range(settling'[d]) = Range(settling[d]) \cup
              {o \in Range(outbox[d]) : o \in Range(Head(parts[d])) /\ receipt[o] = "applied"}
         /\ Range(queued'[d]) = Range(queued[d]) \ Range(Head(parts[d]))
<1> DEFINE done    == Range(Head(parts[d]))
           applied == {o \in done : receipt[o] = "applied"}
           lands   == Among(outbox[d], applied)
<1>1. /\ step[d] = "pushed" /\ RefusedOf(Head(parts[d])) = <<>>
      /\ queued' = [queued EXCEPT ![d] = Without(@, done)]
      /\ outbox' = [outbox EXCEPT ![d] = Without(@, done)]
      /\ settling' = [settling EXCEPT ![d] = @ \o lands]
      /\ parts' = [parts EXCEPT ![d] = Tail(@)]
      /\ step' = [step EXCEPT ![d] = IF Len(parts[d]) = 1 THEN "pull" ELSE "push"]
      /\ UNCHANGED <<serverVars, unwelcome, op, held, refusedNow, wanted, trouble, refused, listed,
                     discarded, mishaps>>
  BY DEF TakeReceipts, screen
<1>2. /\ FieldsInv /\ NamesInv /\ NamedBy(d) /\ QueueInv(d) /\ SendInv(d) /\ SettleInv(d)
      /\ receipt' = receipt /\ landedAt' = landedAt /\ row' = row /\ unseen' = unseen
      /\ outbox[d] \in Seq(OpId) /\ queued[d] \in Seq(OpId) /\ settling[d] \in Seq(OpId)
  BY <1>1 DEF IInv, NamesInv, serverVars, FieldsInv
<1>3. /\ parts[d] # <<>> /\ Len(parts[d]) \in Nat \ {0} /\ Head(parts[d]) = parts[d][1]
      /\ Head(parts[d]) \in Seq(OpId) /\ done \subseteq MadeBy(d)
      /\ Tail(parts[d]) \in Seq(Seq(OpId)) /\ Len(Tail(parts[d])) = Len(parts[d]) - 1
      /\ \A i \in 1 .. Len(Tail(parts[d])) : Tail(parts[d])[i] = parts[d][i + 1]
  BY <1>1, NextPart
<1>4. \A o \in done : receipt[o] # "none"
  BY <1>1, <1>2, <1>3, Refuses DEF SendInv
<1>5. done = Range(parts[d][1]) /\ \A o \in applied : receipt[o] = "applied"
  BY <1>3
<1>6. Range(outbox[d]) \cap applied
        = {o \in Range(outbox[d]) : o \in Range(Head(parts[d])) /\ receipt[o] = "applied"}
  OBVIOUS
<1> HIDE DEF done, applied, lands
<1>7. /\ queued'[d] = Without(queued[d], done) /\ outbox'[d] = Without(outbox[d], done)
      /\ settling'[d] = settling[d] \o lands /\ parts'[d] = Tail(parts[d])
      /\ step'[d] = IF Len(parts[d]) = 1 THEN "pull" ELSE "push"
      /\ \A e \in Device \ {d} : /\ queued'[e] = queued[e] /\ outbox'[e] = outbox[e]
                                 /\ settling'[e] = settling[e] /\ parts'[e] = parts[e]
                                 /\ step'[e] = step[e]
  BY <1>1, <1>2 DEF FieldsInv
<1>8. /\ Without(queued[d], done) \in Seq(OpId) /\ Without(outbox[d], done) \in Seq(OpId)
      /\ Range(Without(queued[d], done)) = Range(queued[d]) \ done
      /\ Range(Without(outbox[d], done)) = Range(outbox[d]) \ done
      /\ Rising(queued[d]) => Rising(Without(queued[d], done))
      /\ lands \in Seq(OpId) /\ Range(lands) = Range(outbox[d]) \cap applied
  BY <1>2, WithoutKeeps, AmongKeeps DEF lands
<1>9. Begins(Without(outbox[d], done), Without(queued[d], done))
  BY <1>2, WithoutBegins DEF QueueInv
<1>10. settling'[d] \in Seq(OpId) /\ Range(settling'[d]) = Range(settling[d]) \cup Range(lands)
  BY <1>2, <1>7, <1>8, RangeConcatenation
<1>11. FieldsInv'
  <2>1. /\ queued' \in [Device -> Seq(OpId)] /\ outbox' \in [Device -> Seq(OpId)]
        /\ settling' \in [Device -> Seq(OpId)] /\ parts' \in [Device -> Seq(Seq(OpId))]
        /\ step' \in [Device -> {"idle", "push", "pushed", "pull", "conflicts", "cut"}]
    BY <1>1, <1>2, <1>3, <1>7, <1>8, <1>10 DEF FieldsInv
  <2> QED
    BY <1>1, <1>2, <2>1 DEF FieldsInv
<1>12. \A i \in 1 .. Len(parts'[d]) : i + 1 \in 1 .. Len(parts[d]) /\ parts'[d][i] = parts[d][i + 1]
  <2>1. parts'[d] = Tail(parts[d]) /\ Len(parts'[d]) = Len(parts[d]) - 1
    BY <1>3, <1>7
  <2>2. \A i \in 1 .. Len(parts[d]) - 1 : i + 1 \in 1 .. Len(parts[d])
    BY <1>3
  <2> QED
    BY <1>3, <2>1, <2>2
<1>13. Made' = Made /\ (\A o : Says(o)' = Says(o)) /\ MadeBy(d)' = MadeBy(d)
  BY <1>1, NothingMade
<1>14. NamedBy(d)'
  <2>1. \A i \in 1 .. Len(parts'[d]) : Range(parts'[d][i]) \subseteq MadeBy(d)
    BY <1>2, <1>12 DEF NamedBy
  <2>2. /\ Range(queued'[d]) \subseteq MadeBy(d) /\ Range(outbox'[d]) \subseteq MadeBy(d)
        /\ Range(settling'[d]) \subseteq MadeBy(d)
    BY <1>2, <1>7, <1>8, <1>10 DEF NamedBy
  <2> QED
    BY <1>1, <1>2, <1>13, <2>1, <2>2 DEF NamedBy
<1>15. QueueInv(d)'
  BY <1>2, <1>7, <1>8, <1>9 DEF QueueInv
<1>16. SettleInv(d)'
  <2>1. step'[d] # "conflicts" /\ \A o \in Range(settling'[d]) : receipt[o] = "applied"
    BY <1>2, <1>5, <1>7, <1>8, <1>10 DEF SettleInv
  <2> QED
    BY <1>2, <2>1 DEF SettleInv
<1>17. SendInv(d)'
  <2>1. step'[d] \in {"push", "pushed"} => parts'[d] # <<>>
    <3>1. Len(parts[d]) # 1 => Len(Tail(parts[d])) # 0
      BY <1>3
    <3>2. \A s : s = <<>> => Len(s) = 0
      OBVIOUS
    <3> QED
      BY <1>7, <3>1, <3>2
  <2>2. step'[d] # "pushed"
    BY <1>7
  <2>3. ASSUME NEW i \in 1 .. Len(parts'[d]), NEW o \in Range(parts'[d][i]), NEW p \in Made,
               MadeEarlier(p, o), Waits(p, d)'
        PROVE  \E j \in 1 .. i : p \in Range(parts'[d][j])
    <3>1. i + 1 \in 1 .. Len(parts[d]) /\ o \in Range(parts[d][i + 1])
      BY <1>12, <2>3
    <3>2. Waits(p, d) /\ p \notin done
      BY <1>2, <1>7, <1>8, <2>3 DEF Waits
    <3>3. PICK j \in 1 .. i + 1 : p \in Range(parts[d][j])
      BY <1>2, <2>3, <3>1, <3>2 DEF SendInv
    <3>4. j # 1
      BY <1>5, <3>2, <3>3
    <3>5. Len(parts'[d]) \in Nat
      BY <1>3, <1>7
    <3>6. j - 1 \in 1 .. i /\ j - 1 \in 1 .. Len(parts'[d]) /\ (j - 1) + 1 = j
      BY <3>4, <3>5
    <3>7. parts'[d][j - 1] = parts[d][j]
      BY <1>12, <3>6
    <3> QED
      BY <3>3, <3>6, <3>7
  <2> QED
    BY <1>13, <2>1, <2>2, <2>3 DEF SendInv, MadeEarlier
<1>18. \A e \in Device \ {d} : Untouched(e)
  BY <1>1, <1>7 DEF Untouched
<1>19. \A o \in Range(queued[d]) : o \in Range(queued'[d]) \/ receipt[o] # "none"
  BY <1>4, <1>7, <1>8
<1>20. IInv'
  BY <1>1, <1>2, <1>11, <1>14, <1>15, <1>16, <1>17, <1>18, <1>19, OnTheDevice DEF DeviceInv, NamesInv
<1>21. Range(settling'[d]) = Range(settling[d]) \cup (Range(outbox[d]) \cap applied)
  BY <1>8, <1>10
<1> QED
  BY <1>4, <1>6, <1>7, <1>8, <1>20, <1>21 DEF done

LEMMA InvTakeRefusal ==
  ASSUME IInv, NEW d \in Device, TakeRefusal(d)
  PROVE  IInv'
<1> DEFINE named == Head(RefusedOf(Head(parts[d])))
<1>1. /\ named \in Range(outbox[d]) /\ refusedNow' = [refusedNow EXCEPT ![d] = named]
      /\ parts' = [parts EXCEPT ![d] = <<>>] /\ step' = [step EXCEPT ![d] = "pull"]
      /\ step[d] = "pushed"
      /\ UNCHANGED <<serverVars, unwelcome, op, held, queued, outbox, settling, wanted, trouble,
                     refused, listed, discarded, mishaps>>
  BY DEF TakeRefusal, layers, screen
<1> HIDE DEF named
<1>2. /\ FieldsInv /\ NamesInv /\ NamedBy(d) /\ QueueInv(d)
      /\ receipt' = receipt /\ landedAt' = landedAt /\ row' = row /\ unseen' = unseen
  BY <1>1 DEF IInv, NamesInv, serverVars
<1>3. named \in Made /\ named \in OpId
  BY <1>1, <1>2 DEF NamedBy, MadeBy, Made
<1>4. /\ refusedNow'[d] = named /\ parts'[d] = <<>> /\ step'[d] = "pull"
      /\ \A e \in Device \ {d} : /\ refusedNow'[e] = refusedNow[e] /\ parts'[e] = parts[e]
                                 /\ step'[e] = step[e]
      /\ refusedNow' \in [Device -> OpId \cup {NoOp}] /\ parts' \in [Device -> Seq(Seq(OpId))]
      /\ step' \in [Device -> {"idle", "push", "pushed", "pull", "conflicts", "cut"}]
  BY <1>1, <1>2, <1>3 DEF FieldsInv
<1>5. FieldsInv'
  BY <1>1, <1>2, <1>4 DEF FieldsInv
<1>6. NamedBy(d)' /\ QueueInv(d)'
  <2>1. Made' = Made /\ MadeBy(d)' = MadeBy(d)
    BY <1>1, NothingMade
  <2>2. \A i \in 1 .. Len(parts'[d]) : Range(parts'[d][i]) \subseteq MadeBy(d)
    BY <1>4
  <2> QED
    BY <1>1, <1>2, <1>3, <1>4, <2>1, <2>2 DEF NamedBy, QueueInv
<1>7. SettleInv(d)' /\ SendInv(d)'
  BY <1>1, <1>2, <1>4, SettlesOn, SendsNothing
<1>8. \A e \in Device \ {d} : Untouched(e)
  BY <1>1, <1>4 DEF Untouched
<1> QED
  BY <1>1, <1>2, <1>5, <1>6, <1>7, <1>8, OnTheDevice DEF DeviceInv, NamesInv

\* An exchange that breaks off forgets what it was about; what settles is let go
\* of only where the rows were in.
LEMMA InvBreakOff ==
  ASSUME IInv, NEW d \in Device, BreakOff(d), mishaps' \in 0 .. MaxMishaps
  PROVE  IInv'
<1>1. /\ step' = [step EXCEPT ![d] = "idle"] /\ parts' = [parts EXCEPT ![d] = <<>>]
      /\ refusedNow' = [refusedNow EXCEPT ![d] = NoOp] /\ trouble' = [trouble EXCEPT ![d] = TRUE]
      /\ settling' = IF step[d] \in {"conflicts", "cut"} THEN [settling EXCEPT ![d] = <<>>] ELSE settling
      /\ UNCHANGED <<serverVars, unwelcome, op, held, queued, outbox, wanted, refused, listed,
                     discarded>>
  BY DEF BreakOff, screen
<1>2. /\ FieldsInv /\ NamesInv /\ NamedBy(d) /\ QueueInv(d)
      /\ receipt' = receipt /\ landedAt' = landedAt /\ row' = row /\ unseen' = unseen
  BY <1>1 DEF IInv, NamesInv, serverVars
<1>3. /\ refusedNow'[d] = NoOp /\ parts'[d] = <<>> /\ step'[d] = "idle"
      /\ settling'[d] = <<>> \/ settling'[d] = settling[d]
      /\ \A e \in Device \ {d} : /\ refusedNow'[e] = refusedNow[e] /\ parts'[e] = parts[e]
                                 /\ step'[e] = step[e] /\ settling'[e] = settling[e]
      /\ refusedNow' \in [Device -> OpId \cup {NoOp}] /\ parts' \in [Device -> Seq(Seq(OpId))]
      /\ step' \in [Device -> {"idle", "push", "pushed", "pull", "conflicts", "cut"}]
      /\ settling' \in [Device -> Seq(OpId)] /\ trouble' \in [Device -> BOOLEAN]
  BY <1>1, <1>2 DEF FieldsInv
<1>4. FieldsInv'
  BY <1>1, <1>2, <1>3 DEF FieldsInv
<1>5. Range(settling'[d]) \subseteq Range(settling[d])
  BY <1>3 DEF Range
<1>6. NamedBy(d)' /\ QueueInv(d)'
  <2>1. Made' = Made /\ MadeBy(d)' = MadeBy(d)
    BY <1>1, NothingMade
  <2>2. \A i \in 1 .. Len(parts'[d]) : Range(parts'[d][i]) \subseteq MadeBy(d)
    BY <1>3
  <2> QED
    BY <1>1, <1>2, <1>3, <1>5, <2>1, <2>2 DEF NamedBy, QueueInv
<1>7. SettleInv(d)' /\ SendInv(d)'
  BY <1>1, <1>2, <1>3, <1>5, SettlesOn, SendsNothing
<1>8. \A e \in Device \ {d} : Untouched(e)
  BY <1>1, <1>3 DEF Untouched
<1> QED
  BY <1>1, <1>2, <1>4, <1>6, <1>7, <1>8, OnTheDevice DEF DeviceInv, NamesInv

\* What a pull brings is as late as what landed before it.
LEMMA InvPull ==
  ASSUME IInv, NEW d \in Device, Pull(d)
  PROVE  IInv'
<1>1. /\ step[d] = "pull" /\ held' = [held EXCEPT ![d] = row]
      /\ step' = [step EXCEPT ![d] = "conflicts"]
      /\ UNCHANGED <<serverVars, unwelcome, op, queued, outbox, settling, parts, refusedNow,
                     wanted, trouble, refused, listed, discarded, mishaps>>
  BY DEF Pull, screen
<1>2. /\ FieldsInv /\ NamesInv /\ LandInv /\ NamedBy(d) /\ QueueInv(d) /\ SendInv(d) /\ SettleInv(d)
      /\ receipt' = receipt /\ landedAt' = landedAt /\ row' = row /\ unseen' = unseen
  BY <1>1 DEF IInv, NamesInv, serverVars
<1>3. /\ held'[d] = row /\ step'[d] = "conflicts"
      /\ \A e \in Device \ {d} : held'[e] = held[e] /\ step'[e] = step[e]
      /\ held' \in [Device -> [Record -> Rows \cup {NoRow}]]
      /\ step' \in [Device -> {"idle", "push", "pushed", "pull", "conflicts", "cut"}]
  BY <1>1, <1>2 DEF FieldsInv
<1>4. FieldsInv'
  BY <1>1, <1>2, <1>3 DEF FieldsInv
<1>5. Made' = Made /\ (\A o : Says(o)' = Says(o)) /\ MadeBy(d)' = MadeBy(d)
  BY <1>1, NothingMade
<1>6. NamedBy(d)' /\ QueueInv(d)'
  BY <1>1, <1>2, <1>5 DEF NamedBy, QueueInv
<1>7. SettleInv(d)'
  <2> SUFFICES ASSUME NEW o \in Range(settling[d])
               PROVE  receipt[o] = "applied" /\ BroughtBack(o)'
    BY <1>1, <1>2 DEF SettleInv
  <2>1. o \in Made /\ o[1] = d /\ receipt[o] = "applied"
    BY <1>2 DEF NamedBy, MadeBy, SettleInv
  <2>2. landedAt[o] # 0 /\ row[Says(o).rec] # NoRow /\ row[Says(o).rec].version >= landedAt[o]
    BY <1>2, <2>1 DEF LandInv
  <2> QED
    BY <1>2, <1>3, <1>5, <2>1, <2>2 DEF BroughtBack
<1>8. SendInv(d)'
  <2>1. \A p : Waits(p, d)' <=> Waits(p, d)
    BY <1>1, <1>2 DEF Waits
  <2> QED
    BY <1>1, <1>2, <1>3, <1>5, <2>1 DEF SendInv, MadeEarlier
<1>9. \A e \in Device \ {d} : Untouched(e)
  BY <1>1, <1>3 DEF Untouched
<1> QED
  BY <1>1, <1>2, <1>4, <1>6, <1>7, <1>8, <1>9, OnTheDevice DEF DeviceInv, NamesInv

\* A pull that stops early brings some of the rows; what settles is none the worse.
LEMMA InvPullPart ==
  ASSUME IInv, NEW d \in Device, PullPart(d)
  PROVE  IInv'
<1>1. PICK got \in SUBSET Record :
        held' = [held EXCEPT ![d] = [r \in Record |-> IF r \in got THEN row[r] ELSE held[d][r]]]
  BY DEF PullPart
<1>2. /\ step[d] = "pull" /\ step' = [step EXCEPT ![d] = "cut"]
      /\ mishaps < MaxMishaps /\ mishaps' = mishaps + 1
      /\ UNCHANGED <<serverVars, unwelcome, op, queued, outbox, settling, parts, refusedNow,
                     wanted, trouble, refused, listed, discarded>>
  BY DEF PullPart, screen
<1>3. /\ FieldsInv /\ NamesInv /\ NamedBy(d) /\ QueueInv(d) /\ SendInv(d) /\ SettleInv(d)
      /\ receipt' = receipt /\ landedAt' = landedAt /\ row' = row /\ unseen' = unseen
  BY <1>2 DEF IInv, NamesInv, serverVars
<1>4. mishaps' \in 0 .. MaxMishaps
  BY <1>2, <1>3, SyncClientAssumption DEF FieldsInv
<1>5. [r \in Record |-> IF r \in got THEN row[r] ELSE held[d][r]]
        \in [Record -> Rows \cup {NoRow}]
  BY <1>3 DEF FieldsInv
<1>6. /\ step'[d] = "cut"
      /\ \A e \in Device \ {d} : held'[e] = held[e] /\ step'[e] = step[e]
      /\ held' \in [Device -> [Record -> Rows \cup {NoRow}]]
      /\ step' \in [Device -> {"idle", "push", "pushed", "pull", "conflicts", "cut"}]
  BY <1>1, <1>2, <1>3, <1>5 DEF FieldsInv
<1>7. FieldsInv'
  BY <1>2, <1>3, <1>4, <1>6 DEF FieldsInv
<1>8. Made' = Made /\ (\A o : Says(o)' = Says(o)) /\ MadeBy(d)' = MadeBy(d)
  BY <1>2, NothingMade
<1>9. NamedBy(d)' /\ QueueInv(d)'
  BY <1>2, <1>3, <1>8 DEF NamedBy, QueueInv
<1>10. SettleInv(d)'
  BY <1>2, <1>3, <1>6 DEF SettleInv
<1>11. SendInv(d)'
  <2>1. \A p : Waits(p, d)' <=> Waits(p, d)
    BY <1>2, <1>3 DEF Waits
  <2> QED
    BY <1>2, <1>3, <1>6, <1>8, <2>1 DEF SendInv, MadeEarlier
<1>12. \A e \in Device \ {d} : Untouched(e)
  BY <1>2, <1>6 DEF Untouched
<1> QED
  BY <1>2, <1>3, <1>7, <1>9, <1>10, <1>11, <1>12, OnTheDevice DEF DeviceInv, NamesInv

LEMMA InvTakeConflicts ==
  ASSUME IInv, NEW d \in Device, TakeConflicts(d)
  PROVE  IInv'
<1> DEFINE theirs == {o \in OpId : o[1] = d /\ InConflict(o)}
<1>1. /\ step[d] \in {"conflicts", "cut"} /\ settling' = [settling EXCEPT ![d] = <<>>]
      /\ listed' = [listed EXCEPT ![d] = theirs]
      /\ refused' = [refused EXCEPT ![d] = refusedNow[d]]
      /\ refusedNow' = [refusedNow EXCEPT ![d] = NoOp] /\ step' = [step EXCEPT ![d] = "idle"]
      /\ UNCHANGED <<serverVars, unwelcome, op, held, queued, outbox, parts, wanted, trouble,
                     discarded, mishaps>>
  BY DEF TakeConflicts
<1>2. /\ FieldsInv /\ NamesInv /\ NamedBy(d) /\ QueueInv(d) /\ SendInv(d)
      /\ receipt' = receipt /\ landedAt' = landedAt /\ row' = row /\ unseen' = unseen
  BY <1>1 DEF IInv, NamesInv, serverVars
<1>3. theirs \subseteq OpId /\ theirs \subseteq Made
  BY <1>2 DEF NamesInv, InConflict
<1> HIDE DEF theirs
<1>4. /\ settling'[d] = <<>> /\ listed'[d] = theirs /\ refused'[d] = refusedNow[d]
      /\ refusedNow'[d] = NoOp /\ step'[d] = "idle"
      /\ \A e \in Device \ {d} : /\ settling'[e] = settling[e] /\ listed'[e] = listed[e]
                                 /\ refused'[e] = refused[e] /\ step'[e] = step[e]
                                 /\ refusedNow'[e] = refusedNow[e]
      /\ settling' \in [Device -> Seq(OpId)] /\ listed' \in [Device -> SUBSET OpId]
      /\ refused' \in [Device -> OpId \cup {NoOp}] /\ refusedNow' \in [Device -> OpId \cup {NoOp}]
      /\ step' \in [Device -> {"idle", "push", "pushed", "pull", "conflicts", "cut"}]
  BY <1>1, <1>2, <1>3 DEF FieldsInv
<1>5. FieldsInv'
  BY <1>1, <1>2, <1>4 DEF FieldsInv
<1>6. Made' = Made /\ MadeBy(d)' = MadeBy(d) /\ Range(settling'[d]) = {}
  <2>1. Range(settling'[d]) = {}
    BY <1>4 DEF Range
  <2> QED
    BY <1>1, <2>1, NothingMade
<1>7. NamedBy(d)' /\ QueueInv(d)'
  BY <1>1, <1>2, <1>3, <1>4, <1>6 DEF NamedBy, QueueInv
<1>8. SettleInv(d)'
  BY <1>6 DEF SettleInv
<1>9. SendInv(d)'
  <2>1. \A p : Waits(p, d)' <=> Waits(p, d)
    BY <1>1, <1>2 DEF Waits
  <2> QED
    BY <1>1, <1>2, <1>4, <1>6, <2>1 DEF SendInv, MadeEarlier
<1>10. \A e \in Device \ {d} : Untouched(e)
  BY <1>1, <1>4 DEF Untouched
<1> QED
  BY <1>1, <1>2, <1>5, <1>7, <1>8, <1>9, <1>10, OnTheDevice DEF DeviceInv, NamesInv

\* A page that opens again has its outbox from the store.
LEMMA InvRestart ==
  ASSUME IInv, NEW d \in Device, Restart(d)
  PROVE  IInv'
<1>1. /\ mishaps < MaxMishaps /\ mishaps' = mishaps + 1
      /\ outbox' = [outbox EXCEPT ![d] = queued[d]] /\ settling' = [settling EXCEPT ![d] = <<>>]
      /\ step' = [step EXCEPT ![d] = "idle"] /\ parts' = [parts EXCEPT ![d] = <<>>]
      /\ refusedNow' = [refusedNow EXCEPT ![d] = NoOp] /\ refused' = [refused EXCEPT ![d] = NoOp]
      /\ wanted' = [wanted EXCEPT ![d] = TRUE] /\ trouble' = [trouble EXCEPT ![d] = FALSE]
      /\ UNCHANGED <<serverVars, unwelcome, op, held, queued, listed, discarded>>
  BY DEF Restart
<1>2. /\ FieldsInv /\ NamesInv /\ NamedBy(d) /\ QueueInv(d)
      /\ receipt' = receipt /\ landedAt' = landedAt /\ row' = row /\ unseen' = unseen
  BY <1>1 DEF IInv, NamesInv, serverVars
<1>3. mishaps' \in 0 .. MaxMishaps
  BY <1>1, <1>2, SyncClientAssumption DEF FieldsInv
<1>4. /\ outbox'[d] = queued[d] /\ settling'[d] = <<>> /\ step'[d] = "idle" /\ parts'[d] = <<>>
      /\ refusedNow'[d] = NoOp /\ refused'[d] = NoOp
      /\ \A e \in Device \ {d} : /\ outbox'[e] = outbox[e] /\ settling'[e] = settling[e]
                                 /\ step'[e] = step[e] /\ parts'[e] = parts[e]
                                 /\ refusedNow'[e] = refusedNow[e] /\ refused'[e] = refused[e]
  BY <1>1, <1>2 DEF FieldsInv
<1>5. /\ outbox' \in [Device -> Seq(OpId)] /\ settling' \in [Device -> Seq(OpId)]
      /\ parts' \in [Device -> Seq(Seq(OpId))] /\ wanted' \in [Device -> BOOLEAN]
      /\ trouble' \in [Device -> BOOLEAN]
      /\ refused' \in [Device -> OpId \cup {NoOp}] /\ refusedNow' \in [Device -> OpId \cup {NoOp}]
      /\ step' \in [Device -> {"idle", "push", "pushed", "pull", "conflicts", "cut"}]
  BY <1>1, <1>2 DEF FieldsInv
<1>6. FieldsInv'
  BY <1>1, <1>2, <1>3, <1>5 DEF FieldsInv
<1>7. Made' = Made /\ MadeBy(d)' = MadeBy(d) /\ Range(settling'[d]) = {}
  BY <1>1, <1>4, NothingMade DEF Range
<1>8. NamedBy(d)'
  <2>1. \A i \in 1 .. Len(parts'[d]) : Range(parts'[d][i]) \subseteq MadeBy(d)
    BY <1>4
  <2> QED
    BY <1>1, <1>2, <1>4, <1>7, <2>1 DEF NamedBy
<1>9. QueueInv(d)'
  BY <1>1, <1>2, <1>4 DEF QueueInv, Begins
<1>10. SettleInv(d)' /\ SendInv(d)'
  BY <1>4, <1>7, SendsNothing DEF SettleInv
<1>11. \A e \in Device \ {d} : Untouched(e)
  BY <1>1, <1>4 DEF Untouched
<1> QED
  BY <1>1, <1>2, <1>6, <1>8, <1>9, <1>10, <1>11, OnTheDevice DEF DeviceInv, NamesInv

LEMMA InvStutter ==
  ASSUME IInv, UNCHANGED vars
  PROVE  IInv'
<1>1. /\ UNCHANGED <<row, receipt, landedAt, unseen, unwelcome, op, held, queued, outbox, settling,
                     step, parts, refusedNow, refused, wanted, trouble, listed, discarded, mishaps>>
  BY DEF vars, serverVars, layers, exchangeVars, screen
<1>2. FieldsInv'
  BY <1>1 DEF IInv, FieldsInv
<1>3. Made' = Made /\ \A o : Says(o)' = Says(o)
  BY <1>1, NothingMade
<1>4. Onward /\ \A d \in Device : Untouched(d)
  BY <1>1, <1>3 DEF Onward, Untouched
<1>5. \A d \in Device : DeviceInv(d)'
  BY <1>2, <1>4, UntouchedKeeps
<1>6. KeptInv' /\ LandInv'
  BY <1>1, <1>3 DEF IInv, KeptInv, LandInv
<1>7. discarded' \subseteq Made' /\ \A o \in OpId : receipt'[o] # "none" => o \in Made'
  BY <1>1, <1>3 DEF IInv, NamesInv
<1> QED
  BY <1>2, <1>5, <1>6, <1>7 DEF IInv, NamesInv, DeviceInv

LEMMA NextInv ==
  ASSUME IInv, [Next]_vars
  PROVE  IInv'
<1>1. ASSUME NEW d \in Device, NEW r \in Record, Create(d, r) \/ Update(d, r) \/ Delete(d, r)
      PROVE  IInv'
  BY <1>1, InvPeople
<1>2. ASSUME NEW d \in Device, ShowEntry(d) \/ Ask(d) \/ Discard(d) \/ Restart(d)
      PROVE  IInv'
  BY <1>2, InvShowEntry, InvAsk, InvDiscard, InvRestart
<1>3. ASSUME NEW d \in Device, RefusedWithoutName(d) \/ Fail(d)
      PROVE  IInv'
  <2>1. BreakOff(d)
    BY <1>3 DEF RefusedWithoutName, Fail
  <2>2. mishaps' \in 0 .. MaxMishaps
    BY <1>3, SyncClientAssumption DEF RefusedWithoutName, Fail, IInv, FieldsInv
  <2> QED
    BY <2>1, <2>2, InvBreakOff
<1>4. ASSUME NEW d \in Device, Exchange(d)
      PROVE  IInv'
  BY <1>3, <1>4, InvBegin, InvPush, InvTakeReceipts, InvTakeRefusal, InvPull, InvPullPart, InvTakeConflicts
     DEF Exchange
<1>5. CASE UNCHANGED vars
  BY <1>5, InvStutter
<1> QED
  BY <1>1, <1>2, <1>3, <1>4, <1>5 DEF Next, AtRest

LEMMA Invariant == Spec => []IInv
<1>1. Init => IInv
  BY InitInv
<1>2. IInv /\ [Next]_vars => IInv'
  BY NextInv
<1> QED
  BY <1>1, <1>2, PTL DEF Spec

\* Whatever is lost, refused, broken off or opened again, every queue names
\* operations its device made, and every field of the exchange is one the code
\* puts there (sync/client.ts).
THEOREM WellTyped == Spec => []TypeOK
<1>1. IInv => TypeOK
  <2> SUFFICES ASSUME IInv PROVE TypeOK
    OBVIOUS
  <2>1. \A o \in Made : Says(o).rec \in Record /\ Says(o).base \in Versions
    BY MadeSays DEF IInv
  <2>2. ASSUME NEW d \in Device
        PROVE  /\ Range(queued[d]) \cup Range(outbox[d]) \cup Range(settling[d]) \subseteq Made
               /\ listed[d] \subseteq Made
               /\ refused[d] \in Made \cup {NoOp} /\ refusedNow[d] \in Made \cup {NoOp}
    BY DEF IInv, NamesInv, NamedBy, MadeBy
  <2> QED
    BY <2>1, <2>2 DEF IInv, FieldsInv, TypeOK
<1> QED
  BY <1>1, Invariant, PTL

-----------------------------------------------------------------------------
(* What became of an operation. *)

Told == [o \in OpId |-> StatusOf(o)]

\* By the invariant nothing is lost, so what is told of an operation says where
\* it is.
LEMMA Statuses ==
  ASSUME IInv, NEW o \in OpId
  PROVE  /\ StatusOf(o) \in Promise!Status
         /\ StatusOf(o) = "none" <=> o \notin Made
         /\ StatusOf(o) = "waiting" <=> receipt[o] = "none" /\ o \in Range(queued[o[1]])
         /\ o \in Made /\ receipt[o] = "none" => StatusOf(o) \in {"waiting", "discarded"}
         /\ receipt[o] # "none" => StatusOf(o) = receipt[o] /\ receipt[o] \in Reasons
<1>1. receipt[o] \in Reasons \cup {"none"} /\ (receipt[o] # "none" => o \in Made)
  BY DEF IInv, FieldsInv, NamesInv
<1>2. o[1] \in Device /\ (o \in Range(queued[o[1]]) => o \in Made) /\ (o \in discarded => o \in Made)
  BY OpIds DEF IInv, NamesInv, NamedBy, MadeBy
<1>3. o \in Made => receipt[o] # "none" \/ o \in Range(queued[o[1]]) \/ o \in discarded
  BY DEF IInv, KeptInv
<1>4. \A x \in Reasons : x \notin {"none", "waiting", "discarded", "lost"}
  BY DEF Reasons
<1> QED
  BY <1>1, <1>2, <1>3, <1>4 DEF StatusOf, Promise!Status

LEMMA ToldAgain ==
  ASSUME NEW o, receipt'[o] = receipt[o],
         o \in Range(queued'[o[1]]) <=> o \in Range(queued[o[1]]),
         o \in discarded' <=> o \in discarded, o \in Made' <=> o \in Made
  PROVE  StatusOf(o)' = StatusOf(o)
BY DEF StatusOf

LEMMA EnterIsMake ==
  ASSUME IInv, NEW d \in Device, NEW r \in Record, NEW kind \in {"create", "update", "delete"},
         NEW current \in ShownRows \cup {NoRow}, NEW wants, IsDraft(wants),
         Enter(d, r, kind, current, wants)
  PROVE  \E o \in OpId : Promise!Make(o)
<1>0. /\ Coming(d) \in OpId /\ Coming(d) \notin Made /\ Made' = Made \cup {Coming(d)}
      /\ queued' = [queued EXCEPT ![d] = Append(@, Coming(d))]
      /\ UNCHANGED <<serverVars, discarded>>
  BY EnterMakes DEF IInv
<1>1. PICK o \in OpId : o = Coming(d)
  BY <1>0
<1>2. /\ \A e \in Device \ {d} : queued'[e] = queued[e]
      /\ \A x : x \in Range(queued'[d]) <=> x \in Range(queued[d]) \/ x = o
  BY <1>0, <1>1, Enqueues DEF IInv
<1>3. /\ receipt' = receipt /\ receipt[o] = "none" /\ o[1] = d /\ o[2] = Len(op[d]) + 1
      /\ discarded' = discarded /\ Made' = Made \cup {o} /\ o \notin Made
  BY <1>0, <1>1 DEF serverVars, IInv, NamesInv, Coming
<1>4. StatusOf(o)' = "waiting"
  BY <1>2, <1>3 DEF StatusOf
<1>5. ASSUME NEW p \in OpId \ {o}
      PROVE  StatusOf(p)' = StatusOf(p)
  <2>1. p[1] \in Device
    BY OpIds
  <2>2. p \in Range(queued'[p[1]]) <=> p \in Range(queued[p[1]])
    BY <1>2, <2>1
  <2> QED
    BY <1>3, <2>2, ToldAgain
<1>6. StatusOf(o) = "none"
  BY <1>3, Statuses
<1>7. ASSUME NEW p \in OpId, MadeEarlier(p, o)
      PROVE  StatusOf(p) # "none"
  <2>1. p[1] = d /\ p[2] < Len(op[d]) + 1 /\ p[2] \in Nat /\ Len(op[d]) \in Nat
    <3>1. p[2] \in 1 .. MaxOps[p[1]] /\ p[1] \in Device
      BY OpIds
    <3>2. MaxOps[p[1]] \in Nat
      BY <3>1, SyncClientAssumption
    <3>3. op[d] \in Seq(Operation)
      BY DEF IInv, FieldsInv
    <3> QED
      BY <1>3, <1>7, <3>1, <3>2, <3>3 DEF MadeEarlier
  <2>2. p \in Made
    BY <2>1 DEF Made
  <2> QED
    BY <2>2, Statuses
<1>8. Told' = [Told EXCEPT ![o] = "waiting"]
  BY <1>4, <1>5 DEF Told
<1>9. Promise!Make(o)
  BY <1>6, <1>7, <1>8 DEF Told, Promise!Make
<1> QED
  BY <1>9

\* A request decides what waits of its transmission, or nothing of it is new.
LEMMA PushDecides ==
  ASSUME IInv, NEW d \in Device, Push(d)
  PROVE  UNCHANGED Told \/ Promise!Decide
<1> DEFINE part == Head(parts[d])
<1>1. step[d] = "push" /\ UNCHANGED <<queued, op, discarded>>
  BY DEF Push, layers
<1>2. /\ part = parts[d][1] /\ part \in Seq(OpId) /\ Range(part) \subseteq MadeBy(d)
      /\ 1 \in 1 .. Len(parts[d])
  BY <1>1, NextPart
<1>3. FieldsInv /\ LandInv /\ SendInv(d) /\ Made' = Made
  BY <1>1, NothingMade DEF IInv
<1>4. Range(part) \subseteq Made /\ Range(part) \subseteq OpId /\ \A o \in Range(part) : o[1] = d
  BY <1>2 DEF MadeBy, Made
<1>5. CASE UNCHANGED serverVars
  <2>1. \A o \in OpId : StatusOf(o)' = StatusOf(o)
    BY <1>1, <1>3, <1>5, ToldAgain DEF serverVars
  <2> QED
    BY <2>1 DEF Told
<1>6. CASE receipt' = Transmitted(part).receipt
  <2>1. /\ \A o \in OpId : receipt'[o] \in Reasons \cup {"none"}
        /\ \A o \in Range(part) : receipt'[o] # "none"
        /\ \A o \in OpId : receipt[o] # "none" \/ o \notin Range(part) => receipt'[o] = receipt[o]
    BY <1>2, <1>3, <1>4, <1>6, Transmits DEF Servers
  <2> HIDE DEF part
  <2> DEFINE fresh == {o \in Range(part) : receipt[o] = "none"}
  <2>2. \A o \in OpId \ fresh : StatusOf(o)' = StatusOf(o)
    BY <1>1, <1>3, <2>1, ToldAgain
  <2>3. ASSUME NEW o \in fresh
        PROVE  /\ o \in OpId /\ StatusOf(o) \in {"waiting", "discarded"}
               /\ StatusOf(o)' \in Reasons /\ StatusOf(o)' # StatusOf(o)
    <3>1. o \in OpId /\ o \in Made /\ receipt'[o] \in Reasons /\ receipt'[o] # "none"
      BY <1>4, <2>1
    <3>2. StatusOf(o)' = receipt'[o]
      BY <3>1 DEF StatusOf
    <3>3. StatusOf(o) \in {"waiting", "discarded"}
      BY <3>1, Statuses
    <3> QED
      BY <3>1, <3>2, <3>3 DEF Reasons
  <2>4. \A o \in OpId : Told'[o] # Told[o] <=> o \in fresh
    BY <2>2, <2>3 DEF Told
  <2>5. ASSUME NEW o \in fresh, NEW p \in OpId, MadeEarlier(p, o), StatusOf(p) = "waiting"
        PROVE  p \in fresh
    <3>1. receipt[p] = "none" /\ p \in Range(queued[p[1]]) /\ p \in Made /\ p[1] = d
      <4>1. receipt[p] = "none" /\ p \in Range(queued[p[1]]) /\ p \in Made
        BY <2>5, Statuses
      <4> QED
        BY <1>4, <2>5, <4>1 DEF MadeEarlier
    <3>2. PICK j \in 1 .. 1 : p \in Range(parts[d][j])
      BY <1>2, <1>3, <2>5, <3>1 DEF SendInv, Waits
    <3> QED
      BY <1>2, <3>1, <3>2
  <2>6. \A o \in OpId : StatusOf(o)' \in Promise!Status
    <3>1. \A o \in fresh : StatusOf(o)' \in Promise!Status
      BY <2>3 DEF Promise!Status
    <3> QED
      BY <2>2, <3>1, Statuses
  <2> HIDE DEF fresh
  <2>7. Promise!Changing = fresh
    BY <2>3, <2>4 DEF Told, Promise!Changing
  <2> QED
    BY <2>3, <2>5, <2>6, <2>7 DEF Promise!Decide
<1> QED
  BY <1>5, <1>6 DEF Push

\* Letting go takes what waits, and what has its receipt keeps it.
LEMMA DiscardLetsGo ==
  ASSUME IInv, NEW d \in Device, Discard(d)
  PROVE  Promise!Discard
<1> DEFINE going == {o \in Range(outbox[d]) :
                       \/ o = refused[d]
                       \/ Says(refused[d]).kind = "create" /\ Says(o).rec = Says(refused[d]).rec}
<1>1. /\ queued' = [queued EXCEPT ![d] = Without(@, going)]
      /\ discarded' = discarded \cup going /\ UNCHANGED <<receipt, op>>
  BY DEF Discard, serverVars
<1>2. going \subseteq Range(outbox[d])
  OBVIOUS
<1> HIDE DEF going
<1>3. /\ outbox[d] \in Seq(OpId) /\ queued[d] \in Seq(OpId) /\ Begins(outbox[d], queued[d])
      /\ Range(outbox[d]) \subseteq MadeBy(d) /\ Made' = Made
  BY <1>1, NothingMade DEF IInv, FieldsInv, QueueInv, NamesInv, NamedBy
<1>4. going \subseteq Range(queued[d]) /\ going \subseteq OpId /\ \A o \in going : o[1] = d
  <2>1. ASSUME NEW o \in Range(outbox[d])
        PROVE  o \in Range(queued[d])
    <3>1. PICK i \in 1 .. Len(outbox[d]) : outbox[d][i] = o
      BY <1>3, InRange
    <3>2. i \in 1 .. Len(queued[d]) /\ queued[d][i] = o
      BY <1>3, <3>1 DEF Begins
    <3> QED
      BY <1>3, <3>2, InRange
  <2> QED
    BY <1>2, <1>3, <2>1 DEF MadeBy, Made
<1>5. /\ Range(queued'[d]) = Range(queued[d]) \ going
      /\ \A e \in Device \ {d} : queued'[e] = queued[e]
  <2>1. queued'[d] = Without(queued[d], going) /\ \A e \in Device \ {d} : queued'[e] = queued[e]
    BY <1>1 DEF IInv, FieldsInv
  <2>2. Range(Without(queued[d], going)) = Range(queued[d]) \ going
    BY <1>3, WithoutKeeps
  <2> QED
    BY <2>1, <2>2
<1>6. ASSUME NEW o \in OpId \ going
      PROVE  StatusOf(o)' = StatusOf(o)
  <2>1. o[1] \in Device
    BY OpIds
  <2>2. o \in Range(queued'[o[1]]) <=> o \in Range(queued[o[1]])
    BY <1>5, <2>1
  <2> QED
    BY <1>1, <1>3, <2>2, ToldAgain
<1>7. ASSUME NEW o \in going
      PROVE  \/ StatusOf(o)' = StatusOf(o)
             \/ StatusOf(o) = "waiting" /\ StatusOf(o)' = "discarded"
  <2>1. o \in OpId /\ o[1] = d /\ o \notin Range(queued'[d]) /\ o \in discarded'
    BY <1>1, <1>4, <1>5
  <2>2. CASE receipt[o] # "none"
    BY <1>1, <2>2 DEF StatusOf
  <2>3. CASE receipt[o] = "none"
    <3>1. StatusOf(o)' = "discarded"
      BY <1>1, <2>1, <2>3 DEF StatusOf
    <3>2. StatusOf(o) = "waiting"
      BY <1>4, <2>1, <2>3, Statuses
    <3> QED
      BY <3>1, <3>2
  <2> QED
    BY <2>2, <2>3
<1>8. \A o \in OpId : StatusOf(o)' \in Promise!Status
  <2>1. \A o \in OpId : StatusOf(o) \in Promise!Status /\ "discarded" \in Promise!Status
    BY Statuses DEF Promise!Status
  <2> QED
    BY <1>6, <1>7, <2>1
<1>9. \A o \in OpId : StatusOf(o)' # StatusOf(o) => StatusOf(o) = "waiting" /\ StatusOf(o)' = "discarded"
  BY <1>6, <1>7
<1> QED
  BY <1>8, <1>9 DEF Promise!Discard, Promise!Changing

\* Every other step leaves what is told of an operation: what leaves the outbox
\* for its receipt has it.
LEMMA NothingTold ==
  ASSUME IInv, NEW d \in Device, TakeReceipts(d)
  PROVE  UNCHANGED Told
<1>1. /\ queued' = [queued EXCEPT ![d] = Without(@, Range(Head(parts[d])))]
      /\ receipt' = receipt /\ discarded' = discarded /\ op' = op
  BY DEF TakeReceipts, serverVars
<1>2. /\ \A o \in Range(Head(parts[d])) : receipt[o] # "none"
      /\ Range(queued'[d]) = Range(queued[d]) \ Range(Head(parts[d]))
  BY InvTakeReceipts
<1>3. \A e \in Device \ {d} : queued'[e] = queued[e]
  BY <1>1 DEF IInv, FieldsInv
<1>4. ASSUME NEW o \in OpId
      PROVE  StatusOf(o)' = StatusOf(o)
  <2>1. CASE receipt[o] # "none"
    BY <1>1, <2>1 DEF StatusOf
  <2>2. CASE receipt[o] = "none"
    <3>1. o[1] \in Device
      BY OpIds
    <3>2. o \in Range(queued'[o[1]]) <=> o \in Range(queued[o[1]])
      BY <1>2, <1>3, <2>2, <3>1
    <3> QED
      BY <1>1, <3>2, NothingMade, ToldAgain
  <2> QED
    BY <2>1, <2>2
<1> QED
  BY <1>4 DEF Told

\* Each step is one of the promise, or tells nothing new.
LEMMA PromiseStep ==
  ASSUME IInv, [Next]_vars
  PROVE  [Promise!Next]_Told
<1>1. ASSUME NEW d \in Device, NEW r \in Record, Create(d, r) \/ Update(d, r) \/ Delete(d, r)
      PROVE  Promise!Next
  <2>1. Shown(d, r) \in ShownRows \cup {NoRow}
    BY ShowsRows DEF IInv
  <2>2. \A wants \in Drafts : IsDraft(wants)
    BY DEF Drafts, IsDraft
  <2>3. IsDraft(<<>>)
    BY DEF IsDraft
  <2>4. \E kind \in {"create", "update", "delete"}, current \in ShownRows \cup {NoRow} :
           \E wants : IsDraft(wants) /\ Enter(d, r, kind, current, wants)
    BY <1>1, <2>1, <2>2, <2>3 DEF Create, Update, Delete
  <2> QED
    BY <2>4, EnterIsMake DEF Promise!Next
<1>2. CASE UNCHANGED <<receipt, queued, discarded, op>>
  <2>1. \A o \in OpId : StatusOf(o)' = StatusOf(o)
    BY <1>2, NothingMade, ToldAgain
  <2> QED
    BY <2>1 DEF Told
<1>3. ASSUME NEW d \in Device, Discard(d)
      PROVE  Promise!Next
  BY <1>3, DiscardLetsGo DEF Promise!Next
<1>4. ASSUME NEW d \in Device, Push(d)
      PROVE  [Promise!Next]_Told
  BY <1>4, PushDecides DEF Promise!Next
<1>5. ASSUME NEW d \in Device,
             \/ ShowEntry(d) \/ Ask(d) \/ Begin(d) \/ TakeRefusal(d) \/ RefusedWithoutName(d)
             \/ Pull(d) \/ PullPart(d) \/ TakeConflicts(d) \/ Fail(d) \/ Restart(d)
      PROVE  UNCHANGED <<receipt, queued, discarded, op>>
  BY <1>5 DEF ShowEntry, Ask, Begin, TakeRefusal, RefusedWithoutName, BreakOff, Pull, PullPart,
              TakeConflicts, Fail, Restart, serverVars, layers
<1>6. ASSUME NEW d \in Device, Exchange(d)
      PROVE  [Promise!Next]_Told
  BY <1>2, <1>4, <1>5, <1>6, NothingTold DEF Exchange
<1>7. CASE UNCHANGED vars
  BY <1>2, <1>7 DEF vars, serverVars, layers
<1> QED
  BY <1>1, <1>2, <1>3, <1>5, <1>6, <1>7 DEF Next, AtRest

\* The offline layer as a whole: no request lost before or after the server
\* acted on it, no transmission sent twice, no refusal and no closed page loses
\* an entry, decides one twice, or decides one ahead of an earlier one of its
\* device that still waits (sync/client.ts with sync/apply.ts).
THEOREM EntriesAreKept == Spec => KeepsThePromise
<1>1. Init => Promise!Init
  <2> SUFFICES ASSUME Init PROVE Promise!Init
    OBVIOUS
  <2>1. Made = {}
    <3>1. \A o \in OpId : o[1] \in Device /\ o[2] \in Nat /\ 1 <= o[2]
      BY OpIds, SyncClientAssumption
    <3>2. \A d \in Device : Len(op[d]) = 0
      BY DEF Init, Empty
    <3> QED
      BY <3>1, <3>2 DEF Made
  <2>2. \A o \in OpId : StatusOf(o) = "none"
    BY <2>1, InitInv, Statuses
  <2> QED
    BY <2>2 DEF Promise!Init
<1>2. IInv /\ [Next]_vars => [Promise!Next]_Told
  BY PromiseStep
<1>3. Spec => [][Promise!Next]_Told
  BY <1>2, Invariant, PTL DEF Spec
<1> QED
  BY <1>1, <1>3, PTL DEF Spec, KeepsThePromise, Promise!Spec, Told

\* What leaves the screen: with its receipt it settles, and what settles goes
\* only with the rows in, or where the pull stopped early.
LEMMA LeavesTheScreen ==
  ASSUME IInv, [Next]_vars, NEW d \in Device, NEW o \in Laying(d) \ Laying(d)'
  PROVE  \/ BroughtBack(o)' \/ receipt[o] \notin {"none", "applied"}
         \/ o \in discarded' \/ Restart(d)
         \/ step[d] = "cut" /\ receipt[o] = "applied"
<1>1. o \in Range(settling[d]) \cup Range(outbox[d])
      /\ o \notin Range(settling'[d]) /\ o \notin Range(outbox'[d])
  BY DEF Laying
<1>2. CASE settling'[d] = settling[d] /\ outbox'[d] = outbox[d]
  BY <1>1, <1>2
<1>3. FieldsInv /\ SettleInv(d) /\ \A e \in Device : outbox[e] \in Seq(OpId) /\ queued[e] \in Seq(OpId)
  BY DEF IInv, FieldsInv
<1>4. CASE /\ step[d] \in {"conflicts", "cut"} /\ UNCHANGED <<held, landedAt, op>>
           /\ outbox'[d] = outbox[d]
  <2>1. o \in Range(settling[d])
    BY <1>1, <1>4
  <2>2. receipt[o] = "applied" /\ (step[d] = "conflicts" => BroughtBack(o))
    BY <1>3, <2>1 DEF SettleInv
  <2>3. BroughtBack(o) => BroughtBack(o)'
    BY <1>4, NothingMade DEF BroughtBack
  <2> QED
    BY <1>4, <2>2, <2>3
<1>5. ASSUME NEW e \in Device, NEW r \in Record, Create(e, r) \/ Update(e, r) \/ Delete(e, r)
      PROVE  settling'[d] = settling[d] /\ outbox'[d] = outbox[d]
  BY <1>5 DEF Create, Update, Delete, Enter
<1>6. ASSUME NEW e \in Device, e # d,
             ShowEntry(e) \/ Discard(e) \/ Exchange(e) \/ Fail(e) \/ Restart(e)
      PROVE  settling'[d] = settling[d] /\ outbox'[d] = outbox[d]
  BY <1>3, <1>6 DEF ShowEntry, Discard, Exchange, Begin, Push, TakeReceipts, TakeRefusal,
        RefusedWithoutName, BreakOff, Pull, PullPart, TakeConflicts, Fail, Restart, layers,
        FieldsInv
<1>7. CASE ShowEntry(d)
  <2> DEFINE next == queued[d][Len(outbox[d]) + 1]
  <2>1. Len(outbox[d]) + 1 \in 1 .. Len(queued[d]) /\ outbox' = [outbox EXCEPT ![d] = Append(@, next)]
        /\ settling' = settling
    BY <1>3, <1>7 DEF ShowEntry
  <2>2. next \in OpId
    BY <1>3, <2>1
  <2>3. outbox'[d] = Append(outbox[d], next)
    BY <1>3, <2>1 DEF FieldsInv
  <2> HIDE DEF next
  <2>4. outbox'[d] \in Seq(OpId) /\ Len(outbox[d]) \in Nat /\ Len(outbox'[d]) = Len(outbox[d]) + 1
        /\ \A i \in 1 .. Len(outbox[d]) : i \in 1 .. Len(outbox'[d]) /\ outbox'[d][i] = outbox[d][i]
    BY <1>3, <2>2, <2>3
  <2>5. o \in Range(outbox[d])
    BY <1>1, <2>1
  <2>6. PICK i \in 1 .. Len(outbox[d]) : outbox[d][i] = o
    BY <1>3, <2>5, InRange
  <2>7. o \in Range(outbox'[d])
    BY <2>4, <2>6, InRange
  <2> QED
    BY <1>1, <2>7
<1>8. CASE Discard(d)
  <2> DEFINE going == {p \in Range(outbox[d]) :
                         \/ p = refused[d]
                         \/ Says(refused[d]).kind = "create" /\ Says(p).rec = Says(refused[d]).rec}
  <2>1. /\ outbox' = [outbox EXCEPT ![d] = Without(@, going)] /\ discarded' = discarded \cup going
        /\ settling' = settling
    BY <1>8 DEF Discard
  <2> HIDE DEF going
  <2>2. Range(outbox'[d]) = Range(outbox[d]) \ going
    <3>1. outbox'[d] = Without(outbox[d], going)
      BY <1>3, <2>1 DEF FieldsInv
    <3> QED
      BY <1>3, <3>1, WithoutKeeps
  <2> QED
    BY <1>1, <2>1, <2>2
<1>9. CASE TakeReceipts(d)
  <2>1. /\ Range(outbox'[d]) = Range(outbox[d]) \ Range(Head(parts[d]))
        /\ \A p \in Range(Head(parts[d])) : receipt[p] # "none"
        /\ Range(settling'[d]) = Range(settling[d]) \cup
             {p \in Range(outbox[d]) : p \in Range(Head(parts[d])) /\ receipt[p] = "applied"}
    BY <1>9, InvTakeReceipts
  <2> QED
    BY <1>1, <2>1
<1>10. CASE TakeConflicts(d)
  <2>1. step[d] \in {"conflicts", "cut"} /\ UNCHANGED <<held, landedAt, op, outbox>>
    BY <1>10 DEF TakeConflicts, serverVars
  <2> QED
    BY <1>4, <2>1
<1>11. CASE RefusedWithoutName(d) \/ Fail(d)
  <2>1. BreakOff(d)
    BY <1>11 DEF RefusedWithoutName, Fail
  <2>2. /\ UNCHANGED <<held, landedAt, op, outbox>>
        /\ step[d] \notin {"conflicts", "cut"} => settling' = settling
    BY <2>1 DEF BreakOff, serverVars
  <2> QED
    BY <1>2, <1>4, <2>2
<1>12. CASE Begin(d) \/ Push(d) \/ TakeRefusal(d) \/ Pull(d) \/ PullPart(d)
  BY <1>2, <1>12 DEF Begin, Push, TakeRefusal, Pull, PullPart, layers
<1>13. CASE UNCHANGED vars \/ \E e \in Device : Ask(e)
  BY <1>2, <1>13 DEF vars, layers, Ask
<1> QED
  BY <1>2, <1>5, <1>6, <1>7, <1>8, <1>9, <1>10, <1>11, <1>12, <1>13 DEF Next, AtRest, Exchange

\* What somebody entered stays on the screen until the row that carries it is
\* there: only a refusal, letting go of it or a closed page take it away before,
\* and, with its receipt, the end of an exchange whose pull stopped early
\* (pushPart, pullChanges and exchange, sync/client.ts).
THEOREM NothingFlickers == Spec => StaysOnScreen
<1>1. IInv /\ [Next]_vars =>
        [\A d \in Device : \A o \in Laying(d) \ Laying(d)' :
            \/ BroughtBack(o)' \/ receipt[o] \notin {"none", "applied"}
            \/ o \in discarded' \/ Restart(d)
            \/ step[d] = "cut" /\ receipt[o] = "applied"]_vars
  BY LeavesTheScreen
<1> QED
  BY <1>1, Invariant, PTL DEF Spec, StaysOnScreen
=============================================================================

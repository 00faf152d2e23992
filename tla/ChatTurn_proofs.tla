--------------------------- MODULE ChatTurn_proofs ---------------------------
(***************************************************************************)
(* Proofs about ChatTurn for every set of turns, chat sessions, guests and *)
(* orders, every workload and every bound.                                 *)
(*                                                                         *)
(* A turn is a long conversation of statements, and what it read at one of *)
(* them it uses at a later one.  The invariants say what of it still holds *)
(* then: the session of a turn is there and its own, a selection is never  *)
(* taken back, an order that a result names stays in the ledger and, while *)
(* nothing fails, the marker of the session tells that there is one.  The  *)
(* list that goes to the model keeps its shape however often it is cut.    *)
(***************************************************************************)
EXTENDS ChatTurn, FiniteSetTheorems, TLAPS

-----------------------------------------------------------------------------
(* The messages of a request: what trimming keeps of the list. *)

LEMMA Ranks ==
    ASSUME NEW n \in Nat, NEW K \in SUBSET (1 .. n)
    PROVE  /\ Cardinality(K) \in Nat
           /\ \A i \in K : Rank(K, i) \in 1 .. Cardinality(K)
           /\ \A i, j \in K : i < j => Rank(K, i) < Rank(K, j)
           /\ \A k \in 1 .. Cardinality(K) : \E i \in K : Rank(K, i) = k
<1>1. IsFiniteSet(K) /\ Cardinality(K) \in Nat
  <2>1. IsFiniteSet(1 .. n)
    BY FS_Interval
  <2> QED
    BY <2>1, FS_Subset, FS_CardinalityType
<1>i. \A i \in K : i \in Int /\ i \in 1 .. n
  OBVIOUS
<1>2. \A i \in K : {j \in K : j <= i} \in SUBSET K /\ i \in {j \in K : j <= i}
  OBVIOUS
<1>3. \A i \in K : Rank(K, i) \in 1 .. Cardinality(K)
  <2> SUFFICES ASSUME NEW i \in K PROVE Rank(K, i) \in 1 .. Cardinality(K)
    OBVIOUS
  <2> DEFINE S == {j \in K : j <= i}
  <2>1. IsFiniteSet(S) /\ Cardinality(S) \in Nat /\ Cardinality(S) <= Cardinality(K) /\ S # {}
    BY <1>1, <1>2, FS_Subset, FS_CardinalityType
  <2>2. Cardinality(S) # 0
    BY <2>1, FS_EmptySet
  <2> QED
    BY <1>1, <2>1, <2>2 DEF Rank
<1>4. \A i, j \in K : i < j => Rank(K, i) < Rank(K, j)
  <2> SUFFICES ASSUME NEW i \in K, NEW j \in K, i < j PROVE Rank(K, i) < Rank(K, j)
    OBVIOUS
  <2> DEFINE S == {m \in K : m <= i}
             T == {m \in K : m <= j}
  <2>1. (\A m \in K : m <= i => m <= j) /\ j <= j /\ ~(j <= i)
    BY <1>i
  <2>2. S \in SUBSET T /\ j \in T /\ j \notin S
    BY <2>1
  <2>3. IsFiniteSet(T)
    BY <1>1, <1>2, FS_Subset
  <2>4. Cardinality(S) <= Cardinality(T) /\ Cardinality(S) # Cardinality(T)
    BY <2>2, <2>3, FS_Subset
  <2>5. Rank(K, i) = Cardinality(S) /\ Rank(K, j) = Cardinality(T)
    BY DEF Rank
  <2> QED
    BY <1>3, <2>4, <2>5
<1>5. \A k \in 1 .. Cardinality(K) : \E i \in K : Rank(K, i) = k
  <2> DEFINE f == [i \in K |-> Rank(K, i)]
             T == 1 .. Cardinality(K)
  <2>1. f \in [K -> T]
    BY <1>3
  <2>2. \A i, j \in K : f[i] = f[j] => i = j
    BY <1>3, <1>4
  <2>3. f \in Injection(K, T)
    BY <2>1, <2>2 DEF Injection, IsInjective
  <2>4. IsFiniteSet(T) /\ Cardinality(T) = Cardinality(K)
    BY <1>1, FS_Interval
  <2>5. f \in Surjection(K, T)
    BY <2>3, <2>4, FS_Injection
  <2> QED
    BY <2>5 DEF Surjection
<1> QED
  BY <1>1, <1>3, <1>4, <1>5

LEMMA Places ==
    ASSUME NEW n \in Nat, NEW K \in SUBSET (1 .. n)
    PROVE  /\ \A k \in 1 .. Cardinality(K) : Place(K, k) \in K /\ Rank(K, Place(K, k)) = k
           /\ \A i \in K : Place(K, Rank(K, i)) = i
           /\ \A k, m \in 1 .. Cardinality(K) : k < m => Place(K, k) < Place(K, m)
<1>1. \A k \in 1 .. Cardinality(K) : Place(K, k) \in K /\ Rank(K, Place(K, k)) = k
  BY Ranks DEF Place
<1>i. \A i \in K : i \in Int /\ i \in 1 .. n
  OBVIOUS
<1>0. /\ Cardinality(K) \in Nat /\ \A i \in K : Rank(K, i) \in 1 .. Cardinality(K)
      /\ \A i, j \in K : i < j => Rank(K, i) < Rank(K, j)
  BY Ranks
<1>2. \A i \in K : Place(K, Rank(K, i)) = i
  <2> SUFFICES ASSUME NEW i \in K PROVE Place(K, Rank(K, i)) = i
    OBVIOUS
  <2> DEFINE p == Place(K, Rank(K, i))
  <2>1. Rank(K, i) \in 1 .. Cardinality(K) /\ Rank(K, i) \in Int
    BY <1>0
  <2>2. p \in K /\ Rank(K, p) = Rank(K, i)
    BY <1>1, <2>1
  <2> HIDE DEF p
  <2>3. ~(p < i) /\ ~(i < p)
    BY <1>0, <2>1, <2>2
  <2>4. p \in Int /\ i \in Int
    BY <2>2, <1>i
  <2>5. p = i
    BY <2>3, <2>4
  <2> QED
    BY <2>5 DEF p
<1>3. \A k, m \in 1 .. Cardinality(K) : k < m => Place(K, k) < Place(K, m)
  <2> SUFFICES ASSUME NEW k \in 1 .. Cardinality(K), NEW m \in 1 .. Cardinality(K), k < m
               PROVE  Place(K, k) < Place(K, m)
    OBVIOUS
  <2> DEFINE p == Place(K, k)
             q == Place(K, m)
  <2>1. p \in K /\ q \in K /\ Rank(K, p) = k /\ Rank(K, q) = m
    BY <1>1
  <2> HIDE DEF p, q
  <2>a. p \in Int /\ q \in Int
    BY <2>1, <1>i
  <2>b. k \in Int /\ m \in Int
    BY <1>0
  <2>2. k \in Int /\ m \in Int /\ p \in Int /\ q \in Int
    BY <2>a, <2>b
  <2>3. ~(q < p) /\ q # p
    BY <1>0, <2>1, <2>2
  <2>4. p < q
    BY <2>2, <2>3
  <2> QED
    BY <2>4 DEF p, q
<1> QED
  BY <1>1, <1>2, <1>3

\* Behind every message that goes the others move up.
LEMMA RankBehind ==
    ASSUME NEW n \in Nat, NEW gone \in SUBSET (1 .. n), NEW i \in 1 .. n,
           \A j \in gone : j < i
    PROVE  /\ Rank((1 .. n) \ gone, i) = i - Cardinality(gone)
           /\ Cardinality(gone) \in Nat /\ Cardinality(gone) < i
<1> DEFINE S == 1 .. i
<1>1. IsFiniteSet(S) /\ Cardinality(S) = i
  BY FS_Interval
<1>2. gone \in SUBSET (1 .. i - 1)
  OBVIOUS
<1>3. IsFiniteSet(1 .. i - 1) /\ Cardinality(1 .. i - 1) = i - 1
  BY FS_Interval
<1>4. IsFiniteSet(gone) /\ Cardinality(gone) \in Nat /\ Cardinality(gone) <= i - 1
  BY <1>2, <1>3, FS_Subset, FS_CardinalityType
<1>5. Cardinality(S \ gone) = Cardinality(S) - Cardinality(S \cap gone)
  BY <1>1, FS_Difference
<1>6. S \cap gone = gone
  <2>1. \A j \in gone : j \in 1 .. n /\ j < i
    OBVIOUS
  <2>2. \A j \in gone : j \in S
    BY <2>1
  <2> QED
    BY <2>2
<1>7. S \ gone = {j \in (1 .. n) \ gone : j <= i}
  <2>1. \A j : j \in S <=> j \in 1 .. n /\ j <= i
    OBVIOUS
  <2> HIDE DEF S
  <2> QED
    BY <2>1
<1>8. Rank((1 .. n) \ gone, i) = Cardinality(S \ gone)
  BY <1>7 DEF Rank
<1>9. Cardinality(S \ gone) = i - Cardinality(gone)
  BY <1>1, <1>5, <1>6
<1> HIDE DEF S
<1> QED
  BY <1>4, <1>8, <1>9

\* A set of indices that is not empty has a last element.
LEMMA LastIndex ==
    ASSUME NEW n \in Nat, NEW K \in SUBSET (1 .. n), K # {}
    PROVE  \E i \in K : \A j \in K : j <= i
<1>1. Cardinality(K) \in 1 .. Cardinality(K)
  <2>1. PICK i \in K : TRUE
    OBVIOUS
  <2>2. Cardinality(K) \in Nat /\ Rank(K, i) \in 1 .. Cardinality(K)
    BY <2>1, Ranks
  <2> QED
    BY <2>2
<1>2. PICK i \in K : Rank(K, i) = Cardinality(K)
  BY <1>1, Ranks
<1>3. \A j \in K : ~(i < j)
  <2> SUFFICES ASSUME NEW j \in K, i < j PROVE FALSE
    OBVIOUS
  <2>1. Rank(K, i) < Rank(K, j) /\ Rank(K, j) \in 1 .. Cardinality(K) /\ Cardinality(K) \in Nat
    BY Ranks
  <2> QED
    BY <1>2, <2>1
<1>4. \A j \in K : j \in Int
  OBVIOUS
<1>5. \A j \in K : j <= i
  BY <1>3, <1>4
<1> QED
  BY <1>2, <1>5

\* ... and a first one.
LEMMA FirstIndex ==
    ASSUME NEW n \in Nat, NEW K \in SUBSET (1 .. n), K # {}
    PROVE  \E i \in K : \A j \in K : i <= j
<1>1. 1 \in 1 .. Cardinality(K) /\ Cardinality(K) \in Nat
  <2>1. PICK i \in K : TRUE
    OBVIOUS
  <2>2. Cardinality(K) \in Nat /\ Rank(K, i) \in 1 .. Cardinality(K)
    BY <2>1, Ranks
  <2> QED
    BY <2>2
<1>2. PICK i \in K : Rank(K, i) = 1
  BY <1>1, Ranks
<1>3. \A j \in K : ~(j < i)
  <2> SUFFICES ASSUME NEW j \in K, j < i PROVE FALSE
    OBVIOUS
  <2>1. Rank(K, j) < Rank(K, i) /\ Rank(K, j) \in 1 .. Cardinality(K)
    BY Ranks
  <2> QED
    BY <1>1, <1>2, <2>1
<1>4. \A j \in K : j \in Int
  OBVIOUS
<1>5. \A j \in K : i <= j
  BY <1>3, <1>4
<1> QED
  BY <1>2, <1>5

-----------------------------------------------------------------------------
MessageRow == [role : Roles \cup {"tool"}, id : Nat]

\* The row of the user that began the turn of row i.
Began(h, i) == {j \in DOMAIN h : j <= i /\ h[j] = "user" /\ \A k \in j + 1 .. i : h[k] # "user"}

Kept(c) == {c.msgs[i].id : i \in 2 .. c.start}

\* The list is the prompt of the system, rows of the history in their order with
\* the last four of them, the prompt of the turn, and messages of the tools.
Listed(c, h) ==
    /\ c.msgs \in Seq(MessageRow) /\ c.start \in 2 .. Len(c.msgs)
    /\ c.msgs[1] = Message("system", 0)
    /\ c.msgs[c.start] = Message("user", Len(h) + 1)
    /\ \A i \in 2 .. c.start - 1 : c.msgs[i].id \in DOMAIN h /\ c.msgs[i].role = h[c.msgs[i].id]
    /\ \A i, j \in 2 .. c.start : i < j => c.msgs[i].id < c.msgs[j].id
    /\ \A k \in 0 .. 4 : k <= Len(h) =>
         c.start - k >= 2 /\ c.msgs[c.start - k].id = Len(h) + 1 - k

\* No row is missing that is to be kept.
Complete(c, h, selected) ==
    /\ {i \in DOMAIN h : h[i] = "system" \/ selected} \subseteq Kept(c)
    /\ \A i \in Kept(c) \cap DOMAIN h : h[i] # "system" => Began(h, i) \subseteq Kept(c)

ContextOK(c, h, selected) ==
    /\ DOMAIN c = {"msgs", "start", "protected"} /\ c.protected = selected
    /\ h \in Seq(Roles)
    /\ Listed(c, h) /\ Complete(c, h, selected)

\* The boundary is a row of a user with four rows behind it.
LEMMA Boundary ==
    ASSUME NEW c, NEW h, Listed(c, h)
    PROVE  EligibleEnd(c) = 0 \/ (EligibleEnd(c) \in 3 .. c.start - 4 /\ c.msgs[EligibleEnd(c)].role = "user")
<1> DEFINE users == {i \in 3 .. c.start - 4 : c.msgs[i].role = "user"}
<1>1. c.start \in Nat
  BY DEF Listed
<1>2. users \in SUBSET (1 .. c.start)
  BY <1>1
<1>3. CASE users = {}
  BY <1>3 DEF EligibleEnd
<1>4. CASE users # {}
  <2>1. \E i \in users : \A j \in users : j <= i
    BY <1>1, <1>2, <1>4, LastIndex
  <2>2. EligibleEnd(c) = CHOOSE i \in users : \A j \in users : j <= i
    BY <1>4 DEF EligibleEnd
  <2> HIDE DEF users
  <2>3. EligibleEnd(c) \in users
    BY <2>1, <2>2
  <2> QED
    BY <2>3 DEF users
<1> QED
  BY <1>3, <1>4

Left(c, limit) == (1 .. Len(c.msgs)) \ TooLong(c, limit)
Dropped(c, limit) == Cardinality(TooLong(c, limit))
Trimmed(c, limit) ==
    LET new == Without(c, TooLong(c, limit)) IN
    /\ DOMAIN new = DOMAIN c /\ new.protected = c.protected
    /\ new.start = c.start - Dropped(c, limit)
    /\ new.msgs = [k \in 1 .. Len(c.msgs) - Dropped(c, limit) |-> c.msgs[Place(Left(c, limit), k)]]

\* What is too long goes, and the messages behind it keep their order.
LEMMA Shorter ==
    ASSUME NEW c, NEW h, NEW limit, Listed(c, h), DOMAIN c = {"msgs", "start", "protected"}
    PROVE  /\ TooLong(c, limit) \in SUBSET (2 .. Len(c.msgs))
           /\ \A i \in TooLong(c, limit) :
                i < EligibleEnd(c) /\ i < c.start - 4 /\ c.msgs[i].role # "system"
           /\ Left(c, limit) \in SUBSET (1 .. Len(c.msgs))
           /\ Dropped(c, limit) \in Nat /\ Dropped(c, limit) < c.start
           /\ Cardinality(Left(c, limit)) = Len(c.msgs) - Dropped(c, limit)
           /\ Place(Left(c, limit), 1) = 1
           /\ \A i \in 1 .. Len(c.msgs) : i >= c.start - 4 =>
                /\ i - Dropped(c, limit) \in 1 .. Len(c.msgs) - Dropped(c, limit)
                /\ Place(Left(c, limit), i - Dropped(c, limit)) = i
           /\ Trimmed(c, limit)
<1> DEFINE gone == TooLong(c, limit)
           n == Len(c.msgs)
           K == (1 .. n) \ gone
           d == Cardinality(gone)
           new == Without(c, gone)
<1>1. n \in Nat /\ c.start \in 2 .. n /\ DOMAIN c.msgs = 1 .. n
  BY DEF Listed
<1>2. \A i \in gone : i \in 2 .. n /\ i < EligibleEnd(c) /\ i < c.start - 4 /\ c.msgs[i].role # "system"
  <2> SUFFICES ASSUME NEW i \in gone
               PROVE  i \in 2 .. n /\ i < EligibleEnd(c) /\ i < c.start - 4 /\ c.msgs[i].role # "system"
    OBVIOUS
  <2>1. i \in 2 .. EligibleEnd(c) - 1 /\ c.msgs[i].role # "system"
    BY DEF TooLong, Eligible
  <2>2. EligibleEnd(c) \in Int /\ EligibleEnd(c) <= c.start - 4
    <3>1. EligibleEnd(c) = 0 => FALSE
      BY <2>1
    <3> QED
      BY <1>1, <3>1, Boundary
  <2> QED
    BY <1>1, <2>1, <2>2
<1>3. gone \in SUBSET (2 .. n) /\ gone \in SUBSET (1 .. n) /\ K \in SUBSET (1 .. n)
  BY <1>1, <1>2
<1>4. \A i \in 1 .. n : i >= c.start - 4 => Rank(K, i) = i - d /\ d \in Nat /\ d < i /\ i \in K
  <2> SUFFICES ASSUME NEW i \in 1 .. n, i >= c.start - 4
               PROVE  Rank(K, i) = i - d /\ d \in Nat /\ d < i /\ i \in K
    OBVIOUS
  <2>1. \A j \in gone : j < i
    BY <1>1, <1>2
  <2>2. i \in K
    BY <2>1
  <2> HIDE DEF gone
  <2> QED
    BY <1>1, <1>3, <2>1, <2>2, RankBehind
<1>5. d \in Nat /\ d < c.start /\ d < n
  BY <1>1, <1>4
<1>6. Cardinality(K) = n - d
  <2>1. Rank(K, n) = n - d
    <3>1. n \in 1 .. n /\ n >= c.start - 4
      BY <1>1
    <3> HIDE DEF n, K, d
    <3> QED
      BY <1>4, <3>1
  <2>2. {j \in K : j <= n} = K
    BY <1>1
  <2> QED
    BY <2>1, <2>2 DEF Rank
<1>7. {i \in gone : i < c.start} = gone
  BY <1>1, <1>2
<1>8. /\ DOMAIN new = DOMAIN c /\ new.protected = c.protected
      /\ new.start = c.start - d
      /\ new.msgs = [k \in 1 .. n - d |-> c.msgs[Place(K, k)]]
  <2> HIDE DEF gone
  <2> QED
    BY <1>1, <1>6, <1>7 DEF Without
<1>9. \A i \in 1 .. n : i >= c.start - 4 => i - d \in 1 .. n - d /\ Place(K, i - d) = i
  <2> SUFFICES ASSUME NEW i \in 1 .. n, i >= c.start - 4
               PROVE  i - d \in 1 .. n - d /\ Place(K, i - d) = i
    OBVIOUS
  <2>1. Rank(K, i) = i - d /\ d \in Nat /\ d < i /\ i \in K
    BY <1>4
  <2> HIDE DEF K, d
  <2>2. Place(K, i - d) = i
    BY <1>1, <1>3, <2>1, Places
  <2> QED
    BY <1>1, <2>1, <2>2
<1>10. Place(K, 1) = 1
  <2>1. 1 \in K
    BY <1>1, <1>2
  <2> HIDE DEF K, d
  <2>2. Rank(K, 1) \in 1 .. Cardinality(K) /\ Cardinality(K) \in Nat
    BY <1>1, <1>3, <2>1, Ranks
  <2>3. 1 \in 1 .. Cardinality(K)
    BY <2>2
  <2> DEFINE p == Place(K, 1)
  <2>4. p \in K /\ Rank(K, p) = 1
    BY <1>1, <1>3, <2>3, Places
  <2>5. p \in 1 .. n
    BY <1>3, <2>4
  <2> HIDE DEF p
  <2>6. ~(1 < p)
    <3>1. 1 < p => Rank(K, 1) < Rank(K, p)
      BY <1>1, <1>3, <2>1, <2>4, Ranks
    <3> QED
      BY <2>2, <2>4, <3>1
  <2>7. p = 1
    BY <1>1, <2>5, <2>6
  <2> QED
    BY <2>7 DEF p
<1> HIDE DEF new, d, K, gone
<1>11. Trimmed(c, limit)
  BY <1>8 DEF Trimmed, Left, Dropped, gone, K, d, new, n
<1> QED
  BY <1>2, <1>3, <1>5, <1>6, <1>9, <1>10, <1>11 DEF Left, Dropped, gone, K, d, n

\* Trimming keeps the shape of the list ...
LEMMA TrimKeepsList ==
    ASSUME NEW c, NEW h, NEW limit, Listed(c, h), DOMAIN c = {"msgs", "start", "protected"}
    PROVE  LET new == Without(c, TooLong(c, limit)) IN
           /\ Listed(new, h) /\ DOMAIN new = DOMAIN c /\ new.protected = c.protected
           /\ Len(new.msgs) - new.start = Len(c.msgs) - c.start
           /\ Kept(new) = {c.msgs[i].id : i \in (2 .. c.start) \ TooLong(c, limit)}
<1> DEFINE gone == TooLong(c, limit)
           n == Len(c.msgs)
           K == Left(c, limit)
           d == Dropped(c, limit)
           new == Without(c, gone)
           P(k) == Place(K, k)
<1>1. /\ gone \in SUBSET (2 .. n) /\ K \in SUBSET (1 .. n) /\ d \in Nat /\ d < c.start
      /\ Cardinality(K) = n - d
      /\ DOMAIN new = DOMAIN c /\ new.protected = c.protected
      /\ new.start = c.start - d
      /\ new.msgs = [k \in 1 .. n - d |-> c.msgs[P(k)]]
      /\ P(1) = 1
      /\ \A i \in 1 .. n : i >= c.start - 4 => i - d \in 1 .. n - d /\ P(i - d) = i
  BY Shorter DEF Trimmed
<1>2. /\ n \in Nat /\ c.start \in 2 .. n /\ c.msgs \in Seq(MessageRow)
      /\ \A i \in 1 .. n : c.msgs[i] \in MessageRow
  BY DEF Listed
<1>3. /\ \A k \in 1 .. n - d : P(k) \in K /\ P(k) \in 1 .. n /\ Rank(K, P(k)) = k
      /\ \A k, m \in 1 .. n - d : k < m => P(k) < P(m)
      /\ \A i \in K : P(Rank(K, i)) = i /\ Rank(K, i) \in 1 .. n - d
  <2> HIDE DEF gone, K, d
  <2> QED
    BY <1>1, <1>2, Places, Ranks
<1> HIDE DEF gone, K, d, new, P, n
<1>4. new.msgs \in Seq(MessageRow) /\ Len(new.msgs) = n - d
  <2>1. n - d \in Nat
    BY <1>1, <1>2
  <2>2. \A k \in 1 .. n - d : c.msgs[P(k)] \in MessageRow
    BY <1>2, <1>3
  <2> QED
    BY <1>1, <2>1, <2>2
<1>5. new.start \in 2 .. n - d /\ P(new.start) = c.start
  <2>1. new.start \in 1 .. n - d /\ P(new.start) = c.start
    BY <1>1, <1>2
  <2>2. new.start # 1
    BY <1>1, <1>2, <2>1
  <2> QED
    BY <1>1, <1>2, <2>1, <2>2
<1>6. \A k \in 1 .. n - d : new.msgs[k] = c.msgs[P(k)]
  BY <1>1
<1>7. new.msgs[1] = Message("system", 0) /\ new.msgs[new.start] = Message("user", Len(h) + 1)
  <2>1. 1 \in 1 .. n - d /\ new.start \in 1 .. n - d
    BY <1>1, <1>2, <1>5
  <2> QED
    BY <1>1, <1>5, <1>6, <2>1 DEF Listed
<1>8. \A k \in 2 .. new.start : /\ k \in 1 .. n - d /\ P(k) \in 2 .. c.start
                                /\ k # new.start => P(k) \in 2 .. c.start - 1
  <2> SUFFICES ASSUME NEW k \in 2 .. new.start
               PROVE  k \in 1 .. n - d /\ P(k) \in 2 .. c.start
                      /\ (k # new.start => P(k) \in 2 .. c.start - 1)
    OBVIOUS
  <2>1. k \in 1 .. n - d /\ 1 \in 1 .. n - d /\ new.start \in 1 .. n - d
    BY <1>1, <1>2, <1>5
  <2>2. P(1) < P(k) /\ (k # new.start => P(k) < P(new.start))
    BY <1>3, <1>5, <2>1
  <2>3. P(k) \in 1 .. n
    BY <1>3, <2>1
  <2>4. 1 < P(k) /\ (k # new.start => P(k) < c.start) /\ (k = new.start => P(k) = c.start)
    BY <1>1, <1>5, <2>2
  <2> QED
    BY <1>2, <2>1, <2>3, <2>4
<1>9. \A k \in 2 .. new.start - 1 : new.msgs[k].id \in DOMAIN h /\ new.msgs[k].role = h[new.msgs[k].id]
  <2> SUFFICES ASSUME NEW k \in 2 .. new.start - 1
               PROVE  new.msgs[k].id \in DOMAIN h /\ new.msgs[k].role = h[new.msgs[k].id]
    OBVIOUS
  <2>1. k \in 2 .. new.start /\ k # new.start
    BY <1>5
  <2>2. new.msgs[k] = c.msgs[P(k)] /\ P(k) \in 2 .. c.start - 1
    BY <1>6, <1>8, <2>1
  <2> QED
    BY <2>2 DEF Listed
<1>10. \A k, m \in 2 .. new.start : k < m => new.msgs[k].id < new.msgs[m].id
  <2> SUFFICES ASSUME NEW k \in 2 .. new.start, NEW m \in 2 .. new.start, k < m
               PROVE  new.msgs[k].id < new.msgs[m].id
    OBVIOUS
  <2>1. k \in 1 .. n - d /\ m \in 1 .. n - d /\ P(k) \in 2 .. c.start /\ P(m) \in 2 .. c.start
    BY <1>8
  <2>2. P(k) < P(m)
    BY <1>3, <2>1
  <2>3. new.msgs[k] = c.msgs[P(k)] /\ new.msgs[m] = c.msgs[P(m)]
    BY <1>6, <2>1
  <2> QED
    BY <2>1, <2>2, <2>3 DEF Listed
<1>11. \A k \in 0 .. 4 : k <= Len(h) =>
         new.start - k >= 2 /\ new.msgs[new.start - k].id = Len(h) + 1 - k
  <2> SUFFICES ASSUME NEW k \in 0 .. 4, k <= Len(h)
               PROVE  new.start - k >= 2 /\ new.msgs[new.start - k].id = Len(h) + 1 - k
    OBVIOUS
  <2>1. c.start - k >= 2 /\ c.msgs[c.start - k].id = Len(h) + 1 - k
    BY DEF Listed
  <2>2. c.start - k \in 1 .. n /\ c.start - k >= c.start - 4
    BY <1>2, <2>1
  <2>3. c.start - k - d \in 1 .. n - d /\ P(c.start - k - d) = c.start - k
    BY <1>1, <2>2
  <2>4. new.start - k = c.start - k - d
    BY <1>1, <1>2
  <2>5. new.start - k \in 1 .. n - d /\ P(new.start - k) = c.start - k
    BY <2>3, <2>4
  <2>6. new.start - k # 1
    BY <1>1, <2>1, <2>5
  <2>7. new.msgs[new.start - k] = c.msgs[c.start - k]
    BY <1>6, <2>5
  <2> QED
    BY <2>1, <2>5, <2>6, <2>7
<1>12. Kept(new) = {c.msgs[i].id : i \in (2 .. c.start) \ gone}
  <2>1. \A k \in 2 .. new.start : new.msgs[k] = c.msgs[P(k)] /\ P(k) \in (2 .. c.start) \ gone
    BY <1>3, <1>6, <1>8 DEF K, Left, gone
  <2>2. \A i \in (2 .. c.start) \ gone : \E k \in 2 .. new.start : new.msgs[k] = c.msgs[i]
    <3> SUFFICES ASSUME NEW i \in (2 .. c.start) \ gone
                 PROVE  \E k \in 2 .. new.start : new.msgs[k] = c.msgs[i]
      OBVIOUS
    <3>1. i \in K
      BY <1>2 DEF K, Left, gone, n
    <3> DEFINE k == Rank(K, i)
    <3>2. k \in 1 .. n - d /\ P(k) = i
      BY <1>3, <3>1
    <3> HIDE DEF k
    <3>3. k # 1
      BY <1>1, <3>2
    <3>4. ~(new.start < k)
      <4>1. new.start < k => P(new.start) < P(k)
        BY <1>3, <1>5, <3>2
      <4> QED
        BY <1>2, <1>5, <3>2, <4>1
    <3>5. k \in 2 .. new.start
      BY <1>5, <3>2, <3>3, <3>4
    <3> QED
      BY <1>6, <3>2, <3>5
  <2>3. \A x \in Kept(new) : x \in {c.msgs[i].id : i \in (2 .. c.start) \ gone}
    BY <2>1 DEF Kept
  <2>4. \A i \in (2 .. c.start) \ gone : c.msgs[i].id \in Kept(new)
    BY <2>2 DEF Kept
  <2> QED
    BY <2>3, <2>4
<1>13. Listed(new, h)
  BY <1>4, <1>5, <1>7, <1>9, <1>10, <1>11 DEF Listed
<1>14. Len(new.msgs) - new.start = n - c.start
  BY <1>1, <1>2, <1>4
<1> QED
  BY <1>1, <1>12, <1>13, <1>14 DEF gone, new, n

\* ... and no row goes that is to be kept: a row and the user's row before it are
\* too long together.
LEMMA TrimKeepsContext ==
    ASSUME NEW c, NEW h, NEW limit, NEW selected \in BOOLEAN, ContextOK(c, h, selected)
    PROVE  LET new == MessagesForRequest(c, limit) IN
           ContextOK(new, h, selected) /\ Len(new.msgs) - new.start = Len(c.msgs) - c.start
<1> DEFINE gone == TooLong(c, limit)
           new == MessagesForRequest(c, limit)
<1>1. /\ DOMAIN c = {"msgs", "start", "protected"} /\ c.protected = selected
      /\ h \in Seq(Roles) /\ Listed(c, h) /\ Complete(c, h, selected)
  BY DEF ContextOK
<1>2. CASE selected
  <2>1. new = c
    BY <1>1, <1>2 DEF MessagesForRequest
  <2> QED
    BY <2>1
<1>3. CASE ~selected
  <2>1. new = Without(c, gone)
    BY <1>1, <1>3 DEF MessagesForRequest
  <2>2. /\ Listed(new, h) /\ DOMAIN new = DOMAIN c /\ new.protected = c.protected
        /\ Len(new.msgs) - new.start = Len(c.msgs) - c.start
        /\ Kept(new) = {c.msgs[p].id : p \in (2 .. c.start) \ gone}
    BY <1>1, <2>1, TrimKeepsList
  <2>3. /\ \A p \in gone : p < EligibleEnd(c) /\ p \in 2 .. Len(c.msgs) /\ c.msgs[p].role # "system"
        /\ EligibleEnd(c) = 0 \/ (EligibleEnd(c) \in 3 .. c.start - 4 /\ c.msgs[EligibleEnd(c)].role = "user")
    BY <1>1, Shorter, Boundary
  <2>4. /\ Len(c.msgs) \in Nat /\ c.start \in 2 .. Len(c.msgs) /\ Len(h) \in Nat /\ DOMAIN h = 1 .. Len(h)
        /\ \A p \in 2 .. c.start : c.msgs[p].id \in Nat
    <3>1. \A p \in 1 .. Len(c.msgs) : c.msgs[p] \in MessageRow
      BY <1>1 DEF Listed
    <3>2. Len(c.msgs) \in Nat /\ c.start \in 2 .. Len(c.msgs) /\ Len(h) \in Nat /\ DOMAIN h = 1 .. Len(h)
      BY <1>1 DEF Listed
    <3>3. \A p \in 2 .. c.start : c.msgs[p] \in MessageRow
      BY <3>1, <3>2
    <3> QED
      BY <3>2, <3>3 DEF MessageRow
  <2>5. \A p \in 2 .. c.start : c.msgs[p].id \in DOMAIN h =>
          p \in 2 .. c.start - 1 /\ c.msgs[p].role = h[c.msgs[p].id]
    <3>1. c.msgs[c.start].id = Len(h) + 1
      BY <1>1 DEF Listed, Message
    <3> QED
      BY <1>1, <2>4, <3>1 DEF Listed
  <2>6. \A p, q \in 2 .. c.start : p < q => c.msgs[p].id < c.msgs[q].id
    BY <1>1 DEF Listed
  <2> HIDE DEF new
  <2>7. {i \in DOMAIN h : h[i] = "system" \/ selected} \subseteq Kept(new)
    <3> SUFFICES ASSUME NEW i \in DOMAIN h, h[i] = "system" PROVE i \in Kept(new)
      BY <1>3
    <3>1. i \in Kept(c)
      BY <1>1 DEF Complete
    <3>2. PICK p \in 2 .. c.start : c.msgs[p].id = i
      BY <3>1 DEF Kept
    <3>3. p \notin gone
      BY <2>3, <2>5, <3>2
    <3> QED
      BY <2>2, <3>2, <3>3
  <2>8. \A i \in Kept(new) \cap DOMAIN h : h[i] # "system" => Began(h, i) \subseteq Kept(new)
    <3> SUFFICES ASSUME NEW i \in Kept(new) \cap DOMAIN h, h[i] # "system", NEW j \in Began(h, i),
                        j \notin Kept(new)
                 PROVE  FALSE
      OBVIOUS
    <3>1. PICK p \in (2 .. c.start) \ gone : c.msgs[p].id = i
      BY <2>2
    <3>2. i \in Kept(c)
      BY <3>1 DEF Kept
    <3>3. j \in Kept(c) /\ j \in DOMAIN h /\ j <= i /\ \A k \in j + 1 .. i : h[k] # "user"
      BY <1>1, <3>2 DEF Complete, Began
    <3>4. PICK q \in 2 .. c.start : c.msgs[q].id = j
      BY <3>3 DEF Kept
    <3>5. q \in gone
      BY <2>2, <3>4
    <3>6. i \in 1 .. Len(h) /\ j \in 1 .. Len(h) /\ p \in 2 .. c.start - 1 /\ q \in 2 .. c.start - 1
          /\ c.msgs[p].role = h[i]
      BY <2>4, <2>5, <3>1, <3>3, <3>4
    <3>7. q < p
      <4>1. p # q /\ ~(p < q)
        BY <2>4, <2>6, <3>1, <3>3, <3>4, <3>5, <3>6
      <4>2. p \in Int /\ q \in Int
        BY <2>4, <3>6
      <4> QED
        BY <4>1, <4>2
    <3>8. \A u \in q + 1 .. p : c.msgs[u].role # "user"
      <4> SUFFICES ASSUME NEW u \in q + 1 .. p PROVE c.msgs[u].role # "user"
        OBVIOUS
      <4>1. u \in 2 .. c.start - 1 /\ u \in 2 .. c.start /\ q < u /\ (u = p \/ u < p)
        BY <2>4, <3>6
      <4> DEFINE m == c.msgs[u].id
      <4>2. m \in DOMAIN h /\ c.msgs[u].role = h[m] /\ m \in Nat
        BY <1>1, <2>4, <4>1 DEF Listed
      <4>3. j < m /\ (m = i \/ m < i)
        BY <2>6, <3>1, <3>4, <3>6, <4>1
      <4> HIDE DEF m
      <4>4. m \in j + 1 .. i
        BY <3>6, <4>2, <4>3
      <4> QED
        BY <3>3, <4>2, <4>4
    <3>9. CASE p \in Eligible(c)
      <4>1. \A k \in Eligible(c) : (\E u \in k + 1 .. p : c.msgs[u].role = "user")
                                   <=> (\E u \in k + 1 .. q : c.msgs[u].role = "user")
        <5> SUFFICES ASSUME NEW k \in Eligible(c)
                     PROVE  (\E u \in k + 1 .. p : c.msgs[u].role = "user")
                            <=> (\E u \in k + 1 .. q : c.msgs[u].role = "user")
          OBVIOUS
        <5>1. k \in Int /\ p \in Int /\ q \in Int
          BY <2>4, <3>6 DEF Eligible
        <5>2. \A u \in k + 1 .. p : c.msgs[u].role = "user" => u \in k + 1 .. q
          BY <3>8, <5>1
        <5>3. \A u \in k + 1 .. q : u \in k + 1 .. p
          BY <3>7, <5>1
        <5> QED
          BY <5>2, <5>3
      <4>2. OlderThan(c, p) = OlderThan(c, q)
        BY <4>1 DEF OlderThan
      <4>3. p \in gone
        BY <3>5, <3>9, <4>2 DEF TooLong
      <4> QED
        BY <3>1, <4>3
    <3>10. CASE p \notin Eligible(c)
      <4>1. ~(p \in 2 .. EligibleEnd(c) - 1)
        BY <3>6, <3>10 DEF Eligible
      <4>2. q < EligibleEnd(c) /\ q \in 2 .. Len(c.msgs)
        BY <2>3, <3>5
      <4>3. EligibleEnd(c) \in 3 .. c.start - 4 /\ c.msgs[EligibleEnd(c)].role = "user"
        BY <2>3, <4>2
      <4>4. EligibleEnd(c) \in q + 1 .. p
        BY <2>4, <3>6, <4>1, <4>2, <4>3
      <4> QED
        BY <3>8, <4>3, <4>4
    <3> QED
      BY <3>9, <3>10
  <2> QED
    BY <1>1, <2>2, <2>7, <2>8 DEF ContextOK, Complete, new
<1> QED
  BY <1>2, <1>3

\* The list that a turn begins with is complete.
LEMMA BuildsContext ==
    ASSUME NEW h \in Seq(Roles), NEW selected \in BOOLEAN
    PROVE  LET c == BuildMessages(h, selected) IN
           ContextOK(c, h, selected) /\ Len(c.msgs) = c.start
<1> DEFINE n == Len(h)
           rows == [i \in DOMAIN h |-> Message(h[i], i)]
           front == <<Message("system", 0)>> \o rows
           c == BuildMessages(h, selected)
<1>1. n \in Nat /\ DOMAIN h = 1 .. n /\ \A i \in 1 .. n : h[i] \in Roles
  OBVIOUS
<1>2. rows \in Seq(MessageRow) /\ Len(rows) = n /\ \A i \in 1 .. n : rows[i] = Message(h[i], i)
  <2>1. \A i \in 1 .. n : Message(h[i], i) \in MessageRow
    BY <1>1 DEF Message, MessageRow
  <2> QED
    BY <1>1, <2>1
<1>3. Message("system", 0) \in MessageRow /\ Message("user", n + 1) \in MessageRow
  BY <1>1 DEF Message, MessageRow, Roles
<1>4. front \in Seq(MessageRow) /\ Len(front) = n + 1 /\ front[1] = Message("system", 0)
      /\ \A i \in 2 .. n + 1 : front[i] = Message(h[i - 1], i - 1)
  <2> HIDE DEF rows
  <2>1. front \in Seq(MessageRow) /\ Len(front) = n + 1 /\ front[1] = Message("system", 0)
    BY <1>1, <1>2, <1>3
  <2>2. \A i \in 2 .. n + 1 : front[i] = rows[i - 1]
    BY <1>1, <1>2, <1>3
  <2>3. \A i \in 2 .. n + 1 : i - 1 \in 1 .. n
    BY <1>1
  <2> QED
    BY <1>2, <2>1, <2>2, <2>3
<1>5. DOMAIN c = {"msgs", "start", "protected"} /\ c.protected = selected /\ c.start = n + 2
      /\ c.msgs = front \o <<Message("user", n + 1)>>
  BY DEF BuildMessages
<1>6. c.msgs \in Seq(MessageRow) /\ Len(c.msgs) = n + 2 /\ c.msgs[n + 2] = Message("user", n + 1)
      /\ \A i \in 1 .. n + 1 : c.msgs[i] = front[i]
  <2> HIDE DEF front, c
  <2> QED
    BY <1>1, <1>3, <1>4, <1>5
<1> HIDE DEF front, c, rows, n
<1>7. c.msgs[1] = Message("system", 0) /\ \A i \in 2 .. n + 1 : c.msgs[i] = Message(h[i - 1], i - 1)
  BY <1>1, <1>4, <1>6
<1>8. \A i \in 2 .. n + 2 : c.msgs[i].id = i - 1
  <2> SUFFICES ASSUME NEW i \in 2 .. n + 2 PROVE c.msgs[i].id = i - 1
    OBVIOUS
  <2>1. CASE i = n + 2
    BY <1>1, <1>6, <2>1 DEF Message
  <2>2. CASE i # n + 2
    <3>1. i \in 2 .. n + 1
      BY <1>1, <2>2
    <3>2. c.msgs[i] = Message(h[i - 1], i - 1)
      BY <1>7, <3>1
    <3> QED
      BY <3>2 DEF Message
  <2> QED
    BY <2>1, <2>2
<1>9. Listed(c, h)
  <2>1. c.start \in 2 .. Len(c.msgs)
    BY <1>1, <1>5, <1>6
  <2>2. \A i \in 2 .. c.start - 1 : c.msgs[i].id \in DOMAIN h /\ c.msgs[i].role = h[c.msgs[i].id]
    <3>0. c.start - 1 = n + 1
      BY <1>1, <1>5
    <3> SUFFICES ASSUME NEW i \in 2 .. n + 1
                 PROVE  c.msgs[i].id \in DOMAIN h /\ c.msgs[i].role = h[c.msgs[i].id]
      BY <3>0
    <3>1. c.msgs[i] = Message(h[i - 1], i - 1) /\ i - 1 \in 1 .. n
      BY <1>1, <1>7
    <3>2. c.msgs[i].id = i - 1 /\ c.msgs[i].role = h[i - 1]
      BY <3>1 DEF Message
    <3> QED
      BY <1>1, <3>1, <3>2
  <2>3. \A i, j \in 2 .. c.start : i < j => c.msgs[i].id < c.msgs[j].id
    <3> SUFFICES ASSUME NEW i \in 2 .. n + 2, NEW j \in 2 .. n + 2, i < j
                 PROVE  c.msgs[i].id < c.msgs[j].id
      BY <1>5
    <3>1. c.msgs[i].id = i - 1 /\ c.msgs[j].id = j - 1
      BY <1>8
    <3>2. i - 1 < j - 1
      BY <1>1
    <3> QED
      BY <3>1, <3>2
  <2>4. \A k \in 0 .. 4 : k <= n => c.start - k >= 2 /\ c.msgs[c.start - k].id = n + 1 - k
    <3> SUFFICES ASSUME NEW k \in 0 .. 4, k <= n
                 PROVE  c.start - k >= 2 /\ c.msgs[c.start - k].id = n + 1 - k
      OBVIOUS
    <3> DEFINE at(j) == c.msgs[j].id
    <3>0. c.start = n + 2 /\ k \in Int /\ n \in Int
      BY <1>1, <1>5
    <3>1. PICK m \in Int : m = n + 2 - k
      BY <3>0
    <3>2. m \in 2 .. n + 2 /\ m - 1 = n + 1 - k /\ m >= 2
      BY <1>1, <3>1
    <3>3. at(m) = m - 1
      BY <1>8, <3>2
    <3>4. c.start - k = m
      BY <3>0, <3>1
    <3> HIDE DEF at
    <3>5. at(c.start - k) = n + 1 - k
      BY <3>2, <3>3, <3>4
    <3> QED
      BY <3>2, <3>4, <3>5 DEF at
  <2> QED
    BY <1>5, <1>6, <1>7, <2>1, <2>2, <2>3, <2>4 DEF Listed, n
<1>10. DOMAIN h \subseteq Kept(c)
  <2> SUFFICES ASSUME NEW i \in 1 .. n PROVE i \in Kept(c)
    BY <1>1
  <2>1. i + 1 \in 2 .. c.start /\ c.msgs[i + 1].id = i
    BY <1>1, <1>5, <1>8
  <2> QED
    BY <2>1 DEF Kept
<1>11. Complete(c, h, selected)
  BY <1>10 DEF Complete, Began
<1> QED
  BY <1>5, <1>6, <1>9, <1>11 DEF ContextOK, c, n

\* The answers of the model and of the tools come behind the prompt.
LEMMA AppendsContext ==
    ASSUME NEW c, NEW h, NEW selected, ContextOK(c, h, selected), NEW role \in Roles \cup {"tool"}
    PROVE  LET new == AppendMessage(c, role) IN
           /\ ContextOK(new, h, selected)
           /\ Len(new.msgs) - new.start = Len(c.msgs) - c.start + 1
<1> DEFINE new == AppendMessage(c, role)
           n == Len(c.msgs)
<1>1. /\ DOMAIN c = {"msgs", "start", "protected"} /\ c.protected = selected
      /\ h \in Seq(Roles) /\ Listed(c, h) /\ Complete(c, h, selected)
  BY DEF ContextOK
<1>2. c.msgs \in Seq(MessageRow) /\ n \in Nat /\ c.start \in 2 .. n
  BY <1>1 DEF Listed
<1>3. /\ DOMAIN new = DOMAIN c /\ new.protected = c.protected /\ new.start = c.start
      /\ new.msgs = Append(c.msgs, Message(role, 0))
  BY <1>1 DEF AppendMessage
<1>4. Message(role, 0) \in MessageRow
  BY DEF Message, MessageRow
<1>5. /\ new.msgs \in Seq(MessageRow) /\ Len(new.msgs) = n + 1
      /\ \A i \in 1 .. n : new.msgs[i] = c.msgs[i]
  BY <1>2, <1>3, <1>4
<1> HIDE DEF new
<1>6. new.start \in 2 .. Len(new.msgs) /\ \A i \in 1 .. c.start : new.msgs[i] = c.msgs[i]
  BY <1>2, <1>3, <1>5
<1>7. Listed(new, h)
  <2>1. \A i \in 2 .. c.start : new.msgs[i] = c.msgs[i]
    BY <1>2, <1>6
  <2>2. \A i \in 2 .. c.start - 1 : new.msgs[i] = c.msgs[i]
    BY <1>2, <1>6
  <2>3. new.msgs[1] = c.msgs[1] /\ new.msgs[c.start] = c.msgs[c.start]
    BY <1>2, <1>6
  <2>4. \A k \in 0 .. 4 : k <= Len(h) =>
          new.start - k >= 2 /\ new.msgs[new.start - k].id = Len(h) + 1 - k
    <3> SUFFICES ASSUME NEW k \in 0 .. 4, k <= Len(h)
                 PROVE  new.start - k >= 2 /\ new.msgs[new.start - k].id = Len(h) + 1 - k
      OBVIOUS
    <3>1. c.start - k >= 2 /\ c.msgs[c.start - k].id = Len(h) + 1 - k
      BY <1>1 DEF Listed
    <3>2. c.start - k \in 2 .. c.start
      BY <1>2, <3>1
    <3> QED
      BY <1>3, <2>1, <3>1, <3>2
  <2>5. /\ c.msgs[1] = Message("system", 0)
        /\ c.msgs[c.start] = Message("user", Len(h) + 1)
        /\ \A i \in 2 .. c.start - 1 : c.msgs[i].id \in DOMAIN h /\ c.msgs[i].role = h[c.msgs[i].id]
        /\ \A i, j \in 2 .. c.start : i < j => c.msgs[i].id < c.msgs[j].id
    BY <1>1 DEF Listed
  <2> QED
    BY <1>3, <1>5, <1>6, <2>1, <2>2, <2>3, <2>4, <2>5 DEF Listed
<1>8. Kept(new) = Kept(c)
  BY <1>3, <1>6, <1>2 DEF Kept
<1>9. Complete(new, h, selected)
  BY <1>1, <1>8 DEF Complete
<1>10. Len(new.msgs) - new.start = n - c.start + 1
  BY <1>2, <1>3, <1>5
<1> QED
  BY <1>1, <1>3, <1>7, <1>9, <1>10 DEF ContextOK, new

\* A list that is still too long has nothing left that may go.
LEMMA TrimFits ==
    ASSUME NEW c, NEW h, NEW limit \in Nat, Listed(c, h),
           DOMAIN c = {"msgs", "start", "protected"}, c.protected = FALSE
    PROVE  LET new == MessagesForRequest(c, limit) IN
           EstimateContextTokens(new) <= limit \/ Eligible(new) = {}
<1> DEFINE gone == TooLong(c, limit)
           n == Len(c.msgs)
           K == Left(c, limit)
           d == Dropped(c, limit)
           new == Without(c, gone)
           P(k) == Place(K, k)
<1>1. /\ gone \in SUBSET (2 .. n) /\ K \in SUBSET (1 .. n) /\ d \in Nat /\ d < c.start
      /\ Cardinality(K) = n - d
      /\ new.start = c.start - d /\ new.msgs = [k \in 1 .. n - d |-> c.msgs[P(k)]]
      /\ P(1) = 1
      /\ \A i \in 1 .. n : i >= c.start - 4 => i - d \in 1 .. n - d /\ P(i - d) = i
  BY Shorter DEF Trimmed
<1>2. n \in Nat /\ c.start \in 2 .. n
  BY DEF Listed
<1>3. Listed(new, h) /\ Len(new.msgs) - new.start = n - c.start
  BY TrimKeepsList
<1>4. MessagesForRequest(c, limit) = new
  BY DEF MessagesForRequest
<1>5. \A k, m \in 1 .. n - d : k < m => P(k) < P(m)
  <2> HIDE DEF K, d
  <2> QED
    BY <1>1, <1>2, Places
<1>6. \A k \in 1 .. n - d : P(k) \in K
  <2> HIDE DEF K, d
  <2> QED
    BY <1>1, <1>2, Places
<1>k. K = (1 .. n) \ gone
  BY DEF Left
<1>7. CASE Eligible(c) \subseteq gone
  <2> HIDE DEF gone, K, d, new, P, n
  <2> SUFFICES ASSUME NEW k \in Eligible(new) PROVE FALSE
    BY <1>4
  <2>1. k \in 2 .. EligibleEnd(new) - 1 /\ new.msgs[k].role # "system"
    BY DEF Eligible
  <2>2. /\ EligibleEnd(new) = 0 \/ (EligibleEnd(new) \in 3 .. new.start - 4 /\ new.msgs[EligibleEnd(new)].role = "user")
    BY <1>3, Boundary
  <2>3. EligibleEnd(new) # 0
    BY <2>1
  <2>4. PICK e \in 3 .. new.start - 4 : new.msgs[e].role = "user" /\ EligibleEnd(new) = e
    BY <2>2, <2>3
  <2>5. new.start \in Int /\ new.start - 4 = c.start - 4 - d /\ new.start <= n - d
    BY <1>1, <1>2
  <2>6. /\ e \in 1 .. n - d /\ k \in 1 .. n - d /\ 1 < k /\ k < e /\ 1 \in 1 .. n - d
        /\ c.start - 4 \in 1 .. n /\ new.start - 4 \in 1 .. n - d
    BY <1>1, <1>2, <2>1, <2>4, <2>5
  <2>7. P(new.start - 4) = c.start - 4
    BY <1>1, <2>5, <2>6
  <2>8. P(k) \in 1 .. n /\ P(e) \in 1 .. n /\ P(k) \notin gone
    BY <1>1, <1>6, <1>k, <2>6
  <2>9. 1 < P(k) /\ P(k) < P(e)
    BY <1>1, <1>5, <2>6
  <2>10. P(e) <= c.start - 4
    <3>1. CASE e = new.start - 4
      BY <1>2, <2>7, <3>1
    <3>2. CASE e < new.start - 4
      <4>1. P(e) < P(new.start - 4)
        BY <1>5, <2>6, <3>2
      <4> QED
        BY <1>2, <2>7, <2>8, <4>1
    <3> QED
      BY <2>4, <2>5, <3>1, <3>2
  <2> DEFINE users == {i \in 3 .. c.start - 4 : c.msgs[i].role = "user"}
  <2>11. P(e) \in users
    <3>1. new.msgs[e] = c.msgs[P(e)]
      BY <1>1, <2>6
    <3>2. P(e) \in 3 .. c.start - 4
      BY <1>2, <2>8, <2>9, <2>10
    <3> QED
      BY <2>4, <3>1, <3>2
  <2>12. P(e) <= EligibleEnd(c)
    <3>1. users \in SUBSET (1 .. n)
      BY <1>2
    <3>2. \E i \in users : \A j \in users : j <= i
      BY <1>2, <2>11, <3>1, LastIndex
    <3>3. EligibleEnd(c) = CHOOSE i \in users : \A j \in users : j <= i
      BY <2>11 DEF EligibleEnd
    <3> HIDE DEF users
    <3> QED
      BY <2>11, <3>2, <3>3
  <2>13. P(k) \in 2 .. EligibleEnd(c) - 1
    <3>1. EligibleEnd(c) \in Int
      BY <1>2, Boundary
    <3> QED
      BY <2>8, <2>9, <2>12, <3>1
  <2>14. c.msgs[P(k)].role # "system"
    BY <1>1, <2>1, <2>6
  <2>15. P(k) \in Eligible(c)
    BY <2>13, <2>14 DEF Eligible
  <2> QED
    BY <1>7, <2>8, <2>15
<1>8. CASE ~(Eligible(c) \subseteq gone)
  <2> DEFINE S == Eligible(c) \ gone
  <2>1. EligibleEnd(c) = 0 \/ EligibleEnd(c) \in 3 .. c.start - 4
    BY Boundary
  <2>2. Eligible(c) \in SUBSET (1 .. n)
    BY <1>2, <2>1 DEF Eligible
  <2>3. PICK p \in S : \A j \in S : p <= j
    <3>1. S \in SUBSET (1 .. n) /\ S # {}
      BY <1>8, <2>2
    <3> HIDE DEF S
    <3> QED
      BY <1>2, <3>1, FirstIndex
  <2>4. OlderThan(c, p) \subseteq gone
    <3> SUFFICES ASSUME NEW j \in OlderThan(c, p), j \notin gone PROVE FALSE
      OBVIOUS
    <3>1. j \in Eligible(c) /\ \E u \in j + 1 .. p : TRUE
      BY DEF OlderThan
    <3>2. j \in 1 .. n /\ p \in 1 .. n
      BY <2>2, <2>3, <3>1
    <3>3. j < p
      BY <1>2, <3>1, <3>2
    <3>4. p <= j
      BY <2>3, <3>1
    <3> QED
      BY <3>2, <3>3, <3>4
  <2>5. IsFiniteSet(gone) /\ d = Cardinality(gone)
    <3>1. IsFiniteSet(2 .. n)
      BY <1>2, FS_Interval
    <3> QED
      BY <1>1, <3>1, FS_Subset DEF Dropped
  <2>6. Cardinality(OlderThan(c, p)) \in Nat /\ Cardinality(OlderThan(c, p)) <= d
    BY <2>4, <2>5, FS_Subset, FS_CardinalityType
  <2>7. ~(n - Cardinality(OlderThan(c, p)) > limit)
    BY <2>3 DEF TooLong, EstimateContextTokens
  <2>8. Len(new.msgs) = n - d
    <3>1. Len(new.msgs) \in Int
      BY <1>3 DEF Listed
    <3> HIDE DEF new, n, d
    <3> QED
      BY <1>1, <1>2, <1>3, <3>1
  <2> HIDE DEF n, d, new
  <2>9. Len(new.msgs) <= limit
    BY <1>1, <1>2, <2>6, <2>7, <2>8
  <2> QED
    BY <1>4, <2>9 DEF EstimateContextTokens
<1> QED
  BY <1>7, <1>8

-----------------------------------------------------------------------------
(* The state of a turn. *)

Fields ==
    {"pc", "signed", "stream", "guest", "chat", "checked", "selected", "after", "cancelled",
     "history", "context", "round", "tool", "committed", "shown", "offered", "called", "arg",
     "owner", "order", "results", "answer", "reply"}

ToolSteps == {"tools", "more", "select", "owner", "place", "mark"}
TurnSteps == {"idle", "attach", "check", "prepare", "stream", "generate", "finalize", "persist",
              "over"} \cup ToolSteps

\* Steps of a turn that has found its session usable and is not over.
UseSteps == TurnSteps \ {"idle", "attach", "check", "over"}
InUse(t) == turn[t].pc \in UseSteps

ToolResult ==
    [tool : {"search", "select", "info", "status", "book"},
     outcome : {"initial", "alternative", "conflict", "failed", "ok", "created", "exists",
                "limit", "duplicate"},
     orders : SUBSET Orders]
Texts == {"stream", "generate", "empty", "apology", "blocked", "conflict"}
AnswerRow == [text : Texts, claim : BOOLEAN, options : BOOLEAN, recs : BOOLEAN]

\* The local state of a turn: its flags, the request, and its work so far.
FlagsOK(me) ==
    /\ me.signed \in BOOLEAN /\ me.stream \in BOOLEAN /\ me.cancelled \in BOOLEAN
    /\ me.selected \in BOOLEAN /\ me.committed \in BOOLEAN /\ me.shown \in BOOLEAN

CallerOK(me) ==
    /\ me.checked \in Nat /\ me.after \in SUBSET Turns
    /\ me.pc # "idle" => me.guest \in Guests /\ me.chat \in ChatIDs
    /\ me.pc \in {"idle", "attach", "check"} => me.selected = FALSE

WorkOK(me) ==
    /\ me.pc \in TurnSteps
    /\ me.results \in Seq(ToolResult)
    /\ me.reply \in {"none", "done", "error"}
    /\ me.pc # "over" => me.reply = "none"
    /\ me.pc = "place" => me.owner \in Guests \cup {Account}
    /\ me.pc = "mark" => me.order \in Orders
    /\ me.pc \in {"finalize", "persist"} \/ me.reply = "done" => me.answer \in AnswerRow
    /\ me.pc \in {"idle", "attach", "check", "prepare"} => me.results = <<>>

TurnOK(me) == DOMAIN me = Fields /\ FlagsOK(me) /\ CallerOK(me) /\ WorkOK(me)

\* The types of the state. A turn is a record of named fields at every step.
TypeOK ==
    /\ chat \in [ChatIDs -> ChatRow \cup {NULL}]
    /\ deleted \in SUBSET ChatIDs
    /\ live \in SUBSET Guests
    /\ clock \in Nat
    /\ cleaning \in (SUBSET ChatIDs) \cup {NULL}
    /\ ledger \in [Orders -> Ledger!LedgerEntry \cup {NULL}]
    /\ origin \in [Orders -> Turns \cup {NULL}]
    /\ load \in Workloads
    /\ faults \in Nat
    /\ turn = [t \in Turns |-> turn[t]]
    /\ \A t \in Turns : TurnOK(turn[t])

-----------------------------------------------------------------------------
(* The invariants. *)

\* What the client has seen, and when the last round may be repeated.
TextOK(me) ==
    /\ me.committed => me.shown
    /\ me.shown /\ me.pc # "over" => me.stream
    /\ me.pc = "stream" => me.stream
    /\ me.pc \in {"idle", "attach", "check", "prepare"} => ~me.shown
    /\ me.pc = "generate" => ~me.committed
    /\ me.pc \in {"finalize", "persist"} \/ me.reply = "done" =>
         /\ me.committed => me.answer.text \in {"stream", "blocked", "conflict"}
         /\ me.shown => me.answer.text # "apology"

\* The sessions the cleanup has selected are over, and stay so until they go.
CleaningInv == cleaning # NULL => \A c \in cleaning : chat[c] # NULL /\ Expired(c)

\* The session of a turn has existed.
BoundInv == \A t \in Turns : turn[t].pc # "idle" =>
    chat[turn[t].chat] # NULL \/ turn[t].chat \in deleted

\* The session of a turn under way is there, is not selected by the cleanup, and
\* is not due: it was slid, or is about to be.
UseInv == \A t \in Turns : InUse(t) =>
    LET c == turn[t].chat IN
    /\ chat[c] # NULL
    /\ cleaning # NULL => c \notin cleaning
    /\ turn[t].checked <= clock
    /\ turn[t].pc = "prepare" => clock <= turn[t].checked + Grace /\ turn[t].checked <= chat[c].expires
    /\ turn[t].pc # "prepare" => /\ clock <= turn[t].checked + GuestSessionTTL
                                 /\ turn[t].checked + GuestSessionTTL <= chat[c].expires + Grace

SessionInv == CleaningInv /\ BoundInv /\ UseInv

\* A guest that is not the one of the chat session is dead.
GuestInv == \A t \in Turns :
    /\ turn[t].pc \notin {"idle", "attach", "over"} /\ chat[turn[t].chat] # NULL =>
         chat[turn[t].chat].guest = turn[t].guest \/ turn[t].guest \notin live
    /\ turn[t].pc = "place" =>
         /\ turn[t].owner = Account <=> turn[t].signed
         /\ turn[t].owner # Account => turn[t].owner = turn[t].guest \/ turn[t].guest \notin live

\* Every order was entered by a turn with the tools in its hands.
OrderInv == \A b \in Orders :
    /\ ledger[b] # NULL <=> origin[b] # NULL
    /\ ledger[b] # NULL =>
         /\ turn[origin[b]].pc \notin {"idle", "attach", "check", "prepare"}
         /\ ledger[b].key[1] = turn[origin[b]].chat

\* A selection that a turn knows of is in the session, and is not taken back.
SelectInv == \A t \in Turns :
    /\ InUse(t) /\ (turn[t].selected \/ Has(turn[t].results, "select", {"ok"})) =>
         chat[turn[t].chat].selected
    /\ turn[t].pc = "finalize" => ~turn[t].answer.recs
    /\ (turn[t].pc = "persist" \/ Answered(t)) /\ turn[t].answer.recs
       /\ ~HasSearchTripsAlternative(turn[t].results) =>
         ~turn[t].selected /\ ~Has(turn[t].results, "select", {"ok"})

\* The order b is in the ledger for the conversation and the caller of t.
Mine(t, b) ==
    /\ ledger[b] # NULL /\ ledger[b].key[1] = turn[t].chat
    /\ (ledger[b].placed_by = Account) = turn[t].signed

\* What a turn has been told of its orders.
ClaimInv == \A t \in Turns :
    /\ turn[t].pc = "mark" => Mine(t, turn[t].order)
    /\ \A i \in DOMAIN turn[t].results :
         /\ turn[t].results[i].outcome = "created" =>
              turn[t].results[i].tool = "book" /\ \E b \in Orders : Mine(t, b)
         /\ turn[t].results[i].outcome = "limit" => turn[t].results[i].tool = "book"
    /\ (turn[t].pc = "persist" \/ Answered(t)) /\ turn[t].answer.claim =>
         HasSuccessfulCreateBooking(turn[t].results)

\* No order is created after the limit was told.
LimitInv == \A t \in Turns :
    /\ turn[t].pc \in {"owner", "place", "mark"} => ~GuestOrderLimitReached(turn[t].results)
    /\ \A i \in ToldCreated(t) : \A j \in 1 .. i : turn[t].results[j].outcome # "limit"

\* The session tells that its conversation has an order, unless it is gone.
Marked(c) == chat[c] # NULL => chat[c].marker # NULL

\* While nothing has failed: a turn between the duplicate guard and its order has
\* seen a conversation whose orders, if any, belong to turns that overlap with it;
\* an order is marked unless its turn is about to mark it; and a turn has at most
\* one result for the order it entered.
MarkInv == faults = 0 =>
    /\ \A t \in Turns : ~turn[t].cancelled
    /\ \A t \in Turns : \A u \in turn[t].after : turn[u].pc = "over"
    /\ \A b \in Orders : ledger[b] # NULL =>
         \/ turn[origin[b]].pc = "mark" /\ turn[origin[b]].order = b
         \/ Marked(ledger[b].key[1])
    /\ \A t \in Turns : turn[t].pc \in {"owner", "place"} =>
         \A b \in Orders : (ledger[b] # NULL /\ ledger[b].key[1] = turn[t].chat) =>
            origin[b] # t /\ origin[b] \notin turn[t].after

\* While nothing has failed: a turn is told of the order it entered, at the latest
\* when the order is marked, and of no other after it.
ToldInv == faults = 0 => \A t \in Turns :
    /\ InUse(t) /\ ToldCreated(t) # {} => chat[turn[t].chat].marker # NULL
    /\ turn[t].pc \in {"owner", "place", "mark"} => ToldCreated(t) = {}
    /\ \A i, j \in ToldCreated(t) : i = j
    /\ \A b \in PlacedIn(t) : turn[t].pc # "over" \/ Answered(t) =>
         \/ turn[t].pc = "mark" /\ turn[t].order = b
         \/ \E i \in ToldCreated(t) : turn[t].results[i].orders = {b}

\* Steps of a turn that holds a list for the model.
ModelSteps == {"stream", "generate"} \cup ToolSteps

\* A request that is over the budget has nothing left that may go.
Fits(me) == me.selected \/ EstimateContextTokens(me.context) <= load.limit \/ Eligible(me.context) = {}

\* The list is complete: behind the prompt it has a message for every result, and
\* one of the model for every round that made calls.
ListOK(me) ==
    /\ me.round \in Nat \ {0}
    /\ ContextOK(me.context, me.history, me.selected)
    /\ Len(me.context.msgs) - me.context.start =
         Len(me.results) + me.round - (IF me.pc \in {"stream", "generate"} THEN 1 ELSE 0)
    /\ me.pc \in {"stream", "generate"} => Fits(me)

EarlyRound(me) == me.pc \in {"attach", "check", "prepare"} => me.round = 1

ContextInv == \A t \in Turns :
    EarlyRound(turn[t]) /\ (turn[t].pc \in ModelSteps => ListOK(turn[t]))

\* The inductive invariant.
IInv ==
    /\ TypeOK
    /\ \A t \in Turns : TextOK(turn[t])
    /\ SessionInv
    /\ GuestInv /\ OrderInv /\ GuestOrdersAreTheCallers
    /\ SelectInv /\ ClaimInv /\ LimitInv
    /\ MarkInv /\ ToldInv /\ OneOrderPerConversation
    /\ ContextInv

-----------------------------------------------------------------------------
(* Kinds of steps.  What a step does to the local state of its turn and to   *)
(* the rows, as far as the invariants can see it.                            *)

\* What a step of t leaves as it was: the request, the texts, what it read.
SameCaller(t) ==
    /\ turn'[t].signed = turn[t].signed /\ turn'[t].guest = turn[t].guest
    /\ turn'[t].chat = turn[t].chat /\ turn'[t].after = turn[t].after

SameText(t) ==
    /\ turn'[t].stream = turn[t].stream
    /\ turn'[t].committed = turn[t].committed /\ turn'[t].shown = turn[t].shown
    /\ turn'[t].answer = turn[t].answer /\ turn'[t].reply = turn[t].reply

SameSession(t) ==
    /\ turn'[t].checked = turn[t].checked /\ turn'[t].selected = turn[t].selected
    /\ turn'[t].cancelled = turn[t].cancelled

\* A step of t leaves the other turns alone.
Moves(t) ==
    /\ turn' = [u \in Turns |-> turn'[u]]
    /\ \A u \in Turns : u # t => turn'[u] = turn[u]

\* The step of t was answered, or it was not and a failure was counted or t was
\* cancelled.
Counts(t) == faults' = faults \/ faults' = faults + 1

\* Rows are kept, with their expiry and their guest; what is set is not reset.
RowsKept ==
    \A c \in ChatIDs :
        /\ chat'[c] = NULL <=> chat[c] = NULL
        /\ chat[c] # NULL =>
             /\ chat'[c].guest = chat[c].guest /\ chat'[c].expires = chat[c].expires
             /\ chat[c].selected => chat'[c].selected
             /\ chat[c].marker # NULL => chat'[c].marker # NULL

\* An action that writes the record of its turn writes no other turn.
LEMMA Becomes ==
    ASSUME TypeOK, NEW t \in Turns, NEW new, Become(t, new)
    PROVE  turn'[t] = new /\ Moves(t)
BY DEF TypeOK, Become, Moves

\* Local states that differ in named fields only.
LEMMA DomainOver == ASSUME NEW me, NEW reply PROVE DOMAIN Over(me, reply) = Fields
BY DEF Over, NewTurn, Fields

\* The turn is over; only an answer that was persisted keeps its results.
EndStep(t) ==
    /\ turn[t].pc \in {"attach", "check", "prepare", "stream", "generate", "persist"}
    /\ turn'[t].pc = "over"
    /\ SameCaller(t) /\ turn'[t].selected = turn[t].selected
    /\ turn'[t].committed = turn[t].committed /\ turn'[t].shown = turn[t].shown
    /\ turn'[t].cancelled = FALSE
    /\ \/ turn'[t].reply = "error" /\ turn'[t].results = <<>>
       \/ /\ turn[t].pc = "persist" /\ turn'[t].reply = "done"
          /\ turn'[t].results = turn[t].results /\ turn'[t].answer = turn[t].answer

\* A turn that ends, with an answer or an error, makes an EndStep.
LEMMA Ends ==
    ASSUME TypeOK, NEW t \in Turns,
           turn[t].pc \in {"attach", "check", "prepare", "stream", "generate", "persist"},
           Become(t, Over(turn[t], "error")) \/
             (turn[t].pc = "persist" /\ Become(t, Over(turn[t], "done")))
    PROVE  Moves(t) /\ TurnOK(turn'[t]) /\ EndStep(t)
<1>1. TurnOK(turn[t])
  BY DEF TypeOK
<1>2. CASE Become(t, Over(turn[t], "error"))
  <2>1. turn'[t] = Over(turn[t], "error") /\ Moves(t)
    BY <1>2, Becomes
  <2>2. DOMAIN turn'[t] = Fields
    BY <2>1, DomainOver
  <2>3. EndStep(t)
    BY <2>1 DEF EndStep, SameCaller, Over, NewTurn
  <2>4. turn'[t].results = <<>> /\ turn'[t].stream = FALSE /\ turn'[t].checked = 0 /\ turn'[t].reply = "error"
    BY <2>1 DEF Over, NewTurn
  <2>5. FlagsOK(turn'[t])
    BY <1>1, <2>3, <2>4 DEF TurnOK, FlagsOK, EndStep, SameCaller
  <2>6. CallerOK(turn'[t])
    BY <1>1, <2>3, <2>4 DEF TurnOK, CallerOK, EndStep, SameCaller
  <2>7. WorkOK(turn'[t])
    BY <2>3, <2>4 DEF WorkOK, EndStep, TurnSteps
  <2> QED
    BY <2>1, <2>2, <2>3, <2>5, <2>6, <2>7 DEF TurnOK
<1>3. CASE turn[t].pc = "persist" /\ Become(t, Over(turn[t], "done"))
  <2>1. turn'[t] = Over(turn[t], "done") /\ Moves(t)
    BY <1>3, Becomes
  <2>2. DOMAIN turn'[t] = Fields
    BY <2>1, DomainOver
  <2>3. EndStep(t)
    BY <1>3, <2>1 DEF EndStep, SameCaller, Over, NewTurn
  <2>4. /\ turn'[t].results = turn[t].results /\ turn'[t].stream = FALSE /\ turn'[t].checked = 0
        /\ turn'[t].reply = "done" /\ turn'[t].answer = turn[t].answer
    BY <2>1 DEF Over, NewTurn
  <2>5. FlagsOK(turn'[t])
    BY <1>1, <2>3, <2>4 DEF TurnOK, FlagsOK, EndStep, SameCaller
  <2>6. CallerOK(turn'[t])
    BY <1>1, <2>3, <2>4 DEF TurnOK, CallerOK, EndStep, SameCaller
  <2>7. WorkOK(turn'[t])
    BY <1>1, <1>3, <2>3, <2>4 DEF TurnOK, WorkOK, EndStep, TurnSteps
  <2> QED
    BY <2>1, <2>2, <2>3, <2>5, <2>6, <2>7 DEF TurnOK
<1> QED
  BY <1>2, <1>3

\* What a step that keeps the request keeps of the types.
LEMMA FlagsKept ==
    ASSUME NEW t \in Turns, TurnOK(turn[t]), SameCaller(t), SameSession(t),
           turn'[t].stream = turn[t].stream, turn[t].pc # "idle",
           turn'[t].pc \in {"idle", "attach", "check"} => turn[t].pc \in {"attach", "check"},
           turn'[t].committed \in BOOLEAN, turn'[t].shown \in BOOLEAN
    PROVE  FlagsOK(turn'[t]) /\ CallerOK(turn'[t])
BY DEF TurnOK, FlagsOK, CallerOK, SameCaller, SameSession

\* A step of the rounds with the provider.
TalkStep(t) ==
    /\ turn[t].pc \in {"stream", "generate", "more"}
    /\ SameCaller(t) /\ SameSession(t)
    /\ turn'[t].stream = turn[t].stream /\ turn'[t].results = turn[t].results
    /\ turn'[t].reply = turn[t].reply
    /\ \/ /\ turn[t].pc = "stream" /\ turn'[t].pc = "stream"
          /\ \E shows \in BOOLEAN : /\ turn'[t].committed = (turn[t].committed \/ shows)
                                    /\ turn'[t].shown = (turn[t].shown \/ shows)
       \/ /\ turn'[t].pc = "tools"
          /\ turn'[t].committed = turn[t].committed /\ turn'[t].shown = turn[t].shown
       \/ /\ turn[t].pc = "stream" /\ turn'[t].pc = "generate"
          /\ turn[t].committed = FALSE
          /\ turn'[t].committed = turn[t].committed /\ turn'[t].shown = turn[t].shown
       \/ /\ turn[t].pc \in {"stream", "generate"} /\ turn'[t].pc = "finalize"
          /\ turn'[t].committed = turn[t].committed /\ turn'[t].shown = turn[t].shown
          /\ turn'[t].answer \in AnswerRow /\ turn'[t].answer.recs = FALSE
          /\ \/ turn'[t].answer.text = turn[t].pc
             \/ turn'[t].answer.text = "empty" /\ turn[t].committed = FALSE
             \/ turn'[t].answer.text = "apology" /\ (turn[t].stream => ~turn[t].shown)
       \/ /\ turn[t].pc = "more"
          /\ turn'[t].pc = IF turn[t].stream THEN "stream" ELSE "generate"
          /\ turn'[t].committed = FALSE /\ turn'[t].shown = turn[t].shown

\* The types after such a step.
LEMMA TalkTypes ==
    ASSUME NEW t \in Turns, TurnOK(turn[t]), TalkStep(t), DOMAIN turn'[t] = Fields
    PROVE  TurnOK(turn'[t])
<1>1. turn[t].pc # "idle" /\ turn'[t].pc \in {"stream", "generate", "tools", "finalize"}
  BY DEF TalkStep
<1>2. turn'[t].committed \in BOOLEAN /\ turn'[t].shown \in BOOLEAN
  BY DEF TalkStep, TurnOK, FlagsOK
<1>3. FlagsOK(turn'[t]) /\ CallerOK(turn'[t])
  BY <1>1, <1>2, FlagsKept DEF TalkStep
<1>4. turn'[t].results \in Seq(ToolResult)
  BY DEF TalkStep, TurnOK, WorkOK
<1>5. turn'[t].reply = "none"
  BY <1>1 DEF TalkStep, TurnOK, WorkOK
<1>6. turn'[t].pc = "finalize" => turn'[t].answer \in AnswerRow
  BY DEF TalkStep
<1>7. WorkOK(turn'[t])
  BY <1>1, <1>4, <1>5, <1>6 DEF WorkOK, TurnSteps, ToolSteps
<1> QED
  BY <1>3, <1>7 DEF TurnOK

\* The turn becomes what it was but for its step, its answer or its context.
LEMMA Finishing ==
    ASSUME TypeOK, NEW t \in Turns, turn[t].pc \in {"stream", "generate"}, NEW answer,
           answer \in AnswerRow, answer.recs = FALSE,
           \/ answer.text = turn[t].pc
           \/ answer.text = "empty" /\ turn[t].committed = FALSE
           \/ answer.text = "apology" /\ (turn[t].stream => ~turn[t].shown),
           Become(t, [turn[t] EXCEPT !.pc = "finalize", !.answer = answer])
    PROVE  Moves(t) /\ TurnOK(turn'[t]) /\ TalkStep(t)
<1>1. TurnOK(turn[t]) /\ DOMAIN turn[t] = Fields
  BY DEF TypeOK, TurnOK
<1>2. turn'[t] = [turn[t] EXCEPT !.pc = "finalize", !.answer = answer] /\ Moves(t)
  BY Becomes
<1>3. DOMAIN turn'[t] = Fields
  BY <1>1, <1>2
<1>4. TalkStep(t)
  BY <1>1, <1>2 DEF TalkStep, SameCaller, SameSession, Fields
<1> QED
  BY <1>1, <1>2, <1>3, <1>4, TalkTypes

\* The end of the talk is a TalkStep ...
LEMMA Answering ==
    ASSUME TypeOK, NEW t \in Turns, turn[t].pc \in {"stream", "generate"}, Finishes(t, turn[t].pc)
    PROVE  Moves(t) /\ TurnOK(turn'[t]) /\ TalkStep(t)
<1>1. PICK claim \in {FALSE} \cup {c.tool = "book" : c \in load.calls},
           options \in {FALSE} \cup {c.tool = "search" : c \in load.calls},
           text \in {turn[t].pc} \cup IF FinalRound(t) /\ ~turn[t].committed THEN {"empty"} ELSE {} :
         Become(t, [turn[t] EXCEPT !.pc = "finalize", !.answer = Answer(text, claim, options)])
  BY DEF Finishes
<1>2. claim \in BOOLEAN /\ options \in BOOLEAN
  BY <1>1
<1>3. /\ text \in Texts
      /\ text = turn[t].pc \/ (text = "empty" /\ turn[t].committed = FALSE)
  BY <1>1 DEF Texts, TypeOK, TurnOK, FlagsOK
<1>4. /\ Answer(text, claim, options) \in AnswerRow /\ Answer(text, claim, options).recs = FALSE
      /\ Answer(text, claim, options).text = text
  BY <1>2, <1>3 DEF Answer, AnswerRow
<1> QED
  BY <1>1, <1>3, <1>4, Finishing

\* ... so is a failure of the provider, unless it ends the turn ...
LEMMA Failing ==
    ASSUME TypeOK, NEW t \in Turns, turn[t].pc \in {"stream", "generate"}, Fails(t)
    PROVE  Moves(t) /\ TurnOK(turn'[t]) /\ (TalkStep(t) \/ EndStep(t))
<1>1. CASE turn[t].stream /\ (turn[t].cancelled \/ turn[t].shown)
  BY <1>1, Ends DEF Fails
<1>2. CASE ~(turn[t].stream /\ (turn[t].cancelled \/ turn[t].shown))
  <2>1. /\ Answer("apology", FALSE, TRUE) \in AnswerRow
        /\ Answer("apology", FALSE, TRUE).recs = FALSE
        /\ Answer("apology", FALSE, TRUE).text = "apology"
    BY DEF Answer, AnswerRow, Texts
  <2>2. Become(t, [turn[t] EXCEPT !.pc = "finalize", !.answer = Answer("apology", FALSE, TRUE)])
    BY <1>2 DEF Fails
  <2> QED
    BY <1>2, <2>1, <2>2, Finishing
<1> QED
  BY <1>1, <1>2

\* ... so are the calls the model makes ...
LEMMA Responding ==
    ASSUME TypeOK, NEW t \in Turns, turn[t].pc \in {"stream", "generate"}, NEW calls,
           Responds(t, turn[t].pc, calls)
    PROVE  Moves(t) /\ TurnOK(turn'[t]) /\ TalkStep(t)
<1>1. CASE Finishes(t, turn[t].pc)
  BY <1>1, Answering
<1>2. CASE Become(t, [turn[t] EXCEPT !.pc = "tools", !.context = AppendMessage(@, "assistant")])
  <2>1. TurnOK(turn[t]) /\ DOMAIN turn[t] = Fields
    BY DEF TypeOK, TurnOK
  <2>2. PICK context : Become(t, [turn[t] EXCEPT !.pc = "tools", !.context = context])
    BY <1>2
  <2>3. turn'[t] = [turn[t] EXCEPT !.pc = "tools", !.context = context] /\ Moves(t)
    BY <2>2, Becomes
  <2>4. DOMAIN turn'[t] = Fields
    BY <2>1, <2>3
  <2>5. TalkStep(t)
    BY <2>1, <2>3 DEF TalkStep, SameCaller, SameSession, Fields
  <2> QED
    BY <2>1, <2>3, <2>4, <2>5, TalkTypes
<1> QED
  BY <1>1, <1>2 DEF Responds

\* ... and so every action between the client and the provider is of these kinds.
LEMMA Talking ==
    ASSUME TypeOK, NEW t \in Turns,
           StreamChunk(t) \/ StreamEnds(t) \/ StreamBreaks(t) \/ Generate(t) \/ NextRound(t)
    PROVE  Moves(t) /\ TurnOK(turn'[t]) /\ (TalkStep(t) \/ EndStep(t))
<1>1. TurnOK(turn[t]) /\ DOMAIN turn[t] = Fields
  BY DEF TypeOK, TurnOK
<1>2. CASE StreamChunk(t)
  <2>1. PICK tool, shows \in BOOLEAN :
           Become(t, [turn[t] EXCEPT !.tool = tool, !.committed = @ \/ shows, !.shown = @ \/ shows])
    BY <1>2 DEF StreamChunk
  <2>2. turn'[t] = [turn[t] EXCEPT !.tool = tool, !.committed = @ \/ shows, !.shown = @ \/ shows]
        /\ Moves(t)
    BY <2>1, Becomes
  <2>3. DOMAIN turn'[t] = Fields
    BY <1>1, <2>2
  <2>4. TalkStep(t)
    BY <1>1, <1>2, <2>2 DEF StreamChunk, At, TalkStep, SameCaller, SameSession, Fields
  <2> QED
    BY <1>1, <2>2, <2>3, <2>4, TalkTypes
<1>3. CASE StreamEnds(t)
  <2>1. turn[t].pc = "stream" /\ \E calls : Responds(t, "stream", calls)
    BY <1>3 DEF StreamEnds, At
  <2> QED
    BY <2>1, Responding
<1>4. CASE StreamBreaks(t)
  <2>1. turn[t].pc = "stream"
    BY <1>4 DEF StreamBreaks, At
  <2>2. CASE Fails(t)
    BY <2>1, <2>2, Failing
  <2>3. CASE ~Fails(t)
    <3>1. turn[t].committed = FALSE /\ Become(t, [turn[t] EXCEPT !.pc = "generate"])
      BY <1>1, <1>4, <2>3 DEF StreamBreaks, Goes, TurnOK, FlagsOK
    <3>2. turn'[t] = [turn[t] EXCEPT !.pc = "generate"] /\ Moves(t)
      BY <3>1, Becomes
    <3>3. DOMAIN turn'[t] = Fields
      BY <1>1, <3>2
    <3>4. TalkStep(t)
      BY <1>1, <2>1, <3>1, <3>2 DEF TalkStep, SameCaller, SameSession, Fields
    <3> QED
      BY <1>1, <3>2, <3>3, <3>4, TalkTypes
  <2> QED
    BY <2>2, <2>3
<1>5. CASE Generate(t)
  <2>1. turn[t].pc = "generate" /\ (Fails(t) \/ \E calls : Responds(t, "generate", calls))
    BY <1>5 DEF Generate, At
  <2> QED
    BY <2>1, Responding, Failing
<1>6. CASE NextRound(t)
  <2>1. PICK round, offered, context :
           Become(t, [turn[t] EXCEPT !.round = round, !.offered = offered,
              !.pc = IF turn[t].stream THEN "stream" ELSE "generate",
              !.context = context, !.tool = FALSE, !.committed = FALSE])
    <3>1. PICK round, offered :
             Become(t, Asks([turn[t] EXCEPT !.round = round, !.offered = offered]))
      BY <1>6 DEF NextRound
    <3>2. [turn[t] EXCEPT !.round = round, !.offered = offered].stream = turn[t].stream
      BY <1>1 DEF Fields
    <3> QED
      BY <3>1, <3>2 DEF Asks
  <2>2. turn'[t] = [turn[t] EXCEPT !.round = round, !.offered = offered,
              !.pc = IF turn[t].stream THEN "stream" ELSE "generate",
              !.context = context, !.tool = FALSE, !.committed = FALSE] /\ Moves(t)
    BY <2>1, Becomes
  <2>3. DOMAIN turn'[t] = Fields
    BY <1>1, <2>2
  <2>4. TalkStep(t)
    BY <1>1, <1>6, <2>2 DEF NextRound, At, TalkStep, SameCaller, SameSession, Fields
  <2> QED
    BY <1>1, <2>2, <2>3, <2>4, TalkTypes
<1> QED
  BY <1>2, <1>3, <1>4, <1>5, <1>6

-----------------------------------------------------------------------------
(* Steps of the tool calls. *)

\* A step of the tools keeps the request, the text and what was read of the session;
\* the kinds of steps below differ in the row or the ledger they write.
ToolBase(t) ==
    /\ turn[t].pc \in ToolSteps /\ turn'[t].pc \in ToolSteps
    /\ SameCaller(t) /\ SameText(t) /\ SameSession(t)

\* A result is added, and the next call may be made.
Tells(t, r) == turn'[t].pc = "more" /\ turn'[t].results = Append(turn[t].results, r)

\* No result is added.
Holds(t) == turn'[t].results = turn[t].results

\* Results that speak neither of an order that was created nor of a selection.
Plain(r) ==
    /\ r \in ToolResult
    /\ r.outcome # "created"
    /\ ~(r.tool = "select" /\ r.outcome = "ok")
    /\ r.outcome = "limit" => r.tool = "book"

\* Nothing is written but a result in the memory of the turn.
PlainTool(t) ==
    /\ ToolBase(t) /\ turn[t].pc # "mark" /\ NoChat /\ NoOrder
    /\ \/ turn'[t].pc = "select" /\ Holds(t)
       \/ \E r \in ToolResult : Plain(r) /\ Tells(t, r)

\* select_package stores the selection of the session.
StoresSelection(t) ==
    /\ ToolBase(t) /\ turn[t].pc = "select" /\ Tells(t, Result("select", "ok"))
    /\ UpdateChatSessionSelectedTrip(turn[t].chat)
    /\ UNCHANGED Others /\ NoOrder

\* create_booking found no order of the session, or its read failed.
PassesGuard(t) ==
    /\ ToolBase(t) /\ turn[t].pc \in {"tools", "more"} /\ turn'[t].pc = "owner" /\ Holds(t)
    /\ ~GuestOrderLimitReached(turn[t].results)
    /\ FindSessionOrder(t) = {} \/ Breaks(t)
    /\ NoChat /\ NoOrder

\* The owner of the order is the account, or the guest of the session.
TakesOwner(t) ==
    /\ ToolBase(t) /\ turn[t].pc = "owner" /\ turn'[t].pc = "place" /\ Holds(t)
    /\ turn'[t].owner \in live \cup {Account}
    /\ \/ turn[t].signed /\ turn'[t].owner = Account
       \/ /\ ~turn[t].signed /\ chat[turn[t].chat] # NULL
          /\ turn'[t].owner = chat[turn[t].chat].guest
    /\ NoChat /\ NoOrder

\* The insert was refused for an order with the same key, which is read.
FindsOrder(t) ==
    /\ ToolBase(t) /\ turn[t].pc = "place" /\ turn'[t].pc = "mark" /\ Holds(t)
    /\ turn'[t].order \in Replay(t)
    /\ NoChat /\ NoOrder

\* The order is committed, whether or not the answer of the database arrives.
EntersOrder(t) ==
    /\ ToolBase(t) /\ turn[t].pc = "place"
    /\ \E b \in NextOrder :
         /\ Enters(t, b)
         /\ \/ turn'[t].pc = "mark" /\ turn'[t].order = b /\ Holds(t)
            \/ Breaks(t) /\ Tells(t, Result("book", "failed"))
    /\ NoChat

\* The marker of the order is written, or that write fails; the result tells it.
MarksOrder(t) ==
    /\ ToolBase(t) /\ turn[t].pc = "mark"
    /\ Tells(t, OrderResult("book", "created", turn[t].order))
    /\ \/ AddOrderMarker(turn[t].chat, turn[t].order)
       \/ Breaks(t) /\ UNCHANGED chat
    /\ UNCHANGED Others /\ NoOrder

ToolKind(t) ==
    \/ PlainTool(t) \/ StoresSelection(t) \/ PassesGuard(t) \/ TakesOwner(t)
    \/ FindsOrder(t) \/ EntersOrder(t) \/ MarksOrder(t)

\* The types after a step of the tools.
LEMMA ToolTypes ==
    ASSUME NEW t \in Turns, TurnOK(turn[t]), ToolBase(t), DOMAIN turn'[t] = Fields,
           turn'[t].results \in Seq(ToolResult),
           turn'[t].pc = "place" => turn'[t].owner \in Guests \cup {Account},
           turn'[t].pc = "mark" => turn'[t].order \in Orders
    PROVE  TurnOK(turn'[t])
<1>1. turn[t].pc # "idle" /\ turn'[t].pc \in ToolSteps
  BY DEF ToolBase, ToolSteps
<1>2. turn'[t].committed \in BOOLEAN /\ turn'[t].shown \in BOOLEAN
  BY DEF ToolBase, SameText, TurnOK, FlagsOK
<1>3. FlagsOK(turn'[t]) /\ CallerOK(turn'[t])
  BY <1>1, <1>2, FlagsKept DEF ToolBase, SameText, ToolSteps
<1>4. turn'[t].reply = "none"
  <2>1. turn[t].pc # "over"
    BY DEF ToolBase, ToolSteps
  <2> QED
    BY <2>1 DEF ToolBase, SameText, TurnOK, WorkOK
<1>5. WorkOK(turn'[t])
  BY <1>1, <1>4 DEF WorkOK, TurnSteps, ToolSteps
<1> QED
  BY <1>3, <1>5 DEF TurnOK

\* Local states that differ in the work of the tools only.
Agree(me, new) ==
    /\ DOMAIN new = Fields
    /\ new.signed = me.signed /\ new.guest = me.guest
    /\ new.chat = me.chat /\ new.after = me.after
    /\ new.stream = me.stream /\ new.committed = me.committed
    /\ new.shown = me.shown /\ new.answer = me.answer /\ new.reply = me.reply
    /\ new.checked = me.checked /\ new.selected = me.selected
    /\ new.cancelled = me.cancelled

\* What a call writes down for its tool is work of the tools.
LEMMA NotedAgrees ==
    ASSUME TypeOK, NEW t \in Turns, NEW call
    PROVE  Agree(turn[t], Noted(t, call)) /\ Noted(t, call).results = turn[t].results
<1>1. DOMAIN turn[t] = Fields
  BY DEF TypeOK, TurnOK
<1> QED
  BY <1>1 DEF Noted, Agree, Fields

LEMMA TurnAgrees ==
    ASSUME TypeOK, NEW t \in Turns
    PROVE  Agree(turn[t], turn[t])
BY DEF TypeOK, TurnOK, Agree

\* A step of the tools.
LEMMA Working ==
    ASSUME TypeOK, NEW t \in Turns, turn[t].pc \in ToolSteps,
           NEW new, Become(t, new), Agree(turn[t], new), new.pc \in ToolSteps,
           new.results \in Seq(ToolResult),
           new.pc = "place" => new.owner \in Guests \cup {Account},
           new.pc = "mark" => new.order \in Orders
    PROVE  Moves(t) /\ TurnOK(turn'[t]) /\ ToolBase(t) /\ turn'[t] = new
<1>1. TurnOK(turn[t])
  BY DEF TypeOK
<1>2. turn'[t] = new /\ Moves(t)
  BY Becomes
<1>3. ToolBase(t) /\ DOMAIN turn'[t] = Fields
  BY <1>2 DEF ToolBase, Agree, SameCaller, SameText, SameSession
<1> QED
  BY <1>1, <1>2, <1>3, ToolTypes

\* A result is returned to the round.
LEMMA Returning ==
    ASSUME TypeOK, NEW t \in Turns, turn[t].pc \in ToolSteps,
           NEW me, Agree(turn[t], me), me.results = turn[t].results,
           NEW r \in ToolResult, Become(t, Returned(me, r))
    PROVE  Moves(t) /\ TurnOK(turn'[t]) /\ ToolBase(t) /\ Tells(t, r)
<1>1. turn[t].results \in Seq(ToolResult)
  BY DEF TypeOK, TurnOK, WorkOK
<1>2. PICK context : Returned(me, r) =
         [me EXCEPT !.pc = "more", !.arg = NULL, !.owner = NULL, !.order = NULL,
                    !.results = Append(@, r), !.context = context]
  BY DEF Returned
<1>3. Agree(turn[t], Returned(me, r))
  BY <1>2 DEF Agree, Fields
<1>4. Returned(me, r).pc = "more" /\ Returned(me, r).results = Append(turn[t].results, r)
  BY <1>2 DEF Agree, Fields
<1>5. Append(turn[t].results, r) \in Seq(ToolResult)
  BY <1>1
<1> QED
  BY <1>3, <1>4, <1>5, Working DEF Tells, ToolSteps

\* Calls of the model name a tool.
LEMMA CallTools ==
    ASSUME TypeOK, NEW call \in load.calls
    PROVE  call.tool \in {"search", "select", "info", "status", "book"}
BY ChatAssumption DEF TypeOK

\* A call that is answered at once.
LEMMA Telling ==
    ASSUME TypeOK, NEW t \in Turns, turn[t].pc \in ToolSteps, turn[t].pc # "mark", NoChat, NoOrder,
           NEW me, me = turn[t] \/ \E call : me = Noted(t, call),
           NEW r, Plain(r), Become(t, Returned(me, r))
    PROVE  Moves(t) /\ TurnOK(turn'[t]) /\ PlainTool(t)
<1>1. r \in ToolResult
  BY DEF Plain
<1>2. Agree(turn[t], me) /\ me.results = turn[t].results
  BY NotedAgrees, TurnAgrees
<1>3. Moves(t) /\ TurnOK(turn'[t]) /\ ToolBase(t) /\ Tells(t, r)
  BY <1>1, <1>2, Returning
<1> QED
  BY <1>1, <1>3 DEF PlainTool

\* Which results are plain.
LEMMA PlainResults ==
    ASSUME NEW tool \in {"search", "select", "info", "status", "book"},
           NEW outcome \in {"initial", "alternative", "conflict", "failed", "ok", "exists", "limit", "duplicate"},
           NEW orders \in SUBSET Orders,
           tool = "select" => outcome # "ok", outcome = "limit" => tool = "book"
    PROVE  Plain([tool |-> tool, outcome |-> outcome, orders |-> orders])
BY DEF Plain, ToolResult

\* The kinds of each tool action, one lemma each.
LEMMA Repeating ==
    ASSUME TypeOK, NEW t \in Turns, Repeated(t)
    PROVE  Moves(t) /\ TurnOK(turn'[t]) /\ PlainTool(t)
<1>1. turn[t].pc \in ToolSteps /\ turn[t].pc # "mark" /\ NoChat /\ NoOrder
  BY DEF Repeated, MayCall, ToolSteps
<1>2. PICK call \in load.calls :
         \/ Become(t, Returned(turn[t], Result("book", "limit")))
         \/ Become(t, Returned(turn[t], Result(call.tool, "duplicate")))
  BY DEF Repeated
<1>3. Plain(Result("book", "limit")) /\ Plain(Result(call.tool, "duplicate"))
  BY CallTools, PlainResults DEF Result
<1> QED
  BY <1>1, <1>2, <1>3, Telling

\* The calls that tell what they read.
LEMMA Reading ==
    ASSUME TypeOK, NEW t \in Turns,
           ExecuteSearchTrips(t) \/ ExecuteInfo(t) \/ ExecuteCheckOrderStatus(t)
    PROVE  Moves(t) /\ TurnOK(turn'[t]) /\ PlainTool(t)
<1>1. turn[t].pc \in ToolSteps /\ turn[t].pc # "mark" /\ NoChat /\ NoOrder
  BY DEF ExecuteSearchTrips, ExecuteInfo, ExecuteCheckOrderStatus, NewCalls, MayCall, ToolSteps
<1>2. CASE ExecuteSearchTrips(t)
  <2>1. PICK call \in NewCalls(t, "search"),
             outcome \in {"failed", "alternative", "conflict", "initial"} : Returns(t, call, outcome)
    BY <1>2 DEF ExecuteSearchTrips
  <2>2. call.tool = "search"
    BY <2>1 DEF NewCalls
  <2>3. Plain(Result(call.tool, outcome))
    BY <2>1, <2>2, PlainResults DEF Result
  <2> QED
    BY <1>1, <2>1, <2>3, Telling DEF Returns
<1>3. CASE ExecuteInfo(t)
  <2>1. PICK call \in NewCalls(t, "info"), outcome \in {"failed", "ok"} : Returns(t, call, outcome)
    BY <1>3 DEF ExecuteInfo
  <2>2. call.tool = "info"
    BY <2>1 DEF NewCalls
  <2>3. Plain(Result(call.tool, outcome))
    BY <2>1, <2>2, PlainResults DEF Result
  <2> QED
    BY <1>1, <2>1, <2>3, Telling DEF Returns
<1>4. CASE ExecuteCheckOrderStatus(t)
  <2>1. PICK call \in NewCalls(t, "status"), orders \in {FindSessionOrder(t), {}} :
           Become(t, Returned(Noted(t, call), [Result("status", "ok") EXCEPT !.orders = orders]))
    BY <1>4 DEF ExecuteCheckOrderStatus
  <2>2. orders \in SUBSET Orders
    <3>1. turn[t].chat \in ChatIDs
      BY <1>1 DEF TypeOK, TurnOK, CallerOK, ToolSteps
    <3>2. chat[turn[t].chat] # NULL => chat[turn[t].chat].marker \in Orders \cup {NULL}
      BY <3>1 DEF TypeOK, ChatRow
    <3> QED
      BY <2>1, <3>2 DEF FindSessionOrder, Exists
  <2>3. [Result("status", "ok") EXCEPT !.orders = orders] =
           [tool |-> "status", outcome |-> "ok", orders |-> orders]
    BY DEF Result
  <2>4. Plain([Result("status", "ok") EXCEPT !.orders = orders])
    BY <2>2, <2>3, PlainResults
  <2> QED
    BY <1>1, <2>1, <2>4, Telling
<1> QED
  BY <1>2, <1>3, <1>4

LEMMA Selecting ==
    ASSUME TypeOK, NEW t \in Turns, ExecuteSelectPackage(t) \/ StoreSelection(t)
    PROVE  Moves(t) /\ TurnOK(turn'[t]) /\ (PlainTool(t) \/ StoresSelection(t))
<1>1. turn[t].pc \in ToolSteps /\ turn[t].pc # "mark" /\ NoOrder
  BY DEF ExecuteSelectPackage, StoreSelection, At, NewCalls, MayCall, ToolSteps
<1>2. Plain(Result("select", "failed")) /\ Result("select", "ok") \in ToolResult
  BY PlainResults DEF Result, ToolResult
<1>3. CASE ExecuteSelectPackage(t)
  <2>1. PICK call \in NewCalls(t, "select") :
           \/ Become(t, [Noted(t, call) EXCEPT !.pc = "select"])
           \/ Returns(t, call, "failed")
    BY <1>3 DEF ExecuteSelectPackage
  <2>2. NoChat /\ call.tool = "select"
    BY <1>3, <2>1 DEF ExecuteSelectPackage, NewCalls
  <2>3. CASE Returns(t, call, "failed")
    BY <1>1, <1>2, <2>2, <2>3, Telling DEF Returns
  <2>4. CASE Become(t, [Noted(t, call) EXCEPT !.pc = "select"])
    <3> DEFINE new == [Noted(t, call) EXCEPT !.pc = "select"]
    <3>1. Agree(turn[t], new) /\ new.pc = "select" /\ new.results = turn[t].results
      BY NotedAgrees DEF Agree, Fields
    <3>2. turn[t].results \in Seq(ToolResult)
      BY DEF TypeOK, TurnOK, WorkOK
    <3> HIDE DEF new
    <3>3. Moves(t) /\ TurnOK(turn'[t]) /\ ToolBase(t) /\ turn'[t] = new
      BY <1>1, <2>4, <3>1, <3>2, Working DEF new, ToolSteps
    <3> QED
      BY <1>1, <2>2, <3>1, <3>3 DEF PlainTool, Holds
  <2> QED
    BY <2>1, <2>3, <2>4
<1>4. CASE StoreSelection(t)
  <2>1. CASE Become(t, Returned(turn[t], Result("select", "ok"))) /\ UpdateChatSessionSelectedTrip(turn[t].chat)
    <3>1. Moves(t) /\ TurnOK(turn'[t]) /\ ToolBase(t) /\ Tells(t, Result("select", "ok"))
      BY <1>1, <1>2, <2>1, Returning, TurnAgrees
    <3> QED
      BY <1>1, <1>4, <2>1, <3>1 DEF StoreSelection, StoresSelection, At
  <2>2. CASE Become(t, Returned(turn[t], Result("select", "failed"))) /\ UNCHANGED chat
    <3>1. NoChat
      BY <1>4, <2>2 DEF StoreSelection, NoChat
    <3> QED
      BY <1>1, <1>2, <2>2, <3>1, Telling
  <2> QED
    BY <1>4, <2>1, <2>2 DEF StoreSelection
<1> QED
  BY <1>3, <1>4


\* create_booking: the order of the session is told, the arguments are refused, or
\* the guard is passed.
LEMMA Guarding ==
    ASSUME TypeOK, NEW t \in Turns, ExecuteCreateBooking(t)
    PROVE  Moves(t) /\ TurnOK(turn'[t]) /\ (PlainTool(t) \/ PassesGuard(t))
<1>1. PICK call \in NewCalls(t, "book") :
         \/ \E b \in FindSessionOrder(t) : Become(t, Returned(Noted(t, call), OrderResult("book", "exists", b)))
         \/ Returns(t, call, "failed")
         \/ /\ FindSessionOrder(t) = {} \/ Breaks(t)
            /\ Become(t, [Noted(t, call) EXCEPT !.pc = "owner"])
  BY DEF ExecuteCreateBooking
<1>2. /\ turn[t].pc \in {"tools", "more"} /\ call.tool = "book"
      /\ ~GuestOrderLimitReached(turn[t].results) /\ NoChat /\ NoOrder
  BY <1>1 DEF ExecuteCreateBooking, NewCalls, MayCall, Blocked
<1>3. turn[t].pc \in ToolSteps /\ turn[t].pc # "mark" /\ "owner" \in ToolSteps
  BY <1>2 DEF ToolSteps
<1>4. CASE \E b \in FindSessionOrder(t) : Become(t, Returned(Noted(t, call), OrderResult("book", "exists", b)))
  <2>1. PICK b \in FindSessionOrder(t) : Become(t, Returned(Noted(t, call), OrderResult("book", "exists", b)))
    BY <1>4
  <2>2. b \in Orders
    <3>1. turn[t].chat \in ChatIDs
      BY <1>2 DEF TypeOK, TurnOK, CallerOK
    <3>2. chat[turn[t].chat] # NULL => chat[turn[t].chat].marker \in Orders \cup {NULL}
      BY <3>1 DEF TypeOK, ChatRow
    <3> QED
      BY <2>1, <3>2 DEF FindSessionOrder, Exists
  <2>3. Plain(OrderResult("book", "exists", b))
    BY <2>2, PlainResults DEF OrderResult
  <2> QED
    BY <1>2, <1>3, <2>1, <2>3, Telling
<1>5. CASE Returns(t, call, "failed")
  <2>1. Plain(Result(call.tool, "failed"))
    BY <1>2, PlainResults DEF Result
  <2> QED
    BY <1>2, <1>3, <1>5, <2>1, Telling DEF Returns
<1>6. CASE /\ FindSessionOrder(t) = {} \/ Breaks(t)
           /\ Become(t, [Noted(t, call) EXCEPT !.pc = "owner"])
  <2> DEFINE new == [Noted(t, call) EXCEPT !.pc = "owner"]
  <2>1. Agree(turn[t], new) /\ new.pc = "owner" /\ new.results = turn[t].results
    BY NotedAgrees DEF Agree, Fields
  <2>2. turn[t].results \in Seq(ToolResult)
    BY DEF TypeOK, TurnOK, WorkOK
  <2>6. Become(t, new)
    BY <1>6
  <2> HIDE DEF new
  <2>3. Moves(t) /\ TurnOK(turn'[t]) /\ ToolBase(t) /\ turn'[t] = new
    BY <1>3, <2>1, <2>2, <2>6, Working
  <2>4. FindSessionOrder(t) = {} \/ Breaks(t)
    BY <1>6
  <2>5. turn'[t].pc = "owner" /\ turn'[t].results = turn[t].results
    BY <2>1, <2>3
  <2> QED
    BY <1>2, <2>3, <2>4, <2>5 DEF PassesGuard, Holds
<1> QED
  BY <1>1, <1>4, <1>5, <1>6

LEMMA Owning ==
    ASSUME TypeOK, NEW t \in Turns, ReadOwner(t)
    PROVE  Moves(t) /\ TurnOK(turn'[t]) /\ (PlainTool(t) \/ TakesOwner(t))
<1>1. turn[t].pc = "owner" /\ NoChat /\ NoOrder /\ turn[t].pc \in ToolSteps
  BY DEF ReadOwner, At, ToolSteps
<1>2. turn[t].results \in Seq(ToolResult) /\ DOMAIN turn[t] = Fields /\ turn[t].chat \in ChatIDs
  BY <1>1 DEF TypeOK, TurnOK, WorkOK, CallerOK
<1> DEFINE owner == IF turn[t].signed THEN Account
                    ELSE IF Exists(turn[t].chat) THEN chat[turn[t].chat].guest ELSE NULL
<1>3. CASE Become(t, Returned(turn[t], Result("book", "failed")))
  <2>1. Plain(Result("book", "failed"))
    BY PlainResults DEF Result
  <2> QED
    BY <1>1, <1>3, <2>1, Telling
<1>4. CASE owner \in live \cup {Account} /\ Become(t, [turn[t] EXCEPT !.pc = "place", !.owner = owner])
  <2> DEFINE new == [turn[t] EXCEPT !.pc = "place", !.owner = owner]
  <2>1. Agree(turn[t], new) /\ new.pc = "place" /\ new.results = turn[t].results /\ new.owner = owner
    BY <1>2 DEF Agree, Fields
  <2>2. owner \in Guests \cup {Account}
    BY <1>4 DEF TypeOK
  <2>3. \/ turn[t].signed /\ owner = Account
        \/ /\ ~turn[t].signed /\ chat[turn[t].chat] # NULL
           /\ owner = chat[turn[t].chat].guest
    <3>1. NULL \notin live \cup {Account}
      BY ChatNullAssumption DEF TypeOK
    <3> QED
      BY <1>4, <3>1 DEF Exists
  <2>4. Become(t, new)
    BY <1>4
  <2> HIDE DEF new, owner
  <2>5. Moves(t) /\ TurnOK(turn'[t]) /\ ToolBase(t) /\ turn'[t] = new
    BY <1>1, <1>2, <2>1, <2>2, <2>4, Working DEF ToolSteps
  <2>6. turn'[t].owner \in live \cup {Account}
    BY <1>4, <2>1, <2>5
  <2> QED
    BY <1>1, <2>1, <2>3, <2>5, <2>6 DEF TakesOwner, Holds
<1> QED
  BY <1>3, <1>4 DEF ReadOwner

LEMMA Placing ==
    ASSUME TypeOK, NEW t \in Turns, PlaceOrder(t)
    PROVE  Moves(t) /\ TurnOK(turn'[t]) /\ (PlainTool(t) \/ FindsOrder(t) \/ EntersOrder(t))
<1>1. turn[t].pc = "place" /\ NoChat /\ turn[t].pc \in ToolSteps
  BY DEF PlaceOrder, At, ToolSteps
<1>2. turn[t].results \in Seq(ToolResult) /\ DOMAIN turn[t] = Fields
  BY DEF TypeOK, TurnOK, WorkOK
<1>3. Plain(Result("book", "failed")) /\ Plain(Result("book", "limit"))
  BY PlainResults DEF Result
<1>4. ASSUME NEW b \in Orders, Placed(t, b)
      PROVE  Moves(t) /\ TurnOK(turn'[t]) /\ ToolBase(t) /\ turn'[t].pc = "mark"
             /\ turn'[t].order = b /\ Holds(t)
  <2> DEFINE new == [turn[t] EXCEPT !.pc = "mark", !.order = b]
  <2>1. Agree(turn[t], new) /\ new.pc = "mark" /\ new.results = turn[t].results /\ new.order = b
    BY <1>2 DEF Agree, Fields
  <2>2. Become(t, new)
    BY <1>4 DEF Placed
  <2> HIDE DEF new
  <2>3. Moves(t) /\ TurnOK(turn'[t]) /\ ToolBase(t) /\ turn'[t] = new
    BY <1>1, <1>2, <2>1, <2>2, Working DEF ToolSteps
  <2> QED
    BY <2>1, <2>3 DEF Holds
<1>5. CASE \E b \in Replay(t) : Placed(t, b) /\ NoOrder
  BY <1>1, <1>4, <1>5 DEF FindsOrder, Replay
<1>6. CASE \E b \in NextOrder : Enters(t, b) /\ Placed(t, b)
  <2>1. PICK b \in NextOrder : Enters(t, b) /\ Placed(t, b)
    BY <1>6
  <2>2. b \in Orders
    BY <2>1 DEF NextOrder
  <2> QED
    BY <1>1, <1>4, <2>1, <2>2 DEF EntersOrder
<1>7. CASE NoOrder /\ (Become(t, Returned(turn[t], Result("book", "failed")))
                       \/ Become(t, Returned(turn[t], Result("book", "limit"))))
  BY <1>1, <1>3, <1>7, Telling
<1>8. CASE /\ Breaks(t) /\ Become(t, Returned(turn[t], Result("book", "failed")))
           /\ \E b \in NextOrder : Enters(t, b)
  <2>1. Result("book", "failed") \in ToolResult
    BY <1>3 DEF Plain
  <2>2. Moves(t) /\ TurnOK(turn'[t]) /\ ToolBase(t) /\ Tells(t, Result("book", "failed"))
    BY <1>1, <1>8, <2>1, Returning, TurnAgrees
  <2> QED
    BY <1>1, <1>8, <2>2 DEF EntersOrder
<1> QED
  BY <1>5, <1>6, <1>7, <1>8 DEF PlaceOrder

LEMMA Marking ==
    ASSUME TypeOK, NEW t \in Turns, WriteMarker(t)
    PROVE  Moves(t) /\ TurnOK(turn'[t]) /\ MarksOrder(t)
<1>1. turn[t].pc = "mark" /\ turn[t].pc \in ToolSteps /\ turn[t].order \in Orders
  BY DEF WriteMarker, At, ToolSteps, TypeOK, TurnOK, WorkOK
<1>2. OrderResult("book", "created", turn[t].order) \in ToolResult
  BY <1>1 DEF OrderResult, ToolResult
<1>3. Become(t, Returned(turn[t], OrderResult("book", "created", turn[t].order)))
  BY DEF WriteMarker
<1>4. Moves(t) /\ TurnOK(turn'[t]) /\ ToolBase(t) /\ Tells(t, OrderResult("book", "created", turn[t].order))
  BY <1>1, <1>2, <1>3, Returning, TurnAgrees
<1> QED
  BY <1>1, <1>4 DEF WriteMarker, MarksOrder

\* The actions of the tools.
ToolStep(t) ==
    \/ Repeated(t) \/ ExecuteSearchTrips(t) \/ ExecuteInfo(t) \/ ExecuteCheckOrderStatus(t)
    \/ ExecuteSelectPackage(t) \/ StoreSelection(t) \/ ExecuteCreateBooking(t) \/ ReadOwner(t)
    \/ PlaceOrder(t) \/ WriteMarker(t)

\* Every action of the tools is of one of their kinds.
LEMMA Calling ==
    ASSUME TypeOK, NEW t \in Turns, ToolStep(t)
    PROVE  Moves(t) /\ TurnOK(turn'[t]) /\ ToolKind(t)
BY Repeating, Reading, Selecting, Guarding, Owning, Placing, Marking DEF ToolStep, ToolKind

-----------------------------------------------------------------------------
(* Steps before and after the model. *)

\* A request has come: its session is there, or is created.
Arrives(t) ==
    /\ turn[t].pc = "idle" /\ turn'[t].pc = "attach"
    /\ turn'[t].guest \in live /\ turn'[t].chat \in ChatIDs
    /\ turn'[t].checked = clock /\ turn'[t].after = {u \in Turns : At(u, "over")}
    /\ turn'[t].cancelled = FALSE /\ turn'[t].shown = FALSE /\ turn'[t].committed = FALSE
    /\ turn'[t].results = <<>> /\ turn'[t].reply = "none"
    /\ \/ UNCHANGED chat /\ chat[turn'[t].chat] # NULL
       \/ turn'[t].chat \in Fresh /\ CreateChatSession(turn'[t].chat, NULL)
    /\ UNCHANGED <<Others, faults>> /\ NoOrder

LEMMA Arriving ==
    ASSUME TypeOK, NEW t \in Turns, Arrive(t)
    PROVE  Moves(t) /\ TurnOK(turn'[t]) /\ Arrives(t)
<1>1. PICK signed \in load.signed, stream \in load.stream, g \in load.guests \cap live,
           cookie \in load.cookies : \E c \in ResolveGuestSession(cookie) :
        /\ Become(t, [NewTurn EXCEPT !.pc = "attach", !.signed = signed, !.stream = stream, !.guest = g,
              !.chat = c, !.checked = clock, !.after = {u \in Turns : At(u, "over")}])
        /\ IF Usable(cookie) THEN UNCHANGED chat ELSE CreateChatSession(c, NULL)
  BY DEF Arrive
<1>9. PICK c \in ResolveGuestSession(cookie) :
        /\ Become(t, [NewTurn EXCEPT !.pc = "attach", !.signed = signed, !.stream = stream, !.guest = g,
              !.chat = c, !.checked = clock, !.after = {u \in Turns : At(u, "over")}])
        /\ IF Usable(cookie) THEN UNCHANGED chat ELSE CreateChatSession(c, NULL)
  BY <1>1
<1>2. /\ turn'[t] = [NewTurn EXCEPT !.pc = "attach", !.signed = signed, !.stream = stream, !.guest = g,
              !.chat = c, !.checked = clock, !.after = {u \in Turns : At(u, "over")}]
      /\ Moves(t)
  BY <1>9, Becomes
<1>3. DOMAIN turn'[t] = Fields
  BY <1>2 DEF NewTurn, Fields
<1>4. /\ turn'[t].pc = "attach" /\ turn'[t].signed = signed /\ turn'[t].stream = stream
      /\ turn'[t].guest = g /\ turn'[t].chat = c /\ turn'[t].checked = clock
      /\ turn'[t].after = {u \in Turns : At(u, "over")}
      /\ turn'[t].cancelled = FALSE /\ turn'[t].shown = FALSE /\ turn'[t].committed = FALSE
      /\ turn'[t].results = <<>> /\ turn'[t].reply = "none" /\ turn'[t].selected = FALSE
  BY <1>2 DEF NewTurn
<1>5. load \in Workloads /\ clock \in Nat /\ live \in SUBSET Guests
  BY DEF TypeOK
<1>6. signed \in BOOLEAN /\ stream \in BOOLEAN /\ cookie \in ChatIDs \cup {NULL}
  BY <1>1, <1>5, ChatAssumption
<1>10. ASSUME c \in ChatIDs
       PROVE  TurnOK(turn'[t])
  <2>1. turn'[t].after \in SUBSET Turns /\ g \in Guests
    BY <1>1, <1>4, <1>5
  <2>2. FlagsOK(turn'[t])
    BY <1>4, <1>6 DEF FlagsOK
  <2>3. CallerOK(turn'[t])
    BY <1>4, <1>5, <1>10, <2>1 DEF CallerOK
  <2>4. WorkOK(turn'[t])
    BY <1>4 DEF WorkOK, TurnSteps
  <2> QED
    BY <1>3, <2>2, <2>3, <2>4 DEF TurnOK
<1>11. /\ Moves(t) /\ turn[t].pc = "idle" /\ turn'[t].pc = "attach"
       /\ turn'[t].guest \in live /\ turn'[t].chat = c
       /\ turn'[t].checked = clock /\ turn'[t].after = {u \in Turns : At(u, "over")}
       /\ turn'[t].cancelled = FALSE /\ turn'[t].shown = FALSE /\ turn'[t].committed = FALSE
       /\ turn'[t].results = <<>> /\ turn'[t].reply = "none"
       /\ UNCHANGED <<Others, faults>> /\ NoOrder
  <2>1. turn[t].pc = "idle" /\ UNCHANGED <<Others, faults>> /\ NoOrder
    BY DEF Arrive, At
  <2> QED
    BY <1>1, <1>2, <1>4, <2>1
<1>7. CASE Usable(cookie)
  <2>1. c = cookie /\ UNCHANGED chat /\ cookie # NULL /\ chat[cookie] # NULL /\ c \in ChatIDs
    BY <1>1, <1>6, <1>7, <1>9 DEF ResolveGuestSession, Usable, Exists
  <2> QED
    BY <1>10, <1>11, <2>1 DEF Arrives
<1>8. CASE ~Usable(cookie)
  <2>1. c \in Fresh /\ CreateChatSession(c, NULL) /\ c \in ChatIDs
    BY <1>1, <1>8, <1>9 DEF ResolveGuestSession, Fresh, Unused
  <2> QED
    BY <1>10, <1>11, <2>1 DEF Arrives
<1> QED
  BY <1>7, <1>8

\* Until the model is asked nothing is known of tools and texts.
Early(t) ==
    /\ turn'[t].signed = turn[t].signed /\ turn'[t].guest = turn[t].guest
    /\ turn'[t].after = turn[t].after /\ turn'[t].stream = turn[t].stream
    /\ turn'[t].committed = turn[t].committed /\ turn'[t].shown = turn[t].shown
    /\ turn'[t].results = turn[t].results /\ turn'[t].reply = turn[t].reply
    /\ turn'[t].cancelled = turn[t].cancelled
    /\ UNCHANGED Others /\ NoOrder

\* ResolveGuestSession: the guest is bound to the session, or a new one is made.
Attaches(t) ==
    /\ turn[t].pc = "attach" /\ turn'[t].pc = "check" /\ Early(t)
    /\ turn'[t].checked = turn[t].checked /\ turn'[t].selected = turn[t].selected
    /\ \/ /\ turn'[t].chat = turn[t].chat /\ MayBind(turn[t].chat, turn[t].guest)
          /\ Set(turn[t].chat, [chat[turn[t].chat] EXCEPT !.guest = turn[t].guest])
       \/ turn'[t].chat \in Fresh /\ CreateChatSession(turn'[t].chat, turn[t].guest)

\* The session is found usable, and its selection is read.
Checks(t) ==
    /\ turn[t].pc = "check" /\ turn'[t].pc = "prepare" /\ Early(t)
    /\ turn'[t].chat = turn[t].chat /\ Usable(turn[t].chat)
    /\ turn'[t].checked = clock /\ turn'[t].selected = chat[turn[t].chat].selected
    /\ UNCHANGED chat

\* The expiry is slid from the moment of the check, and the model is asked.
Prepares(t) ==
    /\ turn[t].pc = "prepare" /\ turn'[t].pc = (IF turn[t].stream THEN "stream" ELSE "generate")
    /\ turn'[t].signed = turn[t].signed /\ turn'[t].guest = turn[t].guest
    /\ turn'[t].chat = turn[t].chat
    /\ turn'[t].after = turn[t].after /\ turn'[t].stream = turn[t].stream
    /\ turn'[t].committed = FALSE /\ turn'[t].shown = turn[t].shown
    /\ turn'[t].results = turn[t].results /\ turn'[t].reply = turn[t].reply
    /\ SameSession(t)
    /\ UpdateChatSessionActivity(turn[t].chat, turn[t].checked + GuestSessionTTL)
    /\ UNCHANGED Others /\ NoOrder

\* The types after a step before the model.
LEMMA EarlyTypes ==
    ASSUME NEW t \in Turns, TurnOK(turn[t]), DOMAIN turn'[t] = Fields, Early(t),
           turn[t].pc \in {"attach", "check", "prepare"},
           turn'[t].pc \in {"check", "prepare"},
           turn'[t].chat \in ChatIDs, turn'[t].checked \in Nat, turn'[t].selected \in BOOLEAN,
           turn'[t].pc = "check" => turn'[t].selected = FALSE
    PROVE  TurnOK(turn'[t])
<1>1. FlagsOK(turn'[t]) /\ CallerOK(turn'[t])
  BY DEF Early, TurnOK, FlagsOK, CallerOK
<1>2. WorkOK(turn'[t])
  BY DEF Early, TurnOK, WorkOK, TurnSteps
<1> QED
  BY <1>1, <1>2 DEF TurnOK

\* The actions before the model are of these kinds, or end the turn.
LEMMA Attaching ==
    ASSUME TypeOK, NEW t \in Turns, AttachChat(t)
    PROVE  Moves(t) /\ TurnOK(turn'[t]) /\ Attaches(t)
<1>1. TurnOK(turn[t]) /\ DOMAIN turn[t] = Fields /\ turn[t].pc = "attach"
  BY DEF TypeOK, TurnOK, AttachChat, At
<1>2. /\ turn[t].chat \in ChatIDs /\ turn[t].checked \in Nat /\ turn[t].selected = FALSE
  BY <1>1 DEF TurnOK, CallerOK
<1>3. CASE MayBind(turn[t].chat, turn[t].guest)
  <2>1. /\ Set(turn[t].chat, [chat[turn[t].chat] EXCEPT !.guest = turn[t].guest])
        /\ Become(t, [turn[t] EXCEPT !.pc = "check"])
    BY <1>3 DEF AttachChat, Goes
  <2>2. turn'[t] = [turn[t] EXCEPT !.pc = "check"] /\ Moves(t)
    BY <2>1, Becomes
  <2>3. DOMAIN turn'[t] = Fields
    BY <1>1, <2>2
  <2>4. turn'[t].pc = "check" /\ turn'[t].chat = turn[t].chat /\ turn'[t].checked = turn[t].checked
        /\ turn'[t].selected = turn[t].selected
    BY <1>1, <2>2 DEF Fields
  <2>5. UNCHANGED Others /\ NoOrder
    BY DEF AttachChat
  <2>6. Early(t)
    BY <1>1, <2>2, <2>5 DEF Early, Fields
  <2>7. TurnOK(turn'[t])
    BY <1>1, <1>2, <2>3, <2>4, <2>6, EarlyTypes
  <2> QED
    BY <1>1, <1>3, <2>1, <2>2, <2>4, <2>6, <2>7 DEF Attaches
<1>4. CASE ~MayBind(turn[t].chat, turn[t].guest)
  <2>1. PICK c \in Fresh :
           /\ CreateChatSession(c, turn[t].guest)
           /\ Become(t, [turn[t] EXCEPT !.pc = "check", !.chat = c])
    BY <1>4 DEF AttachChat, RebindGuestChatSession
  <2>2. turn'[t] = [turn[t] EXCEPT !.pc = "check", !.chat = c] /\ Moves(t)
    BY <2>1, Becomes
  <2>3. DOMAIN turn'[t] = Fields
    BY <1>1, <2>2
  <2>4. turn'[t].pc = "check" /\ turn'[t].chat = c /\ turn'[t].checked = turn[t].checked
        /\ turn'[t].selected = turn[t].selected
    BY <1>1, <2>2 DEF Fields
  <2>5. UNCHANGED Others /\ NoOrder
    BY DEF AttachChat
  <2>6. Early(t)
    BY <1>1, <2>2, <2>5 DEF Early, Fields
  <2>7. c \in ChatIDs
    BY <2>1 DEF Fresh, Unused
  <2>8. TurnOK(turn'[t])
    BY <1>1, <1>2, <2>3, <2>4, <2>6, <2>7, EarlyTypes
  <2> QED
    BY <1>1, <2>1, <2>2, <2>4, <2>6, <2>8 DEF Attaches
<1> QED
  BY <1>3, <1>4

LEMMA Checking ==
    ASSUME TypeOK, NEW t \in Turns, Check(t)
    PROVE  Moves(t) /\ TurnOK(turn'[t]) /\ (Checks(t) \/ (EndStep(t) /\ NoChat /\ NoOrder))
<1>1. TurnOK(turn[t]) /\ DOMAIN turn[t] = Fields /\ turn[t].pc = "check" /\ NoChat /\ NoOrder
  BY DEF TypeOK, TurnOK, Check, At
<1>2. turn[t].chat \in ChatIDs /\ turn[t].checked \in Nat /\ clock \in Nat
  BY <1>1 DEF TurnOK, CallerOK, TypeOK
<1>3. CASE Usable(turn[t].chat)
  <2>1. Become(t, [turn[t] EXCEPT !.pc = "prepare", !.checked = clock,
                                  !.selected = chat[turn[t].chat].selected])
    BY <1>3 DEF Check
  <2>2. turn'[t] = [turn[t] EXCEPT !.pc = "prepare", !.checked = clock,
                                  !.selected = chat[turn[t].chat].selected] /\ Moves(t)
    BY <2>1, Becomes
  <2>3. DOMAIN turn'[t] = Fields
    BY <1>1, <2>2
  <2>4. turn'[t].pc = "prepare" /\ turn'[t].chat = turn[t].chat /\ turn'[t].checked = clock
        /\ turn'[t].selected = chat[turn[t].chat].selected
    BY <1>1, <2>2 DEF Fields
  <2>5. Early(t)
    BY <1>1, <2>2 DEF Early, Fields, NoChat, Others
  <2>6. chat[turn[t].chat].selected \in BOOLEAN
    BY <1>2, <1>3 DEF TypeOK, Usable, Exists, ChatRow
  <2>7. TurnOK(turn'[t])
    BY <1>1, <1>2, <2>3, <2>4, <2>5, <2>6, EarlyTypes
  <2> QED
    BY <1>1, <1>3, <2>2, <2>4, <2>5, <2>7 DEF Checks, NoChat
<1>4. CASE ~Usable(turn[t].chat)
  <2>1. Become(t, Over(turn[t], "error"))
    BY <1>4 DEF Check
  <2> QED
    BY <1>1, <2>1, Ends
<1> QED
  BY <1>3, <1>4

LEMMA Refusing ==
    ASSUME TypeOK, NEW t \in Turns, RefuseEarly(t)
    PROVE  Moves(t) /\ TurnOK(turn'[t]) /\ EndStep(t) /\ NoChat /\ NoOrder
BY Ends DEF RefuseEarly

LEMMA Preparing ==
    ASSUME TypeOK, NEW t \in Turns, Prepare(t)
    PROVE  /\ Moves(t) /\ TurnOK(turn'[t])
           /\ \/ Prepares(t)
              \/ /\ EndStep(t) /\ UNCHANGED Others /\ NoOrder
                 /\ \/ UNCHANGED chat
                    \/ UpdateChatSessionActivity(turn[t].chat, turn[t].checked + GuestSessionTTL)
<1>1. TurnOK(turn[t]) /\ DOMAIN turn[t] = Fields /\ turn[t].pc = "prepare" /\ UNCHANGED Others /\ NoOrder
  BY DEF TypeOK, TurnOK, Prepare, At
<1>2. CASE Become(t, Over(turn[t], "error"))
           /\ (UNCHANGED chat \/ UpdateChatSessionActivity(turn[t].chat, turn[t].checked + GuestSessionTTL))
  BY <1>1, <1>2, Ends
<1>3. CASE /\ UpdateChatSessionActivity(turn[t].chat, turn[t].checked + GuestSessionTTL)
           /\ \E h \in load.histories : Become(t, Asks([turn[t] EXCEPT !.history = h,
                !.context = BuildMessages(h, turn[t].selected)]))
  <2>1. PICK h, built, context :
           Become(t, [[turn[t] EXCEPT !.history = h, !.context = built] EXCEPT
              !.pc = IF turn[t].stream THEN "stream" ELSE "generate",
              !.context = context, !.tool = FALSE, !.committed = FALSE])
    <3>1. PICK h, built : Become(t, Asks([turn[t] EXCEPT !.history = h, !.context = built]))
      BY <1>3
    <3>2. [turn[t] EXCEPT !.history = h, !.context = built].stream = turn[t].stream
      BY <1>1 DEF Fields
    <3> QED
      BY <3>1, <3>2 DEF Asks
  <2>2. turn'[t] = [[turn[t] EXCEPT !.history = h, !.context = built] EXCEPT
              !.pc = IF turn[t].stream THEN "stream" ELSE "generate",
              !.context = context, !.tool = FALSE, !.committed = FALSE] /\ Moves(t)
    BY <2>1, Becomes
  <2>3. DOMAIN turn'[t] = Fields
    BY <1>1, <2>2
  <2>4. Prepares(t)
    BY <1>1, <1>3, <2>2 DEF Prepares, SameSession, Fields
  <2>5. FlagsOK(turn'[t]) /\ CallerOK(turn'[t]) /\ WorkOK(turn'[t])
    BY <1>1, <2>4 DEF TurnOK, Prepares, SameSession, FlagsOK, CallerOK, WorkOK, TurnSteps
  <2> QED
    BY <2>2, <2>3, <2>4, <2>5 DEF TurnOK
<1> QED
  BY <1>2, <1>3 DEF Prepare

\* The guards have seen the results, and a recommendation the session.
Finalizes(t) ==
    /\ turn[t].pc = "finalize" /\ turn'[t].pc = "persist"
    /\ SameCaller(t) /\ SameSession(t)
    /\ turn'[t].stream = turn[t].stream /\ turn'[t].results = turn[t].results
    /\ turn'[t].committed = turn[t].committed /\ turn'[t].shown = turn[t].shown
    /\ turn'[t].reply = turn[t].reply
    /\ turn'[t].answer.text \in {turn[t].answer.text, "blocked", "conflict"}
    /\ turn'[t].answer.claim => HasSuccessfulCreateBooking(turn[t].results)
    /\ turn'[t].answer.recs /\ ~HasSearchTripsAlternative(turn[t].results) =>
         ~chat[turn[t].chat].selected

\* The guards of an answer replace its text, and drop a claim with nothing behind it.
LEMMA GuardedAnswers ==
    ASSUME NEW answer \in AnswerRow, NEW results
    PROVE  /\ Guarded(answer, results) \in AnswerRow
           /\ Guarded(answer, results).text \in {answer.text, "blocked", "conflict"}
           /\ Guarded(answer, results).claim => HasSuccessfulCreateBooking(results)
<1>1. /\ ClaimGuard(answer, results) \in AnswerRow
      /\ ClaimGuard(answer, results).text \in {answer.text, "blocked"}
      /\ ClaimGuard(answer, results).claim => HasSuccessfulCreateBooking(results)
  BY DEF ClaimGuard, Answer, AnswerRow, Texts
<1>2. /\ Answer("conflict", FALSE, TRUE) \in AnswerRow
      /\ Answer("conflict", FALSE, TRUE).text = "conflict"
      /\ Answer("conflict", FALSE, TRUE).claim = FALSE
  BY DEF Answer, AnswerRow, Texts
<1>3. Guarded(answer, results) \in {ClaimGuard(answer, results), Answer("conflict", FALSE, TRUE)}
  BY DEF Guarded, SelectedBackstop
<1> QED
  BY <1>1, <1>2, <1>3

\* The answer is guarded, then persisted.
LEMMA Finalizing ==
    ASSUME TypeOK, NEW t \in Turns, FinalizeChat(t)
    PROVE  Moves(t) /\ TurnOK(turn'[t]) /\ Finalizes(t) /\ NoChat /\ NoOrder
<1>1. TurnOK(turn[t]) /\ DOMAIN turn[t] = Fields /\ turn[t].pc = "finalize" /\ NoChat /\ NoOrder
  BY DEF TypeOK, TurnOK, FinalizeChat, At
<1>2. turn[t].answer \in AnswerRow
  BY <1>1 DEF TurnOK, WorkOK
<1>3. PICK recs \in BOOLEAN :
         /\ recs => \/ ~chat[turn[t].chat].selected
                    \/ HasSearchTripsAlternative(turn[t].results)
         /\ Become(t, [turn[t] EXCEPT !.pc = "persist",
                !.answer = [Guarded(turn[t].answer, turn[t].results) EXCEPT !.recs = recs]])
  <2> DEFINE recs == ExtractRecommendedPackages(turn[t].results)
                     /\ ~HasSuccessfulCreateBooking(turn[t].results)
                     /\ (~chat[turn[t].chat].selected \/ HasSearchTripsAlternative(turn[t].results))
  <2>1. PICK k \in BOOLEAN : Become(t, [turn[t] EXCEPT !.pc = "persist",
                !.answer = [Guarded(turn[t].answer, turn[t].results) EXCEPT !.recs = k /\ recs]])
    BY DEF FinalizeChat
  <2>2. (k /\ recs) \in BOOLEAN
    OBVIOUS
  <2>3. (k /\ recs) => \/ ~chat[turn[t].chat].selected
                       \/ HasSearchTripsAlternative(turn[t].results)
    OBVIOUS
  <2> HIDE DEF recs
  <2> QED
    BY <2>1, <2>2, <2>3
<1> DEFINE answer == Guarded(turn[t].answer, turn[t].results)
<1>4. /\ answer \in AnswerRow
      /\ answer.text \in {turn[t].answer.text, "blocked", "conflict"}
      /\ answer.claim => HasSuccessfulCreateBooking(turn[t].results)
  BY <1>2, GuardedAnswers
<1>5. turn'[t] = [turn[t] EXCEPT !.pc = "persist", !.answer = [answer EXCEPT !.recs = recs]] /\ Moves(t)
  BY <1>3, Becomes
<1> HIDE DEF answer
<1>6. DOMAIN turn'[t] = Fields
  BY <1>1, <1>5
<1>7. /\ turn'[t].answer \in AnswerRow /\ turn'[t].answer.text = answer.text
      /\ turn'[t].answer.claim = answer.claim /\ turn'[t].answer.recs = recs
  BY <1>1, <1>4, <1>5 DEF AnswerRow, Fields
<1>8. /\ turn'[t].pc = "persist" /\ SameCaller(t) /\ SameSession(t)
      /\ turn'[t].stream = turn[t].stream /\ turn'[t].results = turn[t].results
      /\ turn'[t].committed = turn[t].committed /\ turn'[t].shown = turn[t].shown
      /\ turn'[t].reply = turn[t].reply
  BY <1>1, <1>5 DEF SameCaller, SameSession, Fields
<1>9. Finalizes(t)
  BY <1>1, <1>3, <1>4, <1>7, <1>8 DEF Finalizes
<1>10. FlagsOK(turn'[t]) /\ CallerOK(turn'[t])
  BY <1>1, <1>8, FlagsKept DEF TurnOK, FlagsOK
<1>11. WorkOK(turn'[t])
  BY <1>1, <1>7, <1>8 DEF TurnOK, WorkOK, TurnSteps
<1> QED
  BY <1>1, <1>5, <1>6, <1>9, <1>10, <1>11 DEF TurnOK

LEMMA Persisting ==
    ASSUME TypeOK, NEW t \in Turns, Persist(t)
    PROVE  Moves(t) /\ TurnOK(turn'[t]) /\ EndStep(t) /\ NoChat /\ NoOrder
BY Ends DEF Persist, At

\* The client is gone: the turn goes on with what it holds, or is over later.
Cancels(t) ==
    /\ turn[t].pc \notin {"idle", "over"} /\ turn'[t].pc = turn[t].pc
    /\ SameCaller(t) /\ SameText(t)
    /\ turn'[t].checked = turn[t].checked /\ turn'[t].selected = turn[t].selected
    /\ turn'[t].results = turn[t].results
    /\ turn'[t].owner = turn[t].owner /\ turn'[t].order = turn[t].order
    /\ faults' = faults + 1

LEMMA Cancelling ==
    ASSUME TypeOK, NEW t \in Turns, Cancel(t)
    PROVE  Moves(t) /\ TurnOK(turn'[t]) /\ Cancels(t) /\ NoChat /\ NoOrder
<1>1. TurnOK(turn[t]) /\ DOMAIN turn[t] = Fields /\ turn[t].pc \notin {"idle", "over"} /\ NoChat /\ NoOrder
  BY DEF TypeOK, TurnOK, Cancel, Active
<1>2. turn'[t] = [turn[t] EXCEPT !.cancelled = TRUE] /\ Moves(t)
  BY Becomes DEF Cancel
<1>3. DOMAIN turn'[t] = Fields
  BY <1>1, <1>2
<1>4. Cancels(t) /\ turn'[t].cancelled = TRUE
  BY <1>1, <1>2 DEF Cancels, SameCaller, SameText, Fields, Cancel
<1>5. FlagsOK(turn'[t]) /\ CallerOK(turn'[t]) /\ WorkOK(turn'[t])
  BY <1>1, <1>4 DEF TurnOK, Cancels, SameCaller, SameText, FlagsOK, CallerOK, WorkOK
<1> QED
  BY <1>1, <1>2, <1>3, <1>4, <1>5 DEF TurnOK

-----------------------------------------------------------------------------
(* The steps of a turn together, and what they do to the rows. *)

\* The slide of the expiry from the moment the session was read.
Slides(t) == UpdateChatSessionActivity(turn[t].chat, turn[t].checked + GuestSessionTTL)

\* Every step of a turn, as the invariants see it.
Act(t) ==
    /\ Moves(t) /\ TurnOK(turn'[t]) /\ Counts(t) /\ UNCHANGED Others
    /\ \/ Arrives(t) \/ Attaches(t) \/ Checks(t) \/ Prepares(t) \/ ToolKind(t)
       \/ TalkStep(t) /\ NoChat /\ NoOrder
       \/ Finalizes(t) /\ NoChat /\ NoOrder
       \/ EndStep(t) /\ NoOrder /\ (UNCHANGED chat \/ (turn[t].pc = "prepare" /\ Slides(t)))
       \/ Cancels(t) /\ NoChat /\ NoOrder

\* The tools leave what only the other actions write.
LEMMA ToolAside ==
    ASSUME NEW t \in Turns, ToolKind(t)
    PROVE  UNCHANGED Others
BY DEF ToolKind, PlainTool, StoresSelection, PassesGuard, TakesOwner, FindsOrder, EntersOrder,
       MarksOrder, NoChat

\* Every action of a turn is of one of the kinds.
LEMMA Acts ==
    ASSUME TypeOK, NEW t \in Turns, Arrive(t) \/ StreamChunk(t) \/ Steps(t) \/ Cancel(t)
    PROVE  Act(t)
<1>1. CASE Arrive(t)
  <2>1. Counts(t) /\ UNCHANGED Others
    BY <1>1 DEF Arrive, Counts
  <2> QED
    BY <1>1, <2>1, Arriving DEF Act
<1>2. CASE AttachChat(t)
  <2>1. Counts(t) /\ UNCHANGED Others
    BY <1>2 DEF AttachChat, Works, Counts
  <2> QED
    BY <1>2, <2>1, Attaching DEF Act
<1>3. CASE Check(t)
  <2>1. Counts(t) /\ UNCHANGED Others /\ (NoChat => UNCHANGED chat)
    BY <1>3 DEF Check, Works, Counts, NoChat
  <2> QED
    BY <1>3, <2>1, Checking DEF Act
<1>4. CASE RefuseEarly(t)
  <2>1. Counts(t) /\ UNCHANGED Others /\ UNCHANGED chat
    BY <1>4 DEF RefuseEarly, Breaks, Counts, NoChat
  <2> QED
    BY <1>4, <2>1, Refusing DEF Act
<1>5. CASE Prepare(t)
  <2>1. Counts(t) /\ UNCHANGED Others /\ turn[t].pc = "prepare"
    BY <1>5 DEF Prepare, Works, Breaks, Counts, At
  <2> QED
    BY <1>5, <2>1, Preparing DEF Act, Slides
<1>6. CASE StreamChunk(t) \/ StreamEnds(t) \/ StreamBreaks(t) \/ Generate(t) \/ NextRound(t)
  <2>1. faults' = faults /\ NoChat /\ NoOrder
    BY <1>6 DEF StreamChunk, StreamEnds, StreamBreaks, Generate, NextRound
  <2>2. Counts(t) /\ UNCHANGED Others /\ UNCHANGED chat
    BY <2>1 DEF Counts, NoChat
  <2> QED
    BY <1>6, <2>1, <2>2, Talking DEF Act
<1>7. CASE ToolStep(t)
  <2>1. Counts(t)
    BY <1>7 DEF ToolStep, Repeated, ExecuteSearchTrips, ExecuteInfo, ExecuteCheckOrderStatus,
       ExecuteSelectPackage, StoreSelection, ExecuteCreateBooking, ReadOwner, PlaceOrder,
       WriteMarker, Works, Breaks, Counts
  <2>2. Moves(t) /\ TurnOK(turn'[t]) /\ ToolKind(t)
    BY <1>7, Calling
  <2> QED
    BY <2>1, <2>2, ToolAside DEF Act
<1>8. CASE FinalizeChat(t)
  <2>1. Counts(t) /\ UNCHANGED Others
    BY <1>8 DEF FinalizeChat, Works, Breaks, Counts, NoChat
  <2> QED
    BY <1>8, <2>1, Finalizing DEF Act
<1>9. CASE Persist(t)
  <2>1. Counts(t) /\ UNCHANGED Others /\ UNCHANGED chat
    BY <1>9 DEF Persist, Works, Breaks, Counts, NoChat
  <2> QED
    BY <1>9, <2>1, Persisting DEF Act
<1>10. CASE Cancel(t)
  <2>1. Counts(t) /\ UNCHANGED Others
    BY <1>10 DEF Cancel, Counts, NoChat
  <2> QED
    BY <1>10, <2>1, Cancelling DEF Act
<1> QED
  BY <1>1, <1>2, <1>3, <1>4, <1>5, <1>6, <1>7, <1>8, <1>9, <1>10 DEF Steps, ToolStep

-----------------------------------------------------------------------------
(* The rows of the sessions. *)

\* The type of the rows.
ChatOK == chat \in [ChatIDs -> ChatRow \cup {NULL}]

\* An UPDATE of one row.
LEMMA SetRow ==
    ASSUME ChatOK, NEW c \in ChatIDs, NEW row, chat[c] # NULL => row \in ChatRow, Set(c, row)
    PROVE  /\ ChatOK'
           /\ \A d \in ChatIDs : d # c => chat'[d] = chat[d]
           /\ chat[c] = NULL => chat'[c] = NULL
           /\ chat[c] # NULL => chat'[c] = row /\ chat'[c] # NULL
<1>1. c # NULL
  BY ChatNullAssumption
<1>2. CASE chat[c] = NULL
  BY <1>2 DEF Set, Exists, ChatOK
<1>3. CASE chat[c] # NULL
  <2>1. chat' = [chat EXCEPT ![c] = row] /\ row # NULL
    BY <1>1, <1>3, ChatNullAssumption DEF Set, Exists
  <2> QED
    BY <1>3, <2>1 DEF ChatOK
<1> QED
  BY <1>2, <1>3

\* What each UPDATE of a session does to its row and to the other rows.
LEMMA Selects ==
    ASSUME ChatOK, NEW c \in ChatIDs, UpdateChatSessionSelectedTrip(c)
    PROVE  ChatOK' /\ RowsKept /\ (chat[c] # NULL => chat'[c].selected)
<1> DEFINE row == [chat[c] EXCEPT !.selected = TRUE]
<1>1. chat[c] # NULL => /\ row \in ChatRow /\ row.selected
                        /\ row.guest = chat[c].guest /\ row.expires = chat[c].expires
                        /\ row.marker = chat[c].marker
  BY DEF ChatOK, ChatRow
<1>2. Set(c, row)
  BY DEF UpdateChatSessionSelectedTrip
<1> HIDE DEF row
<1> QED
  BY <1>1, <1>2, SetRow DEF RowsKept

LEMMA Marks ==
    ASSUME ChatOK, NEW c \in ChatIDs, NEW b \in Orders, AddOrderMarker(c, b)
    PROVE  ChatOK' /\ RowsKept /\ (chat[c] # NULL => chat'[c].marker # NULL)
<1> DEFINE row == [chat[c] EXCEPT !.marker = b]
<1>1. chat[c] # NULL => /\ row \in ChatRow /\ row.selected = chat[c].selected
                        /\ row.guest = chat[c].guest /\ row.expires = chat[c].expires
                        /\ row.marker # NULL
  BY ChatNullAssumption DEF ChatOK, ChatRow
<1>2. Set(c, row)
  BY DEF AddOrderMarker
<1> HIDE DEF row
<1> QED
  BY <1>1, <1>2, SetRow DEF RowsKept

\* What is not reset when a guest is bound or the expiry slides.
Slid ==
    \A c \in ChatIDs :
        /\ chat'[c] = NULL <=> chat[c] = NULL
        /\ chat[c] # NULL =>
             /\ chat'[c].selected = chat[c].selected /\ chat'[c].marker = chat[c].marker

LEMMA Slide ==
    ASSUME ChatOK, NEW c \in ChatIDs, NEW e \in Nat, UpdateChatSessionActivity(c, e)
    PROVE  /\ ChatOK' /\ Slid
           /\ \A d \in ChatIDs : chat[d] # NULL =>
                /\ chat'[d].guest = chat[d].guest
                /\ chat'[d].expires = IF d = c THEN e ELSE chat[d].expires
<1> DEFINE row == [chat[c] EXCEPT !.expires = e]
<1>1. chat[c] # NULL => /\ row \in ChatRow /\ row.selected = chat[c].selected
                        /\ row.guest = chat[c].guest /\ row.expires = e
                        /\ row.marker = chat[c].marker
  BY DEF ChatOK, ChatRow
<1>2. Set(c, row)
  BY DEF UpdateChatSessionActivity
<1> HIDE DEF row
<1> QED
  BY <1>1, <1>2, SetRow DEF Slid

LEMMA Bind ==
    ASSUME ChatOK, NEW c \in ChatIDs, NEW g \in Guests,
           Set(c, [chat[c] EXCEPT !.guest = g])
    PROVE  /\ ChatOK' /\ Slid
           /\ \A d \in ChatIDs : chat[d] # NULL =>
                /\ chat'[d].expires = chat[d].expires
                /\ chat'[d].guest = IF d = c THEN g ELSE chat[d].guest
<1> DEFINE row == [chat[c] EXCEPT !.guest = g]
<1>1. chat[c] # NULL => /\ row \in ChatRow /\ row.selected = chat[c].selected
                        /\ row.guest = g /\ row.expires = chat[c].expires
                        /\ row.marker = chat[c].marker
  BY DEF ChatOK, ChatRow
<1>2. Set(c, row)
  OBVIOUS
<1> HIDE DEF row
<1> QED
  BY <1>1, <1>2, SetRow DEF Slid

\* The row of a new session.
LEMMA Creates ==
    ASSUME TypeOK, NEW c \in Fresh, NEW g \in Guests \cup {NULL}, CreateChatSession(c, g)
    PROVE  /\ ChatOK' /\ c \in ChatIDs /\ chat[c] = NULL /\ c \notin deleted
           /\ \A d \in ChatIDs : d # c => chat'[d] = chat[d]
           /\ chat'[c] # NULL /\ chat'[c].guest = g
           /\ chat'[c].expires = clock + GuestSessionTTL
           /\ chat'[c].marker = NULL
<1>1. c \in ChatIDs /\ chat[c] = NULL /\ c \notin deleted
  BY DEF Fresh, Unused
<1>2. /\ NewChat(g) \in ChatRow /\ NewChat(g).guest = g /\ NewChat(g).marker = NULL
      /\ NewChat(g).expires = clock + GuestSessionTTL
  BY ChatAssumption DEF NewChat, ChatRow, TypeOK
<1>3. NewChat(g) # NULL
  BY <1>2, ChatNullAssumption
<1>4. chat' = [chat EXCEPT ![c] = NewChat(g)]
  BY DEF CreateChatSession
<1> QED
  BY <1>1, <1>2, <1>3, <1>4 DEF TypeOK, ChatOK

\* A step of a turn under way that keeps its request and every row.
Proceeds(t) ==
    /\ Moves(t) /\ TurnOK(turn'[t]) /\ SameCaller(t)
    /\ ChatOK' /\ RowsKept /\ UNCHANGED Others
    /\ turn[t].pc \notin {"idle", "over"} /\ turn'[t].pc # "idle"
    /\ turn'[t].pc # "over" =>
         /\ turn'[t].checked = turn[t].checked /\ turn'[t].selected = turn[t].selected
         /\ turn[t].pc \in {"attach", "check", "prepare"} \/ turn'[t].pc \in {"attach", "check", "prepare"} =>
              turn'[t].pc = turn[t].pc

\* A step that writes no row, and a step of the tools, keep the rows.
LEMMA KeptRows ==
    ASSUME ChatOK, UNCHANGED chat
    PROVE  ChatOK' /\ RowsKept
BY DEF ChatOK, RowsKept

LEMMA ToolRows ==
    ASSUME TypeOK, NEW t \in Turns, ToolKind(t)
    PROVE  ChatOK' /\ RowsKept
<1>1. turn[t].chat \in ChatIDs /\ ChatOK /\ (turn[t].pc = "mark" => turn[t].order \in Orders)
  <2>1. turn[t].pc \in ToolSteps
    BY DEF ToolKind, PlainTool, StoresSelection, PassesGuard, TakesOwner, FindsOrder, EntersOrder,
       MarksOrder, ToolBase
  <2> QED
    BY <2>1 DEF TypeOK, TurnOK, CallerOK, WorkOK, ToolSteps, ChatOK
<1>2. CASE UNCHANGED chat
  BY <1>1, <1>2, KeptRows
<1>3. CASE StoresSelection(t)
  BY <1>1, <1>3, Selects DEF StoresSelection
<1>4. CASE MarksOrder(t) /\ ~UNCHANGED chat
  BY <1>1, <1>4, Marks DEF MarksOrder
<1> QED
  BY <1>2, <1>3, <1>4 DEF ToolKind, PlainTool, PassesGuard, TakesOwner, FindsOrder, EntersOrder,
     NoChat

\* The kinds of steps that proceed.
LEMMA Proceeding ==
    ASSUME TypeOK, NEW t \in Turns, Act(t),
           ~(Arrives(t) \/ Attaches(t) \/ Checks(t) \/ Prepares(t)),
           ~(turn[t].pc = "prepare" /\ Slides(t) /\ EndStep(t))
    PROVE  Proceeds(t)
<1>1. ChatOK /\ Moves(t) /\ TurnOK(turn'[t]) /\ UNCHANGED Others
  BY DEF TypeOK, ChatOK, Act
<1>2. CASE ToolKind(t)
  <2>1. ChatOK' /\ RowsKept
    BY <1>2, ToolRows
  <2>2. ToolBase(t)
    BY <1>2 DEF ToolKind, PlainTool, StoresSelection, PassesGuard, TakesOwner, FindsOrder,
       EntersOrder, MarksOrder
  <2> QED
    BY <1>1, <2>1, <2>2 DEF Proceeds, ToolBase, SameSession, ToolSteps
<1>3. CASE TalkStep(t) /\ NoChat
  <2>1. ChatOK' /\ RowsKept
    BY <1>1, <1>3, KeptRows DEF NoChat
  <2> QED
    BY <1>1, <1>3, <2>1 DEF Proceeds, TalkStep, SameSession
<1>4. CASE Finalizes(t) /\ NoChat
  <2>1. ChatOK' /\ RowsKept
    BY <1>1, <1>4, KeptRows DEF NoChat
  <2> QED
    BY <1>1, <1>4, <2>1 DEF Proceeds, Finalizes, SameSession
<1>5. CASE EndStep(t) /\ UNCHANGED chat
  <2>1. ChatOK' /\ RowsKept
    BY <1>1, <1>5, KeptRows
  <2> QED
    BY <1>1, <1>5, <2>1 DEF Proceeds, EndStep
<1>6. CASE Cancels(t) /\ NoChat
  <2>1. ChatOK' /\ RowsKept
    BY <1>1, <1>6, KeptRows DEF NoChat
  <2>2. turn[t].pc # "idle" /\ turn[t].pc # "over"
    BY <1>6 DEF Cancels
  <2> QED
    BY <1>1, <1>6, <2>1, <2>2 DEF Proceeds, Cancels
<1> QED
  BY <1>2, <1>3, <1>4, <1>5, <1>6 DEF Act

-----------------------------------------------------------------------------
(* The orders, and the types. *)

\* t enters the order b, for the owner it has read and for its session.
New(t, b) ==
    /\ ledger[b] = NULL /\ ledger'[b] # NULL
    /\ ledger'[b].placed_by = turn[t].owner /\ ledger'[b].key[1] = turn[t].chat
    /\ origin'[b] = t
    /\ \A a \in Orders : a # b => ledger'[a] = ledger[a] /\ origin'[a] = origin[a]

\* An order that is entered is new, and takes a row of the ledger nobody had.
LEMMA Entering ==
    ASSUME TypeOK, NEW t \in Turns, NEW b \in Orders, ledger[b] = NULL, Enters(t, b)
    PROVE  /\ New(t, b)
           /\ ledger' \in [Orders -> Ledger!LedgerEntry \cup {NULL}]
           /\ origin' \in [Orders -> Turns \cup {NULL}]
<1>1. PICK entry \in Ledger!LedgerEntry : ledger' = [ledger EXCEPT ![b] = entry]
  <2>1. CASE Ledger!PlaceBooking(b)
    <3>1. PICK u \in {Account}, key \in Payloads : ledger' = [ledger EXCEPT ![b] = Ledger!Entry(u, key, {}, u)]
      BY <2>1 DEF Ledger!PlaceBooking
    <3>2. Ledger!Entry(u, key, {}, u) \in Ledger!LedgerEntry
      BY <3>1 DEF Ledger!Entry, Ledger!LedgerEntry
    <3> QED
      BY <3>1, <3>2
  <2>2. CASE Ledger!PlaceGuestOrder(b)
    <3>1. PICK g \in Guests, key \in Payloads, contact \in SUBSET {Contact} :
             ledger' = [ledger EXCEPT ![b] = Ledger!Entry(g, key, contact, Shop)]
      BY <2>2 DEF Ledger!PlaceGuestOrder
    <3>2. Ledger!Entry(g, key, contact, Shop) \in Ledger!LedgerEntry
      BY <3>1 DEF Ledger!Entry, Ledger!LedgerEntry
    <3> QED
      BY <3>1, <3>2
  <2> QED
    BY <2>1, <2>2 DEF Enters
<1>2. entry # NULL /\ ledger'[b] = entry
  BY <1>1, EntryAssumption DEF TypeOK
<1>3. ledger'[b].placed_by = turn[t].owner /\ ledger'[b].key[1] = turn[t].chat
  BY DEF Enters, Key
<1>4. origin' = [origin EXCEPT ![b] = t]
  BY DEF Enters
<1> QED
  BY <1>1, <1>2, <1>3, <1>4 DEF TypeOK, New

\* Only a placement writes the ledger.
LEMMA OrdersKept ==
    ASSUME NEW t \in Turns, Act(t), ~EntersOrder(t)
    PROVE  NoOrder
BY DEF Act, Arrives, Attaches, Checks, Prepares, Early, ToolKind, PlainTool, StoresSelection,
   PassesGuard, TakesOwner, FindsOrder, MarksOrder

\* A step keeps the ledger, or enters one order into it.
LEMMA OrderSteps ==
    ASSUME TypeOK, NEW t \in Turns, Act(t)
    PROVE  /\ NoOrder \/ (EntersOrder(t) /\ \E b \in Orders : New(t, b))
           /\ ledger' \in [Orders -> Ledger!LedgerEntry \cup {NULL}]
           /\ origin' \in [Orders -> Turns \cup {NULL}]
<1>1. CASE EntersOrder(t)
  <2>1. PICK b \in NextOrder : Enters(t, b)
    BY <1>1 DEF EntersOrder
  <2>2. b \in Orders /\ ledger[b] = NULL
    BY <2>1 DEF NextOrder
  <2> QED
    BY <1>1, <2>1, <2>2, Entering
<1>2. CASE ~EntersOrder(t)
  BY <1>2, OrdersKept DEF NoOrder, TypeOK
<1> QED
  BY <1>1, <1>2

\* What is in the ledger stays there as it is.
LEMMA LedgerKept ==
    ASSUME TypeOK, NEW t \in Turns, Act(t)
    PROVE  \A b \in Orders : ledger[b] # NULL =>
              ledger'[b] = ledger[b] /\ origin'[b] = origin[b]
BY OrderSteps DEF New, NoOrder

\* The rows after a step that does not proceed.
LEMMA EarlyRows ==
    ASSUME TypeOK, NEW t \in Turns, Act(t), ~Proceeds(t)
    PROVE  /\ ChatOK'
           /\ Arrives(t) \/ Attaches(t) \/ Checks(t) \/ Prepares(t)
              \/ (turn[t].pc = "prepare" /\ Slides(t) /\ EndStep(t))
           /\ Slid \/ (turn'[t].chat \in Fresh /\ \E g \in Guests \cup {NULL} : CreateChatSession(turn'[t].chat, g))
<1>1. ChatOK /\ TurnOK(turn[t]) /\ NULL \in Guests \cup {NULL}
  BY DEF TypeOK, ChatOK
<1>2. Arrives(t) \/ Attaches(t) \/ Checks(t) \/ Prepares(t)
        \/ (turn[t].pc = "prepare" /\ Slides(t) /\ EndStep(t))
  BY Proceeding
<1>3. CASE UNCHANGED chat
  BY <1>1, <1>2, <1>3 DEF ChatOK, Slid
<1>4. CASE Slides(t) /\ turn[t].pc = "prepare"
  <2>1. turn[t].chat \in ChatIDs /\ turn[t].checked + GuestSessionTTL \in Nat
    BY <1>1, <1>4, ChatAssumption DEF TurnOK, CallerOK
  <2> QED
    BY <1>1, <1>2, <1>4, <2>1, Slide DEF Slides
<1>5. CASE turn'[t].chat \in Fresh /\ \E g \in Guests \cup {NULL} : CreateChatSession(turn'[t].chat, g)
  BY <1>2, <1>5, Creates
<1>6. CASE Attaches(t)
  <2>1. turn[t].chat \in ChatIDs /\ turn[t].guest \in Guests
    BY <1>1, <1>6 DEF Attaches, TurnOK, CallerOK
  <2>2. CASE Set(turn[t].chat, [chat[turn[t].chat] EXCEPT !.guest = turn[t].guest])
    BY <1>1, <1>2, <2>1, <2>2, Bind
  <2>3. CASE turn'[t].chat \in Fresh /\ CreateChatSession(turn'[t].chat, turn[t].guest)
    BY <1>5, <2>1, <2>3
  <2> QED
    BY <1>6, <2>2, <2>3 DEF Attaches
<1>7. CASE Arrives(t)
  BY <1>1, <1>3, <1>5, <1>7 DEF Arrives
<1>8. CASE Checks(t)
  BY <1>3, <1>8 DEF Checks
<1>9. CASE Prepares(t)
  BY <1>4, <1>9 DEF Prepares, Slides
<1> QED
  BY <1>2, <1>4, <1>6, <1>7, <1>8, <1>9

\* Steps of turns keep the types ...
LEMMA TypeStep ==
    ASSUME TypeOK, NEW t \in Turns, Act(t)
    PROVE  TypeOK'
<1>1. ChatOK'
  BY EarlyRows DEF Proceeds
<1>2. turn' = [u \in Turns |-> turn'[u]] /\ \A u \in Turns : TurnOK(turn'[u])
  BY DEF Act, Moves, TypeOK
<1>3. /\ deleted' \in SUBSET ChatIDs /\ live' \in SUBSET Guests /\ clock' \in Nat
      /\ cleaning' \in (SUBSET ChatIDs) \cup {NULL} /\ load' \in Workloads
  BY DEF Act, Others, TypeOK
<1>4. faults' \in Nat
  BY DEF Act, Counts, TypeOK
<1> QED
  BY <1>1, <1>2, <1>3, <1>4, OrderSteps DEF TypeOK, ChatOK

\* What happens beside the steps of the turns.
Aside ==
    /\ Beside
    /\ \/ CleanupSelects \/ CleanupDeletes \/ CleanupFails
       \/ \E c \in ChatIDs : GuestSelectPackage(c) \/ GuestHistory(c)
       \/ \E g \in Guests : ExpireGuest(g)
       \/ Passes

\* Every other action is of one of these kinds.
LEMMA Asides ==
    ASSUME TypeOK, Cleanup \/ SelectClick \/ HistoryLoad \/ IdentityExpires \/ TimePasses
    PROVE  Aside
<1>1. IdentityExpires => Beside /\ \E g \in Guests : ExpireGuest(g)
  BY DEF IdentityExpires, ExpireGuest, TypeOK
<1> QED
  BY <1>1 DEF Aside, Cleanup, SelectClick, HistoryLoad, TimePasses

\* The rows after a click or a history.
LEMMA PageRows ==
    ASSUME TypeOK, NEW c \in ChatIDs, GuestSelectPackage(c) \/ GuestHistory(c)
    PROVE  /\ ChatOK' /\ UNCHANGED <<deleted, live, clock, cleaning>>
           /\ chat[c] # NULL /\ ~Expired(c)
           /\ \A d \in ChatIDs :
                /\ chat'[d] = NULL <=> chat[d] = NULL
                /\ chat[d] # NULL =>
                     /\ chat'[d].guest = chat[d].guest
                     /\ chat[d].selected => chat'[d].selected
                     /\ chat[d].marker # NULL => chat'[d].marker # NULL
                     /\ chat'[d].expires = chat[d].expires
                        \/ (d = c /\ chat'[d].expires = clock + GuestSessionTTL)
<1>1. ChatOK /\ clock \in Nat /\ GuestSessionTTL \in Nat
  BY ChatAssumption DEF TypeOK, ChatOK
<1>2. chat[c] # NULL /\ ~Expired(c) /\ UNCHANGED <<deleted, live, clock, cleaning>>
  BY DEF GuestSelectPackage, GuestHistory, Usable, Exists
<1>3. CASE GuestSelectPackage(c)
  <2>1. ChatOK' /\ RowsKept
    BY <1>1, <1>3, Selects DEF GuestSelectPackage
  <2> QED
    BY <1>2, <2>1 DEF RowsKept
<1>4. CASE GuestHistory(c)
  <2>1. clock + GuestSessionTTL \in Nat
    BY <1>1
  <2>2. /\ ChatOK' /\ Slid
        /\ \A d \in ChatIDs : chat[d] # NULL =>
                /\ chat'[d].guest = chat[d].guest
                /\ chat'[d].expires = IF d = c THEN clock + GuestSessionTTL ELSE chat[d].expires
    BY <1>1, <1>4, <2>1, Slide DEF GuestHistory
  <2> QED
    BY <1>2, <2>2 DEF Slid
<1> QED
  BY <1>3, <1>4

\* ... and so do the other steps.
LEMMA TypeAside ==
    ASSUME TypeOK, Aside
    PROVE  TypeOK'
<1>1. /\ ledger' \in [Orders -> Ledger!LedgerEntry \cup {NULL}]
      /\ origin' \in [Orders -> Turns \cup {NULL}]
      /\ load' \in Workloads /\ faults' \in Nat
      /\ turn' = [t \in Turns |-> turn'[t]] /\ \A t \in Turns : TurnOK(turn'[t])
  BY DEF TypeOK, Aside, Beside
<1>2. ASSUME CleanupSelects \/ CleanupDeletes \/ CleanupFails
      PROVE  /\ ChatOK' /\ deleted' \in SUBSET ChatIDs /\ live' = live /\ clock' = clock
             /\ cleaning' \in (SUBSET ChatIDs) \cup {NULL}
  <2>1. CASE CleanupSelects
    BY <2>1 DEF CleanupSelects, Due, TypeOK, ChatOK
  <2>2. CASE CleanupDeletes
    <3>1. cleaning \in SUBSET ChatIDs
      BY <2>2 DEF CleanupDeletes, TypeOK
    <3>2. deleted' \in SUBSET ChatIDs /\ cleaning' = NULL /\ live' = live /\ clock' = clock
      BY <2>2, <3>1 DEF CleanupDeletes, TypeOK
    <3>3. ChatOK'
      BY <2>2 DEF CleanupDeletes, TypeOK, ChatOK
    <3> QED
      BY <3>2, <3>3
  <2>3. CASE CleanupFails
    BY <2>3 DEF CleanupFails, TypeOK, ChatOK
  <2> QED
    BY <1>2, <2>1, <2>2, <2>3
<1>3. ASSUME NEW c \in ChatIDs, GuestSelectPackage(c) \/ GuestHistory(c)
      PROVE  ChatOK' /\ UNCHANGED <<deleted, live, clock, cleaning>>
  BY <1>3, PageRows
<1>4. ASSUME NEW g \in Guests, ExpireGuest(g)
      PROVE  UNCHANGED <<chat, deleted, clock, cleaning>> /\ live' \in SUBSET Guests
  BY <1>4 DEF ExpireGuest, TypeOK
<1>5. ASSUME Passes
      PROVE  UNCHANGED <<chat, deleted, live, cleaning>> /\ clock' \in Nat
  BY <1>5 DEF Passes, Tick, TypeOK
<1> QED
  BY <1>1, <1>2, <1>3, <1>4, <1>5 DEF Aside, TypeOK, ChatOK

-----------------------------------------------------------------------------
(* The session of a turn under way is there.                                 *)

\* The numbers and names in the rows and the turns.
LEMMA Numbers ==
    ASSUME TypeOK
    PROVE  /\ clock \in Nat /\ Grace \in Nat /\ GuestSessionTTL \in Nat /\ Grace <= GuestSessionTTL
           /\ \A c \in ChatIDs : chat[c] # NULL => chat[c].expires \in Nat /\ chat[c].guest \in Guests \cup {NULL}
           /\ \A t \in Turns : turn[t].checked \in Nat
           /\ \A t \in Turns : turn[t].pc # "idle" => turn[t].chat \in ChatIDs /\ turn[t].guest \in Guests
           /\ NULL \notin ChatIDs /\ NULL \notin Guests
BY ChatAssumption, GraceAssumption, ChatNullAssumption DEF TypeOK, ChatRow, TurnOK, CallerOK

\* A turn that proceeds leaves its session as it is, or sets what is not reset.
LEMMA SessionProceeds ==
    ASSUME TypeOK, SessionInv, NEW t \in Turns, Proceeds(t)
    PROVE  SessionInv'
<1>1. /\ \A u \in Turns : u # t => turn'[u] = turn[u]
      /\ turn'[t].chat = turn[t].chat /\ turn[t].pc # "idle"
      /\ turn'[t].pc \in UseSteps =>
           /\ turn[t].pc \in UseSteps /\ turn'[t].checked = turn[t].checked
           /\ turn'[t].pc = "prepare" <=> turn[t].pc = "prepare"
  BY DEF Proceeds, Moves, SameCaller, UseSteps, TurnSteps, ToolSteps, TypeOK, TurnOK, WorkOK
<1>2. /\ \A c \in ChatIDs : chat'[c] = NULL <=> chat[c] = NULL
      /\ \A c \in ChatIDs : chat[c] # NULL => chat'[c].expires = chat[c].expires
      /\ clock' = clock /\ cleaning' = cleaning /\ deleted' = deleted
  BY DEF Proceeds, RowsKept, Others
<1>3. CleaningInv'
  BY <1>2 DEF SessionInv, CleaningInv, Expired, TypeOK
<1>4. BoundInv'
  BY <1>1, <1>2, Numbers DEF SessionInv, BoundInv
<1>5. UseInv'
  <2> SUFFICES ASSUME NEW u \in Turns, InUse(u)'
               PROVE  LET c == turn'[u].chat IN
                      /\ chat'[c] # NULL
                      /\ cleaning' # NULL => c \notin cleaning'
                      /\ turn'[u].checked <= clock'
                      /\ turn'[u].pc = "prepare" =>
                           clock' <= turn'[u].checked + Grace /\ turn'[u].checked <= chat'[c].expires
                      /\ turn'[u].pc # "prepare" =>
                           /\ clock' <= turn'[u].checked + GuestSessionTTL
                           /\ turn'[u].checked + GuestSessionTTL <= chat'[c].expires + Grace
    BY DEF UseInv
  <2>1. /\ InUse(u) /\ turn'[u].chat = turn[u].chat /\ turn'[u].checked = turn[u].checked
        /\ turn'[u].pc = "prepare" <=> turn[u].pc = "prepare"
    BY <1>1 DEF InUse
  <2>2. turn[u].chat \in ChatIDs
    BY <2>1, Numbers DEF InUse, UseSteps
  <2> QED
    BY <1>2, <2>1, <2>2 DEF SessionInv, UseInv
<1> QED
  BY <1>3, <1>4, <1>5 DEF SessionInv

\* A session is created for t.
LEMMA SessionCreated ==
    ASSUME TypeOK, SessionInv, NEW t \in Turns, Moves(t), UNCHANGED Others,
           turn'[t].chat \in Fresh, NEW g \in Guests \cup {NULL}, CreateChatSession(turn'[t].chat, g),
           turn'[t].pc \in {"attach", "check"}
    PROVE  SessionInv'
<1> DEFINE c == turn'[t].chat
<1>1. /\ c \in ChatIDs /\ chat[c] = NULL /\ c \notin deleted
      /\ \A d \in ChatIDs : d # c => chat'[d] = chat[d]
      /\ chat'[c] # NULL
  BY Creates
<1>2. \A u \in Turns : u # t => turn'[u] = turn[u]
  BY DEF Moves
<1>3. CleaningInv'
  <2>1. cleaning # NULL => c \notin cleaning /\ cleaning \in SUBSET ChatIDs
    BY <1>1 DEF SessionInv, CleaningInv, TypeOK
  <2> QED
    BY <1>1, <2>1 DEF SessionInv, CleaningInv, Expired, Others
<1>4. BoundInv'
  <2>1. \A u \in Turns : u # t /\ turn[u].pc # "idle" => turn[u].chat # c /\ turn[u].chat \in ChatIDs
    BY <1>1, Numbers DEF SessionInv, BoundInv
  <2> QED
    BY <1>1, <1>2, <2>1 DEF SessionInv, BoundInv, Others
<1>5. UseInv'
  <2>1. \A u \in Turns : InUse(u)' => u # t /\ InUse(u)
    BY <1>2 DEF InUse, UseSteps
  <2>2. \A u \in Turns : InUse(u) => turn[u].chat # c /\ turn[u].chat \in ChatIDs
    BY <1>1, Numbers DEF SessionInv, UseInv, InUse, UseSteps
  <2> QED
    BY <1>1, <1>2, <2>1, <2>2 DEF SessionInv, UseInv, Others
<1> QED
  BY <1>3, <1>4, <1>5 DEF SessionInv

\* The expiry slides from the moment t read the session.
LEMMA SessionSlides ==
    ASSUME TypeOK, SessionInv, NEW t \in Turns, Moves(t), UNCHANGED Others, turn[t].pc = "prepare",
           Slides(t), turn'[t].chat = turn[t].chat, turn'[t].pc # "prepare",
           turn'[t].pc \in UseSteps => turn'[t].checked = turn[t].checked
    PROVE  SessionInv'
<1> DEFINE c == turn[t].chat
           e == turn[t].checked + GuestSessionTTL
<1>1. /\ c \in ChatIDs /\ e \in Nat /\ InUse(t) /\ ChatOK
      /\ clock \in Nat /\ turn[t].checked \in Nat /\ Grace \in Nat /\ GuestSessionTTL \in Nat
  BY Numbers DEF InUse, UseSteps, TurnSteps, TypeOK, ChatOK
<1>2. /\ \A d \in ChatIDs : chat'[d] = NULL <=> chat[d] = NULL
      /\ \A d \in ChatIDs : chat[d] # NULL =>
            chat'[d].expires = IF d = c THEN e ELSE chat[d].expires
  BY <1>1, Slide DEF Slides, Slid
<1>3. /\ clock <= turn[t].checked + Grace
      /\ cleaning # NULL => c \notin cleaning
      /\ chat[c] # NULL /\ turn[t].checked <= clock
  BY <1>1 DEF SessionInv, UseInv
<1>4. \A u \in Turns : u # t => turn'[u] = turn[u]
  BY DEF Moves
<1>5. CleaningInv'
  <2>1. cleaning # NULL => cleaning \in SUBSET ChatIDs
    BY DEF TypeOK
  <2> QED
    BY <1>2, <1>3, <2>1 DEF SessionInv, CleaningInv, Expired, Others
<1>6. BoundInv'
  BY <1>1, <1>2, <1>4, Numbers DEF SessionInv, BoundInv, Others
<1>7. UseInv'
  <2> SUFFICES ASSUME NEW u \in Turns, InUse(u)'
               PROVE  LET d == turn'[u].chat IN
                      /\ chat'[d] # NULL
                      /\ cleaning' # NULL => d \notin cleaning'
                      /\ turn'[u].checked <= clock'
                      /\ turn'[u].pc = "prepare" =>
                           clock' <= turn'[u].checked + Grace /\ turn'[u].checked <= chat'[d].expires
                      /\ turn'[u].pc # "prepare" =>
                           /\ clock' <= turn'[u].checked + GuestSessionTTL
                           /\ turn'[u].checked + GuestSessionTTL <= chat'[d].expires + Grace
    BY DEF UseInv
  <2>1. /\ InUse(u) /\ turn'[u].chat = turn[u].chat /\ turn'[u].checked = turn[u].checked
        /\ u # t => turn'[u].pc = turn[u].pc
    BY <1>1, <1>4 DEF InUse
  <2>2. turn[u].chat \in ChatIDs /\ turn[u].checked \in Nat
    BY <2>1, Numbers DEF InUse, UseSteps
  <2>3. /\ chat'[turn[u].chat] # NULL /\ clock' = clock /\ cleaning' = cleaning
        /\ cleaning # NULL => turn[u].chat \notin cleaning
        /\ turn[u].checked <= clock
    BY <1>2, <2>1, <2>2 DEF SessionInv, UseInv, Others
  <2>4. CASE turn[u].chat = c
    <3>1. chat'[c].expires = e
      BY <1>1, <1>2, <1>3
    <3>2. /\ turn[u].checked <= e
          /\ turn[u].checked + GuestSessionTTL <= e + Grace
          /\ turn[u].pc = "prepare" => clock <= turn[u].checked + Grace
          /\ clock <= turn[u].checked + GuestSessionTTL
      BY <1>1, <1>3, <2>1, <2>2, <2>3, Numbers DEF SessionInv, UseInv
    <3> QED
      BY <2>1, <2>3, <2>4, <3>1, <3>2
  <2>5. CASE turn[u].chat # c
    BY <1>2, <2>1, <2>2, <2>3, <2>5 DEF SessionInv, UseInv
  <2> QED
    BY <2>4, <2>5
<1> QED
  BY <1>5, <1>6, <1>7 DEF SessionInv

\* A guest is bound, or t has found the session usable.
LEMMA SessionBound ==
    ASSUME TypeOK, SessionInv, NEW t \in Turns, Act(t), Arrives(t) \/ Attaches(t) \/ Checks(t)
    PROVE  SessionInv'
<1>1. Moves(t) /\ UNCHANGED Others /\ \A u \in Turns : u # t => turn'[u] = turn[u]
  BY DEF Act, Moves
<1>2. CASE turn'[t].chat \in Fresh /\ (Arrives(t) \/ Attaches(t))
           /\ \E g \in Guests \cup {NULL} : CreateChatSession(turn'[t].chat, g)
  BY <1>1, <1>2, SessionCreated DEF Arrives, Attaches
<1>3. ASSUME \A d \in ChatIDs : chat'[d] = NULL <=> chat[d] = NULL,
             \A d \in ChatIDs : chat[d] # NULL => chat'[d].expires = chat[d].expires,
             turn'[t].chat \in ChatIDs, chat[turn'[t].chat] # NULL \/ turn'[t].chat \in deleted,
             turn'[t].pc \in {"attach", "check"} \/ Checks(t)
      PROVE  SessionInv'
  <2>1. CleaningInv'
    BY <1>1, <1>3 DEF SessionInv, CleaningInv, Expired, Others, TypeOK
  <2>2. BoundInv'
    BY <1>1, <1>3, Numbers DEF SessionInv, BoundInv, Others
  <2>3. ASSUME NEW u \in Turns, InUse(u)', u # t
        PROVE  /\ InUse(u) /\ turn[u].chat \in ChatIDs /\ turn'[u] = turn[u]
    BY <1>1, <2>3, Numbers DEF InUse, UseSteps
  <2>4. CASE turn'[t].pc \in {"attach", "check"}
    <3>1. ~InUse(t)'
      BY <2>4 DEF InUse, UseSteps
    <3>2. UseInv'
      BY <1>1, <1>3, <2>3, <3>1 DEF SessionInv, UseInv, Others
    <3> QED
      BY <2>1, <2>2, <3>2 DEF SessionInv
  <2>5. CASE Checks(t)
    <3> DEFINE c == turn[t].chat
    <3>1. /\ c \in ChatIDs /\ chat[c] # NULL /\ ~(chat[c].expires <= clock)
          /\ turn'[t].chat = c /\ turn'[t].checked = clock /\ turn'[t].pc = "prepare"
      BY <1>3, <2>5 DEF Checks, Usable, Exists, Expired
    <3>2. cleaning # NULL => c \notin cleaning
      BY <3>1 DEF SessionInv, CleaningInv, Expired
    <3>3. clock <= clock + Grace /\ clock <= chat[c].expires
      BY <3>1, Numbers
    <3>4. chat'[c] # NULL /\ chat'[c].expires = chat[c].expires /\ clock' = clock /\ cleaning' = cleaning
      BY <1>1, <1>3, <3>1 DEF Others
    <3>5. UseInv'
      <4> SUFFICES ASSUME NEW u \in Turns, InUse(u)'
               PROVE  LET d == turn'[u].chat IN
                      /\ chat'[d] # NULL
                      /\ cleaning' # NULL => d \notin cleaning'
                      /\ turn'[u].checked <= clock'
                      /\ turn'[u].pc = "prepare" =>
                           clock' <= turn'[u].checked + Grace /\ turn'[u].checked <= chat'[d].expires
                      /\ turn'[u].pc # "prepare" =>
                           /\ clock' <= turn'[u].checked + GuestSessionTTL
                           /\ turn'[u].checked + GuestSessionTTL <= chat'[d].expires + Grace
        BY DEF UseInv
      <4>1. CASE u = t
        BY <3>1, <3>2, <3>3, <3>4, <4>1, Numbers
      <4>2. CASE u # t
        BY <1>1, <1>3, <2>3, <4>2 DEF SessionInv, UseInv, Others
      <4> QED
        BY <4>1, <4>2
    <3> QED
      BY <2>1, <2>2, <3>5 DEF SessionInv
  <2> QED
    BY <1>3, <2>4, <2>5
<1>4. CASE Arrives(t) /\ UNCHANGED chat /\ chat[turn'[t].chat] # NULL
  <2>1. turn'[t].chat \in ChatIDs /\ chat[turn'[t].chat] # NULL /\ turn'[t].pc = "attach" /\ chat' = chat
    BY <1>4 DEF Arrives
  <2> QED
    BY <1>3, <2>1
<1>5. CASE Attaches(t) /\ turn'[t].chat = turn[t].chat /\ MayBind(turn[t].chat, turn[t].guest)
           /\ Set(turn[t].chat, [chat[turn[t].chat] EXCEPT !.guest = turn[t].guest])
  <2>1. turn[t].chat \in ChatIDs /\ turn[t].guest \in Guests /\ ChatOK
    BY <1>5, Numbers DEF Attaches, TypeOK, ChatOK
  <2>2. /\ \A d \in ChatIDs : chat'[d] = NULL <=> chat[d] = NULL
        /\ \A d \in ChatIDs : chat[d] # NULL => chat'[d].expires = chat[d].expires
    BY <1>5, <2>1, Bind DEF Slid
  <2>3. chat[turn[t].chat] # NULL
    BY <1>5 DEF MayBind, Exists
  <2>4. turn'[t].pc = "check" /\ turn'[t].chat \in ChatIDs /\ chat[turn'[t].chat] # NULL
    BY <1>5, <2>1, <2>3 DEF Attaches
  <2> QED
    BY <1>3, <2>2, <2>4
<1>6. CASE Checks(t)
  <2>1. turn[t].chat \in ChatIDs /\ chat[turn[t].chat] # NULL
    BY <1>6, Numbers DEF Checks, Usable, Exists
  <2>2. turn'[t].chat = turn[t].chat /\ chat' = chat
    BY <1>6 DEF Checks
  <2> QED
    BY <1>3, <1>6, <2>1, <2>2
<1>7. Attaches(t) => turn[t].guest \in Guests
  BY Numbers DEF Attaches
<1> QED
  BY <1>2, <1>4, <1>5, <1>6, <1>7 DEF Arrives, Attaches

\* The session of a turn under way is there after each step of a turn ...
LEMMA SessionActs ==
    ASSUME TypeOK, SessionInv, NEW t \in Turns, Act(t)
    PROVE  SessionInv'
<1>1. CASE Proceeds(t)
  BY <1>1, SessionProceeds
<1>2. CASE Arrives(t) \/ Attaches(t) \/ Checks(t)
  BY <1>2, SessionBound
<1>3. CASE Prepares(t)
  <2>1. Slides(t) /\ turn[t].pc = "prepare" /\ turn'[t].chat = turn[t].chat
        /\ turn'[t].pc # "prepare" /\ turn'[t].checked = turn[t].checked /\ Moves(t) /\ UNCHANGED Others
    BY <1>3 DEF Prepares, Slides, SameSession, Act
  <2> QED
    BY <2>1, SessionSlides
<1>4. CASE turn[t].pc = "prepare" /\ Slides(t) /\ EndStep(t)
  <2>1. turn'[t].chat = turn[t].chat /\ turn'[t].pc = "over" /\ Moves(t) /\ UNCHANGED Others
    BY <1>4 DEF EndStep, SameCaller, Act
  <2>2. turn'[t].pc \notin UseSteps
    BY <2>1 DEF UseSteps
  <2> QED
    BY <1>4, <2>1, <2>2, SessionSlides
<1> QED
  BY <1>1, <1>2, <1>3, <1>4, EarlyRows

\* ... and after each other step: what the cleanup deletes was due, and time passes
\* no further than a turn may last.
LEMMA SessionAsides ==
    ASSUME TypeOK, SessionInv, Aside
    PROVE  SessionInv'
<1>1. turn' = turn
  BY DEF Aside, Beside
<1>2. \A t \in Turns : InUse(t) => turn[t].chat \in ChatIDs /\ turn[t].checked \in Nat
  BY Numbers DEF InUse, UseSteps
<1>3. \A t \in Turns : InUse(t)' <=> InUse(t)
  BY <1>1 DEF InUse
<1>4. CASE CleanupSelects
  <2>1. cleaning' = Due /\ UNCHANGED <<chat, deleted, live, clock>>
    BY <1>4 DEF CleanupSelects
  <2>2. \A c \in Due : chat[c] # NULL /\ c \in ChatIDs /\ chat[c].expires + Grace < clock
    BY DEF Due, Exists
  <2>3. CleaningInv'
    <3>1. \A c \in Due : chat[c].expires <= clock
      BY <2>2, Numbers
    <3> QED
      BY <2>1, <2>2, <3>1 DEF CleaningInv, Expired
  <2>4. BoundInv'
    BY <1>1, <2>1 DEF SessionInv, BoundInv
  <2>5. \A t \in Turns : InUse(t) => turn[t].chat \notin Due
    <3> SUFFICES ASSUME NEW t \in Turns, InUse(t), turn[t].chat \in Due PROVE FALSE
      OBVIOUS
    <3>1. /\ turn[t].pc = "prepare" => clock <= turn[t].checked + Grace /\ turn[t].checked <= chat[turn[t].chat].expires
          /\ turn[t].pc # "prepare" => /\ clock <= turn[t].checked + GuestSessionTTL
                                       /\ turn[t].checked + GuestSessionTTL <= chat[turn[t].chat].expires + Grace
      BY DEF SessionInv, UseInv
    <3>2. chat[turn[t].chat].expires + Grace < clock /\ chat[turn[t].chat].expires \in Nat
      BY <2>2, Numbers
    <3> QED
      BY <1>2, <3>1, <3>2, Numbers
  <2>6. UseInv'
    BY <1>1, <1>3, <2>1, <2>5 DEF SessionInv, UseInv
  <2> QED
    BY <2>3, <2>4, <2>6 DEF SessionInv
<1>5. CASE CleanupDeletes
  <2>1. /\ cleaning \in SUBSET ChatIDs /\ cleaning # NULL /\ cleaning' = NULL
        /\ chat' = [c \in ChatIDs |-> IF c \in cleaning THEN NULL ELSE chat[c]]
        /\ deleted' = deleted \cup cleaning /\ UNCHANGED <<live, clock>>
    BY <1>5 DEF CleanupDeletes, TypeOK
  <2>2. CleaningInv'
    BY <2>1 DEF CleaningInv
  <2>3. BoundInv'
    BY <1>1, <2>1, Numbers DEF SessionInv, BoundInv
  <2>4. \A t \in Turns : InUse(t) => chat'[turn[t].chat] = chat[turn[t].chat]
    BY <1>2, <2>1 DEF SessionInv, UseInv
  <2>5. UseInv'
    BY <1>1, <1>3, <2>1, <2>4 DEF SessionInv, UseInv
  <2> QED
    BY <2>2, <2>3, <2>5 DEF SessionInv
<1>6. CASE CleanupFails
  <2>1. cleaning' = NULL /\ UNCHANGED <<chat, deleted, live, clock>>
    BY <1>6 DEF CleanupFails
  <2> QED
    BY <1>1, <1>3, <2>1 DEF SessionInv, CleaningInv, BoundInv, UseInv
<1>7. ASSUME NEW c \in ChatIDs, GuestSelectPackage(c) \/ GuestHistory(c)
      PROVE  SessionInv'
  <2>1. /\ UNCHANGED <<deleted, live, clock, cleaning>>
        /\ chat[c] # NULL /\ ~(chat[c].expires <= clock)
        /\ \A d \in ChatIDs : chat'[d] = NULL <=> chat[d] = NULL
        /\ \A d \in ChatIDs : chat[d] # NULL =>
             \/ chat'[d].expires = chat[d].expires
             \/ d = c /\ chat'[d].expires = clock + GuestSessionTTL
    BY <1>7, PageRows DEF Expired
  <2>2. CleaningInv'
    <3>1. cleaning # NULL => cleaning \in SUBSET ChatIDs /\ c \notin cleaning
      BY <2>1 DEF SessionInv, CleaningInv, Expired, TypeOK
    <3> QED
      BY <2>1, <3>1 DEF SessionInv, CleaningInv, Expired
  <2>3. BoundInv'
    BY <1>1, <2>1, Numbers DEF SessionInv, BoundInv
  <2>4. UseInv'
    <3> SUFFICES ASSUME NEW t \in Turns, InUse(t)
                 PROVE  LET d == turn[t].chat IN
                      /\ chat'[d] # NULL
                      /\ cleaning # NULL => d \notin cleaning
                      /\ turn[t].checked <= clock
                      /\ turn[t].pc = "prepare" =>
                           clock <= turn[t].checked + Grace /\ turn[t].checked <= chat'[d].expires
                      /\ turn[t].pc # "prepare" =>
                           /\ clock <= turn[t].checked + GuestSessionTTL
                           /\ turn[t].checked + GuestSessionTTL <= chat'[d].expires + Grace
      BY <1>1, <1>3, <2>1 DEF UseInv
    <3>1. turn[t].chat \in ChatIDs /\ turn[t].checked \in Nat
      BY <1>2
    <3>2. /\ chat[turn[t].chat] # NULL /\ chat'[turn[t].chat] # NULL
          /\ cleaning # NULL => turn[t].chat \notin cleaning
          /\ turn[t].checked <= clock
          /\ turn[t].pc = "prepare" => clock <= turn[t].checked + Grace /\ turn[t].checked <= chat[turn[t].chat].expires
          /\ turn[t].pc # "prepare" => /\ clock <= turn[t].checked + GuestSessionTTL
                                       /\ turn[t].checked + GuestSessionTTL <= chat[turn[t].chat].expires + Grace
      BY <2>1, <3>1 DEF SessionInv, UseInv
    <3>3. \/ chat'[turn[t].chat].expires = chat[turn[t].chat].expires
          \/ chat'[turn[t].chat].expires = clock + GuestSessionTTL
      BY <2>1, <3>1, <3>2
    <3>4. chat'[turn[t].chat].expires = clock + GuestSessionTTL =>
             /\ turn[t].checked <= chat'[turn[t].chat].expires
             /\ turn[t].checked + GuestSessionTTL <= chat'[turn[t].chat].expires + Grace
      BY <3>1, <3>2, Numbers
    <3> QED
      BY <3>2, <3>3, <3>4
  <2> QED
    BY <2>2, <2>3, <2>4 DEF SessionInv
<1>8. CASE \E g \in Guests : ExpireGuest(g)
  <2>1. UNCHANGED <<chat, deleted, clock, cleaning>>
    BY <1>8 DEF ExpireGuest
  <2> QED
    BY <1>1, <1>3, <2>1 DEF SessionInv, CleaningInv, BoundInv, UseInv, Expired
<1>9. CASE Passes
  <2>1. clock' = clock + 1 /\ UNCHANGED <<chat, deleted, live, cleaning>>
    BY <1>9 DEF Passes, Tick
  <2>2. CleaningInv'
    <3>1. cleaning # NULL => cleaning \in SUBSET ChatIDs
      BY DEF TypeOK
    <3> QED
      BY <2>1, <3>1, Numbers DEF SessionInv, CleaningInv, Expired
  <2>3. BoundInv'
    BY <1>1, <2>1 DEF SessionInv, BoundInv
  <2>4. \A t \in Turns : InUse(t) =>
           /\ turn[t].pc = "prepare" => clock < turn[t].checked + Grace
           /\ turn[t].pc # "prepare" => clock < turn[t].checked + GuestSessionTTL
    <3> SUFFICES ASSUME NEW t \in Turns, InUse(t)
                 PROVE  /\ turn[t].pc = "prepare" => clock < turn[t].checked + Grace
                        /\ turn[t].pc # "prepare" => clock < turn[t].checked + GuestSessionTTL
      OBVIOUS
    <3>1. t \in Active /\ turn[t].pc \notin {"attach", "check"}
      BY DEF InUse, UseSteps, Active
    <3>2. clock < turn[t].checked + (IF turn[t].pc \in {"attach", "check", "prepare"} THEN Grace ELSE GuestSessionTTL)
      BY <1>9, <3>1 DEF Passes
    <3> QED
      BY <3>1, <3>2
  <2>5. \A t \in Turns : InUse(t) =>
           /\ turn[t].checked <= clock + 1
           /\ turn[t].pc = "prepare" => clock + 1 <= turn[t].checked + Grace
           /\ turn[t].pc # "prepare" => clock + 1 <= turn[t].checked + GuestSessionTTL
    BY <1>2, <2>4, Numbers DEF SessionInv, UseInv
  <2>6. UseInv'
    BY <1>1, <1>3, <2>1, <2>5 DEF SessionInv, UseInv
  <2> QED
    BY <2>2, <2>3, <2>6 DEF SessionInv
<1> QED
  BY <1>4, <1>5, <1>6, <1>7, <1>8, <1>9 DEF Aside

-----------------------------------------------------------------------------
(* The guest of a turn and the guest of its session.                         *)

\* The steps that lead to a place in the work of a turn.
LEMMA Arrivals ==
    ASSUME NEW t \in Turns, Act(t)
    PROVE  /\ turn'[t].pc = "owner" => PassesGuard(t) \/ Cancels(t)
           /\ turn'[t].pc = "place" => TakesOwner(t) \/ Cancels(t)
           /\ turn'[t].pc = "mark" => FindsOrder(t) \/ EntersOrder(t) \/ Cancels(t)
           /\ turn'[t].pc = "finalize" => TalkStep(t) \/ Cancels(t)
           /\ turn'[t].pc = "persist" => Finalizes(t) \/ Cancels(t)
<1>1. CASE ToolKind(t)
  BY <1>1 DEF ToolKind, ToolBase, ToolSteps, PlainTool, StoresSelection, PassesGuard, TakesOwner,
     FindsOrder, EntersOrder, MarksOrder, Tells
<1>2. CASE ~ToolKind(t)
  BY <1>2 DEF Act, Arrives, Attaches, Checks, Prepares, TalkStep, Finalizes, EndStep
<1> QED
  BY <1>1, <1>2

\* An answer is ready to be persisted, or was.
LEMMA Ending ==
    ASSUME TypeOK, NEW t \in Turns, Act(t), turn'[t].pc = "persist" \/ Answered(t)'
    PROVE  Finalizes(t) \/ Cancels(t) \/ EndStep(t)
<1>1. turn'[t].pc # "persist" => turn'[t].pc = "over"
  BY DEF Act, Answered, TurnOK, WorkOK
<1>2. turn'[t].pc = "over" => EndStep(t) \/ Cancels(t)
  <2>1. ToolKind(t) => turn'[t].pc \in ToolSteps
    BY DEF ToolKind, PlainTool, StoresSelection, PassesGuard, TakesOwner, FindsOrder,
       EntersOrder, MarksOrder, ToolBase
  <2> QED
    BY <2>1 DEF Act, Arrives, Attaches, Checks, Prepares, TalkStep, Finalizes, ToolSteps
<1> QED
  BY <1>1, <1>2, Arrivals

\* The guest of a session is the caller of its turns, or is dead ...
LEMMA GuestActs ==
    ASSUME TypeOK, SessionInv, GuestInv, NEW t \in Turns, Act(t)
    PROVE  GuestInv'
<1>1. live' = live /\ \A u \in Turns : u # t => turn'[u] = turn[u]
  BY DEF Act, Moves, Others
<1>2. ASSUME NEW u \in Turns, turn'[u].pc = "place"
      PROVE  /\ turn'[u].owner = Account <=> turn'[u].signed
             /\ turn'[u].owner # Account => turn'[u].owner = turn'[u].guest \/ turn'[u].guest \notin live'
  <2>1. CASE u # t
    BY <1>1, <1>2, <2>1 DEF GuestInv
  <2>2. CASE u = t /\ Cancels(t)
    BY <1>1, <1>2, <2>2 DEF GuestInv, Cancels, SameCaller
  <2>3. CASE u = t /\ TakesOwner(t)
    <3>1. turn[t].pc = "owner" /\ turn'[t].signed = turn[t].signed /\ turn'[t].guest = turn[t].guest
      BY <2>3 DEF TakesOwner, ToolBase, SameCaller
    <3>2. CASE turn[t].signed
      BY <2>3, <3>1, <3>2 DEF TakesOwner
    <3>3. CASE ~turn[t].signed
      <4>1. /\ chat[turn[t].chat] # NULL /\ turn'[t].owner = chat[turn[t].chat].guest
            /\ turn[t].chat \in ChatIDs
        BY <2>3, <3>1, <3>3, Numbers DEF TakesOwner
      <4>2. turn'[t].owner # Account
        BY <4>1, Numbers, ChatNullAssumption
      <4>3. chat[turn[t].chat].guest = turn[t].guest \/ turn[t].guest \notin live
        BY <3>1, <4>1 DEF GuestInv
      <4> QED
        BY <1>1, <2>3, <3>1, <3>3, <4>1, <4>2, <4>3
    <3> QED
      BY <3>2, <3>3
  <2> QED
    BY <1>2, <2>1, <2>2, <2>3, Arrivals
<1>3. ASSUME NEW u \in Turns, turn'[u].pc \notin {"idle", "attach", "over"}, chat'[turn'[u].chat] # NULL
      PROVE  chat'[turn'[u].chat].guest = turn'[u].guest \/ turn'[u].guest \notin live'
  <2>1. CASE Proceeds(t)
    <3>1. turn'[u].chat = turn[u].chat /\ turn'[u].guest = turn[u].guest
      BY <1>1, <2>1 DEF Proceeds, SameCaller
    <3>2. turn[u].pc \notin {"idle", "attach", "over"}
      BY <1>1, <1>3, <2>1 DEF Proceeds
    <3>3. turn[u].chat \in ChatIDs /\ chat[turn[u].chat] # NULL /\ chat'[turn[u].chat].guest = chat[turn[u].chat].guest
      BY <1>3, <2>1, <3>1, <3>2, Numbers DEF Proceeds, RowsKept
    <3> QED
      BY <1>1, <3>1, <3>2, <3>3 DEF GuestInv
  <2>2. CASE turn'[t].chat \in Fresh /\ (Arrives(t) \/ Attaches(t))
             /\ \E g \in Guests \cup {NULL} : CreateChatSession(turn'[t].chat, g)
    <3>1. CASE u = t
      <4>1. Attaches(t) /\ turn'[t].guest = turn[t].guest /\ turn[t].guest \in Guests
        BY <1>3, <2>2, <3>1, Numbers DEF Arrives, Attaches, Early
      <4>2. CASE CreateChatSession(turn'[t].chat, turn[t].guest)
        BY <2>2, <3>1, <4>1, <4>2, Creates
      <4>3. CASE turn'[t].chat = turn[t].chat /\ MayBind(turn[t].chat, turn[t].guest)
        BY <2>2, <4>3 DEF Fresh, Unused, MayBind, Exists
      <4> QED
        BY <4>1, <4>2, <4>3 DEF Attaches
    <3>2. CASE u # t
      <4>1. turn'[u] = turn[u] /\ turn[u].pc # "idle" /\ turn[u].chat \in ChatIDs
        BY <1>1, <1>3, <3>2, Numbers
      <4>2. turn[u].chat # turn'[t].chat
        BY <2>2, <4>1 DEF SessionInv, BoundInv, Fresh, Unused
      <4>3. chat'[turn[u].chat] = chat[turn[u].chat]
        BY <2>2, <4>1, <4>2, Creates
      <4> QED
        BY <1>1, <1>3, <4>1, <4>3 DEF GuestInv
    <3> QED
      BY <3>1, <3>2
  <2>3. CASE Attaches(t) /\ turn'[t].chat = turn[t].chat /\ MayBind(turn[t].chat, turn[t].guest)
             /\ Set(turn[t].chat, [chat[turn[t].chat] EXCEPT !.guest = turn[t].guest])
    <3>1. turn[t].chat \in ChatIDs /\ turn[t].guest \in Guests /\ turn'[t].guest = turn[t].guest /\ ChatOK
      BY <2>3, Numbers DEF Attaches, Early, TypeOK, ChatOK
    <3>2. /\ \A d \in ChatIDs : chat'[d] = NULL <=> chat[d] = NULL
          /\ \A d \in ChatIDs : chat[d] # NULL =>
                chat'[d].guest = IF d = turn[t].chat THEN turn[t].guest ELSE chat[d].guest
      BY <2>3, <3>1, Bind DEF Slid
    <3>3. CASE u = t
      BY <1>3, <2>3, <3>1, <3>2, <3>3
    <3>4. CASE u # t
      <4>1. /\ turn'[u] = turn[u] /\ turn[u].pc # "idle" /\ turn[u].chat \in ChatIDs
            /\ turn[u].guest \in Guests /\ chat[turn[u].chat] # NULL
        BY <1>1, <1>3, <3>2, <3>4, Numbers
      <4>2. chat[turn[u].chat].guest = turn[u].guest \/ turn[u].guest \notin live
        BY <1>3, <4>1 DEF GuestInv
      <4>3. CASE turn[u].chat = turn[t].chat
        BY <1>1, <2>3, <3>2, <4>1, <4>2, <4>3, Numbers DEF MayBind
      <4>4. CASE turn[u].chat # turn[t].chat
        BY <1>1, <3>2, <4>1, <4>2, <4>4
      <4> QED
        BY <4>3, <4>4
    <3> QED
      BY <3>3, <3>4
  <2>4. CASE /\ turn'[t].pc # "over" => turn[t].pc \notin {"idle", "attach", "over"}
             /\ turn'[t].chat = turn[t].chat /\ turn'[t].guest = turn[t].guest
             /\ \A d \in ChatIDs : chat'[d] = NULL <=> chat[d] = NULL
             /\ \A d \in ChatIDs : chat[d] # NULL => chat'[d].guest = chat[d].guest
    <3>1. /\ turn'[u].chat = turn[u].chat /\ turn'[u].guest = turn[u].guest
          /\ turn[u].pc \notin {"idle", "attach", "over"}
      BY <1>1, <1>3, <2>4
    <3>2. turn[u].chat \in ChatIDs /\ chat[turn[u].chat] # NULL
      BY <1>3, <2>4, <3>1, Numbers
    <3> QED
      BY <1>1, <2>4, <3>1, <3>2 DEF GuestInv
  <2>5. CASE Arrives(t) /\ UNCHANGED chat
    <3>1. u # t /\ turn'[u] = turn[u]
      BY <1>1, <1>3, <2>5 DEF Arrives
    <3> QED
      BY <1>1, <1>3, <2>5, <3>1 DEF GuestInv
  <2>6. CASE Slides(t) /\ turn[t].pc = "prepare" /\ turn'[t].chat = turn[t].chat /\ turn'[t].guest = turn[t].guest
    <3>1. turn[t].chat \in ChatIDs /\ turn[t].checked + GuestSessionTTL \in Nat /\ ChatOK
      BY <2>6, Numbers DEF TypeOK, ChatOK
    <3> QED
      BY <2>4, <2>6, <3>1, Slide DEF Slides, Slid
  <2>7. CASE Checks(t)
    BY <2>4, <2>7 DEF Checks, Early
  <2>8. CASE Prepares(t)
    BY <2>6, <2>8 DEF Prepares, Slides
  <2>9. CASE turn[t].pc = "prepare" /\ Slides(t) /\ EndStep(t)
    BY <2>6, <2>9 DEF EndStep, SameCaller
  <2>10. Attaches(t) => turn[t].guest \in Guests
    BY Numbers DEF Attaches
  <2>11. CASE Attaches(t)
    BY <2>2, <2>3, <2>10, <2>11 DEF Attaches
  <2>12. CASE Arrives(t)
    BY <2>2, <2>5, <2>12 DEF Arrives
  <2> QED
    BY <2>1, <2>7, <2>8, <2>9, <2>11, <2>12, EarlyRows
<1> QED
  BY <1>2, <1>3 DEF GuestInv

\* ... and the dead stay dead.
LEMMA GuestAsides ==
    ASSUME TypeOK, GuestInv, Aside
    PROVE  GuestInv'
<1>1. turn' = turn /\ live' \subseteq live
  BY DEF Aside, Beside, CleanupSelects, CleanupDeletes, CleanupFails, GuestSelectPackage, GuestHistory,
     ExpireGuest, Passes, Tick
<1>2. \A d \in ChatIDs : chat'[d] # NULL => chat[d] # NULL /\ chat'[d].guest = chat[d].guest
  <2>1. CASE CleanupDeletes
    BY <2>1 DEF CleanupDeletes
  <2>2. ASSUME NEW c \in ChatIDs, GuestSelectPackage(c) \/ GuestHistory(c)
        PROVE  \A d \in ChatIDs : chat'[d] # NULL => chat[d] # NULL /\ chat'[d].guest = chat[d].guest
    BY <2>2, PageRows
  <2>3. CASE chat' = chat
    BY <2>3
  <2> QED
    BY <2>1, <2>2, <2>3 DEF Aside, CleanupSelects, CleanupFails, ExpireGuest, Passes, Tick
<1>3. \A t \in Turns : turn[t].pc # "idle" => turn[t].chat \in ChatIDs
  BY Numbers
<1> QED
  BY <1>1, <1>2, <1>3 DEF GuestInv

-----------------------------------------------------------------------------
(* What the client has seen.                                                 *)

\* What was shown stays part of the answer.
LEMMA TextActs ==
    ASSUME TypeOK, NEW t \in Turns, TextOK(turn[t]), Act(t)
    PROVE  TextOK(turn'[t])
<1>1. TurnOK(turn[t]) /\ TurnOK(turn'[t])
  BY DEF TypeOK, Act
<1>2. turn'[t].pc # "over" => turn'[t].reply = "none"
  BY <1>1 DEF TurnOK, WorkOK
<1>3. CASE Arrives(t)
  BY <1>2, <1>3 DEF Arrives, TextOK
<1>4. CASE Attaches(t)
  <2>1. turn'[t].pc = "check" /\ turn'[t].shown = turn[t].shown /\ turn'[t].committed = turn[t].committed
        /\ turn[t].pc = "attach"
    BY <1>4 DEF Attaches, Early
  <2> QED
    BY <1>2, <2>1 DEF TextOK
<1>5. CASE Checks(t)
  <2>1. turn'[t].pc = "prepare" /\ turn'[t].shown = turn[t].shown /\ turn'[t].committed = turn[t].committed
        /\ turn[t].pc = "check"
    BY <1>5 DEF Checks, Early
  <2> QED
    BY <1>2, <2>1 DEF TextOK
<1>6. CASE Prepares(t)
  <2>1. /\ turn[t].pc = "prepare" /\ turn'[t].pc = (IF turn[t].stream THEN "stream" ELSE "generate")
        /\ turn'[t].stream = turn[t].stream
        /\ turn'[t].shown = turn[t].shown /\ turn'[t].committed = FALSE
    BY <1>6 DEF Prepares
  <2> QED
    BY <1>2, <2>1 DEF TextOK
<1>7. CASE ToolKind(t)
  <2>1. ToolBase(t)
    BY <1>7 DEF ToolKind, PlainTool, StoresSelection, PassesGuard, TakesOwner, FindsOrder,
       EntersOrder, MarksOrder
  <2> QED
    BY <1>2, <2>1 DEF ToolBase, SameText, ToolSteps, TextOK
<1>8. CASE TalkStep(t)
  <2>1. TextOK(turn[t]) /\ turn'[t].reply = "none"
    BY <1>2, <1>8 DEF TalkStep
  <2>2. turn[t].committed \in BOOLEAN /\ turn[t].shown \in BOOLEAN /\ turn[t].stream \in BOOLEAN
    BY <1>1 DEF TurnOK, FlagsOK
  <2> QED
    BY <1>8, <2>1, <2>2 DEF TalkStep, TextOK
<1>9. CASE Finalizes(t)
  <2>1. turn'[t].reply = "none"
    BY <1>2, <1>9 DEF Finalizes
  <2> QED
    BY <1>9, <2>1 DEF Finalizes, TextOK
<1>10. CASE EndStep(t)
  BY <1>10 DEF EndStep, TextOK
<1>11. CASE Cancels(t)
  BY <1>2, <1>11 DEF Cancels, SameText, TextOK
<1> QED
  BY <1>3, <1>4, <1>5, <1>6, <1>7, <1>8, <1>9, <1>10, <1>11 DEF Act

-----------------------------------------------------------------------------
(* Who entered an order, and for whom.                                       *)

\* A turn that was under way keeps its request; the others are as they were.
LEMMA Entered ==
    ASSUME TypeOK, NEW t \in Turns, Act(t), NEW u \in Turns,
           turn[u].pc \notin {"idle", "attach", "check", "prepare"}
    PROVE  /\ turn'[u].pc \notin {"idle", "attach", "check", "prepare"}
           /\ turn'[u].chat = turn[u].chat /\ turn'[u].guest = turn[u].guest
           /\ turn'[u].signed = turn[u].signed /\ turn'[u].after = turn[u].after
<1>1. \A v \in Turns : v # t => turn'[v] = turn[v]
  BY DEF Act, Moves
<1>2. CASE u = t
  <2>1. ~(Arrives(t) \/ Attaches(t) \/ Checks(t) \/ Prepares(t)) /\ turn[t].pc # "prepare"
    BY <1>2 DEF Arrives, Attaches, Checks, Prepares
  <2>2. Proceeds(t)
    BY <2>1, Proceeding
  <2> QED
    BY <1>2, <2>2 DEF Proceeds, SameCaller
<1> QED
  BY <1>1, <1>2

\* The order t enters, with what is known of it.
LEMMA Entry ==
    ASSUME TypeOK, GuestInv, NEW t \in Turns, EntersOrder(t)
    PROVE  /\ turn[t].pc = "place" /\ turn[t].owner \in Guests \cup {Account}
           /\ turn'[t].pc \in {"mark", "more"}
           /\ turn[t].owner = Account <=> turn[t].signed
           /\ turn[t].owner # Account => turn[t].owner = turn[t].guest \/ turn[t].guest \notin live
BY DEF EntersOrder, Tells, TypeOK, TurnOK, WorkOK, GuestInv

\* An order has the owner and the conversation of the turn that entered it ...
LEMMA OrderActs ==
    ASSUME TypeOK, GuestInv, OrderInv, GuestOrdersAreTheCallers, NEW t \in Turns, Act(t)
    PROVE  OrderInv' /\ GuestOrdersAreTheCallers'
<1>1. live' = live /\ live \in SUBSET Guests /\ TurnOK(turn[t])
  BY DEF Act, Others, TypeOK
<1>2. ASSUME NEW b \in Orders, ledger[b] # NULL
      PROVE  /\ ledger'[b] # NULL /\ origin'[b] # NULL
             /\ turn'[origin'[b]].pc \notin {"idle", "attach", "check", "prepare"}
             /\ ledger'[b].key[1] = turn'[origin'[b]].chat
             /\ ledger'[b].placed_by # Account =>
                  turn'[origin'[b]].guest \in {ledger'[b].placed_by} \cup (Guests \ live')
  <2>1. ledger'[b] = ledger[b] /\ origin'[b] = origin[b] /\ origin[b] # NULL /\ origin[b] \in Turns
    BY <1>2, LedgerKept DEF OrderInv, TypeOK
  <2>2. /\ turn[origin[b]].pc \notin {"idle", "attach", "check", "prepare"}
        /\ ledger[b].key[1] = turn[origin[b]].chat
        /\ ledger[b].placed_by # Account =>
                  turn[origin[b]].guest \in {ledger[b].placed_by} \cup (Guests \ live)
    BY <1>2 DEF OrderInv, GuestOrdersAreTheCallers
  <2> QED
    BY <1>1, <1>2, <2>1, <2>2, Entered
<1>3. CASE NoOrder
  BY <1>2, <1>3 DEF OrderInv, GuestOrdersAreTheCallers, NoOrder
<1>4. CASE EntersOrder(t) /\ \E b \in Orders : New(t, b)
  <2>1. PICK b \in Orders : New(t, b)
    BY <1>4
  <2>2. /\ turn'[t].chat = turn[t].chat /\ turn'[t].guest = turn[t].guest
        /\ turn'[t].pc \notin {"idle", "attach", "check", "prepare"}
    BY <1>4, Entry, Entered
  <2>3. turn[t].guest \in Guests /\ t # NULL
    BY <1>4, Entry, Numbers, ChatNullAssumption
  <2>4. /\ ledger'[b] # NULL /\ origin'[b] = t /\ ledger'[b].key[1] = turn[t].chat
        /\ ledger'[b].placed_by = turn[t].owner
        /\ \A a \in Orders : a # b => ledger'[a] = ledger[a] /\ origin'[a] = origin[a]
    BY <2>1 DEF New
  <2>5. ledger'[b].placed_by # Account =>
           turn'[t].guest \in {ledger'[b].placed_by} \cup (Guests \ live')
    BY <1>1, <1>4, <2>2, <2>3, <2>4, Entry
  <2>6. OrderInv'
    BY <1>2, <2>2, <2>3, <2>4 DEF OrderInv
  <2>7. GuestOrdersAreTheCallers'
    BY <1>2, <2>4, <2>5 DEF GuestOrdersAreTheCallers
  <2> QED
    BY <2>6, <2>7
<1> QED
  BY <1>3, <1>4, OrderSteps

\* ... and keeps them.
LEMMA OrderAsides ==
    ASSUME TypeOK, OrderInv, GuestOrdersAreTheCallers, Aside
    PROVE  OrderInv' /\ GuestOrdersAreTheCallers'
<1>1. ledger' = ledger /\ origin' = origin /\ turn' = turn /\ live' \subseteq live
  BY DEF Aside, Beside, CleanupSelects, CleanupDeletes, CleanupFails, GuestSelectPackage, GuestHistory,
     ExpireGuest, Passes, Tick
<1> QED
  BY <1>1 DEF OrderInv, GuestOrdersAreTheCallers

-----------------------------------------------------------------------------
(* Selections.                                                               *)

\* Has over one more result, and over none.
LEMMA HasAppended ==
    ASSUME NEW results \in Seq(ToolResult), NEW r \in ToolResult, NEW tool, NEW outcomes
    PROVE  Has(Append(results, r), tool, outcomes) <=>
             Has(results, tool, outcomes) \/ (r.tool = tool /\ r.outcome \in outcomes)
<1> DEFINE s == Append(results, r)
<1>1. /\ DOMAIN s = 1 .. Len(results) + 1 /\ s[Len(results) + 1] = r
      /\ DOMAIN results = 1 .. Len(results) /\ Len(results) \in Nat
      /\ \A i \in 1 .. Len(results) : s[i] = results[i]
  OBVIOUS
<1> HIDE DEF s
<1> QED
  BY <1>1 DEF Has, s

\* The turn knows of a selection.
SelectKnown(t) == turn[t].selected \/ Has(turn[t].results, "select", {"ok"})

LEMMA Empty ==
    ASSUME NEW tool, NEW outcomes
    PROVE  ~Has(<<>>, tool, outcomes)
BY DEF Has

\* A selection that is known is stored, and no answer passes its guard without
\* the session having been read again ...
LEMMA SelectActs ==
    ASSUME TypeOK, SessionInv, SelectInv, NEW t \in Turns, Act(t)
    PROVE  SelectInv'
<1>1. /\ \A u \in Turns : u # t => turn'[u] = turn[u]
      /\ turn[t].results \in Seq(ToolResult) /\ TurnOK(turn[t]) /\ TurnOK(turn'[t])
  BY DEF Act, Moves, TypeOK, TurnOK, WorkOK
<1>2. \A u \in Turns : InUse(u) => /\ turn[u].chat \in ChatIDs /\ chat[turn[u].chat] # NULL
                                   /\ chat[turn[u].chat].selected => chat'[turn[u].chat].selected
  <2> SUFFICES ASSUME NEW u \in Turns, InUse(u)
               PROVE  /\ turn[u].chat \in ChatIDs /\ chat[turn[u].chat] # NULL
                      /\ chat[turn[u].chat].selected => chat'[turn[u].chat].selected
    OBVIOUS
  <2>1. turn[u].chat \in ChatIDs /\ chat[turn[u].chat] # NULL
    BY Numbers DEF InUse, UseSteps, SessionInv, UseInv
  <2>2. CASE Proceeds(t)
    BY <2>1, <2>2 DEF Proceeds, RowsKept
  <2>3. CASE Slid
    BY <2>1, <2>3 DEF Slid
  <2>4. CASE turn'[t].chat \in Fresh /\ \E g \in Guests \cup {NULL} : CreateChatSession(turn'[t].chat, g)
    <3>1. turn[u].chat # turn'[t].chat
      BY <2>1, <2>4 DEF Fresh, Unused
    <3> QED
      BY <2>1, <2>4, <3>1, Creates
  <2> QED
    BY <2>1, <2>2, <2>3, <2>4, EarlyRows
<1>3. ASSUME InUse(t)', SelectKnown(t)'
      PROVE  chat'[turn'[t].chat].selected
  <2>1. CASE Checks(t)
    <3>1. turn'[t].results = <<>> /\ turn'[t].pc = "prepare"
      BY <1>1, <2>1 DEF Checks, TurnOK, WorkOK
    <3>2. turn'[t].selected
      BY <1>3, <3>1, Empty DEF SelectKnown
    <3> QED
      BY <2>1, <3>2 DEF Checks
  <2>2. CASE ~Checks(t)
    <3>1. ~Arrives(t) /\ ~Attaches(t) /\ ~EndStep(t)
      BY <1>3 DEF Arrives, Attaches, EndStep, InUse, UseSteps
    <3>2. InUse(t) /\ turn'[t].chat = turn[t].chat /\ turn'[t].selected = turn[t].selected
      <4>1. CASE Proceeds(t)
        BY <1>1, <1>3, <4>1 DEF Proceeds, SameCaller, InUse, UseSteps, TurnOK, WorkOK
      <4>2. CASE Prepares(t)
        BY <1>1, <1>3, <4>2 DEF Prepares, SameSession, InUse, UseSteps, TurnSteps
      <4> QED
        BY <2>2, <3>1, <4>1, <4>2, EarlyRows
    <3>3. CASE SelectKnown(t)
      BY <1>2, <3>2, <3>3 DEF SelectInv, SelectKnown
    <3>4. CASE ~SelectKnown(t) /\ ToolKind(t)
      <4>1. CASE StoresSelection(t)
        <5>1. ChatOK /\ UpdateChatSessionSelectedTrip(turn[t].chat)
          BY <4>1 DEF StoresSelection, TypeOK, ChatOK
        <5> QED
          BY <1>2, <3>2, <5>1, Selects
      <4>2. ASSUME NEW r \in ToolResult, Tells(t, r), ~(r.tool = "select" /\ r.outcome = "ok")
            PROVE  FALSE
        BY <1>1, <1>3, <3>2, <3>4, <4>2, HasAppended DEF Tells, SelectKnown
      <4>3. CASE Holds(t)
        BY <1>3, <3>2, <3>4, <4>3 DEF Holds, SelectKnown
      <4>4. CASE PlainTool(t)
        BY <4>2, <4>3, <4>4 DEF PlainTool, Plain
      <4>5. CASE EntersOrder(t)
        <5>1. Result("book", "failed") \in ToolResult /\ Result("book", "failed").tool = "book"
          BY DEF Result, ToolResult
        <5> QED
          BY <4>2, <4>3, <4>5, <5>1 DEF EntersOrder
      <4>6. CASE MarksOrder(t)
        <5>1. turn[t].order \in Orders
          BY <1>1, <4>6 DEF MarksOrder, TurnOK, WorkOK
        <5>2. OrderResult("book", "created", turn[t].order) \in ToolResult
              /\ OrderResult("book", "created", turn[t].order).tool = "book"
          BY <5>1 DEF OrderResult, ToolResult
        <5> QED
          BY <4>2, <4>6, <5>2 DEF MarksOrder
      <4> QED
        BY <3>4, <4>1, <4>3, <4>4, <4>5, <4>6
           DEF ToolKind, PassesGuard, TakesOwner, FindsOrder
    <3>5. CASE ~SelectKnown(t) /\ ~ToolKind(t)
      <4>1. turn'[t].results = turn[t].results
        BY <2>2, <3>1, <3>5 DEF Act, Prepares, TalkStep, Finalizes, Cancels
      <4> QED
        BY <1>3, <3>2, <3>5, <4>1 DEF SelectKnown
    <3> QED
      BY <3>3, <3>4, <3>5
  <2> QED
    BY <2>1, <2>2
<1>4. turn'[t].pc = "finalize" => ~turn'[t].answer.recs
  BY Arrivals DEF TalkStep, Cancels, SameText, SelectInv
<1>5. ASSUME turn'[t].pc = "persist" \/ Answered(t)', turn'[t].answer.recs,
             ~HasSearchTripsAlternative(turn'[t].results)
      PROVE  ~SelectKnown(t)'
  <2>1. CASE Finalizes(t)
    <3>1. InUse(t) /\ turn'[t].selected = turn[t].selected /\ turn'[t].results = turn[t].results
      BY <2>1 DEF Finalizes, SameSession, InUse, UseSteps, TurnSteps
    <3>2. ~chat[turn[t].chat].selected
      BY <1>5, <2>1, <3>1 DEF Finalizes
    <3> QED
      BY <3>1, <3>2 DEF SelectInv, SelectKnown
  <2>2. CASE Cancels(t)
    <3>1. /\ turn'[t].pc = turn[t].pc /\ turn'[t].reply = turn[t].reply /\ turn'[t].answer = turn[t].answer
          /\ turn'[t].results = turn[t].results /\ turn'[t].selected = turn[t].selected
      BY <2>2 DEF Cancels, SameText
    <3> QED
      BY <1>5, <3>1 DEF SelectInv, SelectKnown, Answered
  <2>3. CASE EndStep(t)
    <3>1. /\ turn[t].pc = "persist" /\ turn'[t].answer = turn[t].answer
          /\ turn'[t].results = turn[t].results /\ turn'[t].selected = turn[t].selected
      BY <1>5, <2>3 DEF EndStep, Answered
    <3> QED
      BY <1>5, <3>1 DEF SelectInv, SelectKnown
  <2> QED
    BY <1>5, <2>1, <2>2, <2>3, Ending
<1>6. ASSUME NEW u \in Turns, u # t
      PROVE  /\ InUse(u)' /\ SelectKnown(u)' => chat'[turn'[u].chat].selected
             /\ turn'[u].pc = "finalize" => ~turn'[u].answer.recs
             /\ (turn'[u].pc = "persist" \/ Answered(u)') /\ turn'[u].answer.recs
                  /\ ~HasSearchTripsAlternative(turn'[u].results) => ~SelectKnown(u)'
  <2>1. turn'[u] = turn[u]
    BY <1>1, <1>6
  <2> QED
    BY <1>2, <2>1 DEF SelectInv, SelectKnown, InUse, Answered
<1>7. ASSUME NEW u \in Turns
      PROVE  /\ InUse(u)' /\ SelectKnown(u)' => chat'[turn'[u].chat].selected
             /\ turn'[u].pc = "finalize" => ~turn'[u].answer.recs
             /\ (turn'[u].pc = "persist" \/ Answered(u)') /\ turn'[u].answer.recs
                  /\ ~HasSearchTripsAlternative(turn'[u].results) => ~SelectKnown(u)'
  BY <1>3, <1>4, <1>5, <1>6
<1> QED
  BY <1>7 DEF SelectInv, SelectKnown, InUse

\* ... and no other action takes a selection back.
LEMMA SelectAsides ==
    ASSUME TypeOK, SessionInv, SelectInv, Aside
    PROVE  SelectInv'
<1>1. turn' = turn
  BY DEF Aside, Beside
<1>2. \A u \in Turns : InUse(u) => /\ turn[u].chat \in ChatIDs /\ chat[turn[u].chat] # NULL
                                   /\ cleaning # NULL => turn[u].chat \notin cleaning
  BY Numbers DEF InUse, UseSteps, SessionInv, UseInv
<1>3. \A u \in Turns : InUse(u) =>
         (chat[turn[u].chat].selected => chat'[turn[u].chat].selected)
  <2>1. CASE CleanupDeletes
    BY <1>2, <2>1 DEF CleanupDeletes
  <2>2. ASSUME NEW c \in ChatIDs, GuestSelectPackage(c) \/ GuestHistory(c)
        PROVE  \A d \in ChatIDs : chat[d] # NULL => (chat[d].selected => chat'[d].selected)
    BY <2>2, PageRows
  <2>3. CASE chat' = chat
    BY <2>3
  <2> QED
    BY <1>2, <2>1, <2>2, <2>3 DEF Aside, CleanupSelects, CleanupFails, ExpireGuest, Passes, Tick
<1> QED
  BY <1>1, <1>3 DEF SelectInv, InUse, Answered

-----------------------------------------------------------------------------
(* What a turn has been told of orders.                                      *)

\* A result that is new in a step: an order is told as created once it is marked.
NewResult(t, r) ==
    /\ ToolKind(t) /\ Tells(t, r)
    /\ r.outcome = "limit" => r.tool = "book"
    /\ r.outcome = "created" => MarksOrder(t) /\ r = OrderResult("book", "created", turn[t].order)

\* A tool adds at most one result ...
LEMMA ToolResults ==
    ASSUME TypeOK, NEW t \in Turns, ToolKind(t)
    PROVE  Holds(t) \/ \E r \in ToolResult : NewResult(t, r)
<1>1. CASE PlainTool(t)
  BY <1>1 DEF PlainTool, Plain, NewResult
<1>2. CASE StoresSelection(t)
  <2>1. Result("select", "ok") \in ToolResult /\ Result("select", "ok").outcome = "ok"
    BY DEF Result, ToolResult
  <2> QED
    BY <1>2, <2>1 DEF StoresSelection, NewResult
<1>3. CASE EntersOrder(t)
  <2>1. Result("book", "failed") \in ToolResult /\ Result("book", "failed").outcome = "failed"
    BY DEF Result, ToolResult
  <2> QED
    BY <1>3, <2>1 DEF EntersOrder, NewResult
<1>4. CASE MarksOrder(t)
  <2>1. turn[t].order \in Orders
    BY <1>4 DEF MarksOrder, TypeOK, TurnOK, WorkOK
  <2>2. OrderResult("book", "created", turn[t].order) \in ToolResult
        /\ OrderResult("book", "created", turn[t].order).outcome = "created"
    BY <2>1 DEF OrderResult, ToolResult
  <2>3. Tells(t, OrderResult("book", "created", turn[t].order))
    BY <1>4 DEF MarksOrder
  <2> QED
    BY <1>4, <2>2, <2>3 DEF NewResult
<1> QED
  BY <1>1, <1>2, <1>3, <1>4 DEF ToolKind, PassesGuard, TakesOwner, FindsOrder

\* ... and so does every step of a turn.
LEMMA ResultActs ==
    ASSUME TypeOK, NEW t \in Turns, Act(t)
    PROVE  \/ turn'[t].results = turn[t].results
           \/ turn'[t].results = <<>> /\ (Arrives(t) \/ EndStep(t))
           \/ \E r \in ToolResult : NewResult(t, r)
<1>1. CASE ToolKind(t)
  BY <1>1, ToolResults DEF Holds
<1>2. CASE ~ToolKind(t)
  BY <1>2 DEF Act, Arrives, Attaches, Checks, Early, Prepares, TalkStep, Finalizes, EndStep, Cancels
<1> QED
  BY <1>1, <1>2

\* One more element at the end of a sequence.
LEMMA Appended ==
    ASSUME NEW results \in Seq(ToolResult), NEW r
    PROVE  LET s == Append(results, r) IN
           /\ DOMAIN results = 1 .. Len(results) /\ Len(results) \in Nat
           /\ DOMAIN s = 1 .. Len(results) + 1 /\ s[Len(results) + 1] = r
           /\ \A i \in DOMAIN results : i \in DOMAIN s /\ s[i] = results[i]
OBVIOUS

\* An order for a turn stays an order for it.
LEMMA MineKept ==
    ASSUME TypeOK, NEW t \in Turns, Act(t), NEW u \in Turns, NEW b \in Orders,
           turn[u].pc \notin {"idle", "attach", "check", "prepare"}, Mine(u, b)
    PROVE  Mine(u, b)'
BY LedgerKept, Entered DEF Mine

\* An order that was found or entered, in the step that takes it.
LEMMA TakesMine ==
    ASSUME TypeOK, GuestInv, NEW t \in Turns, Act(t), FindsOrder(t) \/ EntersOrder(t),
           turn'[t].pc = "mark"
    PROVE  \E b \in Orders : b = turn'[t].order /\ Mine(t, b)'
<1>1. /\ turn'[t].chat = turn[t].chat /\ turn'[t].signed = turn[t].signed
      /\ turn[t].pc = "place"
      /\ turn[t].owner = Account <=> turn[t].signed
  BY DEF FindsOrder, EntersOrder, ToolBase, SameCaller, GuestInv
<1>2. turn[t].signed \in BOOLEAN
  BY DEF TypeOK, TurnOK, FlagsOK
<1>3. CASE FindsOrder(t)
  <2>1. /\ turn'[t].order \in Orders /\ ledger[turn'[t].order] # NULL
        /\ ledger[turn'[t].order].placed_by = turn[t].owner
        /\ ledger[turn'[t].order].key[1] = turn[t].chat /\ ledger' = ledger
    BY <1>3 DEF FindsOrder, Replay, Key, NoOrder
  <2> QED
    BY <1>1, <1>2, <2>1 DEF Mine, NoOrder
<1>4. CASE EntersOrder(t)
  <2>1. PICK b \in NextOrder : Enters(t, b) /\ turn'[t].order = b
    <3>1. PICK b \in NextOrder :
             /\ Enters(t, b)
             /\ \/ turn'[t].pc = "mark" /\ turn'[t].order = b
                \/ Tells(t, Result("book", "failed"))
      BY <1>4 DEF EntersOrder
    <3>2. ~Tells(t, Result("book", "failed"))
      BY DEF Tells
    <3> QED
      BY <3>1, <3>2
  <2>2. b \in Orders /\ ledger[b] = NULL
    BY <2>1 DEF NextOrder
  <2>3. New(t, b)
    BY <2>1, <2>2, Entering
  <2> QED
    BY <1>1, <1>2, <2>1, <2>2, <2>3 DEF New, Mine
<1> QED
  BY <1>3, <1>4

\* The part of ClaimInv about one turn and its results.
ResultsOf(t) ==
    \A i \in DOMAIN turn[t].results :
         /\ turn[t].results[i].outcome = "created" =>
              turn[t].results[i].tool = "book" /\ \E b \in Orders : Mine(t, b)
         /\ turn[t].results[i].outcome = "limit" => turn[t].results[i].tool = "book"

\* No tool has answered before the model was asked.
LEMMA NoResults ==
    ASSUME TypeOK, NEW t \in Turns, turn[t].pc \in {"idle", "attach", "check", "prepare"}
    PROVE  turn[t].results = <<>>
BY DEF TypeOK, TurnOK, WorkOK

\* A result and a claim have an order behind them.
LEMMA ClaimActs ==
    ASSUME TypeOK, GuestInv, ClaimInv, NEW t \in Turns, Act(t)
    PROVE  ClaimInv'
<1>1. /\ \A u \in Turns : u # t => turn'[u] = turn[u]
      /\ turn[t].results \in Seq(ToolResult) /\ TurnOK(turn[t]) /\ TurnOK(turn'[t])
  BY DEF Act, Moves, TypeOK, TurnOK, WorkOK
<1>2. ASSUME turn'[t].pc = "mark"
      PROVE  \E b \in Orders : b = turn'[t].order /\ Mine(t, b)'
  <2>1. CASE Cancels(t)
    <3>1. turn[t].pc = "mark" /\ turn'[t].order = turn[t].order /\ turn[t].order \in Orders
      BY <1>1, <1>2, <2>1 DEF Cancels, TurnOK, WorkOK
    <3>2. \E b \in Orders : b = turn[t].order /\ Mine(t, b)'
      BY <3>1, MineKept DEF ClaimInv
    <3> QED
      BY <3>1, <3>2
  <2> QED
    BY <1>2, <2>1, Arrivals, TakesMine
<1>3. ASSUME NEW u \in Turns, turn'[u].results = turn[u].results
      PROVE  ResultsOf(u)'
  <2> SUFFICES ASSUME NEW i \in DOMAIN turn[u].results
               PROVE  /\ turn[u].results[i].outcome = "created" =>
                           turn[u].results[i].tool = "book" /\ \E b \in Orders : Mine(u, b)'
                      /\ turn[u].results[i].outcome = "limit" => turn[u].results[i].tool = "book"
    BY <1>3 DEF ResultsOf
  <2>1. turn[u].pc \notin {"idle", "attach", "check", "prepare"}
    <3>1. turn[u].results # <<>>
      OBVIOUS
    <3> QED
      BY <3>1, NoResults
  <2> QED
    BY <2>1, MineKept DEF ClaimInv
<1>4. ASSUME NEW r \in ToolResult, NewResult(t, r)
      PROVE  ResultsOf(t)'
  <2>1. /\ turn'[t].results = Append(turn[t].results, r) /\ turn[t].pc \in ToolSteps
        /\ r.outcome = "limit" => r.tool = "book"
        /\ r.outcome = "created" => r.tool = "book" /\ turn[t].pc = "mark"
    BY <1>4 DEF NewResult, Tells, ToolKind, PlainTool, StoresSelection, PassesGuard, TakesOwner,
       FindsOrder, EntersOrder, MarksOrder, ToolBase, OrderResult
  <2>2. turn[t].pc \notin {"idle", "attach", "check", "prepare"}
    BY <2>1 DEF ToolSteps
  <2>3. turn[t].pc = "mark" => \E b \in Orders : Mine(t, b)'
    <3>1. turn[t].pc = "mark" => turn[t].order \in Orders /\ Mine(t, turn[t].order)
      BY <1>1 DEF TurnOK, WorkOK, ClaimInv
    <3> QED
      BY <2>2, <3>1, MineKept
  <2>4. ASSUME NEW i \in DOMAIN turn[t].results
        PROVE  /\ turn[t].results[i].outcome = "created" =>
                    turn[t].results[i].tool = "book" /\ \E b \in Orders : Mine(t, b)'
               /\ turn[t].results[i].outcome = "limit" => turn[t].results[i].tool = "book"
    BY <2>2, MineKept DEF ClaimInv
  <2>5. ASSUME NEW i \in DOMAIN turn'[t].results
        PROVE  (i \in DOMAIN turn[t].results /\ turn'[t].results[i] = turn[t].results[i])
               \/ turn'[t].results[i] = r
    BY <1>1, <2>1, Appended
  <2> QED
    BY <2>1, <2>3, <2>4, <2>5 DEF ResultsOf
<1>5. ASSUME turn'[t].results = <<>>
      PROVE  ResultsOf(t)'
  BY <1>5 DEF ResultsOf
<1>6. ASSUME turn'[t].pc = "persist" \/ Answered(t)', turn'[t].answer.claim
      PROVE  HasSuccessfulCreateBooking(turn'[t].results)
  <2>1. CASE Finalizes(t)
    BY <1>6, <2>1 DEF Finalizes
  <2>2. CASE Cancels(t)
    <3>1. /\ turn'[t].pc = turn[t].pc /\ turn'[t].reply = turn[t].reply /\ turn'[t].answer = turn[t].answer
          /\ turn'[t].results = turn[t].results
      BY <2>2 DEF Cancels, SameText
    <3> QED
      BY <1>6, <3>1 DEF ClaimInv, Answered
  <2>3. CASE EndStep(t)
    <3>1. turn[t].pc = "persist" /\ turn'[t].answer = turn[t].answer /\ turn'[t].results = turn[t].results
      BY <1>6, <2>3 DEF EndStep, Answered
    <3> QED
      BY <1>6, <3>1 DEF ClaimInv
  <2> QED
    BY <1>6, <2>1, <2>2, <2>3, Ending
<1>7. ASSUME NEW u \in Turns
      PROVE  /\ turn'[u].pc = "mark" => \E b \in Orders : b = turn'[u].order /\ Mine(u, b)'
             /\ ResultsOf(u)'
             /\ (turn'[u].pc = "persist" \/ Answered(u)') /\ turn'[u].answer.claim =>
                  HasSuccessfulCreateBooking(turn'[u].results)
  <2>1. CASE u = t
    BY <1>2, <1>3, <1>4, <1>5, <1>6, <2>1, ResultActs
  <2>2. CASE u # t
    <3>1. turn'[u] = turn[u]
      BY <1>1, <2>2
    <3>2. turn[u].pc = "mark" => \E b \in Orders : b = turn[u].order /\ Mine(u, b)'
      <4>1. turn[u].pc = "mark" => turn[u].order \in Orders /\ Mine(u, turn[u].order)
        BY DEF ClaimInv, TypeOK, TurnOK, WorkOK
      <4> QED
        BY <4>1, MineKept
    <3>3. turn'[u].pc = "mark" => \E b \in Orders : b = turn'[u].order /\ Mine(u, b)'
      BY <3>1, <3>2
    <3> QED
      BY <1>3, <3>1, <3>3 DEF ClaimInv, Answered
  <2> QED
    BY <2>1, <2>2
<1> QED
  BY <1>7 DEF ClaimInv, ResultsOf, Answered

\* No order is created behind a result that told of the limit.
LEMMA LimitActs ==
    ASSUME TypeOK, ClaimInv, LimitInv, NEW t \in Turns, Act(t)
    PROVE  LimitInv'
<1>1. /\ \A u \in Turns : u # t => turn'[u] = turn[u]
      /\ turn[t].results \in Seq(ToolResult)
  BY DEF Act, Moves, TypeOK, TurnOK, WorkOK
<1>2. ASSUME turn'[t].pc \in {"owner", "place", "mark"}
      PROVE  ~GuestOrderLimitReached(turn'[t].results)
  <2>1. CASE PassesGuard(t)
    BY <2>1 DEF PassesGuard, Holds
  <2>2. CASE TakesOwner(t) \/ FindsOrder(t)
    BY <2>2 DEF TakesOwner, FindsOrder, Holds, LimitInv
  <2>3. CASE EntersOrder(t)
    BY <1>2, <2>3 DEF EntersOrder, Tells, Holds, LimitInv
  <2>4. CASE Cancels(t)
    BY <1>2, <2>4 DEF Cancels, LimitInv
  <2> QED
    BY <1>2, <2>1, <2>2, <2>3, <2>4, Arrivals
<1>3. ASSUME NEW r \in ToolResult, NewResult(t, r)
      PROVE  \A i \in ToldCreated(t)' : \A j \in 1 .. i : turn'[t].results[j].outcome # "limit"
  <2>1. turn'[t].results = Append(turn[t].results, r)
    BY <1>3 DEF NewResult, Tells
  <2>2. CASE r.outcome = "created"
    <3>1. turn[t].pc = "mark"
      BY <1>3, <2>2 DEF NewResult, MarksOrder
    <3>2. \A j \in DOMAIN turn[t].results : turn[t].results[j].outcome # "limit"
      BY <3>1 DEF LimitInv, ClaimInv, GuestOrderLimitReached, Has
    <3> QED
      BY <1>1, <2>1, <2>2, <3>2, Appended DEF ToldCreated
  <2>3. CASE r.outcome # "created"
    <3>1. \A i \in ToldCreated(t)' : i \in ToldCreated(t)
      BY <1>1, <2>1, <2>3, Appended DEF ToldCreated
    <3>2. \A i \in ToldCreated(t) : \A j \in 1 .. i :
             /\ turn'[t].results[j] = turn[t].results[j] /\ turn[t].results[j].outcome # "limit"
      BY <1>1, <2>1, Appended DEF ToldCreated, LimitInv
    <3> QED
      BY <3>1, <3>2
  <2> QED
    BY <2>2, <2>3
<1>4. ASSUME turn'[t].results = <<>>
      PROVE  \A i \in ToldCreated(t)' : \A j \in 1 .. i : turn'[t].results[j].outcome # "limit"
  BY <1>4 DEF ToldCreated
<1>5. ASSUME NEW u \in Turns, turn'[u].results = turn[u].results
      PROVE  \A i \in ToldCreated(u)' : \A j \in 1 .. i : turn'[u].results[j].outcome # "limit"
  BY <1>5 DEF ToldCreated, LimitInv
<1>6. ASSUME NEW u \in Turns
      PROVE  /\ turn'[u].pc \in {"owner", "place", "mark"} => ~GuestOrderLimitReached(turn'[u].results)
             /\ \A i \in ToldCreated(u)' : \A j \in 1 .. i : turn'[u].results[j].outcome # "limit"
  <2>1. CASE u = t
    BY <1>2, <1>3, <1>4, <1>5, <2>1, ResultActs
  <2>2. CASE u # t
    BY <1>1, <1>5, <2>2 DEF LimitInv
  <2> QED
    BY <2>1, <2>2
<1> QED
  BY <1>6 DEF LimitInv

-----------------------------------------------------------------------------
(* While nothing fails: the orders of a conversation and its marker.         *)

\* A turn that is over stays as it is, and a turn that began keeps what was over.
LEMMA OverStays ==
    ASSUME TypeOK, NEW t \in Turns, Act(t), NEW u \in Turns
    PROVE  /\ turn[u].pc = "over" => turn'[u] = turn[u]
           /\ turn'[u].after = turn[u].after \/ (u = t /\ Arrives(t))
<1>1. \A v \in Turns : v # t => turn'[v] = turn[v]
  BY DEF Act, Moves
<1>2. ToolKind(t) => ToolBase(t)
  BY DEF ToolKind, PlainTool, StoresSelection, PassesGuard, TakesOwner, FindsOrder, EntersOrder,
     MarksOrder
<1>3. turn[t].pc # "over"
  BY <1>2 DEF Act, Arrives, Attaches, Checks, Prepares, TalkStep, Finalizes, EndStep, Cancels,
     ToolBase, ToolSteps
<1>4. turn'[t].after = turn[t].after \/ Arrives(t)
  BY <1>2 DEF Act, Attaches, Checks, Early, Prepares, TalkStep, Finalizes, EndStep, Cancels,
     ToolBase, SameCaller
<1> QED
  BY <1>1, <1>3, <1>4

\* A step after which nothing has failed was answered.
LEMMA Unbroken ==
    ASSUME TypeOK, MarkInv, NEW t \in Turns, Act(t), faults' = 0
    PROVE  faults = 0 /\ ~Breaks(t) /\ ~Cancels(t)
<1>1. faults \in Nat /\ (faults' = faults \/ faults' = faults + 1)
  BY DEF TypeOK, Act, Counts
<1>2. faults = 0 /\ faults' # faults + 1
  BY <1>1
<1>3. ~turn[t].cancelled
  BY <1>2 DEF MarkInv
<1> QED
  BY <1>2, <1>3 DEF Breaks, Cancels

\* The marker of a conversation that has orders is not lost.
LEMMA MarkedStays ==
    ASSUME TypeOK, SessionInv, NEW t \in Turns, Act(t), NEW u \in Turns, turn[u].pc # "idle"
    PROVE  /\ Marked(turn[u].chat) =>
                (chat'[turn[u].chat] # NULL => chat'[turn[u].chat].marker # NULL)
           /\ chat[turn[u].chat] # NULL =>
                (chat[turn[u].chat].marker # NULL => chat'[turn[u].chat].marker # NULL)
<1>1. turn[u].chat \in ChatIDs
  BY Numbers
<1>2. CASE Proceeds(t)
  BY <1>1, <1>2 DEF Proceeds, RowsKept, Marked
<1>3. CASE Slid
  BY <1>1, <1>3 DEF Slid, Marked
<1>4. CASE turn'[t].chat \in Fresh /\ \E g \in Guests \cup {NULL} : CreateChatSession(turn'[t].chat, g)
  <2>1. turn[u].chat # turn'[t].chat
    BY <1>4 DEF Fresh, Unused, SessionInv, BoundInv
  <2>2. chat'[turn[u].chat] = chat[turn[u].chat]
    BY <1>1, <1>4, <2>1, Creates
  <2> QED
    BY <2>2 DEF Marked
<1> QED
  BY <1>2, <1>3, <1>4, EarlyRows

\* The order of a turn that is about to mark it is marked, unless it waits.
LEMMA MarksItsOrder ==
    ASSUME TypeOK, MarkInv, NEW t \in Turns, Act(t), faults' = 0, turn[t].pc = "mark"
    PROVE  /\ MarksOrder(t) /\ turn[t].order \in Orders /\ turn[t].chat \in ChatIDs
           /\ chat'[turn[t].chat] # NULL => chat'[turn[t].chat].marker # NULL
           /\ chat[turn[t].chat] # NULL => chat'[turn[t].chat].marker # NULL
<1>1. ~Breaks(t) /\ ~Cancels(t)
  BY Unbroken
<1>2. MarksOrder(t)
  <2>1. ~PlainTool(t)
    BY DEF PlainTool
  <2> QED
    BY <1>1, <2>1 DEF Act, Arrives, Attaches, Checks, Prepares, TalkStep, Finalizes, EndStep,
       ToolKind, StoresSelection, PassesGuard, TakesOwner, FindsOrder, EntersOrder
<1>3. turn[t].order \in Orders /\ turn[t].chat \in ChatIDs /\ ChatOK
  BY DEF TypeOK, TurnOK, WorkOK, CallerOK, ChatOK
<1>4. AddOrderMarker(turn[t].chat, turn[t].order)
  BY <1>1, <1>2 DEF MarksOrder
<1> QED
  BY <1>2, <1>3, <1>4, Marks DEF Marked, RowsKept

\* The turn that entered an order has begun, with the chat of the order.
LEMMA Origins ==
    ASSUME TypeOK, OrderInv, NEW b \in Orders, ledger[b] # NULL
    PROVE  /\ origin[b] \in Turns /\ origin[b] # NULL
           /\ turn[origin[b]].pc \notin {"idle", "attach", "check", "prepare"}
           /\ ledger[b].key[1] = turn[origin[b]].chat /\ turn[origin[b]].chat \in ChatIDs
BY Numbers DEF TypeOK, OrderInv

\* A turn between the guard and its order has found no marker.
LEMMA GuardSaw ==
    ASSUME TypeOK, SessionInv, MarkInv, NEW t \in Turns, Act(t), faults' = 0, PassesGuard(t)
    PROVE  chat[turn[t].chat] # NULL /\ chat[turn[t].chat].marker = NULL
<1>1. FindSessionOrder(t) = {}
  BY Unbroken DEF PassesGuard
<1>2. InUse(t)
  BY DEF PassesGuard, InUse, UseSteps, TurnSteps, ToolSteps
<1>3. chat[turn[t].chat] # NULL /\ turn[t].chat # NULL
  BY <1>2, Numbers DEF SessionInv, UseInv, InUse, UseSteps
<1> QED
  BY <1>1, <1>3 DEF FindSessionOrder, Exists

\* b was not entered by t, nor by a turn that was over before t began.
OnGuard(t, b) == ledger[b] # NULL /\ ledger[b].key[1] = turn[t].chat =>
    origin[b] # t /\ origin[b] \notin turn[t].after

\* While nothing fails the marker of a conversation tells of its orders, so that a
\* turn that passed the guard overlaps with those that entered them.
LEMMA MarkActs ==
    ASSUME TypeOK, SessionInv, OrderInv, MarkInv, NEW t \in Turns, Act(t)
    PROVE  MarkInv'
<1> SUFFICES ASSUME faults' = 0 PROVE MarkInv'
  BY DEF MarkInv
<1>1. faults = 0 /\ ~Breaks(t) /\ ~Cancels(t)
  BY Unbroken
<1>2. \A u \in Turns : u # t => turn'[u] = turn[u]
  BY DEF Act, Moves
<1>3. ~turn'[t].cancelled
  <2>1. ~turn[t].cancelled
    BY <1>1 DEF MarkInv
  <2>2. ToolKind(t) => ToolBase(t)
    BY DEF ToolKind, PlainTool, StoresSelection, PassesGuard, TakesOwner, FindsOrder, EntersOrder,
       MarksOrder
  <2> QED
    BY <1>1, <2>1, <2>2 DEF Act, Arrives, Attaches, Checks, Early, Prepares, SameSession, TalkStep,
       Finalizes, EndStep, ToolBase
<1>4. ASSUME NEW u \in Turns, NEW v \in turn'[u].after
      PROVE  turn'[v].pc = "over"
  <2>1. v \in Turns
    BY TypeStep DEF TypeOK, TurnOK, CallerOK
  <2>2. CASE turn'[u].after = turn[u].after
    <3>1. turn[v].pc = "over"
      BY <1>1, <1>4, <2>2 DEF MarkInv
    <3> QED
      BY <2>1, <3>1, OverStays
  <2>3. CASE u = t /\ Arrives(t)
    <3>1. turn[v].pc = "over"
      BY <1>4, <2>3 DEF Arrives, At
    <3> QED
      BY <2>1, <3>1, OverStays
  <2> QED
    BY <2>2, <2>3, OverStays
<1>5. ASSUME NEW b \in Orders, ledger[b] # NULL
      PROVE  /\ ledger'[b] = ledger[b] /\ origin'[b] = origin[b]
             /\ \/ turn'[origin[b]].pc = "mark" /\ turn'[origin[b]].order = b
                \/ chat'[turn[origin[b]].chat] # NULL => chat'[turn[origin[b]].chat].marker # NULL
  <2>1. /\ origin[b] \in Turns /\ turn[origin[b]].pc # "idle"
        /\ ledger[b].key[1] = turn[origin[b]].chat
    BY <1>5, Origins
  <2>2. CASE Marked(ledger[b].key[1])
    BY <1>5, <2>1, <2>2, MarkedStays, LedgerKept
  <2>3. CASE turn[origin[b]].pc = "mark" /\ turn[origin[b]].order = b
    <3>1. CASE origin[b] = t
      BY <1>5, <2>3, <3>1, MarksItsOrder, LedgerKept
    <3>2. CASE origin[b] # t
      BY <1>2, <1>5, <2>1, <2>3, <3>2, LedgerKept
    <3> QED
      BY <3>1, <3>2
  <2> QED
    BY <1>1, <1>5, <2>2, <2>3 DEF MarkInv
<1>6. ASSUME NEW b \in Orders, ledger[b] = NULL, ledger'[b] # NULL
      PROVE  /\ EntersOrder(t) /\ New(t, b) /\ origin'[b] = t
             /\ turn'[t].pc = "mark" /\ turn'[t].order = b
  <2>1. EntersOrder(t)
    BY <1>6, OrderSteps DEF NoOrder
  <2>2. PICK a \in NextOrder : Enters(t, a) /\ turn'[t].pc = "mark" /\ turn'[t].order = a
    BY <1>1, <2>1 DEF EntersOrder
  <2>3. a \in Orders /\ ledger[a] = NULL
    BY <2>2 DEF NextOrder
  <2>4. New(t, a)
    BY <2>2, <2>3, Entering
  <2>5. a = b
    BY <1>6, <2>4 DEF New
  <2> QED
    BY <2>1, <2>2, <2>4, <2>5 DEF New
<1>7. ASSUME NEW b \in Orders, ledger'[b] # NULL
      PROVE  \/ turn'[origin'[b]].pc = "mark" /\ turn'[origin'[b]].order = b
             \/ chat'[ledger'[b].key[1]] # NULL => chat'[ledger'[b].key[1]].marker # NULL
  <2>1. CASE ledger[b] = NULL
    BY <1>6, <1>7, <2>1
  <2>2. CASE ledger[b] # NULL
    BY <1>5, <2>2, Origins
  <2> QED
    BY <2>1, <2>2
<1>8. ASSUME NEW u \in Turns, turn[u].pc \in {"owner", "place"}, turn'[u].chat = turn[u].chat,
             turn'[u].after = turn[u].after, turn'[u].pc \in {"owner", "place"}, NEW b \in Orders
      PROVE  OnGuard(u, b)'
  <2>1. CASE ledger[b] = NULL /\ ledger'[b] # NULL
    <3>1. origin'[b] = t /\ turn'[t].pc = "mark" /\ turn[t].pc = "place"
      BY <1>6, <2>1 DEF EntersOrder
    <3>2. u # t /\ t \notin turn[u].after
      BY <1>1, <1>8, <3>1 DEF MarkInv
    <3> QED
      BY <1>8, <3>1, <3>2 DEF OnGuard
  <2>2. CASE ledger[b] # NULL
    BY <1>1, <1>5, <1>8, <2>2 DEF MarkInv, OnGuard
  <2>3. CASE ledger'[b] = NULL
    BY <2>3 DEF OnGuard
  <2> QED
    BY <2>1, <2>2, <2>3
<1>9. ASSUME NEW u \in Turns, turn'[u].pc \in {"owner", "place"}, NEW b \in Orders
      PROVE  OnGuard(u, b)'
  <2>1. CASE u # t
    BY <1>2, <1>8, <1>9, <2>1
  <2>2. CASE u = t /\ TakesOwner(t)
    BY <1>8, <1>9, <2>2 DEF TakesOwner, ToolBase, SameCaller
  <2>3. CASE u = t /\ PassesGuard(t)
    <3>1. chat[turn[t].chat] # NULL /\ chat[turn[t].chat].marker = NULL
      BY <2>3, GuardSaw
    <3>2. /\ turn'[t].chat = turn[t].chat /\ turn'[t].after = turn[t].after
          /\ ledger' = ledger /\ origin' = origin /\ turn[t].pc \in {"tools", "more"}
      BY <2>3 DEF PassesGuard, ToolBase, SameCaller, NoOrder
    <3>3. ASSUME ledger[b] # NULL, ledger[b].key[1] = turn[t].chat
          PROVE  origin[b] # t /\ origin[b] \notin turn[t].after
      <4>1. turn[origin[b]].pc = "mark"
        BY <1>1, <3>1, <3>3 DEF MarkInv, Marked
      <4> QED
        BY <1>1, <3>2, <4>1 DEF MarkInv
    <3> QED
      BY <2>3, <3>2, <3>3 DEF OnGuard
  <2> QED
    BY <1>1, <1>9, <2>1, <2>2, <2>3, Arrivals
<1>10. /\ \A u \in Turns : ~turn'[u].cancelled
       /\ \A u \in Turns : \A v \in turn'[u].after : turn'[v].pc = "over"
  BY <1>1, <1>2, <1>3, <1>4 DEF MarkInv
<1>11. \A b \in Orders : ledger'[b] # NULL =>
         \/ turn'[origin'[b]].pc = "mark" /\ turn'[origin'[b]].order = b
         \/ Marked(ledger[b].key[1])'
  BY <1>7 DEF Marked
<1>12. \A u \in Turns : turn'[u].pc \in {"owner", "place"} =>
         \A b \in Orders : (ledger'[b] # NULL /\ ledger'[b].key[1] = turn'[u].chat) =>
            origin'[b] # u /\ origin'[b] \notin turn'[u].after
  BY <1>9 DEF OnGuard
<1> QED
  BY <1>10, <1>11, <1>12 DEF MarkInv

\* Two orders of one conversation.
LEMMA OneOrderActs ==
    ASSUME TypeOK, OrderInv, MarkInv, OneOrderPerConversation, NEW t \in Turns, Act(t)
    PROVE  OneOrderPerConversation'
<1> SUFFICES ASSUME faults' = 0, NEW a \in Orders, NEW b \in Orders, a # b,
                    ledger'[a] # NULL, ledger'[b] # NULL, ledger'[a].key[1] = ledger'[b].key[1]
             PROVE  /\ origin'[a] # origin'[b]
                    /\ origin'[a] \notin turn'[origin'[b]].after
                    /\ origin'[b] \notin turn'[origin'[a]].after
  BY DEF OneOrderPerConversation
<1>1. faults = 0
  BY Unbroken
<1>2. ASSUME NEW d \in Orders, ledger[d] # NULL
      PROVE  /\ ledger'[d] = ledger[d] /\ origin'[d] = origin[d] /\ origin[d] \in Turns
             /\ turn'[origin[d]].after = turn[origin[d]].after
  BY <1>2, Origins, Entered, LedgerKept
<1>3. CASE ledger[a] # NULL /\ ledger[b] # NULL
  BY <1>1, <1>2, <1>3 DEF OneOrderPerConversation
<1>4. ASSUME NEW c \in Orders, NEW d \in Orders, c # d, ledger[c] = NULL, ledger'[c] # NULL,
             ledger'[d] # NULL, ledger'[c].key[1] = ledger'[d].key[1]
      PROVE  /\ origin'[c] # origin'[d]
             /\ origin'[c] \notin turn'[origin'[d]].after
             /\ origin'[d] \notin turn'[origin'[c]].after
  <2>1. EntersOrder(t) /\ New(t, c)
    BY <1>4, OrderSteps DEF NoOrder, New
  <2>2. turn[t].pc = "place" /\ turn'[t].after = turn[t].after
    BY <2>1 DEF EntersOrder, ToolBase, SameCaller
  <2>3. /\ origin'[c] = t /\ ledger'[d] = ledger[d] /\ origin'[d] = origin[d]
        /\ ledger[d] # NULL /\ ledger[d].key[1] = turn[t].chat
    BY <1>4, <2>1 DEF New
  <2>4. origin[d] # t /\ origin[d] \notin turn[t].after
    BY <1>1, <2>2, <2>3 DEF MarkInv
  <2>5. t \notin turn'[origin[d]].after
    BY <1>1, <1>2, <2>2, <2>3 DEF MarkInv
  <2> QED
    BY <2>2, <2>3, <2>4, <2>5
<1>5. CASE ledger[a] = NULL
  BY <1>4, <1>5
<1>6. CASE ledger[b] = NULL
  BY <1>4, <1>6
<1> QED
  BY <1>3, <1>5, <1>6

-----------------------------------------------------------------------------
(* While nothing fails: what a turn was told of the order it entered.        *)

\* A turn between the guard and its order has entered none.
LEMMA NonePlaced ==
    ASSUME TypeOK, OrderInv, MarkInv, faults = 0, NEW t \in Turns, turn[t].pc \in {"owner", "place"}
    PROVE  PlacedIn(t) = {}
<1> SUFFICES ASSUME NEW b \in Orders, origin[b] = t PROVE FALSE
  BY DEF PlacedIn
<1>1. ledger[b] # NULL
  BY ChatNullAssumption DEF OrderInv
<1>2. ledger[b].key[1] = turn[t].chat
  BY <1>1 DEF OrderInv
<1> QED
  BY <1>1, <1>2 DEF MarkInv

\* A step that nothing disturbs enters at most one order of its turn.
LEMMA PlacedActs ==
    ASSUME TypeOK, OrderInv, MarkInv, NEW t \in Turns, Act(t), faults' = 0, NEW u \in Turns
    PROVE  \/ PlacedIn(u)' = PlacedIn(u)
           \/ u = t /\ turn'[t].pc = "mark" /\ PlacedIn(t)' = {turn'[t].order}
<1>1. CASE NoOrder
  BY <1>1 DEF NoOrder, PlacedIn
<1>2. CASE EntersOrder(t)
  <2>1. ~Breaks(t) /\ faults = 0
    BY Unbroken
  <2>2. PICK b \in NextOrder : Enters(t, b) /\ turn'[t].pc = "mark" /\ turn'[t].order = b
    BY <1>2, <2>1 DEF EntersOrder
  <2>3. b \in Orders /\ ledger[b] = NULL
    BY <2>2 DEF NextOrder
  <2>4. New(t, b)
    BY <2>2, <2>3, Entering
  <2>5. CASE u # t
    <3>1. origin[b] = NULL /\ u # NULL
      BY <2>3, ChatNullAssumption DEF OrderInv
    <3> QED
      BY <2>3, <2>4, <2>5, <3>1 DEF New, PlacedIn
  <2>6. CASE u = t
    <3>1. PlacedIn(t) = {}
      BY <1>2, <2>1, NonePlaced DEF EntersOrder
    <3> QED
      BY <2>2, <2>3, <2>4, <2>6, <3>1 DEF New, PlacedIn
  <2> QED
    BY <2>5, <2>6
<1> QED
  BY <1>1, <1>2, OrderSteps

\* A turn learns of the order it entered, and of one order only.
LEMMA ToldActs ==
    ASSUME TypeOK, SessionInv, OrderInv, MarkInv, ToldInv, NEW t \in Turns, Act(t)
    PROVE  ToldInv'
<1> SUFFICES ASSUME faults' = 0 PROVE ToldInv'
  BY DEF ToldInv
<1>1. faults = 0 /\ ~Breaks(t) /\ ~Cancels(t)
  BY Unbroken
<1>2. /\ \A u \in Turns : u # t => turn'[u] = turn[u]
      /\ turn[t].results \in Seq(ToolResult) /\ TurnOK(turn[t]) /\ TurnOK(turn'[t])
  BY DEF Act, Moves, TypeOK, TurnOK, WorkOK
<1>3. ASSUME NEW u \in Turns, turn'[u].results = turn[u].results
      PROVE  ToldCreated(u)' = ToldCreated(u)
  BY <1>3 DEF ToldCreated
<1>4. ASSUME turn'[t].results = <<>>
      PROVE  ToldCreated(t)' = {}
  BY <1>4 DEF ToldCreated
<1>5. ASSUME NEW r \in ToolResult, NewResult(t, r)
      PROVE  /\ turn'[t].results = Append(turn[t].results, r) /\ turn'[t].pc = "more"
             /\ \A i \in ToldCreated(t) : i \in ToldCreated(t)' /\ turn'[t].results[i] = turn[t].results[i]
             /\ r.outcome # "created" => ToldCreated(t)' = ToldCreated(t)
             /\ r.outcome = "created" =>
                  ToldCreated(t)' = ToldCreated(t) \cup {Len(turn[t].results) + 1}
             /\ turn'[t].results[Len(turn[t].results) + 1] = r
  <2>1. turn'[t].results = Append(turn[t].results, r) /\ turn'[t].pc = "more"
    BY <1>5 DEF NewResult, Tells
  <2> QED
    BY <1>2, <2>1, Appended DEF ToldCreated
<1>6. turn[t].pc = "mark" =>
        /\ MarksOrder(t) /\ turn[t].order \in Orders
        /\ chat[turn[t].chat] # NULL => chat'[turn[t].chat].marker # NULL
        /\ \E r \in ToolResult : NewResult(t, r) /\ r = OrderResult("book", "created", turn[t].order)
  <2> SUFFICES ASSUME turn[t].pc = "mark"
               PROVE  /\ MarksOrder(t) /\ turn[t].order \in Orders
                      /\ chat[turn[t].chat] # NULL => chat'[turn[t].chat].marker # NULL
                      /\ \E r \in ToolResult : NewResult(t, r) /\ r = OrderResult("book", "created", turn[t].order)
    OBVIOUS
  <2>1. /\ MarksOrder(t) /\ turn[t].order \in Orders
        /\ chat[turn[t].chat] # NULL => chat'[turn[t].chat].marker # NULL
    BY MarksItsOrder
  <2>2. OrderResult("book", "created", turn[t].order) \in ToolResult
    BY <2>1 DEF OrderResult, ToolResult
  <2>3. NewResult(t, OrderResult("book", "created", turn[t].order))
    BY <2>1 DEF NewResult, MarksOrder, ToolKind, OrderResult
  <2> QED
    BY <2>1, <2>2, <2>3
<1>7. ASSUME NEW r \in ToolResult, NewResult(t, r), r.outcome = "created"
      PROVE  turn[t].pc = "mark" /\ r = OrderResult("book", "created", turn[t].order)
             /\ ToldCreated(t) = {}
  BY <1>1, <1>7 DEF NewResult, MarksOrder, ToldInv
<1>8. ASSUME NEW u \in Turns, InUse(u)', ToldCreated(u)' # {}
      PROVE  chat'[turn'[u].chat].marker # NULL
  <2>1. turn[u].pc \notin {"idle", "attach", "check", "prepare"} /\ turn[u].pc # "over"
    <3>1. turn'[u].pc # "over"
      BY <1>8 DEF InUse, UseSteps
    <3>2. turn[u].pc = "over" => turn'[u] = turn[u]
      BY OverStays
    <3>3. CASE turn[u].pc \in {"idle", "attach", "check", "prepare"}
      <4>1. turn[u].results = <<>>
        BY <3>3, NoResults
      <4>2. turn'[u].results = <<>>
        <5>1. CASE u = t
          <6>1. ~ToolKind(t)
            BY <3>3, <5>1 DEF ToolKind, PlainTool, StoresSelection, PassesGuard, TakesOwner,
               FindsOrder, EntersOrder, MarksOrder, ToolBase, ToolSteps
          <6> QED
            BY <4>1, <5>1, <6>1, ResultActs DEF NewResult
        <5>2. CASE u # t
          BY <1>2, <4>1, <5>2
        <5> QED
          BY <5>1, <5>2
      <4> QED
        BY <1>8, <4>2 DEF ToldCreated
    <3> QED
      BY <3>1, <3>2, <3>3
  <2>2. turn'[u].chat = turn[u].chat
    BY <2>1, Entered
  <2>3. InUse(u)
    BY <2>1 DEF InUse, UseSteps, TypeOK, TurnOK, WorkOK
  <2>4. chat[turn[u].chat] # NULL
    BY <2>3 DEF SessionInv, UseInv
  <2>5. CASE ToldCreated(u) # {}
    <3>1. chat[turn[u].chat].marker # NULL
      BY <1>1, <2>3, <2>5 DEF ToldInv
    <3> QED
      BY <2>1, <2>2, <2>4, <3>1, MarkedStays
  <2>6. CASE ToldCreated(u) = {}
    <3>1. u = t
      BY <1>2, <1>3, <1>8, <2>6
    <3>2. PICK r \in ToolResult : NewResult(t, r)
      BY <1>3, <1>4, <1>8, <2>6, <3>1, ResultActs
    <3>3. r.outcome = "created"
      BY <1>5, <1>8, <2>6, <3>1, <3>2
    <3>4. turn[t].pc = "mark"
      BY <1>7, <3>2, <3>3
    <3> QED
      BY <1>6, <2>2, <2>4, <3>1, <3>4
  <2> QED
    BY <2>5, <2>6
<1>9. ASSUME turn'[t].pc \in {"owner", "place", "mark"}
      PROVE  ToldCreated(t)' = {}
  <2>1. CASE PassesGuard(t)
    <3>1. chat[turn[t].chat].marker = NULL /\ InUse(t)
      BY <2>1, GuardSaw DEF PassesGuard, InUse, UseSteps, TurnSteps, ToolSteps
    <3>2. ToldCreated(t) = {}
      BY <1>1, <3>1 DEF ToldInv
    <3> QED
      BY <1>3, <2>1, <3>2 DEF PassesGuard, Holds
  <2>2. CASE TakesOwner(t) \/ FindsOrder(t) \/ EntersOrder(t)
    <3>1. turn[t].pc \in {"owner", "place"} /\ turn'[t].results = turn[t].results
      BY <1>9, <2>2 DEF TakesOwner, FindsOrder, EntersOrder, Holds, Tells
    <3> QED
      BY <1>1, <1>3, <3>1 DEF ToldInv
  <2> QED
    BY <1>1, <1>9, <2>1, <2>2, Arrivals
<1>10. \A i, j \in ToldCreated(t)' : i = j
  <2>1. CASE turn'[t].results = turn[t].results
    BY <1>1, <1>3, <2>1 DEF ToldInv
  <2>2. CASE turn'[t].results = <<>>
    BY <1>4, <2>2
  <2>3. CASE \E r \in ToolResult : NewResult(t, r)
    <3>1. PICK r \in ToolResult : NewResult(t, r)
      BY <2>3
    <3>2. CASE r.outcome = "created"
      <4>1. ToldCreated(t)' = {Len(turn[t].results) + 1}
        BY <1>5, <1>7, <3>1, <3>2
      <4> QED
        BY <4>1
    <3>3. CASE r.outcome # "created"
      BY <1>1, <1>5, <3>1, <3>3 DEF ToldInv
    <3> QED
      BY <3>2, <3>3
  <2> QED
    BY <2>1, <2>2, <2>3, ResultActs
<1>11. ASSUME NEW b \in PlacedIn(t)', turn'[t].pc # "over" \/ Answered(t)'
       PROVE  \/ turn'[t].pc = "mark" /\ turn'[t].order = b
              \/ \E i \in ToldCreated(t)' : turn'[t].results[i].orders = {b}
  <2>1. CASE PlacedIn(t)' # PlacedIn(t)
    BY <1>11, <2>1, PlacedActs
  <2>2. CASE PlacedIn(t)' = PlacedIn(t)
    <3>1. b \in Orders /\ origin[b] = t
      BY <1>11, <2>2 DEF PlacedIn
    <3>2. turn[t].pc \notin {"idle", "attach", "check", "prepare"}
      BY <3>1, ChatNullAssumption DEF OrderInv
    <3>3. turn[t].pc # "over"
      BY OverStays, Entered DEF Act, Arrives, Attaches, Checks, Prepares, TalkStep, Finalizes, EndStep,
         Cancels, ToolKind, PlainTool, StoresSelection, PassesGuard, TakesOwner, FindsOrder,
         EntersOrder, MarksOrder, ToolBase, ToolSteps
    <3>4. CASE turn[t].pc = "mark"
      <4>1. PICK r \in ToolResult : NewResult(t, r) /\ r = OrderResult("book", "created", turn[t].order)
        BY <1>6, <3>4
      <4>2. r.outcome = "created" /\ r.orders = {turn[t].order}
        BY <4>1 DEF OrderResult
      <4>3. /\ Len(turn[t].results) + 1 \in ToldCreated(t)'
            /\ turn'[t].results[Len(turn[t].results) + 1].orders = {turn[t].order}
        BY <1>5, <4>1, <4>2
      <4>4. \/ turn[t].order = b
            \/ \E i \in ToldCreated(t) : turn[t].results[i].orders = {b}
        BY <1>1, <1>11, <2>2, <3>3 DEF ToldInv
      <4>5. ToldCreated(t) = {}
        BY <1>1, <3>4 DEF ToldInv
      <4> QED
        BY <4>3, <4>4, <4>5
    <3>5. CASE turn[t].pc # "mark"
      <4>1. PICK i \in ToldCreated(t) : turn[t].results[i].orders = {b}
        BY <1>1, <1>11, <2>2, <3>3, <3>5 DEF ToldInv
      <4>2. CASE turn'[t].results = turn[t].results
        BY <1>3, <4>1, <4>2
      <4>3. CASE turn'[t].results = <<>> /\ (Arrives(t) \/ EndStep(t))
        <5>1. EndStep(t)
          BY <3>2, <4>3 DEF Arrives
        <5>2. turn'[t].results = turn[t].results
          BY <1>11, <5>1 DEF EndStep, Answered
        <5> QED
          BY <1>3, <4>1, <5>2
      <4>4. CASE \E r \in ToolResult : NewResult(t, r)
        BY <1>5, <4>1, <4>4
      <4> QED
        BY <4>2, <4>3, <4>4, ResultActs
    <3> QED
      BY <3>4, <3>5
  <2> QED
    BY <2>1, <2>2
<1>12. ASSUME NEW u \in Turns
       PROVE  /\ turn'[u].pc \in {"owner", "place", "mark"} => ToldCreated(u)' = {}
              /\ \A i, j \in ToldCreated(u)' : i = j
              /\ \A b \in PlacedIn(u)' : turn'[u].pc # "over" \/ Answered(u)' =>
                   \/ turn'[u].pc = "mark" /\ turn'[u].order = b
                   \/ \E i \in ToldCreated(u)' : turn'[u].results[i].orders = {b}
  <2>1. CASE u = t
    BY <1>9, <1>10, <1>11, <2>1
  <2>2. CASE u # t
    <3>1. turn'[u] = turn[u] /\ ToldCreated(u)' = ToldCreated(u) /\ PlacedIn(u)' = PlacedIn(u)
      BY <1>2, <1>3, <2>2, PlacedActs
    <3> QED
      BY <1>1, <3>1 DEF ToldInv, Answered
  <2> QED
    BY <2>1, <2>2
<1> QED
  BY <1>8, <1>12 DEF ToldInv

\* Beside the turns no marker is lost of a session in use.
LEMMA QuietAsides ==
    ASSUME TypeOK, SessionInv, OrderInv, MarkInv, ToldInv, OneOrderPerConversation,
           ClaimInv, LimitInv, Aside
    PROVE  MarkInv' /\ ToldInv' /\ OneOrderPerConversation' /\ ClaimInv' /\ LimitInv'
<1>1. ledger' = ledger /\ origin' = origin /\ turn' = turn /\ faults' = faults
  BY DEF Aside, Beside
<1>2. \A d \in ChatIDs :
         /\ chat'[d] # NULL => chat[d] # NULL
         /\ chat'[d] # NULL => (chat[d].marker # NULL => chat'[d].marker # NULL)
  <2>1. CASE CleanupDeletes
    BY <2>1 DEF CleanupDeletes
  <2>2. ASSUME NEW c \in ChatIDs, GuestSelectPackage(c) \/ GuestHistory(c)
        PROVE  \A d \in ChatIDs :
                 /\ chat'[d] # NULL => chat[d] # NULL
                 /\ chat'[d] # NULL => (chat[d].marker # NULL => chat'[d].marker # NULL)
    BY <2>2, PageRows
  <2>3. CASE chat' = chat
    BY <2>3
  <2> QED
    BY <2>1, <2>2, <2>3 DEF Aside, CleanupSelects, CleanupFails, ExpireGuest, Passes, Tick
<1>3. \A u \in Turns : InUse(u) => turn[u].chat \in ChatIDs /\ chat'[turn[u].chat] # NULL
  <2>1. SessionInv' /\ \A u \in Turns : InUse(u)' <=> InUse(u)
    BY <1>1, SessionAsides DEF InUse
  <2> QED
    BY <1>1, <2>1, Numbers DEF SessionInv, UseInv, InUse, UseSteps
<1>4. \A u \in Turns : ToldCreated(u)' = ToldCreated(u) /\ PlacedIn(u)' = PlacedIn(u)
  BY <1>1 DEF ToldCreated, PlacedIn
<1>5. MarkInv'
  <2>1. \A b \in Orders : ledger[b] # NULL => ledger[b].key[1] \in ChatIDs
    BY Origins
  <2> QED
    BY <1>1, <1>2, <2>1 DEF MarkInv, Marked
<1>6. ToldInv'
  BY <1>1, <1>2, <1>3, <1>4 DEF ToldInv, InUse, Answered
<1>7. OneOrderPerConversation'
  BY <1>1 DEF OneOrderPerConversation
<1>8. ClaimInv' /\ LimitInv'
  BY <1>1 DEF ClaimInv, LimitInv, Mine, ToldCreated, Answered
<1> QED
  BY <1>5, <1>6, <1>7, <1>8

-----------------------------------------------------------------------------
(* The list of the model. *)

LEMMA AppendLonger ==
    ASSUME NEW S, NEW s \in Seq(S), NEW r
    PROVE  Len(Append(s, r)) = Len(s) + 1
<1>1. s \in Seq(S \cup {r})
  OBVIOUS
<1> QED
  BY <1>1

\* A request is sent with a list that is complete ...
LEMMA Asking ==
    ASSUME NEW me, DOMAIN me = Fields, me.selected \in BOOLEAN, load.limit \in Nat,
           me.round \in Nat \ {0}, ContextOK(me.context, me.history, me.selected),
           Len(me.context.msgs) - me.context.start = Len(me.results) + me.round - 1
    PROVE  ListOK(Asks(me))
<1> DEFINE new == MessagesForRequest(me.context, load.limit)
<1>1. /\ Asks(me).pc = (IF me.stream THEN "stream" ELSE "generate") /\ Asks(me).context = new
      /\ Asks(me).history = me.history /\ Asks(me).selected = me.selected
      /\ Asks(me).round = me.round /\ Asks(me).results = me.results
  BY DEF Asks, Fields
<1>2. /\ ContextOK(new, me.history, me.selected)
      /\ Len(new.msgs) - new.start = Len(me.context.msgs) - me.context.start
  BY TrimKeepsContext
<1>3. me.selected \/ EstimateContextTokens(new) <= load.limit \/ Eligible(new) = {}
  BY TrimFits DEF ContextOK
<1> HIDE DEF new
<1>4. Asks(me).pc \in {"stream", "generate"}
  BY <1>1
<1>5. Fits(Asks(me))
  BY <1>1, <1>3 DEF Fits
<1> QED
  BY <1>1, <1>2, <1>4, <1>5 DEF ListOK

\* ... and a result is told to the model in a message of its own.
LEMMA ListReturned ==
    ASSUME NEW me, DOMAIN me = Fields, me.pc \in ToolSteps, ListOK(me),
           me.results \in Seq(ToolResult), NEW r
    PROVE  ListOK(Returned(me, r))
<1> DEFINE new == AppendMessage(me.context, "tool")
<1>1. /\ Returned(me, r).pc = "more" /\ Returned(me, r).context = new
      /\ Returned(me, r).history = me.history /\ Returned(me, r).selected = me.selected
      /\ Returned(me, r).round = me.round /\ Returned(me, r).results = Append(me.results, r)
  BY DEF Returned, Fields
<1>2. /\ ContextOK(new, me.history, me.selected)
      /\ Len(new.msgs) - new.start = Len(me.context.msgs) - me.context.start + 1
  BY AppendsContext DEF ListOK
<1>3. Len(Append(me.results, r)) = Len(me.results) + 1 /\ Len(me.results) \in Nat
  BY AppendLonger
<1>4. /\ me.pc \notin {"stream", "generate"}
      /\ Len(me.context.msgs) - me.context.start = Len(me.results) + me.round - 0
      /\ me.round \in Nat \ {0}
  BY DEF ListOK, ToolSteps
<1> HIDE DEF new
<1>5. Len(new.msgs) - new.start = Len(me.results) + 1 + me.round - 0
  BY <1>2, <1>3, <1>4
<1>6. Returned(me, r).pc \notin {"stream", "generate"}
  BY <1>1
<1> QED
  BY <1>1, <1>2, <1>3, <1>4, <1>5, <1>6 DEF ListOK

\* What else a step writes the list does not see.
LEMMA ListSame ==
    ASSUME NEW me, NEW new, ListOK(me),
           new.round = me.round, new.context = me.context, new.history = me.history,
           new.selected = me.selected, new.results = me.results,
           (new.pc \in {"stream", "generate"}) <=> (me.pc \in {"stream", "generate"})
    PROVE  ListOK(new)
BY DEF ListOK, Fits

LEMMA ListNoted ==
    ASSUME NEW t \in Turns, DOMAIN turn[t] = Fields, turn[t].pc \in ToolSteps, ListOK(turn[t]), NEW call
    PROVE  /\ ListOK(Noted(t, call)) /\ DOMAIN Noted(t, call) = Fields
           /\ Noted(t, call).pc = turn[t].pc /\ Noted(t, call).results = turn[t].results
<1>1. /\ DOMAIN Noted(t, call) = Fields /\ Noted(t, call).pc = turn[t].pc
      /\ Noted(t, call).round = turn[t].round /\ Noted(t, call).context = turn[t].context
      /\ Noted(t, call).history = turn[t].history /\ Noted(t, call).selected = turn[t].selected
      /\ Noted(t, call).results = turn[t].results
  BY DEF Noted, Fields
<1> QED
  BY <1>1, ListSame

\* Until the model is asked the turn is in its first round.
LEMMA FirstRound ==
    ASSUME TypeOK, NEW t \in Turns, EarlyRound(turn[t]),
           Arrive(t) \/ AttachChat(t) \/ Check(t)
    PROVE  EarlyRound(turn'[t]) /\ turn'[t].pc \notin ModelSteps
<1>1. DOMAIN turn[t] = Fields
  BY DEF TypeOK, TurnOK
<1>2. CASE Arrive(t)
  <2>1. PICK signed, stream, g, c, after :
           Become(t, [NewTurn EXCEPT !.pc = "attach", !.signed = signed, !.stream = stream, !.guest = g,
               !.chat = c, !.checked = clock, !.after = after])
    BY <1>2 DEF Arrive
  <2>2. turn'[t] = [NewTurn EXCEPT !.pc = "attach", !.signed = signed, !.stream = stream, !.guest = g,
               !.chat = c, !.checked = clock, !.after = after]
    BY <2>1, Becomes
  <2> QED
    BY <2>2 DEF NewTurn, EarlyRound, ModelSteps, ToolSteps
<1>3. CASE AttachChat(t)
  <2>1. turn[t].pc = "attach"
    BY <1>3 DEF AttachChat, At
  <2>2. PICK c : Become(t, [turn[t] EXCEPT !.pc = "check", !.chat = c])
                 \/ Become(t, [turn[t] EXCEPT !.pc = "check"])
    BY <1>3 DEF AttachChat, RebindGuestChatSession, Goes
  <2>3. turn'[t] = [turn[t] EXCEPT !.pc = "check", !.chat = c]
        \/ turn'[t] = [turn[t] EXCEPT !.pc = "check"]
    BY <2>2, Becomes
  <2>4. turn'[t].pc = "check" /\ turn'[t].round = turn[t].round
    BY <1>1, <2>3 DEF Fields
  <2> QED
    BY <2>1, <2>4 DEF EarlyRound, ModelSteps, ToolSteps
<1>4. CASE Check(t)
  <2>1. turn[t].pc = "check"
    BY <1>4 DEF Check, At
  <2>2. PICK selected : Become(t, [turn[t] EXCEPT !.pc = "prepare", !.checked = clock, !.selected = selected])
                        \/ Become(t, Over(turn[t], "error"))
    BY <1>4 DEF Check
  <2>3. turn'[t] = [turn[t] EXCEPT !.pc = "prepare", !.checked = clock, !.selected = selected]
        \/ turn'[t] = Over(turn[t], "error")
    BY <2>2, Becomes
  <2>4. CASE turn'[t] = [turn[t] EXCEPT !.pc = "prepare", !.checked = clock, !.selected = selected]
    <3>1. turn'[t].pc = "prepare" /\ turn'[t].round = turn[t].round
      BY <1>1, <2>4 DEF Fields
    <3> QED
      BY <2>1, <3>1 DEF EarlyRound, ModelSteps, ToolSteps
  <2>5. CASE turn'[t] = Over(turn[t], "error")
    BY <2>5 DEF Over, NewTurn, EarlyRound, ModelSteps, ToolSteps
  <2> QED
    BY <2>3, <2>4, <2>5
<1> QED
  BY <1>2, <1>3, <1>4

\* The first list is the whole history, trimmed.
LEMMA FirstList ==
    ASSUME TypeOK, NEW t \in Turns, EarlyRound(turn[t]), Prepare(t)
    PROVE  turn'[t].pc = "over" \/ ListOK(turn'[t])
<1>1. DOMAIN turn[t] = Fields /\ turn[t].pc = "prepare" /\ load \in Workloads /\ load.limit \in Nat
      /\ turn[t].selected \in BOOLEAN /\ turn[t].results = <<>>
  BY ChatAssumption DEF TypeOK, TurnOK, FlagsOK, WorkOK, Prepare, At
<1>2. CASE Become(t, Over(turn[t], "error"))
  <2>1. turn'[t] = Over(turn[t], "error")
    BY <1>2, Becomes
  <2> QED
    BY <2>1 DEF Over, NewTurn
<1>3. CASE \E h \in load.histories : Become(t, Asks([turn[t] EXCEPT !.history = h,
              !.context = BuildMessages(h, turn[t].selected)]))
  <2>1. PICK h \in load.histories : Become(t, Asks([turn[t] EXCEPT !.history = h,
              !.context = BuildMessages(h, turn[t].selected)]))
    BY <1>3
  <2> DEFINE c == BuildMessages(h, turn[t].selected)
             me == [turn[t] EXCEPT !.history = h, !.context = c]
  <2>2. h \in Seq(Roles)
    BY <1>1, ChatAssumption
  <2>3. ContextOK(c, h, turn[t].selected) /\ Len(c.msgs) = c.start
    BY <1>1, <2>2, BuildsContext
  <2>4. turn'[t] = Asks(me)
    BY <2>1, Becomes
  <2> HIDE DEF c
  <2>5. /\ DOMAIN me = Fields /\ me.selected = turn[t].selected /\ me.context = c /\ me.history = h
        /\ me.round = turn[t].round /\ me.results = turn[t].results
    BY <1>1 DEF Fields
  <2>6. turn[t].round = 1
    BY <1>1 DEF EarlyRound
  <2>7. c.start \in Nat
    BY <2>3 DEF ContextOK, Listed
  <2>8. Len(c.msgs) - c.start = Len(<<>>) + 1 - 1
    BY <2>3, <2>7
  <2> HIDE DEF me
  <2>10. /\ me.selected \in BOOLEAN /\ me.round \in Nat \ {0}
         /\ ContextOK(me.context, me.history, me.selected)
         /\ Len(me.context.msgs) - me.context.start = Len(me.results) + me.round - 1
    BY <1>1, <2>3, <2>5, <2>6, <2>8
  <2>9. ListOK(Asks(me))
    BY <1>1, <2>5, <2>10, Asking
  <2> QED
    BY <2>4, <2>9
<1> QED
  BY <1>2, <1>3 DEF Prepare

\* A failure of the provider ends the rounds.
LEMMA FailureEnds ==
    ASSUME TypeOK, NEW t \in Turns, Fails(t)
    PROVE  turn'[t].pc \in {"finalize", "over"}
<1>1. DOMAIN turn[t] = Fields
  BY DEF TypeOK, TurnOK
<1>2. turn'[t] = Over(turn[t], "error")
      \/ turn'[t] = [turn[t] EXCEPT !.pc = "finalize", !.answer = Answer("apology", FALSE, TRUE)]
  BY Becomes DEF Fails
<1> QED
  BY <1>1, <1>2 DEF Over, NewTurn, Fields

\* Calls of the model are a message of the list, and a text ends the rounds.
LEMMA ResponseListed ==
    ASSUME TypeOK, NEW t \in Turns, turn[t].pc \in {"stream", "generate"}, ListOK(turn[t]),
           NEW source, NEW calls, Responds(t, source, calls)
    PROVE  turn'[t].pc = "finalize" \/ ListOK(turn'[t])
<1>1. DOMAIN turn[t] = Fields /\ turn[t].results \in Seq(ToolResult)
  BY DEF TypeOK, TurnOK, WorkOK
<1>2. CASE Finishes(t, source)
  <2>1. PICK answer : Become(t, [turn[t] EXCEPT !.pc = "finalize", !.answer = answer])
    BY <1>2 DEF Finishes
  <2>2. turn'[t] = [turn[t] EXCEPT !.pc = "finalize", !.answer = answer]
    BY <2>1, Becomes
  <2> QED
    BY <1>1, <2>2 DEF Fields
<1>3. CASE Become(t, [turn[t] EXCEPT !.pc = "tools", !.context = AppendMessage(@, "assistant")])
  <2> DEFINE new == AppendMessage(turn[t].context, "assistant")
  <2>1. turn'[t] = [turn[t] EXCEPT !.pc = "tools", !.context = new]
    BY <1>1, <1>3, Becomes DEF Fields
  <2>2. /\ ContextOK(new, turn[t].history, turn[t].selected)
        /\ Len(new.msgs) - new.start = Len(turn[t].context.msgs) - turn[t].context.start + 1
    BY AppendsContext DEF ListOK, Roles
  <2>3. /\ Len(turn[t].context.msgs) - turn[t].context.start = Len(turn[t].results) + turn[t].round - 1
        /\ turn[t].round \in Nat \ {0} /\ Len(turn[t].results) \in Nat
    BY <1>1 DEF ListOK
  <2> HIDE DEF new
  <2>4. Len(new.msgs) - new.start = Len(turn[t].results) + turn[t].round - 0
    BY <2>2, <2>3
  <2>5. /\ turn'[t].pc = "tools" /\ turn'[t].context = new /\ turn'[t].history = turn[t].history
        /\ turn'[t].selected = turn[t].selected /\ turn'[t].round = turn[t].round
        /\ turn'[t].results = turn[t].results
    BY <1>1, <2>1 DEF Fields
  <2>6. turn'[t].pc \notin {"stream", "generate"}
    BY <2>5
  <2> QED
    BY <2>2, <2>3, <2>4, <2>5, <2>6 DEF ListOK
<1> QED
  BY <1>2, <1>3 DEF Responds

\* The rounds keep the list.
LEMMA TalkListed ==
    ASSUME TypeOK, NEW t \in Turns, turn[t].pc \in ModelSteps => ListOK(turn[t]),
           StreamChunk(t) \/ StreamEnds(t) \/ StreamBreaks(t) \/ Generate(t) \/ NextRound(t)
    PROVE  turn'[t].pc \in ModelSteps => ListOK(turn'[t])
<1>1. /\ DOMAIN turn[t] = Fields /\ turn[t].results \in Seq(ToolResult)
      /\ turn[t].selected \in BOOLEAN /\ load.limit \in Nat
  BY ChatAssumption DEF TypeOK, TurnOK, FlagsOK, WorkOK
<1>2. {"finalize", "over"} \cap ModelSteps = {} /\ {"stream", "generate", "more"} \subseteq ModelSteps
  BY DEF ModelSteps, ToolSteps
<1>3. CASE StreamChunk(t)
  <2>1. turn[t].pc = "stream"
    BY <1>3 DEF StreamChunk, At
  <2>2. PICK tool, committed, shown :
           Become(t, [turn[t] EXCEPT !.tool = tool, !.committed = committed, !.shown = shown])
    BY <1>3 DEF StreamChunk
  <2>3. turn'[t] = [turn[t] EXCEPT !.tool = tool, !.committed = committed, !.shown = shown]
    BY <2>2, Becomes
  <2>4. /\ turn'[t].pc = turn[t].pc /\ turn'[t].context = turn[t].context
        /\ turn'[t].history = turn[t].history /\ turn'[t].selected = turn[t].selected
        /\ turn'[t].round = turn[t].round /\ turn'[t].results = turn[t].results
    BY <1>1, <2>3 DEF Fields
  <2> QED
    BY <1>2, <2>1, <2>4, ListSame
<1>4. CASE StreamEnds(t)
  <2>1. turn[t].pc = "stream" /\ \E calls : Responds(t, "stream", calls)
    BY <1>4 DEF StreamEnds, At
  <2> QED
    BY <1>2, <2>1, ResponseListed
<1>5. CASE StreamBreaks(t)
  <2>1. turn[t].pc = "stream" /\ (Fails(t) \/ Become(t, [turn[t] EXCEPT !.pc = "generate"]))
    BY <1>5 DEF StreamBreaks, At, Goes
  <2>2. CASE Fails(t)
    BY <1>2, <2>2, FailureEnds
  <2>3. CASE Become(t, [turn[t] EXCEPT !.pc = "generate"])
    <3>1. turn'[t] = [turn[t] EXCEPT !.pc = "generate"]
      BY <2>3, Becomes
    <3>2. /\ turn'[t].pc = "generate" /\ turn'[t].context = turn[t].context
          /\ turn'[t].history = turn[t].history /\ turn'[t].selected = turn[t].selected
          /\ turn'[t].round = turn[t].round /\ turn'[t].results = turn[t].results
      BY <1>1, <3>1 DEF Fields
    <3> QED
      BY <1>2, <2>1, <3>2, ListSame
  <2> QED
    BY <2>1, <2>2, <2>3
<1>6. CASE Generate(t)
  <2>1. turn[t].pc = "generate" /\ (Fails(t) \/ \E calls : Responds(t, "generate", calls))
    BY <1>6 DEF Generate, At
  <2> QED
    BY <1>2, <2>1, ResponseListed, FailureEnds
<1>7. CASE NextRound(t)
  <2>1. turn[t].pc = "more" /\ ListOK(turn[t])
    BY <1>2, <1>7 DEF NextRound, At
  <2>2. PICK offered :
           Become(t, Asks([turn[t] EXCEPT !.round = turn[t].round + 1, !.offered = offered]))
    BY <1>1, <1>7 DEF NextRound, Fields
  <2> DEFINE me == [turn[t] EXCEPT !.round = turn[t].round + 1, !.offered = offered]
  <2>3. turn'[t] = Asks(me)
    BY <2>2, Becomes
  <2>4. /\ DOMAIN me = Fields /\ me.context = turn[t].context
        /\ me.history = turn[t].history /\ me.selected = turn[t].selected
        /\ me.round = turn[t].round + 1 /\ me.results = turn[t].results
    BY <1>1 DEF Fields
  <2>5. /\ turn[t].round \in Nat \ {0} /\ Len(turn[t].results) \in Nat
        /\ ContextOK(turn[t].context, turn[t].history, turn[t].selected)
        /\ Len(turn[t].context.msgs) - turn[t].context.start = Len(turn[t].results) + turn[t].round - 0
    BY <1>1, <2>1 DEF ListOK
  <2> HIDE DEF me
  <2>6. /\ me.round \in Nat \ {0}
        /\ Len(me.context.msgs) - me.context.start = Len(me.results) + me.round - 1
    BY <2>4, <2>5
  <2>7. ListOK(Asks(me))
    BY <1>1, <2>4, <2>5, <2>6, Asking
  <2> QED
    BY <2>3, <2>7
<1> QED
  BY <1>3, <1>4, <1>5, <1>6, <1>7

\* So do the tools: a result is returned, or only the step changes.
LEMMA ToolListed ==
    ASSUME TypeOK, NEW t \in Turns, turn[t].pc \in ModelSteps => ListOK(turn[t]), ToolStep(t)
    PROVE  ListOK(turn'[t])
<1>1. DOMAIN turn[t] = Fields /\ turn[t].results \in Seq(ToolResult)
  BY DEF TypeOK, TurnOK, WorkOK
<1>2. turn[t].pc \in ToolSteps
  BY DEF ToolStep, Repeated, ExecuteSearchTrips, ExecuteInfo, ExecuteCheckOrderStatus,
       ExecuteSelectPackage, StoreSelection, ExecuteCreateBooking, ReadOwner, PlaceOrder,
       WriteMarker, NewCalls, MayCall, At, ToolSteps
<1>3. ListOK(turn[t])
  BY <1>2 DEF ModelSteps
<1>4. ASSUME NEW me, me = turn[t] \/ \E call : me = Noted(t, call), NEW r, Become(t, Returned(me, r))
      PROVE  ListOK(turn'[t])
  <2>1. ListOK(me) /\ DOMAIN me = Fields /\ me.pc \in ToolSteps /\ me.results \in Seq(ToolResult)
    BY <1>1, <1>2, <1>3, <1>4, ListNoted
  <2>2. turn'[t] = Returned(me, r)
    BY <1>4, Becomes
  <2> QED
    BY <2>1, <2>2, ListReturned
<1>5. ASSUME NEW me, me = turn[t] \/ \E call : me = Noted(t, call), NEW step \in ToolSteps,
             NEW owner, NEW order,
             \/ Become(t, [me EXCEPT !.pc = step])
             \/ Become(t, [me EXCEPT !.pc = step, !.owner = owner])
             \/ Become(t, [me EXCEPT !.pc = step, !.order = order])
      PROVE  ListOK(turn'[t])
  <2>1. ListOK(me) /\ DOMAIN me = Fields /\ me.pc \in ToolSteps
    BY <1>1, <1>2, <1>3, <1>5, ListNoted
  <2>2. \/ turn'[t] = [me EXCEPT !.pc = step]
        \/ turn'[t] = [me EXCEPT !.pc = step, !.owner = owner]
        \/ turn'[t] = [me EXCEPT !.pc = step, !.order = order]
    BY <1>5, Becomes
  <2>3. /\ turn'[t].pc = step /\ turn'[t].context = me.context
        /\ turn'[t].history = me.history /\ turn'[t].selected = me.selected
        /\ turn'[t].round = me.round /\ turn'[t].results = me.results
    BY <2>1, <2>2 DEF Fields
  <2> QED
    BY <2>1, <2>3, ListSame DEF ToolSteps
<1>6. CASE Repeated(t)
  <2>1. \E r : Become(t, Returned(turn[t], r))
    BY <1>6 DEF Repeated
  <2> QED
    BY <1>4, <2>1
<1>7. CASE ExecuteSearchTrips(t) \/ ExecuteInfo(t) \/ ExecuteCheckOrderStatus(t)
  <2>1. \E call, r : Become(t, Returned(Noted(t, call), r))
    BY <1>7 DEF ExecuteSearchTrips, ExecuteInfo, ExecuteCheckOrderStatus, Returns
  <2> QED
    BY <1>4, <2>1
<1>8. CASE ExecuteSelectPackage(t)
  <2>1. \E call : Become(t, [Noted(t, call) EXCEPT !.pc = "select"])
                  \/ \E r : Become(t, Returned(Noted(t, call), r))
    BY <1>8 DEF ExecuteSelectPackage, Returns
  <2> QED
    BY <1>4, <1>5, <2>1 DEF ToolSteps
<1>9. CASE StoreSelection(t) \/ WriteMarker(t)
  <2>1. \E r : Become(t, Returned(turn[t], r))
    BY <1>9 DEF StoreSelection, WriteMarker
  <2> QED
    BY <1>4, <2>1
<1>10. CASE ExecuteCreateBooking(t)
  <2>1. \E call : Become(t, [Noted(t, call) EXCEPT !.pc = "owner"])
                  \/ \E r : Become(t, Returned(Noted(t, call), r))
    BY <1>10 DEF ExecuteCreateBooking, Returns
  <2> QED
    BY <1>4, <1>5, <2>1 DEF ToolSteps
<1>11. CASE ReadOwner(t)
  <2>1. \/ \E owner : Become(t, [turn[t] EXCEPT !.pc = "place", !.owner = owner])
        \/ \E r : Become(t, Returned(turn[t], r))
    BY <1>11 DEF ReadOwner
  <2> QED
    BY <1>4, <1>5, <2>1 DEF ToolSteps
<1>12. CASE PlaceOrder(t)
  <2>1. \/ \E b : Become(t, [turn[t] EXCEPT !.pc = "mark", !.order = b])
        \/ \E r : Become(t, Returned(turn[t], r))
    BY <1>12 DEF PlaceOrder, Placed
  <2> QED
    BY <1>4, <1>5, <2>1 DEF ToolSteps
<1> QED
  BY <1>6, <1>7, <1>8, <1>9, <1>10, <1>11, <1>12 DEF ToolStep

\* Every step of a turn keeps the list of every turn.
LEMMA ContextActs ==
    ASSUME TypeOK, ContextInv, NEW t \in Turns, Arrive(t) \/ StreamChunk(t) \/ Steps(t) \/ Cancel(t)
    PROVE  ContextInv'
<1>1. Moves(t) /\ load' = load
  <2>1. Moves(t) /\ UNCHANGED Others
    BY Acts DEF Act
  <2> QED
    BY <2>1 DEF Others
<1>2. EarlyRound(turn[t]) /\ (turn[t].pc \in ModelSteps => ListOK(turn[t]))
  BY DEF ContextInv
<1>3. DOMAIN turn[t] = Fields
  BY DEF TypeOK, TurnOK
<1>4. {"attach", "check", "prepare"} \cap ModelSteps = {} /\ {"over", "persist", "finalize"} \cap ModelSteps = {}
  BY DEF ModelSteps, ToolSteps
<1>5. EarlyRound(turn'[t]) /\ (turn'[t].pc \in ModelSteps => ListOK(turn'[t]))
  <2>1. CASE Arrive(t) \/ AttachChat(t) \/ Check(t)
    BY <1>2, <2>1, FirstRound
  <2>2. CASE RefuseEarly(t) \/ FinalizeChat(t) \/ Persist(t)
    <3>1. turn'[t].pc \in {"over", "persist"}
      BY <2>2, Refusing, Finalizing, Persisting DEF EndStep, Finalizes
    <3> QED
      BY <1>4, <3>1 DEF EarlyRound
  <2>3. CASE Prepare(t)
    <3>1. turn'[t].pc \in {"over", "stream", "generate"}
      BY <2>3, Preparing DEF EndStep, Prepares
    <3> QED
      BY <1>2, <1>4, <2>3, <3>1, FirstList DEF EarlyRound
  <2>4. CASE StreamChunk(t) \/ StreamEnds(t) \/ StreamBreaks(t) \/ Generate(t) \/ NextRound(t)
    <3>1. turn'[t].pc \notin {"attach", "check", "prepare"}
      BY <2>4, Talking DEF TalkStep, EndStep
    <3> QED
      BY <1>2, <2>4, <3>1, TalkListed DEF EarlyRound
  <2>5. CASE ToolStep(t)
    <3>1. turn'[t].pc \in ToolSteps
      BY <2>5, Calling DEF ToolKind, PlainTool, StoresSelection, PassesGuard, TakesOwner, FindsOrder,
         EntersOrder, MarksOrder, ToolBase
    <3>2. EarlyRound(turn'[t])
      BY <3>1 DEF EarlyRound, ToolSteps
    <3> QED
      BY <1>2, <2>5, <3>2, ToolListed
  <2>6. CASE Cancel(t)
    <3>1. turn'[t] = [turn[t] EXCEPT !.cancelled = TRUE]
      BY <2>6, Becomes DEF Cancel
    <3>2. /\ turn'[t].pc = turn[t].pc /\ turn'[t].context = turn[t].context
          /\ turn'[t].history = turn[t].history /\ turn'[t].selected = turn[t].selected
          /\ turn'[t].round = turn[t].round /\ turn'[t].results = turn[t].results
      BY <1>3, <3>1 DEF Fields
    <3>3. EarlyRound(turn'[t])
      BY <1>2, <3>2 DEF EarlyRound
    <3> QED
      BY <1>2, <3>2, <3>3, ListSame
  <2> QED
    BY <2>1, <2>2, <2>3, <2>4, <2>5, <2>6 DEF Steps, ToolStep
<1>6. \A u \in Turns : EarlyRound(turn'[u]) /\ (turn'[u].pc \in ModelSteps => ListOK(turn'[u]))
  <2> SUFFICES ASSUME NEW u \in Turns, u # t
               PROVE  EarlyRound(turn'[u]) /\ (turn'[u].pc \in ModelSteps => ListOK(turn'[u]))
    BY <1>5
  <2>1. turn'[u] = turn[u]
    BY <1>1 DEF Moves
  <2> QED
    BY <2>1 DEF ContextInv
<1> QED
  BY <1>1, <1>6 DEF ContextInv, EarlyRound, ListOK, Fits

-----------------------------------------------------------------------------
(* The invariants hold in every reachable state.                             *)

\* At the start every turn is idle and nothing is in its hands.
LEMMA InitIdle ==
    ASSUME Init, NEW t \in Turns
    PROVE  /\ turn[t] = NewTurn /\ NewTurn.pc = "idle" /\ NewTurn.reply = "none"
           /\ NewTurn.results = <<>> /\ NewTurn.after = {} /\ NewTurn.cancelled = FALSE
           /\ NewTurn.shown = FALSE /\ NewTurn.committed = FALSE
BY DEF Init, NewTurn

\* The invariant holds at the start ...
LEMMA Initial == Init => IInv
<1> SUFFICES ASSUME Init PROVE IInv
  OBVIOUS
<1>1. TypeOK
  <2>1. chat \in [ChatIDs -> ChatRow \cup {NULL}]
    BY ChatAssumption DEF Init, SessionsInit, ChatRow
  <2>2. \A t \in Turns : TurnOK(turn[t])
    <3>1. TurnOK(NewTurn)
      BY DEF TurnOK, NewTurn, Fields, FlagsOK, CallerOK, WorkOK, TurnSteps
    <3> QED
      BY <3>1, InitIdle
  <2> QED
    BY <2>1, <2>2 DEF Init, SessionsInit, TypeOK
<1>2. \A t \in Turns : TextOK(turn[t])
  BY InitIdle DEF TextOK
<1>3. SessionInv
  BY InitIdle DEF Init, SessionsInit, SessionInv, CleaningInv, BoundInv, UseInv, InUse, UseSteps
<1>4. \A b \in Orders : ledger[b] = NULL /\ origin[b] = NULL
  BY DEF Init
<1>5. GuestInv /\ OrderInv /\ GuestOrdersAreTheCallers /\ OneOrderPerConversation
  BY <1>4, InitIdle DEF GuestInv, OrderInv, GuestOrdersAreTheCallers, OneOrderPerConversation
<1>6. SelectInv
  BY InitIdle DEF SelectInv, InUse, UseSteps, Answered
<1>7. ClaimInv /\ LimitInv
  <2>1. \A t \in Turns : turn[t].pc = "idle" /\ turn[t].reply = "none" /\ DOMAIN turn[t].results = {}
    <3>1. DOMAIN <<>> = {}
      OBVIOUS
    <3> QED
      BY <3>1, InitIdle
  <2>2. ClaimInv
    BY <2>1 DEF ClaimInv, Answered
  <2>3. LimitInv
    BY <2>1 DEF LimitInv, ToldCreated
  <2> QED
    BY <2>2, <2>3
<1>8. MarkInv
  BY <1>4, InitIdle DEF MarkInv
<1>9. ToldInv
  <2>1. \A t \in Turns : ToldCreated(t) = {} /\ PlacedIn(t) = {}
    <3> SUFFICES ASSUME NEW t \in Turns PROVE ToldCreated(t) = {} /\ PlacedIn(t) = {}
      OBVIOUS
    <3>1. DOMAIN turn[t].results = {}
      <4>1. DOMAIN <<>> = {}
        OBVIOUS
      <4> QED
        BY <4>1, InitIdle
    <3>2. ToldCreated(t) = {}
      BY <3>1 DEF ToldCreated
    <3>3. PlacedIn(t) = {}
      BY <1>4, ChatNullAssumption DEF PlacedIn
    <3> QED
      BY <3>2, <3>3
  <2> QED
    BY <2>1 DEF ToldInv
<1>10. ContextInv
  BY InitIdle DEF ContextInv, EarlyRound, ModelSteps, ToolSteps
<1> QED
  BY <1>1, <1>2, <1>3, <1>5, <1>6, <1>7, <1>8, <1>9, <1>10 DEF IInv

\* ... and every step keeps it.
LEMMA Inductive == IInv /\ [Next]_chatVars => IInv'
<1> SUFFICES ASSUME IInv, [Next]_chatVars PROVE IInv'
  OBVIOUS
<1> USE DEF IInv
<1>1. ASSUME NEW t \in Turns, Arrive(t) \/ StreamChunk(t) \/ Steps(t) \/ Cancel(t)
      PROVE  IInv'
  <2>1. Act(t)
    BY <1>1, Acts
  <2>2. TypeOK'
    BY <2>1, TypeStep
  <2>3. \A u \in Turns : TextOK(turn'[u])
    BY <2>1, TextActs DEF Act, Moves
  <2>4. SessionInv'
    BY <2>1, SessionActs
  <2>5. GuestInv' /\ OrderInv' /\ GuestOrdersAreTheCallers'
    BY <2>1, GuestActs, OrderActs
  <2>6. SelectInv' /\ ClaimInv' /\ LimitInv'
    BY <2>1, SelectActs, ClaimActs, LimitActs
  <2>7. MarkInv' /\ ToldInv' /\ OneOrderPerConversation'
    BY <2>1, MarkActs, ToldActs, OneOrderActs
  <2>8. ContextInv'
    BY <1>1, ContextActs
  <2> QED
    BY <2>2, <2>3, <2>4, <2>5, <2>6, <2>7, <2>8
<1>2. ASSUME Cleanup \/ SelectClick \/ HistoryLoad \/ IdentityExpires \/ TimePasses
      PROVE  IInv'
  <2>1. Aside
    BY <1>2, Asides
  <2>2. TypeOK' /\ SessionInv'
    BY <2>1, TypeAside, SessionAsides
  <2>3. \A u \in Turns : TextOK(turn'[u])
    BY <2>1 DEF Aside, Beside
  <2>4. GuestInv' /\ OrderInv' /\ GuestOrdersAreTheCallers' /\ SelectInv'
    BY <2>1, GuestAsides, OrderAsides, SelectAsides
  <2>5. MarkInv' /\ ToldInv' /\ OneOrderPerConversation' /\ ClaimInv' /\ LimitInv'
    BY <2>1, QuietAsides
  <2>6. ContextInv'
    BY <2>1 DEF Aside, Beside, ContextInv, EarlyRound, ListOK, Fits
  <2> QED
    BY <2>2, <2>3, <2>4, <2>5, <2>6
<1>3. ASSUME UNCHANGED chatVars
      PROVE  IInv'
  <2>1. UNCHANGED <<chat, deleted, live, clock, cleaning, ledger, origin, turn, load, faults>>
    BY <1>3 DEF chatVars, sessionVars
  <2>2. TypeOK' /\ \A t \in Turns : TextOK(turn'[t])
    BY <2>1 DEF TypeOK
  <2>3. CleaningInv'
    BY <2>1 DEF SessionInv, CleaningInv, Expired
  <2>4. BoundInv' /\ UseInv'
    BY <2>1 DEF SessionInv, BoundInv, UseInv, InUse
  <2>5. GuestInv' /\ OrderInv'
    BY <2>1 DEF GuestInv, OrderInv
  <2>6. GuestOrdersAreTheCallers' /\ OneOrderPerConversation'
    BY <2>1 DEF GuestOrdersAreTheCallers, OneOrderPerConversation
  <2>7. SelectInv'
    BY <2>1 DEF SelectInv, InUse, Answered
  <2>8. ClaimInv'
    BY <2>1 DEF ClaimInv, Mine, Answered
  <2>9. LimitInv'
    BY <2>1 DEF LimitInv, ToldCreated
  <2>10. MarkInv'
    BY <2>1 DEF MarkInv, Marked
  <2>11. ToldInv'
    BY <2>1 DEF ToldInv, PlacedIn, ToldCreated, InUse, Answered
  <2>12. ContextInv'
    BY <2>1 DEF ContextInv, EarlyRound, ListOK, Fits
  <2> QED
    BY <2>2, <2>3, <2>4, <2>5, <2>6, <2>7, <2>8, <2>9, <2>10, <2>11, <2>12 DEF SessionInv
<1> QED
  BY <1>1, <1>2, <1>3 DEF Next

\* Every state a turn, the cleanup or the page can lead to satisfies the inductive
\* invariant: what a turn read before still holds when it uses it.
THEOREM Invariance == Spec => []IInv
<1>1. Init => IInv
  BY Initial
<1>2. IInv /\ [Next]_chatVars => IInv'
  BY Inductive
<1> QED
  BY <1>1, <1>2, PTL DEF Spec

-----------------------------------------------------------------------------
(* The properties.                                                           *)

\* Text the client has seen is the text of the answer or was replaced by a guard
\* (StreamGenerate falls back only while nothing was shown).
THEOREM PartialAnswers == Spec => []PartialAnswerIsFinal
<1>1. IInv => PartialAnswerIsFinal
  BY DEF IInv, TextOK, PartialAnswerIsFinal, Answered
<1> QED
  BY <1>1, Invariance, PTL

\* The cleanup never deletes the session of a turn that found it usable.
THEOREM LiveChats == Spec => []LiveChatsSurvive
<1>1. IInv => LiveChatsSurvive
  <2> SUFFICES ASSUME IInv, NEW t \in Active, turn[t].pc \notin {"attach", "check"}
               PROVE  Exists(turn[t].chat)
    BY DEF LiveChatsSurvive
  <2>1. t \in Turns /\ InUse(t)
    BY DEF IInv, TypeOK, TurnOK, WorkOK, Active, InUse, UseSteps
  <2>2. chat[turn[t].chat] # NULL /\ turn[t].chat \in ChatIDs
    BY <2>1, Numbers DEF IInv, SessionInv, UseInv, InUse, UseSteps
  <2> QED
    BY <2>2, Numbers DEF IInv, Exists
<1> QED
  BY <1>1, Invariance, PTL

\* A guest order belongs to the identity that sent the request.
THEOREM CallersOrders == Spec => []GuestOrdersAreTheCallers
<1>1. IInv => GuestOrdersAreTheCallers
  BY DEF IInv
<1> QED
  BY <1>1, Invariance, PTL

\* A turn that knows of a selection recommends only alternatives, although the
\* selection is stored by one statement and read again by another.
THEOREM Recommendations == Spec => []NoRecommendationAfterSelection
<1>1. IInv => NoRecommendationAfterSelection
  BY DEF IInv, SelectInv, NoRecommendationAfterSelection
<1> QED
  BY <1>1, Invariance, PTL

\* An answer that claims an order was persisted after an order of the conversation
\* had been entered for the caller.
THEOREM TrueClaims == Spec => []ClaimsAreTrue
<1>1. IInv => ClaimsAreTrue
  <2> SUFFICES ASSUME IInv, NEW t \in Turns, Answered(t), turn[t].answer.claim
               PROVE  \E b \in Orders : Mine(t, b)
    BY DEF ClaimsAreTrue, Mine
  <2>1. PICK i \in DOMAIN turn[t].results : turn[t].results[i].outcome = "created"
    BY DEF IInv, ClaimInv, HasSuccessfulCreateBooking, Has
  <2> QED
    BY <2>1 DEF IInv, ClaimInv
<1> QED
  BY <1>1, Invariance, PTL

\* While nothing fails, two orders of one conversation were entered by turns that
\* overlapped.
THEOREM OneOrder == Spec => []OneOrderPerConversation
<1>1. IInv => OneOrderPerConversation
  BY DEF IInv
<1> QED
  BY <1>1, Invariance, PTL

\* While nothing fails, a turn that entered an order tells the page that order; and
\* no turn is told to sign in before it is given an order.
THEOREM Gates == Spec => []GateTellsTheLedger
<1>1. IInv => GateTellsTheLedger
  <2> SUFFICES ASSUME IInv, NEW t \in Turns, Answered(t), faults = 0, PlacedIn(t) # {}
               PROVE  \E gate \in ChatOrderGateFromToolResults(turn[t].results) :
                         gate.outcome = "created" /\ gate.orders = PlacedIn(t)
    BY DEF GateTellsTheLedger, IInv, LimitInv
  <2> DEFINE results == turn[t].results
             booked == {i \in DOMAIN results : results[i].tool = "book" /\ results[i].outcome \in {"created"}}
  <2>1. turn[t].pc = "over"
    BY DEF IInv, TypeOK, TurnOK, WorkOK, Answered
  <2>2. PICK b \in PlacedIn(t) : TRUE
    OBVIOUS
  <2>3. PICK i \in ToldCreated(t) : results[i].orders = {b}
    BY <2>1, <2>2 DEF IInv, ToldInv
  <2>4. \A j \in ToldCreated(t) : j = i
    BY <2>3 DEF IInv, ToldInv
  <2>5. PlacedIn(t) = {b}
    <3>1. ASSUME NEW d \in PlacedIn(t) PROVE d = b
      <4>1. PICK j \in ToldCreated(t) : results[j].orders = {d}
        BY <2>1, <3>1 DEF IInv, ToldInv
      <4> QED
        BY <2>3, <2>4, <4>1
    <3> QED
      BY <2>2, <3>1
  <2>6. booked = {i}
    <3>1. \A j \in booked : j \in ToldCreated(t)
      BY DEF ToldCreated
    <3>2. i \in booked
      BY <2>3 DEF ToldCreated, IInv, ClaimInv
    <3> QED
      BY <2>4, <3>1, <3>2
  <2>7. i \in Nat
    BY <2>3 DEF ToldCreated, IInv, TypeOK, TurnOK, WorkOK
  <2>8. LastBooked(results, {"created"}) = {results[i]}
    <3>1. LastBooked(results, {"created"}) = {results[k] : k \in {k \in booked : \A j \in booked : j <= k}}
      BY DEF LastBooked
    <3>2. {k \in booked : \A j \in booked : j <= k} = {i}
      BY <2>6, <2>7
    <3> HIDE DEF booked
    <3> QED
      BY <3>1, <3>2
  <2>9. results[i].outcome = "created"
    BY <2>3 DEF ToldCreated
  <2> HIDE DEF results, booked
  <2>10. ChatOrderGateFromToolResults(results) = {results[i]}
    BY <2>8 DEF ChatOrderGateFromToolResults
  <2> QED
    BY <2>3, <2>5, <2>9, <2>10 DEF results
<1> QED
  BY <1>1, Invariance, PTL

\* Every request to the provider holds the system rows, the last four rows, the
\* prompt and what the tools told in this turn, and no row of an older turn without
\* the user's row that began it (messagesForRequest).
THEOREM ContextKept == Spec => []ContextKeepsTheTurn
<1>1. IInv => ContextKeepsTheTurn
  <2> SUFFICES ASSUME IInv, NEW t \in Turns, turn[t].pc \in {"stream", "generate"}
               PROVE  LET c == turn[t].context
                          h == turn[t].history
                          kept == {c.msgs[i].id : i \in 2 .. c.start}
                          rows == DOMAIN h
                          began(i) == {j \in rows : j <= i /\ h[j] = "user" /\ \A k \in j + 1 .. i : h[k] # "user"}
                      IN  /\ c.msgs[1].role = "system"
                          /\ c.msgs[c.start] = Message("user", Len(h) + 1)
                          /\ Len(c.msgs) - c.start = Len(turn[t].results) + turn[t].round - 1
                          /\ {i \in rows : h[i] = "system" \/ i > Len(h) - 4 \/ turn[t].selected} \subseteq kept
                          /\ \A i \in kept \cap rows : h[i] # "system" => began(i) \subseteq kept
    BY DEF ContextKeepsTheTurn
  <2> DEFINE c == turn[t].context
             h == turn[t].history
  <2>1. ListOK(turn[t])
    BY DEF IInv, ContextInv, ModelSteps
  <2>2. Listed(c, h) /\ Complete(c, h, turn[t].selected) /\ h \in Seq(Roles)
    BY <2>1 DEF ListOK, ContextOK
  <2>3. c.msgs[1].role = "system" /\ c.msgs[c.start] = Message("user", Len(h) + 1)
    BY <2>2 DEF Listed, Message
  <2>4. Len(c.msgs) - c.start = Len(turn[t].results) + turn[t].round - 1
    BY <2>1 DEF ListOK
  <2>5. \A i \in DOMAIN h : i > Len(h) - 4 => i \in Kept(c)
    <3> SUFFICES ASSUME NEW i \in DOMAIN h, i > Len(h) - 4 PROVE i \in Kept(c)
      OBVIOUS
    <3>1. Len(h) \in Nat /\ i \in 1 .. Len(h)
      BY <2>2
    <3>2. PICK k \in 0 .. 4 : k = Len(h) + 1 - i
      BY <3>1
    <3>3. k \in 1 .. 4 /\ k <= Len(h) /\ Len(h) + 1 - k = i
      BY <3>1, <3>2
    <3> HIDE DEF c, h
    <3>4. c.start - k >= 2 /\ c.msgs[c.start - k].id = Len(h) + 1 - k
      BY <2>2, <3>3 DEF Listed
    <3>5. c.start \in Int
      BY <2>2 DEF Listed
    <3>6. c.start - k \in 2 .. c.start
      BY <3>3, <3>4, <3>5
    <3> QED
      BY <3>3, <3>4, <3>6 DEF Kept
  <2>6. {i \in DOMAIN h : h[i] = "system" \/ i > Len(h) - 4 \/ turn[t].selected} \subseteq Kept(c)
    BY <2>2, <2>5 DEF Complete
  <2>7. \A i \in Kept(c) \cap DOMAIN h : h[i] # "system" => Began(h, i) \subseteq Kept(c)
    BY <2>2 DEF Complete
  <2> QED
    BY <2>3, <2>4, <2>6, <2>7 DEF Kept, Began
<1> QED
  BY <1>1, Invariance, PTL

\* A request that is over the token budget has nothing left that may go: the
\* trimming stops for no other reason, unless a trip is selected.
RequestsFit == \A t \in Turns : turn[t].pc \in {"stream", "generate"} =>
    \/ turn[t].selected
    \/ EstimateContextTokens(turn[t].context) <= load.limit
    \/ Eligible(turn[t].context) = {}

\* messagesForRequest trims until the list fits, or leaves it over the budget.
THEOREM Budget == Spec => []RequestsFit
<1>1. IInv => RequestsFit
  BY DEF IInv, ContextInv, ListOK, Fits, RequestsFit, ModelSteps
<1> QED
  BY <1>1, Invariance, PTL
=============================================================================

-------------------------- MODULE EventFeed_proofs --------------------------
(***************************************************************************)
(* What holds of EventFeed for every capacity, every filter and limit of a *)
(* poll, and any number of events, connections and calls.                  *)
(*                                                                         *)
(* A poll takes events from the middle of the buffer and closes the gaps: it*)
(* needs that any set of positions can be counted in order (OrderExists),  *)
(* and then that the buffer stays in the order of arrival (FeedShape),     *)
(* shares nothing with what was handed out or cleared (Apart), and holds no*)
(* event older than one of its type that was handed out (InTurn).          *)
(* LostOnlyToNewer is inductive with these, for Push drops the oldest.     *)
(*                                                                         *)
(* The tokens: what is active has been found by every call in progress     *)
(* (ActiveIsFound), and under stdio one call is in progress, which uses the*)
(* token that is active (OneByOne).                                        *)
(***************************************************************************)
EXTENDS EventFeed, FiniteSetTheorems, SequenceTheorems, TLAPS

------------------------------------------------------------------------------
(* Numbers: a set of them that is not empty has a least and, when it is    *)
(* bounded, a greatest one.                                                *)
LEMMA Least ==
  ASSUME NEW S \in SUBSET Nat, S # {}
  PROVE  \E x \in S : \A y \in S : x <= y
<1> DEFINE T == {0..n : n \in S}
<1>1. T \subseteq FiniteSubsetsOf(Nat)
  <2> SUFFICES ASSUME NEW n \in S
               PROVE  0..n \in FiniteSubsetsOf(Nat)
    OBVIOUS
  <2>1. n \in Int /\ 0 \in Int /\ 0..n \in SUBSET Nat
    OBVIOUS
  <2>2. IsFiniteSet(0..n)
    BY <2>1, FS_Interval
  <2> HIDE <2>1
  <2>3. 0..n \in {X \in SUBSET Nat : IsFiniteSet(X)}
    BY <2>1, <2>2
  <2> QED BY <2>3, Zenon DEF FiniteSubsetsOf
<1>5. T # {}
  OBVIOUS
<1>2. PICK t \in T : \A u \in T : ~(<<u, t>> \in StrictSubsetOrdering(Nat))
  BY <1>1, <1>5, FS_StrictSubsetOrderingWellFounded, WFMin
<1>3. PICK x \in S : t = 0..x
  OBVIOUS
<1>4. ASSUME NEW y \in S, y < x
      PROVE  FALSE
  <2>1. 0..y \in T
    OBVIOUS
  <2>2. 0..y \subseteq 0..x /\ x \in 0..x /\ x \notin 0..y
    BY <1>4
  <2>3. <<0..y, t>> \in StrictSubsetOrdering(Nat)
    BY <2>2, <1>3 DEF StrictSubsetOrdering
  <2> QED BY <2>1, <2>3, <1>2
<1> QED BY <1>4

LEMMA Greatest ==
  ASSUME NEW c \in Nat, NEW S \in SUBSET (0..c), S # {}
  PROVE  \E x \in S : \A y \in S : y <= x
<1> DEFINE D == {c - n : n \in S}
<1>1. D \in SUBSET Nat
  OBVIOUS
<1>5. D # {}
  OBVIOUS
<1>2. PICK d \in D : \A y \in D : d <= y
  BY <1>1, <1>5, Least
<1>3. PICK n \in S : d = c - n
  OBVIOUS
<1>4. ASSUME NEW y \in S
      PROVE  y <= n
  <2>1. d <= c - y
    BY <1>2
  <2> QED BY <2>1, <1>3
<1> QED BY <1>4

Increasing(f) == \A i, j \in DOMAIN f : i < j => f[i] < f[j]

(* What increases does so by one at least.                                 *)
LEMMA IncreasesByOne ==
  ASSUME NEW n \in Nat, NEW f \in [1..n -> Nat], Increasing(f),
         NEW i \in 1..n
  PROVE  \A j \in i..n : f[j] - f[i] >= j - i
<1> DEFINE Bad == {j \in i..n : f[j] - f[i] < j - i}
<1> SUFFICES ASSUME Bad # {} PROVE FALSE
  OBVIOUS
<1>1. Bad \in SUBSET Nat
  OBVIOUS
<1>2. PICK j \in Bad : \A k \in Bad : j <= k
  BY <1>1, Least
<1>3. j \in i..n /\ j # i
  OBVIOUS
<1>4. j - 1 \in i..n /\ j - 1 \notin Bad
  BY <1>2, <1>3
<1>5. f[j - 1] < f[j] /\ f[j - 1] \in Nat /\ f[j] \in Nat
  BY <1>3, <1>4 DEF Increasing
<1> QED BY SMTT(60), <1>3, <1>4, <1>5

LEMMA FinitePart ==
  ASSUME NEW c \in Nat, NEW S \in SUBSET (1..c)
  PROVE  IsFiniteSet(S) /\ Cardinality(S) \in Nat /\ Cardinality(S) <= c
<1>1. IsFiniteSet(1..c) /\ Cardinality(1..c) = c
  <2>1. 1 \in Int /\ c \in Int /\ (1 > c => c = 0)
    OBVIOUS
  <2> QED BY <2>1, FS_Interval
<1>2. IsFiniteSet(S) /\ Cardinality(S) <= Cardinality(1..c)
  BY <1>1, FS_Subset
<1> QED BY <1>1, <1>2, FS_CardinalityType

(* The positions of a part of the buffer can be put in order.              *)
LEMMA OrderExists ==
  ASSUME NEW c \in Nat, NEW S \in SUBSET (1..c)
  PROVE  \E f \in [1..Cardinality(S) -> S] : Increasing(f)
<1> DEFINE Has(T) == \E f \in [1..Cardinality(T) -> T] : Increasing(f)
           Without == {T \in SUBSET (1..c) : ~Has(T)}
           Bad == {Cardinality(T) : T \in Without}
<1>0. \A T \in SUBSET (1..c) : IsFiniteSet(T) /\ Cardinality(T) \in Nat
  BY FinitePart
<1> SUFFICES ASSUME S \in Without PROVE FALSE
  OBVIOUS
<1>7. Without \subseteq SUBSET (1..c)
  OBVIOUS
<1>8. \A T \in SUBSET (1..c) : T \in Without <=> ~Has(T)
  OBVIOUS
<1> HIDE DEF Without
<1>1. Bad \in SUBSET Nat
  BY <1>0, <1>7
<1>6. Bad # {}
  OBVIOUS
<1>2. PICK b \in Bad : \A k \in Bad : b <= k
  BY <1>1, <1>6, Least
<1>9. PICK T \in Without : b = Cardinality(T)
  OBVIOUS
<1>3. T \in SUBSET (1..c) /\ ~Has(T) /\ b = Cardinality(T)
  BY <1>7, <1>8, <1>9
<1>4. CASE T = {}
  <2>1. Cardinality(T) = 0
    BY <1>4, FS_EmptySet
  <2>2. [k \in {} |-> 0] \in [1..Cardinality(T) -> T]
    BY <2>1, 1..0 = {}
  <2>3. Increasing([k \in {} |-> 0])
    BY DEF Increasing
  <2> QED BY <2>2, <2>3, <1>3
<1>5. CASE T # {}
  <2>1. PICK x \in T : \A y \in T : y <= x
    BY <1>5, <1>3, T \in SUBSET (0..c), Greatest
  <2> DEFINE U == T \ {x}
  <2>2. IsFiniteSet(T) /\ b \in Nat /\ U \in SUBSET (1..c)
    BY <1>0, <1>3
  <2>3. Cardinality(U) = b - 1 /\ Cardinality(U) \in Nat
    BY <2>2, <1>0, <1>3, FS_RemoveElement
  <2>4. Has(U)
    <3> SUFFICES ASSUME U \in Without PROVE FALSE
      BY <2>2, <1>8
    <3>1. Cardinality(U) \in Bad
      OBVIOUS
    <3> QED BY <3>1, <2>2, <2>3, <1>2
  <2>5. PICK g \in [1..Cardinality(U) -> U] : Increasing(g)
    BY <2>4
  <2> DEFINE f == [k \in 1..b |-> IF k = b THEN x ELSE g[k]]
  <2>6. \A k \in 1..b : k # b => k \in 1..Cardinality(U)
    BY <2>2, <2>3
  <2>7. f \in [1..b -> T]
    BY <2>5, <2>6
  <2>8. Increasing(f)
    <3> SUFFICES ASSUME NEW i \in 1..b, NEW j \in 1..b, i < j
                 PROVE  f[i] < f[j]
      BY DEF Increasing
    <3>0. i # b
      BY <2>2
    <3>1. i # b /\ f[i] = g[i] /\ i \in 1..Cardinality(U)
      BY <3>0, <2>6
    <3>2. g[i] \in U
      BY <3>1, <2>5
    <3>3. CASE j = b
      <4>1. g[i] <= x /\ g[i] # x
        BY <3>2, <2>1
      <4>2. g[i] \in 1..c /\ x \in 1..c
        BY <3>2, <2>1, <1>3
      <4> QED BY <3>1, <3>3, <4>1, <4>2
    <3>4. CASE j # b
      BY <3>1, <3>4, <2>5, <2>6 DEF Increasing
    <3> QED BY <3>3, <3>4
  <2> HIDE DEF f
  <2> QED BY <2>7, <2>8, <1>3
<1> QED BY <1>4, <1>5

LEMMA InOrderIs ==
  ASSUME NEW c \in Nat, NEW S \in SUBSET (1..c)
  PROVE  /\ Cardinality(S) \in Nat /\ Cardinality(S) <= c
         /\ InOrder(S) \in [1..Cardinality(S) -> S]
         /\ Increasing(InOrder(S))
         /\ \A p \in S : \E k \in 1..Cardinality(S) : InOrder(S)[k] = p
<1> DEFINE m == Cardinality(S)
           f == InOrder(S)
<1>1. IsFiniteSet(S) /\ m \in Nat /\ m <= c
  BY FinitePart
<1>2. f \in [1..m -> S] /\ Increasing(f)
  BY OrderExists DEF InOrder, Increasing
<1>3. f \in Injection(1..m, S)
  <2>1. \A i, j \in 1..m : i # j => f[i] # f[j]
    <3> SUFFICES ASSUME NEW i \in 1..m, NEW j \in 1..m, i # j PROVE f[i] # f[j]
      OBVIOUS
    <3>0. f[i] \in 1..c /\ f[j] \in 1..c
      BY <1>2
    <3>1. f[i] \in Nat /\ f[j] \in Nat
      BY <3>0
    <3>2. i < j \/ j < i
      BY <1>1
    <3> QED BY <3>1, <3>2, <1>2 DEF Increasing
  <2> QED BY <2>1, <1>2 DEF Injection, IsInjective
<1>4. Cardinality(1..m) = m
  BY <1>1, FS_Interval
<1>5. f \in Surjection(1..m, S)
  BY <1>1, <1>3, <1>4, FS_Injection
<1> QED BY <1>1, <1>2, <1>5 DEF Surjection

------------------------------------------------------------------------------
(* The buffer.                                                             *)
Sorted == \A i, j \in DOMAIN q : i < j => q[i].id < q[j].id

FeedShape ==
  /\ arrived \in 0..MaxArrivals
  /\ q \in Seq(Event) /\ Len(q) <= Cap /\ Sorted
  /\ handed \in Seq(Event)
  /\ cleared \subseteq 1..arrived
  /\ \A i \in DOMAIN q : q[i].id <= arrived
  /\ \A i \in DOMAIN handed : handed[i].id <= arrived

(* An event is in one of the three places.                                 *)
Apart ==
  /\ \A i \in DOMAIN q : q[i].id \notin cleared
  /\ \A i \in DOMAIN handed : handed[i].id \notin cleared
  /\ \A i \in DOMAIN handed, j \in DOMAIN q : handed[i].id # q[j].id

(* What is handed out next of a type came in after what has been.          *)
InTurn ==
  /\ \A i, j \in DOMAIN handed :
       i < j /\ handed[i].type = handed[j].type => handed[i].id < handed[j].id
  /\ \A i \in DOMAIN handed, j \in DOMAIN q :
       handed[i].type = q[j].type => handed[i].id < q[j].id

FeedInv == FeedShape /\ Apart /\ InTurn /\ LostOnlyToNewer

LEMMA EventsAtIs ==
  ASSUME q \in Seq(Event), NEW S \in SUBSET (DOMAIN q)
  PROVE  /\ EventsAt(S) \in Seq(Event) /\ Len(EventsAt(S)) <= Len(q)
         /\ \A k \in DOMAIN EventsAt(S) : \E p \in S : EventsAt(S)[k] = q[p]
         /\ \A p \in S : \E k \in DOMAIN EventsAt(S) : EventsAt(S)[k] = q[p]
         /\ Sorted => \A i, j \in DOMAIN EventsAt(S) :
              i < j => EventsAt(S)[i].id < EventsAt(S)[j].id
<1> DEFINE m == Cardinality(S)
           f == InOrder(S)
           e == EventsAt(S)
<1>1. DOMAIN q = 1..Len(q) /\ Len(q) \in Nat
  OBVIOUS
<1>2. m \in Nat /\ m <= Len(q)
  BY <1>1, InOrderIs
<1>3. f \in [1..m -> S] /\ Increasing(f)
  BY <1>1, InOrderIs
<1>4. \A p \in S : \E k \in 1..m : f[k] = p
  BY <1>1, InOrderIs
<1>5. e = [k \in 1..m |-> q[f[k]]]
  BY DEF EventsAt
<1> HIDE DEF m, f, e
<1>6. \A k \in 1..m : f[k] \in S /\ f[k] \in DOMAIN q
  BY <1>3
<1>7. \A p \in DOMAIN q : q[p] \in Event
  OBVIOUS
<1>8. e \in [1..m -> Event]
  BY <1>5, <1>6, <1>7
<1>9. e \in Seq(Event) /\ Len(e) = m /\ DOMAIN e = 1..m
  BY <1>8, <1>2
<1>10. \A k \in DOMAIN e : \E p \in S : e[k] = q[p]
  BY <1>5, <1>6, <1>9
<1>11. \A p \in S : \E k \in DOMAIN e : e[k] = q[p]
  BY <1>4, <1>5, <1>9
<1>12. ASSUME Sorted, NEW i \in DOMAIN e, NEW j \in DOMAIN e, i < j
       PROVE  e[i].id < e[j].id
  <2>1. i \in 1..m /\ j \in 1..m /\ f[i] < f[j]
    BY <1>3, <1>9, <1>12 DEF Increasing
  <2> QED BY <2>1, <1>5, <1>6, <1>12 DEF Sorted
<1> QED BY <1>2, <1>9, <1>10, <1>11, <1>12 DEF e

(* Of events of one type a poll takes the ones in front.                   *)
LEMMA TakenAreFirst ==
  ASSUME q \in Seq(Event), NEW filter, NEW limit \in Nat,
         NEW i \in Taken(filter, limit),
         NEW j \in DOMAIN q \ Taken(filter, limit),
         q[i].type = q[j].type
  PROVE  i < j
<1> DEFINE Before(k) == {x \in DOMAIN q : x <= k /\ Matches(q[x], filter)}
<1>1. DOMAIN q = 1..Len(q) /\ Len(q) \in Nat
  OBVIOUS
<1>2. i \in DOMAIN q /\ Matches(q[i], filter)
  BY DEF Taken
<1>3. Matches(q[j], filter)
  BY <1>2 DEF Matches
<1>4. ~(limit <= 0) /\ Cardinality(Before(i)) <= limit
      /\ ~(Cardinality(Before(j)) <= limit)
  BY <1>2, <1>3 DEF Taken
<1>5. ASSUME ~(i < j) PROVE FALSE
  <2>1. Before(j) \subseteq Before(i) /\ Before(i) \in SUBSET (1..Len(q))
    BY <1>1, <1>2, <1>5
  <2>2. IsFiniteSet(Before(i)) /\ Cardinality(Before(i)) \in Nat
    BY <1>1, <2>1, FinitePart
  <2>3. IsFiniteSet(Before(j)) /\ Cardinality(Before(j)) \in Nat
    BY <1>1, <2>1, FinitePart
  <2>4. Cardinality(Before(j)) <= Cardinality(Before(i))
    BY <2>1, <2>2, FS_Subset
  <2> QED BY <1>4, <2>2, <2>3, <2>4
<1> QED BY <1>5

LEMMA RoomIs ==
  ASSUME q \in Seq(Event), Len(q) <= Cap
  PROVE  \E d \in {0, 1} :
           /\ Room(q) \in Seq(Event) /\ Len(Room(q)) = Len(q) - d
           /\ Len(Room(q)) < Cap
           /\ \A k \in 1..Len(Room(q)) : k + d \in DOMAIN q /\ Room(q)[k] = q[k + d]
           /\ d = 1 => Len(q) = Cap
<1>1. Cap \in Nat \ {0}
  BY FeedAssumption
<1>2. CASE Len(q) >= Cap
  <2>1. Len(q) = Cap /\ Room(q) = SubSeq(q, 2, Len(q))
    BY <1>1, <1>2 DEF Room
  <2> QED BY <1>1, <2>1
<1>3. CASE ~(Len(q) >= Cap)
  <2>1. Room(q) = q
    BY <1>3 DEF Room
  <2> QED BY <1>1, <1>3, <2>1
<1> QED BY <1>2, <1>3

LEMMA ConcatIs ==
  ASSUME NEW A, NEW s \in Seq(A), NEW u \in Seq(A)
  PROVE  /\ s \o u \in Seq(A) /\ DOMAIN (s \o u) = 1..(Len(s) + Len(u))
         /\ \A i \in DOMAIN s : i \in DOMAIN (s \o u) /\ (s \o u)[i] = s[i]
         /\ \A k \in DOMAIN u : /\ k + Len(s) \in DOMAIN (s \o u)
                               /\ (s \o u)[k + Len(s)] = u[k]
<1>1. /\ DOMAIN s = 1..Len(s) /\ Len(s) \in Nat
      /\ DOMAIN u = 1..Len(u) /\ Len(u) \in Nat
  OBVIOUS
<1>2. s \o u \in Seq(A) /\ Len(s \o u) = Len(s) + Len(u)
  OBVIOUS
<1>3. \A i \in 1..(Len(s) + Len(u)) :
        (s \o u)[i] = IF i <= Len(s) THEN s[i] ELSE u[i - Len(s)]
  OBVIOUS
<1> QED BY <1>1, <1>2, <1>3

LEMMA PollKeeps ==
  ASSUME FeedInv, NEW filter, NEW limit \in Nat, Poll(filter, limit)
  PROVE  FeedInv'
<1> DEFINE T == Taken(filter, limit)
           R == DOMAIN q \ T
           t == EventsAt(T)
           r == EventsAt(R)
<1> USE DEF FeedInv
<1>1. /\ q \in Seq(Event) /\ handed \in Seq(Event) /\ Sorted
      /\ Len(q) \in Nat /\ Len(handed) \in Nat
      /\ Len(q) <= Cap /\ Cap \in Nat
  BY FeedAssumption DEF FeedShape
<1>2. T \in SUBSET (DOMAIN q) /\ R \in SUBSET (DOMAIN q)
  BY DEF Taken
<1>3. /\ t \in Seq(Event)
      /\ \A k \in DOMAIN t : \E p \in T : t[k] = q[p]
      /\ \A p \in T : \E k \in DOMAIN t : t[k] = q[p]
      /\ \A i, j \in DOMAIN t : i < j => t[i].id < t[j].id
  BY <1>1, <1>2, EventsAtIs
<1>4. /\ r \in Seq(Event) /\ Len(r) <= Len(q)
      /\ \A k \in DOMAIN r : \E p \in R : r[k] = q[p]
      /\ \A p \in R : \E k \in DOMAIN r : r[k] = q[p]
      /\ \A i, j \in DOMAIN r : i < j => r[i].id < r[j].id
  BY <1>1, <1>2, EventsAtIs
<1>5. q' = r /\ handed' = handed \o t /\ UNCHANGED <<arrived, cleared>>
  BY DEF Poll
<1>6. \A p \in T, s \in R : q[p].type = q[s].type => q[p].id < q[s].id
  BY <1>1, TakenAreFirst DEF Sorted, Taken
<1>7. \A p \in T, s \in R : q[p].id # q[s].id
  <2> SUFFICES ASSUME NEW p \in T, NEW s \in R PROVE q[p].id # q[s].id
    OBVIOUS
  <2>1. p \in DOMAIN q /\ s \in DOMAIN q /\ p # s
    BY <1>2
  <2>2. p \in Nat /\ s \in Nat /\ q[p] \in Event /\ q[s] \in Event
    BY <1>1, <2>1
  <2>3. q[p].id \in Nat /\ q[s].id \in Nat
    BY <2>2 DEF Event
  <2>4. p < s \/ s < p
    BY <2>1, <2>2
  <2> QED BY <1>1, <2>1, <2>3, <2>4 DEF Sorted
<1> HIDE DEF T, R, t, r
<1>8. /\ handed' \in Seq(Event)
      /\ \A i \in DOMAIN handed' :
           \/ i \in DOMAIN handed /\ handed'[i] = handed[i]
           \/ /\ i - Len(handed) \in DOMAIN t
              /\ handed'[i] = t[i - Len(handed)] /\ i > Len(handed)
      /\ \A i \in DOMAIN handed : i \in DOMAIN handed' /\ handed'[i] = handed[i]
      /\ \A k \in DOMAIN t :
           /\ k + Len(handed) \in DOMAIN handed'
           /\ handed'[k + Len(handed)] = t[k]
  <2>1. DOMAIN handed = 1..Len(handed) /\ DOMAIN t = 1..Len(t) /\ Len(t) \in Nat
    BY <1>1, <1>3
  <2>2. /\ handed' \in Seq(Event) /\ DOMAIN handed' = 1..(Len(handed) + Len(t))
        /\ \A i \in DOMAIN handed : i \in DOMAIN handed' /\ handed'[i] = handed[i]
        /\ \A k \in DOMAIN t : /\ k + Len(handed) \in DOMAIN handed'
                              /\ handed'[k + Len(handed)] = t[k]
    BY SMTT(60), <1>1, <1>3, <1>5, ConcatIs
  <2>3. ASSUME NEW i \in DOMAIN handed', i \notin DOMAIN handed
        PROVE  /\ i - Len(handed) \in DOMAIN t
               /\ handed'[i] = t[i - Len(handed)] /\ i > Len(handed)
    <3>1. i - Len(handed) \in DOMAIN t /\ i > Len(handed)
      BY <2>1, <2>2, <2>3, <1>1
    <3>2. (i - Len(handed)) + Len(handed) = i
      BY <2>2, <1>1
    <3> QED BY <3>1, <3>2, <2>2
  <2> QED BY <2>2, <2>3
<1>9. FeedShape'
  <2>1. \A i \in DOMAIN q' : q'[i].id <= arrived
    BY <1>2, <1>4, <1>5 DEF FeedShape
  <2>2. ASSUME NEW i \in DOMAIN handed'
        PROVE  handed'[i].id <= arrived
    <3>1. CASE i \in DOMAIN handed /\ handed'[i] = handed[i]
      BY <3>1 DEF FeedShape
    <3>2. CASE i - Len(handed) \in DOMAIN t /\ handed'[i] = t[i - Len(handed)]
      BY <3>2, <1>2, <1>3 DEF FeedShape
    <3> QED BY <3>1, <3>2, <1>8
  <2>3. Sorted'
    BY <1>4, <1>5 DEF Sorted
  <2>4. Len(q') <= Cap
    <3>1. Len(r) \in Nat
      BY <1>4
    <3> QED BY <1>1, <1>4, <1>5, <3>1
  <2> QED BY <1>4, <1>5, <1>8, <2>1, <2>2, <2>3, <2>4 DEF FeedShape
<1>10. Apart'
  <2>1. \A i \in DOMAIN q' : q'[i].id \notin cleared'
    BY <1>2, <1>4, <1>5 DEF Apart
  <2>2. \A i \in DOMAIN handed' : handed'[i].id \notin cleared'
    BY <1>2, <1>3, <1>5, <1>8 DEF Apart
  <2>3. ASSUME NEW i \in DOMAIN handed', NEW j \in DOMAIN q'
        PROVE  handed'[i].id # q'[j].id
    <3>1. PICK s \in R : q'[j] = q[s]
      BY <1>4, <1>5
    <3>2. CASE i \in DOMAIN handed /\ handed'[i] = handed[i]
      BY <3>1, <3>2, <1>2 DEF Apart
    <3>3. CASE i - Len(handed) \in DOMAIN t /\ handed'[i] = t[i - Len(handed)]
      BY <3>1, <3>3, <1>3, <1>7
    <3> QED BY <1>8, <3>2, <3>3
  <2> QED BY <2>1, <2>2, <2>3 DEF Apart
<1>11. InTurn'
  <2>1. ASSUME NEW i \in DOMAIN handed', NEW j \in DOMAIN handed',
               i < j, handed'[i].type = handed'[j].type
        PROVE  handed'[i].id < handed'[j].id
    <3>0. i \in Nat /\ j \in Nat /\ DOMAIN handed = 1..Len(handed)
      BY <1>1, <1>8
    <3>1. CASE i \in DOMAIN handed /\ j \in DOMAIN handed
      BY <2>1, <3>1, <1>8 DEF InTurn
    <3>2. CASE i \in DOMAIN handed /\ j \notin DOMAIN handed
      <4>1. j - Len(handed) \in DOMAIN t /\ handed'[j] = t[j - Len(handed)]
        BY <3>2, <1>8
      <4>2. PICK p \in T : t[j - Len(handed)] = q[p]
        BY <4>1, <1>3
      <4> QED BY <2>1, <3>2, <4>1, <4>2, <1>2, <1>8 DEF InTurn
    <3>3. CASE i \notin DOMAIN handed
      <4>1. j \notin DOMAIN handed
        BY <2>1, <3>0, <3>3, <1>8, <1>1
      <4>2. /\ i - Len(handed) \in DOMAIN t /\ handed'[i] = t[i - Len(handed)]
            /\ j - Len(handed) \in DOMAIN t /\ handed'[j] = t[j - Len(handed)]
        BY <3>3, <4>1, <1>8
      <4>3. i - Len(handed) < j - Len(handed)
        BY <2>1, <3>0, <1>1
      <4> QED BY <4>2, <4>3, <1>3
    <3> QED BY <3>1, <3>2, <3>3
  <2>2. ASSUME NEW i \in DOMAIN handed', NEW j \in DOMAIN q',
               handed'[i].type = q'[j].type
        PROVE  handed'[i].id < q'[j].id
    <3>1. PICK s \in R : q'[j] = q[s]
      BY <1>4, <1>5
    <3>2. CASE i \in DOMAIN handed /\ handed'[i] = handed[i]
      BY <2>2, <3>1, <3>2, <1>2 DEF InTurn
    <3>3. CASE i - Len(handed) \in DOMAIN t /\ handed'[i] = t[i - Len(handed)]
      BY <2>2, <3>1, <3>3, <1>3, <1>6
    <3> QED BY <1>8, <3>2, <3>3
  <2> QED BY <2>1, <2>2 DEF InTurn
<1>12. LostOnlyToNewer'
  <2>1. ASSUME NEW p \in DOMAIN q
        PROVE  q[p].id \in InBuffer' \cup HandedIds'
    <3>1. CASE p \in T
      <4>1. PICK k \in DOMAIN t : t[k] = q[p]
        BY <3>1, <1>3
      <4>2. \E i \in DOMAIN handed' : handed'[i].id = q[p].id
        BY <4>1, <1>8
      <4> QED BY <4>2 DEF HandedIds
    <3>2. CASE p \in R
      <4>1. PICK k \in DOMAIN q' : q'[k] = q[p]
        BY <3>2, <1>4, <1>5
      <4> QED BY <4>1 DEF InBuffer, IdsAt
    <3> QED BY <3>1, <3>2 DEF R
  <2>2. InBuffer \subseteq InBuffer' \cup HandedIds'
    BY <2>1 DEF InBuffer, IdsAt
  <2>3. HandedIds \subseteq HandedIds'
    <3> SUFFICES ASSUME NEW i \in DOMAIN handed
                 PROVE  \E j \in DOMAIN handed' : handed'[j].id = handed[i].id
      BY DEF HandedIds
    <3> QED BY <1>8
  <2> QED BY <2>2, <2>3, <1>5 DEF LostOnlyToNewer
<1> QED BY <1>9, <1>10, <1>11, <1>12

LEMMA PushKeeps ==
  ASSUME FeedInv, NEW type \in EventType \cup {"untyped"}, Push(type)
  PROVE  FeedInv'
<1> DEFINE r == Room(q)
           new == [id |-> arrived + 1, type |-> type]
<1> USE DEF FeedInv
<1>1. /\ q \in Seq(Event) /\ Sorted /\ Len(q) \in Nat /\ Len(q) <= Cap
      /\ Cap \in Nat \ {0} /\ MaxArrivals \in Nat /\ arrived \in Nat
      /\ arrived <= MaxArrivals
  BY FeedAssumption DEF FeedShape
<1>2. PICK d \in {0, 1} :
        /\ r \in Seq(Event) /\ Len(r) = Len(q) - d /\ Len(r) < Cap
        /\ \A k \in 1..Len(r) : k + d \in DOMAIN q /\ r[k] = q[k + d]
        /\ d = 1 => Len(q) = Cap
  BY <1>1, RoomIs
<1>3. /\ arrived < MaxArrivals /\ arrived' = arrived + 1
      /\ q' = Append(r, new) /\ UNCHANGED <<handed, cleared>>
  BY DEF Push
<1>4. new \in Event
  BY <1>1, <1>3 DEF Event
<1>5. \A i \in DOMAIN q : q[i] \in Event /\ q[i].id \in Nat /\ q[i].id <= arrived
  <2> SUFFICES ASSUME NEW i \in DOMAIN q
               PROVE  q[i] \in Event /\ q[i].id \in Nat /\ q[i].id <= arrived
    OBVIOUS
  <2>1. q[i] \in Event /\ q[i].id <= arrived
    BY <1>1 DEF FeedShape
  <2> QED BY <2>1, <1>1 DEF Event
<1> HIDE DEF r
<1>6. Len(r) \in Nat /\ DOMAIN r = 1..Len(r)
  BY <1>2
<1>7. /\ q' \in Seq(Event) /\ Len(q') = Len(r) + 1 /\ DOMAIN q' = 1..(Len(r) + 1)
      /\ \A k \in 1..Len(r) : q'[k] = r[k]
      /\ q'[Len(r) + 1] = new
  BY <1>2, <1>3, <1>4, <1>6
<1>8. \A k \in DOMAIN q' :
        \/ k \in 1..Len(r) /\ k + d \in DOMAIN q /\ q'[k] = q[k + d]
        \/ k = Len(r) + 1 /\ q'[k] = new
  <2> SUFFICES ASSUME NEW k \in 1..(Len(r) + 1), ~(k = Len(r) + 1)
               PROVE  k \in 1..Len(r) /\ k + d \in DOMAIN q /\ q'[k] = q[k + d]
    BY <1>7
  <2>1. k \in 1..Len(r)
    BY <1>6
  <2> QED BY <2>1, <1>2, <1>7
<1>9. new.id = arrived + 1
  OBVIOUS
<1> HIDE DEF new
<1>10. FeedShape'
  <2>1. Sorted'
    <3> SUFFICES ASSUME NEW i \in DOMAIN q', NEW j \in DOMAIN q', i < j
                 PROVE  q'[i].id < q'[j].id
      BY DEF Sorted
    <3>1. i \in 1..Len(r) /\ i + d \in DOMAIN q /\ q'[i] = q[i + d]
      BY <1>6, <1>7, <1>8
    <3>2. CASE j \in 1..Len(r) /\ j + d \in DOMAIN q /\ q'[j] = q[j + d]
      BY <3>1, <3>2, <1>1, <1>6, i + d < j + d DEF Sorted
    <3>3. CASE q'[j] = new
      BY <3>1, <3>3, <1>1, <1>5, <1>9
    <3> QED BY <3>2, <3>3, <1>8
  <2>2. \A i \in DOMAIN q' : q'[i].id <= arrived'
    <3> SUFFICES ASSUME NEW i \in DOMAIN q' PROVE q'[i].id <= arrived + 1
      BY <1>3
    <3>1. CASE i + d \in DOMAIN q /\ q'[i] = q[i + d]
      BY <3>1, <1>1, <1>5
    <3>2. CASE q'[i] = new
      BY <3>2, <1>1, <1>9
    <3> QED BY <3>1, <3>2, <1>8
  <2>3. \A i \in DOMAIN handed : handed[i].id <= arrived + 1
    <3> SUFFICES ASSUME NEW i \in DOMAIN handed PROVE handed[i].id <= arrived + 1
      OBVIOUS
    <3>1. handed[i].id <= arrived /\ handed[i] \in Event
      BY DEF FeedShape
    <3>2. handed[i].id \in Nat
      BY <3>1 DEF Event
    <3> QED BY <3>1, <3>2, <1>1
  <2>4. cleared \subseteq 1..(arrived + 1)
    BY <1>1 DEF FeedShape
  <2>5. arrived' \in 0..MaxArrivals
    BY <1>1, <1>3
  <2>6. Len(q') <= Cap
    BY <1>1, <1>2, <1>6, <1>7
  <2> QED BY <2>1, <2>2, <2>3, <2>4, <2>5, <2>6, <1>3, <1>7 DEF FeedShape
<1>11. arrived + 1 \notin cleared
  BY <1>1 DEF FeedShape
<1>12. \A i \in DOMAIN handed : handed[i].id \in Nat /\ handed[i].id < arrived + 1
  <2> SUFFICES ASSUME NEW i \in DOMAIN handed
               PROVE  handed[i].id \in Nat /\ handed[i].id < arrived + 1
    OBVIOUS
  <2>1. handed[i].id <= arrived /\ handed[i] \in Event
    BY DEF FeedShape
  <2> QED BY <2>1, <1>1 DEF Event
<1>13. Apart'
  <2>1. \A i \in DOMAIN q' : q'[i].id \notin cleared
    BY <1>8, <1>9, <1>11 DEF Apart
  <2>2. ASSUME NEW i \in DOMAIN handed, NEW j \in DOMAIN q'
        PROVE  handed[i].id # q'[j].id
    <3>1. CASE j + d \in DOMAIN q /\ q'[j] = q[j + d]
      BY <3>1 DEF Apart
    <3>2. CASE q'[j] = new
      BY <3>2, <1>9, <1>12, <1>1
    <3> QED BY <3>1, <3>2, <1>8
  <2> QED BY <2>1, <2>2, <1>3 DEF Apart
<1>14. InTurn'
  <2>1. ASSUME NEW i \in DOMAIN handed, NEW j \in DOMAIN q',
               handed[i].type = q'[j].type
        PROVE  handed[i].id < q'[j].id
    <3>1. CASE j + d \in DOMAIN q /\ q'[j] = q[j + d]
      BY <2>1, <3>1 DEF InTurn
    <3>2. CASE q'[j] = new
      BY <3>2, <1>9, <1>12, <1>1
    <3> QED BY <3>1, <3>2, <1>8
  <2> QED BY <2>1, <1>3 DEF InTurn
<1>15. LostOnlyToNewer'
  <2> DEFINE Kept == InBuffer' \cup HandedIds' \cup cleared'
  <2> SUFFICES ASSUME NEW id \in 1..(arrived + 1)
               PROVE  id \in Kept \/ arrived + 1 >= id + Cap
    BY <1>3 DEF LostOnlyToNewer
  <2>1. ASSUME NEW k \in DOMAIN q' PROVE q'[k].id \in InBuffer'
    BY DEF InBuffer, IdsAt
  <2>2. CASE id = arrived + 1
    <3>1. Len(r) + 1 \in DOMAIN q'
      BY <1>6, <1>7
    <3> QED BY <3>1, <2>1, <2>2, <1>7, <1>9
  <2>3. CASE id \in HandedIds \cup cleared
    BY <2>3, <1>3 DEF HandedIds
  <2>4. CASE id # arrived + 1 /\ id \notin InBuffer \cup HandedIds \cup cleared
    <3>1. id \in 1..arrived
      BY <2>4, <1>1
    <3>2. arrived >= id + Cap
      BY <3>1, <2>4 DEF LostOnlyToNewer
    <3> QED BY <3>1, <3>2, <1>1
  <2>5. CASE id \in InBuffer
    <3>1. PICK p \in DOMAIN q : id = q[p].id
      BY <2>5 DEF InBuffer, IdsAt
    <3>2. p \in 1..Len(q)
      BY <1>1
    <3>3. CASE p - d >= 1
      <4>1. p - d \in 1..Len(r) /\ (p - d) + d = p
        BY <3>2, <3>3, <1>1, <1>2
      <4>2. p - d \in DOMAIN q' /\ q'[p - d] = q[p]
        BY SMTT(60), <4>1, <1>2, <1>6, <1>7
      <4> QED BY <4>2, <3>1, <2>1
    <3>4. CASE ~(p - d >= 1)
      <4>1. p = 1 /\ d = 1 /\ Len(q) = Cap
        BY <3>2, <3>4, <1>2
      <4> DEFINE f == [k \in 1..Cap |-> q[k].id]
      <4>2. DOMAIN q = 1..Cap
        BY <4>1, <1>1
      <4>3. f \in [1..Cap -> Nat]
        BY <4>2, <1>5
      <4>4. Increasing(f)
        BY <4>2, <1>1 DEF Sorted, Increasing
      <4>5. f[1] = id /\ f[Cap] <= arrived /\ f[Cap] \in Nat
        BY <4>1, <4>2, <3>1, <1>1, <1>5
      <4> HIDE DEF f
      <4>6. 1 \in 1..Cap /\ Cap \in 1..Cap
        BY <1>1
      <4>7. f[Cap] - f[1] >= Cap - 1
        BY <4>3, <4>4, <4>6, <1>1, IncreasesByOne
      <4> QED BY <4>5, <4>7, <1>1
    <3> QED BY <3>3, <3>4
  <2> QED BY <2>2, <2>3, <2>4, <2>5
<1> QED BY <1>10, <1>13, <1>14, <1>15

LEMMA ClearKeeps ==
  ASSUME FeedInv, Clear
  PROVE  FeedInv'
<1>1. /\ cleared' = cleared \cup InBuffer /\ q' = <<>>
      /\ UNCHANGED <<arrived, handed>>
  BY DEF Clear, InBuffer
<1>2. \A i \in DOMAIN q : q[i].id \in 1..arrived
  <2> SUFFICES ASSUME NEW i \in DOMAIN q PROVE q[i].id \in 1..arrived
    OBVIOUS
  <2>1. q[i] \in Event /\ q[i].id <= arrived /\ arrived \in Nat
    BY FeedAssumption DEF FeedInv, FeedShape
  <2> QED BY <2>1, FeedAssumption DEF Event
<1>3. InBuffer \subseteq 1..arrived
  BY <1>2 DEF InBuffer, IdsAt
<1>4. DOMAIN q' = {} /\ q' \in Seq(Event) /\ Len(q') = 0
  BY <1>1
<1>5. FeedShape'
  BY <1>1, <1>3, <1>4, FeedAssumption DEF FeedInv, FeedShape, Sorted
<1>6. Apart'
  BY <1>1, <1>4 DEF FeedInv, Apart, InBuffer, IdsAt
<1>7. InTurn'
  BY <1>1, <1>4 DEF FeedInv, InTurn
<1>8. LostOnlyToNewer'
  BY <1>1 DEF FeedInv, LostOnlyToNewer, HandedIds
<1> QED BY <1>5, <1>6, <1>7, <1>8 DEF FeedInv

LEMMA FeedInvStays ==
  ASSUME FeedInv, UNCHANGED feed
  PROVE  FeedInv'
BY DEF feed, FeedInv, FeedShape, Sorted, Apart, InTurn, LostOnlyToNewer, InBuffer,
       HandedIds, IdsAt

------------------------------------------------------------------------------
(* The calls.                                                              *)
Text == Token \cup {NoToken}

MainShape ==
  /\ transport \in {"stdio", "http"} /\ process \in {"up", "ended"}
  /\ listening \in BOOLEAN /\ signalled \in BOOLEAN /\ mix \in Mixes

SocketShape ==
  /\ ws \in {"off", "dial", "pump", "wait", "done"}
  /\ backoff \in MinBackoff..MaxBackoff
  /\ conns \in 0..MaxConns /\ waiters \subseteq 1..conns /\ closed \in BOOLEAN

CallShape ==
  /\ active \in Text /\ settled \subseteq Text
  /\ call \in [Call -> CallState]
  /\ \A c \in Call : call[c].pc = "sent" => call[c].kind \in {"request", "reply"}
  /\ \A c \in Call : call[c].pc = "remaining" => call[c].kind = "poll"

(* What is active has been told to every call that may look at it: the     *)
(* ones that select an instance meanwhile, and the ones that have.         *)
ActiveIsFound ==
  /\ active \in settled \cup Selected
  /\ \A c \in InProgress : call[c].kind # "use" => active \in call[c].found
  /\ \A c \in InProgress :
       call[c].kind = "use" /\ call[c].pc = "answer" =>
         active \in call[c].found \cup {call[c].token}
  /\ \A c, d \in InProgress :
       c # d /\ call[d].kind = "use" => call[d].token \in call[c].found
  /\ \A c \in Call : call[c].used \subseteq call[c].found

(* Under stdio there is one call at a time, and nobody selects another     *)
(* instance under it.                                                      *)
OneByOne ==
  /\ \A c \in Call : call[c].kind \notin {"request", "reply"} => call[c].used = {}
  /\ transport = "stdio" =>
       /\ \A c, d \in InProgress : c = d
       /\ \A c \in InProgress : call[c].used \subseteq {active}
       /\ \A c \in Call : \E t : call[c].used \subseteq {t}

CallInv == CallShape /\ ActiveIsFound /\ OneByOne

LEMMA InitCalls == Init => CallInv
<1> SUFFICES ASSUME Init PROVE CallInv
  OBVIOUS
<1>1. \A c \in Call : call[c] = NoCall
  BY DEF Init
<1>2. NoCall \in CallState
  BY DEF NoCall, CallState, Kind
<1>3. InProgress = {} /\ Selected = {}
  BY <1>1 DEF InProgress, NoCall, Selected
<1>4. CallShape
  BY <1>1, <1>2 DEF Init, CallShape, NoCall, Text
<1>5. ActiveIsFound
  BY <1>1, <1>3 DEF Init, ActiveIsFound, NoCall
<1>6. OneByOne
  BY <1>1, <1>3 DEF OneByOne, NoCall
<1> QED BY <1>4, <1>5, <1>6 DEF CallInv

LEMMA CallInvStays ==
  ASSUME CallInv, UNCHANGED <<session, call, transport>>
  PROVE  CallInv'
BY DEF session, CallInv, CallShape, ActiveIsFound, OneByOne, InProgress, Selected

(* A call goes on, and nothing changes of what others may see of it.       *)
GoesOn(c) ==
  /\ \E n \in CallState :
       /\ call' = [call EXCEPT ![c] = n]
       /\ n.kind = call[c].kind /\ n.token = call[c].token
       /\ n.found = call[c].found /\ n.used = call[c].used
       /\ call[c].pc \notin {"idle", "end"} /\ n.pc \notin {"idle", "end"}
       /\ n.pc = "answer" /\ n.kind = "use" => call[c].pc = "answer"
       /\ n.pc = "sent" => n.kind \in {"request", "reply"}
       /\ n.pc = "remaining" => n.kind = "poll"
  /\ UNCHANGED <<session, transport>>

LEMMA GoesOnKeeps ==
  ASSUME CallInv, NEW c \in Call, GoesOn(c)
  PROVE  CallInv'
<1>1. PICK n \in CallState :
        /\ call' = [call EXCEPT ![c] = n]
        /\ n.kind = call[c].kind /\ n.token = call[c].token
        /\ n.found = call[c].found /\ n.used = call[c].used
        /\ call[c].pc \notin {"idle", "end"} /\ n.pc \notin {"idle", "end"}
        /\ n.pc = "answer" /\ n.kind = "use" => call[c].pc = "answer"
        /\ n.pc = "sent" => n.kind \in {"request", "reply"}
        /\ n.pc = "remaining" => n.kind = "poll"
  BY DEF GoesOn
<1>2. UNCHANGED <<active, settled, transport>>
  BY DEF GoesOn, session
<1>3. call \in [Call -> CallState]
  BY DEF CallInv, CallShape
<1>4. call'[c] = n /\ \A d \in Call : d # c => call'[d] = call[d]
  BY <1>1, <1>3
<1>5. \A d \in Call :
        /\ call'[d].kind = call[d].kind /\ call'[d].token = call[d].token
        /\ call'[d].found = call[d].found /\ call'[d].used = call[d].used
        /\ call'[d].pc \in {"idle", "end"} <=> call[d].pc \in {"idle", "end"}
        /\ call'[d].pc = "answer" /\ call'[d].kind = "use" => call[d].pc = "answer"
  BY <1>1, <1>4
<1>6. CallShape'
  <2>1. call' \in [Call -> CallState]
    BY <1>1, <1>3
  <2>2. ASSUME NEW d \in Call
        PROVE  /\ call'[d].pc = "sent" => call'[d].kind \in {"request", "reply"}
               /\ call'[d].pc = "remaining" => call'[d].kind = "poll"
    BY <1>1, <1>4 DEF CallInv, CallShape
  <2> QED BY <2>1, <2>2, <1>2 DEF CallInv, CallShape
<1>7. InProgress' = InProgress
  BY <1>5 DEF InProgress
<1>8. Selected' = Selected
  BY <1>5, <1>7 DEF Selected, InProgress
<1>9. ActiveIsFound'
  <2> USE DEF CallInv, ActiveIsFound
  <2>1. active' \in settled' \cup Selected'
    BY <1>2, <1>8
  <2>2. \A d \in InProgress' : call'[d].kind # "use" => active' \in call'[d].found
    BY <1>2, <1>5, <1>7 DEF InProgress
  <2>3. \A d \in InProgress' :
          call'[d].kind = "use" /\ call'[d].pc = "answer" =>
            active' \in call'[d].found \cup {call'[d].token}
    BY <1>2, <1>5, <1>7 DEF InProgress
  <2>4. \A d, e \in InProgress' :
          d # e /\ call'[e].kind = "use" => call'[e].token \in call'[d].found
    BY <1>5, <1>7 DEF InProgress
  <2>5. \A d \in Call : call'[d].used \subseteq call'[d].found
    BY <1>5
  <2> QED BY <2>1, <2>2, <2>3, <2>4, <2>5
<1>10. OneByOne'
  BY <1>2, <1>5, <1>7 DEF CallInv, OneByOne, InProgress
<1> QED BY <1>6, <1>9, <1>10 DEF CallInv

LEMMA StepGoesOn ==
  ASSUME CallInv, NEW c \in Call,
         \/ EventsPoll(c) \/ EventsRemaining(c) \/ EventsClear(c)
         \/ NotMade(c) \/ Do(c) \/ Leave(c)
  PROVE  GoesOn(c)
<1> DEFINE Put(n) == call' = [call EXCEPT ![c] = n]
           Fits(n) ==
             /\ n \in CallState
             /\ n.kind = call[c].kind /\ n.token = call[c].token
             /\ n.found = call[c].found /\ n.used = call[c].used
<1>0. call \in [Call -> CallState] /\ call[c] \in CallState
  BY DEF CallInv, CallShape
<1>1. ASSUME NEW pc \in {"remaining", "answer"}
      PROVE  Fits([call[c] EXCEPT !.pc = pc])
  BY <1>0 DEF CallState
<1>2. ASSUME NEW result \in {"ok", "error", "lost"}
      PROVE  /\ Fits([call[c] EXCEPT !.pc = "answer", !.result = result])
             /\ [call[c] EXCEPT !.pc = "answer", !.result = result].pc = "answer"
  BY <1>0 DEF CallState
<1>3. ASSUME NEW step \in 1..3
      PROVE  /\ Fits([call[c] EXCEPT !.step = step])
             /\ Fits([call[c] EXCEPT !.pc = "run", !.step = step])
  BY <1>0 DEF CallState
<1>4. Fits([call[c] EXCEPT !.result = "lost"])
  BY <1>0 DEF CallState
<1>5. ASSUME NEW result \in {"ok", "error"}, Finish(c, result)
      PROVE  \E r \in {"ok", "error", "lost"} :
               Put([call[c] EXCEPT !.pc = "answer", !.result = r])
  <2>1. CASE call[c].result = "lost"
    BY <1>5, <2>1 DEF Finish
  <2>2. CASE call[c].result # "lost"
    BY <1>5, <2>2 DEF Finish
  <2> QED BY <2>1, <2>2
<1>6. UNCHANGED <<session, transport>>
  BY DEF EventsPoll, EventsRemaining, EventsClear, NotMade, Do, Leave, main, session
<1>7. ASSUME NEW result \in {"ok", "error"}, Finish(c, result),
             call[c].pc \notin {"idle", "end"}, call[c].kind # "use"
      PROVE  GoesOn(c)
  <2>1. PICK r \in {"ok", "error", "lost"} :
          Put([call[c] EXCEPT !.pc = "answer", !.result = r])
    BY <1>5, <1>7
  <2> DEFINE n == [call[c] EXCEPT !.pc = "answer", !.result = r]
  <2>2. Fits(n) /\ n.pc = "answer"
    BY <1>2
  <2>3. Put(n)
    BY <2>1
  <2> HIDE DEF n
  <2> QED BY <1>6, <1>7, <2>2, <2>3 DEF GoesOn
<1>8. CASE EventsPoll(c)
  <2> DEFINE n == [call[c] EXCEPT !.pc = "remaining"]
  <2>1. Put(n) /\ call[c].pc = "run" /\ call[c].kind = "poll"
    BY <1>8 DEF EventsPoll, Running, GoTo
  <2>2. Fits(n) /\ n.pc = "remaining"
    BY <1>0, <1>1 DEF CallState
  <2> HIDE DEF n
  <2> QED BY <1>6, <2>1, <2>2 DEF GoesOn
<1>9. CASE EventsRemaining(c)
  <2>1. Finish(c, "ok") /\ call[c].pc = "remaining" /\ call[c].kind = "poll"
    BY <1>9 DEF EventsRemaining, CallInv, CallShape
  <2> QED BY <2>1, <1>7
<1>10. CASE EventsClear(c)
  <2>1. Finish(c, "ok") /\ call[c].pc = "run" /\ call[c].kind = "clear"
    BY <1>10 DEF EventsClear, Running
  <2> QED BY <2>1, <1>7
<1>11. ASSUME NEW step \in 1..3, call[c].kind = "reply",
              call[c].pc \in {"run", "sent"},
              \/ call' = [call EXCEPT ![c].pc = "run", ![c].step = step]
              \/ call' = [call EXCEPT ![c].step = step] /\ call[c].pc = "run"
       PROVE  GoesOn(c)
  <2> DEFINE n == [call[c] EXCEPT !.pc = "run", !.step = step]
             m == [call[c] EXCEPT !.step = step]
  <2>1. Fits(n) /\ n.pc = "run" /\ Fits(m) /\ m.pc = call[c].pc
    BY <1>0, <1>3, ZenonT(60) DEF CallState
  <2>2. Put(n) \/ (Put(m) /\ call[c].pc = "run")
    BY <1>11
  <2> HIDE DEF n, m
  <2>3. CASE Put(n)
    BY <1>6, <1>11, <2>1, <2>3 DEF GoesOn
  <2>4. CASE Put(m) /\ call[c].pc = "run"
    BY <1>6, <1>11, <2>1, <2>4 DEF GoesOn
  <2> QED BY <2>2, <2>3, <2>4
<1>12. CASE NotMade(c)
  <2>1. call[c].pc = "run" /\ call[c].kind \in {"request", "reply"}
    BY <1>12 DEF NotMade, IsRequest, Running
  <2>2. \/ call' = [call EXCEPT ![c].step = 3] /\ call[c].kind = "reply"
        \/ Finish(c, "error")
    BY <1>12 DEF NotMade
  <2> QED BY <2>1, <2>2, <1>7, <1>11
<1>13. CASE Do(c)
  <2>1. call[c].pc = "sent" /\ call[c].kind \in {"request", "reply"}
    BY <1>13 DEF Do, CallInv, CallShape
  <2>2. call[c].step \in 1..3
    BY <1>0 DEF CallState
  <2>3. \/ \E step \in 1..3 : /\ call[c].kind = "reply"
                              /\ call' = [call EXCEPT ![c].pc = "run", ![c].step = step]
        \/ Finish(c, "ok") \/ Finish(c, "error")
    <3>1. CASE call[c].kind = "reply" /\ call[c].step < 3
                /\ call' = [call EXCEPT ![c].pc = "run", ![c].step = @ + 1]
      <4>1. call[c].step + 1 \in 1..3
        BY <2>2, <3>1
      <4>2. call' = [call EXCEPT ![c].pc = "run", ![c].step = call[c].step + 1]
        BY <3>1
      <4> QED BY <3>1, <4>1, <4>2
    <3>2. CASE call[c].kind = "reply"
                /\ call' = [call EXCEPT ![c].pc = "run", ![c].step = 3]
      BY <3>2
    <3> QED BY <1>13, <3>1, <3>2 DEF Do
  <2> QED BY <2>1, <2>3, <1>7, <1>11
<1>14. CASE Leave(c)
  <2> DEFINE n == [call[c] EXCEPT !.result = "lost"]
  <2>1. Put(n) /\ call[c].pc \notin {"idle", "end"}
    BY <1>14 DEF Leave, InProgress
  <2>2. Fits(n) /\ n.pc = call[c].pc
    BY <1>0, <1>4 DEF CallState
  <2>3. /\ call[c].pc = "sent" => call[c].kind \in {"request", "reply"}
        /\ call[c].pc = "remaining" => call[c].kind = "poll"
    BY DEF CallInv, CallShape
  <2> HIDE DEF n
  <2> QED BY <1>6, <2>1, <2>2, <2>3 DEF GoesOn
<1> QED BY <1>8, <1>9, <1>10, <1>12, <1>13, <1>14

LEMMA UseKeeps ==
  ASSUME CallInv, NEW c \in Call, UseInstance(c)
  PROVE  CallInv'
<1>1. /\ call[c].pc = "run" /\ call[c].kind = "use"
      /\ active' = call[c].token /\ UNCHANGED <<settled, transport>>
  BY DEF UseInstance, Running, main
<1>2. call \in [Call -> CallState] /\ call[c] \in CallState
  BY DEF CallInv, CallShape
<1>3. PICK n \in CallState :
        /\ call' = [call EXCEPT ![c] = n]
        /\ n.kind = "use" /\ n.token = call[c].token
        /\ n.found = call[c].found /\ n.used = call[c].used /\ n.pc = "answer"
  <2> DEFINE m == [call[c] EXCEPT !.pc = "answer"]
             l == [call[c] EXCEPT !.pc = "answer", !.result = "ok"]
  <2>1. call' = [call EXCEPT ![c] = m] \/ call' = [call EXCEPT ![c] = l]
    BY <1>2 DEF UseInstance, Finish, CallState
  <2>2. m \in CallState /\ m.kind = "use" /\ m.token = call[c].token
        /\ m.found = call[c].found /\ m.used = call[c].used /\ m.pc = "answer"
    BY <1>1, <1>2 DEF CallState
  <2>3. l \in CallState /\ l.kind = "use" /\ l.token = call[c].token
        /\ l.found = call[c].found /\ l.used = call[c].used /\ l.pc = "answer"
    BY <1>1, <1>2 DEF CallState
  <2> HIDE DEF m, l
  <2> QED BY <2>1, <2>2, <2>3
<1>4. call'[c] = n /\ \A d \in Call : d # c => call'[d] = call[d]
  BY <1>2, <1>3
<1>5. \A d \in Call :
        /\ call'[d].kind = call[d].kind /\ call'[d].token = call[d].token
        /\ call'[d].found = call[d].found /\ call'[d].used = call[d].used
        /\ call'[d].pc \in {"idle", "end"} <=> call[d].pc \in {"idle", "end"}
  BY <1>1, <1>3, <1>4
<1>6. CallShape'
  <2>1. call' \in [Call -> CallState]
    BY <1>2, <1>3
  <2>2. active' \in Text
    BY <1>1, <1>2 DEF CallState, Text
  <2>3. \A d \in Call :
          /\ call'[d].pc = "sent" => call'[d].kind \in {"request", "reply"}
          /\ call'[d].pc = "remaining" => call'[d].kind = "poll"
    BY <1>3, <1>4 DEF CallInv, CallShape
  <2> QED BY <1>1, <2>1, <2>2, <2>3 DEF CallInv, CallShape
<1>7. InProgress' = InProgress /\ c \in InProgress
  BY <1>1, <1>5 DEF InProgress
<1>8. call[c].token \in Selected
  BY <1>1, <1>7 DEF Selected
<1>9. Selected' = Selected
  BY <1>5, <1>7 DEF Selected, InProgress
<1>10. \A d \in InProgress : d # c => active' \in call[d].found
  BY <1>1, <1>7 DEF CallInv, ActiveIsFound
<1>11. ActiveIsFound'
  <2>1. active' \in settled' \cup Selected'
    BY <1>1, <1>8, <1>9
  <2>2. \A d \in InProgress' : call'[d].kind # "use" => active' \in call'[d].found
    BY <1>1, <1>5, <1>7, <1>10 DEF InProgress
  <2>3. \A d \in InProgress' :
          call'[d].kind = "use" /\ call'[d].pc = "answer" =>
            active' \in call'[d].found \cup {call'[d].token}
    BY <1>1, <1>5, <1>7, <1>10 DEF InProgress
  <2>4. \A d, e \in InProgress' :
          d # e /\ call'[e].kind = "use" => call'[e].token \in call'[d].found
    BY <1>5, <1>7 DEF InProgress, CallInv, ActiveIsFound
  <2>5. \A d \in Call : call'[d].used \subseteq call'[d].found
    BY <1>5 DEF CallInv, ActiveIsFound
  <2> QED BY <2>1, <2>2, <2>3, <2>4, <2>5 DEF ActiveIsFound
<1>12. OneByOne'
  <2>1. call[c].used = {}
    BY <1>1 DEF CallInv, OneByOne
  <2> QED BY <1>1, <1>5, <1>7, <2>1 DEF CallInv, OneByOne, InProgress
<1> QED BY <1>6, <1>11, <1>12 DEF CallInv

LEMMA KeyKeeps ==
  ASSUME CallInv, NEW c \in Call, KeyFor(c)
  PROVE  CallInv'
<1>1. /\ call[c].pc = "run" /\ call[c].kind \in {"request", "reply"}
      /\ UNCHANGED <<active, settled, transport>>
  BY DEF KeyFor, IsRequest, Running, main, session
<1>2. call \in [Call -> CallState] /\ call[c] \in CallState /\ active \in Text
  BY DEF CallInv, CallShape
<1> DEFINE n == [call[c] EXCEPT !.pc = "sent", !.used = @ \cup {active}]
<1>3. /\ call' = [call EXCEPT ![c] = n] /\ n \in CallState
      /\ n.kind = call[c].kind /\ n.token = call[c].token
      /\ n.found = call[c].found /\ n.used = call[c].used \cup {active}
      /\ n.pc = "sent"
  BY <1>2 DEF KeyFor, CallState, Text
<1> HIDE DEF n
<1>4. call'[c] = n /\ \A d \in Call : d # c => call'[d] = call[d]
  BY <1>2, <1>3
<1>5. \A d \in Call :
        /\ call'[d].kind = call[d].kind /\ call'[d].token = call[d].token
        /\ call'[d].found = call[d].found
        /\ d # c => call'[d].used = call[d].used
        /\ call'[d].pc \in {"idle", "end"} <=> call[d].pc \in {"idle", "end"}
        /\ call'[d].pc = "answer" => call[d].pc = "answer"
  BY <1>1, <1>3, <1>4
<1>6. CallShape'
  <2>1. call' \in [Call -> CallState]
    BY <1>2, <1>3
  <2>2. \A d \in Call :
          /\ call'[d].pc = "sent" => call'[d].kind \in {"request", "reply"}
          /\ call'[d].pc = "remaining" => call'[d].kind = "poll"
    BY <1>1, <1>3, <1>4 DEF CallInv, CallShape
  <2> QED BY <1>1, <2>1, <2>2 DEF CallInv, CallShape
<1>7. InProgress' = InProgress /\ c \in InProgress
  BY <1>1, <1>5 DEF InProgress
<1>8. Selected' = Selected
  BY <1>5, <1>7 DEF Selected, InProgress
<1>9. active \in call[c].found
  BY <1>1, <1>7 DEF CallInv, ActiveIsFound
<1>10. ActiveIsFound'
  <2> USE DEF CallInv, ActiveIsFound
  <2>1. active' \in settled' \cup Selected'
    BY <1>1, <1>8
  <2>2. \A d \in InProgress' : call'[d].kind # "use" => active' \in call'[d].found
    BY <1>1, <1>5, <1>7 DEF InProgress
  <2>3. \A d \in InProgress' :
          call'[d].kind = "use" /\ call'[d].pc = "answer" =>
            active' \in call'[d].found \cup {call'[d].token}
    BY <1>1, <1>5, <1>7 DEF InProgress
  <2>4. \A d, e \in InProgress' :
          d # e /\ call'[e].kind = "use" => call'[e].token \in call'[d].found
    BY <1>5, <1>7 DEF InProgress
  <2>5. \A d \in Call : call'[d].used \subseteq call'[d].found
    BY <1>3, <1>4, <1>5, <1>9
  <2> QED BY <2>1, <2>2, <2>3, <2>4, <2>5
<1>11. OneByOne'
  <2> USE DEF CallInv, OneByOne
  <2>1. \A d \in Call :
          call'[d].kind \notin {"request", "reply"} => call'[d].used = {}
    BY <1>1, <1>5
  <2>2. ASSUME transport = "stdio"
        PROVE  /\ \A d, e \in InProgress' : d = e
               /\ \A d \in InProgress' : call'[d].used \subseteq {active'}
               /\ \A d \in Call : \E t : call'[d].used \subseteq {t}
    <3>1. call[c].used \subseteq {active}
      BY <1>7, <2>2
    <3>2. call'[c].used \subseteq {active}
      BY <1>3, <1>4, <3>1
    <3>3. \A d \in InProgress' : d = c
      BY <1>7, <2>2
    <3> QED BY <1>1, <1>5, <1>7, <2>2, <3>2, <3>3
  <2> QED BY <1>1, <2>1, <2>2
<1> QED BY <1>6, <1>10, <1>11 DEF CallInv

LEMMA AnswerKeeps ==
  ASSUME CallInv, NEW c \in Call, Answer(c)
  PROVE  CallInv'
<1>1. /\ call[c].pc = "answer" /\ UNCHANGED <<active, transport>>
      /\ call' = [call EXCEPT ![c].pc = "end"]
      /\ settled' = IF call[c].kind = "use"
                      THEN {call[c].token} \cup call[c].found ELSE settled
  BY DEF Answer, GoTo, main
<1>2. call \in [Call -> CallState] /\ call[c] \in CallState
  BY DEF CallInv, CallShape
<1> DEFINE n == [call[c] EXCEPT !.pc = "end"]
<1>3. /\ call' = [call EXCEPT ![c] = n] /\ n \in CallState
      /\ n.kind = call[c].kind /\ n.token = call[c].token
      /\ n.found = call[c].found /\ n.used = call[c].used /\ n.pc = "end"
  BY <1>1, <1>2 DEF CallState
<1> HIDE DEF n
<1>4. call'[c] = n /\ \A d \in Call : d # c => call'[d] = call[d]
  BY <1>2, <1>3
<1>5. \A d \in Call :
        /\ call'[d].kind = call[d].kind /\ call'[d].token = call[d].token
        /\ call'[d].found = call[d].found /\ call'[d].used = call[d].used
  BY <1>3, <1>4
<1>6. InProgress' = InProgress \ {c} /\ c \in InProgress
  BY <1>1, <1>3, <1>4 DEF InProgress
<1>7. \A d \in InProgress' : d \in InProgress /\ call'[d] = call[d] /\ d \in Call
  BY <1>4, <1>6 DEF InProgress
<1>8. call[c].kind # "use" => Selected' = Selected
  <2> SUFFICES ASSUME call[c].kind # "use"
               PROVE  {d \in InProgress' : call'[d].kind = "use"}
                        = {d \in InProgress : call[d].kind = "use"}
    BY <1>5 DEF Selected, InProgress
  <2> QED BY <1>5, <1>6 DEF InProgress
<1>9. CallShape'
  <2>1. call' \in [Call -> CallState]
    BY <1>2, <1>3
  <2>2. \A d \in Call :
          /\ call'[d].pc = "sent" => call'[d].kind \in {"request", "reply"}
          /\ call'[d].pc = "remaining" => call'[d].kind = "poll"
    BY <1>3, <1>4 DEF CallInv, CallShape
  <2>3. settled' \subseteq Text
    BY <1>1, <1>2 DEF CallInv, CallShape, CallState, Text
  <2> QED BY <1>1, <2>1, <2>2, <2>3 DEF CallInv, CallShape
<1>10. ActiveIsFound'
  <2> USE DEF CallInv, ActiveIsFound
  <2>1. active' \in settled' \cup Selected'
    BY <1>1, <1>6, <1>8
  <2>2. \A d \in InProgress' : call'[d].kind # "use" => active' \in call'[d].found
    BY <1>1, <1>7
  <2>3. \A d \in InProgress' :
          call'[d].kind = "use" /\ call'[d].pc = "answer" =>
            active' \in call'[d].found \cup {call'[d].token}
    BY <1>1, <1>7
  <2>4. \A d, e \in InProgress' :
          d # e /\ call'[e].kind = "use" => call'[e].token \in call'[d].found
    BY <1>7
  <2>5. \A d \in Call : call'[d].used \subseteq call'[d].found
    BY <1>5
  <2> QED BY <2>1, <2>2, <2>3, <2>4, <2>5
<1>11. OneByOne'
  BY <1>1, <1>5, <1>6 DEF CallInv, OneByOne
<1> QED BY <1>9, <1>10, <1>11 DEF CallInv

LEMMA BeginKeeps ==
  ASSUME CallInv, NEW c \in Call, NEW new \in CallState, new.used = {},
         Begin(c, new)
  PROVE  CallInv'
<1> DEFINE F == Selected \cup (IF new.kind = "use" THEN {} ELSE settled)
           n == [new EXCEPT !.pc = "run", !.found = F]
           U == IF new.kind = "use" THEN {new.token} ELSE {}
<1>1. /\ call[c].pc = "idle" /\ UNCHANGED <<active, settled, transport>>
      /\ transport = "stdio" => InProgress = {}
  <2>1. transport \in {"stdio"} => transport # "http"
    OBVIOUS
  <2> QED BY <2>1 DEF Begin, main, session
<1>2. call \in [Call -> CallState]
  BY DEF CallInv, CallShape
<1>3. c \notin InProgress
  BY <1>1 DEF InProgress
<1>4. Selected \subseteq Text /\ settled \subseteq Text
  <2>1. \A d \in Call : call[d].token \in Text
    BY <1>2 DEF CallState, Text
  <2> QED BY <2>1 DEF Selected, InProgress, CallInv, CallShape
<1>5. /\ n \in CallState /\ n.kind = new.kind /\ n.token = new.token
      /\ n.found = F /\ n.used = {} /\ n.pc = "run"
  BY <1>4 DEF CallState, Text
<1>6. call' = [d \in Call |->
        IF d = c THEN n
        ELSE IF d \in InProgress
          THEN [call[d] EXCEPT !.found = @ \cup U] ELSE call[d]]
  BY DEF Begin
<1> HIDE DEF n
<1>7. ASSUME NEW d \in Call
      PROVE  /\ [call[d] EXCEPT !.found = @ \cup U] \in CallState
             /\ [call[d] EXCEPT !.found = @ \cup U].kind = call[d].kind
             /\ [call[d] EXCEPT !.found = @ \cup U].token = call[d].token
             /\ [call[d] EXCEPT !.found = @ \cup U].used = call[d].used
             /\ [call[d] EXCEPT !.found = @ \cup U].pc = call[d].pc
             /\ [call[d] EXCEPT !.found = @ \cup U].found = call[d].found \cup U
  <2>1. call[d] \in CallState /\ U \subseteq Text
    BY <1>2 DEF CallState, Text
  <2> HIDE DEF U
  <2> QED BY <2>1 DEF CallState, Text
<1>8. call'[c] = n
  BY <1>6
<1>9. ASSUME NEW d \in Call, d # c
      PROVE  /\ call'[d].kind = call[d].kind /\ call'[d].token = call[d].token
             /\ call'[d].used = call[d].used /\ call'[d].pc = call[d].pc
             /\ call'[d].found
                  = IF d \in InProgress THEN call[d].found \cup U ELSE call[d].found
             /\ call'[d] \in CallState
  <2> HIDE DEF U
  <2>1. CASE d \in InProgress
    <3>1. call'[d] = [call[d] EXCEPT !.found = @ \cup U]
      BY <1>6, <1>9, <2>1
    <3> QED BY <3>1, <1>7, <2>1
  <2>2. CASE d \notin InProgress
    BY <1>2, <1>6, <1>9, <2>2
  <2> QED BY <2>1, <2>2
<1>10. InProgress' = InProgress \cup {c}
  BY <1>5, <1>8, <1>9 DEF InProgress
<1>11. \A d \in InProgress : d \in Call /\ d # c
  BY <1>3 DEF InProgress
<1>12. Selected' = Selected \cup U
  <2> DEFINE A == {d \in InProgress : call[d].kind = "use"}
             B == {d \in InProgress' : call'[d].kind = "use"}
  <2>1. B = A \cup (IF new.kind = "use" THEN {c} ELSE {})
    BY <1>5, <1>8, <1>9, <1>10, <1>11
  <2>2. \A d \in A : call'[d].token = call[d].token
    BY <1>9, <1>11
  <2>3. Selected = {call[d].token : d \in A} /\ Selected' = {call'[d].token : d \in B}
    BY DEF Selected
  <2>4. call'[c].token = new.token
    BY <1>5, <1>8
  <2> HIDE DEF A, B
  <2>5. CASE new.kind = "use"
    BY <2>1, <2>2, <2>3, <2>4, <2>5
  <2>6. CASE new.kind # "use"
    BY <2>1, <2>2, <2>3, <2>6
  <2> QED BY <2>5, <2>6
<1>13. CallShape'
  <2>1. DOMAIN call' = Call /\ call' = [d \in Call |-> call'[d]]
    BY <1>6
  <2>2. call' \in [Call -> CallState]
    BY <2>1, <1>5, <1>8, <1>9
  <2>3. \A d \in Call :
          /\ call'[d].pc = "sent" => call'[d].kind \in {"request", "reply"}
          /\ call'[d].pc = "remaining" => call'[d].kind = "poll"
    BY <1>5, <1>8, <1>9 DEF CallInv, CallShape
  <2> QED BY <1>1, <2>2, <2>3 DEF CallInv, CallShape
<1>14. ActiveIsFound'
  <2> USE DEF CallInv, ActiveIsFound
  <2>1. active' \in settled' \cup Selected'
    BY <1>1, <1>12
  <2>2. \A d \in InProgress' : call'[d].kind # "use" => active' \in call'[d].found
    BY <1>1, <1>5, <1>8, <1>9, <1>10, <1>11
  <2>3. \A d \in InProgress' :
          call'[d].kind = "use" /\ call'[d].pc = "answer" =>
            active' \in call'[d].found \cup {call'[d].token}
    BY <1>1, <1>5, <1>8, <1>9, <1>10, <1>11, ZenonT(60)
  <2>4. ASSUME NEW d \in InProgress', NEW e \in InProgress',
               d # e, call'[e].kind = "use"
        PROVE  call'[e].token \in call'[d].found
    <3>1. CASE d = c
      <4>1. e \in InProgress /\ call'[e].token = call[e].token /\ call[e].kind = "use"
        BY <2>4, <3>1, <1>9, <1>10, <1>11
      <4>2. call[e].token \in Selected
        BY <4>1 DEF Selected
      <4> QED BY <3>1, <4>1, <4>2, <1>5, <1>8
    <3>2. CASE e = c
      BY <2>4, <3>2, <1>5, <1>8, <1>9, <1>10, <1>11
    <3>3. CASE d # c /\ e # c
      <4>1. d \in InProgress /\ e \in InProgress /\ d \in Call /\ e \in Call
        BY <2>4, <3>3, <1>10, <1>11
      <4>2. call[e].kind = "use" /\ call'[e].token = call[e].token
            /\ call'[d].found = call[d].found \cup U
        BY <2>4, <3>3, <4>1, <1>9
      <4>3. call[e].token \in call[d].found
        BY <2>4, <4>1, <4>2
      <4> QED BY <4>2, <4>3
    <3> QED BY <3>1, <3>2, <3>3
  <2>5. \A d \in Call : call'[d].used \subseteq call'[d].found
    BY <1>5, <1>8, <1>9
  <2> QED BY <2>1, <2>2, <2>3, <2>4, <2>5
<1>15. OneByOne'
  <2> USE DEF CallInv, OneByOne
  <2>1. \A d \in Call :
          call'[d].kind \notin {"request", "reply"} => call'[d].used = {}
    BY <1>5, <1>8, <1>9
  <2>2. ASSUME transport = "stdio"
        PROVE  /\ \A d, e \in InProgress' : d = e
               /\ \A d \in InProgress' : call'[d].used \subseteq {active'}
               /\ \A d \in Call : \E t : call'[d].used \subseteq {t}
    BY <1>1, <1>5, <1>8, <1>9, <1>10, <2>2
  <2> QED BY <1>1, <2>1, <2>2
<1> QED BY <1>13, <1>14, <1>15 DEF CallInv

LEMMA ClientsKeep ==
  ASSUME CallInv, NEW c \in Call,
         BeginPoll(c) \/ BeginClear(c) \/ BeginUse(c) \/ BeginRequest(c)
  PROVE  CallInv'
<1>0. NoCall \in CallState /\ NoCall.used = {}
  BY DEF NoCall, CallState, Kind
<1>1. PICK new \in CallState : new.used = {} /\ Begin(c, new)
  <2>1. CASE BeginPoll(c)
    <3>1. PICK f \in EventType \cup {"any"}, l \in Limit :
            Begin(c, [NoCall EXCEPT !.kind = "poll", !.filter = f, !.limit = l])
      BY <2>1 DEF BeginPoll
    <3> DEFINE n == [NoCall EXCEPT !.kind = "poll", !.filter = f, !.limit = l]
    <3>2. l \in Nat
      BY DEF Limit
    <3>3. n \in CallState /\ n.used = {}
      BY <1>0, <3>2 DEF CallState, Kind
    <3> QED BY <3>1, <3>3
  <2>2. CASE BeginClear(c)
    <3> DEFINE n == [NoCall EXCEPT !.kind = "clear"]
    <3>1. n \in CallState /\ n.used = {}
      BY <1>0 DEF CallState, Kind
    <3> QED BY <2>2, <3>1 DEF BeginClear
  <2>3. CASE BeginUse(c)
    <3>1. PICK t \in Token : Begin(c, [NoCall EXCEPT !.kind = "use", !.token = t])
      BY <2>3 DEF BeginUse
    <3> DEFINE n == [NoCall EXCEPT !.kind = "use", !.token = t]
    <3>2. n \in CallState /\ n.used = {}
      BY <1>0 DEF CallState, Kind
    <3> QED BY <3>1, <3>2
  <2>4. CASE BeginRequest(c)
    <3>1. PICK kind \in {"request", "reply"} : Begin(c, [NoCall EXCEPT !.kind = kind])
      BY <2>4 DEF BeginRequest
    <3> DEFINE n == [NoCall EXCEPT !.kind = kind]
    <3>2. n \in CallState /\ n.used = {}
      BY <1>0 DEF CallState, Kind
    <3> QED BY <3>1, <3>2
  <2> QED BY <2>1, <2>2, <2>3, <2>4
<1> QED BY <1>1, BeginKeeps

------------------------------------------------------------------------------
(* The whole.                                                              *)
IInv == MainShape /\ SocketShape /\ FeedInv /\ CallInv

LEMMA InitIInv == Init => IInv
<1> SUFFICES ASSUME Init PROVE IInv
  OBVIOUS
<1>1. MainShape
  BY DEF Init, MainShape
<1>2. SocketShape
  <2>1. ws \in {"off", "dial"}
    BY DEF Init
  <2>2. backoff \in MinBackoff..MaxBackoff
    BY FeedAssumption DEF Init
  <2>3. conns \in 0..MaxConns /\ waiters \subseteq 1..conns
    BY FeedAssumption DEF Init
  <2>4. closed \in BOOLEAN
    BY DEF Init
  <2> QED BY <2>1, <2>2, <2>3, <2>4 DEF SocketShape
<1>3. FeedInv
  <2>1. DOMAIN q = {} /\ DOMAIN handed = {} /\ Len(q) = 0
        /\ q \in Seq(Event) /\ handed \in Seq(Event)
    BY DEF Init
  <2>2. 1..arrived = {} /\ cleared = {} /\ arrived = 0
    BY DEF Init
  <2>3. FeedShape
    BY <2>1, <2>2, FeedAssumption DEF FeedShape, Sorted
  <2>4. Apart /\ InTurn
    BY <2>1 DEF Apart, InTurn
  <2>5. LostOnlyToNewer
    BY <2>2 DEF LostOnlyToNewer
  <2> QED BY <2>3, <2>4, <2>5 DEF FeedInv
<1> QED BY <1>1, <1>2, <1>3, InitCalls DEF IInv

LEMMA CallStepKeeps ==
  ASSUME IInv, NEW c \in Call, CallStep(c)
  PROVE  IInv'
<1> USE DEF IInv
<1>1. UNCHANGED <<main, socket>>
  BY DEF CallStep, EventsPoll, EventsRemaining, EventsClear, UseInstance, NotMade,
         KeyFor, Do, Answer
<1>2. MainShape' /\ SocketShape'
  BY <1>1 DEF main, socket, MainShape, SocketShape
<1>3. FeedInv'
  <2>1. CASE EventsPoll(c)
    <3>1. Poll(call[c].filter, call[c].limit)
      BY <2>1 DEF EventsPoll
    <3>2. call[c].limit \in Nat
      BY DEF CallInv, CallShape, CallState
    <3> QED BY <3>1, <3>2, PollKeeps
  <2>2. CASE EventsClear(c)
    BY <2>2, ClearKeeps DEF EventsClear
  <2>3. CASE ~EventsPoll(c) /\ ~EventsClear(c)
    <3>1. UNCHANGED feed
      BY <2>3 DEF CallStep, EventsRemaining, UseInstance, NotMade, KeyFor, Do, Answer
    <3> QED BY <3>1, FeedInvStays
  <2> QED BY <2>1, <2>2, <2>3
<1>4. CallInv'
  BY StepGoesOn, GoesOnKeeps, UseKeeps, KeyKeeps, AnswerKeeps DEF CallStep
<1> QED BY <1>2, <1>3, <1>4

LEMMA ClientStepKeeps ==
  ASSUME IInv, NEW c \in Call,
         BeginPoll(c) \/ BeginClear(c) \/ BeginUse(c) \/ BeginRequest(c) \/ Leave(c)
  PROVE  IInv'
<1> USE DEF IInv
<1>1. UNCHANGED <<main, feed, socket>>
  BY DEF BeginPoll, BeginClear, BeginUse, BeginRequest, Leave, Begin
<1>2. MainShape' /\ SocketShape'
  BY <1>1 DEF main, socket, MainShape, SocketShape
<1>3. FeedInv'
  BY <1>1, FeedInvStays
<1>4. CallInv'
  BY ClientsKeep, StepGoesOn, GoesOnKeeps
<1> QED BY <1>2, <1>3, <1>4

LEMMA SocketKeeps ==
  ASSUME IInv, Handler \/ Frame \/ Dial \/ ReadFails \/ Wait \/ CloseOnDone
  PROVE  IInv'
<1> USE DEF IInv
<1>1. UNCHANGED <<main, session, call>> /\ UNCHANGED transport
  BY DEF Handler, Frame, Dial, ReadFails, Wait, CloseOnDone, main
<1>2. MainShape' /\ CallInv'
  BY <1>1, CallInvStays DEF main, MainShape
<1>3. FeedInv'
  <2>1. CASE Handler \/ Frame
    BY <2>1, PushKeeps DEF Handler, Frame
  <2>2. CASE Dial \/ ReadFails \/ Wait \/ CloseOnDone
    BY <2>2, FeedInvStays DEF Dial, ReadFails, Wait, CloseOnDone
  <2> QED BY <2>1, <2>2
<1>4. SocketShape'
  <2>0. /\ MinBackoff \in Nat /\ MaxBackoff \in Nat /\ MaxBackoff >= MinBackoff
        /\ MaxConns \in Nat /\ conns \in 0..MaxConns
        /\ backoff \in MinBackoff..MaxBackoff /\ waiters \subseteq 1..conns
    BY FeedAssumption DEF SocketShape
  <2>1. CASE Handler \/ Frame
    BY <2>1 DEF Handler, Frame, socket, SocketShape
  <2>2. CASE Dial
    <3>1. CASE UNCHANGED <<conns, waiters, closed>>
      BY <2>2, <3>1 DEF Dial, SocketShape
    <3>2. CASE /\ conns < MaxConns /\ conns' = conns + 1
               /\ waiters' = waiters \cup {conns + 1}
               /\ ws' = "pump" /\ closed' = FALSE /\ UNCHANGED backoff
      <4>1. conns' \in 0..MaxConns
        BY <2>0, <3>2
      <4>2. waiters' \subseteq 1..conns'
        BY <2>0, <3>2
      <4>3. ws' = "pump" /\ closed' = FALSE /\ backoff' \in MinBackoff..MaxBackoff
        BY <2>0, <3>2
      <4> QED BY <4>1, <4>2, <4>3 DEF SocketShape
    <3> QED BY <2>2, <3>1, <3>2 DEF Dial
  <2>3. CASE ReadFails
    BY <2>0, <2>3 DEF ReadFails, SocketShape
  <2>4. CASE Wait
    <3>1. Lesser(2 * backoff, MaxBackoff) \in MinBackoff..MaxBackoff
      BY <2>0 DEF Lesser
    <3> QED BY <2>0, <2>4, <3>1 DEF Wait, SocketShape
  <2>5. CASE CloseOnDone
    BY <2>0, <2>5 DEF CloseOnDone, SocketShape
  <2> QED BY <2>1, <2>2, <2>3, <2>4, <2>5
<1> QED BY <1>2, <1>3, <1>4

LEMMA NextIInv == IInv /\ [Next]_vars => IInv'
<1> SUFFICES ASSUME IInv, [Next]_vars PROVE IInv'
  OBVIOUS
<1>1. CASE Handler \/ Frame \/ Dial \/ ReadFails \/ Wait \/ CloseOnDone
  BY <1>1, SocketKeeps
<1>2. CASE Calls
  BY <1>2, CallStepKeeps DEF Calls
<1>3. CASE Clients
  BY <1>3, ClientStepKeeps DEF Clients
<1>4. CASE Signal \/ Shutdown \/ Disconnect
  <2>1. UNCHANGED <<feed, socket, session, call, transport>> /\ MainShape'
    BY <1>4 DEF Signal, Shutdown, Disconnect, IInv, MainShape
  <2>2. SocketShape'
    BY <2>1 DEF IInv, SocketShape, socket
  <2> QED BY <2>1, <2>2, FeedInvStays, CallInvStays DEF IInv
<1>5. CASE UNCHANGED vars
  <2>1. UNCHANGED <<feed, socket, session, call, transport>> /\ MainShape'
    BY <1>5 DEF vars, main, IInv, MainShape
  <2>2. SocketShape'
    BY <2>1 DEF IInv, SocketShape, socket
  <2> QED BY <2>1, <2>2, FeedInvStays, CallInvStays DEF IInv
<1> QED BY <1>1, <1>2, <1>3, <1>4, <1>5 DEF Next

LEMMA Invariance == Spec => []IInv
BY InitIInv, NextIInv, PTL DEF Spec

(* For every capacity, any number of events, connections and calls, the    *)
(* buffer holds no more than its capacity, in the order of arrival         *)
(* (buffer.go:49), and nothing leaves its type.                            *)
THEOREM TypeCorrect == Spec => []TypeOK
<1>1. IInv => TypeOK
  <2> SUFFICES ASSUME IInv PROVE TypeOK
    OBVIOUS
  <2>1. MainShape /\ SocketShape /\ CallShape /\ FeedShape
    BY DEF IInv, CallInv, FeedInv
  <2> QED BY <2>1 DEF TypeOK, MainShape, SocketShape, CallShape, FeedShape, Sorted, Text
<1> QED BY <1>1, Invariance, PTL

(* Whatever the capacity and whatever filters and limits polls have, an    *)
(* event is handed out once, and the events of a type in the order they    *)
(* came in (buffer.go:62).                                                 *)
THEOREM HandedOnceInOrderHolds == Spec => []HandedOnceInOrder
<1>1. IInv => HandedOnceInOrder
  <2> SUFFICES ASSUME IInv PROVE HandedOnceInOrder
    OBVIOUS
  <2>1. Apart /\ InTurn
    BY DEF IInv, FeedInv
  <2>2. HandedIds \cap (InBuffer \cup cleared) = {}
    BY <2>1 DEF Apart, HandedIds, InBuffer, IdsAt
  <2> QED BY <2>1, <2>2 DEF HandedOnceInOrder, InTurn
<1> QED BY <1>1, Invariance, PTL

(* For every capacity, an event that is neither handed out nor cleared has *)
(* as many newer ones as the buffer has room for before it is dropped      *)
(* (buffer.go:54).                                                         *)
THEOREM LostOnlyToNewerHolds == Spec => []LostOnlyToNewer
<1>1. IInv => LostOnlyToNewer
  BY DEF IInv, FeedInv
<1> QED BY <1>1, Invariance, PTL

(* For any number of calls, whatever they select meanwhile, a request uses *)
(* a token that was active when its call began or was selected while it    *)
(* went on, and under stdio always the same one (client.go:65).            *)
THEOREM UsesSelectedHolds == Spec => []UsesSelected
<1>1. IInv => UsesSelected
  <2> SUFFICES ASSUME IInv PROVE UsesSelected
    OBVIOUS
  <2>1. ActiveIsFound /\ OneByOne
    BY DEF IInv, CallInv
  <2>2. ASSUME transport = "stdio", NEW c \in Call
        PROVE  Cardinality(call[c].used) <= 1
    <3>1. PICK t : call[c].used \subseteq {t}
      BY <2>1, <2>2 DEF OneByOne
    <3>2. IsFiniteSet({t}) /\ Cardinality({t}) = 1
      BY FS_Singleton
    <3> QED BY <3>1, <3>2, FS_Subset
  <2> QED BY <2>1, <2>2 DEF UsesSelected, ActiveIsFound
<1> QED BY <1>1, Invariance, PTL
=============================================================================

-------------------------- MODULE KthElement_proofs --------------------------
(***************************************************************************)
(* The bisection of the k-th element for any number of servers, workers    *)
(* and numbers.                                                            *)
(***************************************************************************)
EXTENDS KthElement, FiniteSetTheorems, TLAPS

-----------------------------------------------------------------------------
(* Finite sets and powers of two. *)

LEMMA DisjointUnion ==
  ASSUME NEW S, NEW T, IsFiniteSet(S), IsFiniteSet(T), S \cap T = {}
  PROVE  /\ IsFiniteSet(S \cup T)
         /\ Cardinality(S \cup T) = Cardinality(S) + Cardinality(T)
<1>1. /\ IsFiniteSet(S \cup T)
      /\ Cardinality(S \cup T) =
           Cardinality(S) + Cardinality(T) - Cardinality(S \cap T)
  BY FS_Union
<1>2. Cardinality(S \cap T) = 0
  BY FS_EmptySet
<1>3. Cardinality(S) \in Nat /\ Cardinality(T) \in Nat
  BY FS_CardinalityType
<1> QED
  BY <1>1, <1>2, <1>3

LEMMA Tagged ==
  ASSUME NEW t, NEW S, IsFiniteSet(S)
  PROVE  IsFiniteSet({t} \X S) /\ Cardinality({t} \X S) = Cardinality(S)
<1>1. IsFiniteSet({t}) /\ Cardinality({t}) = 1
  BY FS_Singleton
<1>2. /\ IsFiniteSet({t} \X S)
      /\ Cardinality({t} \X S) = Cardinality({t}) * Cardinality(S)
  BY <1>1, FS_Product
<1>3. Cardinality(S) \in Nat
  BY FS_CardinalityType
<1> QED
  BY <1>1, <1>2, <1>3

\* A finite set that is not empty has a first element.
LEMMA FirstOf ==
  ASSUME NEW S, IsFiniteSet(S), S # {}, NEW R,
         \A x \in S : <<x, x>> \notin R,
         \A x, y, z \in S : <<x, y>> \in R /\ <<y, z>> \in R => <<x, z>> \in R
  PROVE  \E m \in S : \A x \in S : <<x, m>> \notin R
<1> DEFINE B(m) == {x \in S : <<x, m>> \in R}
           T == {B(m) : m \in S}
<1>1. IsWellFoundedOn(StrictSubsetOrdering(S), FiniteSubsetsOf(S))
  BY FS_StrictSubsetOrderingWellFounded
<1>2. T \subseteq FiniteSubsetsOf(S)
  BY FS_Subset DEF FiniteSubsetsOf
<1>3. T # {}
  <2> HIDE DEF B
  <2> QED
    OBVIOUS
<1>4. \E U \in T : \A V \in T : <<V, U>> \notin StrictSubsetOrdering(S)
  <2> HIDE DEF T
  <2> QED
    BY <1>1, <1>2, <1>3, WFMin
<1>5. PICK m \in S : \A x \in S : <<B(x), B(m)>> \notin StrictSubsetOrdering(S)
  <2> HIDE DEF B
  <2> QED
    BY <1>4
<1>6. ASSUME NEW x \in S, <<x, m>> \in R PROVE FALSE
  <2>1. B(x) \subseteq B(m)
    BY <1>6
  <2>2. x \in B(m) /\ x \notin B(x)
    BY <1>6
  <2>3. B(x) \in SUBSET S /\ B(m) \in SUBSET S /\ B(x) # B(m)
    BY <2>2
  <2> HIDE DEF B
  <2> QED
    BY <1>5, <2>1, <2>3 DEF StrictSubsetOrdering
<1> QED
  BY <1>6

LEMMA LeastOf ==
  ASSUME NEW S, IsFiniteSet(S), S \subseteq Int, S # {}
  PROVE  \E m \in S : \A x \in S : m <= x
<1> DEFINE R == {z \in S \X S : z[1] < z[2]}
<1>1. \A x \in S : <<x, x>> \notin R
  OBVIOUS
<1>2. \A x, y, z \in S : <<x, y>> \in R /\ <<y, z>> \in R => <<x, z>> \in R
  OBVIOUS
<1>3. \A x, y \in S : <<x, y>> \notin R => y <= x
  OBVIOUS
<1> HIDE DEF R
<1> QED
  BY <1>1, <1>2, <1>3, FirstOf

LEMMA GreatestOf ==
  ASSUME NEW S, IsFiniteSet(S), S \subseteq Int, S # {}
  PROVE  \E m \in S : \A x \in S : x <= m
<1> DEFINE R == {z \in S \X S : z[1] > z[2]}
<1>1. \A x \in S : <<x, x>> \notin R
  OBVIOUS
<1>2. \A x, y, z \in S : <<x, y>> \in R /\ <<y, z>> \in R => <<x, z>> \in R
  OBVIOUS
<1>3. \A x, y \in S : <<x, y>> \notin R => x <= y
  OBVIOUS
<1> HIDE DEF R
<1> QED
  BY <1>1, <1>2, <1>3, FirstOf

\* A set has twice as many subsets when it has an element more.
LEMMA Doubling ==
  ASSUME NEW n \in Nat
  PROVE  2^n \in Nat /\ 2^(n + 1) = 2^n + 2^n
<1> DEFINE S == 1..n
           T == 1..(n + 1)
           P == SUBSET S
           Q == SUBSET T
           With == {U \cup {n + 1} : U \in P}
<1>1. IsFiniteSet(S) /\ Cardinality(S) = n /\ IsFiniteSet(T) /\ Cardinality(T) = n + 1
  BY FS_Interval
<1>2. IsFiniteSet(P) /\ Cardinality(P) = 2^n
  <2>1. IsFiniteSet(P) /\ Cardinality(P) = 2^Cardinality(S)
    BY <1>1, FS_SUBSET
  <2> QED
    BY <1>1, <2>1, Zenon
<1>3. Cardinality(Q) = 2^(n + 1)
  <2>1. Cardinality(Q) = 2^Cardinality(T)
    BY <1>1, FS_SUBSET
  <2> QED
    BY <1>1, <2>1, Zenon
<1>4. IsFiniteSet(With) /\ Cardinality(With) = Cardinality(P)
  <2> DEFINE f == [U \in P |-> U \cup {n + 1}]
  <2>1. \A U \in P : n + 1 \notin U
    OBVIOUS
  <2>2. f \in Bijection(P, With)
    <3>1. f \in [P -> With]
      OBVIOUS
    <3>2. \A U, V \in P : f[U] = f[V] => U = V
      <4> SUFFICES ASSUME NEW U \in P, NEW V \in P, f[U] = f[V]
                   PROVE  U = V
        OBVIOUS
      <4>1. U \cup {n + 1} = V \cup {n + 1}
        OBVIOUS
      <4> QED
        BY <2>1, <4>1
    <3>3. \A W \in With : \E U \in P : f[U] = W
      OBVIOUS
    <3> QED
      BY <3>1, <3>2, <3>3 DEF Bijection, Injection, Surjection, IsInjective
  <2>3. ExistsBijection(P, With)
    BY <2>2 DEF ExistsBijection
  <2> HIDE DEF With, S
  <2> QED
    BY <1>2, <2>3, FS_Bijection
<1>5. \A W : W \in Q <=> W \in P \/ W \in With
  <2>1. \A W \in Q : n + 1 \notin W => W \in P
    OBVIOUS
  <2>2. \A W \in Q : n + 1 \in W => W \ {n + 1} \in P
    OBVIOUS
  <2>3. \A W : n + 1 \in W => W = (W \ {n + 1}) \cup {n + 1}
    OBVIOUS
  <2>4. S \subseteq T /\ n + 1 \in T
    OBVIOUS
  <2>5. \A U \in P : U \in Q /\ U \cup {n + 1} \in Q
    BY <2>4
  <2> HIDE DEF P, Q
  <2>6. \A W \in Q : n + 1 \in W => W \in With
    BY <2>2, <2>3
  <2>7. \A W \in With : W \in Q
    BY <2>5
  <2> HIDE DEF With
  <2> QED
    BY <2>1, <2>5, <2>6, <2>7
<1>6. \A W : ~(W \in P /\ W \in With)
  <2>1. \A W \in P : n + 1 \notin W
    OBVIOUS
  <2>2. \A W \in With : n + 1 \in W
    OBVIOUS
  <2> HIDE DEF P, With
  <2> QED
    BY <2>1, <2>2
<1>7. Cardinality(Q) = Cardinality(P) + Cardinality(With)
  <2>1. IsFiniteSet(P) /\ IsFiniteSet(With)
    BY <1>2, <1>4
  <2> HIDE DEF With, P, Q
  <2>2. Q = P \cup With /\ P \cap With = {}
    BY <1>5, <1>6
  <2> QED
    BY <2>1, <2>2, DisjointUnion
<1>8. Cardinality(P) \in Nat
  <2> HIDE DEF S
  <2> QED
    BY <1>2, FS_CardinalityType
<1> HIDE DEF S, T, With
<1> QED
  BY <1>2, <1>3, <1>4, <1>7, <1>8, Zenon

LEMMA FiniteUnion ==
  ASSUME NEW I, IsFiniteSet(I), NEW f, DOMAIN f = I, \A i \in I : IsFiniteSet(f[i])
  PROVE  IsFiniteSet(UNION {f[i] : i \in I})
<1> DEFINE T == {f[i] : i \in I}
           g == [i \in I |-> f[i]]
<1>1. g \in [I -> T]
  OBVIOUS
<1>2. \A t \in T : \E i \in I : g[i] = t
  OBVIOUS
<1>3. g \in Surjection(I, T)
  BY <1>1, <1>2 DEF Surjection
<1>4. \A t \in T : IsFiniteSet(t)
  OBVIOUS
<1> HIDE DEF T, g
<1>5. IsFiniteSet(T)
  BY <1>3, FS_Surjection
<1> QED
  BY <1>4, <1>5, FS_UNION DEF T

-----------------------------------------------------------------------------
(* Counting numbers. *)

\* What the servers hold.
Numbered ==
  /\ numbers \in [Peer -> [Worker -> Seq(Int)]]
  /\ \A p \in Peer : \E w \in Worker : numbers[p][w] # <<>>

\* The places of some servers, or of some workers of a server, among those in S.
Of(A, S) == {a \in S : a[1] \in A}
OfWorkers(p, W, S) == {a \in S : a[1] = p /\ a[2][1] \in W}

LEMMA Finite ==
  /\ IsFiniteSet(Peer) /\ Peer # {} /\ IsFiniteSet(Worker)
  /\ Cardinality(Peer) \in Nat
  BY FleetAssumption, KthAssumption, FS_CardinalityType

LEMMA PlacesOfAre ==
  ASSUME NEW p \in Peer
  PROVE  \A q : q \in PlacesOf(p) <=>
                  \E w \in Worker : \E i \in DOMAIN numbers[p][w] : q = <<w, i>>
  BY DEF PlacesOf

LEMMA PlacesAre ==
  \A a : a \in Places <=> \E p \in Peer : \E q \in PlacesOf(p) : a = <<p, q>>
  BY DEF Places

LEMMA PlacesFinite ==
  ASSUME Numbered
  PROVE  IsFiniteSet(Places) /\ \A p \in Peer : IsFiniteSet(PlacesOf(p))
<1>1. ASSUME NEW p \in Peer PROVE IsFiniteSet(PlacesOf(p))
  <2> DEFINE f == [w \in Worker |-> {w} \X DOMAIN numbers[p][w]]
  <2>1. \A w \in Worker : IsFiniteSet(f[w])
    <3> SUFFICES ASSUME NEW w \in Worker PROVE IsFiniteSet({w} \X DOMAIN numbers[p][w])
      OBVIOUS
    <3>1. numbers[p][w] \in Seq(Int)
      BY DEF Numbered
    <3>2. /\ DOMAIN numbers[p][w] = 1..Len(numbers[p][w])
          /\ Len(numbers[p][w]) \in Int
      BY <3>1
    <3>3. IsFiniteSet(DOMAIN numbers[p][w])
      BY <3>2, FS_Interval
    <3> QED
      BY <3>3, Tagged
  <2>2. DOMAIN f = Worker
    OBVIOUS
  <2>3. PlacesOf(p) = UNION {f[w] : w \in Worker}
    BY DEF PlacesOf
  <2> HIDE DEF f
  <2> QED
    BY <2>1, <2>2, <2>3, Finite, FiniteUnion
<1>2. IsFiniteSet(Places)
  <2> DEFINE f == [p \in Peer |-> {p} \X PlacesOf(p)]
  <2>1. \A p \in Peer : IsFiniteSet({p} \X PlacesOf(p))
    BY <1>1, Tagged
  <2>2. DOMAIN f = Peer /\ \A p \in Peer : IsFiniteSet(f[p])
    BY <2>1
  <2>3. Places = UNION {f[p] : p \in Peer}
    BY DEF Places
  <2> HIDE DEF f
  <2> QED
    BY <2>2, <2>3, Finite, FiniteUnion
<1> QED
  BY <1>1, <1>2

LEMMA SubsetsFinite ==
  ASSUME Numbered, NEW S \in SUBSET Places
  PROVE  /\ IsFiniteSet(S) /\ Cardinality(S) \in Nat
         /\ Cardinality(S) <= Cardinality(Places)
  BY PlacesFinite, FS_Subset, FS_CardinalityType

\* The numbers of one server more.
LEMMA OneServerMore ==
  ASSUME Numbered, NEW S \in SUBSET Places, NEW A \in SUBSET Peer,
         NEW p \in Peer \ A
  PROVE  Cardinality(Of(A \cup {p}, S)) = Cardinality(Of(A, S)) + Cardinality(Of({p}, S))
<1>1. Of(A \cup {p}, S) = Of(A, S) \cup Of({p}, S) /\ Of(A, S) \cap Of({p}, S) = {}
  BY DEF Of
<1>2. Of(A, S) \in SUBSET Places /\ Of({p}, S) \in SUBSET Places
  BY DEF Of
<1>3. IsFiniteSet(Of(A, S)) /\ IsFiniteSet(Of({p}, S))
  BY <1>2, SubsetsFinite
<1> QED
  BY <1>1, <1>3, DisjointUnion

\* ... and of one worker more.
LEMMA OneWorkerMore ==
  ASSUME Numbered, NEW S \in SUBSET Places, NEW p \in Peer, NEW W \in SUBSET Worker,
         NEW w \in Worker \ W
  PROVE  Cardinality(OfWorkers(p, W \cup {w}, S)) =
           Cardinality(OfWorkers(p, W, S)) + Cardinality(OfWorkers(p, {w}, S))
<1>1. /\ OfWorkers(p, W \cup {w}, S) = OfWorkers(p, W, S) \cup OfWorkers(p, {w}, S)
      /\ OfWorkers(p, W, S) \cap OfWorkers(p, {w}, S) = {}
  BY DEF OfWorkers
<1>2. OfWorkers(p, W, S) \in SUBSET Places /\ OfWorkers(p, {w}, S) \in SUBSET Places
  BY DEF OfWorkers
<1>3. IsFiniteSet(OfWorkers(p, W, S)) /\ IsFiniteSet(OfWorkers(p, {w}, S))
  BY <1>2, SubsetsFinite
<1> QED
  BY <1>1, <1>3, DisjointUnion

LEMMA NoneAndAll ==
  ASSUME NEW S \in SUBSET Places, NEW p \in Peer
  PROVE  /\ Cardinality(Of({}, S)) = 0
         /\ Of(Peer, S) = S
         /\ Cardinality(OfWorkers(p, {}, S)) = 0
         /\ OfWorkers(p, Worker, S) = Of({p}, S)
<1>1. Of({}, S) = {} /\ OfWorkers(p, {}, S) = {}
  BY DEF Of, OfWorkers
<1>2. ASSUME NEW a \in S PROVE a[1] \in Peer /\ a[2][1] \in Worker
  <2>1. PICK r \in Peer : \E q \in PlacesOf(r) : a = <<r, q>>
    BY PlacesAre
  <2>2. PICK q \in PlacesOf(r) : a = <<r, q>>
    BY <2>1
  <2>3. PICK w \in Worker : \E i \in DOMAIN numbers[r][w] : q = <<w, i>>
    BY PlacesOfAre
  <2> QED
    BY <2>2, <2>3
<1>3. Of(Peer, S) = S /\ OfWorkers(p, Worker, S) = Of({p}, S)
  BY <1>2 DEF Of, OfWorkers
<1> QED
  BY <1>1, <1>3, FS_EmptySet

\* count_ of a server.
LEMMA ServerCount ==
  ASSUME Numbered, NEW p \in Peer
  PROVE  CountOf(p) = Cardinality(Of({p}, Places))
<1>1. Of({p}, Places) = {p} \X PlacesOf(p)
  BY PlacesAre DEF Of
<1> QED
  BY <1>1, PlacesFinite, Tagged DEF CountOf

\* What a worker adds to the counts.
LEMMA WorkerCount ==
  ASSUME Numbered, NEW p \in Peer, NEW w \in Worker, NEW x
  PROVE  /\ Less(numbers[p][w], x) = Cardinality(OfWorkers(p, {w}, Below(x)))
         /\ Equal(numbers[p][w], x) = Cardinality(OfWorkers(p, {w}, At(x)))
<1>1. numbers[p][w] \in Seq(Int)
  BY DEF Numbered
<1>2. IsFiniteSet(DOMAIN numbers[p][w])
  BY <1>1, FS_Interval
<1>3. ASSUME NEW I \in SUBSET DOMAIN numbers[p][w]
      PROVE  Cardinality({p} \X ({w} \X I)) = Cardinality(I)
  <2>1. IsFiniteSet(I)
    BY <1>2, FS_Subset
  <2>2. IsFiniteSet({w} \X I) /\ Cardinality({w} \X I) = Cardinality(I)
    BY <2>1, Tagged
  <2>3. Cardinality({p} \X ({w} \X I)) = Cardinality({w} \X I)
    BY <2>2, Tagged
  <2> QED
    BY <2>2, <2>3
<1> DEFINE I == {i \in DOMAIN numbers[p][w] : numbers[p][w][i] < x}
           J == {i \in DOMAIN numbers[p][w] : numbers[p][w][i] = x}
<1>4. \A a : a \in Places /\ a[1] = p /\ a[2][1] = w <=>
               \E i \in DOMAIN numbers[p][w] : a = <<p, <<w, i>>>>
  <2>1. ASSUME NEW i \in DOMAIN numbers[p][w] PROVE <<p, <<w, i>>>> \in Places
    BY PlacesAre, PlacesOfAre
  <2>2. ASSUME NEW a \in Places, a[1] = p, a[2][1] = w
        PROVE  \E i \in DOMAIN numbers[p][w] : a = <<p, <<w, i>>>>
    <3>1. PICK q \in PlacesOf(p) : a = <<p, q>>
      BY <2>2, PlacesAre
    <3>2. PICK v \in Worker : \E i \in DOMAIN numbers[p][v] : q = <<v, i>>
      BY PlacesOfAre
    <3> QED
      BY <2>2, <3>1, <3>2
  <2> QED
    BY <2>1, <2>2
<1>5. OfWorkers(p, {w}, Below(x)) = {p} \X ({w} \X I)
  BY <1>4 DEF OfWorkers, Below, NumberAt
<1>6. OfWorkers(p, {w}, At(x)) = {p} \X ({w} \X J)
  BY <1>4 DEF OfWorkers, At, NumberAt
<1>7. Cardinality({p} \X ({w} \X I)) = Cardinality(I)
  BY <1>3
<1>8. Cardinality({p} \X ({w} \X J)) = Cardinality(J)
  BY <1>3
<1> QED
  BY <1>5, <1>6, <1>7, <1>8 DEF Less, Equal

-----------------------------------------------------------------------------
(* Where the element is. *)

LEMMA NumbersAreInt ==
  ASSUME Numbered, NEW a \in Places
  PROVE  NumberAt(a) \in Int
<1>1. PICK p \in Peer : \E q \in PlacesOf(p) : a = <<p, q>>
  BY PlacesAre
<1>2. PICK q \in PlacesOf(p) : a = <<p, q>>
  BY <1>1
<1>3. PICK w \in Worker : \E i \in DOMAIN numbers[p][w] : q = <<w, i>>
  BY PlacesOfAre
<1>4. PICK i \in DOMAIN numbers[p][w] : q = <<w, i>>
  BY <1>3
<1>5. numbers[p][w] \in Seq(Int)
  BY DEF Numbered
<1>6. numbers[p][w][i] \in Int
  BY <1>5
<1> QED
  BY <1>2, <1>4, <1>6 DEF NumberAt

LEMMA Counts ==
  ASSUME Numbered, NEW x \in Int
  PROVE  /\ Below(x) \in SUBSET Places /\ At(x) \in SUBSET Places
         /\ Cardinality(Below(x)) \in Nat /\ Cardinality(At(x)) \in Nat
         /\ Cardinality(Below(x + 1)) = Cardinality(Below(x)) + Cardinality(At(x))
<1>1. Below(x) \in SUBSET Places /\ At(x) \in SUBSET Places
  BY DEF Below, At
<1>2. /\ IsFiniteSet(Below(x)) /\ IsFiniteSet(At(x))
      /\ Cardinality(Below(x)) \in Nat /\ Cardinality(At(x)) \in Nat
  BY <1>1, SubsetsFinite
<1>3. Below(x + 1) = Below(x) \cup At(x) /\ Below(x) \cap At(x) = {}
  BY NumbersAreInt DEF Below, At
<1> QED
  BY <1>1, <1>2, <1>3, DisjointUnion

LEMMA Monotone ==
  ASSUME Numbered, NEW x \in Int, NEW y \in Int, x <= y
  PROVE  Cardinality(Below(x)) <= Cardinality(Below(y))
<1>1. Below(x) \in SUBSET Below(y)
  BY NumbersAreInt DEF Below
<1>2. IsFiniteSet(Below(y))
  BY SubsetsFinite DEF Below
<1> QED
  BY <1>1, <1>2, FS_Subset

LEMMA KthExists ==
  ASSUME Numbered, NEW lo \in Int, NEW hi \in Int,
         \A a \in Places : lo <= NumberAt(a) /\ NumberAt(a) <= hi,
         NEW k \in 1..Cardinality(Places)
  PROVE  \E x \in lo..hi : /\ Cardinality(Below(x)) < k
                            /\ k <= Cardinality(Below(x)) + Cardinality(At(x))
<1> DEFINE S == {x \in lo..hi : k <= Cardinality(Below(x)) + Cardinality(At(x))}
<1>1. Cardinality(Places) \in Nat /\ k \in Nat /\ 1 <= k
  BY SubsetsFinite
<1>2. lo <= hi
  <2>1. Places # {}
    BY <1>1, FS_EmptySet
  <2>2. PICK a \in Places : TRUE
    BY <2>1
  <2> QED
    BY <2>2, NumbersAreInt
<1>3. hi \in S
  <2>1. Below(hi + 1) = Places
    BY NumbersAreInt DEF Below
  <2> QED
    BY <1>2, <2>1, Counts
<1>4. PICK m \in S : \A x \in S : m <= x
  <2>1. IsFiniteSet(lo..hi)
    BY FS_Interval
  <2>2. IsFiniteSet(S)
    BY <2>1, FS_Subset
  <2>3. S \subseteq Int
    OBVIOUS
  <2> HIDE DEF S
  <2> QED
    BY <1>3, <2>2, <2>3, LeastOf
<1>5. Cardinality(Below(m)) < k
  <2>1. CASE m = lo
    <3>1. Below(m) = {}
      BY <2>1, NumbersAreInt DEF Below
    <3> QED
      BY <1>1, <3>1, FS_EmptySet
  <2>2. CASE m # lo
    <3>1. m - 1 \in lo..hi /\ m - 1 \notin S
      BY <1>4, <2>2
    <3>2. PICK j \in Int : j = m - 1
      BY <3>1
    <3>3. ~(k <= Cardinality(Below(j)) + Cardinality(At(j)))
      BY <3>1, <3>2
    <3>4. Cardinality(Below(j + 1)) = Cardinality(Below(j)) + Cardinality(At(j))
      BY Counts
    <3>5. j + 1 = m
      BY <3>2
    <3>6. Cardinality(Below(m)) = Cardinality(Below(j)) + Cardinality(At(j))
      BY <3>4, <3>5
    <3>7. Cardinality(Below(j)) \in Nat /\ Cardinality(At(j)) \in Nat
      BY Counts
    <3> QED
      BY <1>1, <3>3, <3>6, <3>7
  <2> QED
    BY <2>1, <2>2
<1> QED
  BY <1>4, <1>5

\* There is one such element, and a guess that misses it tells on which side it is.
LEMMA KthIsOne ==
  ASSUME Numbered, kth \in Int, NEW x \in Int, IsKth(x), NEW y \in Int, IsKth(y)
  PROVE  x = y
<1>1. ASSUME NEW v \in Int, NEW w \in Int, IsKth(v), IsKth(w), v < w PROVE FALSE
  <2>1. Cardinality(Below(v + 1)) <= Cardinality(Below(w))
    BY <1>1, Monotone
  <2> QED
    BY <1>1, <2>1, Counts DEF IsKth
<1> QED
  BY <1>1

LEMMA Side ==
  ASSUME Numbered, kth \in Int, NEW x \in Int, IsKth(x), NEW g \in Int, ~IsKth(g)
  PROVE  IF Cardinality(Below(g)) < kth THEN g < x ELSE x < g
<1>1. CASE Cardinality(Below(g)) < kth
  <2>1. ~(kth <= Cardinality(Below(g + 1)))
    BY <1>1, Counts DEF IsKth
  <2>2. ~(x <= g)
    <3> SUFFICES ASSUME x <= g PROVE FALSE
      OBVIOUS
    <3>1. Cardinality(Below(x + 1)) <= Cardinality(Below(g + 1))
      BY Monotone
    <3> QED
      BY <2>1, <3>1, Counts DEF IsKth
  <2> QED
    BY <1>1, <2>2
<1>2. CASE ~(Cardinality(Below(g)) < kth)
  <2> SUFFICES ASSUME g <= x PROVE FALSE
    BY <1>2
  <2>1. Cardinality(Below(g)) <= Cardinality(Below(x))
    BY Monotone
  <2> QED
    BY <1>2, <2>1, Counts DEF IsKth
<1> QED
  BY <1>1, <1>2

\* min_ and max_ of a server.
LEMMA ServerState ==
  ASSUME Numbered, NEW p \in Peer
  PROVE  /\ StateOf(p).kind = "state" /\ StateOf(p).count \in Nat
         /\ StateOf(p).min \in Int /\ StateOf(p).max \in Int
         /\ StateOf(p).count = Cardinality(Of({p}, Places))
         /\ \A a \in Of({p}, Places) :
              StateOf(p).min <= NumberAt(a) /\ NumberAt(a) <= StateOf(p).max
<1>1. \A a \in Of({p}, Places) : NumberAt(a) \in Held(p)
  <2> SUFFICES ASSUME NEW a \in Places, a[1] = p PROVE NumberAt(a) \in Held(p)
    BY DEF Of
  <2>1. PICK q \in PlacesOf(p) : a = <<p, q>>
    BY PlacesAre
  <2>2. PICK w \in Worker : \E i \in DOMAIN numbers[p][w] : q = <<w, i>>
    BY PlacesOfAre
  <2> QED
    BY <2>1, <2>2 DEF NumberAt, Held, Range
<1>2. Held(p) \subseteq Int /\ Held(p) # {}
  <2>1. Held(p) \subseteq Int
    <3>1. \A w \in Worker : Range(numbers[p][w]) \subseteq Int
      BY DEF Numbered, Range
    <3> QED
      BY <3>1 DEF Held
  <2>2. PICK w \in Worker : numbers[p][w] # <<>>
    BY DEF Numbered
  <2>3. numbers[p][w] \in Seq(Int)
    BY DEF Numbered
  <2>4. 1 \in DOMAIN numbers[p][w]
    BY <2>2, <2>3
  <2>5. numbers[p][w][1] \in Held(p)
    BY <2>4 DEF Held, Range
  <2> QED
    BY <2>1, <2>5
<1>3. IsFiniteSet(Held(p))
  <2> DEFINE f == [q \in PlacesOf(p) |-> numbers[p][q[1]][q[2]]]
  <2>1. f \in [PlacesOf(p) -> Held(p)]
    BY PlacesOfAre DEF Held, Range
  <2>2. \A x \in Held(p) : \E q \in PlacesOf(p) : f[q] = x
    <3> SUFFICES ASSUME NEW x \in Held(p) PROVE \E q \in PlacesOf(p) : f[q] = x
      OBVIOUS
    <3>1. PICK w \in Worker : x \in Range(numbers[p][w])
      BY DEF Held
    <3>2. PICK i \in DOMAIN numbers[p][w] : x = numbers[p][w][i]
      BY <3>1 DEF Range
    <3>3. <<w, i>> \in PlacesOf(p)
      BY PlacesOfAre
    <3> QED
      BY <3>2, <3>3
  <2>3. f \in Surjection(PlacesOf(p), Held(p))
    BY <2>1, <2>2 DEF Surjection
  <2> HIDE DEF f
  <2> QED
    BY <2>3, PlacesFinite, FS_Surjection
<1>4. Min(Held(p)) \in Held(p) /\ \A x \in Held(p) : Min(Held(p)) <= x
  <2>1. \E m \in Held(p) : \A x \in Held(p) : m <= x
    BY <1>2, <1>3, LeastOf
  <2> QED
    BY <2>1 DEF Min
<1>5. Max(Held(p)) \in Held(p) /\ \A x \in Held(p) : x <= Max(Held(p))
  <2>1. \E m \in Held(p) : \A x \in Held(p) : m >= x
    <3>1. \E m \in Held(p) : \A x \in Held(p) : x <= m
      BY <1>2, <1>3, GreatestOf
    <3> QED
      BY <1>2, <3>1
  <2>2. Max(Held(p)) \in Held(p) /\ \A x \in Held(p) : Max(Held(p)) >= x
    BY <2>1 DEF Max
  <2> QED
    BY <1>2, <2>2
<1>6. CountOf(p) = Cardinality(Of({p}, Places)) /\ CountOf(p) \in Nat
  <2>1. Of({p}, Places) \in SUBSET Places
    BY DEF Of
  <2> QED
    BY <2>1, ServerCount, SubsetsFinite
<1> QED
  BY <1>1, <1>2, <1>4, <1>5, <1>6 DEF StateOf

\* The rest of a round is about these.
Lower == Below(guess)
Same == At(guess)
State == [p \in Peer |-> StateOf(p)]

LEMMA SameNumbers ==
  ASSUME UNCHANGED numbers
  PROVE  /\ Places' = Places /\ State' = State /\ (Numbered => Numbered')
         /\ UNCHANGED guess => Lower' = Lower /\ Same' = Same
         /\ \A x : Below(x)' = Below(x) /\ At(x)' = At(x)
         /\ UNCHANGED kth => \A x : IsKth(x) <=> IsKth(x)'
<1>1. Places' = Places
  BY DEF Places, PlacesOf
<1>2. State' = State
  BY DEF State, StateOf, CountOf, PlacesOf, Held
<1>3. Numbered => Numbered'
  BY DEF Numbered
<1>4. UNCHANGED guess => Lower' = Lower /\ Same' = Same
  BY <1>1 DEF Lower, Same, Below, At, NumberAt
<1>5. UNCHANGED kth => \A x : IsKth(x) <=> IsKth(x)'
  BY <1>1 DEF IsKth, Below, At, NumberAt
<1>6. \A x : Below(x)' = Below(x) /\ At(x)' = At(x)
  BY <1>1 DEF Below, At, NumberAt
<1> QED
  BY <1>1, <1>2, <1>3, <1>4, <1>5, <1>6

-----------------------------------------------------------------------------
(* The invariant. *)

Searching == told.servers = Cardinality(Peer)

\* How far a server is: it has nothing to do, its state is on its way, it is asked,
\* it counts, or its answer is on its way.
Quiet(p) == toClient[p] = <<>> /\ toServer[p] = <<>> /\ asked[p] = None

Telling(p) ==
  /\ toClient[p] = <<State[p]>> /\ toServer[p] = <<>> /\ asked[p] = None
  /\ srv[p] # "none"

ToAsk(p) ==
  /\ toServer[p] = <<[kind |-> "query", guess |-> guess]>>
  /\ toClient[p] = <<>> /\ asked[p] = None

Counting(p) ==
  /\ toClient[p] = <<>> /\ toServer[p] = <<>> /\ asked[p] = guess
  /\ counts[p] = [less |-> Cardinality(OfWorkers(p, Worker \ toCount[p], Lower)),
                  equal |-> Cardinality(OfWorkers(p, Worker \ toCount[p], Same))]

Answered(p) ==
  /\ toClient[p] = <<[kind |-> "answer", less |-> Cardinality(Of({p}, Lower)),
                      equal |-> Cardinality(Of({p}, Same))]>>
  /\ toServer[p] = <<>> /\ asked[p] = None

Doing(p) == Quiet(p) \/ ToAsk(p) \/ Counting(p) \/ Answered(p)

\* The client knows of the numbers of the servers in T.
Told(T) ==
  /\ told.servers = Cardinality(T)
  /\ told.count = Cardinality(Of(T, Places))
  /\ \A a \in Of(T, Places) : told.min <= NumberAt(a) /\ NumberAt(a) <= told.max
  /\ \A p \in T : srv[p] # "none"

\* The servers in A have answered for this guess, and no other has.
Round(A) ==
  /\ round = [less |-> Cardinality(Of(A, Lower)), equal |-> Cardinality(Of(A, Same)),
              answered |-> Cardinality(A)]
  /\ \A p \in A : Quiet(p)
  /\ \A p \in Peer \ A : Doing(p)
  /\ A = Peer <=> found # None

NoneWaits == \A p \in Peer : asked[p] = None => toCount[p] = {}

StartPhase ==
  ~Searching =>
    /\ \E T \in SUBSET Peer : /\ Told(T)
                              /\ \A p \in T : Quiet(p)
                              /\ \A p \in Peer \ T : Quiet(p) \/ Telling(p)
    /\ round = NewRound /\ nIteration = 0 /\ found = None

SearchPhase ==
  Searching =>
    /\ Told(Peer)
    /\ \E A \in SUBSET Peer : Round(A)
    /\ \E x \in low .. high : IsKth(x)
    /\ found = None => guess = low + (high - low) \div 2
    /\ found # None => found = guess /\ IsKth(guess)

SearchInv == TypeOK /\ Numbered /\ NoneWaits /\ StartPhase /\ SearchPhase

LEMMA InitInv == Init => SearchInv
<1> SUFFICES ASSUME Init PROVE SearchInv
  OBVIOUS
<1>1. TypeOK
  <2>1. toClient \in [Peer -> Seq(Message)] /\ toServer \in [Peer -> Seq(Message)]
    <3>1. <<>> \in Seq(Message)
      OBVIOUS
    <3> QED
      BY <3>1 DEF Init, FleetInit
  <2>2. FleetTypeOK(Message)
    BY <2>1 DEF Init, FleetInit, FleetTypeOK
  <2>3. kth \in Int /\ IntMax \in Int /\ IntMin \in Int
    BY KthAssumption DEF Init
  <2> QED
    BY <2>2, <2>3, Finite DEF Init, TypeOK, NewRound
<1>2. Numbered
  BY KthAssumption DEF Init, Numbered
<1>3. NoneWaits
  BY DEF Init, NoneWaits
<1>4. told.servers = 0 /\ ~Searching
  BY Finite, FS_EmptySet DEF Init, Searching
<1>5. Told({}) /\ \A p \in Peer : Quiet(p)
  <2>1. Of({}, Places) = {}
    BY DEF Of
  <2> QED
    BY <2>1, FS_EmptySet DEF Told, Init, FleetInit, Quiet
<1>6. StartPhase
  BY <1>5 DEF StartPhase, Init
<1> QED
  BY <1>1, <1>2, <1>3, <1>4, <1>6 DEF SearchInv, SearchPhase

-----------------------------------------------------------------------------
(* A step of one server, or of none. *)

LEMMA ServerStep ==
  ASSUME SearchInv, TypeOK', UNCHANGED <<numbers, searchVars>>, NEW p \in Peer,
         \A q \in Peer \ {p} :
           /\ toClient'[q] = toClient[q] /\ toServer'[q] = toServer[q]
           /\ asked'[q] = asked[q] /\ toCount'[q] = toCount[q]
           /\ counts'[q] = counts[q] /\ srv'[q] = srv[q],
         srv[p] # "none" => srv'[p] # "none",
         asked'[p] = None => toCount'[p] = {},
         srv[p] # "none" /\ Quiet(p) => Quiet(p)',
         ~Searching /\ (Quiet(p) \/ Telling(p)) => Quiet(p)' \/ Telling(p)',
         Searching /\ srv[p] # "none" /\ Doing(p) => Doing(p)'
  PROVE  SearchInv'
<1>1. /\ Places' = Places /\ State' = State /\ Numbered' /\ Lower' = Lower
      /\ Same' = Same /\ \A x : IsKth(x) <=> IsKth(x)'
  BY SameNumbers DEF SearchInv, searchVars
<1>2. \A q \in Peer \ {p} :
        /\ Quiet(q) => Quiet(q)'
        /\ Telling(q) => Telling(q)'
        /\ Doing(q) => Doing(q)'
        /\ srv'[q] = srv[q]
  BY <1>1 DEF Quiet, Telling, Doing, ToAsk, Counting, Answered, searchVars
<1>3. NoneWaits'
  BY DEF SearchInv, NoneWaits
<1>4. Searching' <=> Searching
  BY DEF Searching, searchVars
<1>5. \A a \in Places : NumberAt(a)' = NumberAt(a)
  BY DEF NumberAt
<1>6. ASSUME NEW T \in SUBSET Peer, Told(T) PROVE Told(T)'
  <2>1. \A q \in T : srv'[q] # "none"
    BY <1>2, <1>6 DEF Told
  <2>2. Of(T, Places)' = Of(T, Places) /\ told' = told
    BY <1>1 DEF Of, searchVars
  <2>3. \A a \in Of(T, Places) : NumberAt(a)' = NumberAt(a)
    BY <1>5 DEF Of
  <2> QED
    BY <1>6, <2>1, <2>2, <2>3 DEF Told
<1>7. ASSUME ~Searching PROVE StartPhase'
  <2>1. PICK T \in SUBSET Peer : /\ Told(T)
                                 /\ \A q \in T : Quiet(q)
                                 /\ \A q \in Peer \ T : Quiet(q) \/ Telling(q)
    BY <1>7 DEF SearchInv, StartPhase
  <2>2. Told(T)'
    BY <1>6, <2>1
  <2>3. \A q \in T : Quiet(q)'
    BY <1>2, <2>1 DEF Told
  <2>4. \A q \in Peer \ T : Quiet(q)' \/ Telling(q)'
    BY <1>2, <1>7, <2>1
  <2>5. round' = NewRound' /\ nIteration' = 0 /\ found' = None
    BY <1>7 DEF SearchInv, StartPhase, searchVars, NewRound
  <2> QED
    BY <2>2, <2>3, <2>4, <2>5 DEF StartPhase
<1>8. ASSUME Searching PROVE SearchPhase'
  <2>1. Told(Peer)' /\ \A q \in Peer : srv[q] # "none"
    BY <1>6, <1>8 DEF SearchInv, SearchPhase, Told
  <2>2. PICK A \in SUBSET Peer : Round(A)
    BY <1>8 DEF SearchInv, SearchPhase
  <2>3. Round(A)'
    <3>1. \A q \in A : Quiet(q)'
      BY <1>2, <2>1, <2>2 DEF Round
    <3>2. \A q \in Peer \ A : Doing(q)'
      BY <1>2, <1>8, <2>1, <2>2 DEF Round
    <3> QED
      BY <1>1, <2>2, <3>1, <3>2 DEF Round, searchVars
  <2>4. (\E x \in low .. high : IsKth(x))'
    BY <1>1, <1>8 DEF SearchInv, SearchPhase, searchVars
  <2>5. found' # None => found' = guess' /\ IsKth(guess)'
    <3>1. IsKth(guess) => IsKth(guess)'
      BY SameNumbers DEF searchVars, IsKth, Lower, Same
    <3> QED
      BY <1>8, <3>1 DEF SearchInv, SearchPhase, searchVars
  <2>6. found' = None => guess' = low' + (high' - low') \div 2
    BY <1>8 DEF SearchInv, SearchPhase, searchVars
  <2> QED
    BY <2>1, <2>3, <2>4, <2>5, <2>6 DEF SearchPhase
<1> QED
  BY <1>1, <1>3, <1>4, <1>7, <1>8 DEF SearchInv, StartPhase, SearchPhase

LEMMA LostInv ==
  ASSUME SearchInv, NEW p \in Peer, ServerLost(p), SearchUnchanged
  PROVE  SearchInv'
<1>0. FleetTypeOK(Message) /\ TypeOK
  BY DEF SearchInv, TypeOK
<1>1. /\ srv' = [srv EXCEPT ![p] = "lost"]
      /\ toServer' = [toServer EXCEPT ![p] = <<>>]
      /\ failed' = TRUE /\ UNCHANGED <<loop, conn>>
      /\ UNCHANGED <<serverVars, searchVars>>
  BY DEF ServerLost, SearchUnchanged
<1>2. PICK prefix \in Prefixes(toClient[p]) :
        toClient' = [toClient EXCEPT ![p] = prefix]
  BY DEF ServerLost
<1>3. /\ toClient[p] \in Seq(Message) /\ toServer[p] \in Seq(Message)
      /\ toClient \in [Peer -> Seq(Message)] /\ toServer \in [Peer -> Seq(Message)]
      /\ srv \in [Peer -> {"none", "open", "closed", "lost"}]
  BY <1>0 DEF FleetTypeOK
<1>4. /\ prefix \in Seq(Message) /\ Len(prefix) \in 0..Len(toClient[p])
      /\ \A i \in 1..Len(prefix) : prefix[i] = toClient[p][i]
  <2>1. PICK n \in 0..Len(toClient[p]) : prefix = SubSeq(toClient[p], 1, n)
    BY <1>2, <1>3 DEF Prefixes
  <2> QED
    BY <1>3, <2>1
<1>5. TypeOK'
  <2>1. FleetTypeOK(Message)'
    <3>1. <<>> \in Seq(Message)
      OBVIOUS
    <3>2. /\ toClient' \in [Peer -> Seq(Message)]
          /\ toServer' \in [Peer -> Seq(Message)]
          /\ srv' \in [Peer -> {"none", "open", "closed", "lost"}]
      BY <1>1, <1>2, <1>3, <1>4, <3>1
    <3> QED
      BY <1>0, <1>1, <3>2 DEF FleetTypeOK
  <2> QED
    BY <1>0, <1>1, <2>1 DEF TypeOK, serverVars, searchVars
<1>6. /\ toClient'[p] = prefix /\ toServer'[p] = <<>> /\ srv'[p] = "lost"
      /\ \A q \in Peer \ {p} :
           /\ toClient'[q] = toClient[q] /\ toServer'[q] = toServer[q]
           /\ srv'[q] = srv[q]
  BY <1>1, <1>2, <1>3
<1>7. toClient[p] = <<>> => prefix = <<>>
  BY <1>3, <1>4
<1>8. \A m : toClient[p] = <<m>> => prefix = <<>> \/ prefix = <<m>>
  <2> SUFFICES ASSUME NEW m, toClient[p] = <<m>>, prefix # <<>> PROVE prefix = <<m>>
    OBVIOUS
  <2>1. Len(prefix) = 1 /\ prefix[1] = m
    BY <1>3, <1>4
  <2> QED
    BY <1>4, <2>1
<1>9. /\ State' = State /\ Lower' = Lower /\ Same' = Same /\ asked' = asked
      /\ toCount' = toCount /\ counts' = counts /\ guess' = guess
      /\ UNCHANGED <<numbers, searchVars>>
  BY <1>1, SameNumbers DEF serverVars, searchVars
<1>10. Quiet(p) => Quiet(p)'
  BY <1>6, <1>7, <1>9 DEF Quiet
<1>11. Telling(p) => Quiet(p)' \/ Telling(p)'
  <2>1. Telling(p) => prefix = <<>> \/ prefix = <<State[p]>>
    BY <1>8 DEF Telling
  <2> QED
    BY <1>6, <1>9, <2>1 DEF Telling, Quiet
<1>12. ToAsk(p) => Quiet(p)'
  BY <1>6, <1>7, <1>9 DEF ToAsk, Quiet
<1>13. Counting(p) => Counting(p)'
  BY <1>6, <1>7, <1>9 DEF Counting
<1>14. Answered(p) => Quiet(p)' \/ Answered(p)'
  <2>1. Answered(p) => prefix = <<>> \/ prefix = toClient[p]
    BY <1>8 DEF Answered
  <2> QED
    BY <1>6, <1>9, <2>1 DEF Answered, Quiet
<1>15. asked'[p] = None => toCount'[p] = {}
  BY <1>9 DEF SearchInv, NoneWaits
<1> QED
  BY <1>5, <1>6, <1>9, <1>10, <1>11, <1>12, <1>13, <1>14, <1>15, ServerStep DEF Doing

\* The steps in which a connection comes up or goes down, or the client leaves.
LEMMA FleetInv ==
  ASSUME SearchInv, FleetNext, SearchUnchanged
  PROVE  SearchInv'
<1>1. CASE \E p \in Peer : ServerLost(p)
  BY <1>1, LostInv
<1>2. CASE Leave \/ \E p \in Peer : Connected(p) \/ Refused(p) \/ Retry(p) \/ Down(p)
  <2>0. FleetTypeOK(Message) /\ TypeOK
    BY DEF SearchInv, TypeOK
  <2>1. /\ UNCHANGED <<srv, toClient, toServer>>
        /\ UNCHANGED <<serverVars, searchVars>>
    BY <1>2 DEF Leave, Connected, Refused, Retry, Down, SearchUnchanged
  <2>2. /\ loop' \in {"running", "quitting", "again", "left"}
        /\ conn' \in [Peer -> {"connecting", "retrying", "up", "shut", "down"}]
        /\ failed' \in BOOLEAN
    BY <1>2, <2>0
    DEF Leave, Connected, Refused, Retry, Down, OnConnectError, Quit, FleetTypeOK
  <2>3. FleetTypeOK(Message)'
    BY <2>0, <2>1, <2>2 DEF FleetTypeOK
  <2>4. TypeOK'
    BY <2>0, <2>1, <2>3 DEF TypeOK, serverVars, searchVars
  <2>5. PICK p \in Peer : TRUE
    BY Finite
  <2>6. /\ UNCHANGED <<numbers, searchVars>>
        /\ asked' = asked /\ toCount' = toCount /\ counts' = counts
        /\ State' = State /\ Lower' = Lower /\ Same' = Same /\ guess' = guess
    BY <2>1, SameNumbers DEF serverVars, searchVars
  <2>7. /\ Quiet(p)' <=> Quiet(p)
        /\ Telling(p)' <=> Telling(p)
        /\ Doing(p)' <=> Doing(p)
    BY <2>1, <2>6 DEF Quiet, Telling, Doing, ToAsk, Counting, Answered
  <2>8. asked'[p] = None => toCount'[p] = {}
    BY <2>6 DEF SearchInv, NoneWaits
  <2> QED
    BY <2>1, <2>4, <2>6, <2>7, <2>8, ServerStep
<1> QED
  BY <1>1, <1>2 DEF FleetNext

-----------------------------------------------------------------------------
(* A server's operations. *)

LEMMA ServerAcceptsInv ==
  ASSUME SearchInv, NEW p \in Peer, ServerAccepts(p)
  PROVE  SearchInv'
<1>0. FleetTypeOK(Message) /\ TypeOK
  BY DEF SearchInv, TypeOK
<1>1. /\ srv[p] = "none" /\ srv' = [srv EXCEPT ![p] = "open"]
      /\ toClient' = [toClient EXCEPT ![p] = Append(toClient[p], StateOf(p))]
      /\ UNCHANGED <<loop, conn, toServer, failed>>
      /\ UNCHANGED <<serverVars, searchVars>>
  BY DEF ServerAccepts, Accept
<1>2. /\ toClient \in [Peer -> Seq(Message)]
      /\ srv \in [Peer -> {"none", "open", "closed", "lost"}]
  BY <1>0 DEF FleetTypeOK
<1>3. StateOf(p) \in Message
  <2>1. /\ StateOf(p).count \in Nat /\ StateOf(p).min \in Int
        /\ StateOf(p).max \in Int
    BY ServerState DEF SearchInv
  <2> QED
    BY <2>1 DEF StateOf, Message
<1>4. TypeOK'
  <2>1. toClient' \in [Peer -> Seq(Message)]
    BY <1>1, <1>2, <1>3
  <2>2. srv' \in [Peer -> {"none", "open", "closed", "lost"}]
    BY <1>1, <1>2
  <2>3. FleetTypeOK(Message)'
    BY <1>0, <1>1, <2>1, <2>2 DEF FleetTypeOK
  <2> QED
    BY <1>0, <1>1, <2>3 DEF TypeOK, serverVars, searchVars
<1>5. /\ toClient'[p] = Append(toClient[p], StateOf(p)) /\ srv'[p] = "open"
      /\ \A q \in Peer \ {p} : toClient'[q] = toClient[q] /\ srv'[q] = srv[q]
  BY <1>1, <1>2
<1>6. /\ State' = State /\ asked' = asked /\ toServer' = toServer
      /\ toCount' = toCount /\ counts' = counts
      /\ UNCHANGED <<numbers, searchVars>>
  BY <1>1, SameNumbers DEF serverVars, searchVars
<1>7. Quiet(p) => Telling(p)'
  <2>1. State[p] = StateOf(p)
    BY DEF State
  <2> QED
    BY <1>5, <1>6, <2>1 DEF Quiet, Telling
<1>8. ~Telling(p)
  BY <1>1 DEF Telling
<1>9. asked'[p] = None => toCount'[p] = {}
  BY <1>6 DEF SearchInv, NoneWaits
<1> QED
  BY <1>1, <1>4, <1>5, <1>6, <1>7, <1>8, <1>9, ServerStep

LEMMA ServerEndsInv ==
  ASSUME SearchInv, NEW p \in Peer, ServerEnds(p)
  PROVE  SearchInv'
<1>0. FleetTypeOK(Message) /\ TypeOK
  BY DEF SearchInv, TypeOK
<1>1. /\ srv' = [srv EXCEPT ![p] = "closed"]
      /\ UNCHANGED <<loop, conn, toClient, toServer, failed>>
      /\ UNCHANGED <<serverVars, searchVars>>
  BY DEF ServerEnds, ServerCloses
<1>2. srv \in [Peer -> {"none", "open", "closed", "lost"}]
  BY <1>0 DEF FleetTypeOK
<1>3. TypeOK'
  <2>1. FleetTypeOK(Message)'
    BY <1>0, <1>1, <1>2 DEF FleetTypeOK
  <2> QED
    BY <1>0, <1>1, <2>1 DEF TypeOK, serverVars, searchVars
<1>4. srv'[p] = "closed" /\ \A q \in Peer \ {p} : srv'[q] = srv[q]
  BY <1>1, <1>2
<1>5. /\ UNCHANGED <<numbers, searchVars>>
      /\ asked' = asked /\ toCount' = toCount /\ counts' = counts
      /\ State' = State /\ Lower' = Lower /\ Same' = Same /\ guess' = guess
  BY <1>1, SameNumbers DEF serverVars, searchVars
<1>6. /\ Quiet(p)' <=> Quiet(p)
      /\ Telling(p) => Telling(p)'
      /\ Doing(p)' <=> Doing(p)
  BY <1>1, <1>4, <1>5 DEF Quiet, Telling, Doing, ToAsk, Counting, Answered
<1>7. asked'[p] = None => toCount'[p] = {}
  BY <1>5 DEF SearchInv, NoneWaits
<1> QED
  BY <1>1, <1>3, <1>4, <1>5, <1>6, <1>7, ServerStep

LEMMA OnQueryInv ==
  ASSUME SearchInv, NEW p \in Peer, OnQuery(p)
  PROVE  SearchInv'
<1>0. FleetTypeOK(Message) /\ TypeOK
  BY DEF SearchInv, TypeOK
<1>1. /\ asked[p] = None /\ srv[p] = "open" /\ toServer[p] # <<>>
      /\ toServer' = [toServer EXCEPT ![p] = Tail(toServer[p])]
      /\ asked' = [asked EXCEPT ![p] = Head(toServer[p]).guess]
      /\ toCount' = [toCount EXCEPT ![p] = Worker]
      /\ counts' = [counts EXCEPT ![p] = [less |-> 0, equal |-> 0]]
      /\ UNCHANGED <<loop, conn, srv, failed, toClient, numbers, searchVars>>
  BY DEF OnQuery, Takes, FromClient
<1>2. /\ toServer \in [Peer -> Seq(Message)]
      /\ asked \in [Peer -> Int \cup {None}]
      /\ toCount \in [Peer -> SUBSET Worker]
      /\ counts \in [Peer -> [less : Nat, equal : Nat]]
      /\ guess \in Int /\ None \notin Int
  BY <1>0, KthAssumption DEF FleetTypeOK, TypeOK
<1>3. ToAsk(p) /\ Searching
  <2>1. srv[p] # "none" /\ ~Quiet(p) /\ ~Telling(p) /\ ~Counting(p) /\ ~Answered(p)
    BY <1>1 DEF Quiet, Telling, Counting, Answered
  <2>2. Searching
    BY <2>1 DEF SearchInv, StartPhase
  <2>3. Doing(p)
    BY <2>1, <2>2 DEF SearchInv, SearchPhase, Round, Doing
  <2> QED
    BY <2>1, <2>2, <2>3 DEF Doing
<1>4. Head(toServer[p]).guess = guess /\ Tail(toServer[p]) = <<>>
  BY <1>3 DEF ToAsk
<1>5. TypeOK'
  <2>1. <<>> \in Seq(Message)
    OBVIOUS
  <2>2. toServer' \in [Peer -> Seq(Message)]
    BY <1>1, <1>2, <1>4, <2>1
  <2>3. FleetTypeOK(Message)'
    BY <1>0, <1>1, <2>2 DEF FleetTypeOK
  <2>4. /\ asked' \in [Peer -> Int \cup {None}]
        /\ toCount' \in [Peer -> SUBSET Worker]
        /\ counts' \in [Peer -> [less : Nat, equal : Nat]]
    BY <1>1, <1>2, <1>4
  <2> QED
    BY <1>0, <1>1, <2>3, <2>4 DEF TypeOK, searchVars
<1>6. /\ toServer'[p] = <<>> /\ asked'[p] = guess /\ toCount'[p] = Worker
      /\ counts'[p] = [less |-> 0, equal |-> 0]
      /\ \A q \in Peer \ {p} :
           /\ toServer'[q] = toServer[q] /\ asked'[q] = asked[q]
           /\ toCount'[q] = toCount[q] /\ counts'[q] = counts[q]
  BY <1>1, <1>2, <1>4
<1>7. /\ Lower' = Lower /\ Same' = Same /\ guess' = guess /\ toClient' = toClient
  BY <1>1, SameNumbers DEF searchVars
<1>8. Counting(p)'
  <2>1. Lower \in SUBSET Places /\ Same \in SUBSET Places
    BY DEF Lower, Same, Below, At
  <2>2. /\ Cardinality(OfWorkers(p, {}, Lower)) = 0
        /\ Cardinality(OfWorkers(p, {}, Same)) = 0
    BY <2>1, NoneAndAll
  <2>3. Worker \ toCount'[p] = {}
    BY <1>6
  <2> QED
    BY <1>3, <1>6, <1>7, <2>2, <2>3 DEF Counting, ToAsk
<1>9. ~Quiet(p) /\ asked'[p] # None
  BY <1>1, <1>2, <1>6 DEF Quiet
<1> QED
  BY <1>1, <1>3, <1>5, <1>6, <1>8, <1>9, ServerStep DEF Doing

LEMMA CountTaskInv ==
  ASSUME SearchInv, NEW p \in Peer, NEW w \in Worker, CountTask(p, w)
  PROVE  SearchInv'
<1>0. FleetTypeOK(Message) /\ TypeOK /\ Numbered
  BY DEF SearchInv, TypeOK
<1>1. /\ srv[p] = "open" /\ w \in toCount[p]
      /\ counts' = [counts EXCEPT
           ![p] = [less |-> counts[p].less + Less(numbers[p][w], asked[p]),
                   equal |-> counts[p].equal + Equal(numbers[p][w], asked[p])]]
      /\ toCount' = [toCount EXCEPT ![p] = toCount[p] \ {w}]
      /\ UNCHANGED <<fleetVars, numbers, asked, searchVars>>
  BY DEF CountTask
<1>2. /\ asked \in [Peer -> Int \cup {None}]
      /\ toCount \in [Peer -> SUBSET Worker]
      /\ counts \in [Peer -> [less : Nat, equal : Nat]]
      /\ guess \in Int /\ None \notin Int
  BY <1>0, KthAssumption DEF TypeOK
<1>3. Counting(p) /\ Searching
  <2>1. asked[p] # None
    BY <1>1 DEF SearchInv, NoneWaits
  <2>2. srv[p] # "none" /\ ~Quiet(p) /\ ~Telling(p) /\ ~ToAsk(p) /\ ~Answered(p)
    BY <1>1, <2>1 DEF Quiet, Telling, ToAsk, Answered
  <2>3. Searching
    BY <2>2 DEF SearchInv, StartPhase
  <2>4. Doing(p)
    BY <2>2, <2>3 DEF SearchInv, SearchPhase, Round, Doing
  <2> QED
    BY <2>2, <2>3, <2>4 DEF Doing
<1>4. asked[p] = guess
  BY <1>3 DEF Counting
<1> DEFINE W == Worker \ toCount[p]
<1>5. /\ Less(numbers[p][w], guess) = Cardinality(OfWorkers(p, {w}, Lower))
      /\ Equal(numbers[p][w], guess) = Cardinality(OfWorkers(p, {w}, Same))
  BY <1>0, WorkerCount DEF Lower, Same
<1>6. Lower \in SUBSET Places /\ Same \in SUBSET Places
  BY DEF Lower, Same, Below, At
<1>7. /\ Cardinality(OfWorkers(p, W \cup {w}, Lower)) =
           Cardinality(OfWorkers(p, W, Lower)) + Cardinality(OfWorkers(p, {w}, Lower))
      /\ Cardinality(OfWorkers(p, W \cup {w}, Same)) =
           Cardinality(OfWorkers(p, W, Same)) + Cardinality(OfWorkers(p, {w}, Same))
  <2>1. W \in SUBSET Worker /\ w \in Worker \ W
    BY <1>1
  <2> HIDE DEF W
  <2> QED
    BY <1>0, <1>6, <2>1, OneWorkerMore
<1>8. Cardinality(OfWorkers(p, {w}, Lower)) \in Nat /\ Cardinality(OfWorkers(p, {w}, Same)) \in Nat
  <2>1. OfWorkers(p, {w}, Lower) \in SUBSET Places /\ OfWorkers(p, {w}, Same) \in SUBSET Places
    BY <1>6 DEF OfWorkers
  <2> QED
    BY <1>0, <2>1, SubsetsFinite
<1>9. TypeOK'
  <2>1. FleetTypeOK(Message)'
    BY <1>0, <1>1 DEF FleetTypeOK, fleetVars
  <2>2. /\ toCount' \in [Peer -> SUBSET Worker]
        /\ counts' \in [Peer -> [less : Nat, equal : Nat]]
    BY <1>1, <1>2, <1>4, <1>5, <1>8
  <2> QED
    BY <1>0, <1>1, <2>1, <2>2 DEF TypeOK, searchVars
<1>10. /\ toCount'[p] = toCount[p] \ {w}
       /\ counts'[p] = [less |-> counts[p].less + Less(numbers[p][w], asked[p]),
                        equal |-> counts[p].equal + Equal(numbers[p][w], asked[p])]
       /\ \A q \in Peer \ {p} : toCount'[q] = toCount[q] /\ counts'[q] = counts[q]
  BY <1>1, <1>2
<1>11. /\ Lower' = Lower /\ Same' = Same /\ guess' = guess /\ asked' = asked
       /\ toClient' = toClient /\ toServer' = toServer /\ srv' = srv
  BY <1>1, SameNumbers DEF searchVars, fleetVars
<1>12. Worker \ toCount'[p] = W \cup {w}
  BY <1>1, <1>2, <1>10
<1>13. Counting(p)'
  <2> HIDE DEF W
  <2>1. counts[p] = [less |-> Cardinality(OfWorkers(p, W, Lower)),
                     equal |-> Cardinality(OfWorkers(p, W, Same))]
    BY <1>3 DEF Counting, W
  <2>2. counts'[p] = [less |-> Cardinality(OfWorkers(p, W \cup {w}, Lower)),
                      equal |-> Cardinality(OfWorkers(p, W \cup {w}, Same))]
    BY <1>4, <1>5, <1>7, <1>10, <2>1
  <2> QED
    BY <1>3, <1>11, <1>12, <2>2 DEF Counting
<1>14. ~Quiet(p) /\ asked'[p] # None
  BY <1>2, <1>4, <1>11 DEF Quiet
<1> QED
  BY <1>1, <1>3, <1>9, <1>10, <1>11, <1>13, <1>14, ServerStep DEF Doing

LEMMA SendAnswerInv ==
  ASSUME SearchInv, NEW p \in Peer, SendAnswer(p)
  PROVE  SearchInv'
<1>0. FleetTypeOK(Message) /\ TypeOK /\ Numbered
  BY DEF SearchInv, TypeOK
<1> DEFINE m == [kind |-> "answer", less |-> counts[p].less, equal |-> counts[p].equal]
<1>1. /\ srv[p] = "open" /\ asked[p] # None /\ toCount[p] = {}
      /\ toClient' = [toClient EXCEPT ![p] = Append(toClient[p], m)]
      /\ asked' = [asked EXCEPT ![p] = None]
      /\ UNCHANGED <<loop, conn, srv, toServer, failed, numbers, toCount, counts,
                     searchVars>>
  BY DEF SendAnswer, Answers
<1>2. /\ asked \in [Peer -> Int \cup {None}]
      /\ counts \in [Peer -> [less : Nat, equal : Nat]]
      /\ toClient \in [Peer -> Seq(Message)]
  BY <1>0 DEF TypeOK, FleetTypeOK
<1>3. Counting(p) /\ Searching
  <2>1. srv[p] # "none" /\ ~Quiet(p) /\ ~Telling(p) /\ ~ToAsk(p) /\ ~Answered(p)
    BY <1>1 DEF Quiet, Telling, ToAsk, Answered
  <2>2. Searching
    BY <2>1 DEF SearchInv, StartPhase
  <2>3. Doing(p)
    BY <2>1, <2>2 DEF SearchInv, SearchPhase, Round, Doing
  <2> QED
    BY <2>1, <2>2, <2>3 DEF Doing
<1>4. m \in Message
  BY <1>2 DEF Message
<1>5. TypeOK'
  <2>1. toClient' \in [Peer -> Seq(Message)]
    <3> HIDE DEF m
    <3> QED
      BY <1>1, <1>2, <1>4
  <2>2. FleetTypeOK(Message)'
    BY <1>0, <1>1, <2>1 DEF FleetTypeOK
  <2>3. asked' \in [Peer -> Int \cup {None}]
    BY <1>1, <1>2
  <2> QED
    BY <1>0, <1>1, <2>2, <2>3 DEF TypeOK, searchVars
<1>6. /\ toClient'[p] = Append(toClient[p], m) /\ asked'[p] = None
      /\ \A q \in Peer \ {p} : toClient'[q] = toClient[q] /\ asked'[q] = asked[q]
  BY <1>1, <1>2
<1>7. /\ Lower' = Lower /\ Same' = Same /\ guess' = guess /\ srv' = srv
      /\ toCount' = toCount /\ counts' = counts /\ toServer' = toServer
  BY <1>1, SameNumbers DEF searchVars
<1>8. m = [kind |-> "answer", less |-> Cardinality(Of({p}, Lower)),
           equal |-> Cardinality(Of({p}, Same))]
  <2>1. Lower \in SUBSET Places /\ Same \in SUBSET Places
    BY DEF Lower, Same, Below, At
  <2>2. OfWorkers(p, Worker, Lower) = Of({p}, Lower) /\ OfWorkers(p, Worker, Same) = Of({p}, Same)
    BY <2>1, NoneAndAll
  <2>3. Worker \ toCount[p] = Worker
    BY <1>1
  <2>4. counts[p] = [less |-> Cardinality(OfWorkers(p, Worker, Lower)),
                     equal |-> Cardinality(OfWorkers(p, Worker, Same))]
    BY <1>3, <2>3 DEF Counting
  <2>5. counts[p].less = Cardinality(Of({p}, Lower)) /\ counts[p].equal = Cardinality(Of({p}, Same))
    BY <2>2, <2>4
  <2> QED
    BY <2>5
<1>9. Answered(p)'
  <2> HIDE DEF m
  <2>1. toClient'[p] = <<m>>
    BY <1>3, <1>6 DEF Counting
  <2>2. toServer'[p] = <<>>
    BY <1>3, <1>7 DEF Counting
  <2> QED
    BY <1>6, <1>7, <1>8, <2>1, <2>2 DEF Answered
<1>10. ~Quiet(p) /\ toCount'[p] = {}
  BY <1>1 DEF Quiet
<1> QED
  BY <1>1, <1>3, <1>5, <1>6, <1>7, <1>9, <1>10, ServerStep DEF Doing

-----------------------------------------------------------------------------
(* The client's operations. *)

LEMMA MinMaxOfTwo ==
  ASSUME NEW a \in Int, NEW b \in Int
  PROVE  /\ Min({a, b}) \in Int /\ Min({a, b}) <= a /\ Min({a, b}) <= b
         /\ Max({a, b}) \in Int /\ a <= Max({a, b}) /\ b <= Max({a, b})
<1>1. \E x \in {a, b} : \A y \in {a, b} : x <= y
  OBVIOUS
<1>2. Min({a, b}) \in {a, b} /\ \A y \in {a, b} : Min({a, b}) <= y
  BY <1>1 DEF Min
<1>3. \E x \in {a, b} : \A y \in {a, b} : x >= y
  OBVIOUS
<1>4. Max({a, b}) \in {a, b} /\ \A y \in {a, b} : Max({a, b}) >= y
  BY <1>3 DEF Max
<1> QED
  BY <1>2, <1>4

\* When a guess is sent, a server is asked, or is out of reach.
LEMMA Asks ==
  ASSUME TypeOK, guess' \in Int, Query(guess'),
         \A q \in Peer : toClient'[q] = <<>> /\ toServer[q] = <<>> /\ asked'[q] = None
  PROVE  /\ \A q \in Peer : Doing(q)'
         /\ toServer' \in [Peer -> Seq(Message)]
<1> DEFINE m == [kind |-> "query", guess |-> guess']
<1>1. m \in Message
  BY DEF Message
<1> HIDE DEF m
<1>2. <<>> \o <<m>> = <<m>>
  OBVIOUS
<1>3. toServer' = [q \in Peer |-> IF conn[q] = "up" /\ srv[q] \in {"none", "open"}
                                  THEN toServer[q] \o <<m>> ELSE toServer[q]]
  BY DEF Query, Send, m
<1>4. \A q \in Peer : toServer'[q] = <<m>> \/ toServer'[q] = <<>>
  BY <1>2, <1>3
<1>5. \A q \in Peer : Doing(q)'
  BY <1>4 DEF Doing, Quiet, ToAsk, m
<1>6. <<>> \in Seq(Message) /\ <<m>> \in Seq(Message)
  BY <1>1
<1>7. toServer' \in [Peer -> Seq(Message)]
  BY <1>3, <1>4, <1>6
<1> QED
  BY <1>5, <1>7

LEMMA OnServerStateInv ==
  ASSUME SearchInv, NEW p \in Peer, OnServerState(p)
  PROVE  SearchInv'
<1>0. FleetTypeOK(Message) /\ TypeOK /\ Numbered
  BY DEF SearchInv, TypeOK
<1> DEFINE st == Head(toClient[p])
<1>1. /\ toClient[p] # <<>> /\ st.kind = "state"
      /\ toClient' = [toClient EXCEPT ![p] = Tail(toClient[p])]
      /\ told' = [servers |-> told.servers + 1, count |-> told.count + st.count,
                  min |-> Min({told.min, st.min}), max |-> Max({told.max, st.max})]
      /\ UNCHANGED <<loop, conn, srv, failed, serverVars, round, nIteration, found>>
  BY DEF OnServerState, Receives, FromServer
<1>2. IF told'.servers = Cardinality(Peer)
      THEN StartSearch(told')
      ELSE UNCHANGED <<toServer, kth, low, high, guess>>
  BY DEF OnServerState
<1>3. /\ toClient \in [Peer -> Seq(Message)] /\ toServer \in [Peer -> Seq(Message)]
      /\ told \in [servers : 0 .. Cardinality(Peer), count : Nat, min : Int, max : Int]
      /\ told.count \in Nat /\ told.min \in Int /\ told.max \in Int
      /\ kth \in Int
  BY <1>0 DEF TypeOK, FleetTypeOK
<1>4. ~Searching /\ ~Quiet(p)
  <2>1. ~Quiet(p) /\ ~ToAsk(p) /\ ~Counting(p)
    BY <1>1 DEF Quiet, ToAsk, Counting
  <2>2. ~Answered(p)
    BY <1>1 DEF Answered
  <2> QED
    BY <2>1, <2>2 DEF SearchInv, SearchPhase, Round, Doing
<1>5. PICK T \in SUBSET Peer : /\ Told(T)
                               /\ \A q \in T : Quiet(q)
                               /\ \A q \in Peer \ T : Quiet(q) \/ Telling(q)
  BY <1>4 DEF SearchInv, StartPhase
<1>6. p \notin T /\ Telling(p)
  BY <1>4, <1>5
<1>7. st = StateOf(p) /\ Tail(toClient[p]) = <<>>
  BY <1>6 DEF Telling, State
<1> HIDE DEF st
<1> DEFINE U == T \cup {p}
<1>8. /\ st.count \in Nat /\ st.min \in Int /\ st.max \in Int
      /\ st.count = Cardinality(Of({p}, Places))
      /\ \A a \in Of({p}, Places) : st.min <= NumberAt(a) /\ NumberAt(a) <= st.max
  BY <1>0, <1>7, ServerState
<1>9. /\ told'.servers = told.servers + 1 /\ told'.count = told.count + st.count
      /\ told'.min \in Int /\ told'.min <= told.min /\ told'.min <= st.min
      /\ told'.max \in Int /\ told.max <= told'.max /\ st.max <= told'.max
  BY <1>1, <1>3, <1>8, MinMaxOfTwo
<1>10. /\ IsFiniteSet(U) /\ Cardinality(U) = told'.servers
       /\ Cardinality(U) <= Cardinality(Peer)
       /\ Cardinality(U) = Cardinality(Peer) => U = Peer
  <2>1. IsFiniteSet(T) /\ Cardinality(T) \in Nat
    BY Finite, FS_Subset, FS_CardinalityType
  <2>2. IsFiniteSet(U) /\ Cardinality(U) = Cardinality(T) + 1
    BY <1>6, <2>1, FS_AddElement
  <2>3. U \in SUBSET Peer
    OBVIOUS
  <2> QED
    BY <1>5, <1>9, <2>2, <2>3, Finite, FS_Subset DEF Told
<1>11. Cardinality(Of(U, Places)) = told'.count
  BY <1>0, <1>5, <1>6, <1>8, <1>9, OneServerMore DEF Told
<1>12. \A a \in Of(U, Places) : told'.min <= NumberAt(a) /\ NumberAt(a) <= told'.max
  <2> SUFFICES ASSUME NEW a \in Of(U, Places)
               PROVE  told'.min <= NumberAt(a) /\ NumberAt(a) <= told'.max
    OBVIOUS
  <2>1. NumberAt(a) \in Int
    BY <1>0, NumbersAreInt DEF Of
  <2>2. CASE a \in Of(T, Places)
    <3>1. told.min <= NumberAt(a) /\ NumberAt(a) <= told.max
      BY <1>5, <2>2 DEF Told
    <3> QED
      BY <1>3, <1>9, <2>1, <3>1
  <2>3. CASE a \in Of({p}, Places)
    <3>1. st.min <= NumberAt(a) /\ NumberAt(a) <= st.max
      BY <1>8, <2>3
    <3> QED
      BY <1>8, <1>9, <2>1, <3>1
  <2> QED
    BY <2>2, <2>3 DEF Of
<1>13. /\ Places' = Places /\ State' = State /\ Numbered'
       /\ \A x : Below(x)' = Below(x) /\ At(x)' = At(x)
       /\ \A a : NumberAt(a)' = NumberAt(a)
  BY <1>0, <1>1, SameNumbers DEF serverVars, NumberAt
<1>14. Told(U)'
  <2>1. \A q \in U : srv'[q] # "none"
    BY <1>1, <1>5, <1>6 DEF Told, Telling
  <2>2. Of(U, Places)' = Of(U, Places)
    BY <1>13 DEF Of
  <2> QED
    BY <1>10, <1>11, <1>12, <1>13, <2>1, <2>2 DEF Told
<1>15. /\ toClient'[p] = <<>> /\ \A q \in Peer \ {p} : toClient'[q] = toClient[q]
       /\ toClient' \in [Peer -> Seq(Message)] /\ asked' = asked
  <2>1. <<>> \in Seq(Message)
    OBVIOUS
  <2> QED
    BY <1>1, <1>3, <1>7, <2>1 DEF serverVars
<1>16. /\ round' = NewRound /\ nIteration' = 0 /\ found' = None
  BY <1>1, <1>4 DEF SearchInv, StartPhase
<1>17. told' \in [servers : 0 .. Cardinality(Peer), count : Nat, min : Int, max : Int]
  <2>1. told.servers + 1 \in 0 .. Cardinality(Peer)
    BY <1>3, <1>9, <1>10, Finite
  <2>2. told.count + st.count \in Nat
    BY <1>3, <1>8
  <2> QED
    BY <1>1, <1>9, <2>1, <2>2
<1>18. NoneWaits'
  BY <1>1 DEF SearchInv, NoneWaits, serverVars
<1> HIDE DEF U
<1>19. CASE told'.servers # Cardinality(Peer)
  <2>1. UNCHANGED <<toServer, kth, low, high, guess>>
    BY <1>2, <1>19
  <2>2. TypeOK'
    <3>1. FleetTypeOK(Message)'
      BY <1>0, <1>1, <1>15, <2>1 DEF FleetTypeOK
    <3> QED
      BY <1>0, <1>1, <1>17, <2>1, <3>1 DEF TypeOK, serverVars
  <2>3. \A q \in U : Quiet(q)'
    <3> SUFFICES ASSUME NEW q \in U PROVE Quiet(q)'
      OBVIOUS
    <3>1. CASE q = p
      BY <1>6, <1>15, <2>1, <3>1 DEF Quiet, Telling
    <3>2. CASE q # p
      BY <1>5, <1>15, <2>1, <3>2 DEF Quiet, U
    <3> QED
      BY <3>1, <3>2
  <2>4. \A q \in Peer \ U : Quiet(q)' \/ Telling(q)'
    <3> SUFFICES ASSUME NEW q \in Peer \ U PROVE Quiet(q)' \/ Telling(q)'
      OBVIOUS
    <3>1. Quiet(q) \/ Telling(q)
      BY <1>5 DEF U
    <3>2. q \in Peer \ {p} /\ srv' = srv
      BY <1>1 DEF U
    <3> QED
      BY <1>13, <1>15, <2>1, <3>1, <3>2 DEF Quiet, Telling
  <2>5. U \in SUBSET Peer
    BY DEF U
  <2>6. ~Searching' /\ NewRound' = NewRound
    BY <1>19 DEF Searching, NewRound
  <2>7. StartPhase'
    BY <1>14, <1>16, <2>3, <2>4, <2>5, <2>6 DEF StartPhase
  <2> QED
    BY <1>13, <1>18, <2>2, <2>6, <2>7 DEF SearchInv, SearchPhase
<1>20. CASE told'.servers = Cardinality(Peer)
  <2>1. /\ low' = told'.min /\ high' = told'.max
        /\ guess' = low' + (high' - low') \div 2
        /\ kth' = IF kth <= 0 THEN (told'.count + 1) \div 2
                  ELSE IF kth > told'.count THEN told'.count ELSE kth
        /\ Query(guess')
    BY <1>2, <1>20 DEF StartSearch
  <2>2. U = Peer
    BY <1>10, <1>20
  <2>3. Of(U, Places) = Places
    BY <1>6, <2>2, NoneAndAll
  <2>4. told'.count = Cardinality(Places) /\ told'.count \in Nat \ {0}
    <3>1. Places # {}
      <4>1. PICK w \in Worker : numbers[p][w] # <<>>
        BY <1>0 DEF Numbered
      <4>2. numbers[p][w] \in Seq(Int)
        BY <1>0 DEF Numbered
      <4>3. 1 \in DOMAIN numbers[p][w]
        BY <4>1, <4>2
      <4>4. <<p, <<w, 1>>>> \in Places
        BY <4>3, PlacesAre, PlacesOfAre
      <4> QED
        BY <4>4
    <3>2. IsFiniteSet(Places)
      BY <1>0, PlacesFinite
    <3> QED
      BY <1>11, <2>3, <3>1, <3>2, FS_EmptySet, FS_CardinalityType
  <2>5. /\ low' \in Int /\ high' \in Int /\ guess' \in Int
        /\ kth' \in 1..Cardinality(Places)
    <3>1. low' \in Int /\ high' \in Int
      BY <1>9, <2>1
    <3>2. PICK n \in Nat \ {0} : n = told'.count /\ n = Cardinality(Places)
      BY <2>4
    <3>3. kth' = IF kth <= 0 THEN (n + 1) \div 2 ELSE IF kth > n THEN n ELSE kth
      BY <2>1, <3>2
    <3>4. (n + 1) \div 2 \in 1..n
      OBVIOUS
    <3>5. kth' \in 1..n
      BY <1>3, <3>3, <3>4
    <3> QED
      BY <2>1, <3>1, <3>2, <3>5
  <2>6. (\E x \in low .. high : IsKth(x))'
    <3>1. PICK lo \in Int, hi \in Int, k \in 1..Cardinality(Places) :
                 lo = low' /\ hi = high' /\ k = kth'
      BY <2>5
    <3>2. \A a \in Places : lo <= NumberAt(a) /\ NumberAt(a) <= hi
      BY <1>12, <2>1, <2>3, <3>1
    <3>3. \E x \in lo..hi : /\ Cardinality(Below(x)) < k
                            /\ k <= Cardinality(Below(x)) + Cardinality(At(x))
      BY <1>0, <3>2, KthExists
    <3> QED
      BY <1>13, <3>1, <3>3 DEF IsKth
  <2>7. \A q \in Peer : toClient'[q] = <<>> /\ toServer[q] = <<>> /\ asked'[q] = None
    <3> SUFFICES ASSUME NEW q \in Peer
                 PROVE  toClient'[q] = <<>> /\ toServer[q] = <<>> /\ asked'[q] = None
      OBVIOUS
    <3>1. CASE q = p
      BY <1>6, <1>15, <3>1 DEF Telling
    <3>2. CASE q # p
      BY <1>5, <1>15, <2>2, <3>2 DEF Quiet, U
    <3> QED
      BY <3>1, <3>2
  <2>8. (\A q \in Peer : Doing(q)') /\ toServer' \in [Peer -> Seq(Message)]
    BY <1>0, <2>1, <2>5, <2>7, Asks
  <2>9. TypeOK'
    <3>1. FleetTypeOK(Message)'
      BY <1>0, <1>1, <1>15, <2>8 DEF FleetTypeOK
    <3>2. kth' \in Int
      BY <2>4, <2>5
    <3> QED
      BY <1>0, <1>1, <1>17, <2>5, <3>1, <3>2 DEF TypeOK, serverVars
  <2>10. Round({})'
    <3>1. Of({}, Lower') = {} /\ Of({}, Same') = {}
      BY DEF Of
    <3> QED
      BY <1>16, <2>8, <3>1, Finite, FS_EmptySet DEF Round, NewRound
  <2>11. SearchPhase'
    BY <1>14, <1>16, <2>1, <2>2, <2>6, <2>10 DEF SearchPhase
  <2>12. Searching'
    BY <1>20 DEF Searching
  <2> QED
    BY <1>13, <1>18, <2>9, <2>11, <2>12 DEF SearchInv, StartPhase
<1> QED
  BY <1>19, <1>20

\* What the last answer of a round tells.
LEMMA AnswerSums ==
  ASSUME SearchInv, NEW p \in Peer, toClient[p] # <<>>,
         Head(toClient[p]).kind = "answer"
  PROVE  /\ Searching /\ Answered(p) /\ found = None
         /\ \E A \in SUBSET Peer :
              /\ Round(A) /\ p \notin A
              /\ round.less + Head(toClient[p]).less =
                   Cardinality(Of(A \cup {p}, Lower))
              /\ round.equal + Head(toClient[p]).equal =
                   Cardinality(Of(A \cup {p}, Same))
              /\ round.answered + 1 = Cardinality(A \cup {p})
              /\ round.answered + 1 = Cardinality(Peer) <=> A \cup {p} = Peer
              /\ Cardinality(A \cup {p}) \in 0 .. Cardinality(Peer)
<1>1. Numbered /\ IsFiniteSet(Peer)
  BY Finite DEF SearchInv
<1>2. ~Quiet(p) /\ ~ToAsk(p) /\ ~Counting(p)
  BY DEF Quiet, ToAsk, Counting
<1>3. ~Telling(p)
  <2> SUFFICES ASSUME Telling(p) PROVE FALSE
    OBVIOUS
  <2>1. Head(toClient[p]) = StateOf(p)
    BY DEF Telling, State
  <2> QED
    BY <2>1 DEF StateOf
<1>4. Searching
  BY <1>2, <1>3 DEF SearchInv, StartPhase
<1>5. PICK A \in SUBSET Peer : Round(A)
  BY <1>4 DEF SearchInv, SearchPhase
<1>6. p \notin A /\ Answered(p)
  BY <1>2, <1>5 DEF Round, Doing
<1>7. found = None
  BY <1>5, <1>6 DEF Round
<1>8. /\ Head(toClient[p]).less = Cardinality(Of({p}, Lower))
      /\ Head(toClient[p]).equal = Cardinality(Of({p}, Same))
  BY <1>6 DEF Answered
<1>9. /\ round.less = Cardinality(Of(A, Lower)) /\ round.equal = Cardinality(Of(A, Same))
      /\ round.answered = Cardinality(A)
  BY <1>5 DEF Round
<1>10. /\ Cardinality(Of(A \cup {p}, Lower)) =
            Cardinality(Of(A, Lower)) + Cardinality(Of({p}, Lower))
       /\ Cardinality(Of(A \cup {p}, Same)) =
            Cardinality(Of(A, Same)) + Cardinality(Of({p}, Same))
  <2>1. Lower \in SUBSET Places /\ Same \in SUBSET Places
    BY DEF Lower, Same, Below, At
  <2> QED
    BY <1>1, <1>6, <2>1, OneServerMore
<1>11. /\ IsFiniteSet(A) /\ Cardinality(A) \in Nat /\ A \cup {p} \in SUBSET Peer
  BY <1>1, FS_Subset, FS_CardinalityType
<1>12. IsFiniteSet(A \cup {p}) /\ Cardinality(A \cup {p}) = Cardinality(A) + 1
  BY <1>6, <1>11, FS_AddElement
<1>13. /\ Cardinality(A \cup {p}) <= Cardinality(Peer)
       /\ Cardinality(Peer) = Cardinality(A \cup {p}) => Peer = A \cup {p}
  BY <1>1, <1>11, FS_Subset
<1>14. /\ round.answered + 1 = Cardinality(Peer) <=> A \cup {p} = Peer
       /\ Cardinality(A \cup {p}) \in 0 .. Cardinality(Peer)
  <2>1. round.answered + 1 = Cardinality(A \cup {p})
    BY <1>9, <1>12
  <2>2. Cardinality(A \cup {p}) = Cardinality(Peer) <=> A \cup {p} = Peer
    BY <1>13, Zenon
  <2>3. Cardinality(A \cup {p}) \in 0 .. Cardinality(Peer)
    BY <1>11, <1>12, <1>13, Finite
  <2> QED
    BY <2>1, <2>2, <2>3
<1> QED
  BY <1>4, <1>5, <1>6, <1>7, <1>8, <1>9, <1>10, <1>12, <1>14

LEMMA OnAnswerInv ==
  ASSUME SearchInv, NEW p \in Peer, OnAnswer(p)
  PROVE  SearchInv'
<1>0. FleetTypeOK(Message) /\ TypeOK /\ Numbered
  BY DEF SearchInv, TypeOK
<1> DEFINE answer == Head(toClient[p])
           sum == [less |-> round.less + answer.less,
                   equal |-> round.equal + answer.equal,
                   answered |-> round.answered + 1]
<1>1. /\ toClient[p] # <<>> /\ answer.kind = "answer"
      /\ toClient' = [toClient EXCEPT ![p] = Tail(toClient[p])]
      /\ UNCHANGED <<srv, failed, serverVars, kth, told>>
  BY DEF OnAnswer, Receives, FromServer
<1>2. IF sum.answered # Cardinality(Peer)
      THEN /\ round' = sum
           /\ UNCHANGED <<loop, conn, toServer, low, high, guess, nIteration, found>>
      ELSE /\ nIteration' = nIteration + 1
           /\ IF sum.less < kth /\ sum.less + sum.equal >= kth
              THEN Report(p, sum)
              ELSE NextRound(sum)
  BY DEF OnAnswer, FromServer
<1>3. Searching /\ Answered(p) /\ found = None
  BY <1>1, AnswerSums
<1>4. PICK A \in SUBSET Peer :
        /\ Round(A) /\ p \notin A
        /\ round.less + answer.less = Cardinality(Of(A \cup {p}, Lower))
        /\ round.equal + answer.equal = Cardinality(Of(A \cup {p}, Same))
        /\ round.answered + 1 = Cardinality(A \cup {p})
        /\ round.answered + 1 = Cardinality(Peer) <=> A \cup {p} = Peer
        /\ Cardinality(A \cup {p}) \in 0 .. Cardinality(Peer)
  BY <1>1, AnswerSums
<1> DEFINE B == A \cup {p}
<1>5. sum = [less |-> Cardinality(Of(B, Lower)), equal |-> Cardinality(Of(B, Same)),
             answered |-> Cardinality(B)]
  BY <1>4
<1>6. sum.answered = Cardinality(Peer) <=> B = Peer
  BY <1>4
<1> HIDE DEF sum, answer
<1>7. /\ toClient \in [Peer -> Seq(Message)] /\ toServer \in [Peer -> Seq(Message)]
      /\ conn \in [Peer -> {"connecting", "retrying", "up", "shut", "down"}]
      /\ {low, high, guess} \subseteq Int /\ kth \in Int /\ nIteration \in Nat
      /\ None \notin Int
  BY <1>0, KthAssumption DEF TypeOK, FleetTypeOK
<1>8. /\ toClient'[p] = <<>> /\ \A q \in Peer \ {p} : toClient'[q] = toClient[q]
      /\ toClient' \in [Peer -> Seq(Message)]
      /\ asked' = asked /\ toCount' = toCount /\ counts' = counts /\ numbers' = numbers
  <2>1. <<>> \in Seq(Message) /\ Tail(toClient[p]) = <<>>
    BY <1>3 DEF Answered
  <2> QED
    BY <1>1, <1>7, <2>1 DEF serverVars
<1>9. /\ Places' = Places /\ State' = State /\ Numbered'
      /\ \A x : Below(x)' = Below(x) /\ At(x)' = At(x)
      /\ \A a : NumberAt(a)' = NumberAt(a)
  BY <1>0, <1>8, SameNumbers DEF NumberAt
<1>10. Told(Peer)' /\ Searching'
  <2>1. Told(Peer)
    BY <1>3 DEF SearchInv, SearchPhase
  <2>2. Of(Peer, Places)' = Of(Peer, Places) /\ told' = told /\ srv' = srv
    BY <1>1, <1>9 DEF Of
  <2> QED
    BY <1>3, <1>9, <2>1, <2>2 DEF Told, Searching
<1>11. NoneWaits'
  BY <1>8 DEF SearchInv, NoneWaits
<1>12. sum \in [less : Nat, equal : Nat, answered : 0 .. Cardinality(Peer)]
  <2>1. Of(B, Lower) \in SUBSET Places /\ Of(B, Same) \in SUBSET Places
    BY DEF Of, Lower, Same, Below, At
  <2>2. Cardinality(Of(B, Lower)) \in Nat /\ Cardinality(Of(B, Same)) \in Nat
    BY <1>0, <2>1, SubsetsFinite
  <2> QED
    BY <1>4, <1>5, <2>2
<1> HIDE DEF B
<1>13. \A q \in Peer : q \in B => toClient'[q] = <<>> /\ toServer[q] = <<>> /\ asked'[q] = None
  <2> SUFFICES ASSUME NEW q \in Peer, q \in B
               PROVE  toClient'[q] = <<>> /\ toServer[q] = <<>> /\ asked'[q] = None
    OBVIOUS
  <2>1. CASE q = p
    BY <1>3, <1>8, <2>1 DEF Answered
  <2>2. CASE q # p
    <3>1. Quiet(q)
      BY <1>4, <2>2 DEF Round, B
    <3> QED
      BY <1>8, <2>2, <3>1 DEF Quiet
  <2> QED
    BY <2>1, <2>2
<1>14. PICK x \in low .. high : IsKth(x)
  BY <1>3 DEF SearchInv, SearchPhase
<1>15. x \in Int /\ low \in Int /\ high \in Int /\ guess \in Int
  BY <1>7
<1>16. CASE sum.answered # Cardinality(Peer)
  <2>1. /\ round' = sum
        /\ UNCHANGED <<loop, conn, toServer, low, high, guess, nIteration, found>>
    BY <1>2, <1>16
  <2>2. Lower' = Lower /\ Same' = Same
    BY <1>8, <2>1, SameNumbers
  <2>3. TypeOK'
    <3>1. FleetTypeOK(Message)'
      BY <1>0, <1>1, <1>8, <2>1 DEF FleetTypeOK
    <3> QED
      BY <1>0, <1>1, <1>8, <1>12, <2>1, <3>1 DEF TypeOK
  <2>4. \A q \in B : Quiet(q)'
    BY <1>4, <1>13, <2>1 DEF Quiet, B
  <2>5. \A q \in Peer \ B : Doing(q)'
    <3> SUFFICES ASSUME NEW q \in Peer \ B PROVE Doing(q)'
      OBVIOUS
    <3>1. q # p /\ Doing(q)
      BY <1>4 DEF Round, B
    <3> QED
      BY <1>8, <2>1, <2>2, <3>1 DEF Doing, Quiet, ToAsk, Counting, Answered
  <2>6. B \in SUBSET Peer /\ B # Peer /\ found' = None
    BY <1>3, <1>6, <1>16, <2>1 DEF B
  <2>7. Round(B)'
    BY <1>5, <2>1, <2>2, <2>4, <2>5, <2>6 DEF Round
  <2>8. (\E y \in low .. high : IsKth(y))'
    BY <1>1, <1>9, <1>14, <2>1 DEF IsKth
  <2>9. guess' = low' + (high' - low') \div 2
    BY <1>3, <2>1 DEF SearchInv, SearchPhase
  <2>10. SearchPhase'
    BY <1>10, <2>6, <2>7, <2>8, <2>9 DEF SearchPhase
  <2> QED
    BY <1>9, <1>10, <1>11, <2>3, <2>10 DEF SearchInv, StartPhase
<1>17. CASE sum.answered = Cardinality(Peer)
  <2>1. B = Peer
    BY <1>6, <1>17
  <2>2. /\ sum.less = Cardinality(Below(guess)) /\ sum.equal = Cardinality(At(guess))
        /\ sum = [less |-> Cardinality(Of(Peer, Lower)),
                  equal |-> Cardinality(Of(Peer, Same)), answered |-> Cardinality(Peer)]
    <3>1. Lower \in SUBSET Places /\ Same \in SUBSET Places
      BY DEF Lower, Same, Below, At
    <3>2. Of(Peer, Lower) = Lower /\ Of(Peer, Same) = Same
      BY <1>4, <3>1, NoneAndAll
    <3> QED
      BY <1>5, <2>1, <3>2 DEF Lower, Same
  <2>3. /\ nIteration' = nIteration + 1
        /\ IF sum.less < kth /\ sum.less + sum.equal >= kth
           THEN Report(p, sum)
           ELSE NextRound(sum)
    BY <1>2, <1>17
  <2>4. \A q \in Peer : toClient'[q] = <<>> /\ toServer[q] = <<>> /\ asked'[q] = None
    BY <1>13, <2>1
  <2>5. Cardinality(Below(guess)) \in Nat /\ Cardinality(At(guess)) \in Nat
    BY <1>0, <1>15, Counts
  <2>6. IsKth(guess) <=> (sum.less < kth /\ sum.less + sum.equal >= kth)
    BY <1>7, <2>2, <2>5 DEF IsKth
  <2>7. CASE IsKth(guess)
    <3>1. /\ found' = guess /\ conn' = [conn EXCEPT ![p] = "shut"] /\ loop' = loop
          /\ round' = sum /\ UNCHANGED <<toServer, low, high, guess>>
      BY <2>3, <2>6, <2>7 DEF Report, Shutdown
    <3>2. Lower' = Lower /\ Same' = Same
      BY <1>8, <3>1, SameNumbers
    <3>3. TypeOK'
      <4>1. conn' \in [Peer -> {"connecting", "retrying", "up", "shut", "down"}]
        BY <1>7, <3>1
      <4>2. FleetTypeOK(Message)'
        BY <1>0, <1>1, <1>8, <3>1, <4>1 DEF FleetTypeOK
      <4>3. found' \in Int \cup {None} /\ nIteration' \in Nat
        BY <1>7, <2>3, <3>1
      <4> QED
        BY <1>0, <1>1, <1>8, <1>12, <3>1, <4>2, <4>3 DEF TypeOK
    <3>4. found' # None /\ found' = guess'
      BY <1>7, <3>1
    <3>5. Round(Peer)'
      <4>1. \A q \in Peer : Quiet(q)'
        BY <2>4, <3>1 DEF Quiet
      <4> QED
        BY <2>2, <3>1, <3>2, <3>4, <4>1 DEF Round
    <3>6. (\E y \in low .. high : IsKth(y))' /\ IsKth(guess)'
      <4>1. \A y : IsKth(y) => IsKth(y)'
        BY <1>1, <1>9 DEF IsKth
      <4>2. (\E y \in low .. high : IsKth(y))'
        BY <1>14, <3>1, <4>1
      <4>3. IsKth(guess)'
        BY <1>1, <2>7, <3>1, <3>2 DEF IsKth, Lower, Same
      <4> QED
        BY <4>2, <4>3
    <3>7. SearchPhase'
      BY <1>10, <3>4, <3>5, <3>6 DEF SearchPhase
    <3> QED
      BY <1>9, <1>10, <1>11, <3>3, <3>7 DEF SearchInv, StartPhase
  <2>8. CASE ~IsKth(guess)
    <3>1. /\ NarrowTo(sum) /\ guess' = low' + (high' - low') \div 2 /\ Query(guess')
          /\ round' = NewRound /\ UNCHANGED <<loop, conn, found>>
      BY <2>3, <2>6, <2>8 DEF NextRound
    <3>2. IF sum.less < kth THEN guess < x ELSE x < guess
      BY <1>0, <1>7, <1>14, <1>15, <2>2, <2>8, Side
    <3>3. low' \in Int /\ high' \in Int /\ guess' \in Int /\ x \in low' .. high'
      <4>1. CASE sum.less < kth
        <5>1. low' = guess + 1 /\ high' = high
          BY <3>1, <4>1 DEF NarrowTo
        <5> QED
          BY <1>14, <1>15, <3>1, <3>2, <4>1, <5>1
      <4>2. CASE ~(sum.less < kth)
        <5>1. high' = guess - 1 /\ low' = low
          BY <3>1, <4>2 DEF NarrowTo
        <5> QED
          BY <1>14, <1>15, <3>1, <3>2, <4>2, <5>1
      <4> QED
        BY <4>1, <4>2
    <3>4. (\A q \in Peer : Doing(q)') /\ toServer' \in [Peer -> Seq(Message)]
      BY <1>0, <2>4, <3>1, <3>3, Asks
    <3>5. TypeOK'
      <4>1. FleetTypeOK(Message)'
        BY <1>0, <1>1, <1>8, <3>1, <3>4 DEF FleetTypeOK
      <4>2. nIteration' \in Nat
        BY <1>7, <2>3
      <4>3. NewRound \in [less : Nat, equal : Nat, answered : 0 .. Cardinality(Peer)]
        BY Finite DEF NewRound
      <4> QED
        BY <1>0, <1>1, <1>8, <3>1, <3>3, <4>1, <4>2, <4>3 DEF TypeOK
    <3>6. found' = None
      BY <1>3, <3>1
    <3>7. Round({})'
      <4>1. Of({}, Lower') = {} /\ Of({}, Same') = {}
        BY DEF Of
      <4> QED
        BY <3>1, <3>4, <3>6, <4>1, Finite, FS_EmptySet DEF Round, NewRound
    <3>8. (\E y \in low .. high : IsKth(y))'
      BY <1>1, <1>9, <1>14, <3>3 DEF IsKth
    <3>9. SearchPhase'
      BY <1>10, <3>1, <3>6, <3>7, <3>8 DEF SearchPhase
    <3> QED
      BY <1>9, <1>10, <1>11, <3>5, <3>9 DEF SearchInv, StartPhase
  <2> QED
    BY <2>7, <2>8
<1> QED
  BY <1>16, <1>17

-----------------------------------------------------------------------------
(* The theorems. *)

LEMMA StepInv ==
  ASSUME SearchInv, [Next]_vars
  PROVE  SearchInv'
<1>1. CASE FleetNext /\ SearchUnchanged
  BY <1>1, FleetInv
<1>2. ASSUME NEW p \in Peer, Steps(p) PROVE SearchInv'
  BY <1>2, ServerAcceptsInv, OnQueryInv, SendAnswerInv, ServerEndsInv, CountTaskInv,
     OnServerStateInv, OnAnswerInv DEF Steps
<1>3. CASE UNCHANGED vars
  <2>0. FleetTypeOK(Message) /\ TypeOK
    BY DEF SearchInv, TypeOK
  <2>1. UNCHANGED <<fleetVars, serverVars, searchVars>>
    BY <1>3 DEF vars
  <2>2. FleetTypeOK(Message)'
    BY <2>0, <2>1 DEF FleetTypeOK, fleetVars
  <2>3. TypeOK'
    BY <2>0, <2>1, <2>2 DEF TypeOK, serverVars, searchVars
  <2>4. PICK p \in Peer : TRUE
    BY Finite
  <2>5. /\ UNCHANGED <<numbers, searchVars>> /\ UNCHANGED <<toClient, toServer, srv>>
        /\ asked' = asked /\ toCount' = toCount /\ counts' = counts
        /\ State' = State /\ Lower' = Lower /\ Same' = Same /\ guess' = guess
    BY <2>1, SameNumbers DEF fleetVars, serverVars, searchVars
  <2>6. /\ Quiet(p)' <=> Quiet(p)
        /\ Telling(p)' <=> Telling(p)
        /\ Doing(p)' <=> Doing(p)
    BY <2>5 DEF Quiet, Telling, Doing, ToAsk, Counting, Answered
  <2>7. asked'[p] = None => toCount'[p] = {}
    BY <2>5 DEF SearchInv, NoneWaits
  <2> QED
    BY <2>3, <2>5, <2>6, <2>7, ServerStep
<1> QED
  BY <1>1, <1>2, <1>3 DEF Next

LEMMA Invariance == Spec => []SearchInv
<1>1. SearchInv /\ [Next]_vars => SearchInv'
  BY StepInv
<1> QED
  BY <1>1, InitInv, PTL DEF Spec

\* The type invariant of the search, for any servers and numbers.
THEOREM TypeCorrect == Spec => []TypeOK
<1>1. SearchInv => TypeOK
  BY DEF SearchInv
<1> QED
  BY <1>1, Invariance, PTL

\* The element stays in the interval, whatever servers are lost and in whatever
\* order answers come, and what is reported is that element (KthClient.cc:119-149).
THEOREM ElementStaysInRange == Spec => []SoughtInRange
<1>1. SearchInv => SoughtInRange
  <2> SUFFICES ASSUME SearchInv, Searching
               PROVE  \E x \in low .. high : IsKth(x) /\ (found # None => found = x)
    BY DEF SoughtInRange, Searching
  <2>1. PICK x \in low .. high : IsKth(x)
    BY DEF SearchInv, SearchPhase
  <2>2. {low, high, guess} \subseteq Int /\ kth \in Int /\ Numbered
    BY DEF SearchInv, TypeOK
  <2>3. x \in Int /\ guess \in Int
    BY <2>2
  <2>4. found # None => found = x
    BY <2>1, <2>2, <2>3, KthIsOne DEF SearchInv, SearchPhase
  <2> QED
    BY <2>1, <2>4
<1> QED
  BY <1>1, Invariance, PTL

\* An interval of which a half is left.
LEMMA Half ==
  ASSUME NEW l \in Int, NEW h \in Int, NEW x \in l .. h, NEW g \in Int,
         g = l + (h - l) \div 2
  PROVE  /\ 2 * (h - (g + 1) + 1) <= h - l + 1
         /\ 2 * ((g - 1) - l + 1) <= h - l + 1
  OBVIOUS

\* As much as the interval, with its power of two.
LEMMA Scaled ==
  ASSUME NEW s \in Int, NEW t \in Int, 2 * t <= s, NEW n \in Nat, NEW bound \in Int,
         s * 2^n <= bound
  PROVE  t * 2^(n + 1) <= bound
<1>1. 2^n \in Nat /\ 2^(n + 1) = 2^n + 2^n
  BY Doubling
<1>2. PICK c \in Nat : c = 2^n
  BY <1>1
<1>3. 2^(n + 1) = c + c
  BY <1>1, <1>2
<1>4. s * c <= bound
  BY <1>2
<1>5. (2 * t) * c <= s * c
  OBVIOUS
<1>6. t * (c + c) = (2 * t) * c
  OBVIOUS
<1>7. t * (c + c) <= bound
  BY <1>4, <1>5, <1>6
<1> QED
  BY <1>3, <1>7

LEMMA NoDoubling == 2^0 = 1
<1>1. IsFiniteSet({}) /\ Cardinality({}) = 0
  BY FS_EmptySet
<1>2. Cardinality(SUBSET {}) = 2^Cardinality({})
  BY <1>1, FS_SUBSET
<1>3. SUBSET {} = {{}}
  OBVIOUS
<1>4. Cardinality({{}}) = 1
  BY FS_Singleton
<1> QED
  BY <1>1, <1>2, <1>3, <1>4, Zenon

LEMMA HalvesInit == Init => Halves
<1> SUFFICES ASSUME Init PROVE Halves
  OBVIOUS
<1>1. told.servers = 0
  BY DEF Init
<1>2. Cardinality(Peer) # 0
  BY Finite, FS_EmptySet
<1> QED
  BY <1>1, <1>2 DEF Halves

LEMMA HalvesStep ==
  ASSUME SearchInv, SearchInv', Halves, [Next]_vars
  PROVE  Halves'
<1>1. CASE UNCHANGED searchVars
  BY <1>1 DEF Halves, searchVars
<1>2. ASSUME NEW p \in Peer, OnServerState(p) PROVE Halves'
  <2> SUFFICES ASSUME Searching', found' = None
               PROVE  (high' - low' + 1) * 2^nIteration' <= told'.max - told'.min + 1
    BY DEF Halves, Searching
  <2>1. toClient[p] # <<>> /\ Head(toClient[p]).kind = "state"
    BY <1>2 DEF OnServerState, Receives, FromServer
  <2>2. ~Searching
    <3>1. ~Quiet(p) /\ ~ToAsk(p) /\ ~Counting(p)
      BY <2>1 DEF Quiet, ToAsk, Counting
    <3>2. ~Answered(p)
      BY <2>1 DEF Answered
    <3> QED
      BY <3>1, <3>2 DEF SearchInv, SearchPhase, Round, Doing
  <2>3. nIteration' = 0
    BY <1>2, <2>2 DEF SearchInv, StartPhase, OnServerState
  <2>4. low' = told'.min /\ high' = told'.max
    BY <1>2 DEF OnServerState, StartSearch, Searching
  <2>5. told'.min \in Int /\ told'.max \in Int
    BY DEF SearchInv, TypeOK
  <2>6. (high' - low' + 1) * 1 <= told'.max - told'.min + 1
    BY <2>4, <2>5
  <2> QED
    BY <2>3, <2>6, NoDoubling
<1>3. ASSUME NEW p \in Peer, OnAnswer(p) PROVE Halves'
  <2> SUFFICES ASSUME Searching', found' = None
               PROVE  (high' - low' + 1) * 2^nIteration' <= told'.max - told'.min + 1
    BY DEF Halves, Searching
  <2>1. toClient[p] # <<>> /\ Head(toClient[p]).kind = "answer" /\ told' = told
    BY <1>3 DEF OnAnswer, Receives, FromServer
  <2>2. Searching /\ found = None
    BY <2>1, AnswerSums
  <2>3. (high - low + 1) * 2^nIteration <= told.max - told.min + 1
    BY <2>2 DEF Halves, Searching
  <2>4. /\ {low, high, guess} \subseteq Int /\ nIteration \in Nat /\ None \notin Int
        /\ told.max \in Int /\ told.min \in Int
    BY KthAssumption DEF SearchInv, TypeOK
  <2>5. CASE UNCHANGED <<low, high, nIteration>>
    BY <2>1, <2>3, <2>5
  <2>6. ASSUME NEW sum, NextRound(sum), nIteration' = nIteration + 1
        PROVE  (high' - low' + 1) * 2^nIteration' <= told'.max - told'.min + 1
    <3>1. PICK x \in low .. high : IsKth(x)
      BY <2>2 DEF SearchInv, SearchPhase
    <3>2. guess = low + (high - low) \div 2
      BY <2>2 DEF SearchInv, SearchPhase
    <3>3. /\ low \in Int /\ high \in Int /\ guess \in Int
      BY <2>4
    <3>4. /\ 2 * (high - (guess + 1) + 1) <= high - low + 1
          /\ 2 * ((guess - 1) - low + 1) <= high - low + 1
      BY <3>1, <3>2, <3>3, Half
    <3>5. 2 * (high' - low' + 1) <= high - low + 1 /\ high' - low' + 1 \in Int
      BY <2>6, <3>3, <3>4 DEF NextRound, NarrowTo
    <3>6. PICK t \in Int, s \in Int, bound \in Int :
            /\ t = high' - low' + 1 /\ s = high - low + 1
            /\ bound = told.max - told.min + 1
      BY <2>4, <3>3, <3>5
    <3>7. t * 2^(nIteration + 1) <= bound
      <4>1. 2 * t <= s
        BY <3>5, <3>6
      <4>2. s * 2^nIteration <= bound
        BY <2>3, <3>6
      <4> QED
        BY <2>4, <4>1, <4>2, Scaled
    <3> QED
      BY <2>1, <2>6, <3>6, <3>7
  <2> QED
    BY <1>3, <2>4, <2>5, <2>6 DEF OnAnswer, Report
<1> QED
  BY <1>1, <1>2, <1>3
  DEF Next, Steps, vars, SearchUnchanged, ServerAccepts, OnQuery, SendAnswer,
      ServerEnds, CountTask

\* Each round halves the interval that is left, so that their number is at most the
\* logarithm of the range (KthClient.cc:139).
THEOREM IntervalHalves == Spec => []Halves
<1>1. SearchInv /\ Halves /\ [Next]_vars /\ SearchInv' => Halves'
  BY HalvesStep
<1> QED
  BY <1>1, HalvesInit, Invariance, PTL DEF Spec

=============================================================================

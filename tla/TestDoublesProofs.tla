-------------------------- MODULE TestDoublesProofs --------------------------
(* Proofs about TestDoubles that hold of any spans, names, log calls and     *)
(* arguments.                                                                *)
EXTENDS TestDoubles, FiniteSetTheorems, SequenceTheorems, WellFoundedInduction, TLAPS

(* The search: as long as nobody empties the recorder, the bound the search  *)
(* read stays within the list, no earlier name was the one it looks for, and *)
(* the one it is about to answer is.                                         *)
CountsFollow == Len(exported) <= ends
SearchIsSound ==
    /\ find.pc = "panicked" => find.emptied
    /\ find.pc \in {"name", "answer"} /\ ~find.emptied =>
         /\ find.n <= Len(exported)
         /\ find.held <=> \E k \in 1..find.n : exported[k] = find.name
         /\ \A k \in 1..find.i : exported[k] # find.name
         /\ find.pc = "answer" => find.i < find.n /\ exported[find.i + 1] = find.name

(* The loggers: one call makes an entry and two lines.                       *)
LinesAlign ==
    /\ Len(said) = Len(entries)
    /\ Len(written) = Len(entries)
    /\ Len(adapted) = Len(entries)
Line(call, entry, zap, temporal) ==
    /\ entry = toFields(call.keyvals)
    /\ zap = Sweetened(call.with) \o Sweetened(call.keyvals)
    /\ temporal = toZapFields(call.with) \o toZapFields(call.keyvals)
LinesOfCalls == \A i \in 1..Len(entries) : Line(said[i], entries[i], written[i], adapted[i])

FindInv == CountsFollow /\ SearchIsSound /\ FindAnswersRight
LogInv == LinesAlign /\ LinesOfCalls
IInv == FindInv /\ LogInv

----------------------------------------------------------------------------
(* Sequences and finite sets of numbers.                                     *)
LEMMA Appended ==
    ASSUME NEW S, NEW seq \in Seq(S), NEW e \in S, NEW new, new = Append(seq, e)
    PROVE  /\ new \in Seq(S) /\ Len(seq) \in Nat /\ Len(new) = Len(seq) + 1
           /\ DOMAIN seq = 1..Len(seq) /\ DOMAIN new = 1..(Len(seq) + 1)
           /\ \A i \in 1..Len(seq) : new[i] = seq[i]
           /\ new[Len(seq) + 1] = e
  OBVIOUS

LEMMA Concatenated ==
    ASSUME NEW S, NEW seq \in Seq(S), NEW add \in Seq(S), NEW new, new = seq \o add
    PROVE  /\ new \in Seq(S) /\ Len(seq) \in Nat /\ Len(add) \in Nat
           /\ Len(new) = Len(seq) + Len(add)
           /\ \A i \in 1..Len(add) : new[Len(seq) + i] = add[i]
  OBVIOUS

LEMMA Least ==
    ASSUME NEW T \in SUBSET Nat, T # {}
    PROVE  \E n \in T : \A m \in T : n <= m
  <1> DEFINE R == {p \in Nat \X Nat : p[1] < p[2]}
  <1>1. IsWellFoundedOn(R, Nat)
    BY NatLessThanWellFounded DEF OpToRel
  <1>2. PICK n \in T : \A m \in T : ~(<<m, n>> \in R)
    <2> HIDE DEF R
    <2> QED
      BY <1>1, WFMin
  <1>3. \A m \in T : ~(m < n)
    BY <1>2
  <1> QED
    BY <1>3

LEMMA Greatest ==
    ASSUME NEW n \in Nat, NEW T \in SUBSET (1..n), T # {}
    PROVE  \E m \in T : \A k \in T : k <= m
  <1> DEFINE U == {n - m : m \in T}
  <1>1. \A m \in T : m \in Nat /\ n - m \in U /\ n - m \in Nat
    OBVIOUS
  <1>2. U \in SUBSET Nat /\ U # {}
    BY <1>1
  <1>3. PICK u \in U : \A v \in U : u <= v
    BY <1>2, Least
  <1>4. PICK m \in T : u = n - m
    OBVIOUS
  <1> HIDE DEF U
  <1>5. \A k \in T : u <= n - k
    BY <1>1, <1>3
  <1> QED
    BY <1>1, <1>4, <1>5

----------------------------------------------------------------------------
(* The k-th of a set of places is the one with k - 1 before it: Place        *)
(* numbers the places in their order without a gap.                          *)
LEMMA PlacesNumbered ==
    ASSUME NEW n \in Nat, NEW P \in SUBSET (1..n)
    PROVE  /\ Cardinality(P) \in Nat
           /\ \A i \in P : Place(i, P) \in 0..(Cardinality(P) - 1)
           /\ \A i, j \in P : i < j => Place(i, P) < Place(j, P)
           /\ \A k \in 0..(Cardinality(P) - 1) : \E i \in P : Place(i, P) = k
  <1> DEFINE size == Cardinality(P)
             front(i) == {j \in P : j < i}
             rank == [i \in P |-> Place(i, P)]
  <1>1. IsFiniteSet(P) /\ size \in Nat
    <2>1. IsFiniteSet(1..n)
      BY FS_Interval
    <2> QED
      BY <2>1, FS_Subset, FS_CardinalityType
  <1>2. \A i \in P : i \in Nat /\ Place(i, P) = Cardinality(front(i))
    BY DEF Place
  <1>3. \A i \in P : /\ IsFiniteSet(front(i)) /\ Cardinality(front(i)) \in Nat
                     /\ Cardinality(front(i)) < size
    <2> TAKE i \in P
    <2>1. front(i) \in SUBSET P /\ i \notin front(i)
      BY <1>2
    <2> HIDE DEF front
    <2>2. IsFiniteSet(front(i)) /\ Cardinality(front(i)) <= size
          /\ (size = Cardinality(front(i)) => P = front(i))
      BY <1>1, <2>1, FS_Subset
    <2>3. Cardinality(front(i)) \in Nat
      BY <2>2, FS_CardinalityType
    <2> QED
      BY <1>1, <2>1, <2>2, <2>3
  <1>4. ASSUME NEW i \in P, NEW j \in P, i < j
        PROVE  Cardinality(front(i)) < Cardinality(front(j))
    <2>1. front(i) \in SUBSET front(j) /\ i \in front(j) /\ i \notin front(i)
      <3>1. \A k \in P : k \in Nat
        BY <1>2
      <3>2. \A k \in front(i) : k \in front(j)
        BY <1>4, <3>1
      <3>3. i \in front(j)
        BY <1>4
      <3>4. i \notin front(i)
        BY <3>1
      <3> QED
        BY <3>2, <3>3, <3>4
    <2> HIDE DEF front
    <2>2. Cardinality(front(i)) <= Cardinality(front(j))
          /\ (Cardinality(front(j)) = Cardinality(front(i)) => front(j) = front(i))
      BY <1>3, <2>1, FS_Subset
    <2> QED
      BY <1>3, <2>1, <2>2
  <1> HIDE DEF front
  <1>5. rank \in Injection(P, 0..(size - 1))
    <2>1. rank \in [P -> 0..(size - 1)]
      BY <1>1, <1>2, <1>3
    <2>2. ASSUME NEW i \in P, NEW j \in P, rank[i] = rank[j]
          PROVE  i = j
      <3>1. Cardinality(front(i)) = Cardinality(front(j))
        BY <1>2, <2>2
      <3> QED
        BY <1>2, <1>3, <1>4, <3>1
    <2> QED
      BY <2>1, <2>2 DEF Injection, IsInjective
  <1>6. IsFiniteSet(0..(size - 1)) /\ Cardinality(0..(size - 1)) = size
    BY <1>1, FS_Interval
  <1>7. rank \in Surjection(P, 0..(size - 1))
    BY <1>5, <1>6, FS_Injection
  <1>8. \A k \in 0..(size - 1) : \E i \in P : Place(i, P) = k
    BY <1>7 DEF Surjection
  <1> QED
    BY <1>1, <1>2, <1>3, <1>4, <1>8

(* The places of P in their order, as a sequence.                            *)
Listed(order, P) ==
    /\ order \in Seq(P)
    /\ \A k, l \in DOMAIN order : k < l => order[k] < order[l]
    /\ \A i \in P : \E k \in DOMAIN order : order[k] = i

LEMMA OrderListed ==
    ASSUME NEW n \in Nat, NEW P \in SUBSET (1..n)
    PROVE  Listed(InOrder(P), P)
  <1> DEFINE size == Cardinality(P)
             at == InOrder(P)
  <1>1. \A i \in P : i \in Nat
    OBVIOUS
  <1>2. /\ size \in Nat
        /\ \A i \in P : Place(i, P) \in 0..(size - 1)
        /\ \A i, j \in P : i < j => Place(i, P) < Place(j, P)
        /\ \A k \in 0..(size - 1) : \E i \in P : Place(i, P) = k
    BY PlacesNumbered
  <1>3. at = [k \in 1..size |-> CHOOSE i \in P : Place(i, P) = k - 1]
    BY DEF InOrder
  <1> HIDE DEF at
  <1>4. \A k \in 1..size : at[k] \in P /\ Place(at[k], P) = k - 1
    <2> TAKE k \in 1..size
    <2>1. k - 1 \in 0..(size - 1)
      BY <1>2
    <2>2. \E i \in P : Place(i, P) = k - 1
      BY <1>2, <2>1
    <2> QED
      BY <1>3, <2>2
  <1>5. at \in [1..size -> P]
    BY <1>3, <1>4
  <1>6. at \in Seq(P) /\ DOMAIN at = 1..size
    BY <1>2, <1>5
  <1>7. ASSUME NEW k \in 1..size, NEW l \in 1..size, k < l
        PROVE  at[k] < at[l]
    <2>1. Place(at[k], P) < Place(at[l], P)
      BY <1>2, <1>4, <1>7
    <2>2. at[k] \in Nat /\ at[l] \in Nat
      BY <1>1, <1>4
    <2> QED
      BY <1>2, <1>4, <2>1, <2>2
  <1>8. ASSUME NEW i \in P
        PROVE  \E k \in 1..size : at[k] = i
    <2>1. Place(i, P) + 1 \in 1..size
      BY <1>2
    <2>2. PICK k \in 1..size : k = Place(i, P) + 1
      BY <2>1
    <2>3. Place(at[k], P) = Place(i, P) /\ at[k] \in P
      BY <1>2, <1>4, <2>2
    <2>4. at[k] \in Nat /\ i \in Nat
      BY <1>1, <2>3
    <2>5. at[k] = i
      BY <1>2, <2>3, <2>4
    <2> QED
      BY <2>5
  <1> QED
    BY <1>6, <1>7, <1>8 DEF Listed, at

----------------------------------------------------------------------------
(* A map filled from pairs has their keys, each with its last value.         *)
LastOf(pairs, k, i) ==
    /\ i \in DOMAIN pairs /\ pairs[i].key = k
    /\ \A j \in DOMAIN pairs : pairs[j].key = k => j <= i

LastValues(pairs, f) ==
    /\ f = [k \in DOMAIN f |-> f[k]]
    /\ DOMAIN f = {pairs[i].key : i \in DOMAIN pairs}
    /\ \A k \in DOMAIN f : \E i \in DOMAIN pairs : LastOf(pairs, k, i) /\ f[k] = pairs[i].value

LEMMA FilledWithLast ==
    ASSUME NEW S, NEW pairs \in Seq(S)
    PROVE  LastValues(pairs, Filled(pairs))
  <1> DEFINE keys == {pairs[i].key : i \in DOMAIN pairs}
             last(k) == CHOOSE i \in DOMAIN pairs :
                           /\ pairs[i].key = k
                           /\ \A j \in DOMAIN pairs : pairs[j].key = k => j <= i
  <1>1. Filled(pairs) = [k \in keys |-> pairs[last(k)].value]
    BY DEF Filled
  <1>2. ASSUME NEW k \in keys
        PROVE  LastOf(pairs, k, last(k))
    <2> DEFINE T == {i \in DOMAIN pairs : pairs[i].key = k}
    <2>1. T # {} /\ T \in SUBSET (1..Len(pairs)) /\ Len(pairs) \in Nat
      OBVIOUS
    <2>2. PICK m \in T : \A j \in T : j <= m
      BY <2>1, Greatest
    <2>3. /\ m \in DOMAIN pairs /\ pairs[m].key = k
          /\ \A j \in DOMAIN pairs : pairs[j].key = k => j <= m
      BY <2>2
    <2> QED
      BY <2>3 DEF LastOf
  <1> HIDE DEF last
  <1>3. \A k \in keys : last(k) \in DOMAIN pairs
    BY <1>2 DEF LastOf
  <1> HIDE DEF keys
  <1>4. DOMAIN Filled(pairs) = keys /\ \A k \in keys : Filled(pairs)[k] = pairs[last(k)].value
    BY <1>1
  <1>5. Filled(pairs) = [k \in keys |-> Filled(pairs)[k]]
    BY <1>1, <1>4
  <1> QED
    BY <1>2, <1>3, <1>4, <1>5 DEF keys, LastValues

(* There is one such map.                                                    *)
LEMMA OneFilling ==
    ASSUME NEW S, NEW pairs \in Seq(S), NEW f, LastValues(pairs, f)
    PROVE  f = Filled(pairs)
  <1> DEFINE g == Filled(pairs)
  <1>1. LastValues(pairs, g)
    BY FilledWithLast
  <1> HIDE DEF g
  <1>2. DOMAIN f = DOMAIN g
    BY <1>1 DEF LastValues
  <1>3. ASSUME NEW k \in DOMAIN f
        PROVE  f[k] = g[k]
    <2>1. PICK i \in DOMAIN pairs : LastOf(pairs, k, i) /\ f[k] = pairs[i].value
      BY DEF LastValues
    <2>2. PICK j \in DOMAIN pairs : LastOf(pairs, k, j) /\ g[k] = pairs[j].value
      BY <1>1, <1>2 DEF LastValues
    <2>3. i <= j /\ j <= i /\ i \in Nat /\ j \in Nat
      BY <2>1, <2>2 DEF LastOf
    <2>4. i = j
      BY <2>3
    <2> QED
      BY <2>1, <2>2, <2>4
  <1>4. f = [k \in DOMAIN f |-> f[k]] /\ g = [k \in DOMAIN g |-> g[k]]
    BY <1>1 DEF LastValues
  <1>5. f = g
    BY <1>2, <1>3, <1>4
  <1> QED
    BY <1>5 DEF g

(* Pairs listed again in their order fill the same map.                      *)
Relists(a, b, at) ==
    /\ \A k \in DOMAIN a : at[k] \in DOMAIN b /\ a[k] = b[at[k]]
    /\ \A k, l \in DOMAIN a : k < l => at[k] < at[l]
    /\ \A i \in DOMAIN b : \E k \in DOMAIN a : at[k] = i

LEMMA SameFilling ==
    ASSUME NEW S, NEW a \in Seq(S), NEW b \in Seq(S), NEW at, Relists(a, b, at)
    PROVE  Filled(a) = Filled(b)
  <1> DEFINE f == Filled(a)
  <1>1. LastValues(a, f)
    BY FilledWithLast
  <1> HIDE DEF f
  <1>2. /\ \A k \in DOMAIN a : at[k] \in DOMAIN b /\ a[k] = b[at[k]]
        /\ \A k, l \in DOMAIN a : k < l => at[k] < at[l]
        /\ \A i \in DOMAIN b : \E k \in DOMAIN a : at[k] = i
        /\ DOMAIN a \in SUBSET Nat /\ DOMAIN b \in SUBSET Nat
    BY DEF Relists
  <1>3. DOMAIN f = {b[i].key : i \in DOMAIN b}
    <2>1. DOMAIN f = {a[k].key : k \in DOMAIN a}
      BY <1>1 DEF LastValues
    <2>2. ASSUME NEW x \in {a[k].key : k \in DOMAIN a}
          PROVE  x \in {b[i].key : i \in DOMAIN b}
      <3>1. PICK k \in DOMAIN a : x = a[k].key
        OBVIOUS
      <3> QED
        BY <1>2, <3>1
    <2>3. ASSUME NEW x \in {b[i].key : i \in DOMAIN b}
          PROVE  x \in {a[k].key : k \in DOMAIN a}
      <3>1. PICK i \in DOMAIN b : x = b[i].key
        OBVIOUS
      <3>2. PICK k \in DOMAIN a : at[k] = i
        BY <1>2, <3>1
      <3> QED
        BY <1>2, <3>1, <3>2
    <2> QED
      BY <2>1, <2>2, <2>3
  <1>4. ASSUME NEW m \in DOMAIN a, NEW l \in DOMAIN a, m <= l
        PROVE  at[m] <= at[l]
    <2>1. m \in Nat /\ l \in Nat /\ at[m] \in Nat /\ at[l] \in Nat
      BY <1>2
    <2>2. CASE m = l
      BY <2>1, <2>2
    <2>3. CASE m < l
      <3>1. at[m] < at[l]
        BY <1>2, <2>3
      <3> QED
        BY <2>1, <3>1
    <2> QED
      BY <1>4, <2>1, <2>2, <2>3
  <1>5. ASSUME NEW k \in DOMAIN f
        PROVE  \E i \in DOMAIN b : LastOf(b, k, i) /\ f[k] = b[i].value
    <2>1. PICK l \in DOMAIN a : LastOf(a, k, l) /\ f[k] = a[l].value
      BY <1>1 DEF LastValues
    <2>2. at[l] \in DOMAIN b /\ b[at[l]].key = k /\ f[k] = b[at[l]].value
      BY <1>2, <2>1 DEF LastOf
    <2>3. ASSUME NEW j \in DOMAIN b, b[j].key = k
          PROVE  j <= at[l]
      <3>1. PICK m \in DOMAIN a : at[m] = j
        BY <1>2
      <3>2. a[m].key = k
        BY <1>2, <2>3, <3>1
      <3>3. m <= l
        BY <2>1, <3>2 DEF LastOf
      <3> QED
        BY <1>4, <3>1, <3>3
    <2> QED
      BY <2>2, <2>3 DEF LastOf
  <1>6. LastValues(b, f)
    BY <1>1, <1>5, <1>3 DEF LastValues
  <1> QED
    BY <1>6, OneFilling DEF f

(* Later pairs lie over earlier ones.                                        *)
LEMMA FilledOver ==
    ASSUME NEW S, NEW a \in Seq(S), NEW b \in Seq(S)
    PROVE  Filled(a \o b) = Over(Filled(b), Filled(a))
  <1> DEFINE line == a \o b
             f == Filled(a)
             g == Filled(b)
             h == Over(g, f)
  <1>1. /\ line \in Seq(S) /\ Len(a) \in Nat /\ Len(b) \in Nat
        /\ DOMAIN line = 1..(Len(a) + Len(b))
        /\ \A i \in 1..Len(a) : line[i] = a[i]
        /\ \A i \in 1..Len(b) : line[Len(a) + i] = b[i]
    OBVIOUS
  <1>2. DOMAIN a = 1..Len(a) /\ DOMAIN b = 1..Len(b)
    OBVIOUS
  <1> HIDE DEF line
  <1>3. LastValues(a, f) /\ LastValues(b, g)
    BY FilledWithLast
  <1> HIDE DEF f, g
  <1>4. /\ DOMAIN h = DOMAIN g \cup DOMAIN f
        /\ \A k \in DOMAIN h : h[k] = IF k \in DOMAIN g THEN g[k] ELSE f[k]
        /\ h = [k \in DOMAIN h |-> h[k]]
    BY DEF Over
  <1> HIDE DEF h
  <1>5. \A i \in DOMAIN line : i \in 1..Len(a) \/ \E j \in 1..Len(b) : i = Len(a) + j
    <2> TAKE i \in DOMAIN line
    <2>1. i \in 1..Len(a) \/ (i - Len(a) \in 1..Len(b) /\ i = Len(a) + (i - Len(a)))
      BY <1>1
    <2> QED
      BY <2>1
  <1>6. DOMAIN h = {line[i].key : i \in DOMAIN line}
    <2>1. ASSUME NEW k \in DOMAIN h
          PROVE  \E i \in DOMAIN line : line[i].key = k
      <3>1. CASE k \in DOMAIN g
        <4>1. PICK j \in 1..Len(b) : b[j].key = k
          BY <1>2, <1>3, <3>1 DEF LastValues
        <4>2. Len(a) + j \in DOMAIN line /\ line[Len(a) + j] = b[j]
          BY <1>1
        <4> QED
          BY <4>1, <4>2
      <3>2. CASE k \in DOMAIN f
        <4>1. PICK j \in 1..Len(a) : a[j].key = k
          BY <1>2, <1>3, <3>2 DEF LastValues
        <4>2. j \in DOMAIN line /\ line[j] = a[j]
          BY <1>1
        <4> QED
          BY <4>1, <4>2
      <3> QED
        BY <1>4, <3>1, <3>2
    <2>2. ASSUME NEW i \in DOMAIN line
          PROVE  line[i].key \in DOMAIN h
      <3>1. CASE i \in 1..Len(a)
        BY <1>1, <1>2, <1>3, <1>4, <3>1 DEF LastValues
      <3>2. ASSUME NEW j \in 1..Len(b), i = Len(a) + j
            PROVE  line[i].key \in DOMAIN h
        BY <1>1, <1>2, <1>3, <1>4, <3>2 DEF LastValues
      <3> QED
        BY <1>5, <3>1, <3>2
    <2> QED
      BY <2>1, <2>2
  <1>7. ASSUME NEW k \in DOMAIN h
        PROVE  \E i \in DOMAIN line : LastOf(line, k, i) /\ h[k] = line[i].value
    <2>1. CASE k \in DOMAIN g
      <3>1. PICK j \in 1..Len(b) : LastOf(b, k, j) /\ g[k] = b[j].value
        BY <1>2, <1>3, <2>1 DEF LastValues
      <3>2. Len(a) + j \in DOMAIN line /\ line[Len(a) + j] = b[j]
        BY <1>1
      <3>3. ASSUME NEW i \in DOMAIN line, line[i].key = k
            PROVE  i <= Len(a) + j
        <4>1. CASE i \in 1..Len(a)
          BY <1>1, <4>1
        <4>2. ASSUME NEW l \in 1..Len(b), i = Len(a) + l
              PROVE  i <= Len(a) + j
          <5>1. b[l].key = k
            BY <1>1, <3>3, <4>2
          <5>2. l <= j
            BY <1>2, <3>1, <5>1 DEF LastOf
          <5> QED
            BY <1>1, <4>2, <5>2
        <4> QED
          BY <1>5, <4>1, <4>2
      <3>4. h[k] = line[Len(a) + j].value /\ line[Len(a) + j].key = k
        BY <1>4, <2>1, <3>1, <3>2 DEF LastOf
      <3> QED
        BY <3>2, <3>3, <3>4 DEF LastOf
    <2>2. CASE k \notin DOMAIN g
      <3>1. k \in DOMAIN f
        BY <1>4, <2>2
      <3>2. PICK j \in 1..Len(a) : LastOf(a, k, j) /\ f[k] = a[j].value
        BY <1>2, <1>3, <3>1 DEF LastValues
      <3>3. j \in DOMAIN line /\ line[j] = a[j]
        BY <1>1
      <3>4. ASSUME NEW i \in DOMAIN line, line[i].key = k
            PROVE  i <= j
        <4>1. CASE i \in 1..Len(a)
          <5>1. a[i].key = k
            BY <1>1, <3>4, <4>1
          <5> QED
            BY <1>2, <3>2, <4>1, <5>1 DEF LastOf
        <4>2. ASSUME NEW l \in 1..Len(b), i = Len(a) + l
              PROVE  FALSE
          <5>1. b[l].key = k
            BY <1>1, <3>4, <4>2
          <5> QED
            BY <1>2, <1>3, <2>2, <5>1 DEF LastValues
        <4> QED
          BY <1>5, <4>1, <4>2
      <3>5. h[k] = line[j].value /\ line[j].key = k
        BY <1>4, <2>2, <3>2, <3>3 DEF LastOf
      <3> QED
        BY <3>3, <3>4, <3>5 DEF LastOf
    <2> QED
      BY <2>1, <2>2
  <1>8. LastValues(line, h)
    BY <1>4, <1>6, <1>7 DEF LastValues
  <1>9. h = Filled(line)
    BY <1>1, <1>8, OneFilling
  <1> QED
    BY <1>9 DEF h, line, f, g

----------------------------------------------------------------------------
(* The arguments that are nobody's value.  There is one such set for every   *)
(* list of arguments.                                                        *)
OpenUpTo(places, keyvals, n) ==
    /\ places \in SUBSET (1..n)
    /\ \A i \in 1..n : i \in places <=> (i - 1 \in places => keyvals[i - 1] \in Lone)

LEMMA OpensExist ==
    ASSUME NEW keyvals, NEW n \in Nat
    PROVE  \E places : OpenUpTo(places, keyvals, n)
  <1> DEFINE Bad == {m \in 0..n : ~ \E places : OpenUpTo(places, keyvals, m)}
  <1>1. SUFFICES ASSUME Bad # {}
                 PROVE  FALSE
    OBVIOUS
  <1>2. PICK m \in Bad : \A k \in Bad : m <= k
    <2>1. Bad \in SUBSET Nat
      OBVIOUS
    <2> HIDE DEF Bad
    <2> QED
      BY <1>1, <2>1, Least
  <1>3. m \in 0..n /\ ~ \E places : OpenUpTo(places, keyvals, m)
    OBVIOUS
  <1>4. m # 0
    <2>1. OpenUpTo({}, keyvals, 0)
      BY DEF OpenUpTo
    <2> QED
      BY <1>3, <2>1
  <1>5. m - 1 \in 0..n /\ m - 1 \notin Bad
    BY <1>2, <1>3, <1>4
  <1>6. PICK old : OpenUpTo(old, keyvals, m - 1)
    BY <1>5
  <1> HIDE DEF Bad
  <1> DEFINE more == m - 1 \in old => keyvals[m - 1] \in Lone
             new == IF more THEN old \cup {m} ELSE old
  <1>7. m \in Nat /\ m - 1 \in Nat /\ m \notin old /\ old \in SUBSET (1..m)
    BY <1>3, <1>4, <1>6 DEF OpenUpTo
  <1>8. /\ m \in new <=> more
        /\ \A i \in 0..(m - 1) : i \in new <=> i \in old
    BY <1>7
  <1>9. new \in SUBSET (1..m)
    BY <1>7
  <1> HIDE DEF new
  <1>10. \A i \in 1..m : i \in new <=> (i - 1 \in new => keyvals[i - 1] \in Lone)
    <2> TAKE i \in 1..m
    <2>1. CASE i = m
      <3>1. m - 1 \in new <=> m - 1 \in old
        BY <1>7, <1>8
      <3> QED
        BY <1>8, <2>1, <3>1
    <2>2. CASE i # m
      <3>1. i \in 1..(m - 1) /\ i - 1 \in 0..(m - 1) /\ i \in 0..(m - 1)
        BY <1>7, <2>2
      <3>2. i \in old <=> (i - 1 \in old => keyvals[i - 1] \in Lone)
        BY <1>6, <3>1 DEF OpenUpTo
      <3> QED
        BY <1>8, <3>1, <3>2
    <2> QED
      BY <2>1, <2>2
  <1>11. OpenUpTo(new, keyvals, m)
    BY <1>9, <1>10 DEF OpenUpTo
  <1> QED
    BY <1>3, <1>11

LEMMA OpensUnique ==
    ASSUME NEW keyvals, NEW n \in Nat, NEW a, NEW b,
           OpenUpTo(a, keyvals, n), OpenUpTo(b, keyvals, n)
    PROVE  a = b
  <1> DEFINE Bad == {i \in 1..n : ~(i \in a <=> i \in b)}
  <1>1. a \in SUBSET (1..n) /\ b \in SUBSET (1..n)
    BY DEF OpenUpTo
  <1>2. SUFFICES ASSUME Bad # {}
                 PROVE  FALSE
    BY <1>1
  <1>3. PICK i \in Bad : \A k \in Bad : i <= k
    <2>1. Bad \in SUBSET Nat
      OBVIOUS
    <2> HIDE DEF Bad
    <2> QED
      BY <1>2, <2>1, Least
  <1>4. i \in 1..n /\ ~(i \in a <=> i \in b)
    OBVIOUS
  <1>5. i - 1 \in a <=> i - 1 \in b
    <2>1. CASE i - 1 \in 1..n
      BY <1>3, <1>4, <2>1
    <2>2. CASE i - 1 \notin 1..n
      BY <1>1, <2>2
    <2> QED
      BY <2>1, <2>2
  <1> QED
    BY <1>4, <1>5 DEF OpenUpTo

LEMMA OpensAre ==
    ASSUME NEW keyvals \in Seq(Argument)
    PROVE  OpenUpTo(Opens(keyvals), keyvals, Len(keyvals))
  <1>1. Len(keyvals) \in Nat /\ DOMAIN keyvals = 1..Len(keyvals)
    OBVIOUS
  <1>2. PICK places : OpenUpTo(places, keyvals, Len(keyvals))
    BY <1>1, OpensExist
  <1>3. /\ places \in SUBSET DOMAIN keyvals
        /\ \A i \in DOMAIN keyvals :
              i \in places <=> (i - 1 \in places => keyvals[i - 1] \in Lone)
    BY <1>1, <1>2 DEF OpenUpTo
  <1>4. /\ Opens(keyvals) \in SUBSET DOMAIN keyvals
        /\ \A i \in DOMAIN keyvals :
              i \in Opens(keyvals) <=> (i - 1 \in Opens(keyvals) => keyvals[i - 1] \in Lone)
    BY <1>3 DEF Opens
  <1> QED
    BY <1>1, <1>4 DEF OpenUpTo

LEMMA KeptOrdered ==
    ASSUME NEW keyvals \in Seq(Argument)
    PROVE  /\ Kept(keyvals) \in SUBSET DOMAIN keyvals
           /\ Listed(InOrder(Kept(keyvals)), Kept(keyvals))
  <1>1. Opens(keyvals) \in SUBSET (1..Len(keyvals))
    BY OpensAre DEF OpenUpTo
  <1>2. Kept(keyvals) \in SUBSET Opens(keyvals)
    BY DEF Kept
  <1>3. Len(keyvals) \in Nat /\ DOMAIN keyvals = 1..Len(keyvals)
    OBVIOUS
  <1>4. Kept(keyvals) \in SUBSET (1..Len(keyvals))
    BY <1>1, <1>2
  <1> QED
    BY <1>3, <1>4, OrderListed

----------------------------------------------------------------------------
(* What the loggers make of a call.                                          *)
LEMMA PairsOf ==
    ASSUME NEW keyvals \in Seq(Argument)
    PROVE  /\ toZapFields(keyvals) \in Seq(Pair)
           /\ DOMAIN toZapFields(keyvals) = 1..(Len(keyvals) \div 2)
           /\ \A n \in 1..(Len(keyvals) \div 2) :
                /\ 2 * n - 1 \in DOMAIN keyvals /\ 2 * n \in DOMAIN keyvals
                /\ toZapFields(keyvals)[n].key = Text[keyvals[2 * n - 1]]
                /\ toZapFields(keyvals)[n].value = keyvals[2 * n]
  <1> DEFINE z == toZapFields(keyvals)
             half == Len(keyvals) \div 2
  <1>1. /\ half \in Nat
        /\ \A n \in 1..half : 2 * n \in 1..Len(keyvals) /\ 2 * n - 1 \in 1..Len(keyvals)
    <2>1. Len(keyvals) \in Nat
      OBVIOUS
    <2> QED
      BY <2>1
  <1>2. z = [n \in 1..half |-> [key |-> Text[keyvals[2 * n - 1]], value |-> keyvals[2 * n]]]
    BY DEF toZapFields
  <1> HIDE DEF half, z
  <1>3. \A n \in 1..half : z[n] \in Pair
    <2> TAKE n \in 1..half
    <2>1. keyvals[2 * n - 1] \in Argument /\ keyvals[2 * n] \in Argument
      BY <1>1
    <2>2. Text[keyvals[2 * n - 1]] \in Strings
      BY <2>1, ArgumentsAssumption
    <2> QED
      BY <1>2, <2>1, <2>2 DEF Pair
  <1>4. z \in [1..half -> Pair]
    BY <1>2, <1>3
  <1>5. z \in Seq(Pair) /\ DOMAIN z = 1..half
    BY <1>1, <1>4
  <1>6. DOMAIN keyvals = 1..Len(keyvals)
    OBVIOUS
  <1>7. \A n \in 1..half : z[n].key = Text[keyvals[2 * n - 1]] /\ z[n].value = keyvals[2 * n]
    BY <1>2
  <1> QED
    BY <1>1, <1>5, <1>6, <1>7 DEF z, half

LEMMA SweetenedPairs ==
    ASSUME NEW keyvals \in Seq(Argument)
    PROVE  Sweetened(keyvals) \in Seq(Pair)
  <1> DEFINE P == Kept(keyvals)
             order == InOrder(P)
             s == Sweetened(keyvals)
  <1>1. P \in SUBSET DOMAIN keyvals /\ order \in Seq(P)
    BY KeptOrdered DEF Listed
  <1>2. s = [n \in DOMAIN order |-> PairAt(keyvals, order[n])]
    BY DEF Sweetened
  <1>3. \A i \in P : PairAt(keyvals, i) \in Pair
    <2> TAKE i \in P
    <2>1. i \in 1..Len(keyvals) /\ keyvals[i] \in Argument
      BY <1>1
    <2>2. CASE keyvals[i] \in Lone
      BY <2>1, <2>2, ArgumentsAssumption DEF PairAt, Pair
    <2>3. CASE keyvals[i] \notin Lone
      <3>1. keyvals[i] \in Strings /\ i < Len(keyvals)
        BY <2>3 DEF Kept, Lone
      <3>2. keyvals[i + 1] \in Argument
        BY <2>1, <3>1
      <3> QED
        BY <2>3, <3>1, <3>2 DEF PairAt, Pair
    <2> QED
      BY <2>2, <2>3
  <1> HIDE DEF P, s
  <1>4. \A n \in 1..Len(order) : order[n] \in P
    BY <1>1
  <1>5. Len(order) \in Nat /\ DOMAIN order = 1..Len(order)
    BY <1>1
  <1> HIDE DEF order
  <1>6. s \in [1..Len(order) -> Pair]
    BY <1>2, <1>3, <1>4, <1>5
  <1>7. s \in Seq(Pair)
    BY <1>5, <1>6
  <1> QED
    BY <1>7 DEF s

(* BufferLogger's map is the one the adapter's pairs fill.                   *)
LEMMA FieldsFill ==
    ASSUME NEW keyvals \in Seq(Argument)
    PROVE  toFields(keyvals) = Filled(toZapFields(keyvals)) /\ toFields(keyvals) \in FieldMap
  <1> DEFINE z == toZapFields(keyvals)
             f == toFields(keyvals)
             half == Len(keyvals) \div 2
             K == KeyPlaces(keyvals)
             keys == {Text[keyvals[i]] : i \in K}
             last(k) == LastPlace(keyvals, k)
  <1>1. /\ z \in Seq(Pair) /\ DOMAIN z = 1..half
        /\ \A n \in 1..half : /\ 2 * n - 1 \in DOMAIN keyvals /\ 2 * n \in DOMAIN keyvals
                              /\ z[n].key = Text[keyvals[2 * n - 1]] /\ z[n].value = keyvals[2 * n]
    BY PairsOf
  <1>2. K = {2 * n - 1 : n \in 1..half}
    BY DEF KeyPlaces
  <1>3. f = [k \in keys |-> keyvals[last(k) + 1]]
    BY DEF toFields
  <1>4. half \in Nat
    <2>1. Len(keyvals) \in Nat
      OBVIOUS
    <2> QED
      BY <2>1
  <1>5. ASSUME NEW k \in keys
        PROVE  \E n \in 1..half : LastOf(z, k, n) /\ last(k) = 2 * n - 1
    <2> DEFINE T == {n \in 1..half : z[n].key = k}
    <2>1. T \in SUBSET (1..half) /\ T # {}
      <3>1. PICK i \in K : Text[keyvals[i]] = k
        OBVIOUS
      <3>2. PICK n \in 1..half : i = 2 * n - 1
        BY <1>2
      <3> QED
        BY <1>1, <3>1, <3>2
    <2>2. PICK m \in T : \A n \in T : n <= m
      BY <1>4, <2>1, Greatest
    <2>3. m \in 1..half /\ z[m].key = k /\ \A n \in 1..half : z[n].key = k => n <= m
      BY <2>2
    <2>4. 2 * m - 1 \in K /\ Text[keyvals[2 * m - 1]] = k
      BY <1>1, <1>2, <2>3
    <2>5. ASSUME NEW j \in K, Text[keyvals[j]] = k
          PROVE  j <= 2 * m - 1
      <3>1. PICK n \in 1..half : j = 2 * n - 1
        BY <1>2
      <3>2. z[n].key = k
        BY <1>1, <2>5, <3>1
      <3>3. n <= m
        BY <2>3, <3>2
      <3>4. n \in Nat /\ m \in Nat
        BY <2>3
      <3> QED
        BY <3>1, <3>3, <3>4
    <2>6. \E i \in K : Text[keyvals[i]] = k /\ \A j \in K : Text[keyvals[j]] = k => j <= i
      BY <2>4, <2>5
    <2>7. last(k) \in K /\ Text[keyvals[last(k)]] = k
          /\ \A j \in K : Text[keyvals[j]] = k => j <= last(k)
      BY <2>6 DEF LastPlace
    <2>8. last(k) = 2 * m - 1
      <3> HIDE DEF last
      <3>1. last(k) <= 2 * m - 1 /\ 2 * m - 1 <= last(k)
        BY <2>4, <2>5, <2>7
      <3>2. last(k) \in Int /\ m \in Int
        BY <1>2, <2>3, <2>7
      <3> QED
        BY <3>1, <3>2
    <2> QED
      BY <1>1, <2>3, <2>8 DEF LastOf
  <1> HIDE DEF last, K, z
  <1>6. DOMAIN f = keys /\ \A k \in keys : f[k] = keyvals[last(k) + 1]
    BY <1>3
  <1>7. keys = {z[n].key : n \in DOMAIN z}
    <2>1. ASSUME NEW k \in keys
          PROVE  \E n \in DOMAIN z : z[n].key = k
      BY <1>1, <1>5, <2>1 DEF LastOf
    <2>2. ASSUME NEW n \in DOMAIN z
          PROVE  z[n].key \in keys
      <3>1. 2 * n - 1 \in K
        BY <1>1, <1>2
      <3> QED
        BY <1>1, <3>1
    <2> HIDE DEF keys
    <2> QED
      BY <2>1, <2>2
  <1> HIDE DEF keys
  <1>8. ASSUME NEW k \in keys
        PROVE  \E n \in DOMAIN z : LastOf(z, k, n) /\ f[k] = z[n].value
    <2>1. PICK n \in 1..half : LastOf(z, k, n) /\ last(k) = 2 * n - 1
      BY <1>5
    <2>2. (2 * n - 1) + 1 = 2 * n
      BY <1>4
    <2>3. f[k] = keyvals[2 * n]
      BY <1>6, <2>1, <2>2
    <2> QED
      BY <1>1, <2>1, <2>3
  <1>9. f = [k \in DOMAIN f |-> f[k]]
    BY <1>3, <1>6
  <1> HIDE DEF f
  <1>10. LastValues(z, f)
    BY <1>6, <1>7, <1>8, <1>9 DEF LastValues
  <1>11. f = Filled(z)
    BY <1>1, <1>10, OneFilling
  <1>12. f \in FieldMap
    <2>1. \A k \in DOMAIN f : k \in Strings /\ f[k] \in Argument
      <3> TAKE k \in DOMAIN f
      <3>1. PICK n \in DOMAIN z : z[n].key = k /\ f[k] = z[n].value
        BY <1>6, <1>8 DEF LastOf
      <3>2. z[n] \in Pair
        BY <1>1
      <3> QED
        BY <3>1, <3>2 DEF Pair
    <2>2. f \in [DOMAIN f -> Argument] /\ DOMAIN f \in SUBSET Strings
      BY <1>9, <2>1
    <2> QED
      BY <2>2 DEF FieldMap
  <1> QED
    BY <1>11, <1>12 DEF f, z

(* Of a call with strings at its odd places zap makes the same pairs.        *)
LEMMA PlainPlaces ==
    ASSUME NEW keyvals \in Seq(Argument), Plain(keyvals)
    PROVE  Kept(keyvals) = KeyPlaces(keyvals)
  <1> DEFINE size == Len(keyvals)
             odd == {i \in 1..size : i % 2 = 1}
  <1>1. size \in Nat /\ DOMAIN keyvals = 1..size
    OBVIOUS
  <1>2. \A i \in odd : keyvals[i] \in Strings /\ keyvals[i] \notin Lone
    <2> TAKE i \in odd
    <2>1. i = 2 * ((i + 1) \div 2) - 1 /\ (i + 1) \div 2 \in 1..(size + 1) \div 2
      BY <1>1
    <2>2. keyvals[i] \in Strings
      BY <2>1 DEF Plain
    <2> QED
      BY <2>2, ArgumentsAssumption
  <1>3. OpenUpTo(odd, keyvals, size)
    <2>1. ASSUME NEW i \in 1..size
          PROVE  i \in odd <=> (i - 1 \in odd => keyvals[i - 1] \in Lone)
      <3>1. i \in odd <=> ~(i - 1 \in odd)
        BY <1>1
      <3> HIDE DEF odd
      <3> QED
        BY <1>2, <3>1
    <2> QED
      BY <2>1 DEF OpenUpTo
  <1>4. Opens(keyvals) = odd
    BY <1>1, <1>3, OpensAre, OpensUnique
  <1>5. Kept(keyvals) = {i \in odd : i < size}
    <2>1. \A i \in odd : /\ keyvals[i] \in Strings /\ keyvals[i] \notin Fields
                         /\ keyvals[i] \notin Errors
      BY <1>2 DEF Lone
    <2> HIDE DEF odd
    <2> QED
      BY <1>4, <2>1 DEF Kept
  <1>6. \A i \in odd : i < size => (i + 1) \div 2 \in 1..(size \div 2) /\ i = 2 * ((i + 1) \div 2) - 1
    BY <1>1
  <1>7. \A n \in 1..(size \div 2) : 2 * n - 1 \in odd /\ 2 * n - 1 < size
    BY <1>1
  <1>8. KeyPlaces(keyvals) = {2 * n - 1 : n \in 1..(size \div 2)}
    BY DEF KeyPlaces
  <1> HIDE DEF odd, size
  <1> QED
    BY <1>5, <1>6, <1>7, <1>8

LEMMA PlainFill ==
    ASSUME NEW keyvals \in Seq(Argument), Plain(keyvals)
    PROVE  Filled(Sweetened(keyvals)) = Filled(toZapFields(keyvals))
  <1> DEFINE P == Kept(keyvals)
             order == InOrder(P)
             s == Sweetened(keyvals)
             z == toZapFields(keyvals)
             half == Len(keyvals) \div 2
             at == [k \in DOMAIN order |-> (order[k] + 1) \div 2]
  <1>1. order \in Seq(P) /\ Listed(order, P) /\ P = {2 * n - 1 : n \in 1..half}
    BY KeptOrdered, PlainPlaces DEF Listed, KeyPlaces
  <1>2. s \in Seq(Pair) /\ s = [k \in DOMAIN order |-> PairAt(keyvals, order[k])]
    BY SweetenedPairs DEF Sweetened
  <1>3. /\ z \in Seq(Pair) /\ DOMAIN z = 1..half
        /\ \A n \in 1..half : /\ 2 * n - 1 \in DOMAIN keyvals
                              /\ z[n].key = Text[keyvals[2 * n - 1]] /\ z[n].value = keyvals[2 * n]
    BY PairsOf
  <1>4. half \in Nat
    <2>1. Len(keyvals) \in Nat
      OBVIOUS
    <2> QED
      BY <2>1
  <1>5. DOMAIN s = DOMAIN order /\ \A k \in DOMAIN order : order[k] \in P
    <2>1. DOMAIN s = DOMAIN order
      BY <1>2
    <2> HIDE DEF order, P
    <2>2. \A k \in DOMAIN order : order[k] \in P
      BY <1>1
    <2> QED
      BY <2>1, <2>2
  <1>6. \A n \in 1..half : PairAt(keyvals, 2 * n - 1) = z[n]
    <2> TAKE n \in 1..half
    <2>1. keyvals[2 * n - 1] \in Strings
      <3>1. n \in 1..(Len(keyvals) + 1) \div 2
        <4>1. Len(keyvals) \in Nat
          OBVIOUS
        <4> QED
          BY <4>1
      <3> QED
        BY <3>1 DEF Plain
    <2>2. keyvals[2 * n - 1] \notin Lone /\ Text[keyvals[2 * n - 1]] = keyvals[2 * n - 1]
      BY <2>1, ArgumentsAssumption
    <2>3. (2 * n - 1) + 1 = 2 * n
      BY <1>4
    <2>4. PairAt(keyvals, 2 * n - 1) = [key |-> keyvals[2 * n - 1], value |-> keyvals[2 * n]]
      BY <2>2, <2>3 DEF PairAt
    <2>5. z[n] = [key |-> Text[keyvals[2 * n - 1]], value |-> keyvals[2 * n]]
      BY DEF toZapFields
    <2> QED
      BY <2>2, <2>4, <2>5
  <1>7. \A k \in DOMAIN order : at[k] \in 1..half /\ order[k] = 2 * at[k] - 1
    <2> TAKE k \in DOMAIN order
    <2>1. PICK n \in 1..half : order[k] = 2 * n - 1
      BY <1>1, <1>5
    <2>2. (order[k] + 1) \div 2 = n
      <3> HIDE DEF order
      <3> QED
        BY <1>4, <2>1
    <2> QED
      BY <2>1, <2>2
  <1>8. /\ \A k, l \in DOMAIN order : k < l => order[k] < order[l]
        /\ \A i \in P : \E k \in DOMAIN order : order[k] = i
    BY <1>1 DEF Listed
  <1> HIDE DEF order, P, s, z, at
  <1>9. \A k \in DOMAIN s : at[k] \in DOMAIN z /\ s[k] = z[at[k]]
    BY <1>2, <1>3, <1>5, <1>6, <1>7
  <1>10. \A k, l \in DOMAIN s : k < l => at[k] < at[l]
    <2> TAKE k, l \in DOMAIN s
    <2>1. at[k] \in Int /\ at[l] \in Int /\ order[k] = 2 * at[k] - 1 /\ order[l] = 2 * at[l] - 1
      BY <1>5, <1>7
    <2>2. k < l => order[k] < order[l]
      BY <1>5, <1>8
    <2> QED
      BY <2>1, <2>2
  <1>11. \A n \in DOMAIN z : \E k \in DOMAIN s : at[k] = n
    <2> TAKE n \in DOMAIN z
    <2>1. n \in 1..half /\ 2 * n - 1 \in P
      BY <1>1, <1>3
    <2>2. PICK k \in DOMAIN order : order[k] = 2 * n - 1
      BY <1>8, <2>1
    <2>3. at[k] \in 1..half /\ order[k] = 2 * at[k] - 1
      BY <1>7
    <2>4. at[k] = n
      BY <1>4, <2>1, <2>2, <2>3
    <2> QED
      BY <1>5, <2>4
  <1>12. Filled(s) = Filled(z)
    <2>1. s \in Seq(Pair) /\ z \in Seq(Pair)
      BY <1>2, <1>3
    <2>2. Relists(s, z, at)
      BY <1>9, <1>10, <1>11 DEF Relists
    <2> QED
      BY <2>1, <2>2, SameFilling
  <1> QED
    BY <1>12 DEF s, z

----------------------------------------------------------------------------
(* The steps of the loggers.                                                 *)
LogTypes ==
    /\ entries \in Seq(FieldMap)
    /\ Len(entries) <= MaxEntries
    /\ context \in Seq(Argument)
    /\ written \in Seq(Seq(Pair))
    /\ adapted \in Seq(Seq(Pair))
    /\ said \in Seq(LogCall)
SpanTypes ==
    /\ exported \in Seq(SpanNames)
    /\ ends \in 0..MaxSpans
    /\ shut \in BOOLEAN
    /\ find \in FindCall
    /\ find.i <= find.n

LEMMA Types == TypeOK <=> LogTypes /\ SpanTypes
  BY DEF TypeOK, LogTypes, SpanTypes

LEMMA TypesNext == TypeOK' <=> LogTypes' /\ SpanTypes'
  BY DEF TypeOK, LogTypes, SpanTypes

LEMMA LogStays ==
    ASSUME LogTypes, LogInv, UNCHANGED logVars
    PROVE  LogTypes' /\ LogInv'
  <1>1. LogTypes' /\ LinesAlign'
    BY DEF logVars, LogTypes, LogInv, LinesAlign
  <1>2. LinesOfCalls'
    BY DEF logVars, LogInv, LinesOfCalls
  <1> QED
    BY <1>1, <1>2 DEF LogInv

LEMMA WithStep ==
    ASSUME LogTypes, LogInv, NEW keyvals \in Calls, With(keyvals)
    PROVE  LogTypes' /\ LogInv'
  <1>1. context' = keyvals /\ UNCHANGED <<entries, written, adapted, said>>
    BY DEF With
  <1>2. keyvals \in Seq(Argument)
    BY CallsAssumption
  <1>3. LogTypes'
    BY <1>1, <1>2 DEF LogTypes
  <1>4. LogInv'
    BY <1>1 DEF LogInv, LinesAlign, LinesOfCalls
  <1> QED
    BY <1>3, <1>4

LEMMA LogStep ==
    ASSUME LogTypes, LogInv, NEW keyvals \in Calls, Log(keyvals)
    PROVE  LogTypes' /\ LogInv'
  <1> DEFINE entry == toFields(keyvals)
             zap == Sweetened(context) \o Sweetened(keyvals)
             temporal == toZapFields(context) \o toZapFields(keyvals)
             call == [with |-> context, keyvals |-> keyvals]
             n == Len(entries)
  <1>1. /\ n < MaxEntries /\ entries' = Append(entries, entry)
        /\ written' = Append(written, zap) /\ adapted' = Append(adapted, temporal)
        /\ said' = Append(said, call)
        /\ UNCHANGED context
    BY DEF Log, ZapLogger, ZapLoggerAdapter
  <1>2. keyvals \in Seq(Argument) /\ context \in Seq(Argument)
    BY CallsAssumption DEF LogTypes
  <1>3. entry \in FieldMap /\ zap \in Seq(Pair) /\ temporal \in Seq(Pair) /\ call \in LogCall
    <2>1. /\ Sweetened(context) \in Seq(Pair) /\ Sweetened(keyvals) \in Seq(Pair)
          /\ toZapFields(context) \in Seq(Pair) /\ toZapFields(keyvals) \in Seq(Pair)
      BY <1>2, SweetenedPairs, PairsOf
    <2>2. zap \in Seq(Pair) /\ temporal \in Seq(Pair)
      BY <2>1, Concatenated
    <2>3. entry \in FieldMap
      BY <1>2, FieldsFill
    <2>4. call \in LogCall
      BY <1>2 DEF LogCall
    <2> QED
      BY <2>2, <2>3, <2>4
  <1>4. Line(call, entry, zap, temporal)
    BY DEF Line
  <1> HIDE DEF entry, zap, temporal, call
  <1>5. /\ entries \in Seq(FieldMap) /\ written \in Seq(Seq(Pair))
        /\ adapted \in Seq(Seq(Pair)) /\ said \in Seq(LogCall)
    BY DEF LogTypes
  <1>6. n \in Nat /\ Len(written) = n /\ Len(adapted) = n /\ Len(said) = n
    BY <1>5 DEF LogInv, LinesAlign
  <1> HIDE DEF n
  <1>7. /\ entries' \in Seq(FieldMap) /\ Len(entries') = n + 1
        /\ \A i \in 1..n : entries'[i] = entries[i]
        /\ entries'[n + 1] = entry
    BY <1>1, <1>3, <1>5, Appended DEF n
  <1>8. /\ written' \in Seq(Seq(Pair)) /\ Len(written') = n + 1
        /\ \A i \in 1..n : written'[i] = written[i]
        /\ written'[n + 1] = zap
    BY <1>1, <1>3, <1>5, <1>6, Appended
  <1>9. /\ adapted' \in Seq(Seq(Pair)) /\ Len(adapted') = n + 1
        /\ \A i \in 1..n : adapted'[i] = adapted[i]
        /\ adapted'[n + 1] = temporal
    <2>1. adapted \in Seq(Seq(Pair)) /\ temporal \in Seq(Pair) /\ adapted' = Append(adapted, temporal)
      BY <1>1, <1>3, <1>5
    <2> QED
      BY <1>6, <2>1, Appended
  <1>10. /\ said' \in Seq(LogCall) /\ Len(said') = n + 1
         /\ \A i \in 1..n : said'[i] = said[i]
         /\ said'[n + 1] = call
    <2>1. said \in Seq(LogCall) /\ call \in LogCall /\ said' = Append(said, call)
      BY <1>1, <1>3, <1>5
    <2> QED
      BY <1>6, <2>1, Appended
  <1>11. LogTypes'
    BY <1>1, <1>2, <1>6, <1>7, <1>8, <1>9, <1>10, BoundsAssumption DEF LogTypes
  <1>12. LinesAlign'
    BY <1>7, <1>8, <1>9, <1>10 DEF LinesAlign
  <1>13. ASSUME NEW i \in 1..Len(entries')
         PROVE  Line(said'[i], entries'[i], written'[i], adapted'[i])
    <2>1. CASE i = n + 1
      BY <1>4, <1>7, <1>8, <1>9, <1>10, <2>1
    <2>2. CASE i # n + 1
      <3>1. i \in 1..n
        BY <1>6, <1>7, <2>2
      <3>2. Line(said[i], entries[i], written[i], adapted[i])
        BY <3>1 DEF LogInv, LinesOfCalls, n
      <3> QED
        BY <1>7, <1>8, <1>9, <1>10, <3>1, <3>2
    <2> QED
      BY <2>1, <2>2
  <1>14. LinesOfCalls'
    BY <1>13 DEF LinesOfCalls
  <1> QED
    BY <1>11, <1>12, <1>14 DEF LogInv

LEMMA ClearStep ==
    ASSUME LogTypes, LogInv, ClearEntries
    PROVE  LogTypes' /\ LogInv'
  <1>1. /\ entries' = <<>> /\ written' = <<>> /\ adapted' = <<>> /\ said' = <<>>
        /\ UNCHANGED context
    BY DEF ClearEntries
  <1>2. LogTypes'
    BY <1>1, BoundsAssumption DEF LogTypes
  <1>3. LogInv'
    BY <1>1 DEF LogInv, LinesAlign, LinesOfCalls
  <1> QED
    BY <1>2, <1>3

----------------------------------------------------------------------------
(* The recorder.                                                             *)
LEMMA SpansStay ==
    ASSUME SpanTypes, FindInv, UNCHANGED spanVars
    PROVE  SpanTypes' /\ FindInv'
  BY DEF spanVars, SpanTypes, FindInv, CountsFollow, SearchIsSound, FindAnswersRight

LEMMA FindTyped ==
    ASSUME SpanTypes
    PROVE  /\ find \in FindCall /\ find.n \in Nat /\ find.i \in Nat /\ find.i <= find.n
           /\ find.n <= MaxSpans
           /\ exported \in Seq(SpanNames) /\ Len(exported) \in Nat
           /\ DOMAIN exported = 1..Len(exported)
  BY BoundsAssumption DEF SpanTypes, FindCall

LEMMA EndStep ==
    ASSUME SpanTypes, FindInv, NEW name \in SpanNames, EndSpan(name)
    PROVE  SpanTypes' /\ FindInv'
  <1>1. ends < MaxSpans /\ ends' = ends + 1 /\ UNCHANGED <<shut, find>>
    BY DEF EndSpan
  <1>2. /\ find.n \in Nat /\ find.i \in Nat /\ find.i <= find.n
        /\ exported \in Seq(SpanNames)
    BY FindTyped
  <1>3. /\ exported' \in Seq(SpanNames) /\ Len(exported) \in Nat
        /\ Len(exported') \in Len(exported)..(Len(exported) + 1)
        /\ \A k \in 1..Len(exported) : exported'[k] = exported[k]
    <2>1. CASE shut
      <3>1. exported' = exported /\ Len(exported) \in Nat
        BY <1>2, <2>1 DEF EndSpan
      <3> QED
        BY <1>2, <3>1
    <2>2. CASE ~shut
      <3>1. exported' = Append(exported, name)
        BY <2>2 DEF EndSpan
      <3>2. /\ exported' \in Seq(SpanNames) /\ Len(exported) \in Nat
            /\ Len(exported') = Len(exported) + 1
            /\ \A k \in 1..Len(exported) : exported'[k] = exported[k]
        BY <1>2, <3>1, Appended
      <3> QED
        BY <3>2
    <2> QED
      BY <2>1, <2>2
  <1>4. SpanTypes'
    BY <1>1, <1>3, BoundsAssumption DEF SpanTypes
  <1>5. CountsFollow'
    BY <1>1, <1>3, BoundsAssumption DEF FindInv, CountsFollow, SpanTypes
  <1>6. FindAnswersRight'
    BY <1>1 DEF FindInv, FindAnswersRight
  <1>7. SearchIsSound'
    <2>1. ASSUME find.pc \in {"name", "answer"}, ~find.emptied
          PROVE  /\ find.n <= Len(exported')
                 /\ find.held <=> \E k \in 1..find.n : exported'[k] = find.name
                 /\ \A k \in 1..find.i : exported'[k] # find.name
                 /\ find.pc = "answer" => find.i < find.n /\ exported'[find.i + 1] = find.name
      <3>1. /\ find.n <= Len(exported)
            /\ find.held <=> \E k \in 1..find.n : exported[k] = find.name
            /\ \A k \in 1..find.i : exported[k] # find.name
            /\ find.pc = "answer" => find.i < find.n /\ exported[find.i + 1] = find.name
        BY <2>1 DEF FindInv, SearchIsSound
      <3>2. \A k \in 1..find.n : exported'[k] = exported[k]
        BY <1>2, <1>3, <3>1
      <3> QED
        BY <1>2, <1>3, <3>1, <3>2
    <2> QED
      BY <1>1, <2>1 DEF FindInv, SearchIsSound
  <1> QED
    BY <1>4, <1>5, <1>6, <1>7 DEF FindInv

LEMMA FindStep ==
    ASSUME SpanTypes, FindInv, NEW name \in SpanNames, FindSpanByName(name)
    PROVE  SpanTypes' /\ FindInv'
  <1> DEFINE held == \E i \in DOMAIN exported : exported[i] = name
             size == Len(exported)
  <1>1. /\ find' = [NoFind EXCEPT !.pc = "name", !.name = name, !.n = size, !.held = held]
        /\ UNCHANGED <<exported, ends, shut>>
    BY DEF FindSpanByName
  <1>2. /\ exported \in Seq(SpanNames) /\ size \in Nat /\ DOMAIN exported = 1..size
        /\ size <= ends /\ ends \in 0..MaxSpans
    BY FindTyped DEF FindInv, CountsFollow, SpanTypes
  <1>3. held \in BOOLEAN
    OBVIOUS
  <1>4. held <=> \E k \in 1..size : exported[k] = name
    BY <1>2
  <1> HIDE DEF held, size
  <1>5. find' = [pc |-> "name", name |-> name, n |-> size, i |-> 0, result |-> "", held |-> held,
                 emptied |-> FALSE]
    BY <1>1 DEF NoFind
  <1>6. size \in 0..MaxSpans /\ 0 \in 0..MaxSpans
    BY <1>2, BoundsAssumption
  <1>7. find' \in FindCall
    BY <1>3, <1>5, <1>6 DEF FindCall, Answer
  <1>8. /\ find'.pc = "name" /\ find'.name = name /\ find'.n = size /\ find'.i = 0
    BY <1>5
  <1>9. find'.held <=> held
    BY <1>5
  <1>10. SpanTypes'
    BY <1>1, <1>2, <1>7, <1>8 DEF SpanTypes
  <1>11. CountsFollow' /\ FindAnswersRight'
    BY <1>1, <1>8 DEF FindInv, CountsFollow, FindAnswersRight
  <1>12. SearchIsSound'
    <2>1. size <= Len(exported) /\ \A k \in 1..0 : exported[k] # name
      BY <1>2 DEF size
    <2> QED
      BY <1>1, <1>4, <1>8, <1>9, <2>1 DEF SearchIsSound
  <1> QED
    BY <1>10, <1>11, <1>12 DEF FindInv

(* What the steps of the search make of the call.                            *)
Same(f, new) ==
    /\ new \in FindCall
    /\ new.name = f.name /\ new.n = f.n /\ (new.held <=> f.held) /\ (new.emptied <=> f.emptied)

LEMMA Moved ==
    ASSUME NEW f \in FindCall, NEW pc \in {"answer", "panicked"}, NEW new,
           new = [f EXCEPT !.pc = pc]
    PROVE  Same(f, new) /\ new.pc = pc /\ new.i = f.i
  BY DEF FindCall, Same

LEMMA Advanced ==
    ASSUME NEW f \in FindCall, f.i < f.n, NEW new, new = [f EXCEPT !.i = f.i + 1]
    PROVE  Same(f, new) /\ new.pc = f.pc /\ new.i = f.i + 1
  BY BoundsAssumption DEF FindCall, Same

LEMMA GivenAnswer ==
    ASSUME find \in FindCall, NEW result \in Answer, find' = Answered(result)
    PROVE  Same(find, find') /\ find'.pc = "answered" /\ find'.i = find.i /\ find'.result = result
  BY DEF Answered, FindCall, Same

LEMMA MarkedEmpty ==
    ASSUME NEW f \in FindCall, NEW new, new = [f EXCEPT !.emptied = TRUE]
    PROVE  new \in FindCall /\ new.pc = f.pc /\ new.n = f.n /\ new.i = f.i /\ new.emptied
  BY DEF FindCall

LEMMA SearchStep ==
    ASSUME SpanTypes, FindInv, FindNext
    PROVE  SpanTypes' /\ FindInv'
  <1>1. find.pc = "name" /\ UNCHANGED <<exported, ends, shut>>
    BY DEF FindNext
  <1>2. /\ find \in FindCall /\ find.n \in Nat /\ find.i \in Nat /\ find.i <= find.n
        /\ DOMAIN exported = 1..Len(exported) /\ Len(exported) \in Nat
    BY FindTyped
  <1>3. ~find.emptied =>
          /\ find.n <= Len(exported)
          /\ find.held <=> \E k \in 1..find.n : exported[k] = find.name
          /\ \A k \in 1..find.i : exported[k] # find.name
    BY <1>1 DEF FindInv, SearchIsSound
  <1>4. exported \in Seq(SpanNames) /\ ends \in 0..MaxSpans /\ CountsFollow'
    BY <1>1 DEF SpanTypes, FindInv, CountsFollow
  <1>5. CASE find.i = find.n
    <2>1. find' = Answered("")
      BY <1>5 DEF FindNext
    <2>2. Same(find, find') /\ find'.pc = "answered" /\ find'.i = find.i /\ find'.result = ""
      BY <1>2, <2>1, GivenAnswer DEF Answer
    <2>3. SpanTypes'
      BY <1>1, <1>2, <1>4, <2>2 DEF SpanTypes, Same
    <2>4. ~find.emptied => ~find.held
      BY <1>3, <1>5
    <2>5. FindAnswersRight' /\ SearchIsSound'
      BY <2>2, <2>4 DEF FindAnswersRight, SearchIsSound, Same
    <2> QED
      BY <1>4, <2>3, <2>5 DEF FindInv
  <1>6. CASE find.i # find.n /\ find.i + 1 \notin DOMAIN exported
    <2>1. find' = [find EXCEPT !.pc = "panicked"]
      BY <1>6 DEF FindNext
    <2>2. Same(find, find') /\ find'.pc = "panicked" /\ find'.i = find.i
      BY <1>2, <2>1, Moved
    <2>3. SpanTypes'
      BY <1>1, <1>2, <1>4, <2>2 DEF SpanTypes, Same
    <2>4. find.emptied
      BY <1>2, <1>3, <1>6
    <2>5. FindAnswersRight' /\ SearchIsSound'
      BY <2>2, <2>4 DEF FindAnswersRight, SearchIsSound, Same
    <2> QED
      BY <1>4, <2>3, <2>5 DEF FindInv
  <1>7. CASE find.i # find.n /\ find.i + 1 \in DOMAIN exported /\ exported[find.i + 1] = find.name
    <2>1. find' = [find EXCEPT !.pc = "answer"]
      BY <1>7 DEF FindNext
    <2>2. Same(find, find') /\ find'.pc = "answer" /\ find'.i = find.i
      BY <1>2, <2>1, Moved
    <2>3. SpanTypes'
      BY <1>1, <1>2, <1>4, <2>2 DEF SpanTypes, Same
    <2>4. find.i < find.n
      BY <1>2, <1>7
    <2>5. FindAnswersRight'
      BY <2>2 DEF FindAnswersRight
    <2>6. SearchIsSound'
      BY <1>1, <1>3, <1>7, <2>2, <2>4 DEF SearchIsSound, Same
    <2> QED
      BY <1>4, <2>3, <2>5, <2>6 DEF FindInv
  <1>8. CASE find.i # find.n /\ find.i + 1 \in DOMAIN exported /\ exported[find.i + 1] # find.name
    <2>1. find' = [find EXCEPT !.i = find.i + 1]
      BY <1>8 DEF FindNext
    <2>2. find.i < find.n
      BY <1>2, <1>8
    <2>3. Same(find, find') /\ find'.pc = "name" /\ find'.i = find.i + 1
      BY <1>1, <1>2, <2>1, <2>2, Advanced
    <2>4. SpanTypes'
      BY <1>1, <1>2, <1>4, <2>2, <2>3 DEF SpanTypes, Same
    <2>5. FindAnswersRight'
      BY <2>3 DEF FindAnswersRight
    <2>6. ~find.emptied => \A k \in 1..(find.i + 1) : exported[k] # find.name
      <3>1. \A k \in 1..(find.i + 1) : k \in 1..find.i \/ k = find.i + 1
        BY <1>2
      <3> QED
        BY <1>3, <1>8, <3>1
    <2>7. SearchIsSound'
      BY <1>1, <1>3, <2>3, <2>6 DEF SearchIsSound, Same
    <2> QED
      BY <1>4, <2>4, <2>5, <2>7 DEF FindInv
  <1> QED
    BY <1>5, <1>6, <1>7, <1>8

LEMMA AnswerStep ==
    ASSUME SpanTypes, FindInv, FindAnswer
    PROVE  SpanTypes' /\ FindInv'
  <1>1. find.pc = "answer" /\ UNCHANGED <<exported, ends, shut>>
    BY DEF FindAnswer
  <1>2. /\ find \in FindCall /\ find.n \in Nat /\ find.i \in Nat /\ find.i <= find.n
        /\ DOMAIN exported = 1..Len(exported) /\ Len(exported) \in Nat
    BY FindTyped
  <1>3. ~find.emptied =>
          /\ find.n <= Len(exported) /\ find.i < find.n /\ exported[find.i + 1] = find.name
          /\ find.held <=> \E k \in 1..find.n : exported[k] = find.name
    BY <1>1 DEF FindInv, SearchIsSound
  <1>4. exported \in Seq(SpanNames) /\ ends \in 0..MaxSpans /\ CountsFollow'
    BY <1>1 DEF SpanTypes, FindInv, CountsFollow
  <1>5. ~find.emptied => find.i + 1 \in DOMAIN exported /\ find.held
    BY <1>2, <1>3
  <1>6. CASE find.i + 1 \in DOMAIN exported
    <2> DEFINE result == exported[find.i + 1]
    <2>1. find' = Answered(result)
      BY <1>6 DEF FindAnswer
    <2>2. result \in Answer
      <3>1. \A k \in DOMAIN exported : exported[k] \in SpanNames
        BY <1>4
      <3> QED
        BY <1>6, <3>1 DEF Answer
    <2>3. Same(find, find') /\ find'.pc = "answered" /\ find'.i = find.i /\ find'.result = result
      <3> HIDE DEF result
      <3> QED
        BY <1>2, <2>1, <2>2, GivenAnswer
    <2>4. SpanTypes'
      BY <1>1, <1>2, <1>4, <2>3 DEF SpanTypes, Same
    <2>5. FindAnswersRight' /\ SearchIsSound'
      BY <1>3, <1>5, <2>3 DEF FindAnswersRight, SearchIsSound, Same
    <2> QED
      BY <1>4, <2>4, <2>5 DEF FindInv
  <1>7. CASE find.i + 1 \notin DOMAIN exported
    <2>1. find' = [find EXCEPT !.pc = "panicked"]
      BY <1>7 DEF FindAnswer
    <2>2. Same(find, find') /\ find'.pc = "panicked" /\ find'.i = find.i
      BY <1>2, <2>1, Moved
    <2>3. SpanTypes'
      BY <1>1, <1>2, <1>4, <2>2 DEF SpanTypes, Same
    <2>4. FindAnswersRight' /\ SearchIsSound'
      BY <1>5, <1>7, <2>2 DEF FindAnswersRight, SearchIsSound, Same
    <2> QED
      BY <1>4, <2>3, <2>4 DEF FindInv
  <1> QED
    BY <1>6, <1>7

LEMMA EmptyStep ==
    ASSUME SpanTypes, FindInv, Empty, UNCHANGED ends, shut' \in BOOLEAN
    PROVE  SpanTypes' /\ FindInv'
  <1>1. exported' = <<>> /\ find' = [find EXCEPT !.emptied = TRUE] /\ UNCHANGED ends
    BY DEF Empty
  <1>2. find \in FindCall /\ find.i <= find.n /\ ends \in 0..MaxSpans
    BY DEF SpanTypes
  <1>3. /\ find' \in FindCall /\ find'.pc = find.pc /\ find'.n = find.n /\ find'.i = find.i
        /\ find'.emptied
    BY <1>1, <1>2, MarkedEmpty
  <1>4. SpanTypes'
    BY <1>1, <1>2, <1>3 DEF SpanTypes
  <1>5. CountsFollow'
    BY <1>1, <1>2, BoundsAssumption DEF CountsFollow
  <1>6. FindAnswersRight' /\ SearchIsSound'
    BY <1>3 DEF FindAnswersRight, SearchIsSound
  <1> QED
    BY <1>4, <1>5, <1>6 DEF FindInv

----------------------------------------------------------------------------
LEMMA StepPreserves == TypeOK /\ IInv /\ [Next]_vars => TypeOK' /\ IInv'
  <1> SUFFICES ASSUME TypeOK, IInv, [Next]_vars
               PROVE  TypeOK' /\ IInv'
    OBVIOUS
  <1>1. LogTypes /\ SpanTypes /\ FindInv /\ LogInv
    BY Types DEF IInv
  <1>2. UNCHANGED logVars => LogTypes' /\ LogInv'
    BY <1>1, LogStays
  <1>3. UNCHANGED spanVars => SpanTypes' /\ FindInv'
    BY <1>1, SpansStay
  <1> DEFINE Goal == LogTypes' /\ SpanTypes' /\ FindInv' /\ LogInv'
  <1> SUFFICES Goal
    BY TypesNext DEF IInv
  <1>4. ASSUME NEW name \in SpanNames, EndSpan(name)
        PROVE  Goal
    <2>1. UNCHANGED logVars
      BY <1>4 DEF EndSpan
    <2>2. SpanTypes' /\ FindInv'
      BY <1>1, <1>4, EndStep
    <2> QED
      BY <1>2, <2>1, <2>2
  <1>5. ASSUME NEW name \in SpanNames, FindSpanByName(name)
        PROVE  Goal
    <2>1. UNCHANGED logVars
      BY <1>5 DEF FindSpanByName
    <2>2. SpanTypes' /\ FindInv'
      BY <1>1, <1>5, FindStep
    <2> QED
      BY <1>2, <2>1, <2>2
  <1>6. CASE FindNext
    <2>1. UNCHANGED logVars
      BY <1>6 DEF FindNext
    <2>2. SpanTypes' /\ FindInv'
      BY <1>1, <1>6, SearchStep
    <2> QED
      BY <1>2, <2>1, <2>2
  <1>7. CASE FindAnswer
    <2>1. UNCHANGED logVars
      BY <1>7 DEF FindAnswer
    <2>2. SpanTypes' /\ FindInv'
      BY <1>1, <1>7, AnswerStep
    <2> QED
      BY <1>2, <2>1, <2>2
  <1>8. CASE ResetSpans
    <2>1. Empty /\ UNCHANGED ends /\ UNCHANGED shut /\ UNCHANGED logVars
      BY <1>8 DEF ResetSpans
    <2>2. shut' \in BOOLEAN
      BY <1>1, <2>1 DEF SpanTypes
    <2>3. SpanTypes' /\ FindInv'
      BY <1>1, <2>1, <2>2, EmptyStep
    <2> QED
      BY <1>2, <2>1, <2>3
  <1>9. ASSUME NEW keyvals \in Calls, With(keyvals)
        PROVE  Goal
    <2>1. UNCHANGED spanVars
      BY <1>9 DEF With
    <2>2. LogTypes' /\ LogInv'
      BY <1>1, <1>9, WithStep
    <2> QED
      BY <1>3, <2>1, <2>2
  <1>10. ASSUME NEW keyvals \in Calls, Log(keyvals)
         PROVE  Goal
    <2>1. UNCHANGED spanVars
      BY <1>10 DEF Log
    <2>2. LogTypes' /\ LogInv'
      BY <1>1, <1>10, LogStep
    <2> QED
      BY <1>3, <2>1, <2>2
  <1>11. CASE ClearEntries
    <2>1. UNCHANGED spanVars
      BY <1>11 DEF ClearEntries
    <2>2. LogTypes' /\ LogInv'
      BY <1>1, <1>11, ClearStep
    <2> QED
      BY <1>3, <2>1, <2>2
  <1>12. CASE ShutdownSpans
    <2>1. Empty /\ UNCHANGED ends /\ shut' = TRUE /\ UNCHANGED logVars
      BY <1>12 DEF ShutdownSpans
    <2>2. SpanTypes' /\ FindInv'
      BY <1>1, <2>1, EmptyStep
    <2> QED
      BY <1>2, <2>1, <2>2
  <1>13. CASE UNCHANGED vars
    <2>1. UNCHANGED logVars /\ UNCHANGED spanVars
      BY <1>13 DEF vars, logVars, spanVars
    <2> QED
      BY <1>2, <1>3, <2>1
  <1> QED
    BY <1>4, <1>5, <1>6, <1>7, <1>8, <1>9, <1>10, <1>11, <1>12, <1>13
    DEF Next

LEMMA Established == Init => TypeOK /\ IInv
  <1> SUFFICES ASSUME Init
               PROVE  TypeOK /\ IInv
    OBVIOUS
  <1>1. /\ exported = <<>> /\ ends = 0 /\ entries = <<>> /\ context = <<>>
        /\ written = <<>> /\ adapted = <<>> /\ said = <<>> /\ shut = FALSE /\ find = NoFind
    BY DEF Init
  <1>2. LogTypes
    BY <1>1, BoundsAssumption DEF LogTypes
  <1>3. NoFind \in FindCall /\ NoFind.pc = "idle" /\ NoFind.i = 0 /\ NoFind.n = 0
    BY BoundsAssumption DEF NoFind, FindCall, Answer
  <1>4. SpanTypes
    <2>1. shut \in BOOLEAN
      BY <1>1
    <2> QED
      BY <1>1, <1>3, <2>1, BoundsAssumption DEF SpanTypes
  <1>5. FindInv
    BY <1>1, <1>3 DEF FindInv, CountsFollow, SearchIsSound, FindAnswersRight
  <1>6. LogInv
    BY <1>1 DEF LogInv, LinesAlign, LinesOfCalls
  <1> QED
    BY <1>2, <1>4, <1>5, <1>6, Types DEF IInv

LEMMA Invariants == Spec => [](TypeOK /\ IInv)
  BY Established, StepPreserves, PTL DEF Spec

----------------------------------------------------------------------------
(* The variables keep their types: the search's index stays within the bound *)
(* it read, entries are maps from strings and lines are lists of pairs.      *)
THEOREM TypeCorrect == Spec => []TypeOK
  BY Invariants, PTL

(* FindSpanByName answers a span of the name exactly if one had ended when   *)
(* it was called, and runs out of its index only after a Reset or Shutdown.  *)
THEOREM SearchesAnswerRight == Spec => []FindAnswersRight
  <1>1. IInv => FindAnswersRight
    BY DEF IInv, FindInv
  <1> QED
    BY <1>1, Invariants, PTL

(* BufferLogger's entries, laid over the pairs of With, read as what the     *)
(* adapter writes for any call and ZapLogger for one with strings at its odd *)
(* places.                                                                   *)
THEOREM EntriesAgree == Spec => []EntriesAreWritten
  <1>1. ASSUME TypeOK, IInv, NEW i \in DOMAIN entries
        PROVE  /\ Filled(adapted[i]) = Over(entries[i], Filled(toZapFields(said[i].with)))
               /\ Plain(said[i].keyvals) =>
                    Filled(written[i]) = Over(entries[i], Filled(Sweetened(said[i].with)))
    <2> DEFINE keyvals == said[i].keyvals
               with == said[i].with
    <2>1. i \in 1..Len(entries) /\ i \in 1..Len(said)
      BY <1>1 DEF TypeOK, IInv, LogInv, LinesAlign
    <2>2. Line(said[i], entries[i], written[i], adapted[i])
      BY <1>1, <2>1 DEF IInv, LogInv, LinesOfCalls
    <2>3. keyvals \in Seq(Argument) /\ with \in Seq(Argument)
      <3>1. said[i] \in LogCall
        BY <1>1, <2>1 DEF TypeOK
      <3> QED
        BY <3>1 DEF LogCall
    <2>4. /\ entries[i] = toFields(keyvals)
          /\ written[i] = Sweetened(with) \o Sweetened(keyvals)
          /\ adapted[i] = toZapFields(with) \o toZapFields(keyvals)
      BY <2>2 DEF Line
    <2> HIDE DEF keyvals, with
    <2>5. /\ Sweetened(with) \in Seq(Pair) /\ toZapFields(with) \in Seq(Pair)
          /\ Sweetened(keyvals) \in Seq(Pair) /\ toZapFields(keyvals) \in Seq(Pair)
      BY <2>3, SweetenedPairs, PairsOf
    <2>6. Filled(adapted[i]) = Over(Filled(toZapFields(keyvals)), Filled(toZapFields(with)))
      BY <2>4, <2>5, FilledOver
    <2>7. Filled(written[i]) = Over(Filled(Sweetened(keyvals)), Filled(Sweetened(with)))
      BY <2>4, <2>5, FilledOver
    <2>8. toFields(keyvals) = Filled(toZapFields(keyvals))
      BY <2>3, FieldsFill
    <2>9. Plain(keyvals) => Filled(Sweetened(keyvals)) = Filled(toZapFields(keyvals))
      BY <2>3, PlainFill
    <2> QED
      BY <2>4, <2>6, <2>7, <2>8, <2>9 DEF keyvals, with
  <1>2. TypeOK /\ IInv => EntriesAreWritten
    BY <1>1 DEF EntriesAreWritten
  <1> QED
    BY <1>2, Invariants, PTL
=============================================================================

------------------------ MODULE WorkflowListingProofs ------------------------
(* Proofs about WorkflowListing that hold of any workflows, any size of a    *)
(* page and any number of starts, closes and pages.                          *)
EXTENDS WorkflowListing, FiniteSetTheorems, TLAPS

(* The server's clock: an execution has times of its own, which it keeps.    *)
ExecutionsTimed ==
    \A w \in Workflows : execs[w] # None =>
        /\ execs[w].start <= now
        /\ IF execs[w].status = "running" THEN execs[w].close = 0
                                          ELSE execs[w].close \in 1..now
TimesDistinct ==
    \A v, w \in Workflows : v # w /\ execs[v] # None /\ execs[w] # None =>
        /\ execs[v].start # execs[w].start
        /\ execs[v].close = execs[w].close => execs[v].close = 0

(* A record lags behind its execution, but only by the close.                *)
IndexFollows ==
    \A w \in Workflows : indexed[w] # None =>
        /\ execs[w] # None
        /\ indexed[w].start = execs[w].start
        /\ IF indexed[w].status = "running" THEN indexed[w].close = 0
                                            ELSE indexed[w] = execs[w]

(* What was listed is the record it was taken from, but for a later close.   *)
ListedWas ==
    \A i \in DOMAIN list :
        LET l == list[i]
            e == indexed[l.id]
        IN  /\ e # None
            /\ IF l.status = "running" THEN l.start = e.start /\ l.close = 0
                                       ELSE l = status(l.id, e)

(* The token parts what was listed from what is to come, and no workflow     *)
(* that has matched since the first page is on neither side.                 *)
ListedInFront ==
    running = "paging" =>
        IF token = None THEN list = <<>>
                        ELSE \A i \in DOMAIN list : ~Behind(Place(list[i]), token)
MatchedToCome ==
    running = "paging" => matched \subseteq Ids(list) \cup Rest(token)

ServerInv == ExecutionsTimed /\ TimesDistinct /\ IndexFollows
ListInv == ListedWas /\ ListedInFront /\ MatchedToCome /\ NoneMissed /\ TwiceOnlyIfClosed
IInv == ServerInv /\ ListInv

----------------------------------------------------------------------------
(* Ranks in a finite set with a strict total order, where front[w] is what   *)
(* comes before w: each rank from none to all but one is taken once.         *)
LEMMA Ranked ==
    ASSUME NEW S, IsFiniteSet(S), NEW front \in [S -> SUBSET S],
           \A w \in S : w \notin front[w],
           \A v, w \in S : v # w => v \in front[w] \/ w \in front[v],
           \A v, w \in S : v \in front[w] => front[v] \subseteq front[w]
    PROVE  /\ Cardinality(S) \in Nat
           /\ \A w \in S : Cardinality(front[w]) \in 0..(Cardinality(S) - 1)
           /\ \A v, w \in S : v \in front[w] => Cardinality(front[v]) < Cardinality(front[w])
           /\ \A k \in 0..(Cardinality(S) - 1) : \E w \in S : Cardinality(front[w]) = k
  <1> DEFINE n == Cardinality(S)
             rank == [w \in S |-> Cardinality(front[w])]
  <1>1. n \in Nat
    BY FS_CardinalityType
  <1>2. \A w \in S : IsFiniteSet(front[w]) /\ Cardinality(front[w]) \in Nat /\ Cardinality(front[w]) < n
    <2> TAKE w \in S
    <2>1. front[w] \in SUBSET S /\ front[w] # S
      OBVIOUS
    <2>2. IsFiniteSet(front[w]) /\ Cardinality(front[w]) <= n /\ (n = Cardinality(front[w]) => S = front[w])
      BY <2>1, FS_Subset
    <2>3. Cardinality(front[w]) \in Nat
      BY <2>2, FS_CardinalityType
    <2> QED
      BY <1>1, <2>1, <2>2, <2>3
  <1>3. ASSUME NEW v \in S, NEW w \in S, v \in front[w]
        PROVE  Cardinality(front[v]) < Cardinality(front[w])
    <2>1. front[v] \in SUBSET front[w] /\ front[v] # front[w]
      BY <1>3
    <2>2. Cardinality(front[v]) <= Cardinality(front[w])
          /\ (Cardinality(front[w]) = Cardinality(front[v]) => front[w] = front[v])
      BY <1>2, <2>1, FS_Subset
    <2> QED
      BY <1>2, <2>1, <2>2
  <1>4. rank \in Injection(S, 0..(n - 1))
    <2>1. rank \in [S -> 0..(n - 1)]
      BY <1>1, <1>2
    <2>2. ASSUME NEW v \in S, NEW w \in S, rank[v] = rank[w]
          PROVE  v = w
      <3>1. Cardinality(front[v]) = Cardinality(front[w])
        BY <2>2
      <3> QED
        BY <1>2, <1>3, <3>1
    <2> QED
      BY <2>1, <2>2 DEF Injection, IsInjective
  <1>5. IsFiniteSet(0..(n - 1)) /\ Cardinality(0..(n - 1)) = n
    BY <1>1, FS_Interval
  <1>6. rank \in Surjection(S, 0..(n - 1))
    BY <1>4, <1>5, FS_Injection
  <1>7. \A k \in 0..(n - 1) : \E w \in S : Cardinality(front[w]) = k
    BY <1>6 DEF Surjection
  <1> QED
    BY <1>1, <1>2, <1>3, <1>7

----------------------------------------------------------------------------
(* Places are ordered, and the records of two workflows have two places.     *)
LEMMA PlacesOrdered ==
    ASSUME NEW p \in Token, NEW q \in Token, NEW r \in Token
    PROVE  /\ ~Behind(p, p)
           /\ Behind(p, q) /\ Behind(q, r) => Behind(p, r)
           /\ Behind(p, q) \/ Behind(q, p) \/ p = q
  BY BoundsAssumption DEF Behind, Token

LEMMA RecordTyped ==
    ASSUME TypeOK, ServerInv, NEW w \in Workflows, indexed[w] # None
    PROVE  /\ execs[w] # None /\ indexed[w] \in Execution /\ execs[w] \in Execution
           /\ Place(indexed[w]) \in Token
  <1>1. execs[w] # None /\ indexed[w] \in Execution /\ execs[w] \in Execution
    BY DEF TypeOK, ServerInv, IndexFollows
  <1>2. indexed[w].status # "running" => indexed[w].close \in 1..now
    BY <1>1 DEF ServerInv, IndexFollows, ExecutionsTimed
  <1> QED
    BY <1>1, <1>2, BoundsAssumption DEF TypeOK, Place, Token, Execution

LEMMA PlacesDistinct ==
    ASSUME TypeOK, ServerInv, NEW v \in Workflows, NEW w \in Workflows,
           indexed[v] # None, indexed[w] # None, v # w
    PROVE  Place(indexed[v]) # Place(indexed[w])
  <1>1. execs[v] # None /\ execs[w] # None
    BY RecordTyped
  <1>2. CASE indexed[v].status = "running" /\ indexed[w].status = "running"
    BY <1>1, <1>2 DEF ServerInv, IndexFollows, TimesDistinct, Place
  <1>3. CASE indexed[v].status # "running" /\ indexed[w].status # "running"
    <2>1. execs[v].close \in 1..now /\ execs[v].close # execs[w].close
      BY <1>1, <1>3 DEF ServerInv, IndexFollows, TimesDistinct, ExecutionsTimed
    <2> QED
      BY <1>3, <2>1 DEF ServerInv, IndexFollows, Place
  <1> QED
    BY <1>2, <1>3 DEF Place

(* No more workflows have records than there have been starts.               *)
LEMMA RecordsFinite ==
    ASSUME TypeOK, ServerInv
    PROVE  IsFiniteSet({w \in Workflows : indexed[w] # None})
  <1> DEFINE R == {w \in Workflows : indexed[w] # None}
             f == [w \in R |-> execs[w].start]
  <1>1. f \in [R -> 1..MaxTime]
    BY RecordTyped DEF Execution
  <1>2. \A v, w \in R : f[v] = f[w] => v = w
    BY RecordTyped DEF ServerInv, TimesDistinct
  <1>3. f \in Injection(R, 1..MaxTime)
    BY <1>1, <1>2 DEF Injection, IsInjective
  <1>4. IsFiniteSet(1..MaxTime)
    BY BoundsAssumption, FS_Interval
  <1> QED
    BY <1>3, <1>4, FS_Injection

(* The store's order lists each of a set of records once, one behind the     *)
(* other.                                                                    *)
LEMMA InOrderLists ==
    ASSUME TypeOK, ServerInv, NEW S \in SUBSET {w \in Workflows : indexed[w] # None},
           NEW rest, rest = InOrder(S)
    PROVE  /\ rest \in Seq(S) /\ Len(rest) \in Nat /\ DOMAIN rest = 1..Len(rest)
           /\ \A i \in DOMAIN rest : rest[i] \in S
           /\ \A w \in S : \E i \in DOMAIN rest : rest[i] = w
           /\ \A i, j \in DOMAIN rest :
                i < j => Behind(Place(indexed[rest[j]]), Place(indexed[rest[i]]))
  <1> DEFINE front == [w \in S |-> Before(w, S)]
             n == Cardinality(S)
  <1>1. IsFiniteSet(S)
    BY RecordsFinite, FS_Subset
  <1>2. \A w \in S : w \in Workflows /\ indexed[w] # None /\ Place(indexed[w]) \in Token
    BY RecordTyped
  <1>3. front \in [S -> SUBSET S]
    BY DEF Before
  <1>4. \A w \in S : w \notin front[w]
    BY <1>2, PlacesOrdered DEF Before
  <1>5. ASSUME NEW v \in S, NEW w \in S, v # w
        PROVE  v \in front[w] \/ w \in front[v]
    <2>1. Place(indexed[v]) # Place(indexed[w])
      BY <1>2, <1>5, PlacesDistinct
    <2> QED
      BY <1>2, <2>1, PlacesOrdered DEF Before
  <1>6. ASSUME NEW v \in S, NEW w \in S, v \in front[w]
        PROVE  front[v] \subseteq front[w]
    BY <1>2, <1>6, PlacesOrdered DEF Before
  <1> HIDE DEF front
  <1>7. /\ n \in Nat
        /\ \A w \in S : Cardinality(front[w]) \in 0..(n - 1)
        /\ \A v, w \in S : v \in front[w] => Cardinality(front[v]) < Cardinality(front[w])
        /\ \A k \in 0..(n - 1) : \E w \in S : Cardinality(front[w]) = k
    BY <1>1, <1>3, <1>4, <1>5, <1>6, Ranked
  <1>8. \A w \in S : front[w] = Before(w, S)
    BY DEF front
  <1>9. DOMAIN rest = 1..n /\ \A i \in 1..n : rest[i] = CHOOSE w \in S : Cardinality(Before(w, S)) = i - 1
    BY DEF InOrder
  <1>10. \A i \in 1..n : rest[i] \in S /\ Cardinality(front[rest[i]]) = i - 1
    <2> TAKE i \in 1..n
    <2>1. i - 1 \in 0..(n - 1)
      BY <1>7
    <2>2. \E w \in S : Cardinality(Before(w, S)) = i - 1
      BY <1>7, <1>8, <2>1
    <2>3. rest[i] \in S /\ Cardinality(Before(rest[i], S)) = i - 1
      BY <1>9, <2>2
    <2> QED
      BY <1>8, <2>3
  <1>11. rest \in Seq(S) /\ Len(rest) = n
    <2>1. rest \in [1..n -> S]
      <3>1. rest = [i \in 1..n |-> rest[i]]
        BY <1>9 DEF InOrder
      <3> QED
        BY <1>10, <3>1
    <2> QED
      BY <1>7, <2>1
  <1>12. ASSUME NEW w \in S
         PROVE  \E i \in 1..n : rest[i] = w
    <2>1. PICK k \in 0..(n - 1) : k = Cardinality(front[w])
      BY <1>7
    <2>2. k + 1 \in 1..n /\ Cardinality(front[rest[k + 1]]) = k /\ rest[k + 1] \in S
      BY <1>7, <1>10
    <2>3. rest[k + 1] = w
      BY <1>5, <1>7, <2>1, <2>2
    <2> QED
      BY <2>2, <2>3
  <1>13. ASSUME NEW i \in 1..n, NEW j \in 1..n, i < j
         PROVE  Behind(Place(indexed[rest[j]]), Place(indexed[rest[i]]))
    <2>1. rest[i] # rest[j] /\ rest[j] \notin front[rest[i]]
      BY <1>7, <1>10, <1>13
    <2>2. rest[i] \in front[rest[j]]
      BY <1>5, <1>10, <2>1
    <2> QED
      BY <1>8, <1>10, <2>2 DEF Before
  <1> QED
    BY <1>7, <1>9, <1>10, <1>11, <1>12, <1>13

----------------------------------------------------------------------------
LEMMA Concatenated ==
    ASSUME NEW S, NEW seq \in Seq(S), NEW add \in Seq(S), NEW new, new = seq \o add
    PROVE  /\ new \in Seq(S) /\ Len(seq) \in Nat /\ Len(add) \in Nat
           /\ DOMAIN seq = 1..Len(seq) /\ DOMAIN add = 1..Len(add)
           /\ DOMAIN new = 1..(Len(seq) + Len(add))
           /\ \A i \in 1..Len(seq) : new[i] = seq[i]
           /\ \A i \in 1..Len(add) : new[Len(seq) + i] = add[i]
  OBVIOUS

LEMMA Prefixed ==
    ASSUME NEW S, NEW seq \in Seq(S), NEW n \in Nat \ {0}, NEW new,
           new = SubSeq(seq, 1, IF n < Len(seq) THEN n ELSE Len(seq))
    PROVE  /\ Len(new) = IF n < Len(seq) THEN n ELSE Len(seq)
           /\ DOMAIN new = 1..Len(new) /\ Len(new) \in Nat
           /\ \A i \in 1..Len(new) : new[i] = seq[i]
  OBVIOUS

(* What a page adds to the list: records from behind the token, one behind   *)
(* the other, and all of them when it is the last page.                      *)
Page(page, added) ==
    /\ added \in Seq(WorkflowStatus)
    /\ list' = list \o added
    /\ Len(page) \in Nat /\ DOMAIN page = 1..Len(page) /\ DOMAIN added = 1..Len(page)
    /\ \A i \in 1..Len(page) : page[i] \in Rest(token) /\ added[i] = status(page[i], indexed[page[i]])
    /\ \A i, j \in 1..Len(page) :
         i < j => Behind(Place(indexed[page[j]]), Place(indexed[page[i]]))
    /\ \/ /\ running' = "ok" /\ token' = None
          /\ \A w \in Rest(token) : \E i \in 1..Len(page) : page[i] = w
       \/ /\ running' = "paging" /\ Len(page) > 0 /\ token' = Place(indexed[page[Len(page)]])
          /\ \A w \in Rest(token) :
               \/ \E i \in 1..Len(page) : page[i] = w
               \/ Behind(Place(indexed[w]), Place(indexed[page[Len(page)]]))

LEMMA StatusTyped ==
    ASSUME TypeOK, ServerInv, NEW w \in Workflows, indexed[w] # None
    PROVE  /\ status(w, indexed[w]) \in WorkflowStatus
           /\ Place(status(w, indexed[w])) = Place(indexed[w])
  BY RecordTyped DEF status, WorkflowStatus, Execution, Place

LEMMA PageTaken ==
    ASSUME TypeOK, ServerInv, ListWorkflow
    PROVE  \E page, added : Page(page, added)
  <1> DEFINE S == Rest(token)
  <1>1. S \in SUBSET {w \in Workflows : indexed[w] # None}
    BY DEF Rest, Matches
  <1>2. PICK rest \in {InOrder(S)}, n \in 1..PageSize :
          LET page == SubSeq(rest, 1, IF n < Len(rest) THEN n ELSE Len(rest))
          IN  /\ list' = list \o [i \in DOMAIN page |-> status(page[i], indexed[page[i]])]
              /\ IF LastPage(page, Len(rest) > n)
                   THEN running' = "ok" /\ token' = None
                   ELSE UNCHANGED running /\ token' = NextToken(page)
    BY DEF ListWorkflow
  <1>3. rest = InOrder(S)
    OBVIOUS
  <1>4. n \in Nat \ {0}
    BY BoundsAssumption
  <1> DEFINE page == SubSeq(rest, 1, IF n < Len(rest) THEN n ELSE Len(rest))
             added == [i \in DOMAIN page |-> status(page[i], indexed[page[i]])]
  <1>5. /\ list' = list \o added
        /\ IF Len(rest) > n THEN UNCHANGED running /\ token' = Place(indexed[page[Len(page)]])
                            ELSE running' = "ok" /\ token' = None
    BY <1>2 DEF LastPage, NextToken
  <1> HIDE DEF S
  <1>6. /\ rest \in Seq(S) /\ Len(rest) \in Nat /\ DOMAIN rest = 1..Len(rest)
        /\ \A i \in DOMAIN rest : rest[i] \in S
        /\ \A w \in S : \E i \in DOMAIN rest : rest[i] = w
        /\ \A i, j \in DOMAIN rest :
             i < j => Behind(Place(indexed[rest[j]]), Place(indexed[rest[i]]))
    BY <1>1, <1>3, InOrderLists
  <1>7. /\ Len(page) = IF n < Len(rest) THEN n ELSE Len(rest)
        /\ DOMAIN page = 1..Len(page) /\ Len(page) \in Nat
        /\ \A i \in 1..Len(page) : page[i] = rest[i]
    BY <1>4, <1>6, Prefixed
  <1> HIDE DEF page
  <1>8. \A i \in 1..Len(page) : i \in DOMAIN rest /\ page[i] \in S
    BY <1>4, <1>6, <1>7
  <1>9. DOMAIN added = 1..Len(page)
        /\ \A i \in 1..Len(page) : added[i] = status(page[i], indexed[page[i]])
    BY <1>7
  <1>10. added \in Seq(WorkflowStatus)
    <2>1. \A i \in 1..Len(page) : status(page[i], indexed[page[i]]) \in WorkflowStatus
      BY <1>1, <1>8, StatusTyped
    <2>2. added \in [1..Len(page) -> WorkflowStatus]
      BY <1>7, <2>1
    <2> QED
      BY <1>7, <2>2
  <1> HIDE DEF added
  <1>11. \A i, j \in 1..Len(page) :
           i < j => Behind(Place(indexed[page[j]]), Place(indexed[page[i]]))
    BY <1>6, <1>7, <1>8
  <1>12. CASE Len(rest) > n
    <2>1. running' = "paging" /\ Len(page) = n /\ Len(page) > 0
      BY <1>4, <1>5, <1>6, <1>7, <1>12 DEF ListWorkflow
    <2>2. ASSUME NEW w \in S
          PROVE  \/ \E i \in 1..Len(page) : page[i] = w
                 \/ Behind(Place(indexed[w]), Place(indexed[page[Len(page)]]))
      <3>1. PICK i \in DOMAIN rest : rest[i] = w
        BY <1>6
      <3>2. CASE i <= n
        BY <1>6, <1>7, <2>1, <3>1, <3>2
      <3>3. CASE i > n
        <4>1. n \in DOMAIN rest /\ page[Len(page)] = rest[n]
          BY <1>4, <1>6, <1>7, <1>12, <2>1
        <4> QED
          BY <1>4, <1>6, <3>1, <3>3, <4>1
      <3> QED
        BY <1>4, <1>6, <3>2, <3>3
    <2>3. Page(page, added)
      BY <1>5, <1>7, <1>8, <1>9, <1>10, <1>11, <1>12, <2>1, <2>2 DEF Page, S
    <2> QED
      BY <2>3
  <1>13. CASE ~(Len(rest) > n)
    <2>1. Len(page) = Len(rest)
      BY <1>4, <1>6, <1>7, <1>13
    <2>2. \A w \in S : \E i \in 1..Len(page) : page[i] = w
      BY <1>6, <1>7, <2>1
    <2>3. Page(page, added)
      BY <1>5, <1>7, <1>8, <1>9, <1>10, <1>11, <1>13, <2>2 DEF Page, S
    <2> QED
      BY <2>3
  <1> QED
    BY <1>12, <1>13

(* A listed workflow has its record's place, unless it closed since.         *)
LEMMA ItemPlaces ==
    ASSUME TypeOK, ServerInv, ListedWas, NEW i \in DOMAIN list
    PROVE  /\ list[i] \in WorkflowStatus /\ list[i].id \in Workflows
           /\ indexed[list[i].id] # None
           /\ Place(list[i]) \in Token
           /\ list[i].status = "running" =>
                list[i].start = indexed[list[i].id].start /\ list[i].close = 0
           /\ list[i].status # "running" => list[i] = status(list[i].id, indexed[list[i].id])
  <1> DEFINE w == list[i].id
  <1>1. list[i] \in WorkflowStatus
    BY DEF TypeOK
  <1>2. w \in Workflows /\ indexed[w] # None
    BY <1>1 DEF WorkflowStatus, ListedWas
  <1>3. /\ list[i].status = "running" => list[i].start = indexed[w].start /\ list[i].close = 0
        /\ list[i].status # "running" => list[i] = status(w, indexed[w])
    BY DEF ListedWas
  <1>4. Place(list[i]) \in Token
    <2>1. CASE list[i].status = "running"
      BY <1>1, <2>1 DEF WorkflowStatus, Place, Token
    <2>2. CASE list[i].status # "running"
      BY <1>2, <1>3, <2>2, RecordTyped, StatusTyped
    <2> QED
      BY <2>1, <2>2
  <1> QED
    BY <1>1, <1>2, <1>3, <1>4

(* One page keeps what is known of the list.                                 *)
LEMMA PageStep ==
    ASSUME TypeOK, IInv, ListWorkflow
    PROVE  /\ running' \in {"paging", "ok"} /\ token' \in Token \cup {None}
           /\ list' \in Seq(WorkflowStatus)
           /\ ListInv'
  <1>1. ServerInv /\ ListedWas
    BY DEF IInv, ListInv
  <1>2. PICK page, added : Page(page, added)
    BY <1>1, PageTaken
  <1> DEFINE m == Len(page)
             r == Len(list)
             new == list'
             At(i) == Place(indexed[page[i]])
  <1>3. /\ added \in Seq(WorkflowStatus) /\ m \in Nat /\ DOMAIN page = 1..m /\ DOMAIN added = 1..m
        /\ new = list \o added
    BY <1>2 DEF Page
  <1>4. \A i \in 1..m : page[i] \in Rest(token) /\ added[i] = status(page[i], indexed[page[i]])
    BY <1>2 DEF Page
  <1>5. \A i, j \in 1..m : i < j => Behind(At(j), At(i))
    BY <1>2 DEF Page
  <1>6. \/ /\ running' = "ok" /\ token' = None
           /\ \A w \in Rest(token) : \E i \in 1..m : page[i] = w
        \/ /\ running' = "paging" /\ m > 0 /\ token' = At(m)
           /\ \A w \in Rest(token) :
                (\E i \in 1..m : page[i] = w) \/ Behind(Place(indexed[w]), At(m))
    BY <1>2 DEF Page
  <1>7. UNCHANGED <<now, execs, indexed, onlyOpen, matched>> /\ running = "paging"
    BY DEF ListWorkflow, serverVars
  <1>8. list \in Seq(WorkflowStatus)
    BY DEF TypeOK
  <1>9. /\ new \in Seq(WorkflowStatus) /\ r \in Nat /\ Len(added) \in Nat
        /\ DOMAIN list = 1..r /\ DOMAIN added = 1..Len(added)
        /\ DOMAIN new = 1..(r + Len(added))
        /\ \A i \in 1..r : new[i] = list[i]
        /\ \A i \in 1..Len(added) : new[r + i] = added[i]
    BY <1>3, <1>8, Concatenated
  <1>10. Len(added) = m
    BY <1>3, <1>9
  <1>11. \A k \in DOMAIN new : \/ k \in 1..r /\ new[k] = list[k]
                               \/ k - r \in 1..m /\ new[k] = added[k - r] /\ r < k
    <2> TAKE k \in DOMAIN new
    <2>1. CASE k \in 1..r
      BY <1>9, <2>1
    <2>2. CASE k \notin 1..r
      <3>1. k - r \in 1..m /\ r + (k - r) = k /\ r < k
        BY <1>3, <1>9, <1>10, <2>2
      <3> QED
        BY <1>9, <1>10, <3>1
    <2> QED
      BY <2>1, <2>2
  <1> HIDE DEF new
  <1>12. \A i \in 1..m : /\ page[i] \in Workflows /\ indexed[page[i]] # None
                         /\ indexed[page[i]] \in Execution
                         /\ At(i) \in Token /\ (token # None => Behind(At(i), token))
                         /\ added[i].id = page[i] /\ added[i].status = indexed[page[i]].status
                         /\ added[i].start = indexed[page[i]].start
                         /\ added[i].close = indexed[page[i]].close
                         /\ added[i] = status(added[i].id, indexed[added[i].id])
                         /\ Place(added[i]) = At(i)
    <2> TAKE i \in 1..m
    <2>1. page[i] \in Workflows /\ indexed[page[i]] # None /\ (token # None => Behind(At(i), token))
      BY <1>4 DEF Rest, Matches
    <2>2. indexed[page[i]] \in Execution /\ At(i) \in Token
      BY <1>1, <2>1, RecordTyped
    <2>3. Place(added[i]) = At(i)
      BY <1>1, <1>4, <2>1, StatusTyped
    <2>4. /\ added[i].id = page[i] /\ added[i].status = indexed[page[i]].status
          /\ added[i].start = indexed[page[i]].start /\ added[i].close = indexed[page[i]].close
          /\ added[i] = status(page[i], indexed[page[i]])
      BY <1>4 DEF status
    <2> QED
      BY <2>1, <2>2, <2>3, <2>4
  <1>13. \A i \in 1..r : /\ Place(list[i]) \in Token /\ token # None /\ token \in Token
                         /\ ~Behind(Place(list[i]), token)
    <2> TAKE i \in 1..r
    <2>1. list # <<>>
      BY <1>9
    <2>2. token # None /\ ~Behind(Place(list[i]), token)
      BY <1>7, <1>9, <2>1 DEF IInv, ListInv, ListedInFront
    <2>3. Place(list[i]) \in Token
      BY <1>1, <1>9, ItemPlaces
    <2> QED
      BY <2>2, <2>3 DEF TypeOK
  <1>14. ListedWas'
    <2>1. ASSUME NEW k \in DOMAIN new
          PROVE  /\ indexed[new[k].id] # None
                 /\ new[k].status = "running" => new[k].start = indexed[new[k].id].start /\ new[k].close = 0
                 /\ new[k].status # "running" => new[k] = status(new[k].id, indexed[new[k].id])
      <3>1. CASE k \in 1..r /\ new[k] = list[k]
        BY <1>1, <1>9, <3>1, ItemPlaces
      <3>2. CASE k - r \in 1..m /\ new[k] = added[k - r]
        <4>1. indexed[page[k - r]].status = "running" => indexed[page[k - r]].close = 0
          BY <1>1, <1>12, <3>2 DEF ServerInv, IndexFollows
        <4> QED
          BY <1>12, <3>2, <4>1
      <3> QED
        BY <1>11, <3>1, <3>2
    <2> QED
      BY <1>7, <2>1 DEF ListedWas, status, new
  <1>15. TwiceOnlyIfClosed'
    <2>1. ASSUME NEW i \in DOMAIN new, NEW j \in DOMAIN new, i < j, new[i].id = new[j].id
          PROVE  new[i].status = "running" /\ new[j].status # "running"
      <3>1. CASE j \in 1..r
        <4>1. i \in 1..r
          BY <1>9, <2>1, <3>1
        <4> QED
          BY <1>9, <2>1, <3>1, <4>1 DEF IInv, ListInv, TwiceOnlyIfClosed, IsWorkflowRunning
      <3>2. CASE i \in 1..r /\ j - r \in 1..m /\ new[j] = added[j - r]
        <4> DEFINE w == list[i].id
        <4>1. new[i] = list[i] /\ i \in DOMAIN list
          BY <1>9, <3>2
        <4>2. page[j - r] = w
          BY <1>12, <2>1, <3>2, <4>1
        <4>3. Behind(Place(indexed[w]), token) /\ ~Behind(Place(list[i]), token)
          BY <1>12, <1>13, <3>2, <4>2
        <4>4. Place(list[i]) # Place(indexed[w])
          BY <4>3
        <4>5. list[i].status = "running"
          BY <1>1, <1>12, <3>2, <4>1, <4>2, <4>4, ItemPlaces, StatusTyped
        <4>6. indexed[w].status # "running"
          BY <1>1, <4>1, <4>4, <4>5, ItemPlaces DEF Place
        <4> QED
          BY <1>12, <3>2, <4>1, <4>2, <4>5, <4>6
      <3>3. CASE i - r \in 1..m /\ new[i] = added[i - r] /\ j - r \in 1..m /\ new[j] = added[j - r]
        <4>1. i - r < j - r
          BY <1>9, <2>1
        <4>2. Behind(At(j - r), At(i - r)) /\ page[i - r] = page[j - r]
          BY <1>5, <1>12, <2>1, <3>3, <4>1
        <4>3. FALSE
          BY <1>12, <3>3, <4>2, PlacesOrdered
        <4> QED
          BY <4>3
      <3>4. ~(j \in 1..r) => j - r \in 1..m /\ new[j] = added[j - r]
        BY <1>11
      <3> QED
        BY <1>11, <3>1, <3>2, <3>3, <3>4
    <2> QED
      BY <2>1 DEF TwiceOnlyIfClosed, IsWorkflowRunning, new
  <1>16. ASSUME running' = "paging"
         PROVE  /\ token' = At(m) /\ m \in 1..m
                /\ token' \in Token /\ token' # None
                /\ \A w \in Rest(token) :
                     (\E i \in 1..m : page[i] = w) \/ Behind(Place(indexed[w]), At(m))
    <2>1. token' = At(m) /\ m \in 1..m
      BY <1>3, <1>6, <1>16
    <2>2. token' \in Token
      BY <1>12, <2>1
    <2> QED
      BY <1>6, <1>16, <2>1, <2>2, NoneAssumption
  <1>17. ListedInFront'
    <2>1. ASSUME running' = "paging", NEW k \in DOMAIN new
          PROVE  ~Behind(Place(new[k]), token')
      <3>1. token' = At(m) /\ m \in 1..m /\ token' \in Token
        BY <1>16, <2>1
      <3>2. CASE k \in 1..r /\ new[k] = list[k]
        <4>1. Behind(token', token)
          BY <1>12, <1>13, <3>1, <3>2
        <4> QED
          BY <1>13, <3>1, <3>2, <4>1, PlacesOrdered
      <3>3. CASE k - r \in 1..m /\ new[k] = added[k - r]
        <4>1. Place(new[k]) = At(k - r) /\ At(k - r) \in Token
          BY <1>12, <3>3
        <4>2. k - r = m \/ Behind(At(m), At(k - r))
          BY <1>3, <1>5, <3>1, <3>3
        <4> QED
          BY <3>1, <4>1, <4>2, PlacesOrdered
      <3> QED
        BY <1>11, <3>2, <3>3
    <2>2. running' = "paging" => token' # None
      BY <1>16
    <2> QED
      BY <2>1, <2>2 DEF ListedInFront, Place, Behind, new
  <1>18. \A i \in 1..r : list[i].id \in Ids(list)'
    BY <1>9 DEF Ids, new
  <1>19. \A i \in 1..m : page[i] \in Ids(list)'
    <2> TAKE i \in 1..m
    <2>1. r + i \in DOMAIN new /\ new[r + i].id = page[i]
      BY <1>9, <1>10, <1>12
    <2> QED
      BY <2>1 DEF Ids, new
  <1>20. matched \subseteq Ids(list) \cup Rest(token)
    BY <1>7 DEF IInv, ListInv, MatchedToCome
  <1>21. Ids(list) \subseteq Ids(list)'
    BY <1>9, <1>18 DEF Ids
  <1>22. MatchedToCome'
    <2>1. ASSUME running' = "paging", NEW w \in matched
          PROVE  w \in Ids(list)' \/ w \in Rest(token)'
      <3>1. CASE w \in Ids(list)
        BY <1>21, <3>1
      <3>2. CASE w \in Rest(token)
        <4>1. (\E i \in 1..m : page[i] = w) \/ Behind(Place(indexed[w]), token')
          BY <1>16, <2>1, <3>2
        <4>2. CASE \E i \in 1..m : page[i] = w
          BY <1>19, <4>2
        <4>3. CASE Behind(Place(indexed[w]), token')
          BY <1>7, <3>2, <4>3 DEF Rest, Matches, Behind, Place
        <4> QED
          BY <4>1, <4>2, <4>3
      <3> QED
        BY <1>20, <3>1, <3>2
    <2> QED
      BY <1>7, <2>1 DEF MatchedToCome
  <1>23. NoneMissed'
    <2>1. ASSUME running' = "ok", NEW w \in matched
          PROVE  w \in Ids(list)'
      <3>1. w \in Rest(token) => \E i \in 1..m : page[i] = w
        BY <1>6, <2>1
      <3> QED
        BY <1>19, <1>20, <1>21, <3>1
    <2> QED
      BY <1>7, <2>1 DEF NoneMissed
  <1>24. token' \in Token \cup {None} /\ running' \in {"paging", "ok"}
    BY <1>6, <1>16
  <1> QED
    BY <1>9, <1>14, <1>15, <1>17, <1>22, <1>23, <1>24 DEF ListInv, new

----------------------------------------------------------------------------
(* The server's steps.                                                       *)
LEMMA ListStays ==
    ASSUME ListInv, UNCHANGED <<indexed, callVars, matched>>
    PROVE  ListInv'
  BY DEF ListInv, callVars, ListedWas, ListedInFront, MatchedToCome, NoneMissed, TwiceOnlyIfClosed,
         Ids, Rest, Matches, Behind, Place, IsWorkflowRunning, status

LEMMA StartStep ==
    ASSUME TypeOK, IInv, NEW w \in Workflows, StartWorkflow(w)
    PROVE  TypeOK' /\ IInv'
  <1> DEFINE e == [status |-> "running", start |-> now + 1, close |-> 0]
  <1>1. /\ now \in Nat /\ now < MaxTime /\ now' = now + 1 /\ execs[w] = None
        /\ execs' = [execs EXCEPT ![w] = e]
        /\ UNCHANGED <<indexed, callVars, matched>>
    BY BoundsAssumption DEF StartWorkflow, TypeOK
  <1>2. e \in Execution /\ e.status = "running" /\ e.start = now' /\ e.close = 0 /\ e # None
    BY <1>1, BoundsAssumption, NoneAssumption DEF Execution, Status
  <1> HIDE DEF e
  <1>3. /\ execs' \in [Workflows -> Execution \cup {None}] /\ execs'[w] = e
        /\ \A v \in Workflows : v # w => execs'[v] = execs[v]
    BY <1>1, <1>2 DEF TypeOK
  <1>4. TypeOK'
    BY <1>1, <1>3, BoundsAssumption DEF TypeOK, callVars
  <1>5. \A v \in Workflows : v # w /\ execs[v] # None =>
          /\ execs[v] \in Execution /\ execs[v].start <= now /\ execs[v].start \in Nat
          /\ IF execs[v].status = "running" THEN execs[v].close = 0 ELSE execs[v].close \in 1..now
    BY DEF IInv, ServerInv, ExecutionsTimed, TypeOK, Execution
  <1>6. ExecutionsTimed'
    BY <1>1, <1>2, <1>3, <1>5 DEF ExecutionsTimed
  <1>7. TimesDistinct'
    <2>1. ASSUME NEW u \in Workflows, NEW v \in Workflows, u # v, execs'[u] # None, execs'[v] # None
          PROVE  /\ execs'[u].start # execs'[v].start
                 /\ execs'[u].close = execs'[v].close => execs'[u].close = 0
      <3>1. CASE u # w /\ v # w
        BY <1>3, <2>1, <3>1 DEF IInv, ServerInv, TimesDistinct
      <3>2. CASE u = w
        BY <1>1, <1>2, <1>3, <1>5, <2>1, <3>2
      <3>3. CASE v = w
        BY <1>1, <1>2, <1>3, <1>5, <2>1, <3>3
      <3> QED
        BY <3>1, <3>2, <3>3
    <2> QED
      BY <2>1 DEF TimesDistinct
  <1>8. IndexFollows'
    BY <1>1, <1>3 DEF IInv, ServerInv, IndexFollows
  <1> QED
    BY <1>1, <1>4, <1>6, <1>7, <1>8, ListStays DEF IInv, ServerInv

LEMMA CloseStep ==
    ASSUME TypeOK, IInv, NEW w \in Workflows, NEW s \in Outcomes, CloseWorkflow(w, s)
    PROVE  TypeOK' /\ IInv'
  <1> DEFINE old == execs[w]
             e == [old EXCEPT !.status = s, !.close = now + 1]
  <1>1. /\ now \in Nat /\ now < MaxTime /\ now' = now + 1 /\ old # None /\ old.status = "running"
        /\ execs' = [execs EXCEPT ![w] = e]
        /\ UNCHANGED <<indexed, callVars, matched>>
    BY BoundsAssumption DEF CloseWorkflow, TypeOK
  <1>2. old \in Execution /\ s \in Status /\ s # "running" /\ now + 1 \in 0..MaxTime
    BY <1>1, BoundsAssumption, OutcomesAssumption DEF TypeOK, Status, Closed
  <1>3. e \in Execution /\ e.status = s /\ e.start = old.start /\ e.close = now + 1 /\ e # None
    <2> HIDE DEF old
    <2>1. e \in Execution /\ e.status = s /\ e.start = old.start /\ e.close = now + 1
      BY <1>2 DEF Execution
    <2> QED
      BY <2>1, NoneAssumption
  <1> HIDE DEF e
  <1>4. /\ execs' \in [Workflows -> Execution \cup {None}] /\ execs'[w] = e
        /\ \A v \in Workflows : v # w => execs'[v] = execs[v]
    BY <1>1, <1>3 DEF TypeOK
  <1>5. TypeOK'
    BY <1>1, <1>4, BoundsAssumption DEF TypeOK, callVars
  <1>6. \A v \in Workflows : execs[v] # None =>
          /\ execs[v] \in Execution /\ execs[v].start <= now /\ execs[v].start \in Nat
          /\ IF execs[v].status = "running" THEN execs[v].close = 0 ELSE execs[v].close \in 1..now
    BY DEF IInv, ServerInv, ExecutionsTimed, TypeOK, Execution
  <1>7. ExecutionsTimed'
    BY <1>1, <1>2, <1>3, <1>4, <1>6 DEF ExecutionsTimed
  <1>8. TimesDistinct'
    <2>1. ASSUME NEW u \in Workflows, NEW v \in Workflows, u # v, execs'[u] # None, execs'[v] # None
          PROVE  /\ execs'[u].start # execs'[v].start
                 /\ execs'[u].close = execs'[v].close => execs'[u].close = 0
      <3>1. /\ execs[u] # None /\ execs[v] # None
            /\ execs'[u].start = execs[u].start /\ execs'[v].start = execs[v].start
        BY <1>1, <1>3, <1>4, <2>1
      <3>2. execs'[u].start # execs'[v].start
        BY <2>1, <3>1 DEF IInv, ServerInv, TimesDistinct
      <3>3. CASE u # w /\ v # w
        BY <1>4, <2>1, <3>2, <3>3 DEF IInv, ServerInv, TimesDistinct
      <3>4. CASE u = w
        BY <1>1, <1>3, <1>4, <1>6, <2>1, <3>1, <3>2, <3>4
      <3>5. CASE v = w
        BY <1>1, <1>3, <1>4, <1>6, <2>1, <3>1, <3>2, <3>5
      <3> QED
        BY <3>3, <3>4, <3>5
    <2> QED
      BY <2>1 DEF TimesDistinct
  <1>9. IndexFollows'
    <2>1. ASSUME NEW v \in Workflows, indexed[v] # None
          PROVE  /\ execs'[v] # None /\ indexed[v].start = execs'[v].start
                 /\ IF indexed[v].status = "running" THEN indexed[v].close = 0
                                                     ELSE indexed[v] = execs'[v]
      <3>1. /\ execs[v] # None /\ indexed[v].start = execs[v].start
            /\ IF indexed[v].status = "running" THEN indexed[v].close = 0
                                                ELSE indexed[v] = execs[v]
        BY <2>1 DEF IInv, ServerInv, IndexFollows
      <3>2. CASE v # w
        BY <1>4, <3>1, <3>2
      <3>3. CASE v = w
        BY <1>1, <1>3, <1>4, <3>1, <3>3
      <3> QED
        BY <3>2, <3>3
    <2> QED
      BY <1>1, <2>1 DEF IndexFollows
  <1> QED
    BY <1>1, <1>5, <1>7, <1>8, <1>9, ListStays DEF IInv, ServerInv

(* A record that catches up was that of a workflow believed to run, or none. *)
LEMMA IndexStep ==
    ASSUME TypeOK, IInv, NEW w \in Workflows, Index(w)
    PROVE  TypeOK' /\ IInv'
  <1>1. /\ indexed[w] # execs[w] /\ indexed' = [indexed EXCEPT ![w] = execs[w]]
        /\ UNCHANGED <<now, execs, running, onlyOpen, token, list>>
        /\ matched' = {x \in matched : Matches(indexed'[x])}
    BY DEF Index, callVars
  <1>2. /\ indexed' \in [Workflows -> Execution \cup {None}] /\ indexed'[w] = execs[w]
        /\ \A v \in Workflows : v # w => indexed'[v] = indexed[v]
    BY <1>1 DEF TypeOK
  <1>3. TypeOK'
    BY <1>1, <1>2 DEF TypeOK
  <1>4. /\ execs[w] # None /\ execs[w] \in Execution
        /\ indexed[w] # None =>
             /\ indexed[w].status = "running" /\ indexed[w].start = execs[w].start
             /\ indexed[w].close = 0
    BY <1>1 DEF IInv, ServerInv, IndexFollows, TypeOK
  <1>5. execs[w].status = "running" => execs[w].close = 0
    BY <1>4 DEF IInv, ServerInv, ExecutionsTimed
  <1>6. IndexFollows'
    BY <1>1, <1>2, <1>4, <1>5 DEF IInv, ServerInv, IndexFollows
  <1>7. ExecutionsTimed' /\ TimesDistinct'
    BY <1>1 DEF IInv, ServerInv, ExecutionsTimed, TimesDistinct
  <1>8. ListedWas'
    <2>1. ASSUME NEW i \in DOMAIN list
          PROVE  /\ indexed'[list[i].id] # None
                 /\ IF list[i].status = "running"
                      THEN list[i].start = indexed'[list[i].id].start /\ list[i].close = 0
                      ELSE list[i] = status(list[i].id, indexed'[list[i].id])
      <3>1. /\ list[i].id \in Workflows /\ indexed[list[i].id] # None
            /\ list[i].status = "running" =>
                 list[i].start = indexed[list[i].id].start /\ list[i].close = 0
            /\ list[i].status # "running" => list[i] = status(list[i].id, indexed[list[i].id])
        BY ItemPlaces DEF IInv, ListInv
      <3>2. CASE list[i].id # w
        BY <1>2, <3>1, <3>2
      <3>3. CASE list[i].id = w
        <4>1. list[i].status = "running"
          BY <1>4, <3>1, <3>3 DEF status
        <4> QED
          BY <1>2, <1>4, <3>1, <3>3, <4>1
      <3> QED
        BY <3>2, <3>3
    <2> QED
      BY <1>1, <2>1 DEF ListedWas, status
  <1>9. ListedInFront' /\ TwiceOnlyIfClosed' /\ NoneMissed'
    BY <1>1 DEF IInv, ListInv, ListedInFront, TwiceOnlyIfClosed, NoneMissed, Ids, Behind, Place,
                IsWorkflowRunning
  <1>10. MatchedToCome'
    <2>1. ASSUME running = "paging", NEW x \in matched, Matches(indexed'[x])
          PROVE  x \in Ids(list) \/ x \in Rest(token)'
      <3>1. x \in Workflows /\ (x \in Ids(list) \/ x \in Rest(token))
        BY <2>1 DEF IInv, ListInv, MatchedToCome, TypeOK
      <3>2. CASE x \in Rest(token) /\ x # w
        BY <1>1, <1>2, <3>2 DEF Rest, Matches, Behind, Place
      <3>3. CASE x \in Rest(token) /\ x = w
        <4>1. indexed[w] # None /\ (token = None \/ Behind(Place(indexed[w]), token))
          BY <3>3 DEF Rest, Matches
        <4>2. token = None \/ Behind(Place(indexed'[w]), token)
          BY <1>2, <1>4, <4>1 DEF Behind, Place
        <4> QED
          BY <1>1, <2>1, <3>1, <3>3, <4>2 DEF Rest, Matches, Behind, Place
      <3> QED
        BY <3>1, <3>2, <3>3
    <2> QED
      BY <1>1, <2>1 DEF MatchedToCome, Ids
  <1> QED
    BY <1>3, <1>6, <1>7, <1>8, <1>9, <1>10 DEF IInv, ServerInv, ListInv

----------------------------------------------------------------------------
(* The steps of a listing.                                                   *)
LEMMA ServerStays ==
    ASSUME ServerInv, UNCHANGED serverVars
    PROVE  ServerInv'
  BY DEF ServerInv, serverVars, ExecutionsTimed, TimesDistinct, IndexFollows

LEMMA ListingStep ==
    ASSUME TypeOK, IInv, NEW open \in BOOLEAN, ListAllWorkflows(open)
    PROVE  TypeOK' /\ IInv'
  <1>1. /\ running' = "paging" /\ onlyOpen' = open /\ token' = None /\ list' = <<>>
        /\ UNCHANGED serverVars
        /\ matched' = {w \in Workflows :
                         indexed[w] # None /\ (open => indexed[w].status = "running")}
    BY DEF ListAllWorkflows
  <1>2. TypeOK'
    BY <1>1 DEF TypeOK, serverVars
  <1>3. ListedWas' /\ TwiceOnlyIfClosed' /\ ListedInFront' /\ NoneMissed'
    BY <1>1 DEF ListedWas, TwiceOnlyIfClosed, ListedInFront, NoneMissed
  <1>4. MatchedToCome'
    BY <1>1 DEF MatchedToCome, Rest, Matches, serverVars
  <1> QED
    BY <1>1, <1>2, <1>3, <1>4, ServerStays DEF IInv, ListInv

LEMMA FailStep ==
    ASSUME TypeOK, IInv, ListWorkflowFails
    PROVE  TypeOK' /\ IInv'
  <1>1. running' = "error" /\ token' = None /\ list' = <<>>
        /\ UNCHANGED <<serverVars, onlyOpen, matched>>
    BY DEF ListWorkflowFails
  <1>2. TypeOK'
    BY <1>1 DEF TypeOK, serverVars
  <1>3. ListInv'
    BY <1>1 DEF ListInv, ListedWas, TwiceOnlyIfClosed, ListedInFront, MatchedToCome, NoneMissed
  <1> QED
    BY <1>1, <1>2, <1>3, ServerStays DEF IInv

LEMMA StepPreserves == TypeOK /\ IInv /\ [Next]_vars => TypeOK' /\ IInv'
  <1> SUFFICES ASSUME TypeOK, IInv, [Next]_vars
               PROVE  TypeOK' /\ IInv'
    OBVIOUS
  <1>1. ASSUME NEW w \in Workflows, StartWorkflow(w)
        PROVE  TypeOK' /\ IInv'
    BY <1>1, StartStep
  <1>2. ASSUME NEW w \in Workflows, Index(w)
        PROVE  TypeOK' /\ IInv'
    BY <1>2, IndexStep
  <1>3. ASSUME NEW w \in Workflows, NEW s \in Outcomes, CloseWorkflow(w, s)
        PROVE  TypeOK' /\ IInv'
    BY <1>3, CloseStep
  <1>4. ASSUME NEW open \in BOOLEAN, ListAllWorkflows(open)
        PROVE  TypeOK' /\ IInv'
    BY <1>4, ListingStep
  <1>5. CASE ListWorkflow
    <2>1. /\ running' \in {"paging", "ok"} /\ token' \in Token \cup {None}
          /\ list' \in Seq(WorkflowStatus) /\ ListInv'
      BY <1>5, PageStep
    <2>2. UNCHANGED <<serverVars, onlyOpen, matched>>
      BY <1>5 DEF ListWorkflow
    <2>3. TypeOK'
      BY <2>1, <2>2 DEF TypeOK, serverVars
    <2> QED
      BY <2>1, <2>2, <2>3, ServerStays DEF IInv
  <1>6. CASE ListWorkflowFails
    BY <1>6, FailStep
  <1>7. CASE UNCHANGED vars
    <2>1. UNCHANGED <<indexed, callVars, matched>> /\ UNCHANGED serverVars
      BY <1>7 DEF vars, callVars, serverVars
    <2>2. TypeOK'
      BY <1>7 DEF TypeOK, vars
    <2> QED
      BY <2>1, <2>2, ListStays, ServerStays DEF IInv
  <1> QED
    BY <1>1, <1>2, <1>3, <1>4, <1>5, <1>6, <1>7 DEF Next

LEMMA Established == Init => TypeOK /\ IInv
  <1> SUFFICES ASSUME Init
               PROVE  TypeOK /\ IInv
    OBVIOUS
  <1>1. TypeOK
    <2>1. now \in 0..MaxTime
      <3>1. now = 0
        BY DEF Init
      <3> QED
        BY <3>1, BoundsAssumption
    <2>2. /\ list \in Seq(WorkflowStatus) /\ token \in Token \cup {None} /\ running = "idle"
          /\ matched \subseteq Workflows
      BY DEF Init
    <2>4. onlyOpen \in BOOLEAN
      BY Zenon DEF Init
    <2>3. /\ execs \in [Workflows -> Execution \cup {None}]
          /\ indexed \in [Workflows -> Execution \cup {None}]
      BY DEF Init
    <2> QED
      BY <2>1, <2>2, <2>3, <2>4 DEF TypeOK
  <1>2. ServerInv
    BY DEF Init, ServerInv, ExecutionsTimed, TimesDistinct, IndexFollows
  <1>3. ListInv
    BY DEF Init, ListInv, ListedWas, TwiceOnlyIfClosed, ListedInFront, MatchedToCome, NoneMissed
  <1> QED
    BY <1>1, <1>2, <1>3 DEF IInv

LEMMA Invariants == Spec => [](TypeOK /\ IInv)
  BY Established, StepPreserves, PTL DEF Spec

----------------------------------------------------------------------------
(* The variables keep their types: a token is a place of the store's order,  *)
(* and what is listed has both times.                                        *)
THEOREM TypeCorrect == Spec => []TypeOK
  BY Invariants, PTL

(* A listing that succeeds has every workflow that matched from its first    *)
(* page to its last, whatever the pages' sizes.                              *)
THEOREM ListingsAreComplete == Spec => []NoneMissed
  <1>1. IInv => NoneMissed
    BY DEF IInv, ListInv
  <1> QED
    BY <1>1, Invariants, PTL

(* Only a workflow that was listed running and then closed is listed twice.  *)
THEOREM RepeatsAreCloses == Spec => []TwiceOnlyIfClosed
  <1>1. IInv => TwiceOnlyIfClosed
    BY DEF IInv, ListInv
  <1> QED
    BY <1>1, Invariants, PTL

(* The six predicates tell the statuses apart.                               *)
LEMMA Chosen ==
    ASSUME NEW a, NEW b, NEW c, NEW d, NEW e, NEW f, NEW S,
           S = {p \in 1..6 : <<a, b, c, d, e, f>>[p]}
    PROVE  /\ S \subseteq 1..6
           /\ 1 \in S <=> a
           /\ 2 \in S <=> b
           /\ 3 \in S <=> c
           /\ 4 \in S <=> d
           /\ 5 \in S <=> e
           /\ 6 \in S <=> f
  OBVIOUS

LEMMA OnePredicate ==
    ASSUME NEW s \in Status
    PROVE  Cardinality(Predicates(s)) = IF s = "continuedAsNew" THEN 0 ELSE 1
  <1> DEFINE number == IF s = "running" THEN 1 ELSE IF s = "completed" THEN 2
                       ELSE IF s = "failed" THEN 3 ELSE IF s = "canceled" THEN 4
                       ELSE IF s = "terminated" THEN 5 ELSE 6
  <1>1. /\ Predicates(s) \subseteq 1..6
        /\ 1 \in Predicates(s) <=> IsWorkflowRunning(s)
        /\ 2 \in Predicates(s) <=> IsWorkflowCompleted(s)
        /\ 3 \in Predicates(s) <=> IsWorkflowFailed(s)
        /\ 4 \in Predicates(s) <=> IsWorkflowCanceled(s)
        /\ 5 \in Predicates(s) <=> IsWorkflowTerminated(s)
        /\ 6 \in Predicates(s) <=> IsWorkflowTimedOut(s)
    BY Chosen DEF Predicates
  <1> HIDE DEF number
  <1>2. \A p \in 1..6 : p = 1 \/ p = 2 \/ p = 3 \/ p = 4 \/ p = 5 \/ p = 6
    OBVIOUS
  <1>3. CASE s = "continuedAsNew"
    <2>1. Predicates(s) = {}
      BY <1>1, <1>2, <1>3 DEF IsWorkflowRunning, IsWorkflowCompleted, IsWorkflowFailed,
         IsWorkflowCanceled, IsWorkflowTerminated, IsWorkflowTimedOut
    <2> QED
      BY <1>3, <2>1, FS_EmptySet
  <1>4. CASE s # "continuedAsNew"
    <2>1. number \in 1..6 /\ \A p \in 1..6 : p \in Predicates(s) <=> p = number
      BY <1>1, <1>2, <1>4 DEF number, Status, Closed, IsWorkflowRunning, IsWorkflowCompleted,
         IsWorkflowFailed, IsWorkflowCanceled, IsWorkflowTerminated, IsWorkflowTimedOut
    <2>2. Predicates(s) = {number}
      BY <1>1, <2>1
    <2> QED
      BY <1>4, <2>2, FS_Singleton
  <1> QED
    BY <1>3, <1>4

(* What was listed agrees with what GetWorkflowStatus says of it ever after. *)
THEOREM ListedStaysTrue == Spec => []ClosedIsFinal
  <1>1. ASSUME TypeOK, IInv, NEW i \in DOMAIN list
        PROVE  LET l == list[i]
                   d == GetWorkflowStatus(l.id)
               IN  /\ IF IsWorkflowRunning(l.status) THEN l.start = d.start /\ l.close = 0 ELSE l = d
                   /\ Cardinality(Predicates(l.status)) = IF l.status = "continuedAsNew" THEN 0 ELSE 1
    <2> DEFINE l == list[i]
    <2>1. /\ l \in WorkflowStatus /\ l.id \in Workflows /\ indexed[l.id] # None
          /\ l.status = "running" => l.start = indexed[l.id].start /\ l.close = 0
          /\ l.status # "running" => l = status(l.id, indexed[l.id])
      BY <1>1, ItemPlaces DEF IInv, ListInv
    <2>2. /\ indexed[l.id].start = execs[l.id].start
          /\ indexed[l.id].status # "running" => indexed[l.id] = execs[l.id]
      BY <1>1, <2>1 DEF IInv, ServerInv, IndexFollows
    <2>3. l.status = "running" => l.start = GetWorkflowStatus(l.id).start /\ l.close = 0
      BY <2>1, <2>2 DEF GetWorkflowStatus
    <2>4. ASSUME l.status # "running"
          PROVE  l = GetWorkflowStatus(l.id)
      <3>1. l = status(l.id, indexed[l.id]) /\ indexed[l.id].status # "running"
        BY <2>1, <2>4 DEF status
      <3> QED
        BY <2>2, <3>1 DEF status, GetWorkflowStatus
    <2>5. l.status \in Status
      BY <2>1 DEF WorkflowStatus
    <2> QED
      BY <2>3, <2>4, <2>5, OnePredicate DEF IsWorkflowRunning
  <1>2. TypeOK /\ IInv => ClosedIsFinal
    BY <1>1 DEF ClosedIsFinal
  <1> QED
    BY <1>2, Invariants, PTL
=============================================================================

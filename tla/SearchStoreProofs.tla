-------------------------- MODULE SearchStoreProofs -------------------------
(***************************************************************************)
(* Proofs about SearchStore, for any finite set of documents, any targets, *)
(* any sort values and either direction, and any bounds.                   *)
(***************************************************************************)
EXTENDS SearchStore, SequenceTheorems, FiniteSetTheorems, WellFoundedInduction, TLAPS

-----------------------------------------------------------------------------
(* Sequences *)

(* RemoveAt closes the gap. *)
LEMMA RemoveAtFacts ==
  ASSUME NEW S, NEW q \in Seq(S), NEW k \in 1..Len(q)
  PROVE  /\ RemoveAt(q, k) \in Seq(S)
         /\ Len(RemoveAt(q, k)) = Len(q) - 1
         /\ \A i \in 1..Len(q) - 1 :
               RemoveAt(q, k)[i] = IF i < k THEN q[i] ELSE q[i + 1]
<1> DEFINE a == SubSeq(q, 1, k - 1)
           b == SubSeq(q, k + 1, Len(q))
<1>1. a \in Seq(S) /\ Len(a) = k - 1 /\ \A i \in 1..k - 1 : a[i] = q[i]
  OBVIOUS
<1>2. b \in Seq(S) /\ Len(b) = Len(q) - k /\ \A i \in 1..Len(q) - k : b[i] = q[k + i]
  OBVIOUS
<1>3. RemoveAt(q, k) = a \o b
  BY DEF RemoveAt
<1> HIDE DEF a, b
<1>4. /\ a \o b \in Seq(S)
      /\ Len(a \o b) = Len(a) + Len(b)
      /\ \A i \in 1..Len(a) + Len(b) : (a \o b)[i] = IF i <= Len(a) THEN a[i] ELSE b[i - Len(a)]
  BY <1>1, <1>2, ConcatProperties
<1>5. Len(q) \in Nat
  OBVIOUS
<1>6. ASSUME NEW i \in 1..Len(q) - 1
      PROVE  RemoveAt(q, k)[i] = IF i < k THEN q[i] ELSE q[i + 1]
  <2>1. i \in 1..Len(a) + Len(b)
    BY <1>1, <1>2, <1>5
  <2>2. CASE i < k
    BY <1>1, <1>3, <1>4, <1>5, <2>1, <2>2
  <2>3. CASE ~(i < k)
    <3>1. i - Len(a) \in 1..Len(q) - k /\ k + (i - Len(a)) = i + 1
      BY <1>1, <1>5, <2>3
    <3>2. (a \o b)[i] = b[i - Len(a)]
      BY <1>1, <1>4, <1>5, <2>1, <2>3
    <3> QED BY <1>2, <1>3, <2>3, <3>1, <3>2
  <2> QED BY <2>2, <2>3
<1> QED BY <1>1, <1>2, <1>3, <1>4, <1>5, <1>6

(* InsertAt makes room. *)
LEMMA InsertAtFacts ==
  ASSUME NEW S, NEW q \in Seq(S), NEW k \in 1..Len(q) + 1, NEW e \in S
  PROVE  /\ InsertAt(q, k, e) \in Seq(S)
         /\ Len(InsertAt(q, k, e)) = Len(q) + 1
         /\ \A i \in 1..Len(q) + 1 :
               InsertAt(q, k, e)[i] =
                  IF i < k THEN q[i] ELSE IF i = k THEN e ELSE q[i - 1]
<1> DEFINE a == SubSeq(q, 1, k - 1)
           b == SubSeq(q, k, Len(q))
           ae == a \o <<e>>
<1>1. a \in Seq(S) /\ Len(a) = k - 1 /\ \A i \in 1..k - 1 : a[i] = q[i]
  OBVIOUS
<1>2. b \in Seq(S) /\ Len(b) = Len(q) - k + 1
      /\ \A i \in 1..Len(q) - k + 1 : b[i] = q[k + i - 1]
  OBVIOUS
<1>3. InsertAt(q, k, e) = ae \o b
  BY DEF InsertAt
<1>4. <<e>> \in Seq(S) /\ Len(<<e>>) = 1 /\ <<e>>[1] = e
  OBVIOUS
<1> HIDE DEF a, b
<1>5. /\ ae \in Seq(S)
      /\ Len(ae) = k
      /\ \A i \in 1..k : ae[i] = IF i < k THEN q[i] ELSE e
  <2>1. PICK ee : ee = <<e>>
    OBVIOUS
  <2>2. /\ a \o ee \in Seq(S)
        /\ Len(a \o ee) = Len(a) + Len(ee)
        /\ \A i \in 1..Len(a) + Len(ee) :
              (a \o ee)[i] = IF i <= Len(a) THEN a[i] ELSE ee[i - Len(a)]
    BY <1>1, <1>4, <2>1, ConcatProperties
  <2>3. Len(ee) = 1 /\ ee[1] = e
    BY <1>4, <2>1
  <2>4. Len(q) \in Nat /\ k \in Nat
    OBVIOUS
  <2>5. ASSUME NEW i \in 1..k PROVE (a \o ee)[i] = IF i < k THEN q[i] ELSE e
    <3>1. CASE i < k
      BY <1>1, <2>2, <2>3, <2>4, <3>1
    <3>2. CASE ~(i < k)
      <4>1. i = k /\ i - Len(a) = 1 /\ ~(i <= Len(a)) /\ i \in 1..Len(a) + Len(ee)
        BY <1>1, <2>3, <2>4, <3>2
      <4> QED BY <2>2, <2>3, <3>2, <4>1
    <3> QED BY <3>1, <3>2
  <2>6. Len(a \o ee) = k
    BY <1>1, <2>2, <2>3, <2>4
  <2> QED BY <2>1, <2>2, <2>5, <2>6
<1> HIDE DEF ae
<1>6. /\ ae \o b \in Seq(S)
      /\ Len(ae \o b) = Len(ae) + Len(b)
      /\ \A i \in 1..Len(ae) + Len(b) : (ae \o b)[i] = IF i <= Len(ae) THEN ae[i] ELSE b[i - Len(ae)]
  BY <1>2, <1>5, ConcatProperties
<1>7. Len(q) \in Nat /\ k \in Nat
  OBVIOUS
<1>8. ASSUME NEW i \in 1..Len(q) + 1
      PROVE  InsertAt(q, k, e)[i] = IF i < k THEN q[i] ELSE IF i = k THEN e ELSE q[i - 1]
  <2>1. i \in 1..Len(ae) + Len(b)
    BY <1>2, <1>5, <1>7
  <2>2. CASE i <= k
    <3>1. (ae \o b)[i] = ae[i] /\ i \in 1..k
      BY <1>5, <1>6, <1>7, <2>1, <2>2
    <3>2. ae[i] = IF i < k THEN q[i] ELSE e
      BY <1>5, <3>1
    <3>3. ~(i < k) => i = k
      BY <1>7, <2>2
    <3> QED BY <1>3, <3>1, <3>2, <3>3
  <2>3. CASE ~(i <= k)
    <3>1. i - Len(ae) \in 1..Len(q) - k + 1 /\ k + (i - Len(ae)) - 1 = i - 1
      BY <1>5, <1>7, <2>3
    <3>2. (ae \o b)[i] = b[i - Len(ae)]
      BY <1>5, <1>6, <1>7, <2>1, <2>3
    <3>3. b[i - Len(ae)] = q[i - 1]
      BY <1>2, <3>1
    <3>4. ~(i < k) /\ i # k
      BY <1>7, <2>3
    <3> QED BY <1>3, <3>2, <3>3, <3>4
  <2> QED BY <2>2, <2>3
<1> QED BY <1>2, <1>3, <1>5, <1>6, <1>7, <1>8

(* A set of numbers has a least element. *)
LEMMA LeastExists ==
  ASSUME NEW T, T \subseteq Nat, T # {}
  PROVE  \E i \in T : \A j \in T : i <= j
<1> DEFINE R == {ss \in Nat \X Nat : ss[1] < ss[2]}
<1>1. IsWellFoundedOn(R, Nat)
  BY NatLessThanWellFounded, Zenon DEF OpToRel
<1>2. PICK x \in T : \A y \in T : ~(<<y, x>> \in R)
  <2> HIDE DEF R
  <2> QED BY <1>1, WFMin
<1>3. \A y \in T : ~(y < x)
  BY <1>2
<1> QED BY <1>3

-----------------------------------------------------------------------------
(* Sort values and the order of a result file *)

(* What the assumption says of the special values, in the form used below. *)
LEMMA ValueFacts ==
  /\ \A v \in Known : v \in Int /\ v # Null /\ v # Missing /\ v # Gone
  /\ Gone # Missing /\ Gone # Null /\ Missing # Null
BY SearchStoreAssumption

(* What is stored is a known value or null. *)
LEMMA StoredType ==
  ASSUME NEW v \in SortValues
  PROVE  SortValuesToJSON(v) \in Known \cup {Null}
BY DEF SortValuesToJSON

(* What is sent is stored as what was to be stored. *)
LEMMA SentFacts ==
  ASSUME NEW v \in SortValues \cup {Gone}
  PROVE  /\ Sent(v) \in SortValues \cup {Gone}
         /\ Want(Sent(v)) = Want(v)
BY ValueFacts DEF Sent, Want, SortValues, SortValuesToJSON, SortValuesFromJSON

(* CompareStoredSort puts the new entry before the ones it belongs before. *)
LEMMA CompareFacts ==
  ASSUME NEW v \in SortValues, NEW b \in Known \cup {Null}
  PROVE  IF CompareStoredSort(v, b) < 0 THEN InOrder(SortValuesToJSON(v), b)
                                        ELSE InOrder(b, SortValuesToJSON(v))
<1> USE ValueFacts, SearchStoreAssumption DEF CompareStoredSort, Rank, InOrder, SortValuesToJSON
<1>1. CASE v \in Known /\ b \in Known
  BY <1>1
<1>2. CASE v \in Known /\ b = Null
  BY <1>2
<1>3. CASE v = Null
  BY <1>3
<1>4. CASE v = Missing
  BY <1>4
<1> QED BY <1>1, <1>2, <1>3, <1>4 DEF SortValues

(* The order is transitive. *)
LEMMA InOrderTransitive ==
  ASSUME NEW a \in Known \cup {Null}, NEW b \in Known \cup {Null},
         NEW c \in Known \cup {Null}, InOrder(a, b), InOrder(b, c)
  PROVE  InOrder(a, c)
BY ValueFacts DEF InOrder

(* The entries of a list. *)
LEMMA EntryFacts ==
  ASSUME NEW q \in Seq(Item), NEW i \in DOMAIN q
  PROVE  q[i] \in Item /\ q[i].id \in Docs /\ q[i].sort \in Known \cup {Null}
<1>1. q[i] \in Item
  OBVIOUS
<1> QED BY <1>1 DEF Item

(* An ordered list has a document at one place at most, and the list of    *)
(* its sort values says which.                                             *)
LEMMA ListedOnce ==
  ASSUME NEW q \in Seq(Item), Ordered(q), NEW d, NEW i \in Listed(q, d)
  PROVE  /\ Listed(q, d) = {i}
         /\ i \in 1..Len(q)
         /\ q[i].id = d
         /\ Sorts(q, d) = {q[i].sort}
<1>1. DOMAIN q = 1..Len(q) /\ Len(q) \in Nat
  OBVIOUS
<1>2. i \in DOMAIN q /\ q[i].id = d
  BY DEF Listed
<1>3. ASSUME NEW j \in Listed(q, d) PROVE j = i
  <2>1. j \in DOMAIN q /\ q[j].id = d
    BY <1>3 DEF Listed
  <2>2. ~(i < j) /\ ~(j < i)
    BY <1>2, <2>1 DEF Ordered
  <2> QED BY <1>1, <1>2, <2>1, <2>2
<1>4. Listed(q, d) = {i}
  BY <1>3
<1> QED BY <1>1, <1>2, <1>4 DEF Sorts

(* ResultFile.Remove keeps the order and takes exactly the document out.   *)
LEMMA RemoveFacts ==
  ASSUME NEW q \in Seq(Item), Ordered(q), NEW d
  PROVE  /\ RemoveItem(q, d) \in Seq(Item)
         /\ Ordered(RemoveItem(q, d))
         /\ Listed(RemoveItem(q, d), d) = {}
         /\ \A e : Sorts(RemoveItem(q, d), e) = IF e = d THEN {} ELSE Sorts(q, e)
<1>1. CASE Listed(q, d) = {}
  <2>1. RemoveItem(q, d) = q
    BY <1>1 DEF RemoveItem
  <2>2. Sorts(q, d) = {}
    BY <1>1 DEF Sorts
  <2> QED BY <1>1, <2>1, <2>2
<1>2. CASE Listed(q, d) # {}
  <2>1. PICK k : k \in Listed(q, d)
    BY <1>2
  <2>2. Listed(q, d) = {k} /\ k \in 1..Len(q) /\ q[k].id = d
    BY <2>1, ListedOnce
  <2>3. (CHOOSE i \in Listed(q, d) : \A j \in Listed(q, d) : i <= j) = k
    BY <2>2
  <2>4. PICK r : r = RemoveAt(q, k)
    OBVIOUS
  <2>5. RemoveItem(q, d) = r
    BY <1>2, <2>3, <2>4 DEF RemoveItem
  <2>6. /\ r \in Seq(Item)
        /\ Len(r) = Len(q) - 1
        /\ \A i \in 1..Len(q) - 1 : r[i] = IF i < k THEN q[i] ELSE q[i + 1]
    BY <2>2, <2>4, RemoveAtFacts
  <2>7. Len(q) \in Nat /\ DOMAIN q = 1..Len(q) /\ DOMAIN r = 1..Len(q) - 1 /\ k \in Nat
    BY <2>2, <2>6
  <2> DEFINE at(i) == IF i < k THEN i ELSE i + 1
  <2>8. \A i \in DOMAIN r : at(i) \in DOMAIN q /\ at(i) # k /\ r[i] = q[at(i)]
    BY <2>2, <2>6, <2>7
  <2>9. \A i, j \in DOMAIN r : i < j => at(i) < at(j)
    BY <2>7
  <2>10. \A n \in DOMAIN q : n # k => \E i \in DOMAIN r : n = at(i)
    <3> SUFFICES ASSUME NEW n \in DOMAIN q, n # k PROVE \E i \in DOMAIN r : n = at(i)
      OBVIOUS
    <3>1. CASE n < k
      BY <2>2, <2>7, <3>1
    <3>2. CASE ~(n < k)
      <4>1. n - 1 \in DOMAIN r /\ n = at(n - 1)
        BY <2>2, <2>7, <3>2
      <4> QED BY <4>1
    <3> QED BY <3>1, <3>2
  <2> HIDE DEF at
  <2>11. Ordered(r)
    BY <2>8, <2>9 DEF Ordered
  <2>12. Listed(r, d) = {}
    <3> SUFFICES ASSUME NEW i \in DOMAIN r, r[i].id = d PROVE FALSE
      BY DEF Listed
    <3>1. at(i) \in Listed(q, d)
      BY <2>8 DEF Listed
    <3> QED BY <2>2, <2>8, <3>1
  <2>13. ASSUME NEW e PROVE Sorts(r, e) = IF e = d THEN {} ELSE Sorts(q, e)
    <3>1. CASE e = d
      BY <2>12, <3>1 DEF Sorts
    <3>2. CASE e # d
      <4>1. \A i \in Listed(r, e) : at(i) \in Listed(q, e) /\ r[i].sort = q[at(i)].sort
        BY <2>8 DEF Listed
      <4>2. \A n \in Listed(q, e) : \E i \in Listed(r, e) : r[i].sort = q[n].sort
        <5> SUFFICES ASSUME NEW n \in Listed(q, e)
                     PROVE  \E i \in Listed(r, e) : r[i].sort = q[n].sort
          OBVIOUS
        <5>1. n \in DOMAIN q /\ q[n].id = e /\ n # k
          BY <2>2, <3>2 DEF Listed
        <5>2. PICK i \in DOMAIN r : n = at(i)
          BY <2>10, <5>1
        <5> QED BY <2>8, <5>1, <5>2 DEF Listed
      <4> QED BY <3>2, <4>1, <4>2 DEF Sorts
    <3> QED BY <3>1, <3>2
  <2> QED BY <2>5, <2>6, <2>11, <2>12, <2>13
<1> QED BY <1>1, <1>2

(* Upsert keeps the order, and lists the document with its value.          *)
LEMMA UpsertFacts ==
  ASSUME NEW q \in Seq(Item), Ordered(q), NEW d \in Docs, NEW v \in SortValues
  PROVE  /\ Upsert(q, d, v) \in Seq(Item)
         /\ Ordered(Upsert(q, d, v))
         /\ \A e : Sorts(Upsert(q, d, v), e) =
                     IF e = d THEN {SortValuesToJSON(v)} ELSE Sorts(q, e)
<1>1. CASE \E i \in Listed(q, d) : q[i].sort = SortValuesToJSON(v)
  <2>1. PICK i \in Listed(q, d) : q[i].sort = SortValuesToJSON(v)
    BY <1>1
  <2>2. Sorts(q, d) = {SortValuesToJSON(v)}
    BY <2>1, ListedOnce
  <2>3. Upsert(q, d, v) = q
    BY <1>1 DEF Upsert
  <2> QED BY <2>2, <2>3
<1>2. CASE ~ \E i \in Listed(q, d) : q[i].sort = SortValuesToJSON(v)
  <2>1. PICK rest : rest = RemoveItem(q, d)
    OBVIOUS
  <2>2. /\ rest \in Seq(Item)
        /\ Ordered(rest)
        /\ Listed(rest, d) = {}
        /\ \A e : Sorts(rest, e) = IF e = d THEN {} ELSE Sorts(q, e)
    BY <2>1, RemoveFacts
  <2>3. PICK item : item = [id |-> d, sort |-> SortValuesToJSON(v)]
    OBVIOUS
  <2>4. item \in Item /\ item.id = d /\ item.sort = SortValuesToJSON(v)
    BY <2>3, StoredType DEF Item
  <2> DEFINE after == {i \in DOMAIN rest : CompareStoredSort(v, rest[i].sort) < 0}
             at == IF after = {} THEN Len(rest) + 1
                   ELSE CHOOSE i \in after : \A j \in after : i <= j
  <2>5. Len(rest) \in Nat /\ DOMAIN rest = 1..Len(rest)
    BY <2>2
  <2>6. /\ at \in 1..Len(rest) + 1
        /\ \A i \in DOMAIN rest : i < at => i \notin after
        /\ at \in DOMAIN rest => at \in after
    <3>1. CASE after = {}
      BY <2>5, <3>1
    <3>2. CASE after # {}
      <4>1. after \subseteq Nat /\ after \subseteq 1..Len(rest)
        BY <2>5
      <4>2. \E i \in after : \A j \in after : i <= j
        <5> HIDE DEF after
        <5> QED BY <3>2, <4>1, LeastExists
      <4>3. at \in after /\ \A j \in after : at <= j
        <5> HIDE DEF after
        <5> QED BY <3>2, <4>2
      <4> HIDE DEF after, at
      <4> QED BY <2>5, <4>1, <4>3
    <3> QED BY <3>1, <3>2
  <2>7. PICK k : k = at
    OBVIOUS
  <2>8. PICK r : r = InsertAt(rest, k, item)
    OBVIOUS
  <2>9. Upsert(q, d, v) = r
    BY <1>2, <2>1, <2>3, <2>7, <2>8 DEF Upsert
  <2>10. /\ k \in 1..Len(rest) + 1
         /\ \A i \in DOMAIN rest : i < k => ~(CompareStoredSort(v, rest[i].sort) < 0)
         /\ k \in DOMAIN rest => CompareStoredSort(v, rest[k].sort) < 0
    BY <2>6, <2>7
  <2> HIDE DEF after, at
  <2>11. /\ r \in Seq(Item)
         /\ Len(r) = Len(rest) + 1
         /\ \A i \in 1..Len(rest) + 1 :
               r[i] = IF i < k THEN rest[i] ELSE IF i = k THEN item ELSE rest[i - 1]
    <3>1. rest \in Seq(Item) /\ item \in Item /\ k \in 1..Len(rest) + 1
      BY <2>2, <2>4, <2>10
    <3>2. /\ InsertAt(rest, k, item) \in Seq(Item)
          /\ Len(InsertAt(rest, k, item)) = Len(rest) + 1
          /\ \A i \in 1..Len(rest) + 1 : InsertAt(rest, k, item)[i] =
                IF i < k THEN rest[i] ELSE IF i = k THEN item ELSE rest[i - 1]
      BY <3>1, InsertAtFacts
    <3> QED BY <2>8, <3>2, Zenon
  <2>12. DOMAIN r = 1..Len(rest) + 1 /\ k \in Nat
    BY <2>5, <2>10, <2>11
  <2>13. \A i \in DOMAIN rest : rest[i].sort \in Known \cup {Null} /\ rest[i].id # d
    BY <2>2, EntryFacts DEF Listed
  <2>14. \A i \in DOMAIN rest : i < k => InOrder(rest[i].sort, item.sort)
    BY <2>4, <2>10, <2>13, CompareFacts
  <2>15. ASSUME NEW i \in DOMAIN rest, k <= i PROVE InOrder(item.sort, rest[i].sort)
    <3>1. k \in DOMAIN rest
      BY <2>5, <2>10, <2>15
    <3>2. InOrder(item.sort, rest[k].sort)
      BY <2>4, <2>10, <2>13, <3>1, CompareFacts
    <3>3. CASE i = k
      BY <3>2, <3>3
    <3>4. CASE i # k
      <4>1. k < i
        BY <2>5, <2>12, <2>15, <3>4
      <4>2. InOrder(rest[k].sort, rest[i].sort)
        BY <2>2, <3>1, <4>1 DEF Ordered
      <4>3. item.sort \in Known \cup {Null}
        BY <2>4, StoredType
      <4> QED BY <2>13, <3>1, <3>2, <4>2, <4>3, InOrderTransitive
    <3> QED BY <3>3, <3>4
  <2> DEFINE old(i) == IF i < k THEN i ELSE i - 1
  <2>16. \A i \in DOMAIN r : i # k => old(i) \in DOMAIN rest /\ r[i] = rest[old(i)]
    <3> SUFFICES ASSUME NEW i \in DOMAIN r, i # k
                 PROVE  old(i) \in DOMAIN rest /\ r[i] = rest[old(i)]
      OBVIOUS
    <3>1. i \in 1..Len(rest) + 1 /\ i \in Nat
      BY <2>5, <2>12
    <3>2. r[i] = IF i < k THEN rest[i] ELSE IF i = k THEN item ELSE rest[i - 1]
      BY <2>11, <3>1
    <3>3. CASE i < k
      BY <2>5, <2>10, <2>12, <3>1, <3>2, <3>3
    <3>4. CASE ~(i < k)
      BY <2>5, <2>10, <2>12, <3>1, <3>2, <3>4
    <3> QED BY <3>3, <3>4
  <2>17. r[k] = item /\ k \in DOMAIN r
    BY <2>10, <2>11, <2>12
  <2>18. \A i \in DOMAIN r : /\ i < k => old(i) < k
                             /\ k < i => k <= old(i)
    BY <2>12
  <2>19. \A i, j \in DOMAIN r : i < j /\ i # k /\ j # k => old(i) < old(j)
    BY <2>12
  <2>20. \A n \in DOMAIN rest : \E i \in DOMAIN r : i # k /\ n = old(i)
    <3> SUFFICES ASSUME NEW n \in DOMAIN rest PROVE \E i \in DOMAIN r : i # k /\ n = old(i)
      OBVIOUS
    <3>1. CASE n < k
      BY <2>5, <2>12, <3>1
    <3>2. CASE ~(n < k)
      <4>1. n + 1 \in DOMAIN r /\ n + 1 # k /\ n = old(n + 1)
        BY <2>5, <2>12, <3>2
      <4> QED BY <4>1
    <3> QED BY <3>1, <3>2
  <2> HIDE DEF old
  <2>21. Ordered(r)
    <3> SUFFICES ASSUME NEW i \in DOMAIN r, NEW j \in DOMAIN r, i < j
                 PROVE  r[i].id # r[j].id /\ InOrder(r[i].sort, r[j].sort)
      BY DEF Ordered
    <3>1. CASE i # k /\ j # k
      BY <2>2, <2>16, <2>19, <3>1 DEF Ordered
    <3>2. CASE i = k
      <4>1. j # k /\ k < j
        BY <2>12, <3>2
      <4> QED BY <2>4, <2>13, <2>15, <2>16, <2>17, <2>18, <3>2, <4>1
    <3>3. CASE j = k
      <4>1. i # k /\ i < k
        BY <2>12, <3>3
      <4> QED BY <2>4, <2>13, <2>14, <2>16, <2>17, <2>18, <3>3, <4>1
    <3> QED BY <3>1, <3>2, <3>3
  <2>22. Sorts(r, d) = {item.sort}
    <3>1. ASSUME NEW i \in Listed(r, d) PROVE i = k
      <4>1. i \in DOMAIN r /\ r[i].id = d
        BY <3>1 DEF Listed
      <4> QED BY <2>13, <2>16, <4>1
    <3>2. Listed(r, d) = {k}
      BY <2>4, <2>17, <3>1 DEF Listed
    <3> QED BY <2>17, <3>2 DEF Sorts
  <2>23. ASSUME NEW e, e # d PROVE Sorts(r, e) = Sorts(rest, e)
    <3>1. \A i \in Listed(r, e) : old(i) \in Listed(rest, e) /\ r[i].sort = rest[old(i)].sort
      BY <2>4, <2>16, <2>17, <2>23 DEF Listed
    <3>2. \A n \in Listed(rest, e) : \E i \in Listed(r, e) : r[i].sort = rest[n].sort
      BY <2>16, <2>20 DEF Listed
    <3> QED BY <3>1, <3>2 DEF Sorts
  <2>24. \A e : Sorts(r, e) = IF e = d THEN {SortValuesToJSON(v)} ELSE Sorts(q, e)
    BY <2>2, <2>4, <2>22, <2>23
  <2> QED BY <2>9, <2>11, <2>21, <2>24
<1> QED BY <1>1, <1>2

(* What a mutation does: the file stays in order, lists the document as    *)
(* wanted, and every other document as before.                             *)
LEMMA MutateFacts ==
  ASSUME NEW q \in Seq(Item), Ordered(q), NEW c \in CallState
  PROVE  /\ Mutate(q, c) \in Seq(Item)
         /\ Ordered(Mutate(q, c))
         /\ Sorts(Mutate(q, c), c.id) = Want(c.sort)
         /\ \A e : e # c.id => Sorts(Mutate(q, c), e) = Sorts(q, e)
<1>1. PICK d : d = c.id
  OBVIOUS
<1>2. PICK v : v = c.sort
  OBVIOUS
<1>3. d \in Docs /\ v \in SortValues \cup {Gone}
  BY <1>1, <1>2 DEF CallState
<1>4. Mutate(q, c) = IF v = Gone THEN RemoveItem(q, d) ELSE Upsert(q, d, v)
  BY <1>1, <1>2 DEF Mutate
<1>5. CASE v = Gone
  <2>1. Mutate(q, c) = RemoveItem(q, d) /\ Want(v) = {}
    BY <1>4, <1>5 DEF Want
  <2> QED BY <1>1, <1>2, <2>1, RemoveFacts
<1>6. CASE v # Gone
  <2>1. Mutate(q, c) = Upsert(q, d, v) /\ Want(v) = {SortValuesToJSON(v)}
    BY <1>4, <1>6 DEF Want
  <2>2. v \in SortValues
    BY <1>3, <1>6
  <2> QED BY <1>1, <1>2, <1>3, <2>1, <2>2, UpsertFacts
<1> QED BY <1>5, <1>6

(* An ordered list is no longer than there are documents. *)
LEMMA OrderedIsBounded ==
  ASSUME NEW q \in Seq(Item), Ordered(q)
  PROVE  q \in Items
<1> DEFINE f == [i \in 1..Len(q) |-> q[i].id]
<1>1. DOMAIN q = 1..Len(q) /\ Len(q) \in Nat
  OBVIOUS
<1>2. \A i \in 1..Len(q) : q[i] \in Item /\ q[i].id \in Docs
  BY <1>1, EntryFacts
<1>3. f \in [1..Len(q) -> Docs]
  BY <1>2
<1>4. \A i, j \in 1..Len(q) : f[i] = f[j] => i = j
  <2> SUFFICES ASSUME NEW i \in 1..Len(q), NEW j \in 1..Len(q), i # j
               PROVE  q[i].id # q[j].id
    BY <1>2
  <2>1. i < j \/ j < i
    BY <1>1
  <2> QED BY <1>1, <2>1 DEF Ordered
<1>5. f \in Injection(1..Len(q), Docs)
  <2> HIDE DEF f
  <2> QED BY <1>3, <1>4 DEF Injection, IsInjective
<1>6. IsFiniteSet(Docs)
  BY SearchStoreAssumption
<1>7. Cardinality(1..Len(q)) <= Cardinality(Docs)
  <2> HIDE DEF f
  <2> QED BY <1>5, <1>6, FS_Injection
<1>8. Cardinality(1..Len(q)) = Len(q)
  BY <1>1, FS_Interval
<1>9. Cardinality(Docs) \in Nat
  BY <1>6, FS_CardinalityType
<1>10. Len(q) \in 0..Cardinality(Docs) /\ q \in [1..Len(q) -> Item]
  BY <1>1, <1>2, <1>7, <1>8, <1>9
<1> QED BY <1>10 DEF Items

(* The items of a file are a sequence. *)
LEMMA ItemsAreSequences ==
  ASSUME NEW q \in Items
  PROVE  q \in Seq(Item)
<1>1. PICK n \in 0..Cardinality(Docs) : q \in [1..n -> Item]
  BY DEF Items
<1>2. n \in Nat
  BY <1>1
<1> QED BY <1>1, <1>2

-----------------------------------------------------------------------------
(* The parts of ApplyMutation *)

(* The file that is not there yet. *)
LEMMA NoFileFacts ==
  NoFile \in ResultFile /\ Ordered(NoFile.items) /\ \A d : Sorts(NoFile.items, d) = {}
<1>1. NoFile.items = <<>> /\ NoFile.ver = <<>>
  BY DEF NoFile
<1>2. <<>> \in Seq(Item) /\ Ordered(<<>>)
  BY DEF Ordered
<1>3. <<>> \in Items
  BY <1>2, OrderedIsBounded
<1>4. NoFile \in ResultFile
  BY <1>3 DEF NoFile, ResultFile
<1>5. \A d : Sorts(<<>>, d) = {}
  BY DEF Sorts, Listed
<1> QED BY <1>1, <1>2, <1>4, <1>5

(* The fields of a call. *)
LEMMA CallFields ==
  ASSUME NEW c \in CallState
  PROVE  /\ c.at \in {"load", "write", "verify", "ok", "error"}
         /\ c # NoCall
         /\ c.id \in Docs
         /\ c.server \in Servers
         /\ c.sort \in SortValues \cup {Gone}
         /\ c.copy \in ResultFile
         /\ c.copy.items \in Seq(Item)
         /\ c.tries \in 0..MaxAttempts
         /\ c.token \in Tokens
         /\ Token(c) \in Docs \X Tokens
<1>1. /\ c.at \in {"load", "write", "verify", "ok", "error"}
      /\ c.id \in Docs
      /\ c.server \in Servers
      /\ c.sort \in SortValues \cup {Gone}
      /\ c.copy \in ResultFile
      /\ c.tries \in 0..MaxAttempts
      /\ c.token \in Tokens
  BY DEF CallState
<1>2. c # NoCall
  BY <1>1 DEF NoCall, Idle
<1>3. c.copy.items \in Items
  BY <1>1 DEF ResultFile
<1>4. c.copy.items \in Seq(Item)
  BY <1>3, ItemsAreSequences
<1> QED BY <1>1, <1>2, <1>4 DEF Token

(* A call that begins. *)
LEMMA CallType ==
  ASSUME NEW d \in Docs, NEW s \in Servers, NEW v \in SortValues \cup {Gone}
  PROVE  /\ Call(d, s, v) \in CallState
         /\ Call(d, s, v).at = "load" /\ Call(d, s, v).id = d
         /\ Call(d, s, v).server = s /\ Call(d, s, v).sort = v
         /\ Call(d, s, v).token = "live" /\ Call(d, s, v).copy = NoFile
<1>1. 0 \in 0..MaxAttempts
  BY SearchStoreAssumption
<1> QED BY <1>1, NoFileFacts DEF Call, CallState, Tokens

(* No call is not a running one. *)
LEMMA NoCallFacts == NoCall.at = Idle /\ ~IsRunning(NoCall) /\ NoCall.at = "idle"
BY DEF NoCall, Idle, IsRunning

(* The file a server has. *)
LEMMA FileFacts ==
  ASSUME TypeOK, NEW s \in Servers
  PROVE  /\ file[s] \in ResultFile
         /\ file[s].items \in Seq(Item)
         /\ file[s].ver \in {<<>>} \cup (Docs \X Tokens)
<1>1. file[s] \in ResultFile
  BY DEF TypeOK
<1>2. file[s].items \in Items /\ file[s].ver \in {<<>>} \cup (Docs \X Tokens)
  BY <1>1 DEF ResultFile
<1> QED BY <1>1, <1>2, ItemsAreSequences

(* Where a step of a call leads to: it ends well only when the file lists  *)
(* what it should, or still has the call's own version.                    *)
LEMMA AdvancedFacts ==
  ASSUME TypeOK, ResultsSorted, NEW c \in CallState, IsRunning(c), Ordered(c.copy.items)
  PROVE  /\ Advanced(c) \in CallState
         /\ Advanced(c).id = c.id /\ Advanced(c).server = c.server
         /\ Advanced(c).sort = c.sort /\ Advanced(c).token = c.token
         /\ Ordered(Advanced(c).copy.items)
         /\ Advanced(c).at = "verify" <=> c.at = "write"
         /\ Advanced(c).at = "ok" =>
               \/ c.at = "load" /\ Sorts(file[c.server].items, c.id) = Want(c.sort)
               \/ c.at = "verify" /\ file[c.server].ver = Token(c)
<1>1. PICK f : f = file[c.server]
  OBVIOUS
<1>2. /\ f \in ResultFile /\ f.items \in Seq(Item) /\ Ordered(f.items)
  BY <1>1, FileFacts, CallFields DEF ResultsSorted
<1>3. CASE c.at = "load"
  <2>1. Advanced(c) = LoadStep(c)
    BY <1>3 DEF Advanced
  <2>2. CASE Mutate(f.items, c) = f.items
    <3>1. Advanced(c) = [c EXCEPT !.at = "ok", !.copy = NoFile]
      BY <1>1, <2>1, <2>2 DEF LoadStep
    <3>2. Sorts(f.items, c.id) = Want(c.sort)
      BY <1>2, <2>2, MutateFacts
    <3>3. [c EXCEPT !.at = "ok", !.copy = NoFile] \in CallState
      BY NoFileFacts DEF CallState
    <3>4. /\ Advanced(c).id = c.id /\ Advanced(c).server = c.server
          /\ Advanced(c).sort = c.sort /\ Advanced(c).token = c.token
          /\ Advanced(c).at = "ok" /\ Advanced(c).copy = NoFile
      BY <3>1 DEF CallState
    <3> QED BY <1>1, <1>3, <3>1, <3>2, <3>3, <3>4, NoFileFacts
  <2>3. CASE Mutate(f.items, c) # f.items
    <3>1. Advanced(c) = [c EXCEPT !.at = "write", !.copy = f]
      BY <1>1, <2>1, <2>3 DEF LoadStep
    <3>2. [c EXCEPT !.at = "write", !.copy = f] \in CallState
      BY <1>2 DEF CallState
    <3>3. /\ Advanced(c).id = c.id /\ Advanced(c).server = c.server
          /\ Advanced(c).sort = c.sort /\ Advanced(c).token = c.token
          /\ Advanced(c).at = "write" /\ Advanced(c).copy = f
      BY <3>1 DEF CallState
    <3> QED BY <1>2, <1>3, <3>1, <3>2, <3>3
  <2> QED BY <2>2, <2>3
<1>4. CASE c.at = "write"
  <2>1. Advanced(c) = [c EXCEPT !.at = "verify"]
    BY <1>4 DEF Advanced
  <2>2. [c EXCEPT !.at = "verify"] \in CallState
    BY DEF CallState
  <2>3. /\ Advanced(c).id = c.id /\ Advanced(c).server = c.server
        /\ Advanced(c).sort = c.sort /\ Advanced(c).token = c.token
        /\ Advanced(c).at = "verify" /\ Advanced(c).copy = c.copy
    BY <2>1 DEF CallState
  <2> QED BY <1>4, <2>1, <2>2, <2>3
<1>5. CASE c.at = "verify"
  <2>1. Advanced(c) = VerifyStep(c)
    BY <1>5 DEF Advanced
  <2>2. CASE f.ver = Token(c)
    <3>1. Advanced(c) = [c EXCEPT !.at = "ok", !.copy = NoFile]
      BY <1>1, <2>1, <2>2 DEF VerifyStep
    <3>2. [c EXCEPT !.at = "ok", !.copy = NoFile] \in CallState
      BY NoFileFacts DEF CallState
    <3>3. /\ Advanced(c).id = c.id /\ Advanced(c).server = c.server
          /\ Advanced(c).sort = c.sort /\ Advanced(c).token = c.token
          /\ Advanced(c).at = "ok" /\ Advanced(c).copy = NoFile
      BY <3>1 DEF CallState
    <3> QED BY <1>1, <1>5, <2>2, <3>1, <3>2, <3>3, NoFileFacts
  <2>3. CASE f.ver # Token(c) /\ c.tries + 1 < MaxAttempts
    <3>1. Advanced(c) = [c EXCEPT !.at = "load", !.copy = NoFile, !.tries = c.tries + 1]
      BY <1>1, <2>1, <2>3 DEF VerifyStep
    <3>2. c.tries + 1 \in 0..MaxAttempts
      BY <2>3, CallFields, SearchStoreAssumption
    <3>3. [c EXCEPT !.at = "load", !.copy = NoFile, !.tries = c.tries + 1] \in CallState
      BY <3>2, NoFileFacts DEF CallState
    <3>4. /\ Advanced(c).id = c.id /\ Advanced(c).server = c.server
          /\ Advanced(c).sort = c.sort /\ Advanced(c).token = c.token
          /\ Advanced(c).at = "load" /\ Advanced(c).copy = NoFile
      BY <3>1 DEF CallState
    <3> QED BY <1>5, <3>1, <3>3, <3>4, NoFileFacts
  <2>4. CASE f.ver # Token(c) /\ ~(c.tries + 1 < MaxAttempts)
    <3>1. Advanced(c) = [c EXCEPT !.at = "error", !.copy = NoFile]
      BY <1>1, <2>1, <2>4 DEF VerifyStep
    <3>2. [c EXCEPT !.at = "error", !.copy = NoFile] \in CallState
      BY NoFileFacts DEF CallState
    <3>3. /\ Advanced(c).id = c.id /\ Advanced(c).server = c.server
          /\ Advanced(c).sort = c.sort /\ Advanced(c).token = c.token
          /\ Advanced(c).at = "error" /\ Advanced(c).copy = NoFile
      BY <3>1 DEF CallState
    <3> QED BY <1>5, <3>1, <3>2, <3>3, NoFileFacts
  <2> QED BY <2>2, <2>3, <2>4
<1> QED BY <1>3, <1>4, <1>5 DEF IsRunning

(* What a step of a call does to the files: only a write changes one, its  *)
(* own, which then has its version, is in order, lists its document as     *)
(* wanted and the others as before, or the harm is recorded, or the other  *)
(* document's call is about to look.                                       *)
LEMMA ApplyFacts ==
  ASSUME TypeOK, ResultsSorted, NEW c \in CallState, Ordered(c.copy.items), ApplyMutation(c)
  PROVE  /\ file' \in [Servers -> ResultFile]
         /\ \A s \in Servers : Ordered(file'[s].items)
         /\ harmed' \subseteq Servers /\ harmed \subseteq harmed'
         /\ \A s \in Servers : s # c.server \/ c.at # "write" => file'[s] = file[s]
         /\ c.at = "write" =>
               /\ file'[c.server].ver = Token(c)
               /\ Sorts(file'[c.server].items, c.id) = Want(c.sort)
               /\ c.token = "orphan" => c.server \in harmed' \/ Sent(doc[c.id]) = c.sort
               /\ \A e \in Docs \ {c.id} :
                     \/ c.server \in harmed'
                     \/ calls[e][c.server].at = "verify"
                     \/ Sorts(file'[c.server].items, e) = Sorts(file[c.server].items, e)
<1>1. PICK s : s = c.server
  OBVIOUS
<1>2. s \in Servers /\ c.copy.items \in Seq(Item) /\ Token(c) \in Docs \X Tokens
  BY <1>1, CallFields
<1>3. CASE c.at # "write"
  <2>1. file' = file /\ harmed' = harmed
    BY <1>3 DEF ApplyMutation
  <2> QED BY <1>3, <2>1 DEF TypeOK, ResultsSorted
<1>4. CASE c.at = "write"
  <2>1. WriteFile(c)
    BY <1>4 DEF ApplyMutation
  <2>2. PICK new : new = Mutate(c.copy.items, c)
    OBVIOUS
  <2>3. /\ new \in Seq(Item) /\ Ordered(new)
        /\ Sorts(new, c.id) = Want(c.sort)
        /\ \A e : e # c.id => Sorts(new, e) = Sorts(c.copy.items, e)
    BY <1>2, <2>2, MutateFacts
  <2>4. new \in Items
    BY <2>3, OrderedIsBounded
  <2>5. PICK f : f = [ver |-> Token(c), items |-> new]
    OBVIOUS
  <2>6. f \in ResultFile /\ f.ver = Token(c) /\ f.items = new
    BY <1>2, <2>4, <2>5 DEF ResultFile
  <2>7. file' = [file EXCEPT ![s] = f]
    BY <1>1, <2>1, <2>2, <2>5 DEF WriteFile
  <2>8. harmed' = IF Undoes(c) \/ (c.token = "orphan" /\ Sent(doc[c.id]) # c.sort)
                    THEN harmed \cup {s} ELSE harmed
    BY <1>1, <2>1 DEF WriteFile
  <2>9. file \in [Servers -> ResultFile] /\ harmed \subseteq Servers
    BY DEF TypeOK
  <2>10. /\ file' \in [Servers -> ResultFile] /\ file'[s] = f
         /\ \A t \in Servers : t # s => file'[t] = file[t]
    BY <1>2, <2>6, <2>7, <2>9
  <2>11. \A t \in Servers : Ordered(file'[t].items)
    BY <2>3, <2>6, <2>10 DEF ResultsSorted
  <2>12. harmed' \subseteq Servers /\ harmed \subseteq harmed'
    BY <1>2, <2>8, <2>9
  <2>13. ASSUME NEW e \in Docs \ {c.id}, s \notin harmed', calls[e][s].at # "verify"
         PROVE  Sorts(f.items, e) = Sorts(file[s].items, e)
    <3>1. ~Undoes(c)
      BY <2>8, <2>13
    <3>2. Sorts(file[s].items, e) = Sorts(c.copy.items, e)
      BY <1>1, <2>13, <3>1 DEF Undoes
    <3> QED BY <2>3, <2>6, <3>2
  <2>14. c.token = "orphan" => s \in harmed' \/ Sent(doc[c.id]) = c.sort
    BY <2>8
  <2>15. Sorts(file'[s].items, c.id) = Want(c.sort) /\ file'[s].ver = Token(c)
    BY <2>3, <2>6, <2>10
  <2>16. \A e \in Docs \ {c.id} :
            \/ s \in harmed'
            \/ calls[e][s].at = "verify"
            \/ Sorts(file'[s].items, e) = Sorts(file[s].items, e)
    BY <2>10, <2>13
  <2> QED BY <1>1, <1>4, <2>10, <2>11, <2>12, <2>14, <2>15, <2>16
<1> QED BY <1>3, <1>4

(* Nothing is under way for a document where it was served, or has no run. *)
LEMMA NoRunFacts == NoRun.at = "idle"
BY DEF NoRun, Idle

(* A document that was served has no call that is still to verify.         *)
LEMMA ServedIsDone ==
  ASSUME CallInv, NEW e \in Docs, NEW t \in Servers,
         Served(e, t) \/ run[e] = NoRun \/ run[e].at = "skip"
  PROVE  calls[e][t].at # "verify"
<1>1. CASE calls[e][t] = NoCall
  BY <1>1, NoCallFacts
<1>2. CASE calls[e][t] # NoCall
  BY <1>2, NoRunFacts DEF Served, CallInv
<1> QED BY <1>1, <1>2

(* Where a document is right and none of its calls is to verify, it stays  *)
(* so when the call of another document, or on another server, takes a     *)
(* step.                                                                   *)
LEMMA OthersStayRight ==
  ASSUME TypeOK, ResultsSorted, CallInv,
         NEW c \in CallState, Ordered(c.copy.items), ApplyMutation(c),
         NEW e \in Docs, NEW t \in Servers, t \notin harmed',
         c.at = "write" => e # c.id \/ t # c.server,
         calls[e][t].at # "verify", Right(t, e)
  PROVE  Sorts(file'[t].items, e) = Want(doc[e])
<1>1. Sorts(file[t].items, e) = Want(doc[e])
  BY DEF Right
<1>2. CASE t # c.server \/ c.at # "write"
  BY <1>1, <1>2, ApplyFacts
<1>3. CASE t = c.server /\ c.at = "write" /\ e # c.id
  BY <1>1, <1>3, ApplyFacts
<1> QED BY <1>2, <1>3

(* A document outside the bucket stays off the lists if a step leaves its  *)
(* state alone and lists it nowhere.                                       *)
LEMMA AbsentStays ==
  ASSUME AbsentInv, UNCHANGED <<doc, prev, lost, queued, run>>, harmed \subseteq harmed',
         \A e \in Docs \ lost, t \in Servers \ harmed' :
            doc[e] = Gone /\ prev[e] # "in" /\ Right(t, e)
              /\ (run[e] = NoRun \/ run[e].at = "skip") =>
                Sorts(file'[t].items, e) = Want(doc[e])
  PROVE  AbsentInv'
<1>1. ASSUME NEW e \in Docs \ lost, doc[e] = Gone, prev[e] # "in"
      PROVE  /\ run[e] = NoRun \/ run[e].at = "skip"
             /\ \A t \in Servers \ harmed' : Sorts(file'[t].items, e) = Want(doc[e])
  BY <1>1 DEF AbsentInv
<1> QED BY <1>1 DEF AbsentInv, Right

-----------------------------------------------------------------------------
(* One lemma per action: it keeps the inductive invariant. *)

(* The initial states satisfy the invariant. *)
LEMMA InitKeeps == Init => IInv
<1> SUFFICES ASSUME Init PROVE IInv
  OBVIOUS
<1>1. TypeOK
  <2>1. changes \in 0..MaxChanges /\ mishaps \in 0..MaxMishaps
    BY SearchStoreAssumption DEF Init
  <2> QED BY <2>1, NoFileFacts, SearchStoreAssumption DEF Init, TypeOK
<1>2. ResultsSorted
  BY NoFileFacts DEF Init, ResultsSorted
<1>3. CallInv
  BY NoRunFacts DEF Init, CallInv
<1>4. CopyInv
  BY DEF Init, CopyInv
<1>5. VersionInv
  BY NoCallFacts DEF Init, VersionInv
<1>6. RightInv
  BY NoFileFacts DEF Init, RightInv, Right, Want
<1>7. AbsentInv
  BY NoFileFacts, NoRunFacts DEF Init, AbsentInv, Right, Want
<1> QED BY <1>1, <1>2, <1>3, <1>4, <1>5, <1>6, <1>7 DEF IInv

(* A change is queued, and what is queued is nobody's promise yet.         *)
LEMMA ChangeKeeps ==
  ASSUME IInv, NEW d \in Docs, Change(d)
  PROVE  IInv'
<1> USE DEF IInv
<1>1. PICK v \in SortValues \cup {Gone} :
         /\ doc' = [doc EXCEPT ![d] = v] /\ v # doc[d]
         /\ outside' \subseteq outside \cup {d}
         /\ lost' = IF v = Gone /\ prev[d] = "out" THEN lost \cup {d} ELSE lost
  BY DEF Change
<1>p. prev' = [prev EXCEPT ![d] = IF @ = "none" THEN Replaced(d) ELSE @]
  BY DEF Change
<1>q. /\ prev' \in [Docs -> {"none", "in", "out"}]
      /\ \A e \in Docs : e # d => prev'[e] = prev[e]
      /\ prev'[d] \in {"in", "out"} \/ doc[d] = Gone
      /\ prev'[d] = "out" /\ doc[d] # Gone => prev[d] = "out"
  BY <1>p DEF TypeOK, Replaced
<1>2. /\ queued' = queued \cup {d}
      /\ UNCHANGED <<run, file, calls, orphan, mishaps, harmed>>
      /\ changes < MaxChanges /\ changes' = changes + 1
  BY DEF Change
<1>3. TypeOK'
  <2>1. changes' \in 0..MaxChanges
    BY <1>2, SearchStoreAssumption DEF TypeOK
  <2> QED BY <1>1, <1>2, <1>q, <2>1 DEF TypeOK
<1>4. ResultsSorted'
  BY <1>2 DEF ResultsSorted
<1>5. CallInv'
  <2>1. \A e \in Docs : e \notin queued' => doc'[e] = doc[e] /\ e \notin queued
    BY <1>1, <1>2 DEF TypeOK
  <2> QED BY <1>2, <2>1 DEF CallInv
<1>6. CopyInv'
  BY <1>2 DEF CopyInv
<1>7. VersionInv'
  BY <1>2 DEF VersionInv
<1>8. RightInv'
  <2>1. \A e \in Docs : e \notin queued' => doc'[e] = doc[e] /\ e \notin queued
    BY <1>1, <1>2 DEF TypeOK
  <2>2. lost \subseteq lost'
    BY <1>1
  <2> QED BY <1>2, <2>1, <2>2 DEF RightInv, Right, Served
<1>9. AbsentInv'
  <2>1. ASSUME NEW e \in Docs \ lost', doc'[e] = Gone, prev'[e] # "in"
        PROVE  /\ run[e] = NoRun \/ run[e].at = "skip"
               /\ \A s \in Servers \ harmed : Sorts(file[s].items, e) = Want(doc'[e])
    <3>1. e \notin lost /\ e # d
      BY <1>1, <1>q, <2>1 DEF TypeOK
    <3>2. doc'[e] = doc[e] /\ prev'[e] = prev[e]
      BY <1>1, <1>q, <3>1 DEF TypeOK
    <3> QED BY <2>1, <3>1, <3>2 DEF AbsentInv, Right
  <2>2. \A e \in lost' : doc'[e] = Gone \/ e \in queued'
    BY <1>1, <1>2 DEF AbsentInv, TypeOK
  <2>3. \A e \in Docs \ queued' : run'[e].at = "skip" => doc'[e] = Gone /\ prev'[e] # "in"
    BY <1>1, <1>2, <1>q DEF AbsentInv, TypeOK
  <2> QED BY <1>2, <2>1, <2>2, <2>3 DEF AbsentInv, Right
<1> QED BY <1>3, <1>4, <1>5, <1>6, <1>7, <1>8, <1>9

(* A run begins with what the document is now. *)
LEMMA BeginKeeps ==
  ASSUME IInv, NEW d \in Docs, Begin(d)
  PROVE  IInv'
<1> USE DEF IInv
<1>1. /\ run[d] = NoRun
      /\ queued' = queued \ {d} /\ lost' = lost \ {d}
      /\ doc[d] # Gone \/ prev[d] = "in"
      /\ UNCHANGED <<doc, outside, prev, file, orphan, changes, mishaps, harmed>>
  BY DEF Begin
<1>2. PICK c : c = Call(d, Self, doc[d])
  OBVIOUS
<1>3. PICK new : new = [at |-> "local", sort |-> doc[d]]
  OBVIOUS
<1>4. run' = [run EXCEPT ![d] = new] /\ calls' = [calls EXCEPT ![d][Self] = c]
  BY <1>2, <1>3 DEF Begin
<1>5. Self \in Servers /\ doc[d] \in SortValues \cup {Gone}
  BY DEF Servers, TypeOK
<1>6. /\ c \in CallState /\ c.at = "load" /\ c.id = d /\ c.server = Self
      /\ c.sort = doc[d] /\ c.token = "live" /\ c.copy = NoFile
  BY <1>2, <1>5, CallType
<1>7. new \in RunState /\ new # NoRun /\ new.at = "local" /\ new.sort = doc[d]
  BY <1>3, <1>5 DEF RunState, NoRun, Idle
<1>8. /\ run \in [Docs -> RunState \cup {NoRun}]
      /\ calls \in [Docs -> [Servers -> CallState \cup {NoCall}]]
  BY DEF TypeOK
<1>9. /\ run' \in [Docs -> RunState \cup {NoRun}]
      /\ calls' \in [Docs -> [Servers -> CallState \cup {NoCall}]]
  BY <1>4, <1>5, <1>6, <1>7, <1>8
<1>10. /\ run'[d] = new /\ calls'[d][Self] = c
       /\ \A e \in Docs : e # d => run'[e] = run[e]
       /\ \A e \in Docs, s \in Servers : e # d \/ s # Self => calls'[e][s] = calls[e][s]
  BY <1>4, <1>5, <1>8
<1>11. \A s \in Servers : calls[d][s] = NoCall
  BY <1>1, NoRunFacts DEF CallInv
<1>12. c # NoCall
  BY <1>6, CallFields
<1>13. TypeOK'
  BY <1>1, <1>9 DEF TypeOK
<1>14. ResultsSorted'
  BY <1>1 DEF ResultsSorted
<1>15. CallInv'
  <2>1. ASSUME NEW e \in Docs, NEW s \in Servers, calls'[e][s] # NoCall
        PROVE  /\ run'[e].at \in {"local", "remote"}
               /\ (run'[e].at = "local") <=> (s = Self)
               /\ calls'[e][s].id = e /\ calls'[e][s].server = s
               /\ calls'[e][s].token = "live"
               /\ calls'[e][s].sort = IF s = Self THEN run'[e].sort ELSE Sent(run'[e].sort)
    <3>1. CASE e = d
      BY <1>6, <1>7, <1>10, <1>11, <2>1, <3>1
    <3>2. CASE e # d
      BY <1>10, <2>1, <3>2 DEF CallInv
    <3> QED BY <3>1, <3>2
  <2>2. ASSUME NEW e \in Docs, NEW s \in Servers, run'[e].at \in {"local", "remote"},
               (run'[e].at = "local") <=> (s = Self)
        PROVE  calls'[e][s] # NoCall
    BY <1>7, <1>10, <1>12, <2>2 DEF CallInv
  <2>3. \A e \in Docs : run'[e] # NoRun /\ run'[e].sort # doc'[e] => e \in queued'
    BY <1>1, <1>7, <1>10 DEF CallInv
  <2>4. orphan' # NoCall => orphan'.token = "orphan"
    BY <1>1 DEF CallInv
  <2> QED BY <2>1, <2>2, <2>3, <2>4 DEF CallInv
<1>16. CopyInv'
  BY <1>1, <1>6, <1>10, NoFileFacts DEF CopyInv
<1>17. VersionInv'
  BY <1>1, <1>6, <1>10 DEF VersionInv
<1>18. RightInv'
  <2> SUFFICES ASSUME NEW e \in Docs, e \notin queued', e \notin lost', NEW s \in Servers,
                      s \notin harmed, Served(e, s)'
               PROVE  Right(s, e)'
    BY <1>1 DEF RightInv
  <2>1. CASE e = d
    <3>1. ~Served(d, s)'
      <4>1. CASE s = Self
        BY <1>6, <1>7, <1>10, <4>1 DEF Served
      <4>2. CASE s # Self
        BY <1>7, <1>10, <1>11, <4>2, NoCallFacts DEF Served
      <4> QED BY <4>1, <4>2
    <3> QED BY <2>1, <3>1
  <2>2. CASE e # d
    <3>1. Served(e, s) /\ e \notin queued /\ e \notin lost
      BY <1>1, <1>10, <2>2 DEF Served
    <3> QED BY <1>1, <3>1 DEF RightInv, Right
  <2> QED BY <2>1, <2>2
<1>19. AbsentInv'
  <2>1. ASSUME NEW e \in Docs \ lost', doc[e] = Gone, prev[e] # "in"
        PROVE  /\ run'[e] = NoRun \/ run'[e].at = "skip"
               /\ \A s \in Servers \ harmed : Right(s, e)
    <3>1. e # d /\ e \notin lost
      BY <1>1, <2>1
    <3> QED BY <1>10, <2>1, <3>1 DEF AbsentInv
  <2>2. \A e \in lost' : doc[e] = Gone \/ e \in queued'
    BY <1>1 DEF AbsentInv
  <2>3. \A e \in Docs \ queued' : run'[e].at = "skip" => doc[e] = Gone /\ prev[e] # "in"
    BY <1>1, <1>7, <1>10 DEF AbsentInv
  <2> QED BY <1>1, <2>1, <2>2, <2>3 DEF AbsentInv, Right
<1> QED BY <1>13, <1>14, <1>15, <1>16, <1>17, <1>18, <1>19

(* A run that has nothing to do for the bucket makes no call. *)
LEMMA BeginNothingKeeps ==
  ASSUME IInv, NEW d \in Docs, BeginNothing(d)
  PROVE  IInv'
<1> USE DEF IInv
<1>1. /\ run[d] = NoRun /\ doc[d] = Gone /\ prev[d] # "in"
      /\ queued' = queued \ {d}
      /\ UNCHANGED <<doc, outside, prev, file, calls, orphan, changes, mishaps, lost, harmed>>
  BY DEF BeginNothing
<1>2. PICK new : new = [at |-> "skip", sort |-> Gone]
  OBVIOUS
<1>3. run' = [run EXCEPT ![d] = new]
  BY <1>2 DEF BeginNothing
<1>4. new \in RunState /\ new # NoRun /\ new.at = "skip" /\ new.sort = Gone
  BY <1>2 DEF RunState, NoRun, Idle
<1>5. /\ run' \in [Docs -> RunState \cup {NoRun}]
      /\ run'[d] = new /\ \A e \in Docs : e # d => run'[e] = run[e]
  BY <1>3, <1>4 DEF TypeOK
<1>6. \A s \in Servers : calls[d][s] = NoCall
  BY <1>1, NoRunFacts DEF CallInv
<1>7. TypeOK'
  BY <1>1, <1>5 DEF TypeOK
<1>8. ResultsSorted' /\ CopyInv' /\ VersionInv'
  BY <1>1 DEF ResultsSorted, CopyInv, VersionInv
<1>9. CallInv'
  <2>1. ASSUME NEW e \in Docs, NEW s \in Servers, calls'[e][s] # NoCall
        PROVE  /\ run'[e].at \in {"local", "remote"}
               /\ (run'[e].at = "local") <=> (s = Self)
               /\ calls'[e][s].id = e /\ calls'[e][s].server = s
               /\ calls'[e][s].token = "live"
               /\ calls'[e][s].sort = IF s = Self THEN run'[e].sort ELSE Sent(run'[e].sort)
    <3>1. e # d
      BY <1>1, <1>6, <2>1
    <3> QED BY <1>1, <1>5, <2>1, <3>1 DEF CallInv
  <2>2. ASSUME NEW e \in Docs, NEW s \in Servers, run'[e].at \in {"local", "remote"},
               (run'[e].at = "local") <=> (s = Self)
        PROVE  calls'[e][s] # NoCall
    BY <1>1, <1>4, <1>5, <2>2 DEF CallInv
  <2>3. \A e \in Docs : run'[e] # NoRun /\ run'[e].sort # doc'[e] => e \in queued'
    BY <1>1, <1>4, <1>5 DEF CallInv
  <2>4. orphan' # NoCall => orphan'.token = "orphan"
    BY <1>1 DEF CallInv
  <2> QED BY <2>1, <2>2, <2>3, <2>4 DEF CallInv
<1>10. RightInv'
  <2> SUFFICES ASSUME NEW e \in Docs, e \notin queued', e \notin lost, NEW s \in Servers,
                      s \notin harmed, Served(e, s)'
               PROVE  Right(s, e)
    BY <1>1 DEF RightInv, Right
  <2>1. CASE e = d
    BY <1>1, <2>1 DEF AbsentInv
  <2>2. CASE e # d
    <3>1. Served(e, s) /\ e \notin queued
      BY <1>1, <1>5, <2>2 DEF Served
    <3> QED BY <3>1 DEF RightInv
  <2> QED BY <2>1, <2>2
<1>11. AbsentInv'
  <2>1. \A e \in Docs : run[e] = NoRun \/ run[e].at = "skip" => run'[e] = NoRun \/ run'[e].at = "skip"
    BY <1>4, <1>5
  <2>2. \A e \in lost' : doc[e] = Gone \/ e \in queued'
    BY <1>1 DEF AbsentInv
  <2>3. \A e \in Docs \ queued' : run'[e].at = "skip" => doc[e] = Gone /\ prev[e] # "in"
    BY <1>1, <1>5 DEF AbsentInv
  <2> QED BY <1>1, <2>1, <2>2, <2>3 DEF AbsentInv, Right
<1> QED BY <1>7, <1>8, <1>9, <1>10, <1>11

(* The local call has ended well, the others begin. *)
LEMMA FanOutKeeps ==
  ASSUME IInv, NEW d \in Docs, FanOut(d)
  PROVE  IInv'
<1> USE DEF IInv
<1>1. /\ run[d].at = "local" /\ calls[d][Self].at = "ok"
      /\ run' = [run EXCEPT ![d].at = "remote"]
      /\ calls' = [calls EXCEPT ![d] = [s \in Servers |->
                      IF s = Self THEN NoCall ELSE Call(d, s, Sent(run[d].sort))]]
      /\ UNCHANGED <<doc, outside, prev, lost, queued, file, orphan, changes, mishaps, harmed>>
  BY DEF FanOut
<1>2. PICK old : old = run[d]
  OBVIOUS
<1>3. old \in RunState /\ old.at = "local" /\ old # NoRun
  <2>1. old \in RunState \cup {NoRun} /\ old.at = "local"
    BY <1>1, <1>2 DEF TypeOK
  <2>2. old # NoRun
    BY <2>1 DEF NoRun, Idle
  <2> QED BY <2>1, <2>2
<1>4. PICK new : new = [old EXCEPT !.at = "remote"]
  OBVIOUS
<1>5. new \in RunState /\ new # NoRun /\ new.at = "remote" /\ new.sort = old.sort
  BY <1>3, <1>4 DEF RunState, NoRun, Idle
<1>6. old.sort \in SortValues \cup {Gone}
  BY <1>3 DEF RunState
<1>7. PICK v : v = Sent(old.sort)
  OBVIOUS
<1>8. v \in SortValues \cup {Gone}
  BY <1>6, <1>7, SentFacts
<1>9. \A s \in Servers :
         /\ Call(d, s, v) \in CallState /\ Call(d, s, v) # NoCall
         /\ Call(d, s, v).at = "load" /\ Call(d, s, v).id = d
         /\ Call(d, s, v).server = s /\ Call(d, s, v).sort = v
         /\ Call(d, s, v).token = "live" /\ Call(d, s, v).copy = NoFile
  BY <1>8, CallType, CallFields
<1>10. /\ run \in [Docs -> RunState \cup {NoRun}]
       /\ calls \in [Docs -> [Servers -> CallState \cup {NoCall}]]
       /\ Self \in Servers
  BY DEF TypeOK, Servers
<1>11. PICK row : row = [s \in Servers |-> IF s = Self THEN NoCall ELSE Call(d, s, v)]
  OBVIOUS
<1>12. /\ row \in [Servers -> CallState \cup {NoCall}]
       /\ row[Self] = NoCall
       /\ \A s \in Servers : s # Self => row[s] = Call(d, s, v)
  BY <1>9, <1>10, <1>11
<1>13. run' = [run EXCEPT ![d] = new] /\ calls' = [calls EXCEPT ![d] = row]
  BY <1>1, <1>2, <1>4, <1>7, <1>11
<1>14. /\ run' \in [Docs -> RunState \cup {NoRun}]
       /\ calls' \in [Docs -> [Servers -> CallState \cup {NoCall}]]
       /\ run'[d] = new /\ calls'[d] = row
       /\ \A e \in Docs : e # d => run'[e] = run[e] /\ calls'[e] = calls[e]
  BY <1>5, <1>10, <1>12, <1>13
<1>15. TypeOK'
  BY <1>1, <1>14 DEF TypeOK
<1>16. ResultsSorted'
  BY <1>1 DEF ResultsSorted
<1>17. CallInv'
  <2>1. ASSUME NEW e \in Docs, NEW s \in Servers, calls'[e][s] # NoCall
        PROVE  /\ run'[e].at \in {"local", "remote"}
               /\ (run'[e].at = "local") <=> (s = Self)
               /\ calls'[e][s].id = e /\ calls'[e][s].server = s
               /\ calls'[e][s].token = "live"
               /\ calls'[e][s].sort = IF s = Self THEN run'[e].sort ELSE Sent(run'[e].sort)
    <3>1. CASE e = d
      <4>1. s # Self /\ calls'[e][s] = Call(d, s, v)
        BY <1>12, <1>14, <2>1, <3>1
      <4> QED BY <1>5, <1>7, <1>9, <1>14, <3>1, <4>1
    <3>2. CASE e # d
      BY <1>14, <2>1, <3>2 DEF CallInv
    <3> QED BY <3>1, <3>2
  <2>2. ASSUME NEW e \in Docs, NEW s \in Servers, run'[e].at \in {"local", "remote"},
               (run'[e].at = "local") <=> (s = Self)
        PROVE  calls'[e][s] # NoCall
    BY <1>5, <1>9, <1>12, <1>14, <2>2 DEF CallInv
  <2>3. \A e \in Docs : run'[e] # NoRun /\ run'[e].sort # doc'[e] => e \in queued'
    BY <1>1, <1>2, <1>3, <1>5, <1>14 DEF CallInv
  <2>4. orphan' # NoCall => orphan'.token = "orphan"
    BY <1>1 DEF CallInv
  <2> QED BY <2>1, <2>2, <2>3, <2>4 DEF CallInv
<1>18. CopyInv'
  <2>1. ASSUME NEW e \in Docs, NEW s \in Servers, calls'[e][s] # NoCall
        PROVE  Ordered(calls'[e][s].copy.items)
    <3>1. CASE e = d
      BY <1>9, <1>12, <1>14, <2>1, <3>1, NoFileFacts
    <3>2. CASE e # d
      BY <1>14, <2>1, <3>2 DEF CopyInv
    <3> QED BY <3>1, <3>2
  <2> QED BY <1>1, <2>1 DEF CopyInv
<1>19. \A s \in Servers : calls'[d][s].at \in {Idle, "load"}
  BY <1>9, <1>12, <1>14, NoCallFacts
<1>20. VersionInv'
  <2> SUFFICES ASSUME NEW e \in Docs, NEW s \in Servers, calls'[e][s].at = "verify",
                      file'[s].ver = Token(calls'[e][s])
               PROVE  Sorts(file'[s].items, e) = Want(calls'[e][s].sort)
    BY DEF VersionInv, Token
  <2>1. e # d
    BY <1>19 DEF Idle
  <2> QED BY <1>1, <1>14, <2>1 DEF VersionInv
<1>21. RightInv'
  <2> SUFFICES ASSUME NEW e \in Docs, e \notin queued, e \notin lost, NEW s \in Servers,
                      s \notin harmed, Served(e, s)'
               PROVE  Right(s, e)'
    BY <1>1 DEF RightInv
  <2>1. CASE e = d
    <3>1. s = Self
      BY <1>5, <1>14, <1>19, <2>1 DEF Served, Idle
    <3>2. Served(e, s)
      BY <1>1, <2>1, <3>1 DEF Served
    <3> QED BY <1>1, <3>2 DEF RightInv, Right
  <2>2. CASE e # d
    <3>1. Served(e, s)
      BY <1>14, <2>2 DEF Served
    <3> QED BY <1>1, <3>1 DEF RightInv, Right
  <2> QED BY <2>1, <2>2
<1>22. AbsentInv'
  <2>1. ASSUME NEW e \in Docs \ lost, doc[e] = Gone, prev[e] # "in"
        PROVE  /\ run'[e] = NoRun \/ run'[e].at = "skip"
               /\ \A s \in Servers \ harmed : Right(s, e)
    <3>1. e # d
      BY <1>1, <2>1, NoRunFacts DEF AbsentInv
    <3> QED BY <1>14, <2>1, <3>1 DEF AbsentInv
  <2> QED BY <1>1, <2>1 DEF AbsentInv, Right
<1> QED BY <1>15, <1>16, <1>17, <1>18, <1>20, <1>21, <1>22

(* A step of ApplyMutation for a run.  The call ends well only where the   *)
(* file is as wanted; to the others it does no harm that goes unrecorded.  *)
LEMMA StepKeeps ==
  ASSUME IInv, NEW d \in Docs, NEW s \in Servers, Step(d, s)
  PROVE  IInv'
<1> USE DEF IInv
<1>1. PICK c : c = calls[d][s]
  OBVIOUS
<1>2. PICK a : a = Advanced(c)
  OBVIOUS
<1>3. /\ ApplyMutation(c)
      /\ calls' = [calls EXCEPT ![d][s] = a]
      /\ UNCHANGED <<doc, outside, prev, lost, queued, run, orphan, changes, mishaps>>
  BY <1>1, <1>2 DEF Step
<1>4. calls \in [Docs -> [Servers -> CallState \cup {NoCall}]]
  BY DEF TypeOK
<1>5. c \in CallState /\ IsRunning(c) /\ c # NoCall
  BY <1>1, <1>3, <1>4, NoCallFacts DEF ApplyMutation
<1>6. /\ run[d].at \in {"local", "remote"} /\ run[d] # NoRun
      /\ (run[d].at = "local") <=> (s = Self)
      /\ c.id = d /\ c.server = s /\ c.token = "live"
      /\ c.sort = IF s = Self THEN run[d].sort ELSE Sent(run[d].sort)
      /\ Ordered(c.copy.items)
  BY <1>1, <1>5, NoRunFacts DEF CallInv, CopyInv
<1>7. /\ a \in CallState /\ a # NoCall
      /\ a.id = d /\ a.server = s /\ a.sort = c.sort /\ a.token = "live"
      /\ Ordered(a.copy.items)
      /\ a.at = "verify" <=> c.at = "write"
      /\ a.at = "ok" =>
            \/ c.at = "load" /\ Sorts(file[s].items, d) = Want(c.sort)
            \/ c.at = "verify" /\ file[s].ver = Token(c)
  BY <1>2, <1>5, <1>6, AdvancedFacts, CallFields
<1>8. /\ calls' \in [Docs -> [Servers -> CallState \cup {NoCall}]]
      /\ calls'[d][s] = a
      /\ \A e \in Docs, t \in Servers : e # d \/ t # s => calls'[e][t] = calls[e][t]
  BY <1>3, <1>4, <1>7
<1>9. /\ file' \in [Servers -> ResultFile]
      /\ \A t \in Servers : Ordered(file'[t].items)
      /\ harmed' \subseteq Servers /\ harmed \subseteq harmed'
      /\ \A t \in Servers : t # s \/ c.at # "write" => file'[t] = file[t]
      /\ c.at = "write" => /\ file'[s].ver = Token(c)
                           /\ Sorts(file'[s].items, d) = Want(c.sort)
  BY <1>3, <1>5, <1>6, ApplyFacts
<1>10. TypeOK'
  BY <1>3, <1>8, <1>9 DEF TypeOK
<1>11. ResultsSorted'
  BY <1>9 DEF ResultsSorted
<1>12. CallInv'
  <2>1. ASSUME NEW e \in Docs, NEW t \in Servers, calls'[e][t] # NoCall
        PROVE  /\ run'[e].at \in {"local", "remote"}
               /\ (run'[e].at = "local") <=> (t = Self)
               /\ calls'[e][t].id = e /\ calls'[e][t].server = t
               /\ calls'[e][t].token = "live"
               /\ calls'[e][t].sort = IF t = Self THEN run'[e].sort ELSE Sent(run'[e].sort)
    <3>1. CASE e = d /\ t = s
      BY <1>3, <1>6, <1>7, <1>8, <3>1
    <3>2. CASE e # d \/ t # s
      BY <1>3, <1>8, <2>1, <3>2 DEF CallInv
    <3> QED BY <3>1, <3>2
  <2>2. ASSUME NEW e \in Docs, NEW t \in Servers, run'[e].at \in {"local", "remote"},
               (run'[e].at = "local") <=> (t = Self)
        PROVE  calls'[e][t] # NoCall
    BY <1>3, <1>7, <1>8, <2>2 DEF CallInv
  <2> QED BY <1>3, <2>1, <2>2 DEF CallInv
<1>13. CopyInv'
  BY <1>3, <1>7, <1>8 DEF CopyInv
<1>14. VersionInv'
  <2> SUFFICES ASSUME NEW e \in Docs, NEW t \in Servers, calls'[e][t].at = "verify",
                      file'[t].ver = Token(calls'[e][t])
               PROVE  Sorts(file'[t].items, e) = Want(calls'[e][t].sort)
    BY DEF VersionInv, Token
  <2>1. CASE e = d /\ t = s
    BY <1>7, <1>8, <1>9, <2>1
  <2>2. CASE e # d \/ t # s
    <3>1. calls'[e][t] = calls[e][t]
      BY <1>8, <2>2
    <3>2. CASE t # s \/ c.at # "write"
      BY <1>9, <3>1, <3>2 DEF VersionInv
    <3>3. CASE t = s /\ c.at = "write"
      <4>1. Token(c) = Token(calls[e][t])
        BY <1>9, <3>1, <3>3
      <4>2. calls[e][t].id = e
        BY <3>1, NoCallFacts DEF CallInv
      <4> QED BY <1>6, <2>2, <3>3, <4>1, <4>2 DEF Token
    <3> QED BY <3>2, <3>3
  <2> QED BY <2>1, <2>2
<1>15. RightInv'
  <2> SUFFICES ASSUME NEW e \in Docs, e \notin queued, e \notin lost, NEW t \in Servers,
                      t \notin harmed', Served(e, t)'
               PROVE  Sorts(file'[t].items, e) = Want(doc[e])
    BY <1>3 DEF RightInv, Right
  <2>1. CASE e = d /\ t = s
    <3>1. a.at = "ok"
      BY <1>3, <1>6, <1>8, <2>1 DEF Served
    <3>2. file'[s] = file[s]
      BY <1>7, <1>9, <3>1
    <3>3. Sorts(file[s].items, d) = Want(c.sort)
      BY <1>1, <1>7, <3>1 DEF VersionInv
    <3>4. run[d].sort = doc[d] /\ doc[d] \in SortValues \cup {Gone}
      BY <1>6, <2>1 DEF CallInv, TypeOK
    <3>5. Want(c.sort) = Want(doc[d])
      BY <1>6, <3>4, SentFacts
    <3> QED BY <2>1, <3>2, <3>3, <3>5
  <2>2. CASE e # d \/ t # s
    <3>1. Served(e, t) /\ t \notin harmed
      BY <1>3, <1>8, <1>9, <2>2 DEF Served
    <3>2. Right(t, e)
      BY <3>1 DEF RightInv
    <3>3. calls[e][t].at # "verify"
      BY <3>1, ServedIsDone
    <3> QED BY <1>3, <1>5, <1>6, <2>2, <3>2, <3>3, OthersStayRight
  <2> QED BY <2>1, <2>2
<1>16. AbsentInv'
  <2>1. ASSUME NEW e \in Docs \ lost, NEW t \in Servers \ harmed', Right(t, e),
               run[e] = NoRun \/ run[e].at = "skip"
        PROVE  Sorts(file'[t].items, e) = Want(doc[e])
    <3>1. e # d
      BY <1>6, <2>1
    <3>2. calls[e][t].at # "verify"
      BY <2>1, ServedIsDone
    <3> QED BY <1>3, <1>5, <1>6, <2>1, <3>1, <3>2, OthersStayRight
  <2> QED BY <1>3, <1>9, <2>1, AbsentStays
<1> QED BY <1>10, <1>11, <1>12, <1>13, <1>14, <1>15, <1>16

(* Replacing one call leaves the others. *)
LEMMA OneCallFacts ==
  ASSUME NEW S, NEW f \in [Docs -> [Servers -> S]], NEW d \in Docs, NEW s \in Servers, NEW a \in S
  PROVE  /\ [f EXCEPT ![d][s] = a] \in [Docs -> [Servers -> S]]
         /\ [f EXCEPT ![d][s] = a][d][s] = a
         /\ \A e \in Docs, t \in Servers : e # d \/ t # s => [f EXCEPT ![d][s] = a][e][t] = f[e][t]
OBVIOUS

(* A call that ends with an error, whatever it leaves behind. *)
LEMMA FailedFacts ==
  ASSUME TypeOK, CallInv, CopyInv, NEW d \in Docs, NEW s \in Servers, IsRunning(calls[d][s]),
         run' = run, doc' = doc, queued' = queued,
         calls' = [calls EXCEPT ![d][s] = [@ EXCEPT !.at = "error", !.copy = NoFile]]
  PROVE  /\ calls' \in [Docs -> [Servers -> CallState \cup {NoCall}]]
         /\ calls'[d][s].at = "error"
         /\ \A e \in Docs, t \in Servers : e # d \/ t # s => calls'[e][t] = calls[e][t]
         /\ \A e \in Docs, t \in Servers : Served(e, t)' => Served(e, t)
         /\ \A e \in Docs, t \in Servers :
               calls'[e][t] # NoCall => Ordered(calls'[e][t].copy.items)
         /\ (orphan' # NoCall => orphan'.token = "orphan") => CallInv'
<1>1. PICK c : c = calls[d][s]
  OBVIOUS
<1>2. PICK a : a = [c EXCEPT !.at = "error", !.copy = NoFile]
  OBVIOUS
<1>3. calls' = [calls EXCEPT ![d][s] = a]
  BY <1>1, <1>2
<1>4. calls \in [Docs -> [Servers -> CallState \cup {NoCall}]]
  BY DEF TypeOK
<1>5. c \in CallState /\ c # NoCall
  BY <1>1, <1>4, NoCallFacts
<1>6. /\ a \in CallState /\ a.at = "error" /\ a.id = c.id /\ a.server = c.server
      /\ a.sort = c.sort /\ a.token = c.token /\ a.copy = NoFile
  BY <1>2, <1>5, NoFileFacts DEF CallState
<1>7. a # NoCall
  BY <1>6, CallFields
<1>8. /\ calls' \in [Docs -> [Servers -> CallState \cup {NoCall}]]
      /\ calls'[d][s] = a
      /\ \A e \in Docs, t \in Servers : e # d \/ t # s => calls'[e][t] = calls[e][t]
  <2>1. PICK f : f = calls
    OBVIOUS
  <2>2. f \in [Docs -> [Servers -> CallState \cup {NoCall}]] /\ a \in CallState \cup {NoCall}
    BY <1>4, <1>6, <2>1
  <2>3. /\ [f EXCEPT ![d][s] = a] \in [Docs -> [Servers -> CallState \cup {NoCall}]]
        /\ [f EXCEPT ![d][s] = a][d][s] = a
        /\ \A e \in Docs, t \in Servers :
              e # d \/ t # s => [f EXCEPT ![d][s] = a][e][t] = f[e][t]
    BY <2>2, OneCallFacts
  <2>4. calls' = [f EXCEPT ![d][s] = a]
    BY <1>3, <2>1
  <2> QED BY <2>1, <2>3, <2>4
<1>9. \A e \in Docs, t \in Servers : Served(e, t)' => Served(e, t)
  BY <1>6, <1>8 DEF Served
<1>10. \A e \in Docs, t \in Servers :
          calls'[e][t] # NoCall => Ordered(calls'[e][t].copy.items)
  BY <1>6, <1>8, NoFileFacts DEF CopyInv
<1>11. ASSUME orphan' # NoCall => orphan'.token = "orphan" PROVE CallInv'
  <2>1. ASSUME NEW e \in Docs, NEW t \in Servers, calls'[e][t] # NoCall
        PROVE  /\ run'[e].at \in {"local", "remote"}
               /\ (run'[e].at = "local") <=> (t = Self)
               /\ calls'[e][t].id = e /\ calls'[e][t].server = t
               /\ calls'[e][t].token = "live"
               /\ calls'[e][t].sort = IF t = Self THEN run'[e].sort ELSE Sent(run'[e].sort)
    <3>1. CASE e = d /\ t = s
      BY <1>1, <1>5, <1>6, <1>8, <3>1 DEF CallInv
    <3>2. CASE e # d \/ t # s
      BY <1>8, <2>1, <3>2 DEF CallInv
    <3> QED BY <3>1, <3>2
  <2>2. ASSUME NEW e \in Docs, NEW t \in Servers, run'[e].at \in {"local", "remote"},
               (run'[e].at = "local") <=> (t = Self)
        PROVE  calls'[e][t] # NoCall
    BY <1>7, <1>8, <2>2 DEF CallInv
  <2> QED BY <1>11, <2>1, <2>2 DEF CallInv
<1> QED BY <1>6, <1>8, <1>9, <1>10, <1>11

(* A failed call promises nothing. *)
LEMMA CallFailsKeeps ==
  ASSUME IInv, NEW d \in Docs, NEW s \in Servers, CallFails(d, s)
  PROVE  IInv'
<1> USE DEF IInv
<1>1. /\ IsRunning(calls[d][s])
      /\ mishaps < MaxMishaps /\ mishaps' = mishaps + 1
      /\ calls' = [calls EXCEPT ![d][s] = [@ EXCEPT !.at = "error", !.copy = NoFile]]
      /\ UNCHANGED <<doc, outside, prev, lost, queued, run, file, orphan, changes, harmed>>
  BY DEF CallFails
<1>2. /\ calls' \in [Docs -> [Servers -> CallState \cup {NoCall}]]
      /\ calls'[d][s].at = "error"
      /\ \A e \in Docs, t \in Servers : e # d \/ t # s => calls'[e][t] = calls[e][t]
      /\ \A e \in Docs, t \in Servers : Served(e, t)' => Served(e, t)
      /\ \A e \in Docs, t \in Servers :
            calls'[e][t] # NoCall => Ordered(calls'[e][t].copy.items)
      /\ (orphan' # NoCall => orphan'.token = "orphan") => CallInv'
  BY <1>1, FailedFacts
<1>3. mishaps' \in 0..MaxMishaps
  BY <1>1, SearchStoreAssumption DEF TypeOK
<1>4. TypeOK'
  BY <1>1, <1>2, <1>3 DEF TypeOK
<1>5. ResultsSorted'
  BY <1>1 DEF ResultsSorted
<1>6. CallInv'
  BY <1>1, <1>2 DEF CallInv
<1>7. CopyInv'
  BY <1>1, <1>2 DEF CopyInv
<1>8. VersionInv'
  BY <1>1, <1>2 DEF VersionInv
<1>9. RightInv'
  BY <1>1, <1>2 DEF RightInv, Right
<1>10. AbsentInv'
  BY <1>1, AbsentStays DEF Right
<1> QED BY <1>4, <1>5, <1>6, <1>7, <1>8, <1>9, <1>10

(* A handler that goes on alone is no longer anyone's version. *)
LEMMA ReplyLostKeeps ==
  ASSUME IInv, NEW d \in Docs, NEW s \in Servers, ReplyLost(d, s)
  PROVE  IInv'
<1> USE DEF IInv
<1>1. PICK c : c = calls[d][s]
  OBVIOUS
<1>2. /\ IsRunning(calls[d][s])
      /\ mishaps < MaxMishaps /\ mishaps' = mishaps + 1
      /\ orphan' = [c EXCEPT !.token = "orphan"]
      /\ file' = IF c.at = "verify" /\ file[s].ver = Token(c)
                   THEN [file EXCEPT ![s].ver = <<d, "orphan">>] ELSE file
      /\ calls' = [calls EXCEPT ![d][s] = [@ EXCEPT !.at = "error", !.copy = NoFile]]
      /\ UNCHANGED <<doc, outside, prev, lost, queued, run, changes, harmed>>
  BY <1>1 DEF ReplyLost
<1>3. /\ calls' \in [Docs -> [Servers -> CallState \cup {NoCall}]]
      /\ calls'[d][s].at = "error"
      /\ \A e \in Docs, t \in Servers : e # d \/ t # s => calls'[e][t] = calls[e][t]
      /\ \A e \in Docs, t \in Servers : Served(e, t)' => Served(e, t)
      /\ \A e \in Docs, t \in Servers :
            calls'[e][t] # NoCall => Ordered(calls'[e][t].copy.items)
      /\ (orphan' # NoCall => orphan'.token = "orphan") => CallInv'
  BY <1>2, FailedFacts
<1>4. c \in CallState /\ c # NoCall
  <2>1. c \in CallState \cup {NoCall} /\ IsRunning(c)
    BY <1>1, <1>2 DEF TypeOK
  <2> QED BY <2>1, NoCallFacts
<1>5. /\ orphan' \in CallState /\ orphan'.token = "orphan" /\ orphan'.copy = c.copy
  BY <1>2, <1>4 DEF CallState, Tokens
<1>6. Ordered(c.copy.items)
  BY <1>1, <1>4 DEF CopyInv
<1>7. /\ file' \in [Servers -> ResultFile]
      /\ \A t \in Servers : file'[t].items = file[t].items
      /\ \A t \in Servers : file'[t].ver = file[t].ver \/ file'[t].ver = <<d, "orphan">>
  <2>1. CASE file' = file
    BY <2>1 DEF TypeOK
  <2>2. CASE file' = [file EXCEPT ![s].ver = <<d, "orphan">>]
    <3>1. PICK f : f = [file[s] EXCEPT !.ver = <<d, "orphan">>]
      OBVIOUS
    <3>2. file' = [file EXCEPT ![s] = f]
      BY <2>2, <3>1
    <3>3. file[s] \in ResultFile /\ file \in [Servers -> ResultFile]
      BY DEF TypeOK
    <3>4. <<d, "orphan">> \in Docs \X Tokens
      BY DEF Tokens
    <3>5. f \in ResultFile /\ f.items = file[s].items /\ f.ver = <<d, "orphan">>
      BY <3>1, <3>3, <3>4 DEF ResultFile
    <3> QED BY <3>2, <3>3, <3>5
  <2> QED BY <1>2, <2>1, <2>2
<1>8. mishaps' \in 0..MaxMishaps
  BY <1>2, SearchStoreAssumption DEF TypeOK
<1>9. TypeOK'
  BY <1>2, <1>3, <1>5, <1>7, <1>8 DEF TypeOK
<1>10. ResultsSorted'
  BY <1>7 DEF ResultsSorted
<1>11. CallInv'
  BY <1>3, <1>5
<1>12. CopyInv'
  <2>1. Ordered(orphan'.copy.items)
    BY <1>5, <1>6
  <2> QED BY <1>3, <2>1 DEF CopyInv
<1>13. VersionInv'
  <2> SUFFICES ASSUME NEW e \in Docs, NEW t \in Servers, calls'[e][t].at = "verify",
                      file'[t].ver = Token(calls'[e][t])
               PROVE  Sorts(file'[t].items, e) = Want(calls'[e][t].sort)
    BY DEF VersionInv, Token
  <2>1. calls'[e][t] = calls[e][t]
    BY <1>3
  <2>2. calls[e][t].token = "live"
    BY <2>1, NoCallFacts DEF CallInv
  <2>3. file'[t].ver = file[t].ver
    BY <1>7, <2>1, <2>2 DEF Token
  <2> QED BY <1>7, <2>1, <2>3 DEF VersionInv
<1>14. RightInv'
  BY <1>2, <1>3, <1>7 DEF RightInv, Right
<1>15. AbsentInv'
  BY <1>2, <1>7, AbsentStays DEF Right
<1> QED BY <1>9, <1>10, <1>11, <1>12, <1>13, <1>14, <1>15

(* A step of the handler without a client: harm to its own document is     *)
(* recorded, too.                                                          *)
LEMMA OrphanStepKeeps ==
  ASSUME IInv, OrphanStep
  PROVE  IInv'
<1> USE DEF IInv
<1>1. PICK c : c = orphan
  OBVIOUS
<1>2. c \in CallState /\ c.token = "orphan" /\ Ordered(c.copy.items)
  BY <1>1 DEF OrphanStep, TypeOK, CallInv, CopyInv
<1>3. UNCHANGED <<doc, outside, prev, lost, queued, run, calls, changes, mishaps>>
  BY DEF OrphanStep
<1>4. CASE ~IsRunning(c) /\ orphan' = NoCall /\ UNCHANGED <<file, harmed>>
  <2>1. TypeOK'
    BY <1>3, <1>4 DEF TypeOK
  <2>2. ResultsSorted' /\ VersionInv'
    BY <1>3, <1>4 DEF ResultsSorted, VersionInv
  <2>3. CallInv' /\ CopyInv'
    BY <1>3, <1>4 DEF CallInv, CopyInv
  <2>4. RightInv'
    BY <1>3, <1>4 DEF RightInv, Right, Served
  <2>5. AbsentInv'
    BY <1>3, <1>4, AbsentStays DEF Right
  <2> QED BY <2>1, <2>2, <2>3, <2>4, <2>5
<1>5. CASE ApplyMutation(c) /\ orphan' = Advanced(c)
  <2>1. IsRunning(c) /\ c.server \in Servers /\ c.id \in Docs
    BY <1>2, <1>5, CallFields DEF ApplyMutation
  <2>2. PICK a : a = Advanced(c)
    OBVIOUS
  <2>3. a \in CallState /\ a.token = "orphan" /\ Ordered(a.copy.items)
    BY <1>2, <2>1, <2>2, AdvancedFacts
  <2>4. orphan' = a
    BY <1>5, <2>2
  <2>5. /\ file' \in [Servers -> ResultFile]
        /\ \A t \in Servers : Ordered(file'[t].items)
        /\ harmed' \subseteq Servers /\ harmed \subseteq harmed'
        /\ \A t \in Servers : t # c.server \/ c.at # "write" => file'[t] = file[t]
        /\ c.at = "write" =>
              /\ file'[c.server].ver = Token(c)
              /\ Sorts(file'[c.server].items, c.id) = Want(c.sort)
              /\ c.server \in harmed' \/ Sent(doc[c.id]) = c.sort
    BY <1>2, <1>5, ApplyFacts
  <2>6. TypeOK'
    BY <1>3, <2>3, <2>4, <2>5 DEF TypeOK
  <2>7. ResultsSorted'
    BY <2>5 DEF ResultsSorted
  <2>8. CallInv'
    BY <1>3, <2>3, <2>4 DEF CallInv
  <2>9. CopyInv'
    BY <1>3, <2>3, <2>4 DEF CopyInv
  <2>10. VersionInv'
    <3> SUFFICES ASSUME NEW e \in Docs, NEW t \in Servers, calls[e][t].at = "verify",
                        file'[t].ver = Token(calls[e][t])
                 PROVE  Sorts(file'[t].items, e) = Want(calls[e][t].sort)
      BY <1>3 DEF VersionInv, Token
    <3>1. CASE t # c.server \/ c.at # "write"
      BY <2>5, <3>1 DEF VersionInv
    <3>2. CASE t = c.server /\ c.at = "write"
      <4>1. calls[e][t].token = "live"
        BY NoCallFacts DEF CallInv
      <4>2. Token(c) = Token(calls[e][t])
        BY <2>5, <3>2
      <4> QED BY <1>2, <4>1, <4>2 DEF Token
    <3> QED BY <3>1, <3>2
  <2>11. ASSUME NEW e \in Docs, NEW t \in Servers, t \notin harmed', Right(t, e),
                calls[e][t].at # "verify"
         PROVE  Sorts(file'[t].items, e) = Want(doc[e])
    <3>1. CASE e = c.id /\ t = c.server /\ c.at = "write"
      <4>1. Sent(doc[e]) = c.sort
        BY <2>5, <2>11, <3>1
      <4>2. doc[e] \in SortValues \cup {Gone}
        BY DEF TypeOK
      <4>3. Want(c.sort) = Want(doc[e])
        BY <4>1, <4>2, SentFacts
      <4> QED BY <2>5, <3>1, <4>3
    <3>2. CASE c.at = "write" => e # c.id \/ t # c.server
      BY <1>2, <1>5, <2>11, <3>2, OthersStayRight
    <3> QED BY <3>1, <3>2
  <2>12. RightInv'
    <3> SUFFICES ASSUME NEW e \in Docs, e \notin queued, e \notin lost, NEW t \in Servers,
                        t \notin harmed', Served(e, t)
                 PROVE  Sorts(file'[t].items, e) = Want(doc[e])
      BY <1>3 DEF RightInv, Right, Served
    <3>1. Right(t, e)
      BY <2>5 DEF RightInv
    <3> QED BY <2>11, <3>1, ServedIsDone
  <2>13. AbsentInv'
    <3>1. \A e \in Docs, t \in Servers :
             run[e] = NoRun \/ run[e].at = "skip" => calls[e][t].at # "verify"
      BY ServedIsDone
    <3> QED BY <1>3, <2>5, <2>11, <3>1, AbsentStays
  <2> QED BY <2>6, <2>7, <2>8, <2>9, <2>10, <2>12, <2>13
<1> QED BY <1>1, <1>4, <1>5 DEF OrphanStep

(* A run ends: either an error puts the document back in the queue, or all *)
(* calls have ended well and the document is right everywhere.             *)
LEMMA EndKeeps ==
  ASSUME IInv, NEW d \in Docs, End(d)
  PROVE  IInv'
<1> USE DEF IInv
<1>1. /\ run[d] # NoRun
      /\ \A s \in RunCalls(d) : ~IsRunning(calls[d][s])
      /\ run[d].at \in {"remote", "skip"} \/ calls[d][Self].at = "error"
      /\ run' = [run EXCEPT ![d] = NoRun]
      /\ calls' = [calls EXCEPT ![d] = [s \in Servers |-> NoCall]]
      /\ queued' = IF \E s \in RunCalls(d) : calls[d][s].at = "error"
                     THEN queued \cup {d} ELSE queued
      /\ UNCHANGED <<doc, outside, file, orphan, changes, mishaps, harmed>>
  BY DEF End
<1>p. /\ prev' \in [Docs -> {"none", "in", "out"}] /\ lost' \subseteq Docs /\ lost \subseteq lost'
      /\ \A e \in Docs : e # d => prev'[e] = prev[e] /\ (e \in lost' => e \in lost)
      /\ d \in lost' => d \in lost \/ doc[d] = Gone
      /\ \/ prev' = prev /\ lost' = lost
         \/ queued' = queued /\ (d \in queued /\ doc[d] = Gone /\ prev[d] = "in" => d \in lost')
  BY DEF End, TypeOK
<1>2. /\ run \in [Docs -> RunState \cup {NoRun}]
      /\ calls \in [Docs -> [Servers -> CallState \cup {NoCall}]]
      /\ Self \in Servers
  BY DEF TypeOK, Servers
<1>3. /\ run' \in [Docs -> RunState \cup {NoRun}]
      /\ calls' \in [Docs -> [Servers -> CallState \cup {NoCall}]]
      /\ run'[d] = NoRun /\ \A s \in Servers : calls'[d][s] = NoCall
      /\ \A e \in Docs : e # d => run'[e] = run[e] /\ calls'[e] = calls[e]
  BY <1>1, <1>2
<1>4. queued' \subseteq Docs /\ queued \subseteq queued'
      /\ \A e \in Docs : e # d /\ e \in queued' => e \in queued
  BY <1>1 DEF TypeOK
<1>s. run[d].at = "skip" /\ d \notin queued /\ d \notin lost =>
         \A t \in Servers \ harmed : Right(t, d)
  BY DEF AbsentInv
<1>5. TypeOK'
  BY <1>1, <1>3, <1>4, <1>p DEF TypeOK
<1>6. ResultsSorted'
  BY <1>1 DEF ResultsSorted
<1>7. CallInv'
  <2>1. ASSUME NEW e \in Docs, NEW t \in Servers, calls'[e][t] # NoCall
        PROVE  /\ run'[e].at \in {"local", "remote"}
               /\ (run'[e].at = "local") <=> (t = Self)
               /\ calls'[e][t].id = e /\ calls'[e][t].server = t
               /\ calls'[e][t].token = "live"
               /\ calls'[e][t].sort = IF t = Self THEN run'[e].sort ELSE Sent(run'[e].sort)
    BY <1>3, <2>1, NoRunFacts DEF CallInv
  <2>2. ASSUME NEW e \in Docs, NEW t \in Servers, run'[e].at \in {"local", "remote"},
               (run'[e].at = "local") <=> (t = Self)
        PROVE  calls'[e][t] # NoCall
    BY <1>3, <2>2, NoRunFacts DEF CallInv
  <2>3. \A e \in Docs : run'[e] # NoRun /\ run'[e].sort # doc'[e] => e \in queued'
    BY <1>1, <1>3, <1>4 DEF CallInv
  <2> QED BY <1>1, <2>1, <2>2, <2>3 DEF CallInv
<1>8. CopyInv'
  BY <1>1, <1>3 DEF CopyInv
<1>9. VersionInv'
  BY <1>1, <1>3, NoCallFacts DEF VersionInv
<1>10. RightInv'
  <2> SUFFICES ASSUME NEW e \in Docs, e \notin queued', e \notin lost', NEW t \in Servers,
                      t \notin harmed, Served(e, t)'
               PROVE  Right(t, e)
    BY <1>1 DEF RightInv, Right
  <2>0. e \notin lost /\ e \notin queued
    BY <1>4, <1>p
  <2>1. CASE e # d
    <3>1. Served(e, t)
      BY <1>3, <2>1 DEF Served
    <3> QED BY <2>0, <3>1 DEF RightInv
  <2>2. CASE e = d /\ run[d].at # "skip"
    <3>1. \A s \in RunCalls(d) : calls[d][s].at # "error"
      BY <1>1, <2>2
    <3>2. \A s \in Servers : calls[d][s] # NoCall => calls[d][s].at = "ok"
      <4> SUFFICES ASSUME NEW s \in Servers, calls[d][s] # NoCall PROVE calls[d][s].at = "ok"
        OBVIOUS
      <4>1. s \in RunCalls(d)
        BY DEF RunCalls
      <4>2. calls[d][s] \in CallState
        BY <1>2
      <4> QED BY <1>1, <3>1, <4>1, <4>2, CallFields DEF IsRunning
    <3>3. run[d].at = "remote"
      <4>1. calls[d][Self].at # "error"
        BY <1>2, <3>2, NoCallFacts
      <4> QED BY <1>1, <2>2, <4>1
    <3>4. Served(d, t)
      BY <1>1, <3>2, <3>3 DEF Served, CallInv
    <3> QED BY <2>0, <2>2, <3>4 DEF RightInv
  <2>3. CASE e = d /\ run[d].at = "skip"
    BY <1>s, <2>0, <2>3
  <2> QED BY <2>1, <2>2, <2>3
<1>11. AbsentInv'
  <2>1. ASSUME NEW e \in Docs \ lost', doc[e] = Gone, prev'[e] # "in"
        PROVE  /\ run'[e] = NoRun \/ run'[e].at = "skip"
               /\ \A t \in Servers \ harmed : Right(t, e)
    <3>0. e \notin lost
      BY <1>p, <2>1
    <3>1. CASE e # d \/ prev[d] # "in"
      <4>1. prev[e] # "in"
        BY <1>p, <2>1, <3>1
      <4> QED BY <1>3, <2>1, <3>0, <4>1 DEF AbsentInv
    <3>2. CASE e = d /\ prev[d] = "in"
      <4>1. d \notin queued'
        BY <1>p, <2>1, <3>2
      <4>2. \A t \in Servers : Served(d, t)'
        BY <1>3 DEF Served
      <4>3. \A t \in Servers \ harmed : Right(t, d)'
        BY <1>1, <1>10, <2>1, <3>2, <4>1, <4>2 DEF RightInv
      <4> QED BY <1>1, <1>3, <3>2, <4>3 DEF Right
    <3> QED BY <3>1, <3>2
  <2>2. \A e \in lost' : doc[e] = Gone \/ e \in queued'
    BY <1>4, <1>p DEF AbsentInv, TypeOK
  <2>3. \A e \in Docs \ queued' : run'[e].at = "skip" => doc[e] = Gone /\ prev'[e] # "in"
    BY <1>3, <1>4, <1>p, NoRunFacts DEF AbsentInv
  <2> QED BY <1>1, <2>1, <2>2, <2>3 DEF AbsentInv, Right
<1> QED BY <1>5, <1>6, <1>7, <1>8, <1>9, <1>10, <1>11

(* Doing nothing keeps it. *)
LEMMA StutterKeeps ==
  ASSUME IInv, UNCHANGED vars
  PROVE  IInv'
<1> USE DEF IInv, vars
<1>1. TypeOK' /\ ResultsSorted'
  BY DEF TypeOK, ResultsSorted
<1>2. CallInv' /\ CopyInv' /\ VersionInv'
  BY DEF CallInv, CopyInv, VersionInv
<1>3. RightInv' /\ AbsentInv'
  BY DEF RightInv, AbsentInv, Right, Served
<1> QED BY <1>1, <1>2, <1>3

(* The invariant holds in every reachable state.                           *)
LEMMA Invariance == Spec => []IInv
<1>1. IInv /\ [Next]_vars => IInv'
  <2> SUFFICES ASSUME IInv, [Next]_vars PROVE IInv'
    OBVIOUS
  <2>1. ASSUME NEW d \in Docs, Change(d) \/ Begin(d) \/ BeginNothing(d) \/ FanOut(d) \/ End(d)
        PROVE  IInv'
    BY <2>1, ChangeKeeps, BeginKeeps, BeginNothingKeeps, FanOutKeeps, EndKeeps
  <2>2. ASSUME NEW d \in Docs, NEW s \in Servers,
               Step(d, s) \/ CallFails(d, s) \/ ReplyLost(d, s) PROVE IInv'
    BY <2>2, StepKeeps, CallFailsKeeps, ReplyLostKeeps
  <2>3. CASE OrphanStep
    BY <2>3, OrphanStepKeeps
  <2>4. CASE UNCHANGED vars
    BY <2>4, StutterKeeps
  <2> QED BY <2>1, <2>2, <2>3, <2>4 DEF Next
<1> QED BY InitKeeps, <1>1, PTL DEF Spec

-----------------------------------------------------------------------------
(* Every variable has its type; in particular no result file grows beyond  *)
(* the number of documents, and a missing sort value is never stored.      *)
THEOREM TypeCorrect == Spec => []TypeOK
<1>1. IInv => TypeOK
  BY DEF IInv
<1> QED BY <1>1, Invariance, PTL

(* Result files are sorted and list no document twice, on every server,    *)
(* whatever read-modify-writes race: the file is only ever replaced by a   *)
(* sorted copy with one entry put in its place.                            *)
THEOREM ResultsStaySorted == Spec => []ResultsSorted
<1>1. IInv => ResultsSorted
  BY DEF IInv
<1> QED BY <1>1, Invariance, PTL

(* When all is distributed, every server lists the documents of the bucket *)
(* with their present values, except where a verified mutation was undone  *)
(* unseen or an orphaned handler wrote old values; it lists a document     *)
(* that has left the bucket only if no run found the state that was listed *)
(* preserved.                                                              *)
THEOREM VerificationRepairsRaces == Spec => []VerifiedResultsAgree
<1>1. IInv => VerifiedResultsAgree
  <2> SUFFICES ASSUME IInv, Settled, NEW s \in Servers \ harmed
               PROVE  /\ {d \in Docs : doc[d] # Gone} \subseteq ToSet(Matches(s))
                      /\ \A i \in DOMAIN file[s].items :
                            IF doc[file[s].items[i].id] = Gone THEN file[s].items[i].id \in lost
                            ELSE file[s].items[i].sort = SortValuesToJSON(doc[file[s].items[i].id])
    BY DEF VerifiedResultsAgree
  <2>1. PICK q : q = file[s].items
    OBVIOUS
  <2>2. q \in Seq(Item) /\ DOMAIN q = 1..Len(q)
    BY <2>1, FileFacts DEF IInv
  <2>3. \A d \in Docs \ lost : Sorts(q, d) = Want(doc[d])
    BY <2>1 DEF IInv, RightInv, Right, Served, Settled
  <2>4. \A d \in lost : doc[d] = Gone
    BY DEF IInv, AbsentInv, Settled
  <2>5. ASSUME NEW i \in DOMAIN q
        PROVE  IF doc[q[i].id] = Gone THEN q[i].id \in lost
               ELSE q[i].sort = SortValuesToJSON(doc[q[i].id])
    <3>1. q[i].id \in Docs
      BY <2>2, EntryFacts
    <3>2. q[i].sort \in Sorts(q, q[i].id)
      BY DEF Sorts, Listed
    <3> QED BY <2>3, <2>4, <3>1, <3>2 DEF Want
  <2>6. ASSUME NEW d \in Docs, doc[d] # Gone PROVE \E i \in DOMAIN q : q[i].id = d
    <3>1. Sorts(q, d) # {}
      BY <2>3, <2>4, <2>6 DEF Want
    <3> QED BY <3>1 DEF Sorts, Listed
  <2>7. ToSet(Matches(s)) = {q[i].id : i \in DOMAIN q}
    BY <2>1 DEF ToSet, Matches
  <2>8. {d \in Docs : doc[d] # Gone} \subseteq {q[i].id : i \in DOMAIN q}
    BY <2>6
  <2> QED BY <2>1, <2>5, <2>7, <2>8
<1> QED BY <1>1, Invariance, PTL

=============================================================================

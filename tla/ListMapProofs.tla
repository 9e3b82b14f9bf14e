---------------------------- MODULE ListMapProofs ----------------------------
(***************************************************************************)
(* What holds of the sorted map for every set of keys and values and any   *)
(* number of entries, and of the linked list for every heap: their types,  *)
(* that the keys ascend and that a walk stays inside the list, and that    *)
(* they implement Dictionary and Deque.                                    *)
(***************************************************************************)
EXTENDS LinkedList, SortedMap, SequenceLemmas, FiniteSetTheorems

(* The map.                                                                  *)
MapInv == MapTypeOK /\ KeysAscend

LEMMA EntriesHaveKeys ==
  ASSUME MapTypeOK
  PROVE  /\ Len(entries) \in Nat
         /\ DOMAIN entries = 1 .. Len(entries)
         /\ \A i \in 1 .. Len(entries) :
              entries[i] \in Entry /\ entries[i].key \in Keys /\ entries[i].key \in Int
<1>1. entries \in Seq(Entry) /\ Len(entries) \in Nat /\ DOMAIN entries = 1 .. Len(entries)
  BY LenProperties DEF MapTypeOK
<1>2. \A i \in 1 .. Len(entries) : entries[i] \in Entry
  BY <1>1, ElementOfSeq
<1>3. \A e \in Entry : e.key \in Keys /\ e.key \in Int
  BY KeysAssumption DEF Entry
<1> QED
  BY <1>1, <1>2, <1>3

(* What the loop of find_index_ knows after some turns: what is to the left  *)
(* of lo is smaller, what is to the right of hi is greater, and less is left *)
(* between them at every turn.                                               *)
Places == [lo : 0 .. Len(entries), hi : 0 .. Len(entries), found : BOOLEAN]

Narrowed(place, key, turns) ==
  /\ place \in Places
  /\ place.lo <= place.hi
  /\ place.found =>
       place.lo < Len(entries) /\ entries[place.lo + 1].key = key
  /\ ~place.found =>
       /\ place.hi - place.lo <= Len(entries) - turns
       /\ \A i \in 1 .. place.lo : entries[i].key < key
       /\ \A i \in place.hi + 1 .. Len(entries) : entries[i].key > key

LEMMA TurnStays ==
  ASSUME Len(entries) \in Nat, NEW key, NEW place \in Places
  PROVE  Turn(key, place) \in Places
<1> DEFINE mid == place.lo + (place.hi - place.lo) \div 2
<1>1. place.lo \in 0 .. Len(entries) /\ place.hi \in 0 .. Len(entries) /\ place.found \in BOOLEAN
  BY DEF Places
<1>2. CASE place.found \/ place.lo >= place.hi
  BY <1>2 DEF Turn
<1>3. CASE ~place.found /\ place.lo < place.hi
  <2>1. mid \in 0 .. Len(entries) /\ mid + 1 \in 0 .. Len(entries)
    BY <1>1, <1>3
  <2> HIDE DEF mid
  <2>2. \/ Turn(key, place) = [place EXCEPT !.lo = mid + 1]
        \/ Turn(key, place) = [place EXCEPT !.hi = mid]
        \/ Turn(key, place) = [place EXCEPT !.lo = mid, !.found = TRUE]
    BY <1>1, <1>3 DEF Turn, Before, mid
  <2> QED
    BY <1>1, <2>1, <2>2 DEF Places
<1> QED
  BY <1>1, <1>2, <1>3

LEMMA TurnNarrows ==
  ASSUME MapInv, NEW key \in Int, NEW turns \in 0 .. Len(entries) - 1, NEW place,
         Narrowed(place, key, turns)
  PROVE  Narrowed(Turn(key, place), key, turns + 1)
<1> DEFINE n == Len(entries)
           mid == place.lo + (place.hi - place.lo) \div 2
           next == Turn(key, place)
<1>1. /\ n \in Nat
      /\ \A i \in 1 .. n : entries[i].key \in Int
      /\ \A i, j \in 1 .. n : i < j => entries[i].key < entries[j].key
  BY EntriesHaveKeys DEF MapInv, KeysAscend
<1>2. /\ place.lo \in 0 .. n /\ place.hi \in 0 .. n /\ place.found \in BOOLEAN
      /\ place.lo <= place.hi /\ place \in Places
  BY DEF Narrowed, Places
<1>3. CASE place.found \/ place.lo >= place.hi
  <2>1. next = place
    BY <1>3 DEF Turn
  <2>2. ~place.found => place.hi - place.lo <= n - (turns + 1)
    BY <1>1, <1>2, <1>3
  <2> QED
    BY <2>1, <2>2 DEF Narrowed
<1>4. CASE ~place.found /\ place.lo < place.hi
  <2>1. /\ mid \in Nat /\ mid + 1 \in 1 .. n
        /\ place.lo <= mid /\ mid < place.hi
    BY <1>1, <1>2, <1>4
  <2>2. next = CASE KeyAt(mid) < key -> [place EXCEPT !.lo = mid + 1]
                 [] KeyAt(mid) > key -> [place EXCEPT !.hi = mid]
                 [] OTHER -> [place EXCEPT !.lo = mid, !.found = TRUE]
    BY <1>2, <1>4 DEF Turn, Before
  <2> HIDE DEF mid, next, n
  <2>3. /\ place.hi - place.lo <= n - turns
        /\ \A i \in 1 .. place.lo : entries[i].key < key
        /\ \A i \in place.hi + 1 .. n : entries[i].key > key
    BY <1>4 DEF Narrowed, n
  <2>4. KeyAt(mid) = entries[mid + 1].key /\ KeyAt(mid) \in Int
    BY <1>1, <2>1 DEF KeyAt
  <2>5. next \in Places
    BY <1>1, <1>2, TurnStays DEF next, n
  <2>6. CASE KeyAt(mid) < key
    <3>1. next = [place EXCEPT !.lo = mid + 1]
      BY <2>2, <2>4, <2>6
    <3>2. next.lo = mid + 1 /\ next.hi = place.hi /\ ~next.found
      BY <1>2, <1>4, <3>1 DEF Places
    <3>3. \A i \in 1 .. mid + 1 : entries[i].key < key
      <4> SUFFICES ASSUME NEW i \in 1 .. mid + 1 PROVE entries[i].key < key
        OBVIOUS
      <4>1. i \in 1 .. n /\ (i = mid + 1 \/ i < mid + 1)
        BY <1>1, <2>1
      <4>2. entries[i].key = KeyAt(mid) \/ entries[i].key < KeyAt(mid)
        BY <1>1, <2>1, <2>4, <4>1
      <4> QED
        BY <1>1, <2>4, <2>6, <4>1, <4>2
    <3>4. place.hi - (mid + 1) <= n - (turns + 1) /\ mid + 1 <= place.hi
      BY <1>1, <1>2, <2>1, <2>3 DEF n
    <3>5. /\ next.lo <= next.hi
          /\ next.hi - next.lo <= n - (turns + 1)
          /\ \A i \in 1 .. next.lo : entries[i].key < key
          /\ \A i \in next.hi + 1 .. n : entries[i].key > key
      BY <2>3, <3>2, <3>3, <3>4
    <3> QED
      BY <2>5, <3>2, <3>5 DEF Narrowed, n, next
  <2>7. CASE KeyAt(mid) > key
    <3>1. next = [place EXCEPT !.hi = mid]
      BY <2>2, <2>4, <2>7
    <3>2. next.lo = place.lo /\ next.hi = mid /\ ~next.found
      BY <1>2, <1>4, <3>1 DEF Places
    <3>3. \A i \in mid + 1 .. n : entries[i].key > key
      <4> SUFFICES ASSUME NEW i \in mid + 1 .. n PROVE entries[i].key > key
        OBVIOUS
      <4>1. i \in 1 .. n /\ (i = mid + 1 \/ mid + 1 < i)
        BY <1>1, <2>1
      <4>2. entries[i].key = KeyAt(mid) \/ KeyAt(mid) < entries[i].key
        BY <1>1, <2>1, <2>4, <4>1
      <4> QED
        BY <1>1, <2>4, <2>7, <4>1, <4>2
    <3>4. mid - place.lo <= n - (turns + 1)
      BY <1>1, <1>2, <2>1, <2>3 DEF n
    <3>5. /\ next.lo <= next.hi
          /\ next.hi - next.lo <= n - (turns + 1)
          /\ \A i \in 1 .. next.lo : entries[i].key < key
          /\ \A i \in next.hi + 1 .. n : entries[i].key > key
      BY <2>1, <2>3, <3>2, <3>3, <3>4
    <3> QED
      BY <2>5, <3>2, <3>5 DEF Narrowed, n, next
  <2>8. CASE KeyAt(mid) = key
    <3>1. next = [place EXCEPT !.lo = mid, !.found = TRUE]
      BY <2>2, <2>4, <2>8
    <3>2. next.lo = mid /\ next.hi = place.hi /\ next.found
      BY <1>2, <3>1 DEF Places
    <3>3. next.lo <= next.hi /\ next.lo < n
      BY <1>1, <1>2, <2>1, <3>2
    <3>4. entries[next.lo + 1].key = key
      BY <2>4, <2>8, <3>2
    <3> QED
      BY <2>5, <3>2, <3>3, <3>4 DEF Narrowed, n, next
  <2> QED
    BY <2>4, <2>6, <2>7, <2>8 DEF next
<1> QED
  BY <1>2, <1>3, <1>4

(* Where a key is, or where it has to go.                                    *)
IsPlaceOf(key, place) ==
  /\ place.found \in BOOLEAN
  /\ place.found =>
       place.index \in 0 .. Len(entries) - 1 /\ entries[place.index + 1].key = key
  /\ ~place.found =>
       /\ place.index \in 0 .. Len(entries)
       /\ \A i \in 1 .. place.index : entries[i].key < key
       /\ \A i \in place.index + 1 .. Len(entries) : entries[i].key > key

(* The binary search of find_index_ is correct for every array in order.     *)
LEMMA SearchFindsPlace ==
  ASSUME MapInv, NEW key \in Int
  PROVE  IsPlaceOf(key, FindIndex(key))
<1> DEFINE n == Len(entries)
           start == [lo |-> 0, hi |-> n, found |-> FALSE]
           step == [pair \in (1 .. n) \X Places |-> Turn(key, pair[2])]
<1>1. n \in Nat
  BY EntriesHaveKeys DEF MapInv
<1>2. start \in Places
  BY <1>1 DEF Places
<1>3. \A t \in 1 .. n, place \in Places :
        step[<<t, place>>] = Turn(key, place) /\ step[<<t, place>>] \in Places
  BY <1>1, TurnStays
<1> HIDE DEF step, n, start
<1>4. PICK f : Recurses(f, n, Places, start, step)
  <2>1. StaysIn(Places, n, start, step)
    BY <1>2, <1>3 DEF StaysIn
  <2> QED
    BY <1>1, <2>1, Recursion
<1>5. f = [t \in 0 .. n |-> IF t = 0 THEN start ELSE Turn(key, f[t - 1])]
  <2>1. f \in [0 .. n -> Places] /\ f[0] = start
    BY <1>4 DEF Recurses
  <2>2. ASSUME NEW t \in 0 .. n
        PROVE  f[t] = IF t = 0 THEN start ELSE Turn(key, f[t - 1])
    <3>1. CASE t = 0
      BY <2>1, <3>1
    <3>2. CASE t # 0
      <4>1. t \in 1 .. n /\ t - 1 \in 0 .. n
        BY <1>1, <3>2
      <4>2. f[t] = step[<<t, f[t - 1]>>] /\ f[t - 1] \in Places
        BY <1>4, <2>1, <4>1 DEF Recurses
      <4> QED
        BY <1>3, <3>2, <4>1, <4>2
    <3> QED
      BY <3>1, <3>2
  <2> QED
    BY <2>1, <2>2, Zenon
<1> DEFINE Solves(g) == g = [t \in 0 .. n |-> IF t = 0 THEN start ELSE Turn(key, g[t - 1])]
           search == CHOOSE g : Solves(g)
           Good == {t \in Nat : t <= n => Narrowed(search[t], key, t)}
<1>6. Solves(search)
  BY <1>5
<1> HIDE DEF search
<1>7. 0 \in Good
  <2>1. search[0] = start
    BY <1>1, <1>6
  <2>2. Narrowed(start, key, 0)
    BY <1>1, <1>2 DEF Narrowed, start, n
  <2> QED
    BY <2>1, <2>2
<1>8. ASSUME NEW t \in Nat, t \in Good PROVE t + 1 \in Good
  <2> SUFFICES ASSUME t + 1 <= n PROVE Narrowed(search[t + 1], key, t + 1)
    OBVIOUS
  <2>1. t + 1 \in 0 .. n /\ t + 1 # 0 /\ (t + 1) - 1 = t /\ t \in 0 .. n - 1 /\ t <= n
    BY <1>1
  <2>2. search[t + 1] = Turn(key, search[t])
    BY <1>6, <2>1
  <2>3. Narrowed(search[t], key, t)
    BY <1>8, <2>1
  <2> QED
    BY <2>1, <2>2, <2>3, TurnNarrows DEF n
<1> HIDE DEF Good
<1>9. n \in Good
  BY <1>1, <1>7, <1>8, Induction
<1> DEFINE place == search[n]
<1>10. Narrowed(place, key, n)
  BY <1>1, <1>9 DEF Good
<1>11. FindIndex(key) = [found |-> place.found, index |-> place.lo]
  BY DEF FindIndex, search, start, n
<1> HIDE DEF place
<1>12. /\ place.lo \in 0 .. n /\ place.hi \in 0 .. n /\ place.found \in BOOLEAN
       /\ ~place.found => place.lo = place.hi
  BY <1>1, <1>10 DEF Narrowed, Places, n
<1>13. FindIndex(key).found = place.found /\ FindIndex(key).index = place.lo
  BY <1>11
<1>14. CASE place.found
  <2>1. place.lo \in 0 .. Len(entries) - 1 /\ entries[place.lo + 1].key = key
    BY <1>1, <1>10, <1>12, <1>14 DEF Narrowed, n
  <2> QED
    BY <1>12, <1>13, <1>14, <2>1 DEF IsPlaceOf
<1>15. CASE ~place.found
  BY <1>10, <1>12, <1>13, <1>15 DEF Narrowed, IsPlaceOf, n
<1> QED
  BY <1>12, <1>14, <1>15

-----------------------------------------------------------------------------
Ascend(seq) == \A i, j \in 1 .. Len(seq) : i < j => seq[i].key < seq[j].key

LEMMA KeysAscendIs == ASSUME MapTypeOK PROVE KeysAscend <=> Ascend(entries)
BY EntriesHaveKeys DEF KeysAscend, Ascend

(* An entry that goes in where its key belongs keeps the order.              *)
LEMMA InsertionAscends ==
  ASSUME MapInv, NEW key \in Keys, NEW entry \in Entry, entry.key = key,
         NEW k \in 0 .. Len(entries),
         \A i \in 1 .. k : entries[i].key < key,
         \A i \in k + 1 .. Len(entries) : entries[i].key > key,
         NEW new \in Seq(Entry), GoesIn(new, entries, k, entry)
  PROVE  Ascend(new)
<1> DEFINE n == Len(entries)
<1>1. /\ n \in Nat /\ key \in Int
      /\ \A i \in 1 .. n : entries[i].key \in Int
      /\ \A i, j \in 1 .. n : i < j => entries[i].key < entries[j].key
  BY EntriesHaveKeys, KeysAssumption DEF MapInv, KeysAscend
<1>2. /\ Len(new) = n + 1
      /\ \A i \in 1 .. k : new[i] = entries[i]
      /\ new[k + 1].key = key
      /\ \A i \in k + 2 .. n + 1 : new[i] = entries[i - 1]
  BY DEF GoesIn
<1> SUFFICES ASSUME NEW i \in 1 .. n + 1, NEW j \in 1 .. n + 1, i < j
             PROVE  new[i].key < new[j].key
  BY <1>2 DEF Ascend
<1> HIDE DEF n
<1>3. k \in 0 .. n /\ (\A h \in k + 1 .. n : entries[h].key > key)
  BY DEF n
<1>4. CASE j \in 1 .. k
  <2>1. i \in 1 .. k /\ i \in 1 .. n /\ j \in 1 .. n
    BY <1>1, <1>3, <1>4
  <2> QED
    BY <1>1, <1>2, <1>4, <2>1
<1>5. CASE j = k + 1
  <2>1. i \in 1 .. k
    BY <1>3, <1>5
  <2> QED
    BY <1>2, <1>5, <2>1
<1>6. CASE j \in k + 2 .. n + 1
  <2>1. /\ j - 1 \in k + 1 .. n /\ j - 1 \in 1 .. n
        /\ new[j] = entries[j - 1]
    BY <1>1, <1>2, <1>3, <1>6
  <2>2. CASE i \in 1 .. k
    <3>1. i \in 1 .. n /\ new[i] = entries[i] /\ i < j - 1
      BY <1>1, <1>2, <1>3, <1>6, <2>2
    <3> QED
      BY <1>1, <2>1, <3>1
  <2>3. CASE i = k + 1
    BY <1>1, <1>2, <1>3, <2>1, <2>3
  <2>4. CASE i \in k + 2 .. n + 1
    <3>1. i - 1 \in 1 .. n /\ new[i] = entries[i - 1] /\ i - 1 < j - 1
      BY <1>1, <1>2, <1>3, <2>4
    <3> QED
      BY <1>1, <2>1, <3>1
  <2> QED
    BY <1>3, <2>2, <2>3, <2>4
<1> QED
  BY <1>3, <1>4, <1>5, <1>6

LEMMA RemovalAscends ==
  ASSUME MapInv, NEW k \in 1 .. Len(entries), NEW new \in Seq(Entry), ComesOut(new, entries, k)
  PROVE  Ascend(new)
<1> DEFINE n == Len(entries)
           from(i) == IF i < k THEN i ELSE i + 1
<1>1. /\ n \in Nat /\ k \in 1 .. n
      /\ \A i, j \in 1 .. n : i < j => entries[i].key < entries[j].key
  BY EntriesHaveKeys DEF MapInv, KeysAscend
<1>2. /\ Len(new) = n - 1
      /\ \A i \in 1 .. k - 1 : new[i] = entries[i]
      /\ \A i \in k .. n - 1 : new[i] = entries[i + 1]
  BY DEF ComesOut
<1> SUFFICES ASSUME NEW i \in 1 .. n - 1, NEW j \in 1 .. n - 1, i < j
             PROVE  new[i].key < new[j].key
  BY <1>2 DEF Ascend
<1> HIDE DEF n
<1>3. /\ from(i) \in 1 .. n /\ from(j) \in 1 .. n /\ from(i) < from(j)
  BY <1>1
<1>4. ASSUME NEW h \in 1 .. n - 1 PROVE new[h] = entries[from(h)]
  BY <1>1, <1>2
<1> HIDE DEF from
<1> QED
  BY <1>1, <1>3, <1>4

LEMMA EmptyAscends == <<>> \in Seq(Entry) /\ Len(<<>>) = 0 /\ Ascend(<<>>)
BY EmptySeq DEF Ascend

-----------------------------------------------------------------------------
LEMMA MapInitInv == MapInit => MapInv
<1> SUFFICES ASSUME MapInit PROVE MapInv
  OBVIOUS
<1>1. mapCall \in MapCall
  BY DEF MapInit, MapCall
<1>2. MapTypeOK
  BY <1>1, EmptyAscends DEF MapInit, MapTypeOK
<1> QED
  BY <1>2, EmptyAscends, KeysAscendIs DEF MapInit, MapInv

(* Every call is recorded as one of those that map.h declares.               *)
LEMMA CallsAreMapCalls ==
  ASSUME MapInv, NEW starved \in BOOLEAN,
         \/ MapCalled("clear", <<>>, starved)
         \/ \E key \in Keys : \/ MapCalled("erase", <<key>>, starved)
                              \/ MapCalled("find", <<key>>, starved)
                              \/ \E v \in Values : MapCalled("insert", <<key, v>>, starved)
  PROVE  mapCall' \in MapCall
<1>1. (~mapCall.turn) \in BOOLEAN
  OBVIOUS
<1>2. CASE MapCalled("clear", <<>>, starved)
  BY <1>1, <1>2 DEF MapCalled, MapCall
<1>3. ASSUME NEW key \in Keys, NEW name \in {"erase", "find"},
             MapCalled(name, <<key>>, starved)
      PROVE  mapCall' \in MapCall
  BY <1>1, <1>3 DEF MapCalled, MapCall
<1>4. ASSUME NEW key \in Keys, NEW v \in Values, MapCalled("insert", <<key, v>>, starved)
      PROVE  mapCall' \in MapCall
  BY <1>1, <1>4 DEF MapCalled, MapCall
<1> QED
  BY <1>2, <1>3, <1>4

(* What every call leaves: an array in order, of the right type.             *)
LEMMA MapStaysInOrder ==
  ASSUME entries' \in Seq(Entry), Ascend(entries'),
         mapCapacity' \in Nat, Len(entries') <= mapCapacity',
         answer' \in Values \cup {NoValue} \cup BOOLEAN, mapCall' \in MapCall
  PROVE  MapInv'
<1>1. MapTypeOK'
  BY DEF MapTypeOK
<1>2. DOMAIN entries' = 1 .. Len(entries')
  BY LenProperties
<1> QED
  BY <1>1, <1>2 DEF MapInv, KeysAscend, Ascend

LEMMA MapUntouched ==
  ASSUME MapInv, UNCHANGED <<entries, mapCapacity>>,
         answer' \in Values \cup {NoValue} \cup BOOLEAN, mapCall' \in MapCall
  PROVE  MapInv'
BY DEF MapInv, MapTypeOK, KeysAscend

LEMMA InsertEntryInv ==
  ASSUME MapInv, NEW key \in Keys, NEW v \in Values, InsertEntry(key, v)
  PROVE  MapInv'
<1> DEFINE place == FindIndex(key)
           k == place.index
           entry == [key |-> key, data |-> v]
<1>1. key \in Int
  BY KeysAssumption
<1>2. ~place.found
  BY DEF InsertEntry, MayInsert
<1>3. /\ k \in 0 .. Len(entries)
      /\ \A i \in 1 .. k : entries[i].key < key
      /\ \A i \in k + 1 .. Len(entries) : entries[i].key > key
  BY <1>1, <1>2, SearchFindsPlace DEF IsPlaceOf
<1>4. entries' = InsertAt(entries, k + 1, entry)
  BY DEF InsertEntry
<1> HIDE DEF place, k
<1>5. entry \in Entry /\ entry.key = key
  BY DEF Entry
<1> HIDE DEF entry
<1>6. entries' \in Seq(Entry) /\ GoesIn(entries', entries, k, entry)
  BY <1>3, <1>4, <1>5, Inserted DEF MapInv, MapTypeOK
<1>7. Ascend(entries')
  BY <1>3, <1>5, <1>6, InsertionAscends
<1>8. mapCapacity' \in Nat /\ Len(entries') <= mapCapacity'
  <2>1. Len(entries) \in Nat /\ mapCapacity \in Nat /\ Len(entries) <= mapCapacity
    BY LenProperties DEF MapInv, MapTypeOK
  <2>2. Len(entries') = Len(entries) + 1
    BY <1>6 DEF GoesIn
  <2> QED
    BY <2>1, <2>2 DEF InsertEntry, Grown, NewMapCapacity
<1> QED
  BY <1>6, <1>7, <1>8, MapStaysInOrder, CallsAreMapCalls DEF InsertEntry

LEMMA MapEraseInv ==
  ASSUME MapInv, NEW key \in Keys, MapErase(key)
  PROVE  MapInv'
<1> DEFINE place == FindIndex(key)
           k == place.index + 1
<1>1. IsPlaceOf(key, place)
  BY SearchFindsPlace, KeysAssumption
<1>2. /\ entries' = IF place.found THEN RemoveAt(entries, k) ELSE entries
      /\ answer' = place.found /\ mapCapacity' = mapCapacity
      /\ mapCall' \in MapCall
  BY CallsAreMapCalls DEF MapErase
<1> HIDE DEF place
<1>3. CASE ~place.found
  BY <1>1, <1>2, <1>3, MapUntouched DEF IsPlaceOf
<1>4. CASE place.found
  <2>1. Len(entries) \in Nat /\ entries \in Seq(Entry) /\ mapCapacity \in Nat
        /\ Len(entries) <= mapCapacity
    BY LenProperties DEF MapInv, MapTypeOK
  <2>2. k \in 1 .. Len(entries)
    BY <1>1, <1>4, <2>1 DEF IsPlaceOf
  <2> HIDE DEF k
  <2>3. entries' \in Seq(Entry) /\ ComesOut(entries', entries, k)
    BY <1>2, <1>4, <2>1, <2>2, Removed
  <2>4. Ascend(entries')
    BY <2>2, <2>3, RemovalAscends
  <2>5. Len(entries') <= mapCapacity'
    BY <1>2, <2>1, <2>3, LenProperties DEF ComesOut
  <2> QED
    BY <1>2, <1>4, <2>1, <2>3, <2>4, <2>5, MapStaysInOrder
<1> QED
  BY <1>3, <1>4

LEMMA MapFindInv ==
  ASSUME MapInv, NEW key \in Keys, MapFind(key)
  PROVE  MapInv'
<1> DEFINE place == FindIndex(key)
<1>1. IsPlaceOf(key, place)
  BY SearchFindsPlace, KeysAssumption
<1>2. /\ answer' = IF place.found THEN entries[place.index + 1].data ELSE NoValue
      /\ UNCHANGED <<entries, mapCapacity>>
      /\ mapCall' \in MapCall
  BY CallsAreMapCalls DEF MapFind
<1> HIDE DEF place
<1>3. place.found => entries[place.index + 1].data \in Values
  <2> SUFFICES ASSUME place.found PROVE entries[place.index + 1].data \in Values
    OBVIOUS
  <2>1. place.index + 1 \in 1 .. Len(entries)
    BY <1>1, EntriesHaveKeys DEF IsPlaceOf, MapInv
  <2>2. entries[place.index + 1] \in Entry
    BY <2>1, EntriesHaveKeys DEF MapInv
  <2> QED
    BY <2>2 DEF Entry
<1> QED
  BY <1>1, <1>2, <1>3, MapUntouched DEF IsPlaceOf

LEMMA MapNextInv == MapInv /\ [MapNext]_mapVars => MapInv'
<1> SUFFICES ASSUME MapInv, [MapNext]_mapVars PROVE MapInv'
  OBVIOUS
<1>1. answer \in Values \cup {NoValue} \cup BOOLEAN /\ mapCall \in MapCall
  BY DEF MapInv, MapTypeOK
<1>2. CASE MapClear
  <2>1. entries' = <<>> /\ mapCapacity' = 0 /\ answer' = answer /\ mapCall' \in MapCall
    BY <1>2, CallsAreMapCalls DEF MapClear
  <2> QED
    BY <1>1, <2>1, EmptyAscends, MapStaysInOrder
<1>3. ASSUME NEW key \in Keys, NEW v \in Values, InsertRefused(key, v) \/ InsertFails(key, v)
      PROVE  MapInv'
  BY <1>3, MapUntouched, CallsAreMapCalls DEF InsertRefused, InsertFails
<1>4. ASSUME NEW key \in Keys, NEW v \in Values, InsertEntry(key, v)
      PROVE  MapInv'
  BY <1>4, InsertEntryInv
<1>5. ASSUME NEW key \in Keys, MapErase(key) PROVE MapInv'
  BY <1>5, MapEraseInv
<1>6. ASSUME NEW key \in Keys, MapFind(key) PROVE MapInv'
  BY <1>6, MapFindInv
<1>7. CASE UNCHANGED mapVars
  BY <1>1, <1>7, MapUntouched DEF mapVars
<1> QED
  BY <1>2, <1>3, <1>4, <1>5, <1>6, <1>7 DEF MapNext

LEMMA MapInvariant == MapSpec => []MapInv
BY MapInitInv, MapNextInv, PTL DEF MapSpec

(* The types of the map (map.c): the array is never used beyond what was     *)
(* allocated for it.                                                         *)
THEOREM MapTypeCorrect == MapSpec => []MapTypeOK
<1>1. MapInv => MapTypeOK
  BY DEF MapInv
<1> QED
  BY <1>1, MapInvariant, PTL

(* The keys ascend after every call (map_insert, map_erase), whatever the    *)
(* keys, so that the binary search of the next one is correct.               *)
THEOREM KeysAlwaysAscend == MapSpec => []KeysAscend
<1>1. MapInv => KeysAscend
  BY DEF MapInv
<1> QED
  BY <1>1, MapInvariant, PTL

-----------------------------------------------------------------------------
(* The refinement: the array seen as a function from keys to data.           *)
KeysOf(seq) == {seq[i].key : i \in 1 .. Len(seq)}

DictOf(seq) ==
  [k \in {e.key : e \in Range(seq)} |-> (CHOOSE e \in Range(seq) : e.key = k).data]

Dict == DictOf(entries)

LEMMA LookUp ==
  ASSUME NEW seq \in Seq(Entry), Ascend(seq)
  PROVE  /\ DictOf(seq) = [k \in KeysOf(seq) |-> DictOf(seq)[k]]
         /\ \A i \in 1 .. Len(seq) : DictOf(seq)[seq[i].key] = seq[i].data
<1>1. /\ Len(seq) \in Nat /\ DOMAIN seq = 1 .. Len(seq)
      /\ \A i \in 1 .. Len(seq) : seq[i].key \in Int
  <2>1. Len(seq) \in Nat /\ DOMAIN seq = 1 .. Len(seq)
    BY LenProperties
  <2>2. \A i \in 1 .. Len(seq) : seq[i] \in Entry
    BY ElementOfSeq
  <2> QED
    BY <2>1, <2>2, KeysAssumption DEF Entry
<1>2. Range(seq) = {seq[i] : i \in 1 .. Len(seq)}
  BY <1>1 DEF Range
<1>3. {e.key : e \in Range(seq)} = KeysOf(seq)
  BY <1>2 DEF KeysOf
<1>4. DictOf(seq) = [k \in KeysOf(seq) |-> (CHOOSE e \in Range(seq) : e.key = k).data]
  BY <1>3 DEF DictOf
<1>5. ASSUME NEW i \in 1 .. Len(seq)
      PROVE  DictOf(seq)[seq[i].key] = seq[i].data
  <2> DEFINE found == CHOOSE e \in Range(seq) : e.key = seq[i].key
  <2>1. seq[i].key \in KeysOf(seq) /\ seq[i] \in Range(seq)
    BY <1>2 DEF KeysOf
  <2>2. DictOf(seq)[seq[i].key] = found.data
    BY <1>4, <2>1
  <2>3. found \in Range(seq) /\ found.key = seq[i].key
    BY <2>1
  <2> HIDE DEF found
  <2>4. PICK j \in 1 .. Len(seq) : found = seq[j]
    BY <1>2, <2>3
  <2>5. j = i
    BY <1>1, <2>3, <2>4 DEF Ascend
  <2> QED
    BY <2>2, <2>4, <2>5
<1> QED
  BY <1>4, <1>5

(* There is no other function that gives each key its data.                  *)
LEMMA OnlyDict ==
  ASSUME NEW seq \in Seq(Entry), Ascend(seq), NEW f,
         f = [k \in KeysOf(seq) |-> f[k]],
         \A i \in 1 .. Len(seq) : f[seq[i].key] = seq[i].data
  PROVE  f = DictOf(seq)
<1>1. ASSUME NEW k \in KeysOf(seq) PROVE f[k] = DictOf(seq)[k]
  <2>1. PICK i \in 1 .. Len(seq) : k = seq[i].key
    BY DEF KeysOf
  <2> QED
    BY <2>1, LookUp
<1>2. DictOf(seq) = [k \in KeysOf(seq) |-> DictOf(seq)[k]]
  BY LookUp
<1>3. DictOf(seq) = [k \in KeysOf(seq) |-> f[k]]
  BY <1>1, <1>2
<1> QED
  BY <1>3

LEMMA DictProperties ==
  ASSUME MapInv
  PROVE  /\ DOMAIN Dict = KeysOf(entries)
         /\ Dict = [k \in KeysOf(entries) |-> Dict[k]]
         /\ \A i \in 1 .. Len(entries) :
              entries[i].key \in DOMAIN Dict /\ Dict[entries[i].key] = entries[i].data
<1>1. entries \in Seq(Entry) /\ Ascend(entries)
  BY KeysAscendIs DEF MapInv, MapTypeOK
<1>2. Dict = [k \in KeysOf(entries) |-> Dict[k]]
  BY <1>1, LookUp DEF Dict
<1>3. \A i \in 1 .. Len(entries) : Dict[entries[i].key] = entries[i].data
  BY <1>1, LookUp DEF Dict
<1>4. DOMAIN Dict = KeysOf(entries)
  BY <1>2
<1> QED
  BY <1>2, <1>3, <1>4 DEF KeysOf

(* The search finds the keys of the dictionary and no others.                *)
LEMMA SearchIsMembership ==
  ASSUME MapInv, NEW key \in Int
  PROVE  FindIndex(key).found <=> key \in DOMAIN Dict
<1> DEFINE place == FindIndex(key)
<1>1. IsPlaceOf(key, place)
  BY SearchFindsPlace
<1> HIDE DEF place
<1>2. Len(entries) \in Nat /\ \A i \in 1 .. Len(entries) : entries[i].key \in Int
  BY EntriesHaveKeys DEF MapInv
<1>3. DOMAIN Dict = KeysOf(entries)
  BY DictProperties
<1>4. ASSUME place.found PROVE key \in KeysOf(entries)
  <2>1. place.index + 1 \in 1 .. Len(entries) /\ entries[place.index + 1].key = key
    BY <1>1, <1>2, <1>4 DEF IsPlaceOf
  <2> QED
    BY <2>1 DEF KeysOf
<1>5. ASSUME ~place.found, key \in KeysOf(entries) PROVE FALSE
  <2>1. PICK i \in 1 .. Len(entries) : entries[i].key = key
    BY <1>5 DEF KeysOf
  <2>2. i \in 1 .. place.index \/ i \in place.index + 1 .. Len(entries)
    BY <1>1, <1>2, <1>5 DEF IsPlaceOf
  <2>3. entries[i].key < key \/ entries[i].key > key
    BY <1>1, <1>5, <2>2 DEF IsPlaceOf
  <2> QED
    BY <1>2, <2>1, <2>3
<1>6. place.found \in BOOLEAN
  BY <1>1 DEF IsPlaceOf
<1> QED
  BY <1>3, <1>4, <1>5, <1>6 DEF place

LEMMA InsertionInserts ==
  ASSUME MapInv, MapInv', NEW key \in Keys, NEW v \in Values, InsertEntry(key, v)
  PROVE  /\ key \notin DOMAIN Dict
         /\ Dict' = [j \in DOMAIN Dict \cup {key} |-> IF j = key THEN v ELSE Dict[j]]
<1> DEFINE place == FindIndex(key)
           k == place.index
           entry == [key |-> key, data |-> v]
           n == Len(entries)
           f == [j \in DOMAIN Dict \cup {key} |-> IF j = key THEN v ELSE Dict[j]]
<1>1. key \in Int /\ n \in Nat
  BY KeysAssumption, EntriesHaveKeys DEF MapInv
<1>2. ~place.found
  BY DEF InsertEntry, MayInsert
<1>3. key \notin DOMAIN Dict
  BY <1>1, <1>2, SearchIsMembership
<1>4. k \in 0 .. n
  BY <1>1, <1>2, SearchFindsPlace DEF IsPlaceOf
<1>5. entries' = InsertAt(entries, k + 1, entry)
  BY DEF InsertEntry
<1>6. entry \in Entry /\ entry.key = key /\ entry.data = v
  BY DEF Entry
<1> HIDE DEF place, k, entry
<1>7. GoesIn(entries', entries, k, entry)
  BY <1>4, <1>5, <1>6, Inserted DEF MapInv, MapTypeOK
<1>8. entries' \in Seq(Entry) /\ Ascend(entries')
  <2>1. MapTypeOK' /\ KeysAscend'
    BY DEF MapInv
  <2>2. DOMAIN entries' = 1 .. Len(entries')
    BY <2>1, LenProperties DEF MapTypeOK
  <2> QED
    BY <2>1, <2>2 DEF MapTypeOK, KeysAscend, Ascend
<1>9. /\ Len(entries') = n + 1
      /\ \A i \in 1 .. k : entries'[i] = entries[i]
      /\ entries'[k + 1] = entry
      /\ \A i \in k + 2 .. n + 1 : entries'[i] = entries[i - 1]
  BY <1>7 DEF GoesIn
<1>10. /\ DOMAIN Dict = KeysOf(entries)
       /\ \A i \in 1 .. n :
            entries[i].key \in DOMAIN Dict /\ Dict[entries[i].key] = entries[i].data
  BY DictProperties
<1> HIDE DEF n
<1>11. \A i \in 1 .. n + 1 :
         \/ i = k + 1 /\ entries'[i] = entry
         \/ \E h \in 1 .. n : entries'[i] = entries[h]
  <2> SUFFICES ASSUME NEW i \in 1 .. n + 1, i # k + 1
               PROVE  \E h \in 1 .. n : entries'[i] = entries[h]
    BY <1>9
  <2>1. CASE i \in 1 .. k
    <3>1. i \in 1 .. n
      BY <1>1, <1>4, <2>1
    <3> QED
      BY <1>9, <2>1, <3>1
  <2>2. CASE i \in k + 2 .. n + 1
    <3>1. i - 1 \in 1 .. n
      BY <1>1, <1>4, <2>2
    <3> QED
      BY <1>9, <2>2, <3>1
  <2> QED
    BY <1>1, <1>4, <2>1, <2>2
<1>12. \A h \in 1 .. n : \E i \in 1 .. n + 1 : entries'[i] = entries[h]
  <2> SUFFICES ASSUME NEW h \in 1 .. n PROVE \E i \in 1 .. n + 1 : entries'[i] = entries[h]
    OBVIOUS
  <2>1. CASE h <= k
    <3>1. h \in 1 .. k /\ h \in 1 .. n + 1
      BY <1>1, <1>4, <2>1
    <3> QED
      BY <1>9, <3>1
  <2>2. CASE h > k
    <3>1. h + 1 \in k + 2 .. n + 1 /\ h + 1 \in 1 .. n + 1 /\ (h + 1) - 1 = h
      BY <1>1, <1>4, <2>2
    <3> QED
      BY <1>9, <3>1
  <2> QED
    BY <1>4, <2>1, <2>2
<1>13. KeysOf(entries') = DOMAIN Dict \cup {key}
  <2>1. k + 1 \in 1 .. n + 1
    BY <1>1, <1>4
  <2>2. KeysOf(entries') = {entries'[i].key : i \in 1 .. n + 1}
    BY <1>9 DEF KeysOf
  <2>3. KeysOf(entries) = {entries[i].key : i \in 1 .. n}
    BY DEF KeysOf, n
  <2>4. ASSUME NEW x, x \in KeysOf(entries') PROVE x \in DOMAIN Dict \cup {key}
    <3>1. PICK i \in 1 .. n + 1 : x = entries'[i].key
      BY <2>2, <2>4
    <3> QED
      BY <1>6, <1>10, <1>11, <3>1
  <2>5. ASSUME NEW x, x \in DOMAIN Dict PROVE x \in KeysOf(entries')
    <3>1. PICK h \in 1 .. n : x = entries[h].key
      BY <1>10, <2>3, <2>5
    <3>2. PICK i \in 1 .. n + 1 : entries'[i] = entries[h]
      BY <1>12
    <3> QED
      BY <2>2, <3>1, <3>2
  <2>6. key \in KeysOf(entries')
    BY <1>6, <1>9, <2>1, <2>2
  <2> QED
    BY <2>4, <2>5, <2>6
<1>14. f = [j \in KeysOf(entries') |-> f[j]]
  BY <1>13
<1>15. ASSUME NEW i \in 1 .. Len(entries') PROVE f[entries'[i].key] = entries'[i].data
  <2>1. i \in 1 .. n + 1
    BY <1>9
  <2>2. CASE i = k + 1
    BY <1>6, <1>9, <2>2
  <2>3. CASE i # k + 1
    <3>1. PICK h \in 1 .. n : entries'[i] = entries[h]
      BY <1>11, <2>1, <2>3
    <3>2. entries[h].key # key
      BY <1>3, <1>10
    <3> QED
      BY <1>10, <3>1, <3>2
  <2> QED
    BY <2>2, <2>3
<1> HIDE DEF f
<1>16. f = DictOf(entries')
  BY <1>8, <1>14, <1>15, OnlyDict
<1> QED
  BY <1>3, <1>16 DEF f, Dict

LEMMA RemovalErases ==
  ASSUME MapInv, MapInv', NEW key \in Keys, MapErase(key)
  PROVE  /\ Dict' = [j \in DOMAIN Dict \ {key} |-> Dict[j]]
         /\ answer' = (key \in DOMAIN Dict)
<1> DEFINE place == FindIndex(key)
           k == place.index + 1
           n == Len(entries)
           f == [j \in DOMAIN Dict \ {key} |-> Dict[j]]
<1>1. key \in Int /\ n \in Nat
  BY KeysAssumption, EntriesHaveKeys DEF MapInv
<1>2. place.found <=> key \in DOMAIN Dict
  BY <1>1, SearchIsMembership
<1>3. IsPlaceOf(key, place)
  BY <1>1, SearchFindsPlace
<1>4. /\ entries' = IF place.found THEN RemoveAt(entries, k) ELSE entries
      /\ answer' = place.found
  BY DEF MapErase
<1> HIDE DEF place
<1>5. answer' = (key \in DOMAIN Dict)
  <2>1. CASE place.found = TRUE
    <3>1. (key \in DOMAIN Dict) = TRUE
      BY <1>2, <2>1
    <3> QED
      BY <1>4, <2>1, <3>1
  <2>2. CASE place.found = FALSE
    <3>1. (key \in DOMAIN Dict) = FALSE
      BY <1>2, <2>2
    <3> QED
      BY <1>4, <2>2, <3>1
  <2> QED
    BY <1>3, <2>1, <2>2 DEF IsPlaceOf
<1>6. CASE ~place.found
  <2>1. Dict' = Dict /\ DOMAIN Dict \ {key} = DOMAIN Dict
    BY <1>2, <1>4, <1>6 DEF Dict
  <2>2. DOMAIN Dict = KeysOf(entries) /\ Dict = [j \in KeysOf(entries) |-> Dict[j]]
    BY DictProperties
  <2>3. f = Dict
    BY <2>1, <2>2
  <2> QED
    BY <1>5, <2>1, <2>3
<1>7. CASE place.found
  <2>1. k \in 1 .. n /\ entries[k].key = key
    BY <1>1, <1>3, <1>7 DEF IsPlaceOf
  <2> HIDE DEF k
  <2>2. ComesOut(entries', entries, k)
    BY <1>4, <1>7, <2>1, Removed DEF MapInv, MapTypeOK
  <2>3. entries' \in Seq(Entry) /\ Ascend(entries')
    <3>1. MapTypeOK' /\ KeysAscend'
      BY DEF MapInv
    <3>2. DOMAIN entries' = 1 .. Len(entries')
      BY <3>1, LenProperties DEF MapTypeOK
    <3> QED
      BY <3>1, <3>2 DEF MapTypeOK, KeysAscend, Ascend
  <2>4. /\ Len(entries') = n - 1
        /\ \A i \in 1 .. k - 1 : entries'[i] = entries[i]
        /\ \A i \in k .. n - 1 : entries'[i] = entries[i + 1]
    BY <2>2 DEF ComesOut
  <2>5. /\ DOMAIN Dict = KeysOf(entries)
        /\ \A i \in 1 .. n :
             entries[i].key \in DOMAIN Dict /\ Dict[entries[i].key] = entries[i].data
    BY DictProperties
  <2>6. \A i, j \in 1 .. n : i # j => entries[i].key # entries[j].key
    BY EntriesHaveKeys DEF MapInv, KeysAscend
  <2>7. KeysOf(entries) = {entries[i].key : i \in 1 .. n}
    BY DEF KeysOf
  <2> HIDE DEF n
  <2>8. \A i \in 1 .. n - 1 : \E h \in 1 .. n : h # k /\ entries'[i] = entries[h]
    <3> SUFFICES ASSUME NEW i \in 1 .. n - 1
                 PROVE  \E h \in 1 .. n : h # k /\ entries'[i] = entries[h]
      OBVIOUS
    <3>1. CASE i < k
      <4>1. i \in 1 .. k - 1 /\ i \in 1 .. n /\ i # k
        BY <1>1, <2>1, <3>1
      <4> QED
        BY <2>4, <4>1
    <3>2. CASE i >= k
      <4>1. i \in k .. n - 1 /\ i + 1 \in 1 .. n /\ i + 1 # k
        BY <1>1, <2>1, <3>2
      <4> QED
        BY <2>4, <4>1
    <3> QED
      BY <2>1, <3>1, <3>2
  <2>9. \A h \in 1 .. n : h # k => \E i \in 1 .. n - 1 : entries'[i] = entries[h]
    <3> SUFFICES ASSUME NEW h \in 1 .. n, h # k
                 PROVE  \E i \in 1 .. n - 1 : entries'[i] = entries[h]
      OBVIOUS
    <3>1. CASE h < k
      <4>1. h \in 1 .. k - 1 /\ h \in 1 .. n - 1
        BY <1>1, <2>1, <3>1
      <4> QED
        BY <2>4, <4>1
    <3>2. CASE h > k
      <4>1. h - 1 \in k .. n - 1 /\ h - 1 \in 1 .. n - 1 /\ (h - 1) + 1 = h
        BY <1>1, <2>1, <3>2
      <4> QED
        BY <2>4, <4>1
    <3> QED
      BY <2>1, <3>1, <3>2
  <2>10. KeysOf(entries') = DOMAIN Dict \ {key}
    <3>1. KeysOf(entries') = {entries'[i].key : i \in 1 .. n - 1}
      BY <2>4 DEF KeysOf
    <3>2. ASSUME NEW x, x \in KeysOf(entries') PROVE x \in DOMAIN Dict \ {key}
      <4>1. PICK i \in 1 .. n - 1 : x = entries'[i].key
        BY <3>1, <3>2
      <4>2. PICK h \in 1 .. n : h # k /\ entries'[i] = entries[h]
        BY <2>8
      <4> QED
        BY <2>1, <2>5, <2>6, <4>1, <4>2
    <3>3. ASSUME NEW x, x \in DOMAIN Dict \ {key} PROVE x \in KeysOf(entries')
      <4>1. PICK h \in 1 .. n : x = entries[h].key
        BY <2>5, <2>7, <3>3
      <4>2. PICK i \in 1 .. n - 1 : entries'[i] = entries[h]
        BY <2>1, <2>9, <3>3, <4>1
      <4> QED
        BY <3>1, <4>1, <4>2
    <3> QED
      BY <3>2, <3>3
  <2>11. f = [j \in KeysOf(entries') |-> f[j]]
    BY <2>10
  <2>12. ASSUME NEW i \in 1 .. Len(entries') PROVE f[entries'[i].key] = entries'[i].data
    <3>1. i \in 1 .. n - 1
      BY <2>4
    <3>2. PICK h \in 1 .. n : h # k /\ entries'[i] = entries[h]
      BY <2>8, <3>1
    <3>3. entries[h].key # key
      BY <2>1, <2>6, <3>2
    <3> QED
      BY <2>5, <3>2, <3>3
  <2> HIDE DEF f
  <2>13. f = DictOf(entries')
    BY <2>3, <2>11, <2>12, OnlyDict
  <2> QED
    BY <1>5, <2>13 DEF f, Dict
<1> QED
  BY <1>3, <1>6, <1>7 DEF IsPlaceOf

LEMMA MapFindFinds ==
  ASSUME MapInv, NEW key \in Keys, MapFind(key)
  PROVE  /\ answer' = IF key \in DOMAIN Dict THEN Dict[key] ELSE NoValue
         /\ Dict' = Dict
<1> DEFINE place == FindIndex(key)
<1>1. /\ key \in Int
      /\ place.found <=> key \in DOMAIN Dict
      /\ IsPlaceOf(key, place)
  BY KeysAssumption, SearchIsMembership, SearchFindsPlace
<1>2. /\ answer' = IF place.found THEN entries[place.index + 1].data ELSE NoValue
      /\ entries' = entries
  BY DEF MapFind
<1> HIDE DEF place
<1>3. place.found => Dict[key] = entries[place.index + 1].data
  <2> SUFFICES ASSUME place.found PROVE Dict[key] = entries[place.index + 1].data
    OBVIOUS
  <2>1. place.index + 1 \in 1 .. Len(entries) /\ entries[place.index + 1].key = key
    BY <1>1, EntriesHaveKeys DEF IsPlaceOf, MapInv
  <2> QED
    BY <2>1, DictProperties
<1> QED
  BY <1>1, <1>2, <1>3 DEF Dict

LEMMA EmptyDict ==
  /\ DictOf(<<>>) = [j \in {} |-> NoValue]
  /\ \A f : [j \in {} |-> f[j]] = [j \in {} |-> NoValue]
<1>1. Range(<<>>) = {}
  BY DEF Range
<1> QED
  BY <1>1 DEF DictOf

-----------------------------------------------------------------------------
LEMMA MapInitRefines == MapInit => AsDictionary!DictionaryInit
<1> SUFFICES ASSUME MapInit PROVE AsDictionary!DictionaryInit
  OBVIOUS
<1>1. entries = <<>> /\ answer = TRUE /\ mapCall.name = "create"
  BY DEF MapInit
<1>2. Dict = [j \in {} |-> NoValue]
  BY <1>1, EmptyDict DEF Dict
<1> QED
  BY <1>1, <1>2 DEF AsDictionary!DictionaryInit, Dict, DictOf

LEMMA MapNextRefines ==
  MapInv /\ MapInv' /\ [MapNext]_mapVars =>
    AsDictionary!DictionaryNext \/ UNCHANGED <<Dict, mapCall, answer>>
<1> SUFFICES ASSUME MapInv, MapInv', [MapNext]_mapVars
             PROVE  AsDictionary!DictionaryNext \/ UNCHANGED <<Dict, mapCall, answer>>
  OBVIOUS
<1> USE DEF AsDictionary!Called, MapCalled
<1>1. CASE MapClear
  <2>1. entries' = <<>> /\ answer' = answer
    BY <1>1 DEF MapClear
  <2>2. Dict' = [j \in {} |-> Dict[j]]
    BY <2>1, EmptyDict DEF Dict
  <2>3. AsDictionary!Called("clear", <<>>, FALSE)
    BY <1>1 DEF MapClear
  <2>4. AsDictionary!Clear
    BY <2>1, <2>2, <2>3
    DEF AsDictionary!Clear, AsDictionary!Restrict, Restrict, Dict, DictOf
  <2> QED
    BY <2>4 DEF AsDictionary!DictionaryNext
<1>2. ASSUME NEW key \in Keys, NEW v \in Values, InsertRefused(key, v)
      PROVE  AsDictionary!DictionaryNext
  <2>1. key \in DOMAIN Dict
    BY <1>2, SearchIsMembership, KeysAssumption DEF InsertRefused, MayInsert
  <2>2. Dict' = Dict /\ answer' = FALSE
    BY <1>2 DEF InsertRefused, Dict
  <2>3. Dict' = [j \in DOMAIN Dict \cup {key} |-> IF j \in DOMAIN Dict THEN Dict[j] ELSE v]
    <3>1. DOMAIN Dict \cup {key} = DOMAIN Dict /\ Dict = [j \in DOMAIN Dict |-> Dict[j]]
      BY <2>1, DictProperties
    <3> QED
      BY <2>2, <3>1, Zenon
  <2>4. answer' = (key \notin DOMAIN Dict)
    <3>1. (key \notin DOMAIN Dict) = FALSE
      BY <2>1
    <3> QED
      BY <2>2, <3>1
  <2>5. AsDictionary!Called("insert", <<key, v>>, FALSE)
    BY <1>2 DEF InsertRefused
  <2>6. AsDictionary!Insert(key, v)
    BY <2>3, <2>4, <2>5 DEF AsDictionary!Insert, Dict, DictOf
  <2> QED
    BY <2>6 DEF AsDictionary!DictionaryNext
<1>3. ASSUME NEW key \in Keys, NEW v \in Values, InsertFails(key, v)
      PROVE  AsDictionary!DictionaryNext
  <2>1. AsDictionary!StarvedInsert(key, v)
    BY <1>3 DEF InsertFails, AsDictionary!StarvedInsert, Dict
  <2> QED
    BY <2>1 DEF AsDictionary!DictionaryNext
<1>4. ASSUME NEW key \in Keys, NEW v \in Values, InsertEntry(key, v)
      PROVE  AsDictionary!DictionaryNext
  <2>1. /\ key \notin DOMAIN Dict
        /\ Dict' = [j \in DOMAIN Dict \cup {key} |-> IF j = key THEN v ELSE Dict[j]]
    BY <1>4, InsertionInserts
  <2>2. Dict' = [j \in DOMAIN Dict \cup {key} |-> IF j \in DOMAIN Dict THEN Dict[j] ELSE v]
    <3>1. ASSUME NEW j \in DOMAIN Dict \cup {key}
          PROVE  (IF j = key THEN v ELSE Dict[j])
                   = (IF j \in DOMAIN Dict THEN Dict[j] ELSE v)
      BY <2>1
    <3> QED
      BY <2>1, <3>1
  <2>3. answer' = (key \notin DOMAIN Dict)
    <3>1. (key \notin DOMAIN Dict) = TRUE
      BY <2>1
    <3> QED
      BY <1>4, <3>1 DEF InsertEntry
  <2>4. AsDictionary!Called("insert", <<key, v>>, FALSE)
    BY <1>4 DEF InsertEntry
  <2>5. AsDictionary!Insert(key, v)
    BY <2>2, <2>3, <2>4 DEF AsDictionary!Insert, Dict, DictOf
  <2> QED
    BY <2>5 DEF AsDictionary!DictionaryNext
<1>5. ASSUME NEW key \in Keys, MapErase(key) PROVE AsDictionary!DictionaryNext
  <2>1. /\ Dict' = [j \in DOMAIN Dict \ {key} |-> Dict[j]]
        /\ answer' = (key \in DOMAIN Dict)
    BY <1>5, RemovalErases
  <2>2. AsDictionary!Called("erase", <<key>>, FALSE)
    BY <1>5 DEF MapErase
  <2>3. AsDictionary!Erase(key)
    BY <2>1, <2>2 DEF AsDictionary!Erase, AsDictionary!Restrict, Restrict, Dict, DictOf
  <2> QED
    BY <2>3 DEF AsDictionary!DictionaryNext
<1>6. ASSUME NEW key \in Keys, MapFind(key) PROVE AsDictionary!DictionaryNext
  <2>1. /\ answer' = IF key \in DOMAIN Dict THEN Dict[key] ELSE NoValue
        /\ Dict' = Dict
    BY <1>6, MapFindFinds
  <2>2. AsDictionary!Called("find", <<key>>, FALSE)
    BY <1>6 DEF MapFind
  <2>3. AsDictionary!Find(key)
    BY <2>1, <2>2 DEF AsDictionary!Find, Dict, DictOf
  <2> QED
    BY <2>3 DEF AsDictionary!DictionaryNext
<1>7. CASE UNCHANGED mapVars
  BY <1>7 DEF mapVars, Dict
<1> QED
  BY <1>1, <1>2, <1>3, <1>4, <1>5, <1>6, <1>7 DEF MapNext

(* To a caller the map is a partial function (map.h): each call answers for  *)
(* the key it was given and does to the sorted array what it promises to do  *)
(* to that function, for any keys and any number of entries; an insertion    *)
(* fails only for a key that is there or for want of memory.                 *)
THEOREM MapImplementsDictionary == MapSpec => ImplementsDictionary
<1>1. MapInv /\ MapInv' /\ [MapNext]_mapVars =>
        [AsDictionary!DictionaryNext]_<<Dict, mapCall, answer>>
  BY MapNextRefines
<1>2. MapInit /\ [][MapNext]_mapVars /\ []MapInv =>
        AsDictionary!DictionaryInit /\ [][AsDictionary!DictionaryNext]_<<Dict, mapCall, answer>>
  BY <1>1, MapInitRefines, PTL
<1>3. ImplementsDictionary <=>
        AsDictionary!DictionaryInit /\ [][AsDictionary!DictionaryNext]_<<Dict, mapCall, answer>>
  BY DEF ImplementsDictionary, AsDictionary!DictionarySpec, Dict, DictOf
<1> QED
  BY <1>2, <1>3, MapInvariant DEF MapSpec

-----------------------------------------------------------------------------
(* The list.  A path is the cells of a list from the front to the back; what *)
(* is in front of the first and behind the last is left open.                *)
Path(p, n, heap) ==
  /\ n \in Nat
  /\ p \in [1 .. n -> Addresses]
  /\ \A i, j \in 1 .. n : p[i] = p[j] => i = j
  /\ \A i \in 1 .. n - 1 : heap[p[i]].next = p[i + 1] /\ heap[p[i + 1]].prev = p[i]

Reached(p, n) == {p[i] : i \in 1 .. n}

Datum == Data \cup {NoData}
Items(p, n, heap) == [i \in 1 .. n |-> heap[p[i]].data]

AreItems(seq, p, n, heap) ==
  /\ seq \in Seq(Datum) /\ Len(seq) = n
  /\ \A i \in 1 .. n : seq[i] = heap[p[i]].data

LEMMA ItemsIsSeq ==
  ASSUME NEW n, NEW heap \in [Addresses -> Cell], NEW p, Path(p, n, heap)
  PROVE  AreItems(Items(p, n, heap), p, n, heap)
<1>1. \A i \in 1 .. n : heap[p[i]] \in Cell
  BY DEF Path
<1>2. Items(p, n, heap) \in [1 .. n -> Datum]
  BY <1>1 DEF Items, Datum, Cell
<1>3. Items(p, n, heap) \in Seq(Datum) /\ Len(Items(p, n, heap)) = n
  BY <1>2, FunctionIsSeq DEF Path
<1> QED
  BY <1>3 DEF AreItems, Items

(* Whoever follows the next links walks the path.                            *)
LEMMA LinksLeadAlong ==
  ASSUME NEW n, NEW heap, NEW p, Path(p, n, heap), NEW first, n > 0 => first = p[1]
  PROVE  ItemsFrom(first, n, heap) = Items(p, n, heap)
<1> DEFINE Solves(g) ==
             g = [i \in 1 .. n |-> IF i = 1 THEN first ELSE heap[g[i - 1]].next]
           chain == CHOOSE g : Solves(g)
           Good == {i \in Nat : i + 1 <= n => chain[i + 1] = p[i + 1]}
<1>1. n \in Nat
  BY DEF Path
<1>2. Solves(p)
  <2>1. p = [i \in 1 .. n |-> p[i]]
    BY DEF Path
  <2>2. ASSUME NEW i \in 1 .. n
        PROVE  p[i] = IF i = 1 THEN first ELSE heap[p[i - 1]].next
    <3>1. CASE i = 1
      BY <1>1, <3>1
    <3>2. CASE i # 1
      <4>1. i - 1 \in 1 .. n - 1 /\ (i - 1) + 1 = i
        BY <1>1, <3>2
      <4> QED
        BY <3>2, <4>1 DEF Path
    <3> QED
      BY <3>1, <3>2
  <2> QED
    BY <2>1, <2>2, Zenon
<1>3. Solves(chain)
  BY <1>2
<1> HIDE DEF chain
<1>4. 0 \in Good
  BY <1>1, <1>2, <1>3
<1>5. ASSUME NEW i \in Nat, i \in Good PROVE i + 1 \in Good
  <2> SUFFICES ASSUME (i + 1) + 1 <= n PROVE chain[(i + 1) + 1] = p[(i + 1) + 1]
    OBVIOUS
  <2> DEFINE k == (i + 1) + 1
  <2>1. k \in 1 .. n /\ k # 1 /\ k - 1 = i + 1 /\ i + 1 <= n
    BY <1>1
  <2>2. chain[i + 1] = p[i + 1]
    BY <1>5, <2>1
  <2> HIDE DEF k
  <2>3. chain[k] = heap[chain[k - 1]].next /\ p[k] = heap[p[k - 1]].next
    BY <1>2, <1>3, <2>1
  <2>4. chain[k] = p[k]
    BY <2>1, <2>2, <2>3
  <2> QED
    BY <2>4 DEF k
<1> HIDE DEF Good
<1>6. Nat \subseteq Good
  BY <1>4, <1>5, Induction
<1>7. ASSUME NEW i \in 1 .. n PROVE chain[i] = p[i]
  <2>1. i - 1 \in Nat /\ (i - 1) + 1 = i /\ (i - 1) + 1 <= n
    BY <1>1
  <2>2. i - 1 \in Good
    BY <1>6, <2>1
  <2> QED
    BY <2>1, <2>2 DEF Good
<1>8. ItemsFrom(first, n, heap) = [i \in 1 .. n |-> heap[chain[i]].data]
  BY DEF ItemsFrom, chain
<1> QED
  BY <1>7, <1>8 DEF Items

(* A path has as many cells as it has positions.                             *)
LEMMA PathCounts ==
  ASSUME NEW n, NEW heap, NEW p, Path(p, n, heap)
  PROVE  Cardinality(Reached(p, n)) = n
<1>1. n \in Nat /\ IsFiniteSet(1 .. n) /\ Cardinality(1 .. n) = n
  BY FS_Interval DEF Path
<1>2. p \in Bijection(1 .. n, Reached(p, n))
  BY DEF Path, Reached, Bijection, Injection, Surjection, IsInjective
<1>3. ExistsBijection(1 .. n, Reached(p, n))
  BY <1>2 DEF ExistsBijection
<1> QED
  BY <1>1, <1>3, FS_Bijection

LEMMA EmptyPath ==
  ASSUME NEW heap
  PROVE  \E p : /\ Path(p, 0, heap) /\ Reached(p, 0) = {}
                /\ Items(p, 0, heap) = <<>>
<1> DEFINE p == [i \in 1 .. 0 |-> Null]
<1>1. Path(p, 0, heap) /\ Reached(p, 0) = {}
  BY DEF Path, Reached
<1>2. Items(p, 0, heap) = <<>>
  BY DEF Items
<1> QED
  BY <1>1, <1>2

-----------------------------------------------------------------------------
(* What the calls do to a path.                                              *)
Behind(heap, last, a, d) == [heap EXCEPT ![last].next = a, ![a] = NewCell(d, last, Null)]
InFrontOf(heap, first, a, d) == [heap EXCEPT ![first].prev = a, ![a] = NewCell(d, Null, first)]

LEMMA AppendedPath ==
  ASSUME NEW n \in Nat \ {0}, NEW heap \in [Addresses -> Cell], NEW p, Path(p, n, heap),
         NEW a \in Addresses, a \notin Reached(p, n), NEW d \in Datum, NEW new,
         new = Behind(heap, p[n], a, d)
  PROVE  \E q : /\ Path(q, n + 1, new)
                /\ q[1] = p[1] /\ q[n + 1] = a
                /\ Reached(q, n + 1) = Reached(p, n) \cup {a}
                /\ Items(q, n + 1, new) = Append(Items(p, n, heap), d)
<1> DEFINE q == [i \in 1 .. n + 1 |-> IF i = n + 1 THEN a ELSE p[i]]
<1>1. /\ p \in [1 .. n -> Addresses]
      /\ \A i, j \in 1 .. n : p[i] = p[j] => i = j
      /\ \A i \in 1 .. n - 1 : heap[p[i]].next = p[i + 1] /\ heap[p[i + 1]].prev = p[i]
      /\ \A i \in 1 .. n : p[i] # a
  BY DEF Path, Reached
<1>2. /\ q \in [1 .. n + 1 -> Addresses]
      /\ q[n + 1] = a
      /\ \A i \in 1 .. n : q[i] = p[i]
  BY <1>1
<1> HIDE DEF q
<1>3. /\ new \in [Addresses -> Cell]
      /\ new[a] = NewCell(d, p[n], Null)
      /\ new[p[n]] = [heap[p[n]] EXCEPT !.next = a]
      /\ \A b \in Addresses : b # a /\ b # p[n] => new[b] = heap[b]
  <2>1. p[n] \in Addresses /\ p[n] # a /\ heap[p[n]] \in Cell
    BY <1>1
  <2>2. NewCell(d, p[n], Null) \in Cell /\ [heap[p[n]] EXCEPT !.next = a] \in Cell
    BY <2>1 DEF NewCell, Cell, Link, Datum
  <2> QED
    BY <2>1, <2>2 DEF Behind
<1>4. /\ \A i \in 1 .. n : new[p[i]].data = heap[p[i]].data /\ new[p[i]].prev = heap[p[i]].prev
      /\ \A i \in 1 .. n - 1 : new[p[i]].next = heap[p[i]].next
      /\ new[p[n]].next = a /\ new[a].prev = p[n] /\ new[a].data = d
  <2>1. \A i \in 1 .. n : p[i] \in Addresses /\ p[i] # a /\ heap[p[i]] \in Cell
    BY <1>1
  <2>2. \A i \in 1 .. n - 1 : p[i] # p[n] /\ i \in 1 .. n
    BY <1>1
  <2>3. new[p[n]].next = a /\ new[p[n]].data = heap[p[n]].data /\ new[p[n]].prev = heap[p[n]].prev
    BY <1>3, <2>1 DEF Cell
  <2>4. \A i \in 1 .. n - 1 : new[p[i]] = heap[p[i]]
    BY <1>3, <2>1, <2>2
  <2>5. new[a].prev = p[n] /\ new[a].data = d
    BY <1>3 DEF NewCell
  <2>6. \A i \in 1 .. n : i = n \/ i \in 1 .. n - 1
    OBVIOUS
  <2> QED
    BY <2>3, <2>4, <2>5, <2>6
<1>5. Path(q, n + 1, new)
  <2>1. \A i, j \in 1 .. n + 1 : q[i] = q[j] => i = j
    BY <1>1, <1>2
  <2>2. ASSUME NEW i \in 1 .. (n + 1) - 1
        PROVE  new[q[i]].next = q[i + 1] /\ new[q[i + 1]].prev = q[i]
    <3>1. CASE i = n
      BY <1>2, <1>4, <3>1
    <3>2. CASE i # n
      <4>1. i \in 1 .. n - 1 /\ i \in 1 .. n /\ i + 1 \in 1 .. n
        BY <3>2
      <4> QED
        BY <1>1, <1>2, <1>4, <4>1
    <3> QED
      BY <3>1, <3>2
  <2> QED
    BY <1>2, <2>1, <2>2 DEF Path
<1>6. Reached(q, n + 1) = Reached(p, n) \cup {a}
  <2>1. \A i \in 1 .. n + 1 : i = n + 1 \/ i \in 1 .. n
    OBVIOUS
  <2>2. \A i \in 1 .. n : i \in 1 .. n + 1
    OBVIOUS
  <2>3. n + 1 \in 1 .. n + 1
    OBVIOUS
  <2> QED
    BY <1>2, <2>1, <2>2, <2>3 DEF Reached
<1>7. Items(q, n + 1, new) = Append(Items(p, n, heap), d)
  <2>1. /\ Items(p, n, heap) \in Seq(Datum) /\ Len(Items(p, n, heap)) = n
        /\ \A i \in 1 .. n : Items(p, n, heap)[i] = heap[p[i]].data
    <3>1. AreItems(Items(p, n, heap), p, n, heap)
      BY ItemsIsSeq
    <3> QED
      BY <3>1 DEF AreItems
  <2>2. /\ Items(q, n + 1, new) \in Seq(Datum) /\ Len(Items(q, n + 1, new)) = n + 1
        /\ \A i \in 1 .. n + 1 : Items(q, n + 1, new)[i] = new[q[i]].data
    <3>1. AreItems(Items(q, n + 1, new), q, n + 1, new)
      BY <1>3, <1>5, ItemsIsSeq
    <3> QED
      BY <3>1 DEF AreItems
  <2> DEFINE both == Append(Items(p, n, heap), d)
  <2>3. /\ both \in Seq(Datum) /\ Len(both) = n + 1
        /\ \A i \in 1 .. n : both[i] = Items(p, n, heap)[i]
        /\ both[n + 1] = d
    BY <2>1, AppendProperties
  <2> HIDE DEF both
  <2>4. ASSUME NEW i \in 1 .. n + 1 PROVE Items(q, n + 1, new)[i] = both[i]
    <3>1. CASE i = n + 1
      BY <1>2, <1>4, <2>2, <2>3, <3>1
    <3>2. CASE i # n + 1
      <4>1. i \in 1 .. n
        BY <3>2
      <4> QED
        BY <1>2, <1>4, <2>1, <2>2, <2>3, <4>1
    <3> QED
      BY <3>1, <3>2
  <2>5. Items(q, n + 1, new) = both
    BY <2>2, <2>3, <2>4, SeqEqual
  <2> QED
    BY <2>5 DEF both
<1>8. q[1] = p[1]
  BY <1>2
<1> QED
  BY <1>2, <1>5, <1>6, <1>7, <1>8

StartsWith(q, new, p, n, heap, a, d) ==
  /\ Path(q, n + 1, new)
  /\ q[1] = a /\ q[n + 1] = p[n]
  /\ Reached(q, n + 1) = Reached(p, n) \cup {a}
  /\ Items(q, n + 1, new) = <<d>> \o Items(p, n, heap)

LEMMA PrependedPath ==
  ASSUME NEW n \in Nat \ {0}, NEW heap \in [Addresses -> Cell], NEW p, Path(p, n, heap),
         NEW a \in Addresses, a \notin Reached(p, n), NEW d \in Datum, NEW new,
         new = InFrontOf(heap, p[1], a, d)
  PROVE  \E q : StartsWith(q, new, p, n, heap, a, d)
<1> DEFINE q == [i \in 1 .. n + 1 |-> IF i = 1 THEN a ELSE p[i - 1]]
<1>1. /\ p \in [1 .. n -> Addresses]
      /\ \A i, j \in 1 .. n : p[i] = p[j] => i = j
      /\ \A i \in 1 .. n - 1 : heap[p[i]].next = p[i + 1] /\ heap[p[i + 1]].prev = p[i]
      /\ \A i \in 1 .. n : p[i] # a
  BY DEF Path, Reached
<1>2. /\ q \in [1 .. n + 1 -> Addresses]
      /\ q[1] = a
      /\ \A i \in 1 .. n : q[i + 1] = p[i]
  <2>1. \A i \in 1 .. n + 1 : i # 1 => i - 1 \in 1 .. n
    OBVIOUS
  <2>2. q \in [1 .. n + 1 -> Addresses]
    BY <1>1, <2>1
  <2>3. \A i \in 1 .. n : i + 1 \in 1 .. n + 1 /\ i + 1 # 1 /\ (i + 1) - 1 = i
    OBVIOUS
  <2> QED
    BY <2>2, <2>3
<1> HIDE DEF q
<1>3. /\ new \in [Addresses -> Cell]
      /\ new[a] = NewCell(d, Null, p[1])
      /\ new[p[1]] = [heap[p[1]] EXCEPT !.prev = a]
      /\ \A b \in Addresses : b # a /\ b # p[1] => new[b] = heap[b]
  <2>1. p[1] \in Addresses /\ p[1] # a /\ heap[p[1]] \in Cell
    BY <1>1
  <2>2. NewCell(d, Null, p[1]) \in Cell /\ [heap[p[1]] EXCEPT !.prev = a] \in Cell
    BY <2>1 DEF NewCell, Cell, Link, Datum
  <2> QED
    BY <2>1, <2>2 DEF InFrontOf
<1>4. /\ \A i \in 1 .. n : new[p[i]].data = heap[p[i]].data /\ new[p[i]].next = heap[p[i]].next
      /\ \A i \in 2 .. n : new[p[i]].prev = heap[p[i]].prev
      /\ new[p[1]].prev = a /\ new[a].next = p[1] /\ new[a].data = d
  <2>1. \A i \in 1 .. n : p[i] \in Addresses /\ p[i] # a /\ heap[p[i]] \in Cell
    BY <1>1
  <2>2. \A i \in 2 .. n : p[i] # p[1] /\ i \in 1 .. n
    BY <1>1
  <2>3. new[p[1]].prev = a /\ new[p[1]].data = heap[p[1]].data /\ new[p[1]].next = heap[p[1]].next
    BY <1>3, <2>1 DEF Cell
  <2>4. \A i \in 2 .. n : new[p[i]] = heap[p[i]]
    BY <1>3, <2>1, <2>2
  <2>5. new[a].next = p[1] /\ new[a].data = d
    BY <1>3 DEF NewCell
  <2>6. \A i \in 1 .. n : i = 1 \/ i \in 2 .. n
    OBVIOUS
  <2> QED
    BY <2>3, <2>4, <2>5, <2>6
<1>5. Path(q, n + 1, new)
  <2>1. ASSUME NEW i \in 1 .. n + 1, NEW j \in 1 .. n + 1, q[i] = q[j] PROVE i = j
    <3> DEFINE h == i - 1
               k == j - 1
    <3>1. /\ i = 1 \/ (h \in 1 .. n /\ i = h + 1)
          /\ j = 1 \/ (k \in 1 .. n /\ j = k + 1)
      OBVIOUS
    <3> HIDE DEF h, k
    <3> QED
      BY <1>1, <1>2, <2>1, <3>1
  <2>2. ASSUME NEW i \in 1 .. (n + 1) - 1
        PROVE  new[q[i]].next = q[i + 1] /\ new[q[i + 1]].prev = q[i]
    <3>1. CASE i = 1
      BY <1>2, <1>4, <3>1
    <3>2. CASE i # 1
      <4> DEFINE h == i - 1
      <4>1. h \in 1 .. n - 1 /\ h \in 1 .. n /\ h + 1 \in 2 .. n /\ h + 1 \in 1 .. n /\ i = h + 1
        BY <3>2
      <4> HIDE DEF h
      <4>2. q[i] = p[h] /\ q[i + 1] = p[h + 1]
        BY <1>2, <4>1
      <4> QED
        BY <1>1, <1>4, <4>1, <4>2
    <3> QED
      BY <3>1, <3>2
  <2> QED
    BY <1>2, <2>1, <2>2 DEF Path
<1>6. Reached(q, n + 1) = Reached(p, n) \cup {a}
  <2>1. \A i \in 1 .. n + 1 : i = 1 \/ \E h \in 1 .. n : i = h + 1
    <3> SUFFICES ASSUME NEW i \in 1 .. n + 1, i # 1 PROVE \E h \in 1 .. n : i = h + 1
      OBVIOUS
    <3>1. i - 1 \in 1 .. n /\ i = (i - 1) + 1
      OBVIOUS
    <3> QED
      BY <3>1
  <2>2. \A i \in 1 .. n : i + 1 \in 1 .. n + 1
    OBVIOUS
  <2>3. 1 \in 1 .. n + 1
    OBVIOUS
  <2>4. ASSUME NEW x \in Reached(q, n + 1) PROVE x \in Reached(p, n) \cup {a}
    <3>1. PICK i \in 1 .. n + 1 : x = q[i]
      BY DEF Reached
    <3>2. CASE i = 1
      BY <1>2, <3>1, <3>2
    <3>3. CASE i # 1
      <4>1. PICK h \in 1 .. n : i = h + 1
        BY <2>1, <3>3
      <4> QED
        BY <1>2, <3>1, <4>1 DEF Reached
    <3> QED
      BY <3>2, <3>3
  <2>5. ASSUME NEW x \in Reached(p, n) PROVE x \in Reached(q, n + 1)
    <3>1. PICK i \in 1 .. n : x = q[i + 1]
      BY <1>2 DEF Reached
    <3> QED
      BY <2>2, <3>1 DEF Reached
  <2>6. a \in Reached(q, n + 1)
    BY <1>2, <2>3 DEF Reached
  <2> QED
    BY <2>4, <2>5, <2>6
<1>7. Items(q, n + 1, new) = <<d>> \o Items(p, n, heap)
  <2>1. /\ Items(p, n, heap) \in Seq(Datum) /\ Len(Items(p, n, heap)) = n
        /\ \A i \in 1 .. n : Items(p, n, heap)[i] = heap[p[i]].data
    <3>1. AreItems(Items(p, n, heap), p, n, heap)
      BY ItemsIsSeq
    <3> QED
      BY <3>1 DEF AreItems
  <2>2. /\ Items(q, n + 1, new) \in Seq(Datum) /\ Len(Items(q, n + 1, new)) = n + 1
        /\ \A i \in 1 .. n + 1 : Items(q, n + 1, new)[i] = new[q[i]].data
    <3>1. AreItems(Items(q, n + 1, new), q, n + 1, new)
      BY <1>3, <1>5, ItemsIsSeq
    <3> QED
      BY <3>1 DEF AreItems
  <2> DEFINE both == <<d>> \o Items(p, n, heap)
  <2>3. /\ both \in Seq(Datum) /\ Len(both) = n + 1
        /\ both[1] = d
        /\ \A i \in 1 .. n : both[i + 1] = Items(p, n, heap)[i]
    <3>1. <<d>> \in Seq(Datum) /\ Len(<<d>>) = 1 /\ <<d>>[1] = d
      OBVIOUS
    <3>2. both \in Seq(Datum) /\ Follows(both, <<d>>, Items(p, n, heap))
      BY <2>1, <3>1, Concatenated, ConcatProperties
    <3> HIDE DEF both
    <3>3. /\ Len(both) = 1 + n
          /\ \A i \in 1 .. 1 : both[i] = <<d>>[i]
          /\ \A i \in 1 .. n : both[1 + i] = Items(p, n, heap)[i]
      BY <2>1, <3>1, <3>2 DEF Follows
    <3> QED
      BY <3>1, <3>2, <3>3
  <2> HIDE DEF both
  <2>4. ASSUME NEW i \in 1 .. n + 1 PROVE Items(q, n + 1, new)[i] = both[i]
    <3>1. CASE i = 1
      BY <1>2, <1>4, <2>2, <2>3, <3>1
    <3>2. CASE i # 1
      <4> DEFINE h == i - 1
      <4>1. h \in 1 .. n /\ i = h + 1
        BY <3>2
      <4> HIDE DEF h
      <4>2. q[i] = p[h] /\ both[i] = Items(p, n, heap)[h]
        BY <1>2, <2>3, <4>1
      <4>3. new[q[i]].data = heap[p[h]].data
        BY <1>4, <4>1, <4>2
      <4> QED
        BY <2>1, <2>2, <4>1, <4>2, <4>3
    <3> QED
      BY <3>1, <3>2
  <2>5. Items(q, n + 1, new) = both
    BY <2>2, <2>3, <2>4, SeqEqual
  <2> QED
    BY <2>5 DEF both
<1>8. q[n + 1] = p[n]
  BY <1>2
<1> QED
  BY <1>2, <1>5, <1>6, <1>7, <1>8 DEF StartsWith

LEMMA OnlyCell ==
  ASSUME NEW a \in Addresses, NEW d \in Datum, NEW new, new[a] = NewCell(d, Null, Null)
  PROVE  \E q : /\ Path(q, 1, new)
                /\ q[1] = a
                /\ Reached(q, 1) = {a}
                /\ Items(q, 1, new) = <<d>>
<1> DEFINE q == [i \in 1 .. 1 |-> a]
<1>1. new[a].data = d
  BY DEF NewCell
<1>2. q[1] = a /\ q \in [1 .. 1 -> Addresses] /\ 1 .. 1 = {1}
  OBVIOUS
<1>3. Path(q, 1, new)
  <2>1. \A i, j \in 1 .. 1 : i = j
    OBVIOUS
  <2>2. \A i \in 1 .. 1 - 1 : FALSE
    OBVIOUS
  <2> HIDE DEF q
  <2> QED
    BY <1>2, <2>1, <2>2 DEF Path
<1>4. Reached(q, 1) = {a}
  BY <1>2 DEF Reached
<1>5. Items(q, 1, new) = <<d>>
  <2>1. Items(q, 1, new) = [i \in 1 .. 1 |-> d]
    BY <1>1 DEF Items
  <2> QED
    BY <2>1
<1> QED
  BY <1>2, <1>3, <1>4, <1>5

(* The cell at k comes out; its neighbours may have been linked, but nothing *)
(* else has changed.                                                         *)
Without(p, n, k) == [i \in 1 .. n - 1 |-> IF i < k THEN p[i] ELSE p[i + 1]]

LinkedAround(new, heap, p, n, k) ==
  /\ new \in [Addresses -> Cell]
  /\ \A i \in 1 .. n : i # k => new[p[i]].data = heap[p[i]].data
  /\ \A i \in 1 .. n - 1 :
       /\ i # k /\ i + 1 # k => new[p[i]].next = p[i + 1] /\ new[p[i + 1]].prev = p[i]
       /\ i + 1 = k /\ k < n => new[p[i]].next = p[k + 1] /\ new[p[k + 1]].prev = p[i]

(* A freed cell is forgotten, the others are left as they are.               *)
LEMMA Forgotten ==
  ASSUME NEW heap \in [Addresses -> Cell], NEW gone, NEW new, new = Forget(heap, gone)
  PROVE  /\ new \in [Addresses -> Cell]
         /\ \A b \in Addresses : b \notin gone => new[b] = heap[b]
<1>1. NewCell(NoData, Null, Null) \in Cell
  BY DEF NewCell, Cell, Link
<1> QED
  BY <1>1 DEF Forget

LEMMA ForgottenBesidePath ==
  ASSUME NEW n, NEW heap, NEW p, Path(p, n, heap), NEW k \in 1 .. n,
         NEW old, LinkedAround(old, heap, p, n, k), NEW new, new = Forget(old, {p[k]})
  PROVE  LinkedAround(new, heap, p, n, k)
<1>1. /\ n \in Nat
      /\ \A i \in 1 .. n : p[i] \in Addresses /\ (i # k => p[i] # p[k])
  BY DEF Path
<1>2. old \in [Addresses -> Cell]
  BY DEF LinkedAround
<1>3. new \in [Addresses -> Cell] /\ \A b \in Addresses : b # p[k] => new[b] = old[b]
  BY <1>2, Forgotten
<1>4. \A i \in 1 .. n : i # k => new[p[i]] = old[p[i]]
  BY <1>1, <1>3
<1>5. \A i \in 1 .. n : i # k => new[p[i]].data = heap[p[i]].data
  BY <1>4 DEF LinkedAround
<1>6. ASSUME NEW i \in 1 .. n - 1
      PROVE  /\ i # k /\ i + 1 # k => new[p[i]].next = p[i + 1] /\ new[p[i + 1]].prev = p[i]
             /\ i + 1 = k /\ k < n => new[p[i]].next = p[k + 1] /\ new[p[k + 1]].prev = p[i]
  <2>1. i \in 1 .. n /\ i + 1 \in 1 .. n /\ (k < n => k + 1 \in 1 .. n /\ k + 1 # k)
    BY <1>1
  <2>2. i + 1 = k => i # k
    BY <1>1
  <2> QED
    BY <1>4, <2>1, <2>2 DEF LinkedAround
<1> QED
  BY <1>3, <1>5, <1>6 DEF LinkedAround

LEMMA ShortenedPath ==
  ASSUME NEW n \in Nat \ {0}, NEW heap \in [Addresses -> Cell], NEW p, Path(p, n, heap),
         NEW k \in 1 .. n, NEW new, LinkedAround(new, heap, p, n, k)
  PROVE  /\ Path(Without(p, n, k), n - 1, new)
         /\ Reached(Without(p, n, k), n - 1) = Reached(p, n) \ {p[k]}
         /\ Items(Without(p, n, k), n - 1, new) = RemoveAt(Items(p, n, heap), k)
<1> DEFINE q == Without(p, n, k)
           from(i) == IF i < k THEN i ELSE i + 1
<1>1. /\ p \in [1 .. n -> Addresses]
      /\ \A i, j \in 1 .. n : p[i] = p[j] => i = j
  BY DEF Path
<1>2. /\ \A i \in 1 .. n - 1 : from(i) \in 1 .. n /\ from(i) # k
      /\ \A i, j \in 1 .. n - 1 : from(i) = from(j) => i = j
      /\ \A h \in 1 .. n : h # k => \E i \in 1 .. n - 1 : from(i) = h
  <2>1. ASSUME NEW h \in 1 .. n, h # k PROVE \E i \in 1 .. n - 1 : from(i) = h
    <3>1. CASE h < k
      <4>1. h \in 1 .. n - 1 /\ from(h) = h
        BY <3>1
      <4> QED
        BY <4>1
    <3>2. CASE h > k
      <4>1. h - 1 \in 1 .. n - 1 /\ from(h - 1) = h
        BY <3>2
      <4> QED
        BY <4>1
    <3> QED
      BY <2>1, <3>1, <3>2
  <2> QED
    BY <2>1
<1>3. \A i \in 1 .. n - 1 : q[i] = p[from(i)]
  BY DEF Without
<1>4. \A i \in 1 .. n - 1 - 1 :
        \/ from(i) + 1 = from(i + 1) /\ from(i) + 1 # k
        \/ from(i) + 1 = k /\ from(i + 1) = k + 1 /\ k < n
  OBVIOUS
<1>5. DOMAIN q = 1 .. n - 1 /\ q = [i \in 1 .. n - 1 |-> q[i]]
  BY DEF Without
<1> HIDE DEF q, from
<1>6. q \in [1 .. n - 1 -> Addresses]
  BY <1>1, <1>2, <1>3, <1>5
<1>7. Path(q, n - 1, new)
  <2>1. ASSUME NEW i \in 1 .. n - 1, NEW j \in 1 .. n - 1, q[i] = q[j] PROVE i = j
    BY <1>1, <1>2, <1>3, <2>1
  <2>2. ASSUME NEW i \in 1 .. n - 1 - 1
        PROVE  new[q[i]].next = q[i + 1] /\ new[q[i + 1]].prev = q[i]
    <3>1. i \in 1 .. n - 1 /\ i + 1 \in 1 .. n - 1
      OBVIOUS
    <3>2. q[i] = p[from(i)] /\ q[i + 1] = p[from(i + 1)] /\ from(i) # k
      BY <1>2, <1>3, <3>1
    <3>3. from(i) \in 1 .. n /\ from(i + 1) \in 1 .. n
      BY <1>2, <3>1
    <3> DEFINE h == from(i)
    <3> HIDE DEF h
    <3>4. CASE h + 1 = from(i + 1) /\ h + 1 # k
      <4>1. h \in 1 .. n - 1
        BY <3>3, <3>4 DEF h
      <4>2. h # k /\ h + 1 # k => new[p[h]].next = p[h + 1] /\ new[p[h + 1]].prev = p[h]
        BY <4>1 DEF LinkedAround
      <4> QED
        BY <3>2, <3>4, <4>2 DEF h
    <3>5. CASE h + 1 = k /\ from(i + 1) = k + 1 /\ k < n
      <4>1. h \in 1 .. n - 1
        BY <3>3, <3>5 DEF h
      <4>2. new[p[h]].next = p[k + 1] /\ new[p[k + 1]].prev = p[h]
        BY <3>5, <4>1 DEF LinkedAround
      <4> QED
        BY <3>2, <3>5, <4>2 DEF h
    <3> QED
      BY <1>4, <3>4, <3>5 DEF h
  <2>3. n - 1 \in Nat
    OBVIOUS
  <2> QED
    BY <1>6, <2>1, <2>2, <2>3 DEF Path
<1>8. Reached(q, n - 1) = Reached(p, n) \ {p[k]}
  <2>1. ASSUME NEW x \in Reached(q, n - 1) PROVE x \in Reached(p, n) \ {p[k]}
    <3>1. PICK i \in 1 .. n - 1 : x = q[i]
      BY DEF Reached
    <3>2. x = p[from(i)] /\ from(i) \in 1 .. n /\ from(i) # k
      BY <1>2, <1>3, <3>1
    <3> QED
      BY <1>1, <3>2 DEF Reached
  <2>2. ASSUME NEW x \in Reached(p, n) \ {p[k]} PROVE x \in Reached(q, n - 1)
    <3>1. PICK h \in 1 .. n : x = p[h]
      BY DEF Reached
    <3>2. PICK i \in 1 .. n - 1 : from(i) = h
      BY <1>2, <2>2, <3>1
    <3>3. x = q[i]
      BY <1>3, <3>1, <3>2
    <3> QED
      BY <3>3 DEF Reached
  <2> QED
    BY <2>1, <2>2
<1>9. Items(q, n - 1, new) = RemoveAt(Items(p, n, heap), k)
  <2> DEFINE old == Items(p, n, heap)
             short == RemoveAt(old, k)
  <2>1. AreItems(old, p, n, heap)
    BY ItemsIsSeq
  <2>2. AreItems(Items(q, n - 1, new), q, n - 1, new)
    BY <1>7, ItemsIsSeq DEF LinkedAround
  <2> HIDE DEF old
  <2>3. /\ old \in Seq(Datum) /\ Len(old) = n
        /\ \A i \in 1 .. n : old[i] = heap[p[i]].data
    BY <2>1 DEF AreItems
  <2>4. short \in Seq(Datum) /\ ComesOut(short, old, k)
    BY <2>3, Removed
  <2> HIDE DEF short
  <2>5. /\ Len(short) = n - 1
        /\ \A i \in 1 .. n - 1 : short[i] = old[from(i)]
    <3>1. /\ Len(short) = n - 1
          /\ \A i \in 1 .. k - 1 : short[i] = old[i]
          /\ \A i \in k .. n - 1 : short[i] = old[i + 1]
      BY <2>3, <2>4 DEF ComesOut
    <3> QED
      BY <3>1 DEF from
  <2>6. ASSUME NEW i \in 1 .. n - 1 PROVE Items(q, n - 1, new)[i] = short[i]
    <3>1. Items(q, n - 1, new)[i] = new[q[i]].data
      BY <2>2 DEF AreItems
    <3>2. from(i) \in 1 .. n /\ from(i) # k /\ q[i] = p[from(i)]
      BY <1>2, <1>3
    <3>3. new[p[from(i)]].data = heap[p[from(i)]].data
      BY <3>2 DEF LinkedAround
    <3>4. short[i] = heap[p[from(i)]].data
      BY <2>3, <2>5, <3>2
    <3> QED
      BY <3>1, <3>2, <3>3, <3>4
  <2>7. Items(q, n - 1, new) \in Seq(Datum) /\ Len(Items(q, n - 1, new)) = n - 1
    BY <2>2 DEF AreItems
  <2>8. Items(q, n - 1, new) = short
    BY <2>4, <2>5, <2>6, <2>7, SeqEqual
  <2> QED
    BY <2>8 DEF short, old
<1> QED
  BY <1>7, <1>8, <1>9 DEF q

LEMMA EndsOfSeq ==
  ASSUME NEW S, NEW seq \in Seq(S), NEW n, n = Len(seq), n > 0
  PROVE  /\ seq # <<>>
         /\ RemoveAt(seq, n) = Front(seq) /\ Last(seq) = seq[n]
         /\ RemoveAt(seq, 1) = Tail(seq) /\ Head(seq) = seq[1]
<1>1. n \in Nat \ {0} /\ seq # <<>>
  BY LenProperties
<1>2. /\ Front(seq) \in Seq(S) /\ Len(Front(seq)) = n - 1
      /\ \A i \in 1 .. n - 1 : Front(seq)[i] = seq[i]
      /\ Last(seq) = seq[n]
  BY <1>1, FrontProperties
<1>3. /\ Tail(seq) \in Seq(S) /\ Len(Tail(seq)) = n - 1
      /\ \A i \in 1 .. n - 1 : Tail(seq)[i] = seq[i + 1]
      /\ Head(seq) = seq[1]
  BY <1>1, HeadTailProperties
<1>4. n \in 1 .. Len(seq) /\ 1 \in 1 .. Len(seq)
  BY <1>1
<1>5. RemoveAt(seq, n) = Front(seq)
  <2> DEFINE short == RemoveAt(seq, n)
  <2>1. short \in Seq(S) /\ ComesOut(short, seq, n)
    BY <1>4, Removed
  <2> HIDE DEF short
  <2>2. Len(short) = n - 1 /\ \A i \in 1 .. n - 1 : short[i] = Front(seq)[i]
    BY <1>2, <2>1 DEF ComesOut
  <2>3. short = Front(seq)
    BY <1>2, <2>1, <2>2, SeqEqual
  <2> QED
    BY <2>3 DEF short
<1>6. RemoveAt(seq, 1) = Tail(seq)
  <2> DEFINE short == RemoveAt(seq, 1)
  <2>1. short \in Seq(S) /\ ComesOut(short, seq, 1)
    BY <1>4, Removed
  <2> HIDE DEF short
  <2>2. Len(short) = n - 1 /\ \A i \in 1 .. n - 1 : short[i] = Tail(seq)[i]
    BY <1>3, <2>1 DEF ComesOut
  <2>3. short = Tail(seq)
    BY <1>3, <2>1, <2>2, SeqEqual
  <2> QED
    BY <2>3 DEF short
<1> QED
  BY <1>1, <1>2, <1>3, <1>5, <1>6

-----------------------------------------------------------------------------
(* The invariant of the list: its items lie on a path from front to back.    *)
(* Between calls the heap holds these cells and no others; during a walk     *)
(* both ends are closed, and the walk is on the path or past its end; while  *)
(* the list is cleared, what is behind the cursor is gone and what is in     *)
(* front of it still there; while a datum is removed, it is not behind the   *)
(* cursor any more.                                                          *)
ListFields ==
  /\ {front, back, cursor} \subseteq Link
  /\ count \in Nat
  /\ cells \in [Addresses -> Cell]
  /\ live \subseteq Addresses
  /\ walk \in {"none", "remove", "clear"}
  /\ listCall \in ListCall /\ popped \in Datum
  /\ walk # "none" => listCall.name = walk
  /\ strayed = FALSE

Ends(p) ==
  /\ count = 0 => front = Null /\ back = Null
  /\ count > 0 => front = p[1] /\ back = p[count]

Closed(p) == count > 0 => cells[p[1]].prev = Null /\ cells[p[count]].next = Null

ClearedUpTo(p, j) ==
  /\ live = {p[i] : i \in j .. count}
  /\ cursor = IF j <= count THEN p[j] ELSE Null

RemovedUpTo(p, k) ==
  /\ \A i \in 1 .. k - 1 : cells[p[i]].data # Unwanted
  /\ cursor = IF k <= count THEN p[k] ELSE Null

Shape(p) ==
  /\ Path(p, count, cells)
  /\ Ends(p)
  /\ walk # "none" => Closed(p)
  /\ walk # "clear" => live = Reached(p, count)
  /\ walk = "remove" => \E k \in 1 .. count + 1 : RemovedUpTo(p, k)
  /\ walk = "clear" => \E j \in 1 .. count + 1 : ClearedUpTo(p, j)

ListInv == ListFields /\ \E p : Shape(p)

(* After the step the list holds these items.                                *)
Becomes(items) == \E q : Shape(q)' /\ Items(q, count', cells') = items

LEMMA CellFields ==
  ASSUME ListFields, NEW a \in Addresses
  PROVE  cells[a] \in Cell /\ cells[a].data \in Datum /\ {cells[a].prev, cells[a].next} \subseteq Link
BY DEF ListFields, Cell, Datum

LEMMA ListInitInv ==
  ASSUME ListInit
  PROVE  ListFields /\ \E p : Shape(p) /\ Items(p, count, cells) = <<>>
<1>1. ListFields
  <2>1. NewCell(NoData, Null, Null) \in Cell
    BY DEF NewCell, Cell, Link
  <2>2. [turn |-> FALSE, name |-> "create", data |-> NoData, starved |-> FALSE] \in ListCall
    BY DEF ListCall
  <2> QED
    BY <2>1, <2>2 DEF ListInit, ListFields, Link, Datum
<1>2. PICK p : Path(p, 0, cells) /\ Reached(p, 0) = {} /\ Items(p, 0, cells) = <<>>
  BY EmptyPath
<1>3. Shape(p)
  BY <1>2 DEF ListInit, Shape, Ends
<1> QED
  BY <1>1, <1>2, <1>3 DEF ListInit

(* Every call is recorded as one of those that list.h declares.              *)
CallNames == {"push_back", "push_front", "pop_back", "pop_front", "remove", "clear"}

LEMMA CallsAreListCalls ==
  ASSUME ListFields, NEW name \in CallNames, NEW d \in Datum, NEW starved \in BOOLEAN,
         ListCalled(name, d, starved)
  PROVE  listCall' \in ListCall /\ listCall'.name = name /\ listCall'.data = d
<1>1. (~listCall.turn) \in BOOLEAN
  OBVIOUS
<1> QED
  BY <1>1 DEF ListCalled, ListCall, CallNames, Datum

LEMMA NamesAndData ==
  /\ {"push_back", "push_front", "pop_back", "pop_front", "remove", "clear"} \subseteq CallNames
  /\ NoData \in Datum /\ \A d \in Data : d \in Datum
BY DEF CallNames, Datum

LEMMA PushFields ==
  ASSUME ListFields, NEW d \in Data, NEW a \in Addresses,
         ListPush(d, a), strayed' = FALSE, listCall' \in ListCall,
         front' \in Link, back' \in Link, cells' \in [Addresses -> Cell]
  PROVE  ListFields'
BY DEF ListFields, ListPush, Idle, walking

LEMMA PushOnEmpty ==
  ASSUME ListFields, NEW p, Shape(p), NEW d \in Data, NEW a \in Addresses,
         ListPush(d, a), PushFirst(d, a), listCall' \in ListCall
  PROVE  ListFields' /\ Items(p, count, cells) = <<>> /\ Becomes(<<d>>)
<1>1. /\ count = 0 /\ strayed = FALSE /\ walk = "none" /\ cells \in [Addresses -> Cell]
      /\ strayed' = FALSE /\ walk' = "none" /\ count' = 1 /\ live' = live \cup {a}
      /\ front' = a /\ back' = a
      /\ cells' = [cells EXCEPT ![a] = NewCell(d, Null, Null)]
  BY DEF ListFields, ListPush, PushFirst, Idle, walking
<1>2. cells' \in [Addresses -> Cell]
  <2>1. NewCell(d, Null, Null) \in Cell
    BY DEF NewCell, Cell, Link
  <2> QED
    BY <1>1, <2>1
<1>3. ListFields'
  BY <1>1, <1>2, PushFields DEF Link
<1>4. PICK q : /\ Path(q, 1, cells') /\ q[1] = a
               /\ Reached(q, 1) = {a} /\ Items(q, 1, cells') = <<d>>
  <2>1. d \in Datum
    BY DEF Datum
  <2>2. cells'[a] = NewCell(d, Null, Null)
    BY <1>1
  <2> QED
    BY <2>1, <2>2, OnlyCell
<1>5. live = {} /\ Items(p, count, cells) = <<>>
  BY <1>1 DEF Shape, Reached, Items
<1>6. Shape(q)'
  BY <1>1, <1>4, <1>5 DEF Shape, Ends
<1> QED
  BY <1>1, <1>3, <1>4, <1>5, <1>6 DEF Becomes

LEMMA PushBackStep ==
  ASSUME ListFields, NEW p, Shape(p), NEW d \in Data, NEW a \in Addresses, ListPushBack(d, a)
  PROVE  ListFields' /\ Becomes(Append(Items(p, count, cells), d))
<1>0. listCall' \in ListCall
  BY CallsAreListCalls, NamesAndData DEF ListPushBack
<1>1. CASE PushFirst(d, a)
  <2>1. ListFields' /\ Items(p, count, cells) = <<>> /\ Becomes(<<d>>)
    BY <1>0, <1>1, PushOnEmpty DEF ListPushBack
  <2>2. Append(<<>>, d) = <<d>>
    OBVIOUS
  <2> QED
    BY <2>1, <2>2, Zenon
<1>2. CASE ~PushFirst(d, a)
  <2>1. /\ count > 0 /\ count \in Nat \ {0} /\ walk = "none" /\ a \notin live
        /\ walk' = "none" /\ count' = count + 1 /\ live' = live \cup {a}
        /\ Touch({back})
        /\ cells' = [cells EXCEPT ![back].next = a, ![a] = NewCell(d, back, Null)]
        /\ back' = a /\ front' = front
    BY <1>2 DEF ListFields, ListPushBack, ListPush, Idle, walking
  <2>2. /\ Path(p, count, cells) /\ front = p[1] /\ back = p[count]
        /\ live = Reached(p, count)
    BY <2>1 DEF Shape, Ends
  <2>3. /\ count \in 1 .. count /\ p[count] \in Addresses /\ back \in live
        /\ cells \in [Addresses -> Cell]
    BY <2>1, <2>2 DEF Path, Reached, ListFields
  <2>4. strayed' = FALSE
    BY <2>1, <2>3 DEF Touch
  <2>5. cells' = Behind(cells, p[count], a, d)
    BY <2>1, <2>2 DEF Behind
  <2>6. cells' \in [Addresses -> Cell]
    BY <2>2, <2>3, <2>5 DEF Behind, NewCell, Cell, Link
  <2>7. ListFields'
    <3>1. ListPush(d, a) /\ front' \in Link /\ back' \in Link
      BY <2>1 DEF ListPushBack, ListFields, Link
    <3> QED
      BY <1>0, <2>4, <2>6, <3>1, PushFields
  <2>8. PICK q : /\ Path(q, count + 1, cells') /\ q[1] = p[1] /\ q[count + 1] = a
                 /\ Reached(q, count + 1) = Reached(p, count) \cup {a}
                 /\ Items(q, count + 1, cells') = Append(Items(p, count, cells), d)
    <3>1. d \in Datum /\ a \notin Reached(p, count)
      BY <2>1, <2>2 DEF Datum
    <3>2. \A new : new = Behind(cells, p[count], a, d) =>
            \E q : /\ Path(q, count + 1, new) /\ q[1] = p[1] /\ q[count + 1] = a
                  /\ Reached(q, count + 1) = Reached(p, count) \cup {a}
                  /\ Items(q, count + 1, new) = Append(Items(p, count, cells), d)
      BY <2>1, <2>2, <2>3, <3>1, AppendedPath
    <3> QED
      BY <2>5, <3>2, Zenon
  <2>9. Shape(q)'
    BY <2>1, <2>2, <2>8 DEF Shape, Ends
  <2> QED
    BY <2>1, <2>7, <2>8, <2>9 DEF Becomes
<1> QED
  BY <1>1, <1>2

LEMMA PushFrontStep ==
  ASSUME ListFields, NEW p, Shape(p), NEW d \in Data, NEW a \in Addresses, ListPushFront(d, a)
  PROVE  ListFields' /\ Becomes(<<d>> \o Items(p, count, cells))
<1>0. listCall' \in ListCall
  BY CallsAreListCalls, NamesAndData DEF ListPushFront
<1>1. CASE PushFirst(d, a)
  <2>1. ListFields' /\ Items(p, count, cells) = <<>> /\ Becomes(<<d>>)
    BY <1>0, <1>1, PushOnEmpty DEF ListPushFront
  <2>2. <<d>> \o <<>> = <<d>>
    OBVIOUS
  <2> QED
    BY <2>1, <2>2, Zenon
<1>2. CASE ~PushFirst(d, a)
  <2>1. /\ count > 0 /\ count \in Nat \ {0} /\ walk = "none" /\ a \notin live
        /\ walk' = "none" /\ count' = count + 1 /\ live' = live \cup {a}
        /\ Touch({front})
        /\ cells' = [cells EXCEPT ![front].prev = a, ![a] = NewCell(d, Null, front)]
        /\ front' = a /\ back' = back
    BY <1>2 DEF ListFields, ListPushFront, ListPush, Idle, walking
  <2>2. /\ Path(p, count, cells) /\ front = p[1] /\ back = p[count]
        /\ live = Reached(p, count)
    BY <2>1 DEF Shape, Ends
  <2>3. /\ 1 \in 1 .. count /\ p[1] \in Addresses /\ front \in live
        /\ cells \in [Addresses -> Cell]
    BY <2>1, <2>2 DEF Path, Reached, ListFields
  <2>4. strayed' = FALSE
    BY <2>1, <2>3 DEF Touch
  <2>5. cells' = InFrontOf(cells, p[1], a, d)
    BY <2>1, <2>2 DEF InFrontOf
  <2>6. cells' \in [Addresses -> Cell]
    BY <2>2, <2>3, <2>5 DEF InFrontOf, NewCell, Cell, Link
  <2>7. ListFields'
    <3>1. ListPush(d, a) /\ front' \in Link /\ back' \in Link
      BY <2>1 DEF ListPushFront, ListFields, Link
    <3> QED
      BY <1>0, <2>4, <2>6, <3>1, PushFields
  <2>8. PICK q : /\ Path(q, count + 1, cells') /\ q[1] = a /\ q[count + 1] = p[count]
                 /\ Reached(q, count + 1) = Reached(p, count) \cup {a}
                 /\ Items(q, count + 1, cells') = <<d>> \o Items(p, count, cells)
    <3>1. d \in Datum /\ a \notin Reached(p, count)
      BY <2>1, <2>2 DEF Datum
    <3>2. \A new : new = InFrontOf(cells, p[1], a, d) =>
            \E q : StartsWith(q, new, p, count, cells, a, d)
      BY <2>1, <2>2, <2>3, <3>1, PrependedPath
    <3>3. PICK q : StartsWith(q, cells', p, count, cells, a, d)
      BY <2>5, <3>2, Zenon
    <3> QED
      BY <3>3 DEF StartsWith
  <2>9. Shape(q)'
    BY <2>1, <2>2, <2>8 DEF Shape, Ends
  <2> QED
    BY <2>1, <2>7, <2>8, <2>9 DEF Becomes
<1> QED
  BY <1>1, <1>2

LEMMA EndComesOff ==
  ASSUME ListFields, NEW p, Shape(p), walk = "none", count > 0,
         NEW k \in 1 .. count, k = 1 \/ k = count, NEW new, new = Forget(cells, {p[k]})
  PROVE  LET q == Without(p, count, k)
         IN  /\ Path(q, count - 1, new)
             /\ Reached(q, count - 1) = live \ {p[k]}
             /\ Items(q, count - 1, new) = RemoveAt(Items(p, count, cells), k)
<1>1. /\ count \in Nat \ {0} /\ cells \in [Addresses -> Cell]
      /\ Path(p, count, cells) /\ live = Reached(p, count)
  BY DEF ListFields, Shape
<1>2. LinkedAround(cells, cells, p, count, k)
  BY <1>1 DEF LinkedAround, Path
<1>3. LinkedAround(new, cells, p, count, k)
  BY <1>1, <1>2, ForgottenBesidePath
<1> QED
  BY <1>1, <1>3, ShortenedPath

LEMMA PopKeepsFields ==
  ASSUME ListFields, NEW a \in live, Pop(a), front' \in Link, back' \in Link,
         listCall' \in ListCall
  PROVE  /\ ListFields' /\ walk' = "none" /\ count \in Nat \ {0} /\ count' = count - 1
         /\ live' = live \ {a} /\ cells' = Forget(cells, {a}) /\ popped' = cells[a].data
<1>1. a \in Addresses
  BY DEF ListFields
<1>2. cells[a].data \in Datum
  BY <1>1, CellFields
<1>3. /\ walk = "none" /\ count > 0 /\ strayed' = FALSE
      /\ popped' = cells[a].data /\ live' = live \ {a} /\ count' = count - 1
      /\ cells' = Forget(cells, {a}) /\ walk' = walk /\ cursor' = cursor
  BY DEF Pop, Idle, Touch, Freed, walking
<1>4. cells' \in [Addresses -> Cell]
  BY <1>3, Forgotten DEF ListFields
<1> QED
  BY <1>2, <1>3, <1>4 DEF ListFields

LEMMA PopBackStep ==
  ASSUME ListFields, NEW p, Shape(p), ListPopBack
  PROVE  /\ ListFields' /\ Items(p, count, cells) # <<>>
         /\ Becomes(Front(Items(p, count, cells)))
         /\ popped' = Last(Items(p, count, cells))
<1>0. PICK q : q = Without(p, count, count)
  OBVIOUS
<1> DEFINE items == Items(p, count, cells)
<1>1. /\ count \in Nat \ {0} /\ walk = "none" /\ cells \in [Addresses -> Cell]
      /\ Path(p, count, cells) /\ front = p[1] /\ back = p[count] /\ live = Reached(p, count)
      /\ Pop(back) /\ back' = Rest(cells[back].prev) /\ front' = Rest(front)
  BY DEF ListFields, Shape, Ends, ListPopBack, Pop, Idle
<1>c. listCall' \in ListCall
  BY CallsAreListCalls, NamesAndData DEF ListPopBack
<1>2. count \in 1 .. count /\ back \in live /\ back \in Addresses
  BY <1>1 DEF Path, Reached
<1>3. front' \in Link /\ back' \in Link
  BY <1>1, <1>2, CellFields DEF Rest, Link, ListFields
<1>4. /\ ListFields' /\ walk' = "none" /\ count' = count - 1
      /\ live' = live \ {back} /\ cells' = Forget(cells, {back}) /\ popped' = cells[back].data
  BY <1>1, <1>c, <1>2, <1>3, PopKeepsFields
<1>5. /\ Path(q, count - 1, cells') /\ Reached(q, count - 1) = live \ {p[count]}
      /\ Items(q, count - 1, cells') = RemoveAt(items, count)
  BY <1>0, <1>1, <1>2, <1>4, EndComesOff
<1>6. count > 1 => q[1] = p[1] /\ q[count - 1] = p[count - 1]
  BY <1>0, <1>1 DEF Without
<1>7. Ends(q)'
  <2>1. CASE count = 1
    BY <1>1, <1>4, <2>1 DEF Ends, Rest
  <2>2. CASE count > 1
    <3>1. count - 1 \in 1 .. count - 1 /\ (count - 1) + 1 = count
      BY <1>1, <2>2
    <3>2. cells[p[count]].prev = p[count - 1]
      BY <1>1, <3>1 DEF Path
    <3>3. front' = p[1] /\ back' = p[count - 1] /\ count' > 0
      BY <1>1, <1>4, <2>2, <3>2 DEF Rest
    <3> QED
      BY <1>4, <1>6, <2>2, <3>3 DEF Ends
  <2> QED
    BY <1>1, <2>1, <2>2
<1>8. Shape(q)'
  BY <1>1, <1>4, <1>5, <1>7 DEF Shape
<1>9. AreItems(items, p, count, cells)
  BY <1>1, ItemsIsSeq
<1>10. items \in Seq(Datum) /\ Len(items) = count /\ items[count] = cells[back].data
  BY <1>1, <1>2, <1>9 DEF AreItems
<1> HIDE DEF items
<1>11. items # <<>> /\ RemoveAt(items, count) = Front(items) /\ Last(items) = items[count]
  BY <1>1, <1>10, EndsOfSeq
<1> QED
  BY <1>4, <1>5, <1>8, <1>10, <1>11 DEF Becomes, items

LEMMA PopFrontStep ==
  ASSUME ListFields, NEW p, Shape(p), ListPopFront
  PROVE  /\ ListFields' /\ Items(p, count, cells) # <<>>
         /\ Becomes(Tail(Items(p, count, cells)))
         /\ popped' = Head(Items(p, count, cells))
<1>0. PICK q : q = Without(p, count, 1)
  OBVIOUS
<1> DEFINE items == Items(p, count, cells)
<1>1. /\ count \in Nat \ {0} /\ walk = "none" /\ cells \in [Addresses -> Cell]
      /\ Path(p, count, cells) /\ front = p[1] /\ back = p[count] /\ live = Reached(p, count)
      /\ Pop(front) /\ front' = Rest(cells[front].next) /\ back' = Rest(back)
  BY DEF ListFields, Shape, Ends, ListPopFront, Pop, Idle
<1>c. listCall' \in ListCall
  BY CallsAreListCalls, NamesAndData DEF ListPopFront
<1>2. 1 \in 1 .. count /\ front \in live /\ front \in Addresses
  BY <1>1 DEF Path, Reached
<1>3. front' \in Link /\ back' \in Link
  BY <1>1, <1>2, CellFields DEF Rest, Link, ListFields
<1>4. /\ ListFields' /\ walk' = "none" /\ count' = count - 1
      /\ live' = live \ {front} /\ cells' = Forget(cells, {front}) /\ popped' = cells[front].data
  BY <1>1, <1>c, <1>2, <1>3, PopKeepsFields
<1>5. /\ Path(q, count - 1, cells') /\ Reached(q, count - 1) = live \ {p[1]}
      /\ Items(q, count - 1, cells') = RemoveAt(items, 1)
  BY <1>0, <1>1, <1>2, <1>4, EndComesOff
<1>6. count > 1 => q[1] = p[2] /\ q[count - 1] = p[count]
  BY <1>0, <1>1 DEF Without
<1>7. Ends(q)'
  <2>1. CASE count = 1
    BY <1>1, <1>4, <2>1 DEF Ends, Rest
  <2>2. CASE count > 1
    <3>1. 1 \in 1 .. count - 1 /\ 1 + 1 = 2
      BY <1>1, <2>2
    <3>2. cells[p[1]].next = p[2]
      BY <1>1, <3>1 DEF Path
    <3>3. front' = p[2] /\ back' = p[count] /\ count' > 0
      BY <1>1, <1>4, <2>2, <3>2 DEF Rest
    <3> QED
      BY <1>4, <1>6, <2>2, <3>3 DEF Ends
  <2> QED
    BY <1>1, <2>1, <2>2
<1>8. Shape(q)'
  BY <1>1, <1>4, <1>5, <1>7 DEF Shape
<1>9. AreItems(items, p, count, cells)
  BY <1>1, ItemsIsSeq
<1>10. items \in Seq(Datum) /\ Len(items) = count /\ items[1] = cells[front].data
  BY <1>1, <1>2, <1>9 DEF AreItems
<1> HIDE DEF items
<1>11. items # <<>> /\ RemoveAt(items, 1) = Tail(items) /\ Head(items) = items[1]
  BY <1>1, <1>10, EndsOfSeq
<1> QED
  BY <1>4, <1>5, <1>8, <1>10, <1>11 DEF Becomes, items

LEMMA PopNothingStep ==
  ASSUME ListFields, NEW p, Shape(p), NEW name \in {"pop_back", "pop_front"},
         PopNothing(name)
  PROVE  /\ ListFields' /\ Items(p, count, cells) = <<>>
         /\ Becomes(Items(p, count, cells)) /\ popped' = NoData
<1>1. /\ count = 0 /\ walk = "none" /\ popped' = NoData
      /\ UNCHANGED <<front, back, count, cells, live, walk, cursor, strayed>>
      /\ listCall' \in ListCall
  BY CallsAreListCalls, NamesAndData DEF PopNothing, Idle, list, walking
<1>2. Shape(p)'
  BY <1>1 DEF Shape, Ends
<1>3. Items(p, count, cells) = <<>>
  BY <1>1 DEF Items
<1> QED
  BY <1>1, <1>2, <1>3 DEF ListFields, Datum, Becomes

(* A call that finds nothing to do, or no memory to do it with.              *)
LEMMA IdleCallStep ==
  ASSUME ListFields, NEW p, Shape(p), Idle, listCall' \in ListCall,
         UNCHANGED <<list, walking, popped, strayed>>
  PROVE  ListFields' /\ Becomes(Items(p, count, cells))
<1>1. /\ walk = "none"
      /\ UNCHANGED <<front, back, count, cells, live, walk, cursor, popped, strayed>>
  BY DEF Idle, list, walking
<1>2. Shape(p)'
  BY <1>1 DEF Shape, Ends
<1> QED
  BY <1>1, <1>2 DEF ListFields, Becomes

-----------------------------------------------------------------------------
(* A walk begins on a list whose ends are closed.                            *)
LEMMA StartWalkStep ==
  ASSUME ListFields, NEW p, Shape(p), NEW w \in {"remove", "clear"}, NEW d \in Datum,
         StartWalk(w, d), EndsClosed
  PROVE  /\ ListFields' /\ Becomes(Items(p, count, cells)) /\ popped' = popped
<1>1. /\ count \in Nat \ {0} /\ walk = "none" /\ walk' = w /\ cursor' = front
      /\ UNCHANGED <<front, back, count, cells, live, popped, strayed>>
      /\ listCall' \in ListCall /\ listCall'.name = w
  <2>1. ListCalled(w, d, FALSE) /\ w \in CallNames
    BY NamesAndData DEF StartWalk
  <2>2. listCall' \in ListCall /\ listCall'.name = w
    BY <2>1, CallsAreListCalls
  <2> QED
    BY <2>2 DEF ListFields, StartWalk, Idle, list
<1>2. /\ Path(p, count, cells) /\ Ends(p) /\ front = p[1] /\ back = p[count]
      /\ live = Reached(p, count)
  BY <1>1 DEF Shape, Ends
<1>3. Closed(p)
  BY <1>1, <1>2 DEF EndsClosed, Closed
<1>4. RemovedUpTo(p, 1)'
  BY <1>1, <1>2 DEF RemovedUpTo
<1>5. ClearedUpTo(p, 1)'
  BY <1>1, <1>2 DEF ClearedUpTo, Reached
<1>6. 1 \in 1 .. count + 1
  BY <1>1
<1>7. Shape(p)'
  <2>1. Path(p, count', cells') /\ Ends(p)' /\ Closed(p)'
    BY <1>1, <1>2, <1>3 DEF Ends, Closed
  <2>2. /\ \E j \in 1 .. count' + 1 : ClearedUpTo(p, j)'
        /\ \E k \in 1 .. count' + 1 : RemovedUpTo(p, k)'
    BY <1>1, <1>4, <1>5, <1>6
  <2> QED
    BY <1>1, <1>2, <2>1, <2>2 DEF Shape
<1>8. ListFields'
  BY <1>1 DEF ListFields
<1> QED
  BY <1>1, <1>7, <1>8 DEF Becomes

(* The neighbours of a cell on a path whose ends are closed.                 *)
LEMMA NeighboursOnPath ==
  ASSUME NEW p, Path(p, count, cells), Closed(p), NEW k \in 1 .. count
  PROVE  /\ cells[p[k]].prev = IF k = 1 THEN Null ELSE p[k - 1]
         /\ cells[p[k]].next = IF k = count THEN Null ELSE p[k + 1]
<1>1. count \in Nat /\ count > 0
  BY DEF Path
<1>2. cells[p[1]].prev = Null /\ cells[p[count]].next = Null
  BY <1>1 DEF Closed
<1>3. ASSUME k # 1 PROVE cells[p[k]].prev = p[k - 1]
  <2>1. k - 1 \in 1 .. count - 1 /\ (k - 1) + 1 = k
    BY <1>1, <1>3
  <2> QED
    BY <2>1 DEF Path
<1>4. ASSUME k # count PROVE cells[p[k]].next = p[k + 1]
  <2>1. k \in 1 .. count - 1
    BY <1>1, <1>4
  <2> QED
    BY <2>1 DEF Path
<1> QED
  BY <1>2, <1>3, <1>4

LEMMA ClearStepStep ==
  ASSUME ListFields, NEW p, Shape(p), ClearStep
  PROVE  /\ ListFields' /\ Becomes(Items(p, count, cells)) /\ popped' = popped
<1>1. /\ walk = "clear" /\ cursor # Null /\ Touch({cursor})
      /\ live' = live \ {cursor} /\ cursor' = cells[cursor].next
      /\ UNCHANGED <<front, back, count, cells, walk, listCall, popped>>
  BY DEF ClearStep, Freed, Following
<1>2. Path(p, count, cells) /\ Ends(p) /\ Closed(p) /\ count \in Nat
  BY <1>1 DEF Shape, Path
<1>3. PICK j \in 1 .. count + 1 : ClearedUpTo(p, j)
  BY <1>1 DEF Shape
<1>4. /\ j \in 1 .. count /\ cursor = p[j] /\ live = {p[i] : i \in j .. count}
  BY <1>1, <1>2, <1>3 DEF ClearedUpTo
<1>5. /\ \A i, h \in 1 .. count : p[i] = p[h] => i = h
      /\ \A i \in 1 .. count : p[i] \in Addresses
  BY <1>2 DEF Path
<1>6. cursor \in live /\ cursor \in Addresses
  BY <1>4, <1>5
<1>7. strayed' = FALSE
  BY <1>1, <1>6 DEF Touch
<1>8. cursor' = IF j = count THEN Null ELSE p[j + 1]
  BY <1>1, <1>2, <1>4, NeighboursOnPath
<1>9. live' = {p[i] : i \in j + 1 .. count}
  <2>1. \A i \in j .. count : i \in 1 .. count /\ (i = j \/ i \in j + 1 .. count)
    BY <1>2, <1>4
  <2>2. \A i \in j + 1 .. count : i \in j .. count /\ i \in 1 .. count /\ i # j
    BY <1>2, <1>4
  <2> QED
    BY <1>1, <1>4, <1>5, <2>1, <2>2
<1>10. ClearedUpTo(p, j + 1)' /\ j + 1 \in 1 .. count + 1
  <2>1. j + 1 \in 1 .. count + 1 /\ (j + 1 <= count <=> j # count)
    BY <1>2, <1>4
  <2> QED
    BY <1>1, <1>8, <1>9, <2>1 DEF ClearedUpTo
<1>11. Shape(p)'
  <2>1. Path(p, count', cells') /\ Ends(p)' /\ Closed(p)'
    BY <1>1, <1>2 DEF Ends, Closed
  <2>2. \E h \in 1 .. count' + 1 : ClearedUpTo(p, h)'
    BY <1>1, <1>10
  <2> QED
    BY <1>1, <2>1, <2>2 DEF Shape
<1>12. ListFields'
  <2>1. cursor' \in Link
    BY <1>1, <1>6, CellFields
  <2> QED
    BY <1>1, <1>7, <2>1 DEF ListFields
<1> QED
  BY <1>1, <1>11, <1>12 DEF Becomes

LEMMA EndWalkStep ==
  ASSUME ListFields, NEW p, Shape(p), EndWalk
  PROVE  /\ ListFields' /\ popped' = popped
         /\ \/ walk = "clear" /\ Becomes(<<>>)
            \/ /\ walk = "remove" /\ Becomes(Items(p, count, cells))
               /\ \A i \in 1 .. count : Items(p, count, cells)[i] # Unwanted
<1>1. /\ walk # "none" /\ cursor = Null /\ walk' = "none"
      /\ UNCHANGED <<live, cursor, listCall, popped, strayed>>
  BY DEF EndWalk
<1>2. CASE walk = "clear"
  <2>1. front' = Null /\ back' = Null /\ count' = 0 /\ cells' = Forget(cells, Addresses)
    BY <1>2 DEF EndWalk
  <2>2. live = {}
    <3>1. Path(p, count, cells)
      BY DEF Shape
    <3>2. PICK j \in 1 .. count + 1 : ClearedUpTo(p, j)
      BY <1>2 DEF Shape
    <3>3. ~(j <= count)
      BY <1>1, <3>1, <3>2, HeapAssumption DEF ClearedUpTo, Path
    <3>4. count \in Nat /\ j .. count = {}
      BY <3>1, <3>3 DEF Path
    <3> QED
      BY <3>2, <3>4 DEF ClearedUpTo
  <2>3. PICK q : Path(q, 0, cells') /\ Reached(q, 0) = {} /\ Items(q, 0, cells') = <<>>
    BY EmptyPath
  <2>4. Shape(q)'
    BY <1>1, <2>1, <2>2, <2>3 DEF Shape, Ends
  <2>5. ListFields'
    <3>1. cells' \in [Addresses -> Cell]
      BY <2>1, Forgotten DEF ListFields
    <3> QED
      BY <1>1, <2>1, <3>1 DEF ListFields, Link, Datum
  <2> QED
    BY <1>1, <1>2, <2>1, <2>3, <2>4, <2>5 DEF Becomes
<1>3. CASE walk = "remove"
  <2>1. UNCHANGED <<front, back, count, cells>>
    BY <1>3 DEF EndWalk
  <2>2. Shape(p)'
    BY <1>1, <1>3, <2>1 DEF Shape, Ends
  <2>3. ListFields'
    BY <1>1, <2>1 DEF ListFields, Datum
  <2>4. \A i \in 1 .. count : Items(p, count, cells)[i] # Unwanted
    <3>1. Path(p, count, cells)
      BY DEF Shape
    <3>2. PICK k \in 1 .. count + 1 : RemovedUpTo(p, k)
      BY <1>3 DEF Shape
    <3>3. ~(k <= count)
      BY <1>1, <3>1, <3>2, HeapAssumption DEF RemovedUpTo, Path
    <3>4. count \in Nat /\ k - 1 = count
      BY <3>1, <3>3 DEF Path
    <3> QED
      BY <3>2, <3>4 DEF RemovedUpTo, Items
  <2> QED
    BY <1>1, <1>3, <2>1, <2>2, <2>3, <2>4 DEF Becomes
<1> QED
  BY <1>1, <1>2, <1>3 DEF ListFields

(* What remove_item_ leaves in each cell.                                    *)
LEMMA BypassedCells ==
  ASSUME ListFields, NEW a \in Addresses, NEW b \in Addresses
  PROVE  /\ Bypass(a) \in [Addresses -> Cell]
         /\ Bypass(a)[b].data = cells[b].data
         /\ Bypass(a)[b].next = IF b = cells[a].prev THEN cells[a].next ELSE cells[b].next
         /\ Bypass(a)[b].prev = IF b = cells[a].next THEN cells[a].prev ELSE cells[b].prev
<1> DEFINE Around(c) ==
             [cells[c] EXCEPT !.next = IF c = cells[a].prev THEN cells[a].next ELSE @,
                              !.prev = IF c = cells[a].next THEN cells[a].prev ELSE @]
<1>1. cells[a].prev \in Link /\ cells[a].next \in Link
  BY CellFields
<1>2. ASSUME NEW c \in Addresses
      PROVE  /\ Around(c) \in Cell
             /\ Around(c).data = cells[c].data
             /\ Around(c).next = IF c = cells[a].prev THEN cells[a].next ELSE cells[c].next
             /\ Around(c).prev = IF c = cells[a].next THEN cells[a].prev ELSE cells[c].prev
  <2>1. cells[c] \in Cell
    BY CellFields
  <2> QED
    BY <1>1, <2>1 DEF Cell
<1>3. Bypass(a) = [c \in Addresses |-> Around(c)]
  BY DEF Bypass
<1> HIDE DEF Around
<1> QED
  BY <1>2, <1>3

LEMMA RemovalOnPath ==
  ASSUME ListFields, NEW p, Path(p, count, cells), Closed(p), NEW k \in 1 .. count,
         NEW new, new = Bypass(p[k])
  PROVE  LinkedAround(new, cells, p, count, k)
<1>1. /\ count \in Nat /\ count > 0 /\ 1 \in 1 .. count
      /\ \A i \in 1 .. count : p[i] \in Addresses /\ p[i] # Null
      /\ \A i, j \in 1 .. count : p[i] = p[j] => i = j
      /\ \A i \in 1 .. count - 1 : cells[p[i]].next = p[i + 1] /\ cells[p[i + 1]].prev = p[i]
  BY HeapAssumption DEF Path
<1>2. /\ cells[p[k]].prev = IF k = 1 THEN Null ELSE p[k - 1]
      /\ cells[p[k]].next = IF k = count THEN Null ELSE p[k + 1]
  BY NeighboursOnPath
<1>3. /\ new \in [Addresses -> Cell]
      /\ \A b \in Addresses :
           /\ new[b].data = cells[b].data
           /\ new[b].next = IF b = cells[p[k]].prev THEN cells[p[k]].next ELSE cells[b].next
           /\ new[b].prev = IF b = cells[p[k]].next THEN cells[p[k]].prev ELSE cells[b].prev
  BY <1>1, BypassedCells
<1>4. ASSUME NEW i \in 1 .. count - 1, i # k, i + 1 # k
      PROVE  new[p[i]].next = p[i + 1] /\ new[p[i + 1]].prev = p[i]
  <2>1. i \in 1 .. count /\ i + 1 \in 1 .. count
    BY <1>1
  <2>2. p[i] # cells[p[k]].prev
    <3>1. CASE k = 1
      BY <1>1, <1>2, <2>1, <3>1
    <3>2. CASE k # 1
      <4>1. k - 1 \in 1 .. count /\ k - 1 # i
        BY <1>1, <1>4, <3>2
      <4> QED
        BY <1>1, <1>2, <2>1, <3>2, <4>1
    <3> QED
      BY <3>1, <3>2
  <2>3. p[i + 1] # cells[p[k]].next
    <3>1. CASE k = count
      BY <1>1, <1>2, <2>1, <3>1
    <3>2. CASE k # count
      <4>1. k + 1 \in 1 .. count /\ k + 1 # i + 1
        BY <1>1, <1>4, <3>2
      <4> QED
        BY <1>1, <1>2, <2>1, <3>2, <4>1
    <3> QED
      BY <3>1, <3>2
  <2> QED
    BY <1>1, <1>3, <2>1, <2>2, <2>3
<1>5. ASSUME NEW i \in 1 .. count - 1, i + 1 = k, k < count
      PROVE  new[p[i]].next = p[k + 1] /\ new[p[k + 1]].prev = p[i]
  <2>1. i \in 1 .. count /\ k + 1 \in 1 .. count /\ i = k - 1 /\ k # 1 /\ k # count
    BY <1>1, <1>5
  <2>2. cells[p[k]].prev = p[i] /\ cells[p[k]].next = p[k + 1]
    BY <1>2, <2>1
  <2> QED
    BY <1>1, <1>3, <2>1, <2>2
<1>6. \A i \in 1 .. count : new[p[i]].data = cells[p[i]].data
  BY <1>1, <1>3
<1> QED
  BY <1>3, <1>4, <1>5, <1>6 DEF LinkedAround

(* The cell comes out of the path, whose ends stay closed.                   *)
LEMMA RemoveItemStep ==
  ASSUME ListFields, NEW p, Shape(p), NEW k \in 1 .. count, walk = "remove", cursor = p[k],
         RemovedUpTo(p, k),
         RemoveItem(cursor), cursor' = cells[cursor].next, UNCHANGED <<walk, listCall, popped>>
  PROVE  ListFields' /\ Becomes(RemoveAt(Items(p, count, cells), k))
<1>1. /\ Path(p, count, cells) /\ Ends(p) /\ Closed(p) /\ live = Reached(p, count)
      /\ count \in Nat \ {0} /\ cells \in [Addresses -> Cell]
  BY DEF ListFields, Shape
<1>2. /\ \A i \in 1 .. count : p[i] \in Addresses /\ p[i] # Null /\ p[i] \in live
      /\ \A i, j \in 1 .. count : p[i] = p[j] => i = j
      /\ 1 \in 1 .. count /\ count \in 1 .. count
      /\ front = p[1] /\ back = p[count]
      /\ cells[p[1]].prev = Null /\ cells[p[count]].next = Null
  BY <1>1, HeapAssumption DEF Path, Reached, Ends, Closed
<1>3. PICK before, after :
        /\ before = cells[p[k]].prev /\ before = IF k = 1 THEN Null ELSE p[k - 1]
        /\ after = cells[p[k]].next /\ after = IF k = count THEN Null ELSE p[k + 1]
  BY <1>1, NeighboursOnPath
<1>4. /\ k # 1 => k - 1 \in 1 .. count
      /\ k # count => k + 1 \in 1 .. count
  BY <1>1
<1>5. before \in live \cup {Null} /\ after \in (live \ {p[k]}) \cup {Null}
  <2>1. before \in live \cup {Null}
    BY <1>2, <1>3, <1>4
  <2>2. k # count => after = p[k + 1] /\ p[k + 1] \in live /\ p[k + 1] # p[k]
    BY <1>1, <1>2, <1>3, <1>4
  <2> QED
    BY <1>3, <2>1, <2>2
<1>6. /\ cells' = Forget(Bypass(p[k]), {p[k]}) /\ live' = live \ {p[k]} /\ count' = count - 1
      /\ front' = IF before = Null THEN after ELSE front
      /\ back' = IF after = Null THEN before ELSE back
      /\ cursor' = after /\ walk' = "remove" /\ listCall' = listCall /\ popped' = popped
      /\ Touch({p[k]} \cup {before, after})
  BY <1>3 DEF RemoveItem, NewFront, NewBack, Freed, Neighbours
<1>7. strayed' = FALSE
  BY <1>2, <1>5, <1>6 DEF Touch
<1>8. LinkedAround(cells', cells, p, count, k)
  <2>1. \A old : old = Bypass(p[k]) => LinkedAround(old, cells, p, count, k)
    BY <1>1, RemovalOnPath
  <2>2. \A old, new : /\ LinkedAround(old, cells, p, count, k)
                      /\ new = Forget(old, {p[k]})
                      => LinkedAround(new, cells, p, count, k)
    BY <1>1, ForgottenBesidePath
  <2> QED
    BY <1>6, <2>1, <2>2
<1>9. PICK q : q = Without(p, count, k)
  OBVIOUS
<1>10. /\ Path(q, count - 1, cells')
       /\ Reached(q, count - 1) = Reached(p, count) \ {p[k]}
       /\ Items(q, count - 1, cells') = RemoveAt(Items(p, count, cells), k)
  <2>1. \A new : LinkedAround(new, cells, p, count, k) =>
          /\ Path(q, count - 1, new)
          /\ Reached(q, count - 1) = Reached(p, count) \ {p[k]}
          /\ Items(q, count - 1, new) = RemoveAt(Items(p, count, cells), k)
    BY <1>1, <1>9, ShortenedPath
  <2> QED
    BY <1>8, <2>1
<1>11. count > 1 => /\ q[1] = IF k = 1 THEN p[2] ELSE p[1]
                    /\ q[count - 1] = IF k = count THEN p[count - 1] ELSE p[count]
  BY <1>1, <1>9 DEF Without
<1>12. Ends(q)'
  <2>1. CASE count = 1
    <3>1. before = Null /\ after = Null
      BY <1>3, <2>1
    <3> QED
      BY <1>6, <2>1, <3>1 DEF Ends
  <2>2. CASE count > 1
    <3>1. front' = q[1]
      <4>1. CASE k = 1
        BY <1>3, <1>6, <1>11, <2>2, <4>1
      <4>2. CASE k # 1
        BY <1>2, <1>3, <1>4, <1>6, <1>11, <2>2, <4>2
      <4> QED
        BY <4>1, <4>2
    <3>2. back' = q[count - 1]
      <4>1. CASE k = count
        BY <1>3, <1>6, <1>11, <2>2, <4>1
      <4>2. CASE k # count
        BY <1>2, <1>3, <1>4, <1>6, <1>11, <2>2, <4>2
      <4> QED
        BY <4>1, <4>2
    <3>3. count' # 0
      BY <1>1, <1>6, <2>2
    <3> QED
      BY <1>6, <3>1, <3>2, <3>3 DEF Ends
  <2> QED
    BY <1>1, <2>1, <2>2
<1>13. Closed(q)'
  <2>1. CASE count = 1
    BY <1>6, <2>1 DEF Closed
  <2>2. CASE count > 1
    <3>1. \A b \in Addresses \ {p[k]} :
            /\ cells'[b].next = IF b = before THEN after ELSE cells[b].next
            /\ cells'[b].prev = IF b = after THEN before ELSE cells[b].prev
      <4> SUFFICES ASSUME NEW b \in Addresses \ {p[k]}
                   PROVE  /\ cells'[b].next = IF b = before THEN after ELSE cells[b].next
                          /\ cells'[b].prev = IF b = after THEN before ELSE cells[b].prev
        OBVIOUS
      <4>1. PICK a \in Addresses : a = p[k]
        BY <1>2
      <4>2. /\ Bypass(a)[b].next = IF b = cells[a].prev THEN cells[a].next ELSE cells[b].next
            /\ Bypass(a)[b].prev = IF b = cells[a].next THEN cells[a].prev ELSE cells[b].prev
        BY BypassedCells
      <4>3. before = cells[a].prev /\ after = cells[a].next
        BY <1>3, <4>1
      <4>4. cells'[b] = Bypass(a)[b]
        <5>1. Bypass(a) \in [Addresses -> Cell] /\ cells' = Forget(Bypass(a), {a}) /\ b # a
          BY <1>6, <4>1, BypassedCells
        <5> QED
          BY <5>1 DEF Forget
      <4> QED
        BY <4>2, <4>3, <4>4
    <3>2. cells'[q[1]].prev = Null
      <4>1. CASE k = 1
        <5>1. q[1] = p[2] /\ after = p[2] /\ before = Null /\ 2 \in 1 .. count /\ 2 # k
          BY <1>1, <1>3, <1>11, <2>2, <4>1
        <5> QED
          BY <1>2, <3>1, <5>1
      <4>2. CASE k # 1
        <5>1. q[1] = p[1] /\ p[1] # p[k]
          BY <1>2, <1>11, <2>2, <4>2
        <5>2. p[1] # after
          <6>1. k # count => k + 1 \in 1 .. count /\ k + 1 # 1
            BY <1>1
          <6> QED
            BY <1>2, <1>3, <6>1
        <5> QED
          BY <1>2, <3>1, <5>1, <5>2
      <4> QED
        BY <4>1, <4>2
    <3>3. cells'[q[count - 1]].next = Null
      <4>1. CASE k = count
        <5>1. /\ q[count - 1] = p[count - 1] /\ before = p[count - 1] /\ after = Null
              /\ count - 1 \in 1 .. count /\ count - 1 # k
          BY <1>1, <1>3, <1>11, <2>2, <4>1
        <5> QED
          BY <1>2, <3>1, <5>1
      <4>2. CASE k # count
        <5>1. q[count - 1] = p[count] /\ p[count] # p[k]
          BY <1>2, <1>11, <2>2, <4>2
        <5>2. p[count] # before
          <6>1. k # 1 => k - 1 \in 1 .. count /\ k - 1 # count
            BY <1>1
          <6> QED
            BY <1>2, <1>3, <6>1
        <5> QED
          BY <1>2, <3>1, <5>1, <5>2
      <4> QED
        BY <4>1, <4>2
    <3> QED
      BY <1>6, <3>2, <3>3 DEF Closed
  <2> QED
    BY <1>1, <2>1, <2>2
<1>16. RemovedUpTo(q, k)' /\ k \in 1 .. count' + 1
  <2>1. k \in 1 .. count' + 1 /\ (k <= count' <=> k # count) /\ \A i \in 1 .. k - 1 : i < k
    BY <1>1, <1>6
  <2>2. cursor' = IF k <= count' THEN q[k] ELSE Null
    <3>1. k # count => q[k] = p[k + 1]
      BY <1>1, <1>9 DEF Without
    <3> QED
      BY <1>3, <1>6, <2>1, <3>1
  <2>3. ASSUME NEW i \in 1 .. k - 1 PROVE cells'[q[i]].data # Unwanted'
    <3>1. i \in 1 .. count /\ q[i] = p[i]
      BY <1>1, <1>9 DEF Without
    <3>2. cells'[p[i]].data = cells[p[i]].data
      BY <1>8, <3>1 DEF LinkedAround
    <3> QED
      BY <1>6, <3>1, <3>2 DEF RemovedUpTo, Unwanted
  <2> QED
    BY <2>1, <2>2, <2>3 DEF RemovedUpTo
<1>14. Shape(q)'
  BY <1>1, <1>5, <1>6, <1>10, <1>12, <1>13, <1>16 DEF Shape
<1>15. ListFields'
  <2>1. {front', back', cursor'} \subseteq Link
    BY <1>5, <1>6 DEF ListFields, Link
  <2>2. count' \in Nat
    BY <1>1, <1>6
  <2>3. cells' \in [Addresses -> Cell]
    BY <1>8 DEF LinkedAround
  <2> QED
    BY <1>6, <1>7, <2>1, <2>2, <2>3 DEF ListFields
<1> QED
  BY <1>6, <1>10, <1>14, <1>15 DEF Becomes

LEMMA RemoveStepStep ==
  ASSUME ListFields, NEW p, Shape(p), RemoveStep
  PROVE  /\ ListFields' /\ popped' = popped /\ listCall' = listCall
         /\ walk = "remove" /\ walk' = "remove" /\ listCall.name = "remove"
         /\ \/ Becomes(Items(p, count, cells))
            \/ \E k \in 1 .. count : /\ Items(p, count, cells)[k] = Unwanted
                                     /\ Becomes(RemoveAt(Items(p, count, cells), k))
<1>1. /\ walk = "remove" /\ cursor # Null /\ cursor' = cells[cursor].next
      /\ UNCHANGED <<walk, listCall, popped>> /\ listCall.name = "remove"
      /\ Path(p, count, cells) /\ Ends(p) /\ Closed(p) /\ live = Reached(p, count)
      /\ count \in Nat
  BY DEF RemoveStep, Shape, Path, ListFields, Following
<1>2. PICK k \in 1 .. count : RemovedUpTo(p, k) /\ cursor = p[k]
  <2>1. PICK k \in 1 .. count + 1 : RemovedUpTo(p, k)
    BY <1>1 DEF Shape
  <2>2. k <= count
    BY <1>1, <2>1 DEF RemovedUpTo
  <2> QED
    BY <1>1, <2>1, <2>2 DEF RemovedUpTo
<1>3. CASE cells[cursor].data = Unwanted /\ count > 0
  <2>1. RemoveItem(cursor)
    BY <1>3 DEF RemoveStep
  <2>2. Items(p, count, cells)[k] = Unwanted
    BY <1>2, <1>3 DEF Items
  <2>3. ListFields' /\ Becomes(RemoveAt(Items(p, count, cells), k))
    BY <1>1, <1>2, <2>1, RemoveItemStep
  <2> QED
    BY <1>1, <2>2, <2>3
<1>4. CASE ~(cells[cursor].data = Unwanted /\ count > 0)
  <2>1. Touch({cursor}) /\ UNCHANGED <<front, back, count, cells, live>>
    BY <1>4 DEF RemoveStep, list
  <2>2. strayed' = FALSE
    BY <1>1, <1>2, <2>1 DEF Touch, Reached
  <2>3. cursor' = IF k = count THEN Null ELSE p[k + 1]
    BY <1>1, <1>2, NeighboursOnPath
  <2>4. /\ k + 1 \in 1 .. count + 1 /\ (k + 1 <= count <=> k # count) /\ count > 0
        /\ \A i \in 1 .. (k + 1) - 1 : i = k \/ i \in 1 .. k - 1
    BY <1>1
  <2>5. RemovedUpTo(p, k + 1)'
    <3>1. ASSUME NEW i \in 1 .. (k + 1) - 1 PROVE cells'[p[i]].data # Unwanted'
      <4>1. CASE i = k
        BY <1>1, <1>2, <1>4, <2>1, <2>4, <4>1 DEF Unwanted
      <4>2. CASE i \in 1 .. k - 1
        BY <1>1, <1>2, <2>1, <4>2 DEF Unwanted, RemovedUpTo
      <4> QED
        BY <2>4, <4>1, <4>2
    <3>2. cursor' = IF k + 1 <= count' THEN p[k + 1] ELSE Null
      BY <2>1, <2>3, <2>4
    <3> QED
      BY <3>1, <3>2 DEF RemovedUpTo
  <2>6. Shape(p)'
    <3>1. Path(p, count', cells') /\ Ends(p)' /\ Closed(p)'
      BY <1>1, <2>1 DEF Ends, Closed
    <3>2. \E h \in 1 .. count' + 1 : RemovedUpTo(p, h)'
      BY <2>1, <2>4, <2>5
    <3> QED
      BY <1>1, <2>1, <3>1, <3>2 DEF Shape
  <2>7. cursor' \in Link
    BY <1>1, <2>3, <2>4 DEF Link, Path
  <2>8. ListFields'
    BY <1>1, <2>1, <2>2, <2>7 DEF ListFields
  <2> QED
    BY <1>1, <2>1, <2>6, <2>8 DEF Becomes
<1> QED
  BY <1>3, <1>4

-----------------------------------------------------------------------------
(* The list is a deque: what each step does to the items.                    *)
LEMMA PathHoldsContents ==
  ASSUME NEW p, Shape(p)
  PROVE  Contents = Items(p, count, cells)
<1>1. Path(p, count, cells) /\ (count > 0 => front = p[1])
  BY DEF Shape, Ends
<1> QED
  BY <1>1, LinksLeadAlong DEF Contents

LEMMA ContentsBecome ==
  ASSUME NEW items, Becomes(items)
  PROVE  Contents' = items /\ \E q : Shape(q)'
<1>1. PICK q : Shape(q)' /\ Items(q, count', cells') = items
  BY DEF Becomes
<1>2. /\ Path(q, count', cells')
      /\ count' > 0 => front' = q[1]
  BY <1>1 DEF Shape, Ends
<1>3. Contents' = Items(q, count', cells')
  <2>1. \A n, heap, first : Path(q, n, heap) /\ (n > 0 => first = q[1]) =>
          ItemsFrom(first, n, heap) = Items(q, n, heap)
    BY LinksLeadAlong
  <2>2. ItemsFrom(front', count', cells') = Items(q, count', cells')
    BY <1>2, <2>1
  <2> QED
    BY <2>2 DEF Contents
<1> QED
  BY <1>1, <1>3

(* Every step of the list is the step of the deque that the call promises.   *)
DequeMoves == AsDeque!DequeNext \/ UNCHANGED AsDeque!dequeVars

LEMMA CallIsCalled ==
  ASSUME Idle, NEW name, NEW d, NEW starved, ListCalled(name, d, starved)
  PROVE  AsDeque!Called(name, d, starved)
BY DEF Idle, ListCalled, AsDeque!Called

LEMMA ListStep ==
  ASSUME ListInv, [CarefulNext]_listVars
  PROVE  ListInv' /\ DequeMoves
<1>1. PICK p : ListFields /\ Shape(p)
  BY DEF ListInv
<1>2. /\ Contents = Items(p, count, cells)
      /\ DOMAIN Contents = 1 .. count
  BY <1>1, PathHoldsContents DEF Items
<1>3. ASSUME NEW items, ListFields', Becomes(items)
      PROVE  ListInv' /\ Contents' = items
  BY <1>3, ContentsBecome DEF ListInv
<1>0. (Contents # <<>>) = (count > 0)
  <2>1. count \in Nat /\ Contents = [i \in 1 .. count |-> cells[p[i]].data]
    BY <1>1, <1>2 DEF ListFields, Items
  <2>2. count = 0 => Contents = <<>>
    BY <2>1
  <2>3. count > 0 => 1 \in DOMAIN Contents
    BY <1>2, <2>1
  <2> QED
    BY <2>1, <2>2, <2>3
<1>4. ASSUME NEW d \in Data, NEW a \in Addresses, ListPushBack(d, a)
      PROVE  ListInv' /\ DequeMoves
  <2>1. /\ Idle /\ ListCalled("push_back", d, FALSE)
        /\ popped' = popped /\ walk' = walk
    BY <1>4 DEF ListPushBack, ListPush, walking
  <2>2. ListInv' /\ Contents' = Append(Contents, d)
    BY <1>1, <1>2, <1>3, <1>4, PushBackStep
  <2>3. AsDeque!PushBack(d)
    BY <2>1, <2>2, CallIsCalled DEF AsDeque!PushBack
  <2> QED
    BY <2>2, <2>3 DEF DequeMoves, AsDeque!DequeNext
<1>5. ASSUME NEW d \in Data, NEW a \in Addresses, ListPushFront(d, a)
      PROVE  ListInv' /\ DequeMoves
  <2>1. /\ Idle /\ ListCalled("push_front", d, FALSE)
        /\ popped' = popped /\ walk' = walk
    BY <1>5 DEF ListPushFront, ListPush, walking
  <2>2. ListInv' /\ Contents' = <<d>> \o Contents
    BY <1>1, <1>2, <1>3, <1>5, PushFrontStep
  <2>3. AsDeque!PushFront(d)
    BY <2>1, <2>2, CallIsCalled DEF AsDeque!PushFront
  <2> QED
    BY <2>2, <2>3 DEF DequeMoves, AsDeque!DequeNext
<1>6. ASSUME NEW d \in Data, NEW name \in {"push_back", "push_front"}, PushFails(name, d)
      PROVE  ListInv' /\ DequeMoves
  <2>1. /\ Idle /\ ListCalled(name, d, TRUE) /\ UNCHANGED <<list, walking, popped, strayed>>
        /\ popped' = popped /\ walk' = walk
    BY <1>6 DEF PushFails, walking
  <2>2. listCall' \in ListCall
    BY <1>1, <2>1, CallsAreListCalls, NamesAndData
  <2>3. ListInv' /\ Contents' = Contents
    BY <1>1, <1>2, <1>3, <2>1, <2>2, IdleCallStep
  <2>4. AsDeque!StarvedPush(d)
    BY <2>1, <2>3, CallIsCalled DEF AsDeque!StarvedPush
  <2> QED
    BY <2>3, <2>4 DEF DequeMoves, AsDeque!DequeNext
<1>7. ASSUME NEW name \in {"pop_back", "pop_front"}, PopNothing(name)
      PROVE  ListInv' /\ DequeMoves
  <2>1. Idle /\ ListCalled(name, NoData, FALSE) /\ popped' = NoData /\ walk' = walk
    BY <1>7 DEF PopNothing, walking
  <2>2. ListInv' /\ Contents = <<>> /\ Contents' = Contents
    BY <1>1, <1>2, <1>3, <1>7, PopNothingStep
  <2>3. AsDeque!PopBack \/ AsDeque!PopFront
    BY <2>1, <2>2, CallIsCalled DEF AsDeque!PopBack, AsDeque!PopFront
  <2> QED
    BY <2>2, <2>3 DEF DequeMoves, AsDeque!DequeNext
<1>8. CASE ListPopBack
  <2>1. Idle /\ ListCalled("pop_back", NoData, FALSE) /\ walk' = walk
    BY <1>8 DEF ListPopBack, Pop, walking
  <2>2. /\ Contents # <<>> /\ popped' = Last(Contents)
        /\ ListInv' /\ Contents' = Front(Contents)
    BY <1>1, <1>2, <1>3, <1>8, PopBackStep
  <2>3. AsDeque!PopBack
    BY <2>1, <2>2, CallIsCalled
    DEF AsDeque!PopBack, AsDeque!Front, Front, AsDeque!Last, Last
  <2> QED
    BY <2>2, <2>3 DEF DequeMoves, AsDeque!DequeNext
<1>9. CASE ListPopFront
  <2>1. Idle /\ ListCalled("pop_front", NoData, FALSE) /\ walk' = walk
    BY <1>9 DEF ListPopFront, Pop, walking
  <2>2. /\ Contents # <<>> /\ popped' = Head(Contents)
        /\ ListInv' /\ Contents' = Tail(Contents)
    BY <1>1, <1>2, <1>3, <1>9, PopFrontStep
  <2>3. AsDeque!PopFront
    BY <2>1, <2>2, CallIsCalled DEF AsDeque!PopFront
  <2> QED
    BY <2>2, <2>3 DEF DequeMoves, AsDeque!DequeNext
<1>10. ASSUME NEW w \in {"remove", "clear"}, NEW d \in Datum,
              w = "remove" => d \in Data, w = "clear" => d = NoData,
              \/ StartWalk(w, d) /\ EndsClosed
              \/ WalkNothing(w, d)
       PROVE  ListInv' /\ DequeMoves
  <2>1. /\ Idle /\ ListCalled(w, d, FALSE) /\ popped' = popped
        /\ (walk' # "none") = (Contents # <<>>)
    <3>1. CASE StartWalk(w, d)
      <4>1. walk' # "none" /\ Contents # <<>>
        BY <1>0, <3>1 DEF StartWalk
      <4> QED
        BY <3>1, <4>1 DEF StartWalk
    <3>2. CASE WalkNothing(w, d)
      <4>1. walk' = "none" /\ Contents = <<>>
        BY <1>0, <3>2 DEF WalkNothing, Idle, walking
      <4> QED
        BY <3>2, <4>1 DEF WalkNothing
    <3> QED
      BY <1>10, <3>1, <3>2
  <2>2. ListInv' /\ Contents' = Contents
    <3>1. CASE StartWalk(w, d) /\ EndsClosed
      BY <1>1, <1>2, <1>3, <3>1, StartWalkStep
    <3>2. CASE WalkNothing(w, d)
      <4>1. listCall' \in ListCall
        BY <1>1, <2>1, CallsAreListCalls, NamesAndData
      <4> QED
        BY <1>1, <1>2, <1>3, <3>2, <4>1, IdleCallStep DEF WalkNothing
    <3> QED
      BY <1>10, <3>1, <3>2
  <2>3. AsDeque!Called(w, d, FALSE)
    BY <2>1, CallIsCalled
  <2>4. CASE w = "remove"
    <3>1. AsDeque!RemovalBegins(d) /\ d \in Data
      BY <1>10, <2>1, <2>2, <2>3, <2>4 DEF AsDeque!RemovalBegins
    <3> QED
      BY <2>2, <3>1 DEF DequeMoves, AsDeque!DequeNext
  <2>5. CASE w = "clear"
    <3>1. AsDeque!ClearingBegins
      BY <1>10, <2>1, <2>2, <2>3, <2>5 DEF AsDeque!ClearingBegins
    <3> QED
      BY <2>2, <3>1 DEF DequeMoves, AsDeque!DequeNext
  <2> QED
    BY <2>4, <2>5
<1>11. CASE RemoveStep
  <2>1. /\ ListFields' /\ popped' = popped /\ listCall' = listCall
        /\ walk = "remove" /\ walk' = "remove" /\ listCall.name = "remove"
        /\ \/ Becomes(Contents)
           \/ \E k \in 1 .. count : Contents[k] = Unwanted /\ Becomes(RemoveAt(Contents, k))
    BY <1>1, <1>2, <1>11, RemoveStepStep
  <2>2. CASE Becomes(Contents)
    BY <1>3, <2>1, <2>2 DEF DequeMoves, AsDeque!dequeVars
  <2>3. CASE ~Becomes(Contents)
    <3>1. PICK k \in 1 .. count : Contents[k] = Unwanted /\ Becomes(RemoveAt(Contents, k))
      BY <2>1, <2>3
    <3>2. ListInv' /\ Contents' = RemoveAt(Contents, k)
      BY <1>3, <2>1, <3>1
    <3>3. AsDeque!RemoveOne
      BY <1>2, <2>1, <3>1, <3>2
      DEF AsDeque!RemoveOne, AsDeque!RemoveAt, RemoveAt, Unwanted
    <3> QED
      BY <3>2, <3>3 DEF DequeMoves, AsDeque!DequeNext
  <2> QED
    BY <2>2, <2>3
<1>12. CASE ClearStep
  <2>1. ListInv' /\ Contents' = Contents /\ popped' = popped
    BY <1>1, <1>2, <1>3, <1>12, ClearStepStep
  <2> QED
    BY <1>12, <2>1 DEF ClearStep, DequeMoves, AsDeque!dequeVars
<1>13. CASE EndWalk
  <2>1. walk # "none" /\ walk' = "none" /\ listCall' = listCall /\ popped' = popped
    BY <1>13 DEF EndWalk
  <2>2. listCall.name = walk
    BY <1>1, <2>1 DEF ListFields
  <2>3. CASE walk = "clear" /\ Becomes(<<>>)
    <3>1. ListInv' /\ Contents' = <<>>
      BY <1>1, <1>3, <1>13, <2>3, EndWalkStep
    <3>2. AsDeque!ClearingEnds
      BY <2>1, <2>2, <2>3, <3>1 DEF AsDeque!ClearingEnds
    <3> QED
      BY <3>1, <3>2 DEF DequeMoves, AsDeque!DequeNext
  <2>4. CASE /\ walk = "remove" /\ Becomes(Contents)
             /\ \A i \in 1 .. count : Contents[i] # Unwanted
    <3>1. ListInv' /\ Contents' = Contents
      BY <1>1, <1>3, <1>13, <2>4, EndWalkStep
    <3>2. AsDeque!RemovalEnds
      BY <1>2, <2>1, <2>2, <2>4, <3>1 DEF AsDeque!RemovalEnds, Unwanted
    <3> QED
      BY <3>1, <3>2 DEF DequeMoves, AsDeque!DequeNext
  <2> QED
    BY <1>1, <1>2, <1>13, <2>3, <2>4, EndWalkStep
<1>14. CASE UNCHANGED listVars
  <2>1. /\ UNCHANGED <<front, back, count, cells, live>>
        /\ UNCHANGED <<walk, cursor, listCall, popped, strayed>>
    BY <1>14 DEF listVars, list, walking
  <2>2. ListFields' /\ Shape(p)'
    BY <1>1, <2>1 DEF ListFields, Shape, Ends, Closed, ClearedUpTo, RemovedUpTo, Unwanted
  <2>3. Contents' = Contents
    BY <2>1 DEF Contents
  <2> QED
    BY <2>1, <2>2, <2>3 DEF ListInv, DequeMoves, AsDeque!dequeVars
<1>15. CASE CarefulNext
  <2>1. ListNext /\ (walk = "none" /\ walk' # "none" => EndsClosed)
    BY <1>15 DEF CarefulNext
  <2>2. ASSUME NEW w \in {"remove", "clear"}, NEW d, StartWalk(w, d)
        PROVE  EndsClosed
    BY <2>1, <2>2 DEF StartWalk, Idle
  <2>3. ASSUME NEW d \in Data, StartWalk("remove", d) \/ WalkNothing("remove", d)
        PROVE  ListInv' /\ DequeMoves
    BY <1>10, <2>2, <2>3, NamesAndData
  <2>4. ASSUME StartWalk("clear", NoData) \/ WalkNothing("clear", NoData)
        PROVE  ListInv' /\ DequeMoves
    BY <1>10, <2>2, <2>4, NamesAndData
  <2> QED
    BY <1>4, <1>5, <1>6, <1>7, <1>8, <1>9, <1>11, <1>12, <1>13, <2>1, <2>3, <2>4
    DEF ListNext, Walks
<1> QED
  BY <1>14, <1>15

LEMMA ListInvariant == CarefulSpec => []ListInv
<1>1. ListInit => ListInv
  BY ListInitInv DEF ListInv
<1>2. ListInv /\ [CarefulNext]_listVars => ListInv'
  BY ListStep
<1> QED
  BY <1>1, <1>2, PTL DEF CarefulSpec

(* The links of the list lead to cells of the heap, and between calls the    *)
(* list owns exactly as many cells as it has items (list_push_back to        *)
(* list_remove_by_data in list.c): nothing leaks, for any heap and any data. *)
THEOREM ListTypeCorrect == CarefulSpec => []ListTypeOK
<1>1. ListInv => ListTypeOK
  <2> SUFFICES ASSUME ListInv PROVE ListTypeOK
    OBVIOUS
  <2>1. PICK p : ListFields /\ Shape(p)
    BY DEF ListInv
  <2>2. walk # "clear" => Cardinality(live) = count
    BY <2>1, PathCounts DEF Shape
  <2> QED
    BY <2>1, <2>2 DEF ListFields, ListTypeOK, Datum
<1> QED
  BY <1>1, ListInvariant, PTL

(* A caller that only walks a list with closed ends never has it follow a    *)
(* link into a cell that was freed (list_remove_by_data and list_clear in    *)
(* list.c), however many items there are and in whatever order they came.    *)
THEOREM WalksAlwaysStayInside == CarefulSpec => []WalksStayInside
<1>1. ListInv => WalksStayInside
  BY DEF ListInv, ListFields, WalksStayInside
<1> QED
  BY <1>1, ListInvariant, PTL

LEMMA ListInitRefines == ListInit => AsDeque!DequeInit
<1> SUFFICES ASSUME ListInit PROVE AsDeque!DequeInit
  OBVIOUS
<1>1. PICK p : Shape(p) /\ Items(p, count, cells) = <<>>
  BY ListInitInv
<1>2. Contents = <<>>
  BY <1>1, PathHoldsContents
<1> QED
  BY <1>2 DEF AsDeque!DequeInit, ListInit

(* To a caller that only walks a list with closed ends, the linked cells are *)
(* a sequence, and each call of list.c does to it what that call promises:   *)
(* a push or a pop works on its own end, list_remove_by_data has removed     *)
(* every occurrence of its datum and nothing else when it returns, and       *)
(* list_clear has removed everything, for any number of items.               *)
THEOREM ListImplementsDeque == CarefulSpec => ImplementsDeque
<1>1. ListInv /\ [CarefulNext]_listVars => [AsDeque!DequeNext]_AsDeque!dequeVars
  BY ListStep DEF DequeMoves
<1>2. ListInit /\ [][CarefulNext]_listVars /\ []ListInv =>
        AsDeque!DequeInit /\ [][AsDeque!DequeNext]_AsDeque!dequeVars
  BY <1>1, ListInitRefines, PTL
<1>3. ImplementsDeque <=> AsDeque!DequeInit /\ [][AsDeque!DequeNext]_AsDeque!dequeVars
  BY DEF ImplementsDeque, AsDeque!DequeSpec
<1> QED
  BY <1>2, <1>3, ListInvariant, PTL DEF CarefulSpec
=============================================================================

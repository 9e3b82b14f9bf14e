--------------------------- MODULE SequenceLemmas ---------------------------
(***************************************************************************)
(* What the containers do to their arrays, in general: take a part, drop   *)
(* the last element, move the last element further to the front.           *)
(***************************************************************************)
EXTENDS SequencesExt, Sifting, SequenceTheorems, WellFoundedInduction, TLAPS

(* A function on 1 .. n is a sequence.                                       *)
LEMMA FunctionIsSeq ==
  ASSUME NEW S, NEW n \in Nat, NEW f \in [1 .. n -> S]
  PROVE  f \in Seq(S) /\ Len(f) = n
<1>1. f \in Seq(S)
  BY SeqDef
<1>2. DOMAIN f = 1 .. Len(f) /\ Len(f) \in Nat
  BY <1>1, LenProperties
<1> QED
  BY <1>1, <1>2

(* The elements from m to n.                                                 *)
LEMMA Part ==
  ASSUME NEW S, NEW seq \in Seq(S),
         NEW m \in Nat \ {0}, NEW length \in Nat, m + length - 1 <= Len(seq)
  PROVE  LET part == SubSeq(seq, m, m + length - 1)
         IN  /\ part \in Seq(S)
             /\ Len(part) = length
             /\ \A i \in 1 .. length : part[i] = seq[m + i - 1]
<1> DEFINE n == m + length - 1
<1>1. Len(seq) \in Nat /\ n \in Int /\ n <= Len(seq)
  BY LenProperties
<1>2. \A i \in 1 .. Len(seq) : seq[i] \in S
  BY ElementOfSeq
<1>3. \A i \in m .. n : seq[i] \in S
  BY <1>1, <1>2
<1>4. /\ n - m + 1 = length
      /\ (IF m <= n THEN n - m + 1 ELSE 0) = length
  BY DEF n
<1> HIDE DEF n
<1>5. /\ SubSeq(seq, m, n) \in Seq(S)
      /\ Len(SubSeq(seq, m, n)) = IF m <= n THEN n - m + 1 ELSE 0
      /\ \A i \in 1 .. n - m + 1 : SubSeq(seq, m, n)[i] = seq[m + i - 1]
  BY <1>1, <1>3, SubSeqProperties
<1>6. /\ SubSeq(seq, m, n) \in Seq(S)
      /\ Len(SubSeq(seq, m, n)) = length
      /\ \A i \in 1 .. length : SubSeq(seq, m, n)[i] = seq[m + i - 1]
  BY <1>4, <1>5
<1> QED
  BY <1>6 DEF n

(* One sequence after another.                                               *)
Follows(both, first, second) ==
  /\ Len(first) \in Nat /\ Len(second) \in Nat
  /\ Len(both) = Len(first) + Len(second)
  /\ \A i \in 1 .. Len(first) : both[i] = first[i]
  /\ \A i \in 1 .. Len(second) : both[Len(first) + i] = second[i]

LEMMA Concatenated ==
  ASSUME NEW S, NEW first \in Seq(S), NEW second \in Seq(S)
  PROVE  Follows(first \o second, first, second)
BY ConcatProperties, LenProperties DEF Follows

(* The first n elements.                                                     *)
LEMMA Counted ==
  ASSUME NEW S, NEW seq \in Seq(S), NEW n \in 0 .. Len(seq)
  PROVE  /\ SubSeq(seq, 1, n) \in Seq(S)
         /\ Len(SubSeq(seq, 1, n)) = n
         /\ \A i \in 1 .. n : SubSeq(seq, 1, n)[i] = seq[i]
<1>1. Len(seq) \in Nat /\ n \in Int
  BY LenProperties
<1>2. \A i \in 1 .. n : seq[i] \in S
  BY <1>1, ElementOfSeq
<1> QED
  BY <1>1, <1>2, SubSeqProperties

LEMMA SameCounted ==
  ASSUME NEW S, NEW old \in Seq(S), NEW new \in Seq(S),
         NEW n \in 0 .. Len(old), n \in 0 .. Len(new),
         \A i \in 1 .. n : new[i] = old[i]
  PROVE  SubSeq(new, 1, n) = SubSeq(old, 1, n)
BY Counted, SeqEqual

LEMMA FrontOfCounted ==
  ASSUME NEW S, NEW seq \in Seq(S), NEW n \in 1 .. Len(seq)
  PROVE  /\ Front(SubSeq(seq, 1, n)) = SubSeq(seq, 1, n - 1)
         /\ Last(SubSeq(seq, 1, n)) = seq[n]
         /\ SubSeq(seq, 1, n) # <<>>
<1> DEFINE counted == SubSeq(seq, 1, n)
<1>1. Len(seq) \in Nat /\ n \in 0 .. Len(seq) /\ n - 1 \in 0 .. Len(seq) /\ n \in 1 .. n
  BY LenProperties
<1>2. /\ counted \in Seq(S) /\ Len(counted) = n
      /\ \A i \in 1 .. n : counted[i] = seq[i]
  BY <1>1, Counted
<1> HIDE DEF counted
<1>3. SubSeq(counted, 1, n - 1) = SubSeq(seq, 1, n - 1)
  <2>1. n - 1 \in 0 .. Len(counted) /\ \A i \in 1 .. n - 1 : counted[i] = seq[i]
    BY <1>1, <1>2
  <2> QED
    BY <1>1, <1>2, <2>1, SameCounted
<1>4. Front(counted) = SubSeq(seq, 1, n - 1) /\ Last(counted) = seq[n]
  BY <1>1, <1>2, <1>3 DEF Front, Last
<1>5. counted # <<>>
  BY <1>1, <1>2
<1> QED
  BY <1>4, <1>5 DEF counted

LEMMA HeadTailOfLine ==
  ASSUME NEW S, NEW first \in S, NEW rest \in Seq(S)
  PROVE  /\ <<first>> \o rest # <<>>
         /\ Head(<<first>> \o rest) = first
         /\ Tail(<<first>> \o rest) = rest
<1> DEFINE line == <<first>> \o rest
<1>1. Len(rest) \in Nat
  BY LenProperties
<1>2. /\ line \in Seq(S) /\ Len(line) = Len(rest) + 1
      /\ line[1] = first
      /\ \A i \in 1 .. Len(rest) : line[i + 1] = rest[i]
  BY <1>1
<1> HIDE DEF line
<1>3. line # <<>>
  BY <1>1, <1>2
<1>4. Head(line) = first
  BY <1>2, <1>3
<1>5. /\ Tail(line) \in Seq(S) /\ Len(Tail(line)) = Len(rest)
      /\ \A i \in 1 .. Len(rest) : Tail(line)[i] = line[i + 1]
  BY <1>1, <1>2, <1>3, HeadTailProperties
<1>6. Tail(line) = rest
  <2>1. \A i \in 1 .. Len(rest) : Tail(line)[i] = rest[i]
    BY <1>2, <1>5
  <2> QED
    BY <1>5, <2>1, SeqEqual
<1> QED
  BY <1>3, <1>4, <1>6 DEF line

LEMMA FrontProperties ==
  ASSUME NEW S, NEW seq \in Seq(S), seq # <<>>
  PROVE  /\ Len(seq) \in Nat \ {0}
         /\ Front(seq) \in Seq(S)
         /\ Len(Front(seq)) = Len(seq) - 1
         /\ \A i \in 1 .. Len(seq) - 1 : Front(seq)[i] = seq[i]
         /\ Last(seq) \in S /\ Last(seq) = seq[Len(seq)]
<1>1. Len(seq) \in Nat \ {0} /\ Len(seq) - 1 \in 0 .. Len(seq)
  BY EmptySeq
<1>2. Last(seq) \in S /\ Last(seq) = seq[Len(seq)]
  BY <1>1, ElementOfSeq DEF Last
<1> QED
  BY <1>1, <1>2, Counted DEF Front

(* An element goes in behind the first k.                                    *)
GoesIn(new, old, k, element) ==
  /\ Len(new) = Len(old) + 1
  /\ \A i \in 1 .. k : new[i] = old[i]
  /\ new[k + 1] = element
  /\ \A i \in k + 2 .. Len(old) + 1 : new[i] = old[i - 1]

LEMMA Inserted ==
  ASSUME NEW S, NEW f \in Seq(S), NEW moving \in S, NEW k \in 0 .. Len(f)
  PROVE  /\ InsertAt(f, k + 1, moving) \in Seq(S)
         /\ GoesIn(InsertAt(f, k + 1, moving), f, k, moving)
<1> DEFINE n == Len(f) + 1
           new == InsertAt(f, k + 1, moving)
           left == SubSeq(f, 1, k)
           right == SubSeq(f, k + 1, n - 1)
           begin == left \o <<moving>>
<1>1. Len(f) \in Nat /\ n \in Nat \ {0} /\ Len(f) = n - 1
  BY LenProperties
<1>2. /\ k \in Nat /\ k + 1 \in Nat \ {0} /\ n - 1 - k \in Nat
      /\ k + 1 - 1 = k /\ (k + 1) + (n - 1 - k) - 1 = n - 1
      /\ k \in 0 .. n - 1
  BY <1>1
<1>3. new = begin \o right
  <2> DEFINE place == k + 1
  <2>1. place - 1 = k
    BY <1>2
  <2> HIDE DEF n, place
  <2>2. InsertAt(f, place, moving)
          = SubSeq(f, 1, place - 1) \o <<moving>> \o SubSeq(f, place, Len(f))
    BY DEF InsertAt
  <2>3. InsertAt(f, place, moving) = SubSeq(f, 1, k) \o <<moving>> \o SubSeq(f, place, n - 1)
    BY <1>1, <2>1, <2>2
  <2> QED
    BY <2>3 DEF place
<1> HIDE DEF n, new
<1>4. left \in Seq(S) /\ Len(left) = k /\ \A i \in 1 .. k : left[i] = f[i]
  BY <1>1, <1>2, Counted
<1>5. /\ right \in Seq(S) /\ Len(right) = n - 1 - k
      /\ \A i \in 1 .. n - 1 - k : right[i] = f[(k + 1) + i - 1]
  <2> DEFINE length == n - 1 - k
             m == k + 1
  <2>1. /\ length \in Nat /\ m \in Nat \ {0}
        /\ m + length - 1 = n - 1 /\ m + length - 1 <= Len(f)
    BY <1>1, <1>2
  <2> HIDE DEF length, m
  <2>2. LET part == SubSeq(f, m, m + length - 1)
        IN  /\ part \in Seq(S) /\ Len(part) = length
            /\ \A i \in 1 .. length : part[i] = f[m + i - 1]
    BY <2>1, Part
  <2>3. LET part == SubSeq(f, m, n - 1)
        IN  /\ part \in Seq(S) /\ Len(part) = length
            /\ \A i \in 1 .. length : part[i] = f[m + i - 1]
    BY <2>1, <2>2
  <2> QED
    BY <2>3 DEF length, m
<1> HIDE DEF left, right
<1>6. begin = Append(left, moving)
  BY <1>1, <1>4, AppendIsConcat
<1>7. /\ begin \in Seq(S) /\ Len(begin) = k + 1
      /\ \A i \in 1 .. k : begin[i] = left[i]
      /\ begin[k + 1] = moving
  <2>1. /\ Append(left, moving) \in Seq(S) /\ Len(Append(left, moving)) = k + 1
        /\ \A i \in 1 .. k : Append(left, moving)[i] = left[i]
        /\ Append(left, moving)[k + 1] = moving
    BY <1>1, <1>4, AppendProperties
  <2> QED
    BY <1>6, <2>1
<1> HIDE DEF begin
<1>8. /\ new \in Seq(S) /\ Len(new) = n
      /\ \A i \in 1 .. n : new[i] = IF i <= k + 1 THEN begin[i] ELSE right[i - (k + 1)]
  <2>1. Len(begin) + Len(right) = n
    BY <1>1, <1>2, <1>5, <1>7
  <2>2. /\ begin \o right \in Seq(S)
        /\ Len(begin \o right) = Len(begin) + Len(right)
        /\ \A i \in 1 .. Len(begin) + Len(right) :
             (begin \o right)[i] = IF i <= Len(begin) THEN begin[i] ELSE right[i - Len(begin)]
    BY <1>5, <1>7, ConcatProperties
  <2> QED
    BY <1>3, <1>7, <2>1, <2>2
<1>9. \A i \in 1 .. k : new[i] = f[i]
  BY <1>1, <1>2, <1>4, <1>7, <1>8
<1>10. new[k + 1] = moving
  <2>1. k + 1 \in 1 .. n /\ k + 1 <= k + 1
    BY <1>1, <1>2
  <2>2. new[k + 1] = begin[k + 1]
    BY <1>8, <2>1
  <2> QED
    BY <1>7, <2>2
<1>11. \A i \in k + 2 .. n : new[i] = f[i - 1]
  <2> SUFFICES ASSUME NEW i \in k + 2 .. n PROVE new[i] = f[i - 1]
    OBVIOUS
  <2>1. /\ i - (k + 1) \in 1 .. n - 1 - k /\ (k + 1) + (i - (k + 1)) - 1 = i - 1
        /\ i - 1 \in 1 .. n - 1 /\ i \in 1 .. n /\ ~(i <= k + 1)
    BY <1>1, <1>2
  <2>2. new[i] = right[i - (k + 1)]
    BY <1>8, <2>1
  <2>3. right[i - (k + 1)] = f[i - 1]
    BY <1>5, <2>1
  <2> QED
    BY <2>2, <2>3
<1> QED
  BY <1>8, <1>9, <1>10, <1>11 DEF n, new, GoesIn

(* The last element moves behind the first k others.                         *)
Moved(seq, k) == InsertAt(Front(seq), k + 1, Last(seq))

LEMMA MovedProperties ==
  ASSUME NEW S, NEW seq \in Seq(S), seq # <<>>, NEW k \in 0 .. Len(seq) - 1
  PROVE  /\ Moved(seq, k) \in Seq(S)
         /\ Len(Moved(seq, k)) = Len(seq)
         /\ \A i \in 1 .. k : Moved(seq, k)[i] = seq[i]
         /\ Moved(seq, k)[k + 1] = seq[Len(seq)]
         /\ \A i \in k + 2 .. Len(seq) : Moved(seq, k)[i] = seq[i - 1]
<1> DEFINE n == Len(seq)
           f == Front(seq)
           moving == Last(seq)
           new == InsertAt(f, k + 1, moving)
<1>1. /\ n \in Nat \ {0} /\ f \in Seq(S) /\ Len(f) = n - 1
      /\ \A i \in 1 .. n - 1 : f[i] = seq[i]
      /\ moving \in S /\ moving = seq[n]
  BY FrontProperties
<1>2. Len(f) + 1 = n /\ k \in 0 .. Len(f)
  BY <1>1
<1>3. Moved(seq, k) = new
  BY DEF Moved
<1> HIDE DEF n, f, moving
<1>4. /\ new \in Seq(S) /\ Len(new) = n
      /\ \A i \in 1 .. k : new[i] = f[i]
      /\ new[k + 1] = moving
      /\ \A i \in k + 2 .. n : new[i] = f[i - 1]
  <2>1. new \in Seq(S) /\ GoesIn(new, f, k, moving)
    BY <1>1, <1>2, Inserted
  <2> QED
    BY <1>2, <2>1 DEF GoesIn
<1> HIDE DEF new
<1>5. \A i \in 1 .. k : new[i] = seq[i]
  BY <1>1, <1>2, <1>4
<1>6. \A i \in k + 2 .. n : new[i] = seq[i - 1]
  BY <1>1, <1>2, <1>4
<1> QED
  BY <1>1, <1>3, <1>4, <1>5, <1>6 DEF n

(* The element at k comes out.                                               *)
ComesOut(new, old, k) ==
  /\ Len(new) = Len(old) - 1
  /\ \A i \in 1 .. k - 1 : new[i] = old[i]
  /\ \A i \in k .. Len(old) - 1 : new[i] = old[i + 1]

LEMMA Removed ==
  ASSUME NEW S, NEW seq \in Seq(S), NEW k \in 1 .. Len(seq)
  PROVE  RemoveAt(seq, k) \in Seq(S) /\ ComesOut(RemoveAt(seq, k), seq, k)
<1> DEFINE n == Len(seq)
           new == RemoveAt(seq, k)
           m == k + 1
           left == SubSeq(seq, 1, k - 1)
           right == SubSeq(seq, m, n)
           length == n - k
<1>1. /\ n \in Nat /\ k \in Nat /\ k - 1 \in 0 .. n
      /\ m \in Nat \ {0} /\ length \in Nat
      /\ m + length - 1 = n
      /\ (k - 1) + length = n - 1
  BY LenProperties
<1>2. new = left \o right
  BY DEF RemoveAt
<1>3. left \in Seq(S) /\ Len(left) = k - 1 /\ \A i \in 1 .. k - 1 : left[i] = seq[i]
  BY <1>1, Counted
<1>4. /\ right \in Seq(S) /\ Len(right) = length
      /\ \A i \in 1 .. length : right[i] = seq[m + i - 1]
  <2> HIDE DEF length, m, n
  <2>1. n <= Len(seq)
    BY <1>1 DEF n
  <2>2. LET part == SubSeq(seq, m, m + length - 1)
        IN  /\ part \in Seq(S) /\ Len(part) = length
            /\ \A i \in 1 .. length : part[i] = seq[m + i - 1]
    BY <1>1, <2>1, Part
  <2> QED
    BY <1>1, <2>2
<1> HIDE DEF left, right, new
<1>5. /\ new \in Seq(S)
      /\ Len(new) = (k - 1) + length
      /\ \A i \in 1 .. (k - 1) + length :
           new[i] = IF i <= k - 1 THEN left[i] ELSE right[i - (k - 1)]
  BY <1>2, <1>3, <1>4, ConcatProperties
<1>6. ASSUME NEW i \in 1 .. k - 1 PROVE new[i] = seq[i]
  <2>1. i \in 1 .. (k - 1) + length /\ i <= k - 1
    BY <1>1
  <2> QED
    BY <1>3, <1>5, <2>1
<1>7. \A i \in k .. n - 1 : new[i] = seq[i + 1]
  <2> SUFFICES ASSUME NEW i \in k .. n - 1 PROVE new[i] = seq[i + 1]
    OBVIOUS
  <2>1. /\ i \in 1 .. (k - 1) + length /\ ~(i <= k - 1)
        /\ i - (k - 1) \in 1 .. length /\ m + (i - (k - 1)) - 1 = i + 1
    BY <1>1
  <2> QED
    BY <1>4, <1>5, <2>1
<1> QED
  BY <1>1, <1>5, <1>6, <1>7 DEF n, new, ComesOut

-----------------------------------------------------------------------------
(* Induction.  The theorems of NaturalsInduction take a predicate; these     *)
(* take a set, and follow from the fact that < is well-founded.              *)

Smaller == {pair \in Nat \X Nat : pair[1] < pair[2]}

LEMMA SmallestIn ==
  ASSUME NEW S, S \subseteq Nat, S # {}
  PROVE  \E m \in S : \A n \in S : m <= n
<1>1. IsWellFoundedOn(Smaller, Nat)
  BY NatLessThanWellFounded DEF OpToRel, Smaller
<1>2. PICK m \in S : \A n \in S : <<n, m>> \notin Smaller
  BY <1>1, WFMin
<1>3. \A n \in S : ~(n < m)
  BY <1>2 DEF Smaller
<1> QED
  BY <1>3

LEMMA Induction ==
  ASSUME NEW S, 0 \in S, \A n \in Nat : n \in S => n + 1 \in S
  PROVE  Nat \subseteq S
<1> SUFFICES ASSUME Nat \ S # {} PROVE FALSE
  OBVIOUS
<1>1. PICK m \in Nat \ S : \A n \in Nat \ S : m <= n
  BY SmallestIn
<1>2. m - 1 \in Nat /\ m - 1 \in S
  BY <1>1
<1>3. (m - 1) + 1 \in S
  BY <1>2
<1> QED
  BY <1>1, <1>3

(* f starts with base and goes on with step, a function of an index and the  *)
(* value before it.                                                          *)
Recurses(f, n, S, base, step) ==
  /\ f \in [0 .. n -> S]
  /\ f[0] = base
  /\ \A k \in 1 .. n : f[k] = step[<<k, f[k - 1]>>]

StaysIn(S, n, base, step) ==
  base \in S /\ \A k \in 1 .. n, s \in S : step[<<k, s>>] \in S

(* A function on 0 .. n that is defined by recursion exists.                 *)
LEMMA Recursion ==
  ASSUME NEW n \in Nat, NEW S, NEW base, NEW step, StaysIn(S, n, base, step)
  PROVE  \E f : Recurses(f, n, S, base, step)
<1> DEFINE Good == {m \in Nat : m <= n => \E f : Recurses(f, m, S, base, step)}
<1>1. 0 \in Good
  <2>1. Recurses([k \in 0 .. 0 |-> base], 0, S, base, step)
    BY DEF Recurses, StaysIn
  <2> QED
    BY <2>1
<1>2. ASSUME NEW m \in Nat, m \in Good PROVE m + 1 \in Good
  <2> SUFFICES ASSUME m + 1 <= n PROVE \E f : Recurses(f, m + 1, S, base, step)
    OBVIOUS
  <2>1. PICK f : Recurses(f, m, S, base, step)
    BY <1>2
  <2> DEFINE next == step[<<m + 1, f[m]>>]
             g == [k \in 0 .. m + 1 |-> IF k = m + 1 THEN next ELSE f[k]]
  <2>2. next \in S
    BY <2>1 DEF Recurses, StaysIn
  <2>3. g \in [0 .. m + 1 -> S]
    BY <2>1, <2>2 DEF Recurses
  <2>4. g[0] = base
    BY <2>1 DEF Recurses
  <2>5. ASSUME NEW k \in 1 .. m + 1 PROVE g[k] = step[<<k, g[k - 1]>>]
    <3>1. CASE k = m + 1
      <4>1. g[k] = next /\ k - 1 = m /\ g[m] = f[m]
        BY <3>1
      <4> QED
        BY <3>1, <4>1
    <3>2. CASE k # m + 1
      <4>1. k \in 1 .. m /\ k - 1 \in 0 .. m + 1 /\ k - 1 # m + 1
        BY <3>2
      <4> QED
        BY <2>1, <3>2, <4>1 DEF Recurses
    <3> QED
      BY <3>1, <3>2
  <2>6. Recurses(g, m + 1, S, base, step)
    BY <2>3, <2>4, <2>5 DEF Recurses
  <2> QED
    BY <2>6
<1> HIDE DEF Good
<1>3. n \in Good
  BY <1>1, <1>2, Induction
<1> QED
  BY <1>3 DEF Good

(* What a sieve leaves is in the set and was in the sequence.                *)
LEMMA SiftProperties ==
  ASSUME NEW T, NEW seq \in Seq(T), NEW S
  PROVE  Sift(seq, S) \in Seq(T \cap S)
<1> DEFINE n == Len(seq)
           step == [pair \in (1 .. n) \X Seq(T \cap S) |->
                      IF seq[pair[1]] \in S THEN Append(pair[2], seq[pair[1]]) ELSE pair[2]]
<1>1. n \in Nat /\ \A k \in 1 .. n : seq[k] \in T
  BY LenProperties, ElementOfSeq
<1>2. \A k \in 1 .. n, q \in Seq(T \cap S) :
        /\ step[<<k, q>>] = IF seq[k] \in S THEN Append(q, seq[k]) ELSE q
        /\ step[<<k, q>>] \in Seq(T \cap S)
  BY <1>1
<1>3. <<>> \in Seq(T \cap S)
  BY EmptySeq
<1> HIDE DEF step
<1>4. PICK f : Recurses(f, n, Seq(T \cap S), <<>>, step)
  <2>1. StaysIn(Seq(T \cap S), n, <<>>, step)
    BY <1>2, <1>3 DEF StaysIn
  <2> QED
    BY <1>1, <2>1, Recursion
<1>5. f = [k \in 0 .. n |->
             IF k = 0 THEN <<>>
             ELSE IF seq[k] \in S THEN Append(f[k - 1], seq[k]) ELSE f[k - 1]]
  <2>1. f \in [0 .. n -> Seq(T \cap S)] /\ f[0] = <<>>
    BY <1>4 DEF Recurses
  <2>2. ASSUME NEW k \in 0 .. n
        PROVE  f[k] = IF k = 0 THEN <<>>
                      ELSE IF seq[k] \in S THEN Append(f[k - 1], seq[k]) ELSE f[k - 1]
    <3>1. CASE k = 0
      BY <2>1, <3>1
    <3>2. CASE k # 0
      <4>1. k \in 1 .. n /\ k - 1 \in 0 .. n
        BY <1>1, <3>2
      <4>2. f[k] = step[<<k, f[k - 1]>>] /\ f[k - 1] \in Seq(T \cap S)
        BY <1>4, <2>1, <4>1 DEF Recurses
      <4> QED
        BY <1>2, <3>2, <4>1, <4>2
    <3> QED
      BY <3>1, <3>2
  <2> QED
    BY <2>1, <2>2, Zenon
<1> DEFINE Solves(g) == g = [k \in 0 .. n |->
             IF k = 0 THEN <<>>
             ELSE IF seq[k] \in S THEN Append(g[k - 1], seq[k]) ELSE g[k - 1]]
           sifted == CHOOSE g : Solves(g)
           Good == {k \in Nat : k <= n => sifted[k] \in Seq(T \cap S)}
<1>6. Solves(sifted)
  BY <1>5
<1> HIDE DEF sifted
<1>7. 0 \in Good
  BY <1>1, <1>3, <1>6
<1>8. ASSUME NEW k \in Nat, k \in Good PROVE k + 1 \in Good
  <2> SUFFICES ASSUME k + 1 <= n PROVE sifted[k + 1] \in Seq(T \cap S)
    OBVIOUS
  <2>1. k + 1 \in 1 .. n /\ k + 1 \in 0 .. n /\ (k + 1) - 1 = k /\ k + 1 # 0
    BY <1>1
  <2>2. sifted[k + 1] = IF seq[k + 1] \in S THEN Append(sifted[k], seq[k + 1]) ELSE sifted[k]
    BY <1>6, <2>1
  <2>3. sifted[k] \in Seq(T \cap S) /\ seq[k + 1] \in T
    BY <1>1, <1>8, <2>1
  <2> QED
    BY <2>2, <2>3, AppendProperties
<1> HIDE DEF Good
<1>9. n \in Good
  BY <1>1, <1>7, <1>8, Induction
<1>10. Sift(seq, S) = sifted[n]
  BY DEF Sift, sifted
<1> QED
  BY <1>1, <1>9, <1>10 DEF Good
=============================================================================

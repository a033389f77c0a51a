---------------------------- MODULE Intake_proofs ----------------------------
(***************************************************************************)
(* The properties of Intake for every history, list, range, manifest, name *)
(* and version.  The provers know no induction over data: what a list, a   *)
(* fold or a recursive function comes to is proved here from the least     *)
(* position at which it would not (AllNumbers), and a fold or a recursive  *)
(* function is first shown to exist (FoldExists, TableExists).             *)
(***************************************************************************)
EXTENDS Intake, Triage_proofs

(* A set that has 0 and what follows each of its members holds all numbers. *)
LEMMA AllNumbers ==
  ASSUME NEW I \in SUBSET Nat, 0 \in I, \A n \in I : n + 1 \in I
  PROVE  \A n \in Nat : n \in I
<1> SUFFICES ASSUME Nat \ I # {} PROVE FALSE
  OBVIOUS
<1> DEFINE m == Min(Nat \ I)
<1>1. m \in Nat \ I /\ \A n \in Nat \ I : m <= n
  BY LeastOf
<1> HIDE DEF m
<1>2. m # 0 /\ m - 1 \in Nat
  BY <1>1
<1>3. m - 1 \in I
  BY <1>1, <1>2
<1>4. (m - 1) + 1 \in I
  BY <1>3
<1> QED
  BY <1>1, <1>2, <1>4

\* What puts the positions of a finite set in an order gives each a rank.
IsAhead(ahead) ==
  /\ IsFiniteSet(DOMAIN ahead)
  /\ \A i \in DOMAIN ahead : ahead[i] \subseteq DOMAIN ahead /\ i \notin ahead[i]
  /\ \A i, j \in DOMAIN ahead : i = j \/ i \in ahead[j] \/ j \in ahead[i]
  /\ \A i, j, k \in DOMAIN ahead : i \in ahead[j] /\ j \in ahead[k] => i \in ahead[k]

\* Ranking the places of a finite set gives each of them, in their order.
LEMMA RankedIs ==
  ASSUME NEW ahead, IsAhead(ahead)
  PROVE  LET places == DOMAIN ahead
             n == Cardinality(places)
         IN  /\ n \in Nat
             /\ Ranked(ahead) \in [1 .. n -> places]
             /\ \A i \in places : \E k \in 1 .. n : Ranked(ahead)[k] = i
             /\ \A k, l \in 1 .. n : k < l => Ranked(ahead)[k] \in ahead[Ranked(ahead)[l]]
<1> DEFINE places == DOMAIN ahead
           n == Cardinality(places)
           r == [i \in places |-> Cardinality(ahead[i])]
<1>1. IsFiniteSet(places) /\ n \in Nat
  BY FS_CardinalityType DEF IsAhead
<1>2. ASSUME NEW i \in places
      PROVE  IsFiniteSet(ahead[i]) /\ r[i] \in 0 .. n - 1
  <2>1. ahead[i] \in SUBSET (places \ {i}) /\ IsFiniteSet(places \ {i})
        /\ Cardinality(places \ {i}) = n - 1
    BY <1>1, FS_RemoveElement DEF IsAhead
  <2>2. IsFiniteSet(ahead[i]) /\ Cardinality(ahead[i]) <= n - 1
    BY <2>1, FS_Subset
  <2> QED
    BY <1>1, <2>2, FS_CardinalityType
<1>3. ASSUME NEW i \in places, NEW j \in places, i \in ahead[j]
      PROVE  r[i] < r[j]
  <2>1. IsFiniteSet(ahead[j]) /\ ahead[i] \in SUBSET ahead[j] /\ ahead[i] # ahead[j]
    BY <1>2, <1>3 DEF IsAhead
  <2>2. Cardinality(ahead[i]) <= Cardinality(ahead[j]) /\ Cardinality(ahead[i]) # Cardinality(ahead[j])
    BY <2>1, FS_Subset
  <2> QED
    BY <1>2, <2>2
<1>4. r \in Injection(places, 0 .. n - 1)
  <2>1. r \in [places -> 0 .. n - 1]
    BY <1>2
  <2>2. \A i, j \in places : r[i] = r[j] => i = j
    BY <1>2, <1>3 DEF IsAhead
  <2> HIDE DEF r
  <2> QED
    BY <2>1, <2>2 DEF Injection, IsInjective
<1>5. IsFiniteSet(0 .. n - 1) /\ Cardinality(0 .. n - 1) = n
  BY <1>1, FS_Interval
<1>6. r \in Surjection(places, 0 .. n - 1)
  <2> HIDE DEF r, n
  <2> QED BY <1>4, <1>5, FS_Injection DEF n
<1>7. \A k \in 1 .. n : \E i \in places : r[i] = k - 1
  <2>1. \A m \in 0 .. n - 1 : \E i \in places : r[i] = m
    BY <1>6 DEF Surjection
  <2> HIDE DEF r
  <2> QED
    BY <1>1, <2>1
<1>8. \A k \in 1 .. n : Ranked(ahead)[k] \in places /\ r[Ranked(ahead)[k]] = k - 1
  <2>1. \A k \in 1 .. n : Ranked(ahead)[k] = CHOOSE i \in places : r[i] = k - 1
    BY DEF Ranked
  <2> HIDE DEF r
  <2> QED
    BY <1>7, <2>1
<1>9. Ranked(ahead) \in [1 .. n -> places]
  BY <1>8 DEF Ranked
<1>10. \A i \in places : \E k \in 1 .. n : Ranked(ahead)[k] = i
  <2> SUFFICES ASSUME NEW i \in places PROVE Ranked(ahead)[r[i] + 1] = i /\ r[i] + 1 \in 1 .. n
    OBVIOUS
  <2>1. r[i] + 1 \in 1 .. n
    BY <1>1, <1>2
  <2>2. r[Ranked(ahead)[r[i] + 1]] = r[i] /\ Ranked(ahead)[r[i] + 1] \in places
    <3>1. (r[i] + 1) - 1 = r[i]
      BY <1>1, <1>2
    <3> HIDE DEF r
    <3> QED BY <1>8, <2>1, <3>1
  <2> QED
    BY <1>4, <2>1, <2>2 DEF Injection, IsInjective
<1>11. ASSUME NEW k \in 1 .. n, NEW l \in 1 .. n, k < l
       PROVE  Ranked(ahead)[k] \in ahead[Ranked(ahead)[l]]
  <2> DEFINE i == Ranked(ahead)[k]
             j == Ranked(ahead)[l]
  <2>1. i \in places /\ j \in places /\ r[i] = k - 1 /\ r[j] = l - 1
    BY <1>8
  <2> HIDE DEF i, j, r
  <2>2. i # j /\ ~ r[j] < r[i]
    BY <1>1, <1>11, <2>1
  <2>3. i \in ahead[j]
    BY <1>3, <2>1, <2>2 DEF IsAhead
  <2> QED
    BY <2>3 DEF i, j
<1> QED
  BY <1>1, <1>9, <1>10, <1>11

\* order names each of the places once.
IsOrder(order, places) ==
  LET n == Cardinality(places)
  IN  /\ n \in Nat
      /\ order \in [1 .. n -> places]
      /\ \A i \in places : \E k \in 1 .. n : order[k] = i
      /\ \A k, l \in 1 .. n : order[k] = order[l] => k = l

\* A list has as many places as it is long, and so any of them can be counted.
LEMMA PlacesAreFinite ==
  ASSUME NEW list, IsList(list)
  PROVE  /\ IsFiniteSet(DOMAIN list) /\ Cardinality(DOMAIN list) = Len(list)
         /\ \A some \in SUBSET DOMAIN list : IsFiniteSet(some) /\ Cardinality(some) \in Nat
<1>1. Len(list) \in Nat /\ DOMAIN list = 1 .. Len(list)
  BY DEF IsList
<1>2. \A n \in Nat : IsFiniteSet(1 .. n) /\ Cardinality(1 .. n) = n
  BY FS_Interval
<1>3. IsFiniteSet(1 .. Len(list)) /\ Cardinality(1 .. Len(list)) = Len(list)
  BY <1>1, <1>2
<1> QED
  BY <1>1, <1>3, FS_Subset, FS_CardinalityType

\* What Kept gives.
LEMMA KeptIs ==
  ASSUME NEW list, IsList(list), NEW some \in SUBSET DOMAIN list
  PROVE  \E order : /\ IsOrder(order, some)
                    /\ \A k, l \in 1 .. Cardinality(some) : k < l => order[k] < order[l]
                    /\ Kept(list, some) = [k \in 1 .. Cardinality(some) |-> list[order[k]]]
<1> DEFINE ahead == [i \in some |-> {j \in some : j < i}]
           n == Cardinality(some)
           order == Ranked(ahead)
<1>1. some \in SUBSET Nat /\ IsFiniteSet(some)
  <2>1. Len(list) \in Nat /\ some \in SUBSET (1 .. Len(list))
    BY DEF IsList
  <2>2. IsFiniteSet(1 .. Len(list))
    BY <2>1, FS_Interval
  <2> QED
    BY <2>1, <2>2, FS_Subset
<1>2. IsAhead(ahead)
  BY <1>1 DEF IsAhead
<1>3. DOMAIN ahead = some
  OBVIOUS
<1>4. Kept(list, some) = [k \in DOMAIN order |-> list[order[k]]]
  BY DEF Kept, Picked
<1>5. \A i \in some : ahead[i] = {j \in some : j < i}
  OBVIOUS
<1> HIDE DEF ahead
<1>6. /\ n \in Nat /\ order \in [1 .. n -> some]
      /\ \A i \in some : \E k \in 1 .. n : order[k] = i
      /\ \A k, l \in 1 .. n : k < l => order[k] \in ahead[order[l]]
  BY <1>2, <1>3, RankedIs
<1> HIDE DEF order
<1>7. \A k, l \in 1 .. n : k < l => order[k] < order[l]
  BY <1>5, <1>6
<1>8. \A k, l \in 1 .. n : order[k] = order[l] => k = l
  <2> SUFFICES ASSUME NEW k \in 1 .. n, NEW l \in 1 .. n, order[k] = order[l], k # l PROVE FALSE
    OBVIOUS
  <2>1. k < l \/ l < k
    BY <1>6
  <2>2. order[k] \in Nat /\ order[l] \in Nat
    BY <1>1, <1>6
  <2> QED
    BY <1>7, <2>1, <2>2
<1> QED
  BY <1>4, <1>6, <1>7, <1>8 DEF IsOrder

\* What Sorted gives: every element once, by falling key.
LEMMA SortedIs ==
  ASSUME NEW list, IsList(list), NEW key, \A i \in DOMAIN list : key[i] \in Int
  PROVE  \E order : /\ IsOrder(order, DOMAIN list)
                    /\ \A k, l \in 1 .. Len(list) : k < l => key[order[k]] >= key[order[l]]
                    /\ Sorted(list, key) = [k \in 1 .. Len(list) |-> list[order[k]]]
                    /\ Cardinality(DOMAIN list) = Len(list)
<1> DEFINE places == DOMAIN list
           ahead == [i \in places |-> {j \in places : key[j] > key[i] \/ (key[j] = key[i] /\ j < i)}]
           n == Len(list)
           order == Ranked(ahead)
<1>1. places = 1 .. n /\ n \in Nat /\ IsFiniteSet(places) /\ Cardinality(places) = n
  BY FS_Interval DEF IsList
<1>2. IsAhead(ahead)
  BY <1>1 DEF IsAhead
<1>3. DOMAIN ahead = places
  OBVIOUS
<1>4. Sorted(list, key) = [k \in DOMAIN order |-> list[order[k]]]
  BY DEF Sorted, Picked
<1>5. \A i \in places : ahead[i] = {j \in places : key[j] > key[i] \/ (key[j] = key[i] /\ j < i)}
  OBVIOUS
<1> HIDE DEF ahead
<1>6. /\ order \in [1 .. n -> places]
      /\ \A i \in places : \E k \in 1 .. n : order[k] = i
      /\ \A k, l \in 1 .. n : k < l => order[k] \in ahead[order[l]]
  BY <1>1, <1>2, <1>3, RankedIs
<1> HIDE DEF order
<1>7. \A k, l \in 1 .. n : k < l => key[order[k]] >= key[order[l]] /\ order[k] # order[l]
  <2> SUFFICES ASSUME NEW k \in 1 .. n, NEW l \in 1 .. n, k < l
               PROVE  key[order[k]] >= key[order[l]] /\ order[k] # order[l]
    OBVIOUS
  <2>1. order[k] \in places /\ order[l] \in places /\ order[k] \in ahead[order[l]]
    BY <1>6
  <2>2. \/ key[order[k]] > key[order[l]]
        \/ key[order[k]] = key[order[l]] /\ order[k] < order[l]
    BY <1>5, <2>1
  <2> QED
    BY <1>1, <2>1, <2>2
<1>8. \A k, l \in 1 .. n : order[k] = order[l] => k = l
  <2> SUFFICES ASSUME NEW k \in 1 .. n, NEW l \in 1 .. n, order[k] = order[l], k # l PROVE FALSE
    OBVIOUS
  <2>1. k < l \/ l < k
    BY <1>1
  <2> QED
    BY <1>7, <2>1
<1> QED
  BY <1>1, <1>4, <1>6, <1>7, <1>8 DEF IsOrder

\* The elements kept are those at the places, and as many.
LEMMA KeptHolds ==
  ASSUME NEW list, IsList(list), NEW some \in SUBSET DOMAIN list
  PROVE  /\ IsList(Kept(list, some))
         /\ Len(Kept(list, some)) = Cardinality(some)
         /\ \A i \in some : \E k \in DOMAIN Kept(list, some) : Kept(list, some)[k] = list[i]
         /\ \A k \in DOMAIN Kept(list, some) : \E i \in some : Kept(list, some)[k] = list[i]
         /\ (some = {}) <=> (Kept(list, some) = << >>)
<1>1. PICK order : /\ IsOrder(order, some)
                   /\ Kept(list, some) = [k \in 1 .. Cardinality(some) |-> list[order[k]]]
  BY KeptIs
<1> DEFINE n == Cardinality(some)
           kept == Kept(list, some)
<1>2. n \in Nat /\ order \in [1 .. n -> some] /\ \A i \in some : \E k \in 1 .. n : order[k] = i
  BY <1>1 DEF IsOrder
<1>3. DOMAIN kept = 1 .. n /\ Len(kept) = n
  BY <1>1, <1>2
<1>4. \A k \in 1 .. n : kept[k] = list[order[k]]
  BY <1>1
<1> HIDE DEF kept, n
<1>5. some = {} <=> n = 0
  <2>1. IsFiniteSet(some)
    BY PlacesAreFinite
  <2> QED
    BY <2>1, FS_EmptySet DEF n
<1>6. kept = << >> <=> n = 0
  <2>1. kept = [k \in 1 .. n |-> list[order[k]]]
    BY <1>1 DEF kept, n
  <2>2. n = 0 => kept = << >>
    BY <2>1
  <2>3. kept = << >> => n = 0
    BY <1>3, <1>2
  <2> QED
    BY <2>2, <2>3
<1>7. IsList(kept)
  BY <1>2, <1>3 DEF IsList
<1> QED
  BY <1>2, <1>3, <1>4, <1>5, <1>6, <1>7 DEF kept, n

\* The greatest of some places.
LEMMA MaxOfSome ==
  ASSUME NEW m \in Nat, NEW T \in SUBSET (1 .. m), T # {}
  PROVE  Max(T) \in T /\ \A k \in T : k <= Max(T)
<1>1. T \in SUBSET Nat /\ \A k \in T : k <= m
  OBVIOUS
<1> QED
  BY <1>1, GreatestOf

\* A list is folded along its prefixes, whose greatest place is the last.
LEMMA PrefixEnds ==
  ASSUME NEW m \in Nat
  PROVE  /\ 1 .. 0 = {}
         /\ Max(1 .. (m + 1)) = m + 1
         /\ (1 .. (m + 1)) \ {m + 1} = 1 .. m
         /\ 1 .. (m + 1) # {}
<1>1. m + 1 \in 1 .. (m + 1) /\ \A k \in 1 .. (m + 1) : k <= m + 1
  OBVIOUS
<1>2. Max(1 .. (m + 1)) = m + 1
  <2> DEFINE n == m + 1
  <2>1. n \in Nat /\ 1 .. n \in SUBSET (1 .. n) /\ n \in 1 .. n
    BY <1>1
  <2> HIDE DEF n
  <2>2. Max(1 .. n) \in 1 .. n /\ \A k \in 1 .. n : k <= Max(1 .. n)
    BY <2>1, MaxOfSome
  <2>3. Max(1 .. n) = n
    BY <2>1, <2>2
  <2> QED
    BY <2>3 DEF n
<1> QED
  BY <1>1, <1>2

IsFold(f, n, S, base, step) ==
  /\ f \in [SUBSET (1 .. n) -> S]
  /\ \A T \in SUBSET (1 .. n) :
        f[T] = IF T = {} THEN base ELSE step[<<Max(T), f[T \ {Max(T)}]>>]

\* A fold conforms to its equation, whatever it takes at each place.
LEMMA FoldExists ==
  ASSUME NEW n \in Nat, NEW S, NEW base \in S, NEW step \in [(1 .. n) \X S -> S]
  PROVE  \E f : IsFold(f, n, S, base, step)
<1> DEFINE Folds(f, m) ==
             /\ f \in [SUBSET (1 .. m) -> S]
             /\ \A T \in SUBSET (1 .. m) :
                   f[T] = IF T = {} THEN base ELSE step[<<Max(T), f[T \ {Max(T)}]>>]
           I == {m \in Nat : m <= n => \E f : Folds(f, m)}
<1> HIDE DEF Folds
<1>1. 0 \in I
  <2>1. Folds([T \in SUBSET (1 .. 0) |-> base], 0)
    <3>1. \A T \in SUBSET (1 .. 0) : T = {}
      OBVIOUS
    <3> QED
      BY <3>1 DEF Folds
  <2> QED
    BY <2>1
<1>2. ASSUME NEW m \in I PROVE m + 1 \in I
  <2> SUFFICES ASSUME m + 1 <= n PROVE \E f : Folds(f, m + 1)
    OBVIOUS
  <2>1. PICK f : Folds(f, m)
    BY m \in Nat, m <= n
  <2>0. /\ f \in [SUBSET (1 .. m) -> S]
        /\ \A T \in SUBSET (1 .. m) :
              f[T] = IF T = {} THEN base ELSE step[<<Max(T), f[T \ {Max(T)}]>>]
    BY <2>1 DEF Folds
  <2> DEFINE top == m + 1
             g == [T \in SUBSET (1 .. top) |->
                      IF top \in T THEN step[<<top, f[T \ {top}]>>] ELSE f[T]]
  <2>2. top \in 1 .. n /\ m \in Nat
    OBVIOUS
  <2>3. \A T \in SUBSET (1 .. top) : T \ {top} \in SUBSET (1 .. m) /\ (top \notin T => T \in SUBSET (1 .. m))
    OBVIOUS
  <2>40. top \in Nat
    OBVIOUS
  <2> HIDE DEF top
  <2>4. ASSUME NEW T \in SUBSET (1 .. top), top \in T PROVE Max(T) = top
    <3>1. Max(T) \in T /\ \A k \in T : k <= Max(T)
      BY <2>40, <2>4, MaxOfSome
    <3>2. Max(T) \in 1 .. top /\ top <= Max(T)
      BY <2>4, <3>1
    <3> QED
      BY <2>40, <3>2
  <2>5. ASSUME NEW T \in SUBSET (1 .. m), T # {} PROVE Max(T) \in T /\ Max(T) \in 1 .. m /\ T \ {Max(T)} \in SUBSET (1 .. m)
    BY <2>2, <2>5, MaxOfSome
  <2>6. \A T \in SUBSET (1 .. m) : T \in SUBSET (1 .. top) /\ top \notin T
    BY <2>2 DEF top
  <2>7. g \in [SUBSET (1 .. top) -> S]
    BY <2>0, <2>2, <2>3
  <2>8. ASSUME NEW T \in SUBSET (1 .. top)
        PROVE  g[T] = IF T = {} THEN base ELSE step[<<Max(T), g[T \ {Max(T)}]>>]
    <3>1. CASE top \in T
      <4>1. g[T] = step[<<top, f[T \ {top}]>>]
        BY <3>1
      <4>2. g[T \ {top}] = f[T \ {top}]
        BY <2>3, <2>6
      <4> QED
        BY <2>4, <3>1, <4>1, <4>2
    <3>2. CASE top \notin T
      <4>1. T \in SUBSET (1 .. m) /\ g[T] = f[T]
        BY <2>3, <3>2
      <4>2. T # {} => g[T \ {Max(T)}] = f[T \ {Max(T)}]
        BY <2>5, <2>6, <4>1
      <4> QED
        BY <2>0, <4>1, <4>2
    <3> QED
      BY <3>1, <3>2
  <2> HIDE DEF g
  <2>9. Folds(g, m + 1)
    BY <2>7, <2>8 DEF top, Folds
  <2> QED
    BY <2>9
<1>3. n \in I
  <2> HIDE DEF I
  <2>1. I \in SUBSET Nat
    BY DEF I
  <2> QED
    BY <1>1, <1>2, <2>1, AllNumbers
<1>4. PICK f : Folds(f, n)
  BY <1>3 DEF I
<1> QED
  BY <1>4 DEF Folds, IsFold

-----------------------------------------------------------------------------
(* What the pairing of the bounds has found after some of them. *)

BoundsOf(events) == {events[i].version : i \in DOMAIN events} \union {None}
RangesOf(events) == [introduced : BoundsOf(events), fixed : BoundsOf(events),
                     last_affected : BoundsOf(events)]
WindowsOf(events) == [ranges : Seq(RangesOf(events)), open : BOOLEAN,
                      introduced : BoundsOf(events)]

\* A pairing under way stays one (_pair_range_events).
LEMMA TakeIsTyped ==
  ASSUME NEW events, NEW s \in WindowsOf(events), NEW i \in DOMAIN events
  PROVE  Take(s, events[i]) \in WindowsOf(events) /\ Unbounded(s) \in Seq(RangesOf(events))
<1> DEFINE e == events[i]
           R == RangesOf(events)
           B == BoundsOf(events)
<1>1. e.version \in B /\ None \in B
  BY DEF BoundsOf
<1>2. \A a, b, c \in B : AffectedRange(a, b, c) \in R
  BY DEF AffectedRange, RangesOf
<1>3. s.ranges \in Seq(R) /\ s.open \in BOOLEAN /\ s.introduced \in B
  BY DEF WindowsOf
<1> HIDE DEF e, R, B
<1>4. Unbounded(s) \in Seq(R)
  BY <1>1, <1>2, <1>3 DEF Unbounded
<1>5. WindowsOf(events) = [ranges : Seq(R), open : BOOLEAN, introduced : B]
  BY DEF WindowsOf, R, B
<1>6. CASE e.kind = "introduced"
  BY <1>1, <1>4, <1>5, <1>6 DEF Take, e, R
<1>7. CASE e.kind = "fixed" /\ s.open
  <2>1. Take(s, e) = [NoWindow EXCEPT !.ranges = Append(s.ranges, AffectedRange(s.introduced, e.version, None))]
    BY <1>7 DEF Take
  <2>2. Append(s.ranges, AffectedRange(s.introduced, e.version, None)) \in Seq(R)
    BY <1>1, <1>2, <1>3
  <2> QED
    BY <1>1, <1>4, <1>5, <2>1, <2>2 DEF NoWindow, e, R
<1>8. CASE e.kind = "last_affected" /\ s.open
  <2>1. Take(s, e) = [NoWindow EXCEPT !.ranges = Append(s.ranges, AffectedRange(s.introduced, None, e.version))]
    BY <1>8 DEF Take
  <2>2. Append(s.ranges, AffectedRange(s.introduced, None, e.version)) \in Seq(R)
    BY <1>1, <1>2, <1>3
  <2> QED
    BY <1>1, <1>4, <1>5, <2>1, <2>2 DEF NoWindow, e, R
<1>9. CASE e.kind # "introduced" /\ ~ (e.kind \in {"fixed", "last_affected"} /\ s.open)
  <2>1. Take(s, e) = s
    BY <1>9 DEF Take
  <2> QED
    BY <1>4, <2>1 DEF e, R
<1> QED
  BY <1>6, <1>7, <1>8, <1>9

\* Pairing the bounds of an advisory goes bound by bound.
LEMMA PairedStepByStep ==
  ASSUME NEW events, IsList(events)
  PROVE  \E p : /\ p[0] = NoWindow
                /\ \A m \in Nat : m < Len(events) => p[m + 1] = Take(p[m], events[m + 1])
                /\ \A m \in 0 .. Len(events) : p[m] \in WindowsOf(events)
                /\ PairRangeEvents(events) = Unbounded(p[Len(events)])
<1> DEFINE n == Len(events)
           S == WindowsOf(events)
           step == [q \in (1 .. n) \X S |-> Take(q[2], events[q[1]])]
           Folds(f) == f = [T \in SUBSET DOMAIN events |->
                              IF T = {} THEN NoWindow ELSE Take(f[T \ {Max(T)}], events[Max(T)])]
           f0 == CHOOSE f : Folds(f)
           p == [m \in 0 .. n |-> f0[1 .. m]]
<1>1. n \in Nat /\ DOMAIN events = 1 .. n
  BY DEF IsList
<1>2. PairRangeEvents(events) = Unbounded(f0[DOMAIN events])
  BY DEF PairRangeEvents, FoldLeft, MapThenFoldSet
<1> HIDE DEF n
<1>3. NoWindow \in S
  BY DEF NoWindow, WindowsOf, BoundsOf
<1>4. \A s \in S, i \in 1 .. n : Take(s, events[i]) \in S
  BY <1>1, TakeIsTyped
<1> HIDE DEF S
<1>5. step \in [(1 .. n) \X S -> S]
  BY <1>4
<1>6. \A s \in S, i \in 1 .. n : step[<<i, s>>] = Take(s, events[i])
  OBVIOUS
<1> HIDE DEF step
<1>70. PICK g : IsFold(g, n, S, NoWindow, step)
  BY <1>1, <1>3, <1>5, FoldExists
<1>7. /\ g \in [SUBSET (1 .. n) -> S]
      /\ \A T \in SUBSET (1 .. n) :
            g[T] = IF T = {} THEN NoWindow ELSE step[<<Max(T), g[T \ {Max(T)}]>>]
  BY <1>70 DEF IsFold
<1>8. Folds(g)
  <2>1. ASSUME NEW T \in SUBSET (1 .. n)
        PROVE  g[T] = IF T = {} THEN NoWindow ELSE Take(g[T \ {Max(T)}], events[Max(T)])
    <3>1. T # {} => Max(T) \in 1 .. n /\ T \ {Max(T)} \in SUBSET (1 .. n)
      BY <1>1, MaxOfSome
    <3> QED
      BY <1>6, <1>7, <3>1
  <2> QED
    BY <1>1, <1>7, <2>1
<1>9. Folds(f0)
  <2> HIDE DEF Folds
  <2> QED BY <1>8
<1> HIDE DEF f0
<1>10. \A T \in SUBSET (1 .. n) :
          f0[T] = IF T = {} THEN NoWindow ELSE Take(f0[T \ {Max(T)}], events[Max(T)])
  BY <1>1, <1>9
<1> HIDE DEF Folds
<1>11. p[0] = NoWindow
  <2>1. 0 \in 0 .. n /\ 1 .. 0 = {} /\ {} \in SUBSET (1 .. n)
    BY <1>1
  <2>2. f0[{}] = NoWindow
    BY <1>10, <2>1
  <2> QED
    BY <2>1, <2>2
<1>12. ASSUME NEW m \in Nat, m < n PROVE p[m + 1] = Take(p[m], events[m + 1])
  <2>1. 1 .. (m + 1) \in SUBSET (1 .. n) /\ m \in 0 .. n /\ m + 1 \in 0 .. n
    BY <1>1, <1>12
  <2>2. f0[1 .. (m + 1)] = Take(f0[1 .. m], events[m + 1])
    <3>1. 1 .. (m + 1) # {} /\ Max(1 .. (m + 1)) = m + 1 /\ (1 .. (m + 1)) \ {m + 1} = 1 .. m
      BY PrefixEnds
    <3>2. f0[1 .. (m + 1)] = Take(f0[(1 .. (m + 1)) \ {Max(1 .. (m + 1))}], events[Max(1 .. (m + 1))])
      BY <1>10, <2>1, <3>1
    <3> QED
      BY <3>1, <3>2
  <2> QED
    BY <2>1, <2>2
<1>13. p[n] = f0[DOMAIN events]
  BY <1>1
<1> HIDE DEF p
<1> DEFINE I == {m \in Nat : m <= n => p[m] \in S}
<1>14. 0 \in I
  BY <1>3, <1>11
<1>15. ASSUME NEW m \in I PROVE m + 1 \in I
  BY <1>1, <1>4, <1>12
<1>16. \A m \in Nat : m \in I
  <2>1. I \in SUBSET Nat
    OBVIOUS
  <2> HIDE DEF I
  <2> QED
    BY <1>14, <1>15, <2>1, AllNumbers
<1>17. \A m \in 0 .. n : p[m] \in S
  BY <1>1, <1>16
<1> QED
  BY <1>2, <1>11, <1>12, <1>13, <1>17 DEF n, S

\* Keeping one element of a list.
LEMMA KeptOne ==
  ASSUME NEW list, IsList(list), NEW i \in DOMAIN list
  PROVE  Kept(list, {i}) = << list[i] >>
<1>1. Cardinality({i}) = 1
  BY FS_Singleton
<1>2. {i} \in SUBSET DOMAIN list
  OBVIOUS
<1> DEFINE kept == Kept(list, {i})
<1>3. IsList(kept) /\ Len(kept) = 1 /\ \A k \in DOMAIN kept : \E j \in {i} : kept[k] = list[j]
  BY <1>1, <1>2, KeptHolds
<1>4. PICK order : kept = [k \in 1 .. 1 |-> list[order[k]]]
  BY <1>1, <1>2, KeptIs
<1> HIDE DEF kept
<1>5. kept[1] = list[i] /\ kept = [k \in 1 .. 1 |-> kept[k]]
  BY <1>3, <1>4 DEF IsList
<1>6. kept = << list[i] >>
  BY <1>5
<1> QED
  BY <1>6 DEF kept

\* Flattening a list that holds one list.
LEMMA FlattenedOne ==
  ASSUME NEW x
  PROVE  FlattenSeq(<< x >>) = x
<1> DEFINE Flat(f) == f = [i \in 1 .. 1 |-> IF i = 1 THEN << x >>[i] ELSE f[i - 1] \o << x >>[i]]
<1>1. FlattenSeq(<< x >>) = (CHOOSE f : Flat(f))[1]
  BY DEF FlattenSeq
<1>2. Flat([i \in 1 .. 1 |-> x])
  OBVIOUS
<1>3. \A f : Flat(f) => f[1] = x
  OBVIOUS
<1> HIDE DEF Flat
<1> QED
  BY <1>1, <1>2, <1>3

\* The one entry of the advisory that is read is the one in question.
LEMMA EntryIs ==
  ASSUME NEW events, PairRangeEvents(events) # << >>
  PROVE  /\ EntryOf(events).ranges = PairRangeEvents(events)
         /\ EntryOf(events).versions = {}
         /\ EntryOf(events).ecosystem = "npm"
<1> DEFINE raw == RecordOf(events).affected
           Versioned(entry) == {i \in DOMAIN entry.ranges : entry.ranges[i].type \in VERSION_RANGE_TYPES}
           ReadOf(entry) == Kept(entry.ranges, Versioned(entry))
           RangesIn(entry) == FlattenSeq([i \in DOMAIN ReadOf(entry) |-> PairRangeEvents(ReadOf(entry)[i].events)])
           Read(entry) == [ecosystem |-> entry.ecosystem, name |-> entry.name,
                           ranges |-> RangesIn(entry), versions |-> entry.versions]
           usable == {i \in DOMAIN raw : /\ raw[i].ecosystem \in Supported
                                         /\ RangesIn(raw[i]) # << >> \/ raw[i].versions # {}}
           kept == Kept(raw, usable)
<1>1. ParseAffected(raw) = [i \in DOMAIN kept |-> Read(kept[i])]
  BY DEF ParseAffected
<1>2. /\ raw = << RawEntry("npm", "GIT", events), RawEntry("Hex", "SEMVER", events),
                  RawEntry("npm", "SEMVER", events) >>
      /\ DOMAIN raw = 1 .. 3 /\ Len(raw) = 3 /\ IsList(raw)
  BY DEF RecordOf, IsList
<1>3. ASSUME NEW entry, NEW type, entry.ranges = << [type |-> type, events |-> events] >>
      PROVE  RangesIn(entry) = IF type \in VERSION_RANGE_TYPES THEN PairRangeEvents(events) ELSE << >>
  <2> DEFINE r == << [type |-> type, events |-> events] >>
  <2>1. IsList(r) /\ DOMAIN r = {1} /\ r[1].type = type /\ r[1].events = events
    BY DEF IsList
  <2>2. CASE type \in VERSION_RANGE_TYPES
    <3>1. Versioned(entry) = {1}
      BY <1>3, <2>1, <2>2
    <3>2. ReadOf(entry) = << r[1] >>
      BY <1>3, <2>1, <3>1, KeptOne
    <3>3. [i \in DOMAIN ReadOf(entry) |-> PairRangeEvents(ReadOf(entry)[i].events)] = << PairRangeEvents(events) >>
      BY <2>1, <3>2
    <3> QED
      BY <2>2, <3>3, FlattenedOne
  <2>3. CASE type \notin VERSION_RANGE_TYPES
    <3>1. Versioned(entry) = {}
      BY <1>3, <2>1, <2>3
    <3>2. ReadOf(entry) = << >>
      BY <1>3, <2>1, <3>1, KeptHolds
    <3>3. [i \in DOMAIN ReadOf(entry) |-> PairRangeEvents(ReadOf(entry)[i].events)] = << >>
      <4> DEFINE read == ReadOf(entry)
      <4>1. read = << >> /\ DOMAIN read = {}
        BY <3>2
      <4> HIDE DEF read
      <4>2. [i \in DOMAIN read |-> PairRangeEvents(read[i].events)] = << >>
        BY <4>1
      <4> QED
        BY <4>2 DEF read
    <3>4. FlattenSeq(<< >>) = << >>
      BY DEF FlattenSeq
    <3> QED
      BY <2>3, <3>3, <3>4
  <2> QED
    BY <2>2, <2>3
<1> HIDE DEF RangesIn
<1>4. RangesIn(raw[1]) = << >> /\ RangesIn(raw[3]) = PairRangeEvents(events)
  BY <1>2, <1>3 DEF RawEntry, VERSION_RANGE_TYPES
<1>5. usable = {3}
  <2>1. raw[2].ecosystem \notin Supported /\ raw[3].ecosystem \in Supported /\ raw[1].versions = {}
    BY <1>2 DEF RawEntry, Supported
  <2> HIDE DEF raw
  <2>2. 1 \notin usable /\ 2 \notin usable /\ 3 \in usable
    BY <1>2, <1>4, <2>1
  <2>3. \A i \in usable : i \in 1 .. 3
    BY <1>2
  <2> HIDE DEF usable
  <2> QED
    BY <2>2, <2>3
<1>6. kept = << raw[3] >>
  BY <1>2, <1>5, KeptOne
<1>7. ParseAffected(raw) = << Read(raw[3]) >>
  <2>1. [i \in DOMAIN << raw[3] >> |-> Read(<< raw[3] >>[i])] = << Read(raw[3]) >>
    <3> HIDE DEF Read, raw
    <3> QED OBVIOUS
  <2> HIDE DEF Read, raw, kept
  <2> QED
    BY <1>1, <1>6, <2>1
<1>8. NormalizeOsvRecord(RecordOf(events)).affected = << Read(raw[3]) >>
  <2>1. << Read(raw[3]) >> # << >>
    OBVIOUS
  <2> HIDE DEF Read
  <2> QED BY <1>7, <2>1 DEF NormalizeOsvRecord
<1>9. EntryOf(events) = Read(raw[3])
  BY <1>8 DEF EntryOf
<1> QED
  BY <1>2, <1>4, <1>9 DEF RawEntry

-----------------------------------------------------------------------------
(* Which versions a window holds. *)

\* What can stand in a list of bounds, in any order.
IsEvents(events) ==
  /\ IsList(events)
  /\ \A i \in DOMAIN events :
        \/ events[i].kind = "introduced" /\ events[i].version \in Plain \union {None}
        \/ events[i].kind \in {"fixed", "last_affected"} /\ events[i].version \in Plain

\* What a plain version is.
LEMMA PlainIsRaw == Plain \subseteq RawVersion /\ None \notin Plain
  BY IntakeAssumption DEF Plain

\* compare orders plain versions totally.
LEMMA PlainOrder ==
  ASSUME NEW a \in Plain, NEW b \in Plain
  PROVE  /\ compare("npm", a, b) = - compare("npm", b, a)
         /\ compare("npm", a, b) \in Signs /\ compare("npm", b, a) \in Signs
         /\ compare("npm", a, a) = 0
         /\ Parses(a)
         /\ \A c \in Plain :
               compare("npm", a, b) <= 0 /\ compare("npm", b, c) <= 0 =>
                  /\ compare("npm", a, c) <= 0
                  /\ compare("npm", a, c) = 0 => compare("npm", a, b) = 0 /\ compare("npm", b, c) = 0
<1>1. a \in RawVersion /\ b \in RawVersion /\ \A c \in Plain : c \in RawVersion
  BY PlainIsRaw
<1>2. \A x, y \in RawVersion : compare("npm", x, y) \in Signs
  BY SemVerSigns
<1>3. \A x, y, z \in RawVersion : Ordered("npm", x, y, z)
  BY SemVerOrders
<1>4. compare("npm", a, b) = - compare("npm", b, a) /\ compare("npm", a, a) = - compare("npm", a, a)
  BY <1>1, <1>3 DEF Ordered
<1>5. compare("npm", a, a) = 0
  BY <1>1, <1>2, <1>4 DEF Signs
<1>6. Parses(a)
  BY PlainStays
<1> QED
  BY <1>1, <1>2, <1>3, <1>4, <1>5, <1>6 DEF Ordered

Beneath(bound, version) == bound = None \/ compare("npm", bound, version) <= 0

\* Which versions a window covers (in_range).
LEMMA WindowHolds ==
  ASSUME NEW v \in Plain, NEW from \in Plain \union {None}, NEW to \in Plain
  PROVE  /\ in_range("npm", v, AffectedRange(from, None, None)) <=> Beneath(from, v)
         /\ in_range("npm", v, AffectedRange(from, to, None))
               <=> Beneath(from, v) /\ compare("npm", to, v) > 0
         /\ in_range("npm", v, AffectedRange(from, None, to))
               <=> Beneath(from, v) /\ compare("npm", to, v) >= 0
<1>1. to # None /\ Parses(to) /\ compare("npm", to, v) = - compare("npm", v, to) /\ compare("npm", v, to) \in Signs
  BY PlainIsRaw, PlainOrder
<1>2. from # None => Parses(from) /\ compare("npm", from, v) = - compare("npm", v, from) /\ compare("npm", v, from) \in Signs
  BY PlainOrder
<1> QED
  BY <1>1, <1>2 DEF in_range, AffectedRange, Beneath, Signs

OpensBy(events, version, m) ==
  {i \in 1 .. m : events[i].kind = "introduced" /\ Below(events[i], version)}
EndsBy(events, version, m) == {i \in 1 .. m : Ends(events[i], version)}

Holds(ranges, version) == \E k \in DOMAIN ranges : in_range("npm", version, ranges[k])

\* Either a window holds the version, or every introduction below it has been
\* closed, but for the one that is open.
Settled(s, events, version, m) ==
  \/ Holds(s.ranges, version)
  \/ Cardinality(OpensBy(events, version, m)) <=
        Cardinality(EndsBy(events, version, m)) +
        (IF s.open /\ Beneath(s.introduced, version) THEN 1 ELSE 0)

\* Counting one place more.
LEMMA CountsGrow ==
  ASSUME NEW events, NEW version, NEW m \in Nat
  PROVE  /\ Cardinality(OpensBy(events, version, m)) \in Nat
         /\ Cardinality(EndsBy(events, version, m)) \in Nat
         /\ Cardinality(OpensBy(events, version, m + 1)) = Cardinality(OpensBy(events, version, m)) +
              (IF events[m + 1].kind = "introduced" /\ Below(events[m + 1], version) THEN 1 ELSE 0)
         /\ Cardinality(EndsBy(events, version, m + 1)) = Cardinality(EndsBy(events, version, m)) +
              (IF Ends(events[m + 1], version) THEN 1 ELSE 0)
<1> DEFINE A == OpensBy(events, version, m)
           B == EndsBy(events, version, m)
           opens == events[m + 1].kind = "introduced" /\ Below(events[m + 1], version)
           ends == Ends(events[m + 1], version)
<1>1. A \in SUBSET (1 .. m) /\ B \in SUBSET (1 .. m) /\ m + 1 \notin 1 .. m
  BY DEF OpensBy, EndsBy
<1>2. IsFiniteSet(A) /\ IsFiniteSet(B) /\ Cardinality(A) \in Nat /\ Cardinality(B) \in Nat
  <2>1. IsFiniteSet(1 .. m)
    BY FS_Interval
  <2> QED
    BY <1>1, <2>1, FS_Subset, FS_CardinalityType
<1>3. OpensBy(events, version, m + 1) = IF opens THEN A \union {m + 1} ELSE A
  BY DEF OpensBy
<1>4. EndsBy(events, version, m + 1) = IF ends THEN B \union {m + 1} ELSE B
  BY DEF EndsBy
<1> HIDE DEF A, B, opens, ends
<1>5. Cardinality(A \union {m + 1}) = Cardinality(A) + 1 /\ Cardinality(B \union {m + 1}) = Cardinality(B) + 1
  BY <1>1, <1>2, FS_AddElement
<1> QED
  BY <1>2, <1>3, <1>4, <1>5 DEF A, B, opens, ends

\* What one more bound does to the windows paired so far, in the order of the versions.
LEMMA TakeSettles ==
  ASSUME NEW events, IsEvents(events), NEW v \in Plain, NEW m \in Nat, m < Len(events),
         NEW s \in WindowsOf(events), Settled(s, events, v, m),
         s.introduced \in Plain \union {None}
  PROVE  /\ Settled(Take(s, events[m + 1]), events, v, m + 1)
         /\ Take(s, events[m + 1]).introduced \in Plain \union {None}
<1> DEFINE e == events[m + 1]
           t == Take(s, e)
           a == Cardinality(OpensBy(events, v, m))
           b == Cardinality(EndsBy(events, v, m))
           a1 == Cardinality(OpensBy(events, v, m + 1))
           b1 == Cardinality(EndsBy(events, v, m + 1))
           R == RangesOf(events)
<1>1. /\ a \in Nat /\ b \in Nat
      /\ a1 = a + (IF e.kind = "introduced" /\ Below(e, v) THEN 1 ELSE 0)
      /\ b1 = b + (IF Ends(e, v) THEN 1 ELSE 0)
  BY CountsGrow
<1>2. /\ m + 1 \in DOMAIN events
      /\ \/ e.kind = "introduced" /\ e.version \in Plain \union {None}
         \/ e.kind \in {"fixed", "last_affected"} /\ e.version \in Plain
  BY DEF IsEvents, IsList
<1>3. s.ranges \in Seq(R) /\ s.open \in BOOLEAN
  BY DEF WindowsOf
<1>4. Below(e, v) <=> Beneath(e.version, v)
  BY DEF Below, Beneath
<1>5. Holds(s.ranges, v) \/ a <= b + (IF s.open /\ Beneath(s.introduced, v) THEN 1 ELSE 0)
  BY DEF Settled
<1>6. SUFFICES /\ t.introduced \in Plain \union {None}
               /\ \/ Holds(t.ranges, v)
                  \/ a1 <= b1 + (IF t.open /\ Beneath(t.introduced, v) THEN 1 ELSE 0)
  BY DEF Settled
<1>7. \A x : /\ Holds(Append(s.ranges, x), v) <=> Holds(s.ranges, v) \/ in_range("npm", v, x)
  <2> SUFFICES ASSUME NEW x
               PROVE  Holds(Append(s.ranges, x), v) <=> Holds(s.ranges, v) \/ in_range("npm", v, x)
    OBVIOUS
  <2> DEFINE r == s.ranges
             n == Len(r)
             u == Append(r, x)
  <2>1. n \in Nat /\ DOMAIN r = 1 .. n /\ DOMAIN u = 1 .. n + 1
        /\ u[n + 1] = x /\ \A k \in 1 .. n : u[k] = r[k]
    BY <1>3
  <2> HIDE DEF r, n, u
  <2>2. \A k \in 1 .. n + 1 : k = n + 1 \/ k \in 1 .. n
    BY <2>1
  <2>3. n + 1 \in 1 .. n + 1 /\ \A k \in 1 .. n : k \in 1 .. n + 1
    BY <2>1
  <2>4. Holds(u, v) <=> Holds(r, v) \/ in_range("npm", v, x)
    BY <2>1, <2>2, <2>3 DEF Holds
  <2> QED
    BY <2>4 DEF u, r
<1>8. NoWindow.introduced = None /\ NoWindow.open = FALSE
  BY DEF NoWindow
<1>9. CASE e.kind = "introduced"
  <2>1. t = [ranges |-> Unbounded(s), open |-> TRUE, introduced |-> e.version]
    BY <1>9 DEF Take
  <2>2. t.introduced = e.version /\ t.open = TRUE /\ t.ranges = Unbounded(s)
    BY <2>1
  <2>3. ~ Ends(e, v)
    BY <1>9 DEF Ends
  <2>4. CASE s.open
    <3>1. t.ranges = Append(s.ranges, AffectedRange(s.introduced, None, None))
      BY <2>2, <2>4 DEF Unbounded
    <3>2. Holds(t.ranges, v) <=> Holds(s.ranges, v) \/ Beneath(s.introduced, v)
      <4>1. PICK to \in Plain : TRUE
        OBVIOUS
      <4> QED
      BY <1>7, <3>1, WindowHolds
    <3> HIDE DEF t, e, a, b, a1, b1
    <3> QED
      BY <1>1, <1>2, <1>4, <1>5, <1>9, <2>2, <2>3, <2>4, <3>2
  <2>5. CASE ~ s.open
    <3>1. t.ranges = s.ranges
      BY <2>2, <2>5 DEF Unbounded
    <3> HIDE DEF t, e, a, b, a1, b1
    <3> QED
      BY <1>1, <1>2, <1>4, <1>5, <1>9, <2>2, <2>3, <2>5, <3>1
  <2> QED
    BY <2>4, <2>5
<1>10. CASE e.kind = "fixed" /\ s.open
  <2>1. t = [NoWindow EXCEPT !.ranges = Append(s.ranges, AffectedRange(s.introduced, e.version, None))]
    BY <1>10 DEF Take
  <2>2. /\ t.introduced = None /\ ~ t.open
        /\ t.ranges = Append(s.ranges, AffectedRange(s.introduced, e.version, None))
    BY <2>1 DEF NoWindow
  <2>3. Holds(t.ranges, v) <=>
          Holds(s.ranges, v) \/ (Beneath(s.introduced, v) /\ compare("npm", e.version, v) > 0)
    <3> DEFINE x == AffectedRange(s.introduced, e.version, None)
    <3>1. in_range("npm", v, x) <=> Beneath(s.introduced, v) /\ compare("npm", e.version, v) > 0
      BY <1>2, <1>10, WindowHolds
    <3>2. Holds(t.ranges, v) <=> Holds(s.ranges, v) \/ in_range("npm", v, x)
      BY <1>7, <2>2
    <3> QED
      BY <3>1, <3>2
  <2>4. Ends(e, v) <=> ~ compare("npm", e.version, v) > 0
    <3>1. e.version \in Plain /\ compare("npm", e.version, v) \in Signs
      BY <1>2, <1>10, PlainOrder
    <3> QED
      BY <1>10, <3>1, PlainIsRaw DEF Ends, Below, Signs
  <2>5. Holds(s.ranges, v) => Holds(t.ranges, v)
    BY <2>3
  <2>6. Holds(t.ranges, v) \/ Ends(e, v) \/ ~ Beneath(s.introduced, v)
    BY <2>3, <2>4
  <2>7. e.kind # "introduced"
    BY <1>10
  <2> HIDE DEF t, e, a, b, a1, b1
  <2> QED
    BY <1>1, <1>5, <2>2, <2>5, <2>6, <2>7
<1>11. CASE e.kind = "last_affected" /\ s.open
  <2>1. t = [NoWindow EXCEPT !.ranges = Append(s.ranges, AffectedRange(s.introduced, None, e.version))]
    BY <1>11 DEF Take
  <2>2. /\ t.introduced = None /\ ~ t.open
        /\ t.ranges = Append(s.ranges, AffectedRange(s.introduced, None, e.version))
    BY <2>1 DEF NoWindow
  <2>3. Holds(t.ranges, v) <=>
          Holds(s.ranges, v) \/ (Beneath(s.introduced, v) /\ compare("npm", e.version, v) >= 0)
    <3> DEFINE x == AffectedRange(s.introduced, None, e.version)
    <3>1. in_range("npm", v, x) <=> Beneath(s.introduced, v) /\ compare("npm", e.version, v) >= 0
      BY <1>2, <1>11, WindowHolds
    <3>2. Holds(t.ranges, v) <=> Holds(s.ranges, v) \/ in_range("npm", v, x)
      BY <1>7, <2>2
    <3> QED
      BY <3>1, <3>2
  <2>4. Ends(e, v) <=> ~ compare("npm", e.version, v) >= 0
    <3>1. e.version \in Plain /\ compare("npm", e.version, v) \in Signs
      BY <1>2, <1>11, PlainOrder
    <3> QED
      BY <1>11, <3>1 DEF Ends, Signs
  <2>5. Holds(s.ranges, v) => Holds(t.ranges, v)
    BY <2>3
  <2>6. Holds(t.ranges, v) \/ Ends(e, v) \/ ~ Beneath(s.introduced, v)
    BY <2>3, <2>4
  <2>7. e.kind # "introduced"
    BY <1>11
  <2> HIDE DEF t, e, a, b, a1, b1
  <2> QED
    BY <1>1, <1>5, <2>2, <2>5, <2>6, <2>7
<1>12. CASE e.kind \in {"fixed", "last_affected"} /\ ~ s.open
  <2>1. t = s
    BY <1>12 DEF Take
  <2> HIDE DEF t, e, a, b, a1, b1
  <2> QED
    BY <1>1, <1>5, <1>12, <2>1
<1> QED
  BY <1>2, <1>9, <1>10, <1>11, <1>12

\* Whatever the order, a version is in a window or every introduction below it
\* is answered by an end.
LEMMA PairedSettles ==
  ASSUME NEW events, IsEvents(events), NEW v \in Plain
  PROVE  \/ Holds(PairRangeEvents(events), v)
         \/ Cardinality(OpensBy(events, v, Len(events))) <=
            Cardinality(EndsBy(events, v, Len(events)))
<1> DEFINE n == Len(events)
           a == Cardinality(OpensBy(events, v, n))
           b == Cardinality(EndsBy(events, v, n))
<1>1. PICK p : /\ p[0] = NoWindow
               /\ \A m \in Nat : m < n => p[m + 1] = Take(p[m], events[m + 1])
               /\ \A m \in 0 .. n : p[m] \in WindowsOf(events)
               /\ PairRangeEvents(events) = Unbounded(p[n])
  BY PairedStepByStep DEF IsEvents
<1>2. n \in Nat
  BY DEF IsEvents, IsList
<1>3. a \in Nat /\ b \in Nat
  BY <1>2, CountsGrow
<1> DEFINE I == {m \in Nat : m <= n => /\ Settled(p[m], events, v, m)
                                       /\ p[m].introduced \in Plain \union {None}}
<1>4. 0 \in I
  <2>1. OpensBy(events, v, 0) = {}
    BY DEF OpensBy
  <2>2. Cardinality({}) = 0
    BY FS_EmptySet
  <2>3. Cardinality(EndsBy(events, v, 0)) \in Nat
    BY CountsGrow
  <2>4. p[0].open = FALSE /\ p[0].introduced = None
    BY <1>1 DEF NoWindow
  <2>5. Settled(p[0], events, v, 0)
    BY <2>1, <2>2, <2>3, <2>4 DEF Settled
  <2> QED
    BY <2>4, <2>5
<1>5. ASSUME NEW m \in I PROVE m + 1 \in I
  <2> SUFFICES ASSUME m + 1 <= n
               PROVE  /\ Settled(p[m + 1], events, v, m + 1)
                      /\ p[m + 1].introduced \in Plain \union {None}
    OBVIOUS
  <2>1. m \in Nat /\ m < n /\ m \in 0 .. n
    BY <1>2
  <2>2. Settled(p[m], events, v, m) /\ p[m].introduced \in Plain \union {None}
    BY <2>1
  <2>3. p[m] \in WindowsOf(events) /\ p[m + 1] = Take(p[m], events[m + 1])
    BY <1>1, <2>1
  <2> QED
    BY <2>1, <2>2, <2>3, TakeSettles
<1>6. n \in I
  <2>1. I \in SUBSET Nat
    OBVIOUS
  <2> HIDE DEF I
  <2> QED
    BY <1>2, <1>4, <1>5, <2>1, AllNumbers
<1> DEFINE s == p[n]
<1>7. Settled(s, events, v, n) /\ s.introduced \in Plain \union {None} /\ s \in WindowsOf(events)
  BY <1>1, <1>2, <1>6
<1> HIDE DEF s
<1>8. CASE s.open /\ Beneath(s.introduced, v)
  <2> DEFINE r == s.ranges
             x == AffectedRange(s.introduced, None, None)
             u == Append(r, x)
  <2>1. r \in Seq(RangesOf(events))
    BY <1>7 DEF WindowsOf
  <2>2. Len(r) + 1 \in DOMAIN u /\ u[Len(r) + 1] = x
    BY <2>1
  <2>3. in_range("npm", v, x)
    BY <1>7, <1>8, WindowHolds
  <2>4. Unbounded(s) = u
    BY <1>8 DEF Unbounded
  <2> HIDE DEF u, r, x
  <2>5. Holds(u, v)
    BY <2>2, <2>3 DEF Holds
  <2> QED
    BY <1>1, <2>4, <2>5 DEF s
<1>9. CASE ~ (s.open /\ Beneath(s.introduced, v))
  <2>1. Holds(s.ranges, v) \/ a <= b
    BY <1>3, <1>7, <1>9 DEF Settled
  <2>2. Holds(s.ranges, v) => Holds(Unbounded(s), v)
    <3> DEFINE r == s.ranges
               x == AffectedRange(s.introduced, None, None)
               u == Append(r, x)
    <3>1. r \in Seq(RangesOf(events))
      BY <1>7 DEF WindowsOf
    <3>2. \A k \in DOMAIN r : k \in DOMAIN u /\ u[k] = r[k]
      BY <3>1
    <3>3. Unbounded(s) = u \/ Unbounded(s) = r
      BY DEF Unbounded
    <3> HIDE DEF u, x, r
    <3>4. Holds(r, v) => Holds(u, v)
      BY <3>2 DEF Holds
    <3> QED
      BY <3>3, <3>4 DEF r
  <2> QED
    BY <1>1, <2>1, <2>2 DEF s
<1> QED
  BY <1>8, <1>9

\* What the places of a history say.
LEMMA HistoryIs ==
  ASSUME NEW h, IsHistory(h)
  PROVE  /\ Len(h) \in Nat \ {0} /\ DOMAIN h = 1 .. Len(h)
         /\ h[1].kind = "introduced"
         /\ \A i \in DOMAIN h :
               /\ \/ h[i].kind = "introduced" /\ h[i].version \in Plain \union {None}
                  \/ h[i].kind \in {"fixed", "last_affected"} /\ h[i].version \in Plain /\ i > 1
               /\ i > 1 => h[i].version \in Plain
         /\ \A i \in Nat \ {0} : i + 1 \in DOMAIN h =>
               (h[i].kind = "introduced" <=> h[i + 1].kind # "introduced")
         /\ \A i, j \in DOMAIN h : i < j /\ h[i].version # None => Rises(h[i], h[j])
<1>1. Len(h) \in Nat \ {0} /\ DOMAIN h = 1 .. Len(h)
  BY DEF IsHistory
<1>2. \A i \in DOMAIN h :
        /\ h[i].kind \in IF i % 2 = 1 THEN {"introduced"} ELSE {"fixed", "last_affected"}
        /\ h[i].version \in IF i = 1 THEN Plain \union {None} ELSE Plain
  BY DEF IsHistory
<1>3. 1 % 2 = 1 /\ \A i \in Nat : (i % 2 = 1) <=> ((i + 1) % 2 # 1)
  OBVIOUS
<1>4. \A i \in DOMAIN h : /\ i % 2 = 1 => h[i].kind = "introduced"
                          /\ i % 2 # 1 => h[i].kind \in {"fixed", "last_affected"} /\ i # 1
  BY <1>2, <1>3
<1>5. \A i \in Nat \ {0} : i + 1 \in DOMAIN h =>
               (h[i].kind = "introduced" <=> h[i + 1].kind # "introduced")
  <2> SUFFICES ASSUME NEW i \in Nat \ {0}, i + 1 \in DOMAIN h
               PROVE  h[i].kind = "introduced" <=> h[i + 1].kind # "introduced"
    OBVIOUS
  <2>1. i \in DOMAIN h /\ ((i % 2 = 1) <=> ((i + 1) % 2 # 1))
    BY <1>1, <1>3
  <2> QED
    BY <1>4, <2>1
<1>6. 1 \in DOMAIN h
  BY <1>1
<1>7. \A i, j \in DOMAIN h : i < j /\ h[i].version # None => Rises(h[i], h[j])
  BY DEF IsHistory
<1> QED
  BY <1>1, <1>2, <1>3, <1>4, <1>5, <1>6, <1>7

\* A history in any order is a list of bounds, and each bound has one place.
LEMMA ShuffledIs ==
  ASSUME NEW h, IsHistory(h), NEW order \in Orders(h)
  PROVE  LET events == Picked(h, order)
             n == Len(h)
         IN  /\ IsEvents(events) /\ Len(events) = n /\ DOMAIN events = 1 .. n
             /\ order \in [1 .. n -> 1 .. n]
             /\ \A i \in 1 .. n : events[i] = h[order[i]]
             /\ \A i \in 1 .. n : \E k \in 1 .. n : order[k] = i
             /\ \A k, l \in 1 .. n : order[k] = order[l] => k = l
<1> DEFINE events == Picked(h, order)
           n == Len(h)
<1>1. n \in Nat \ {0} /\ DOMAIN h = 1 .. n
  BY HistoryIs
<1>2. order \in [1 .. n -> 1 .. n] /\ \A i \in 1 .. n : \E k \in 1 .. n : order[k] = i
  BY <1>1 DEF Orders
<1>3. events = [k \in 1 .. n |-> h[order[k]]]
  BY <1>2 DEF Picked
<1>4. DOMAIN events = 1 .. n /\ Len(events) = n /\ \A i \in 1 .. n : events[i] = h[order[i]]
  BY <1>1, <1>3
<1>5. \A k, l \in 1 .. n : order[k] = order[l] => k = l
  <2>1. order \in Surjection(1 .. n, 1 .. n)
    BY <1>2 DEF Surjection
  <2>2. IsFiniteSet(1 .. n)
    BY <1>1, FS_Interval
  <2>3. order \in Injection(1 .. n, 1 .. n)
    BY <2>1, <2>2, FS_SurjSameCardinalityImpliesInj
  <2> QED
    BY <2>3 DEF Injection, IsInjective
<1>6. IsEvents(events)
  <2>1. IsList(events)
    BY <1>1, <1>4 DEF IsList
  <2>2. \A i \in 1 .. n : order[i] \in DOMAIN h
    BY <1>1, <1>2
  <2>3. \A i \in 1 .. n :
          \/ events[i].kind = "introduced" /\ events[i].version \in Plain \union {None}
          \/ events[i].kind \in {"fixed", "last_affected"} /\ events[i].version \in Plain
    <3> HIDE DEF events
    <3> QED BY <1>4, <2>2, HistoryIs
  <2> QED
    BY <1>4, <2>1, <2>3 DEF IsEvents
<1> QED
  BY <1>2, <1>4, <1>5, <1>6

\* An end that lies below a version closes an introduction that does.
LEMMA EndsCloseBelow ==
  ASSUME NEW h, IsHistory(h), NEW v \in Plain, NEW c \in DOMAIN h, Ends(h[c], v)
  PROVE  c - 1 \in DOMAIN h /\ h[c - 1].kind = "introduced" /\ Below(h[c - 1], v)
<1>1. h[c].kind \in {"fixed", "last_affected"} /\ h[c].version \in Plain /\ c > 1 /\ c \in Nat
  BY HistoryIs DEF Ends
<1> DEFINE b == c - 1
<1>2. b \in Nat \ {0} /\ b + 1 = c /\ b \in DOMAIN h /\ b < c
  BY <1>1, HistoryIs
<1> HIDE DEF b
<1>3. h[b].kind = "introduced" /\ h[b].version \in Plain \union {None}
  BY <1>1, <1>2, HistoryIs
<1>4. compare("npm", h[c].version, v) <= 0
  <2>1. compare("npm", h[c].version, v) \in Signs
    BY <1>1, PlainOrder
  <2> QED
    BY <1>1, <2>1, PlainIsRaw DEF Ends, Below, Signs
<1>5. CASE h[b].version # None
  <2>1. Rises(h[b], h[c])
    BY <1>2, <1>5, HistoryIs
  <2>2. compare("npm", h[b].version, h[c].version) <= 0
    <3>1. compare("npm", h[b].version, h[c].version) \in Signs
      BY <1>1, <1>3, <1>5, PlainOrder
    <3> QED
      BY <2>1, <3>1 DEF Rises, Signs
  <2>3. compare("npm", h[b].version, v) <= 0
    BY <1>1, <1>3, <1>4, <1>5, <2>2, PlainOrder
  <2> QED
    BY <1>2, <1>3, <2>3 DEF Below, b
<1>6. CASE h[b].version = None
  BY <1>2, <1>3, <1>6 DEF Below, b
<1> QED
  BY <1>5, <1>6

\* The introduction that makes a version affected is answered by no end.
LEMMA AffectedIsOpen ==
  ASSUME NEW h, IsHistory(h), NEW order \in Orders(h), NEW v \in Plain, SchemaSaysAffected(h, v)
  PROVE  LET events == Picked(h, order)
         IN  Cardinality(EndsBy(events, v, Len(events))) < Cardinality(OpensBy(events, v, Len(events)))
<1> DEFINE events == Picked(h, order)
           n == Len(h)
           opens == OpensBy(events, v, n)
           ends == EndsBy(events, v, n)
<1>1. /\ Len(events) = n /\ order \in [1 .. n -> 1 .. n] /\ DOMAIN h = 1 .. n /\ n \in Nat
      /\ \A i \in 1 .. n : events[i] = h[order[i]]
      /\ \A i \in 1 .. n : \E k \in 1 .. n : order[k] = i
      /\ \A k, l \in 1 .. n : order[k] = order[l] => k = l
  BY ShuffledIs, HistoryIs
<1> HIDE DEF events
<1>2. PICK i \in 1 .. n : /\ h[i].kind = "introduced" /\ Below(h[i], v)
                          /\ \A j \in 1 .. n : j > i => ~ Ends(h[j], v)
  BY <1>1 DEF SchemaSaysAffected
<1>3. PICK o \in 1 .. n : order[o] = i
  BY <1>1
<1> DEFINE Place(c) == CHOOSE k \in 1 .. n : order[k] = c
           g == [k \in ends |-> Place(order[k] - 1)]
<1>4. \A c \in 1 .. n : Place(c) \in 1 .. n /\ order[Place(c)] = c
  BY <1>1
<1> HIDE DEF Place
<1>5. o \in opens
  BY <1>1, <1>2, <1>3 DEF OpensBy
<1>6. ASSUME NEW k \in ends
      PROVE  g[k] \in opens \ {o} /\ order[g[k]] = order[k] - 1 /\ k \in 1 .. n
  <2>1. k \in 1 .. n /\ Ends(h[order[k]], v) /\ order[k] \in 1 .. n
    BY <1>1 DEF EndsBy
  <2> DEFINE c == order[k]
             b == c - 1
             p == Place(b)
  <2>2. b \in 1 .. n /\ h[b].kind = "introduced" /\ Below(h[b], v)
    <3>1. c \in DOMAIN h /\ Ends(h[c], v)
      BY <1>1, <2>1
    <3> HIDE DEF c
    <3>2. b \in DOMAIN h /\ h[b].kind = "introduced" /\ Below(h[b], v)
      BY <3>1, EndsCloseBelow
    <3> QED
      BY <1>1, <3>2
  <2>3. c <= i
    BY <1>1, <1>2, <2>1
  <2>4. p \in 1 .. n /\ order[p] = b
    <3> HIDE DEF b
    <3> QED BY <1>4, <2>2
  <2>5. events[p] = h[b]
    BY <1>1, <2>4
  <2>6. p # o
    BY <1>3, <2>1, <2>3, <2>4
  <2>7. p \in opens
    <3> HIDE DEF p, b
    <3> QED BY <2>2, <2>4, <2>5 DEF OpensBy
  <2>8. g[k] = p
    OBVIOUS
  <2> HIDE DEF p, g
  <2> QED
    BY <2>1, <2>4, <2>6, <2>7, <2>8
<1>7. g \in Injection(ends, opens \ {o})
  <2>1. g \in [ends -> opens \ {o}]
    BY <1>6
  <2>2. ASSUME NEW k \in ends, NEW l \in ends, g[k] = g[l] PROVE k = l
    <3>1. order[k] - 1 = order[l] - 1 /\ k \in 1 .. n /\ l \in 1 .. n
      BY <1>6, <2>2
    <3>2. order[k] \in 1 .. n /\ order[l] \in 1 .. n
      BY <1>1, <3>1
    <3>3. order[k] = order[l]
      BY <3>1, <3>2
    <3> QED
      BY <1>1, <3>1, <3>3
  <2> HIDE DEF g
  <2> QED
    BY <2>1, <2>2 DEF Injection, IsInjective
<1>8. IsFiniteSet(opens)
  <2>1. opens \in SUBSET (1 .. n) /\ IsFiniteSet(1 .. n)
    BY <1>1, FS_Interval DEF OpensBy
  <2> QED
    BY <2>1, FS_Subset
<1> HIDE DEF g, opens, ends
<1>9. IsFiniteSet(opens \ {o}) /\ Cardinality(opens \ {o}) = Cardinality(opens) - 1
  BY <1>5, <1>8, FS_RemoveElement
<1>10. Cardinality(ends) <= Cardinality(opens \ {o}) /\ IsFiniteSet(ends)
  BY <1>7, <1>9, FS_Injection
<1>11. Cardinality(ends) \in Nat /\ Cardinality(opens) \in Nat
  BY <1>8, <1>10, FS_CardinalityType
<1> QED
  BY <1>1, <1>9, <1>10, <1>11 DEF events, opens, ends

\* Once an introduction was taken there is a window, open or closed.
LEMMA PairedFinds ==
  ASSUME NEW events, IsEvents(events), NEW i \in DOMAIN events, events[i].kind = "introduced"
  PROVE  PairRangeEvents(events) # << >>
<1> DEFINE n == Len(events)
           R == RangesOf(events)
<1>1. PICK p : /\ p[0] = NoWindow
               /\ \A m \in Nat : m < n => p[m + 1] = Take(p[m], events[m + 1])
               /\ \A m \in 0 .. n : p[m] \in WindowsOf(events)
               /\ PairRangeEvents(events) = Unbounded(p[n])
  BY PairedStepByStep DEF IsEvents
<1>2. n \in Nat /\ DOMAIN events = 1 .. n
  BY DEF IsEvents, IsList
<1>3. \A r \in Seq(R) : \A x : Append(r, x) # << >>
  <2> SUFFICES ASSUME NEW r \in Seq(R), NEW x PROVE Append(r, x) # << >>
    OBVIOUS
  <2>1. DOMAIN Append(r, x) = 1 .. Len(r) + 1 /\ Len(r) \in Nat
    OBVIOUS
  <2>2. Len(r) + 1 \in DOMAIN Append(r, x) /\ DOMAIN << >> = {}
    BY <2>1
  <2> QED
    BY <2>2
<1> DEFINE Found(s) == s.open \/ s.ranges # << >>
           I == {m \in Nat : i <= m /\ m <= n => Found(p[m])}
<1>4. \A m \in 0 .. n : p[m].ranges \in Seq(R)
  BY <1>1 DEF WindowsOf
<1>5. ASSUME NEW m \in I PROVE m + 1 \in I
  <2> SUFFICES ASSUME i <= m + 1, m + 1 <= n PROVE Found(p[m + 1])
    BY m \in Nat
  <2> DEFINE s == p[m]
             e == events[m + 1]
             t == Take(s, e)
  <2>1. m \in Nat /\ m < n /\ m \in 0 .. n
    BY <1>2
  <2>2. p[m + 1] = t /\ s.ranges \in Seq(R)
    BY <1>1, <1>4, <2>1
  <2>3. e.kind \in {"introduced", "fixed", "last_affected"}
    BY <1>2, <2>1 DEF IsEvents
  <2>4. e.kind # "introduced" => Found(s)
    <3>1. e.kind # "introduced" => i <= m
      BY <1>2, <2>1
    <3> QED
      BY <2>1, <3>1
  <2> HIDE DEF s, e
  <2>5. CASE e.kind = "introduced"
    BY <2>2, <2>5 DEF Take
  <2>6. CASE e.kind = "fixed" /\ s.open
    <3>1. t.ranges = Append(s.ranges, AffectedRange(s.introduced, e.version, None))
      BY <2>6 DEF Take, NoWindow
    <3> HIDE DEF t
    <3> QED
      BY <1>3, <2>2, <3>1
  <2>7. CASE e.kind = "last_affected" /\ s.open
    <3>1. t.ranges = Append(s.ranges, AffectedRange(s.introduced, None, e.version))
      BY <2>7 DEF Take, NoWindow
    <3> HIDE DEF t
    <3> QED
      BY <1>3, <2>2, <3>1
  <2>8. CASE e.kind # "introduced" /\ ~ s.open
    <3>1. t = s
      BY <2>8 DEF Take
    <3> QED
      BY <2>2, <2>4, <2>8, <3>1
  <2> QED
    BY <2>3, <2>5, <2>6, <2>7, <2>8
<1>6. n \in I
  <2>1. I \in SUBSET Nat /\ 0 \in I
    BY <1>2
  <2> HIDE DEF I
  <2> QED
    BY <1>2, <1>5, <2>1, AllNumbers
<1>7. Found(p[n]) /\ p[n].ranges \in Seq(R)
  BY <1>2, <1>4, <1>6
<1> HIDE DEF R
<1>8. Unbounded(p[n]) # << >>
  BY <1>3, <1>7 DEF Unbounded
<1> QED
  BY <1>1, <1>8

\* What pairing the bounds of an advisory gives: windows with bounds of it.
LEMMA PairedIsTyped ==
  ASSUME NEW events, IsEvents(events), Len(events) # 0
  PROVE  PairRangeEvents(events) \in Seq(RangesOf(events)) /\ BoundsOf(events) \subseteq Plain \union {None}
<1> DEFINE n == Len(events)
<1>1. PICK p : /\ \A m \in 0 .. n : p[m] \in WindowsOf(events)
               /\ PairRangeEvents(events) = Unbounded(p[n])
  BY PairedStepByStep DEF IsEvents
<1>2. n \in Nat /\ DOMAIN events = 1 .. n /\ 1 \in DOMAIN events
  BY DEF IsEvents, IsList
<1>3. p[n] \in WindowsOf(events)
  BY <1>1, <1>2
<1>4. PairRangeEvents(events) \in Seq(RangesOf(events))
  BY <1>1, <1>2, <1>3, TakeIsTyped
<1> QED
  BY <1>4 DEF BoundsOf, IsEvents

\* What is asked of an entry is asked of its windows, and both engines say so.
LEMMA HitIs ==
  ASSUME NEW events, IsEvents(events), NEW i \in DOMAIN events, events[i].kind = "introduced",
         NEW v \in Plain
  PROVE  /\ Hit(events, v) <=> Holds(PairRangeEvents(events), v)
         /\ affectedBy(v, EntryOf(events)) <=> Hit(events, v)
         /\ IsPlainEntry(EntryOf(events))
         /\ EntryOf(events).ranges = PairRangeEvents(events)
<1> DEFINE entry == EntryOf(events)
<1>1. entry.ranges = PairRangeEvents(events) /\ entry.versions = {}
  BY PairedFinds, EntryIs
<1>2. IsPlainEntry(entry)
  <2>1. Len(events) # 0
    BY DEF IsEvents, IsList
  <2>2. entry.ranges \in Seq(RangesOf(events)) /\ BoundsOf(events) \subseteq Plain \union {None}
    BY <1>1, <2>1, PairedIsTyped
  <2> HIDE DEF entry
  <2>3. ASSUME NEW k \in DOMAIN entry.ranges
        PROVE  {entry.ranges[k].introduced, entry.ranges[k].fixed, entry.ranges[k].last_affected}
                  \subseteq Plain \union {None}
    <3>1. entry.ranges[k] \in RangesOf(events)
      BY <2>2
    <3> QED
      BY <2>2, <3>1 DEF RangesOf
  <2> QED
    BY <1>1, <2>3 DEF IsPlainEntry
<1>3. Parses(v)
  BY PlainOrder
<1> HIDE DEF entry
<1>4. version_matches("npm", v, entry) <=> Holds(PairRangeEvents(events), v)
  BY <1>1, <1>3 DEF version_matches, Holds
<1>5. version_matches("npm", v, entry) <=> affectedBy(v, entry)
  BY <1>2, EnginesMatchAlike
<1> QED
  BY <1>1, <1>2, <1>4, <1>5 DEF Hit, entry

-----------------------------------------------------------------------------
(* In the order of the versions, each window is an introduction and its end. *)

IsWindow(h, i, rng) ==
  /\ h[i].kind = "introduced"
  /\ \/ i = Len(h) /\ rng = AffectedRange(h[i].version, None, None)
     \/ /\ i < Len(h) /\ h[i + 1].kind = "fixed"
        /\ rng = AffectedRange(h[i].version, h[i + 1].version, None)
     \/ /\ i < Len(h) /\ h[i + 1].kind = "last_affected"
        /\ rng = AffectedRange(h[i].version, None, h[i + 1].version)

\* In the order of the versions, a window is an introduction and the bound after it.
LEMMA InOrderPairs ==
  ASSUME NEW h, IsHistory(h), NEW events, IsEvents(events), Len(events) = Len(h),
         \A i \in DOMAIN h : events[i] = h[i]
  PROVE  /\ \A k \in DOMAIN PairRangeEvents(events) :
               \E i \in DOMAIN h : IsWindow(h, i, PairRangeEvents(events)[k])
         /\ \A i \in DOMAIN h : h[i].kind = "fixed" =>
               \E k \in DOMAIN PairRangeEvents(events) : PairRangeEvents(events)[k].fixed = h[i].version
<1> DEFINE n == Len(h)
           R == RangesOf(events)
           Good(ranges) == \A l \in DOMAIN ranges : \E i \in 1 .. n : IsWindow(h, i, ranges[l])
           Full(ranges, m) == \A i \in 1 .. n : i <= m /\ h[i].kind = "fixed" =>
                                 \E k \in DOMAIN ranges : ranges[k].fixed = h[i].version
<1>1. PICK p : /\ p[0] = NoWindow
               /\ \A m \in Nat : m < n => p[m + 1] = Take(p[m], events[m + 1])
               /\ \A m \in 0 .. n : p[m] \in WindowsOf(events)
               /\ PairRangeEvents(events) = Unbounded(p[n])
  BY PairedStepByStep DEF IsEvents
<1>2. n \in Nat \ {0} /\ DOMAIN h = 1 .. n /\ h[1].kind = "introduced"
  BY HistoryIs
<1>3. \A m \in 0 .. n : p[m].ranges \in Seq(R)
  BY <1>1 DEF WindowsOf
<1>4. \A ranges \in Seq(R) : \A i \in 1 .. n : \A x :
         Good(ranges) /\ IsWindow(h, i, x) => Good(Append(ranges, x))
  <2> SUFFICES ASSUME NEW ranges \in Seq(R), NEW i \in 1 .. n, NEW x, Good(ranges), IsWindow(h, i, x),
                      NEW l \in DOMAIN Append(ranges, x)
               PROVE  \E j \in 1 .. n : IsWindow(h, j, Append(ranges, x)[l])
    OBVIOUS
  <2> HIDE DEF n
  <2>1. CASE l = Len(ranges) + 1
    BY <2>1
  <2>2. CASE l # Len(ranges) + 1
    <3>1. l \in DOMAIN ranges /\ Append(ranges, x)[l] = ranges[l]
      BY <2>2
    <3> QED
      BY <3>1
  <2> QED
    BY <2>1, <2>2
<1>10. \A ranges \in Seq(R) : \A m \in Nat : \A x :
          /\ Full(ranges, m) /\ (m + 1 \in 1 .. n => h[m + 1].kind # "fixed") => Full(ranges, m + 1)
          /\ Full(ranges, m) /\ (h[m + 1].kind = "fixed" => x.fixed = h[m + 1].version)
                 => Full(Append(ranges, x), m + 1)
          /\ Full(ranges, m) => Full(Append(ranges, x), m)
  <2> SUFFICES ASSUME NEW ranges \in Seq(R), NEW m \in Nat, NEW x, Full(ranges, m)
               PROVE  /\ (m + 1 \in 1 .. n => h[m + 1].kind # "fixed") => Full(ranges, m + 1)
                      /\ (h[m + 1].kind = "fixed" => x.fixed = h[m + 1].version)
                            => Full(Append(ranges, x), m + 1)
                      /\ Full(Append(ranges, x), m)
    <3> HIDE DEF Full
    <3> QED OBVIOUS
  <2> HIDE DEF n
  <2> DEFINE more == Append(ranges, x)
  <2>0. n \in Nat
    BY <1>2
  <2>1. \A k \in DOMAIN ranges : k \in DOMAIN more /\ more[k] = ranges[k]
    OBVIOUS
  <2>2. Len(ranges) + 1 \in DOMAIN more /\ more[Len(ranges) + 1] = x
    OBVIOUS
  <2>3. \A i \in 1 .. n : i <= m + 1 <=> i <= m \/ i = m + 1
    BY <2>0
  <2> HIDE DEF more
  <2>4. \A i \in 1 .. n : i <= m /\ h[i].kind = "fixed" => \E k \in DOMAIN more : more[k].fixed = h[i].version
    BY <2>1
  <2>5. (m + 1 \in 1 .. n => h[m + 1].kind # "fixed") => Full(ranges, m + 1)
    BY <2>3
  <2>6. (h[m + 1].kind = "fixed" => x.fixed = h[m + 1].version) => Full(more, m + 1)
    BY <2>2, <2>3, <2>4
  <2> QED
    BY <2>4, <2>5, <2>6 DEF more
<1> HIDE DEF R, Good, Full
<1> DEFINE Stands(m) == /\ Good(p[m].ranges) /\ Full(p[m].ranges, m)
                        /\ p[m].open <=> m > 0 /\ h[m].kind = "introduced"
                        /\ p[m].open => p[m].introduced = h[m].version
           I == {m \in Nat : m <= n => Stands(m)}
<1>5. 0 \in I
  BY <1>1, <1>2 DEF NoWindow, Good, Full
<1>6. ASSUME NEW m \in I PROVE m + 1 \in I
  <2> SUFFICES ASSUME m + 1 <= n PROVE Stands(m + 1)
    OBVIOUS
  <2> DEFINE s == p[m]
             e == h[m + 1]
             t == Take(s, e)
  <2>1. m \in Nat /\ m < n /\ m \in 0 .. n /\ m + 1 \in DOMAIN h /\ m + 1 > 0
    BY <1>2
  <2>2. p[m + 1] = t /\ s.ranges \in Seq(R)
    BY <1>1, <1>3, <2>1
  <2>3. Stands(m)
    BY <2>1
  <2>4. (m > 0 /\ h[m].kind = "introduced") <=> e.kind # "introduced"
    <3>1. CASE m = 0
      BY <1>2, <3>1
    <3>2. CASE m # 0
      <4>1. m \in Nat \ {0}
        BY <2>1, <3>2
      <4> QED
        BY <2>1, <3>2, <4>1, HistoryIs
    <3> QED
      BY <3>1, <3>2
  <2>5. s.open <=> e.kind # "introduced"
    BY <2>3, <2>4
  <2>6. Good(s.ranges) /\ Full(s.ranges, m) /\ (s.open => s.introduced = h[m].version /\ m \in 1 .. n)
    BY <1>2, <2>1, <2>3
  <2>7. e.kind \in {"introduced", "fixed", "last_affected"}
    BY <2>1, HistoryIs
  <2>8. CASE e.kind = "introduced"
    <3>1. t.open = TRUE /\ t.introduced = e.version /\ t.ranges = s.ranges
      BY <2>5, <2>8 DEF Take, Unbounded
    <3> HIDE DEF t, s, Good, Full
    <3>2. Full(t.ranges, m + 1)
      BY <1>10, <2>1, <2>2, <2>6, <2>8, <3>1
    <3> QED
      BY <2>1, <2>2, <2>6, <2>8, <3>1, <3>2
  <2>9. CASE e.kind = "fixed"
    <3> DEFINE x == AffectedRange(s.introduced, e.version, None)
    <3>1. t.open = FALSE /\ t.ranges = Append(s.ranges, x)
      BY <2>5, <2>9 DEF Take, NoWindow
    <3>2. IsWindow(h, m, x)
      BY <2>1, <2>4, <2>5, <2>6, <2>9 DEF IsWindow
    <3>3. m \in 1 .. n
      BY <2>5, <2>6, <2>9
    <3>5. e.kind = "fixed" => x.fixed = h[m + 1].version
      BY <2>9 DEF AffectedRange
    <3> HIDE DEF t, s, Good, Full, x
    <3>4. Good(t.ranges)
      BY <1>4, <2>2, <2>6, <3>1, <3>2, <3>3
    <3>6. Full(t.ranges, m + 1)
      BY <1>10, <2>1, <2>2, <2>6, <3>1, <3>5
    <3> QED
      BY <2>1, <2>2, <2>9, <3>1, <3>4, <3>6
  <2>10. CASE e.kind = "last_affected"
    <3> DEFINE x == AffectedRange(s.introduced, None, e.version)
    <3>1. t.open = FALSE /\ t.ranges = Append(s.ranges, x)
      BY <2>5, <2>10 DEF Take, NoWindow
    <3>2. IsWindow(h, m, x)
      BY <2>1, <2>4, <2>5, <2>6, <2>10 DEF IsWindow
    <3>3. m \in 1 .. n
      BY <2>5, <2>6, <2>10
    <3>5. e.kind = "fixed" => x.fixed = h[m + 1].version
      BY <2>10 DEF AffectedRange
    <3> HIDE DEF t, s, Good, Full, x
    <3>4. Good(t.ranges)
      BY <1>4, <2>2, <2>6, <3>1, <3>2, <3>3
    <3>6. Full(t.ranges, m + 1)
      BY <1>10, <2>1, <2>2, <2>6, <3>1, <3>5
    <3> QED
      BY <2>1, <2>2, <2>10, <3>1, <3>4, <3>6
  <2> QED
    BY <2>7, <2>8, <2>9, <2>10
<1>7. n \in I
  <2>1. I \in SUBSET Nat
    OBVIOUS
  <2> HIDE DEF I
  <2> QED
    BY <1>2, <1>5, <1>6, <2>1, AllNumbers
<1>8. Stands(n) /\ p[n].ranges \in Seq(R)
  BY <1>2, <1>3, <1>7
<1> DEFINE s == p[n]
<1>9. Good(Unbounded(s)) /\ Full(Unbounded(s), n)
  <2>1. CASE s.open
    <3> DEFINE x == AffectedRange(s.introduced, None, None)
    <3>1. IsWindow(h, n, x) /\ n \in 1 .. n
      BY <1>2, <1>8, <2>1 DEF IsWindow
    <3>2. Unbounded(s) = Append(s.ranges, x)
      BY <2>1 DEF Unbounded
    <3>3. Good(s.ranges) /\ Full(s.ranges, n) /\ s.ranges \in Seq(R)
      BY <1>8
    <3>4. n \in Nat
      BY <1>2
    <3> HIDE DEF x, Good, Full, s
    <3> QED
      BY <1>4, <1>10, <3>1, <3>2, <3>3, <3>4
  <2>2. CASE ~ s.open
    BY <1>8, <2>2 DEF Unbounded
  <2> QED
    BY <2>1, <2>2
<1> QED
  BY <1>1, <1>2, <1>9 DEF Good, Full

\* A version in the window that opens at place i is affected by the schema.
LEMMA WindowIsAffected ==
  ASSUME NEW h, IsHistory(h), NEW i \in DOMAIN h, NEW rng, IsWindow(h, i, rng),
         NEW v \in Plain, in_range("npm", v, rng)
  PROVE  SchemaSaysAffected(h, v)
<1> DEFINE n == Len(h)
<1>1. n \in Nat \ {0} /\ DOMAIN h = 1 .. n
  BY HistoryIs
<1>2. h[i].kind = "introduced" /\ h[i].version \in Plain \union {None}
  BY HistoryIs DEF IsWindow
<1>3. CASE i = n
  <2>1. rng = AffectedRange(h[i].version, None, None)
    BY <1>3 DEF IsWindow
  <2>2. Beneath(h[i].version, v)
    <3>1. PICK to \in Plain : TRUE
      OBVIOUS
    <3> QED
      BY <1>2, <2>1, WindowHolds
  <2>3. Below(h[i], v) /\ \A j \in DOMAIN h : ~ j > i
    BY <1>1, <1>3, <2>2 DEF Below, Beneath
  <2> QED
    BY <1>2, <2>3 DEF SchemaSaysAffected
<1>4. CASE i # n
  <2> DEFINE b == i + 1
             w == h[b].version
  <2>1. /\ i < n /\ h[b].kind \in {"fixed", "last_affected"}
        /\ rng = IF h[b].kind = "fixed" THEN AffectedRange(h[i].version, w, None)
                 ELSE AffectedRange(h[i].version, None, w)
    BY <1>4 DEF IsWindow
  <2>2. b \in DOMAIN h /\ b > 1 /\ b \in Nat
    BY <1>1, <2>1
  <2> HIDE DEF b
  <2>3. w \in Plain /\ compare("npm", w, v) \in Signs
    BY <2>2, HistoryIs, PlainOrder
  <2>4. Beneath(h[i].version, v) /\ IF h[b].kind = "fixed" THEN compare("npm", w, v) > 0
                                    ELSE compare("npm", w, v) >= 0
    <3>1. CASE h[b].kind = "fixed"
      BY <1>2, <2>1, <2>3, <3>1, WindowHolds
    <3>2. CASE h[b].kind # "fixed"
      BY <1>2, <2>1, <2>3, <3>2, WindowHolds
    <3> QED
      BY <3>1, <3>2
  <2>5. ASSUME NEW j \in DOMAIN h, j > i PROVE ~ Ends(h[j], v)
    <3>1. h[j].version \in Plain
      BY <1>1, <2>5, HistoryIs
    <3>2. CASE j = b
      BY <2>3, <2>4, <3>2, PlainIsRaw DEF Ends, Below, Signs
    <3>3. CASE j # b
      <4>1. b < j /\ b \in DOMAIN h
        BY <1>1, <2>2, <2>5, <3>3 DEF b
      <4>2. compare("npm", w, h[j].version) < 0
        <5>1. w # None
          BY <2>3, PlainIsRaw
        <5>2. Rises(h[b], h[j])
          BY <4>1, <5>1, HistoryIs
        <5> QED
          BY <2>1, <5>2 DEF Rises
      <4>3. compare("npm", h[j].version, v) > 0
        <5> DEFINE x == h[j].version
        <5>1. /\ compare("npm", x, v) \in Signs /\ compare("npm", x, w) \in Signs
              /\ compare("npm", v, w) = - compare("npm", w, v)
              /\ compare("npm", v, x) = - compare("npm", x, v)
          BY <2>3, <3>1, PlainOrder
        <5>2. compare("npm", w, v) >= 0
          BY <2>3, <2>4 DEF Signs
        <5>3. compare("npm", v, w) <= 0 /\ compare("npm", w, x) <= 0
          <6>1. compare("npm", v, w) <= 0
            BY <2>3, <5>1, <5>2 DEF Signs
          <6>2. compare("npm", w, x) \in Signs
            BY <2>3, <3>1, PlainOrder
          <6> QED
            BY <4>2, <6>1, <6>2 DEF Signs
        <5>4. compare("npm", v, x) <= 0 /\ (compare("npm", v, x) = 0 => compare("npm", w, x) = 0)
          BY <2>3, <3>1, <5>3, PlainOrder
        <5> QED
          BY <4>2, <5>1, <5>4 DEF Signs
      <4> QED
        <5>1. compare("npm", h[j].version, v) \in Signs /\ h[j].version # None
          BY <3>1, PlainOrder, PlainIsRaw
        <5> QED
          BY <4>3, <5>1 DEF Ends, Below, Signs
    <3> QED
      BY <3>2, <3>3
  <2> QED
    BY <1>2, <2>4, <2>5 DEF SchemaSaysAffected, Below, Beneath
<1> QED
  BY <1>3, <1>4

\* A version the schema says is affected is hit, in whatever order the bounds
\* come; in the order of the versions no other is; and the engine in Go agrees.
LEMMA NothingIsMissed ==
  ASSUME NEW h, IsHistory(h), NEW order \in Orders(h), NEW v \in Plain
  PROVE  LET events == Picked(h, order)
         IN  /\ SchemaSaysAffected(h, v) => Hit(events, v)
             /\ Unshuffled(order) /\ Hit(events, v) => SchemaSaysAffected(h, v)
             /\ affectedBy(v, EntryOf(events)) <=> Hit(events, v)
<1> DEFINE events == Picked(h, order)
           n == Len(h)
<1>1. /\ IsEvents(events) /\ Len(events) = n /\ DOMAIN events = 1 .. n
      /\ order \in [1 .. n -> 1 .. n]
      /\ \A i \in 1 .. n : events[i] = h[order[i]]
      /\ \A i \in 1 .. n : \E k \in 1 .. n : order[k] = i
  BY ShuffledIs
<1>2. n \in Nat \ {0} /\ DOMAIN h = 1 .. n /\ h[1].kind = "introduced"
  BY HistoryIs
<1>3. PICK o \in DOMAIN events : events[o].kind = "introduced"
  <2>1. 1 \in 1 .. n
    BY <1>2
  <2>2. PICK o \in 1 .. n : order[o] = 1
    BY <1>1, <2>1
  <2>3. o \in DOMAIN events /\ events[o] = h[1]
    BY <1>1, <2>2
  <2> HIDE DEF events
  <2> QED
    BY <1>2, <2>3
<1>4. /\ Hit(events, v) <=> Holds(PairRangeEvents(events), v)
      /\ affectedBy(v, EntryOf(events)) <=> Hit(events, v)
  BY <1>1, <1>3, HitIs
<1>5. SchemaSaysAffected(h, v) => Hit(events, v)
  <2> SUFFICES ASSUME SchemaSaysAffected(h, v) PROVE Holds(PairRangeEvents(events), v)
    BY <1>4
  <2> DEFINE a == Cardinality(OpensBy(events, v, n))
             b == Cardinality(EndsBy(events, v, n))
  <2>1. b < a
    BY <1>1, AffectedIsOpen
  <2>2. a \in Nat /\ b \in Nat
    BY <1>2, CountsGrow
  <2>3. Holds(PairRangeEvents(events), v) \/ a <= b
    BY <1>1, PairedSettles
  <2> HIDE DEF a, b
  <2> QED
    BY <2>1, <2>2, <2>3
<1>6. ASSUME Unshuffled(order), Hit(events, v) PROVE SchemaSaysAffected(h, v)
  <2>1. \A i \in DOMAIN h : events[i] = h[i]
    BY <1>1, <1>2, <1>6 DEF Unshuffled
  <2>2. PICK k \in DOMAIN PairRangeEvents(events) : in_range("npm", v, PairRangeEvents(events)[k])
    BY <1>4, <1>6 DEF Holds
  <2> HIDE DEF events
  <2>3. PICK i \in DOMAIN h : IsWindow(h, i, PairRangeEvents(events)[k])
    BY <1>1, <2>1, InOrderPairs
  <2> QED
    BY <2>2, <2>3, WindowIsAffected
<1> QED
  BY <1>4, <1>5, <1>6

\* However many bounds an advisory has and in whatever order the feed lists
\* them.
THEOREM AdvisoriesAreRead == []IntakeAsking => []NothingAffectedIsMissed
<1>1. IntakeAsking => NothingAffectedIsMissed
  <2> SUFFICES ASSUME IntakeAsking, question.kind = "events", NEW v \in Installed
               PROVE  LET events == Picked(question.history, question.order)
                          hit == Hit(events, v)
                          said == SchemaSaysAffected(question.history, v)
                      IN  /\ said => hit
                          /\ Unshuffled(question.order) /\ hit => said
                          /\ affectedBy(v, EntryOf(events)) = hit
    BY DEF NothingAffectedIsMissed
  <2> DEFINE h == question.history
             order == question.order
             events == Picked(h, order)
  <2>1. h \in Histories /\ order \in Orders(h)
    BY DEF IntakeAsking, EventQuestions
  <2>2. IsHistory(h) /\ v \in Plain
    BY <2>1, IntakeAssumption
  <2>3. /\ SchemaSaysAffected(h, v) => Hit(events, v)
        /\ Unshuffled(order) /\ Hit(events, v) => SchemaSaysAffected(h, v)
        /\ affectedBy(v, EntryOf(events)) <=> Hit(events, v)
    <3> HIDE DEF h, order
    <3> QED BY <2>1, <2>2, NothingIsMissed
  <2>4. affectedBy(v, EntryOf(events)) \in BOOLEAN /\ Hit(events, v) \in BOOLEAN
    BY DEF affectedBy, Hit, version_matches
  <2> QED
    BY <2>3, <2>4
<1> QED
  BY <1>1, PTL

Runs(f, n, S, base, step) ==
  /\ f[{}] = base
  /\ \A T \in SUBSET (1 .. n) : T # {} /\ f[T \ {Max(T)}] \in S =>
        f[T] = step[<<Max(T), f[T \ {Max(T)}]>>]

IsRun(p, f, n, S, base, step) ==
  /\ p \in [0 .. n -> S]
  /\ p[n] = f[1 .. n]
  /\ p[0] = base
  /\ \A m \in Nat : m < n => p[m + 1] = step[<<m + 1, p[m]>>]

\* What a fold takes step by step, once its equation is known where it matters.
LEMMA FoldRuns ==
  ASSUME NEW n \in Nat, NEW S, NEW base \in S, NEW step \in [(1 .. n) \X S -> S], NEW f,
         Runs(f, n, S, base, step)
  PROVE  \E p : IsRun(p, f, n, S, base, step)
<1> DEFINE p == [m \in 0 .. n |-> f[1 .. m]]
           I == {m \in Nat : m <= n => f[1 .. m] \in S}
<1>0. /\ f[{}] = base
      /\ \A T \in SUBSET (1 .. n) : T # {} /\ f[T \ {Max(T)}] \in S =>
            f[T] = step[<<Max(T), f[T \ {Max(T)}]>>]
  BY DEF Runs
<1>1. f[1 .. 0] = base
  <2>1. 1 .. 0 = {}
    BY PrefixEnds
  <2> QED
    BY <1>0, <2>1
<1>2. ASSUME NEW m \in Nat, m < n, f[1 .. m] \in S
      PROVE  f[1 .. (m + 1)] = step[<<m + 1, f[1 .. m]>>] /\ f[1 .. (m + 1)] \in S
  <2>1. 1 .. (m + 1) # {} /\ Max(1 .. (m + 1)) = m + 1 /\ (1 .. (m + 1)) \ {m + 1} = 1 .. m
    BY PrefixEnds
  <2>2. 1 .. (m + 1) \in SUBSET (1 .. n) /\ m + 1 \in 1 .. n
    BY <1>2
  <2>3. f[1 .. (m + 1)] = step[<<Max(1 .. (m + 1)), f[(1 .. (m + 1)) \ {Max(1 .. (m + 1))}]>>]
    BY <1>0, <1>2, <2>1, <2>2
  <2>4. f[1 .. (m + 1)] = step[<<m + 1, f[1 .. m]>>]
    BY <2>1, <2>3
  <2> QED
    BY <1>2, <2>2, <2>4
<1>3. 0 \in I
  BY <1>1
<1>4. ASSUME NEW m \in I PROVE m + 1 \in I
  <2>1. m \in Nat /\ (m + 1 <= n => m < n /\ m <= n)
    OBVIOUS
  <2>2. m + 1 <= n => f[1 .. (m + 1)] \in S
    BY <1>2, <2>1
  <2> QED
    BY <2>1, <2>2
<1>5. \A m \in Nat : m \in I
  <2>1. I \in SUBSET Nat
    OBVIOUS
  <2> HIDE DEF I
  <2> QED
    BY <1>3, <1>4, <2>1, AllNumbers
<1>6. \A m \in 0 .. n : p[m] = f[1 .. m] /\ p[m] \in S
  BY <1>5
<1>7. p \in [0 .. n -> S]
  BY <1>6
<1>8. 0 \in 0 .. n /\ n \in 0 .. n /\ \A m \in Nat : m < n => m \in 0 .. n /\ m + 1 \in 0 .. n
  OBVIOUS
<1> HIDE DEF p
<1>9. \A m \in Nat : m < n => p[m + 1] = step[<<m + 1, p[m]>>]
  BY <1>2, <1>6, <1>8
<1>10. p[0] = base /\ p[n] = f[1 .. n]
  BY <1>1, <1>6, <1>8
<1> QED
  BY <1>7, <1>9, <1>10 DEF IsRun

\* The signs by which some things are told apart are those of an order.
IsSignOrder(sign, some) ==
  /\ sign \in [some \X some -> Signs]
  /\ \A i, j \in some : sign[<< i, j >>] = - sign[<< j, i >>]
  /\ \A i, j, k \in some : sign[<< i, j >>] <= 0 /\ sign[<< j, k >>] <= 0 => sign[<< i, k >>] <= 0

IsLowest(i, sign, some) == i \in some /\ \A j \in some : sign[<< i, j >>] <= 0

\* What first_fixed_version chooses of the fixes of an order.
LEMMA LowestFixIs ==
  ASSUME NEW ranges, IsList(ranges), NEW some \in SUBSET DOMAIN ranges, some # {},
         NEW sign, IsSignOrder(sign, some)
  PROVE  \E i \in some : LowestFix(ranges, some, sign) = ranges[i].fixed /\ IsLowest(i, sign, some)
<1> DEFINE n == Len(ranges)
           S == some \union {0}
           Lower(lowest, i) == IF i \notin some THEN lowest
                               ELSE IF lowest = 0 \/ sign[<< i, lowest >>] < 0 THEN i ELSE lowest
           step == [q \in (1 .. n) \X S |-> Lower(q[2], q[1])]
           places == [i \in DOMAIN ranges |-> i]
           Folds(f) == f = [T \in SUBSET DOMAIN places |->
                              IF T = {} THEN 0 ELSE Lower(f[T \ {Max(T)}], places[Max(T)])]
           f0 == CHOOSE f : Folds(f)
<1>0. /\ sign \in [some \X some -> Signs]
      /\ \A i, j \in some : sign[<< i, j >>] = - sign[<< j, i >>]
      /\ \A i, j, k \in some : sign[<< i, j >>] <= 0 /\ sign[<< j, k >>] <= 0 => sign[<< i, k >>] <= 0
  BY DEF IsSignOrder
<1>1. n \in Nat /\ DOMAIN ranges = 1 .. n /\ DOMAIN places = 1 .. n /\ 0 \notin some
  BY DEF IsList
<1>2. LowestFix(ranges, some, sign) = ranges[f0[DOMAIN places]].fixed
  BY DEF LowestFix, FoldLeft, MapThenFoldSet
<1> HIDE DEF n
<1>3. \A s \in S, i \in 1 .. n : Lower(s, i) \in S
  OBVIOUS
<1>4. step \in [(1 .. n) \X S -> S]
  BY <1>3
<1>5. \A s \in S, i \in 1 .. n : step[<<i, s>>] = Lower(s, i)
  OBVIOUS
<1>6. \A i \in 1 .. n : places[i] = i
  BY <1>1
<1> HIDE DEF step, places, Lower
<1>7. 0 \in S
  OBVIOUS
<1> HIDE DEF S
<1>8. PICK g : IsFold(g, n, S, 0, step)
  BY <1>1, <1>4, <1>7, FoldExists
<1>9. \A T \in SUBSET (1 .. n) : T # {} => Max(T) \in 1 .. n /\ T \ {Max(T)} \in SUBSET (1 .. n)
  BY <1>1, MaxOfSome
<1>10. Folds(g)
  <2>1. /\ g \in [SUBSET (1 .. n) -> S]
        /\ \A T \in SUBSET (1 .. n) : g[T] = IF T = {} THEN 0 ELSE step[<<Max(T), g[T \ {Max(T)}]>>]
    BY <1>8 DEF IsFold
  <2>2. ASSUME NEW T \in SUBSET (1 .. n)
        PROVE  g[T] = IF T = {} THEN 0 ELSE Lower(g[T \ {Max(T)}], places[Max(T)])
    <3>1. CASE T = {}
      BY <2>1, <3>1
    <3>2. CASE T # {}
      <4> DEFINE i == Max(T)
                 s == g[T \ {i}]
      <4>1. i \in 1 .. n /\ s \in S /\ g[T] = step[<<i, s>>]
        BY <1>9, <2>1, <3>2
      <4>2. places[i] = i /\ step[<<i, s>>] = Lower(s, i)
        BY <1>5, <1>6, <4>1
      <4> QED
        BY <3>2, <4>1, <4>2
    <3> QED
      BY <3>1, <3>2
  <2> QED
    BY <1>1, <2>1, <2>2
<1>11. Folds(f0)
  <2> HIDE DEF Folds
  <2> QED BY <1>10
<1> HIDE DEF f0
<1>12. \A T \in SUBSET (1 .. n) : f0[T] = IF T = {} THEN 0 ELSE Lower(f0[T \ {Max(T)}], places[Max(T)])
  BY <1>1, <1>11
<1> HIDE DEF Folds
<1>130. PICK p : IsRun(p, f0, n, S, 0, step)
  <2>1. f0[{}] = 0
    BY <1>12
  <2>2. \A T \in SUBSET (1 .. n) : T # {} /\ f0[T \ {Max(T)}] \in S =>
            f0[T] = step[<<Max(T), f0[T \ {Max(T)}]>>]
    <3> SUFFICES ASSUME NEW T \in SUBSET (1 .. n), T # {}, f0[T \ {Max(T)}] \in S
                 PROVE  f0[T] = step[<<Max(T), f0[T \ {Max(T)}]>>]
      OBVIOUS
    <3> DEFINE i == Max(T)
               s == f0[T \ {i}]
    <3>1. i \in 1 .. n /\ f0[T] = Lower(s, places[i]) /\ s \in S
      BY <1>9, <1>12
    <3> QED
      BY <1>5, <1>6, <3>1
  <2>3. Runs(f0, n, S, 0, step)
    BY <2>1, <2>2 DEF Runs
  <2> QED
    BY <1>1, <1>4, <1>7, <2>3, FoldRuns
<1>13. /\ p \in [0 .. n -> S] /\ p[0] = 0
       /\ \A m \in Nat : m < n => p[m + 1] = step[<<m + 1, p[m]>>]
       /\ p[n] = f0[1 .. n]
  BY <1>130 DEF IsRun
<1> DEFINE Least(m) == /\ p[m] # 0 => p[m] \in some
                       /\ p[m] = 0 => \A j \in some : ~ j <= m
                       /\ \A j \in some : j <= m => sign[<< p[m], j >>] <= 0
           I == {m \in Nat : m <= n => Least(m)}
<1>14. 0 \in I
  BY <1>1, <1>13
<1>15. ASSUME NEW m \in I PROVE m + 1 \in I
  <2> SUFFICES ASSUME m + 1 <= n PROVE Least(m + 1)
    OBVIOUS
  <2> DEFINE lowest == p[m]
             i == m + 1
             t == p[m + 1]
  <2>1. m \in Nat /\ m < n /\ i \in 1 .. n /\ m \in 0 .. n /\ lowest \in S
    BY <1>1, <1>13
  <2>2. t = Lower(lowest, i)
    BY <1>5, <1>13, <2>1
  <2>3. Least(m)
    BY <2>1
  <2>4. \A j \in some : j <= i <=> j <= m \/ j = i
    BY <1>1, <2>1
  <2>5. CASE i \notin some
    <3>1. t = lowest
      BY <2>2, <2>5 DEF Lower
    <3> QED
      BY <2>3, <2>4, <2>5, <3>1
  <2>6. CASE i \in some /\ lowest = 0
    <3>1. t = i
      BY <2>2, <2>6 DEF Lower
    <3>2. \A j \in some : j <= i => j = i
      BY <2>3, <2>4, <2>6
    <3>3. sign[<< i, i >>] = - sign[<< i, i >>] /\ sign[<< i, i >>] \in Signs
      BY <1>0, <2>6
    <3> QED
      BY <1>1, <2>1, <2>6, <3>1, <3>2, <3>3 DEF Signs
  <2>7. CASE i \in some /\ lowest # 0
    <3>1. lowest \in some /\ \A j \in some : j <= m => sign[<< lowest, j >>] <= 0
      BY <2>3, <2>7
    <3>2. /\ sign[<< i, lowest >>] \in Signs /\ sign[<< lowest, i >>] = - sign[<< i, lowest >>]
          /\ sign[<< i, i >>] = - sign[<< i, i >>] /\ sign[<< i, i >>] \in Signs
      BY <1>0, <2>7, <3>1
    <3>3. CASE sign[<< i, lowest >>] < 0
      <4>1. t = i
        BY <2>2, <2>7, <3>3 DEF Lower
      <4>2. \A j \in some : j <= m => sign[<< i, j >>] <= 0
        <5>1. sign[<< i, lowest >>] <= 0
          BY <3>2, <3>3 DEF Signs
        <5> QED BY <1>0, <2>7, <3>1, <5>1
      <4>3. sign[<< i, i >>] <= 0
        BY <3>2 DEF Signs
      <4> QED
        BY <1>1, <2>1, <2>4, <2>7, <4>1, <4>2, <4>3
    <3>4. CASE ~ sign[<< i, lowest >>] < 0
      <4>1. t = lowest
        BY <2>2, <2>7, <3>4 DEF Lower
      <4>2. sign[<< lowest, i >>] <= 0
        BY <3>2, <3>4 DEF Signs
      <4> QED
        BY <1>1, <2>4, <2>7, <3>1, <4>1, <4>2
    <3> QED
      BY <3>3, <3>4
  <2> QED
    BY <2>5, <2>6, <2>7
<1>16. n \in I
  <2>1. I \in SUBSET Nat
    OBVIOUS
  <2> HIDE DEF I
  <2> QED
    BY <1>1, <1>14, <1>15, <2>1, AllNumbers
<1>17. Least(n)
  BY <1>1, <1>16
<1>18. \A j \in some : j <= n
  BY <1>1
<1>19. p[n] \in some /\ \A j \in some : sign[<< p[n], j >>] <= 0
  BY <1>17, <1>18
<1> QED
  BY <1>1, <1>2, <1>13, <1>19 DEF IsLowest

\* A fix is not itself affected.
LEMMA FixesAreSafe ==
  ASSUME NEW h, IsHistory(h), NEW i \in DOMAIN h, h[i].kind = "fixed"
  PROVE  h[i].version \in Plain /\ ~ SchemaSaysAffected(h, h[i].version)
<1> DEFINE w == h[i].version
<1>1. w \in Plain /\ Len(h) \in Nat \ {0} /\ DOMAIN h = 1 .. Len(h)
  BY HistoryIs
<1>2. w # None /\ compare("npm", w, w) = 0
  BY <1>1, PlainIsRaw, PlainOrder
<1>3. Ends(h[i], w)
  BY <1>2 DEF Ends, Below
<1> HIDE DEF w
<1>4. ASSUME NEW j \in DOMAIN h, h[j].kind = "introduced", Below(h[j], w), j > i
      PROVE  FALSE
  <2>1. i < j /\ h[j].version \in Plain
    BY <1>1, <1>4, HistoryIs
  <2>2. compare("npm", w, h[j].version) < 0
    <3>1. Rises(h[i], h[j])
      BY <1>2, <2>1, HistoryIs DEF w
    <3> QED
      BY <3>1 DEF Rises, w
  <2>3. compare("npm", h[j].version, w) <= 0
    BY <1>4, <2>1, PlainIsRaw DEF Below
  <2>4. /\ compare("npm", w, h[j].version) = - compare("npm", h[j].version, w)
        /\ compare("npm", h[j].version, w) \in Signs
    BY <1>1, <2>1, PlainOrder
  <2> QED
    BY <2>2, <2>3, <2>4 DEF Signs
<1>5. ~ SchemaSaysAffected(h, w)
  <2> SUFFICES ASSUME NEW j \in DOMAIN h, h[j].kind = "introduced", Below(h[j], w),
                      \A l \in DOMAIN h : l > j => ~ Ends(h[l], w)
               PROVE  FALSE
    BY DEF SchemaSaysAffected
  <2>1. ~ i > j
    BY <1>3
  <2>2. i # j
    OBVIOUS
  <2>3. j > i
    BY <1>1, <2>1, <2>2
  <2> QED
    BY <1>4, <2>3
<1> QED
  BY <1>1, <1>5 DEF w

\* The signs by which the fixes of some windows are told apart are an order.
LEMMA FixesAreOrdered ==
  ASSUME NEW ranges, NEW some, \A k \in some : ranges[k].fixed \in Plain
  PROVE  LET sign == FixSigns("npm", ranges, some)
         IN  /\ \A i, j \in some : sign[<< i, j >>] = compare("npm", ranges[i].fixed, ranges[j].fixed)
             /\ IsSignOrder(sign, some)
<1> DEFINE sign == FixSigns("npm", ranges, some)
           At(i) == ranges[i].fixed
<1>1. \A i, j \in some : sign[<< i, j >>] = compare("npm", At(i), At(j))
  BY DEF FixSigns
<1>2. \A i, j \in some : compare("npm", At(i), At(j)) \in Signs
                         /\ compare("npm", At(i), At(j)) = - compare("npm", At(j), At(i))
  BY PlainOrder
<1>3. sign \in [some \X some -> Signs]
  BY <1>2 DEF FixSigns
<1>4. \A i, j, k \in some :
         compare("npm", At(i), At(j)) <= 0 /\ compare("npm", At(j), At(k)) <= 0
            => compare("npm", At(i), At(k)) <= 0
  <2> SUFFICES ASSUME NEW i \in some, NEW j \in some, NEW k \in some,
                      compare("npm", At(i), At(j)) <= 0, compare("npm", At(j), At(k)) <= 0
               PROVE  compare("npm", At(i), At(k)) <= 0
    OBVIOUS
  <2>1. At(i) \in Plain /\ At(j) \in Plain /\ At(k) \in Plain
    OBVIOUS
  <2> HIDE DEF At
  <2> QED
    BY <2>1, PlainOrder
<1> HIDE DEF sign
<1>5. \A i, j \in some : sign[<< i, j >>] = - sign[<< j, i >>]
  BY <1>1, <1>2
<1>6. \A i, j, k \in some :
          sign[<< i, j >>] <= 0 /\ sign[<< j, k >>] <= 0 => sign[<< i, k >>] <= 0
  BY <1>1, <1>4
<1> QED
  BY <1>1, <1>3, <1>5, <1>6 DEF sign, IsSignOrder

\* The fix a reader is told is the lowest fix above the version that is not itself affected.
LEMMA LowestUpgrade ==
  ASSUME NEW h, IsHistory(h), NEW order \in Orders(h), Unshuffled(order), NEW v \in Plain
  PROVE  LET events == Picked(h, order)
             fix == first_fixed_version("npm", v, EntryOf(events))
             safe == {i \in DOMAIN h : /\ h[i].kind = "fixed"
                                       /\ compare("npm", h[i].version, v) > 0
                                       /\ ~ Hit(events, h[i].version)}
         IN  IF safe = {} THEN fix = None
             ELSE /\ \E i \in safe : h[i].version = fix
                  /\ \A i \in safe : compare("npm", h[i].version, fix) >= 0
<1> DEFINE events == Picked(h, order)
           entry == EntryOf(events)
           ranges == PairRangeEvents(events)
           fix == first_fixed_version("npm", v, entry)
           safe == {i \in DOMAIN h : /\ h[i].kind = "fixed"
                                     /\ compare("npm", h[i].version, v) > 0
                                     /\ ~ Hit(events, h[i].version)}
           above == {k \in DOMAIN ranges : /\ ranges[k].fixed # None
                                           /\ Parses(ranges[k].fixed)
                                           /\ compare("npm", ranges[k].fixed, v) > 0}
           sign == FixSigns("npm", ranges, above)
<1>1. /\ IsEvents(events) /\ Len(events) = Len(h) /\ DOMAIN events = DOMAIN h
      /\ \A i \in DOMAIN h : events[i] = h[i]
      /\ 1 \in DOMAIN events /\ events[1].kind = "introduced"
  <2>1. /\ IsEvents(events) /\ Len(events) = Len(h) /\ DOMAIN events = 1 .. Len(h)
        /\ order \in [1 .. Len(h) -> 1 .. Len(h)]
        /\ \A i \in 1 .. Len(h) : events[i] = h[order[i]]
    BY ShuffledIs
  <2>2. Len(h) \in Nat \ {0} /\ DOMAIN h = 1 .. Len(h) /\ h[1].kind = "introduced"
    BY HistoryIs
  <2> HIDE DEF events
  <2>3. \A i \in DOMAIN h : events[i] = h[i]
    BY <2>1, <2>2 DEF Unshuffled
  <2> QED
    BY <2>1, <2>2, <2>3
<1>2. entry.ranges = ranges
  BY <1>1, HitIs
<1>3. IsList(ranges) /\ \A k \in DOMAIN ranges : ranges[k].fixed \in Plain \union {None}
  <2>1. Len(events) # 0
    BY <1>1 DEF IsEvents, IsList
  <2>2. ranges \in Seq(RangesOf(events)) /\ BoundsOf(events) \subseteq Plain \union {None}
    BY <1>1, <2>1, PairedIsTyped
  <2> HIDE DEF ranges, events
  <2>3. IsList(ranges)
    BY <2>2 DEF IsList
  <2>4. \A k \in DOMAIN ranges : ranges[k] \in RangesOf(events)
    BY <2>2
  <2> QED
    BY <2>2, <2>3, <2>4 DEF RangesOf
<1>4. fix = LowestFix(ranges, above, sign)
  BY <1>2 DEF first_fixed_version
<1>5. \A i \in DOMAIN h : h[i].kind = "fixed" => h[i].version \in Plain /\ ~ Hit(events, h[i].version)
  BY FixesAreSafe, NothingIsMissed
<1>6. /\ \A k \in DOMAIN ranges : \E i \in DOMAIN h : IsWindow(h, i, ranges[k])
      /\ \A i \in DOMAIN h : h[i].kind = "fixed" => \E k \in DOMAIN ranges : ranges[k].fixed = h[i].version
  BY <1>1, InOrderPairs
<1> HIDE DEF events, entry, ranges, fix
<1>7. ASSUME NEW k \in above PROVE \E i \in safe : h[i].version = ranges[k].fixed
  <2>1. PICK i \in DOMAIN h : IsWindow(h, i, ranges[k])
    BY <1>6
  <2>2. ranges[k].fixed # None
    OBVIOUS
  <2>3. i < Len(h) /\ h[i + 1].kind = "fixed" /\ ranges[k].fixed = h[i + 1].version
    BY <2>1, <2>2 DEF IsWindow, AffectedRange
  <2> DEFINE j == i + 1
  <2>4. j \in DOMAIN h
    BY <2>3, HistoryIs
  <2> HIDE DEF j
  <2>5. j \in safe
    BY <1>5, <2>3, <2>4 DEF j
  <2> QED
    BY <2>3, <2>5 DEF j
<1>8. ASSUME NEW i \in safe PROVE \E k \in above : ranges[k].fixed = h[i].version
  <2>1. PICK k \in DOMAIN ranges : ranges[k].fixed = h[i].version
    BY <1>6
  <2>2. h[i].version \in Plain /\ compare("npm", h[i].version, v) > 0
    BY <1>5
  <2>3. Parses(h[i].version) /\ h[i].version # None
    BY <2>2, PlainOrder, PlainIsRaw
  <2> QED
    BY <2>1, <2>2, <2>3
<1>9. \A k \in above : ranges[k].fixed \in Plain
  BY <1>3
<1>10. above \in SUBSET DOMAIN ranges
  OBVIOUS
<1> HIDE DEF above, safe, sign
<1>11. CASE above = {}
  <2>1. safe = {}
    BY <1>8, <1>11
  <2>2. fix = None
    BY <1>4, <1>11 DEF LowestFix
  <2> QED
    BY <2>1, <2>2 DEF events, entry, fix, safe
<1>12. CASE above # {}
  <2>1. /\ \A i, j \in above : sign[<< i, j >>] = compare("npm", ranges[i].fixed, ranges[j].fixed)
        /\ IsSignOrder(sign, above)
    BY <1>9, FixesAreOrdered DEF sign
  <2>2. PICK l \in above : fix = ranges[l].fixed /\ \A k \in above : sign[<< l, k >>] <= 0
    <3>1. \E l \in above : LowestFix(ranges, above, sign) = ranges[l].fixed /\ IsLowest(l, sign, above)
      BY <1>3, <1>10, <1>12, <2>1, LowestFixIs
    <3> QED
      BY <1>4, <3>1 DEF IsLowest
  <2>3. \E i \in safe : h[i].version = fix
    BY <1>7, <2>2
  <2>4. ASSUME NEW i \in safe PROVE compare("npm", h[i].version, fix) >= 0
    <3>1. PICK k \in above : ranges[k].fixed = h[i].version
      BY <1>8
    <3>2. compare("npm", fix, h[i].version) <= 0
      BY <2>1, <2>2, <3>1
    <3>3. fix \in Plain /\ h[i].version \in Plain
      BY <1>9, <2>2, <3>1
    <3>4. /\ compare("npm", h[i].version, fix) = - compare("npm", fix, h[i].version)
          /\ compare("npm", fix, h[i].version) \in Signs
      BY <3>3, PlainOrder
    <3> QED
      BY <3>2, <3>4 DEF Signs
  <2>5. safe # {}
    BY <2>3
  <2> QED
    BY <2>3, <2>4, <2>5 DEF events, entry, fix, safe
<1> QED
  BY <1>11, <1>12

\* UpgradeIsSafe, for every history and every order of its bounds.
LEMMA UpgradesAreSafe == IntakeAsking => UpgradeIsSafe
<1> SUFFICES ASSUME IntakeAsking, question.kind = "events", NEW v \in Installed
             PROVE  LET history == question.history
                        events == Picked(history, question.order)
                        entry == EntryOf(events)
                        fix == first_fixed_version("npm", v, entry)
                        safe == {i \in DOMAIN history :
                                    /\ history[i].kind = "fixed"
                                    /\ compare("npm", history[i].version, v) > 0
                                    /\ ~ Hit(events, history[i].version)}
                        Lowest == IF safe = {} THEN fix = None
                                  ELSE /\ \E i \in safe : history[i].version = fix
                                       /\ \A i \in safe : compare("npm", history[i].version, fix) >= 0
                    IN  /\ Unshuffled(question.order) => Lowest
                        /\ GoFix([version |-> v], entry) = fix
  BY DEF UpgradeIsSafe
<1> DEFINE h == question.history
           order == question.order
           events == Picked(h, order)
           entry == EntryOf(events)
           dependency == [ecosystem |-> "npm", version |-> v]
<1>1. h \in Histories /\ order \in Orders(h)
  BY DEF IntakeAsking, EventQuestions
<1>2. IsHistory(h) /\ v \in Plain
  BY <1>1, IntakeAssumption
<1> HIDE DEF h, order
<1>3. IsPlainEntry(entry)
  <2>1. IsEvents(events) /\ DOMAIN events = 1 .. Len(h) /\ order \in [1 .. Len(h) -> 1 .. Len(h)]
        /\ (\A i \in 1 .. Len(h) : events[i] = h[order[i]])
        /\ \A i \in 1 .. Len(h) : \E k \in 1 .. Len(h) : order[k] = i
    BY <1>1, <1>2, ShuffledIs
  <2>2. 1 \in 1 .. Len(h) /\ h[1].kind = "introduced"
    BY <1>2, HistoryIs
  <2>3. PICK o \in 1 .. Len(h) : order[o] = 1
    BY <2>1, <2>2
  <2>4. o \in DOMAIN events /\ events[o].kind = "introduced"
    BY <2>1, <2>2, <2>3
  <2> HIDE DEF events
  <2> QED
    BY <1>2, <2>1, <2>4, HitIs
<1>4. GoFix([version |-> v], entry) = GoFix(dependency, entry)
  BY DEF GoFix
<1>5. dependency.ecosystem = "npm" /\ dependency.version = v
  OBVIOUS
<1> HIDE DEF dependency, entry
<1>6. GoFix(dependency, entry) = first_fixed_version("npm", v, entry)
  BY <1>2, <1>3, <1>5, EnginesFixAlike
<1> QED
  BY <1>1, <1>2, <1>4, <1>6, LowestUpgrade DEF h, order, entry

\* A version compares with another as its parts before the first difference.
LEMMA PyPIAsNpm ==
  ASSUME NEW a \in RawVersion, NEW b \in RawVersion
  PROVE  compare("PyPI", a, b) = compare("npm", a, b)
<1>1. /\ normalize("PyPI", a).nums = a.nums /\ normalize("PyPI", a).tail = a.tail
      /\ normalize("PyPI", b).nums = b.nums /\ normalize("PyPI", b).tail = b.tail
      /\ normalize("npm", a).nums = a.nums /\ normalize("npm", a).tail = a.tail
      /\ normalize("npm", b).nums = b.nums /\ normalize("npm", b).tail = b.tail
  BY DEF normalize, RawVersion
<1>2. /\ compare("PyPI", a, b) = SemVerCompare(normalize("PyPI", a), normalize("PyPI", b))
      /\ compare("npm", a, b) = SemVerCompare(normalize("npm", a), normalize("npm", b))
  BY DEF compare
<1> QED
  BY <1>1, <1>2 DEF SemVerCompare

\* compare orders versions totally.
LEMMA RawOrder ==
  ASSUME NEW a \in RawVersion, NEW b \in RawVersion
  PROVE  /\ compare("npm", a, b) = - compare("npm", b, a)
         /\ compare("npm", a, b) \in Signs /\ compare("npm", b, a) \in Signs
         /\ compare("npm", a, a) = 0
<1>1. compare("npm", a, b) \in Signs /\ compare("npm", b, a) \in Signs /\ compare("npm", a, a) \in Signs
  BY SemVerSigns
<1>2. compare("npm", a, b) = - compare("npm", b, a) /\ compare("npm", a, a) = - compare("npm", a, a)
  BY SemVerOrders DEF Ordered
<1> QED
  BY <1>1, <1>2 DEF Signs

\* The start of a version, filled with zeros or not, is no higher than it.
LEMMA StartsLow ==
  ASSUME NEW parts \in Seq(Nat), NEW nums \in Seq(Nat), NEW v \in RawVersion, v.tail = << >>,
         \A i \in Places : Padded(nums, i) = Padded(parts, i),
         \A i \in DOMAIN parts : i \in DOMAIN v.nums /\ v.nums[i] = parts[i],
         Raw(nums, << >>) \in RawVersion
  PROVE  compare("npm", Raw(nums, << >>), v) <= 0
<1> DEFINE a == nums
           b == v.nums
           n == Longer(a, b)
           s == [i \in 1 .. n |-> Sign(Padded(a, i) - Padded(b, i))]
           release == CompareRelease(a, b)
<1>1. b \in Seq(Nat) /\ n \in Nat
  BY DEF RawVersion, Longer
<1>2. \A i \in 1 .. n : s[i] <= 0 /\ s[i] \in Signs
  <2> SUFFICES ASSUME NEW i \in 1 .. n PROVE Sign(Padded(a, i) - Padded(b, i)) <= 0
                                             /\ Sign(Padded(a, i) - Padded(b, i)) \in Signs
    OBVIOUS
  <2>1. i \in Places
    BY <1>1 DEF Places
  <2>2. Padded(a, i) \in Nat /\ Padded(b, i) \in Nat
    BY <1>1, <2>1, PaddedIsNumber
  <2>3. Padded(a, i) <= Padded(b, i)
    <3>1. CASE i \in DOMAIN parts
      BY <2>1, <2>2, <3>1 DEF Padded
    <3>2. CASE i \notin DOMAIN parts
      <4>1. Padded(parts, i) = 0
        BY <3>2 DEF Padded
      <4> QED
        BY <2>1, <2>2, <4>1
    <3> QED
      BY <3>1, <3>2
  <2> DEFINE x == Padded(a, i)
             y == Padded(b, i)
  <2>4. x \in Nat /\ y \in Nat /\ x <= y
    BY <2>2, <2>3
  <2> HIDE DEF x, y
  <2>5. Sign(x - y) <= 0 /\ Sign(x - y) \in Signs
    BY <2>4 DEF Sign, Signs
  <2> QED
    BY <2>5 DEF x, y
<1>3. release <= 0 /\ release \in Signs
  <2>1. release = FirstSign(s)
    BY DEF CompareRelease
  <2>2. DOMAIN s = 1 .. n
    OBVIOUS
  <2> HIDE DEF s, n
  <2> DEFINE differ == {i \in DOMAIN s : s[i] # 0}
  <2>3. CASE differ = {}
    BY <2>1, <2>3 DEF FirstSign, Signs
  <2>4. CASE differ # {}
    <3>1. differ \in SUBSET Nat
      BY <1>1, <2>2
    <3>2. Min(differ) \in differ
      BY <2>4, <3>1, LeastOf
    <3>3. release = s[Min(differ)]
      BY <2>1, <2>4 DEF FirstSign
    <3> QED
      BY <1>2, <2>2, <3>2, <3>3
  <2> QED
    BY <2>3, <2>4
<1>4. ComparePrerelease(<< >>, << >>) = 0
  BY DEF ComparePrerelease, Sign
<1>5. compare("npm", Raw(nums, << >>), v) = IF release # 0 THEN release ELSE 0
  <2> DEFINE x == Raw(nums, << >>)
  <2>1. x.nums = a /\ x.tail = << >>
    BY DEF Raw
  <2>2. /\ normalize("npm", x).nums = a /\ normalize("npm", x).tail = << >>
        /\ normalize("npm", v).nums = b /\ normalize("npm", v).tail = << >>
    BY <2>1 DEF normalize, RawVersion
  <2> HIDE DEF x, release
  <2>3. compare("npm", x, v) = SemVerCompare(normalize("npm", x), normalize("npm", v))
    BY DEF compare
  <2> QED
    BY <1>4, <2>2, <2>3 DEF SemVerCompare, x, release
<1> HIDE DEF release
<1> QED
  BY <1>3, <1>5

-----------------------------------------------------------------------------
(* The comparators of a package.json. *)

\* What a comparator of a package.json is.
LEMMA ComparatorIs ==
  ASSUME NEW c, IsComparator(c)
  PROVE  /\ c.parts \in Seq(Nat) /\ Len(c.parts) \in Nat /\ Len(c.parts) <= 3 /\ c.pre = << >>
         /\ DOMAIN c.parts = 1 .. Len(c.parts)
         /\ c.op \in {"^", "~", ">=", "=", "", "<", ">"}
<1>1. c.parts \in Seq(Nat)
  BY Zenon DEF IsComparator
<1>2. Len(c.parts) <= 3 /\ c.pre = << >> /\ c.op \in {"^", "~", ">=", "=", "", "<", ">"}
  BY Zenon DEF IsComparator
<1> DEFINE parts == c.parts
<1>3. Len(parts) \in Nat /\ DOMAIN parts = 1 .. Len(parts)
  <2>1. parts \in Seq(Nat)
    BY <1>1
  <2> HIDE DEF parts
  <2> QED
    BY <2>1
<1> QED
  BY <1>1, <1>2, <1>3

\* Filling up with zeros gives a version of three numbers, those of the comparator first.
LEMMA ZeroFillIs ==
  ASSUME NEW c, IsComparator(c)
  PROVE  /\ ZeroFill(c) \in Plain /\ ZeroFill(c).tail = << >> /\ ZeroFill(c).ok
         /\ \E nums \in Seq(Nat) : /\ ZeroFill(c) = Raw(nums, << >>) /\ Len(nums) = 3
                                   /\ \A i \in Places : Padded(nums, i) = Padded(c.parts, i)
                                   /\ Len(c.parts) = 3 => nums = c.parts
<1> DEFINE nums == [i \in 1 .. 3 |-> Padded(c.parts, i)]
           n == IF Len(c.parts) < 3 THEN 3 ELSE Len(c.parts)
<1>1. c.parts \in Seq(Nat) /\ Len(c.parts) \in Nat /\ Len(c.parts) <= 3 /\ c.pre = << >>
  BY ComparatorIs
<1> DEFINE l == Len(c.parts)
<1>2. n = 3
  <2>1. l \in Nat /\ l <= 3
    BY <1>1
  <2>2. n = IF l < 3 THEN 3 ELSE l
    OBVIOUS
  <2> HIDE DEF l, n
  <2> QED
    BY <2>1, <2>2
<1>3. ZeroFill(c) = Raw(nums, << >>)
  <2>1. ZeroFill(c) = Raw([i \in 1 .. n |-> Padded(c.parts, i)], c.pre)
    BY DEF ZeroFill
  <2> HIDE DEF n
  <2> QED
    BY <1>1, <1>2, <2>1
<1>4. \A i \in 1 .. 3 : Padded(c.parts, i) \in Nat
  BY <1>1, PaddedIsNumber DEF Places
<1>5. nums \in Seq(Nat) /\ Len(nums) = 3 /\ DOMAIN nums = 1 .. 3
  BY <1>4
<1>6. \A i \in Places : Padded(nums, i) = Padded(c.parts, i)
  <2> SUFFICES ASSUME NEW i \in Places PROVE Padded(nums, i) = Padded(c.parts, i)
    OBVIOUS
  <2>1. CASE i \in 1 .. 3
    <3>1. Padded(nums, i) = nums[i] /\ nums[i] = Padded(c.parts, i)
      BY <1>5, <2>1 DEF Padded
    <3> QED
      BY <3>1
  <2>2. CASE i \notin 1 .. 3
    <3>1. i \notin DOMAIN c.parts
      BY <1>1, <2>2 DEF Places
    <3> QED
      BY <1>5, <2>2, <3>1 DEF Padded
  <2> QED
    BY <2>1, <2>2
<1>7. Len(c.parts) = 3 => nums = c.parts
  <2> SUFFICES ASSUME Len(c.parts) = 3 PROVE nums = c.parts
    OBVIOUS
  <2>1. DOMAIN c.parts = 1 .. 3 /\ c.parts = [i \in 1 .. 3 |-> c.parts[i]]
    BY <1>1
  <2>2. \A i \in 1 .. 3 : Padded(c.parts, i) = c.parts[i]
    BY <2>1 DEF Padded
  <2> QED
    BY <2>1, <2>2
<1> HIDE DEF nums
<1>8. ZeroFill(c) \in Plain /\ ZeroFill(c).tail = << >> /\ ZeroFill(c).ok
  <2>1. Raw(nums, << >>) \in RawVersion
    BY <1>5 DEF Raw, RawVersion
  <2> QED
    BY <1>3, <1>5, <2>1 DEF Plain, Raw
<1> QED
  BY <1>3, <1>5, <1>6, <1>7, <1>8

\* What a comparator admits is no lower than its numbers, and is they if it
\* asks for all three.
LEMMA AdmitsAbove ==
  ASSUME NEW c, IsComparator(c), c.parts # << >>, c.op # "<", NEW v, Plainly(v), Admits(c, v)
  PROVE  /\ compare("npm", ZeroFill(c), v) <= 0
         /\ c.op \in {"=", ""} /\ Len(c.parts) >= 3 => v = ZeroFill(c)
<1> DEFINE floor == ZeroFill(c)
<1>1. /\ floor \in Plain /\ v \in Plain /\ v.tail = << >>
      /\ v \in RawVersion /\ floor \in RawVersion
  BY ZeroFillIs, PlainIsRaw DEF Plainly
<1>2. /\ compare("npm", floor, v) = - compare("npm", v, floor)
      /\ compare("npm", v, floor) \in Signs
  BY <1>1, PlainOrder
<1>3. CASE c.op \in {"^", "~", ">="}
  <2>1. compare("npm", v, floor) >= 0
    BY <1>3 DEF Admits
  <2>2. compare("npm", floor, v) <= 0
    BY <1>2, <2>1 DEF Signs
  <2>3. c.op # "=" /\ c.op # ""
    BY <1>3
  <2> QED
    BY <2>2, <2>3
<1>4. CASE c.op = ">"
  <2>1. compare("npm", v, floor) > 0
    BY <1>4 DEF Admits
  <2>2. compare("npm", floor, v) <= 0
    BY <1>2, <2>1 DEF Signs
  <2> QED
    BY <1>4, <2>2
<1>5. CASE c.op \in {"=", ""}
  <2>1. \A i \in 1 .. 3 : i \in DOMAIN c.parts => v.nums[i] = c.parts[i]
    BY <1>5 DEF Admits
  <2>2. c.parts \in Seq(Nat) /\ Len(c.parts) \in Nat /\ Len(c.parts) <= 3
        /\ DOMAIN c.parts = 1 .. Len(c.parts)
    BY ComparatorIs
  <2>3. v.nums \in Seq(Nat) /\ Len(v.nums) = 3 /\ DOMAIN v.nums = 1 .. 3
    BY <1>1 DEF Plain, RawVersion
  <2> DEFINE l == Len(c.parts)
             places == DOMAIN c.parts
             mine == DOMAIN v.nums
  <2>4. \A i \in DOMAIN c.parts : i \in DOMAIN v.nums /\ v.nums[i] = c.parts[i]
    <3>1. l \in Nat /\ l <= 3 /\ places = 1 .. l /\ mine = 1 .. 3
      BY <2>2, <2>3
    <3>2. \A i \in 1 .. 3 : i \in places => v.nums[i] = c.parts[i]
      BY <2>1
    <3> HIDE DEF l, places, mine
    <3>3. \A i \in places : i \in mine /\ v.nums[i] = c.parts[i]
      BY <3>1, <3>2
    <3> QED
      BY <3>3 DEF places, mine
  <2>5. PICK nums \in Seq(Nat) : /\ floor = Raw(nums, << >>) /\ Len(nums) = 3
                                 /\ \A i \in Places : Padded(nums, i) = Padded(c.parts, i)
                                 /\ Len(c.parts) = 3 => nums = c.parts
    BY ZeroFillIs
  <2> HIDE DEF floor
  <2>6. compare("npm", floor, v) <= 0
    BY <1>1, <2>2, <2>4, <2>5, StartsLow
  <2>7. ASSUME Len(c.parts) >= 3 PROVE v = floor
    <3>0. l = 3
      <4>1. l \in Nat /\ l <= 3 /\ l >= 3
        BY <2>2, <2>7
      <4> HIDE DEF l
      <4> QED
        BY <4>1
    <3>1. nums = c.parts /\ Len(c.parts) = 3
      BY <2>5, <3>0
    <3>2. v.nums = nums
      <4>1. \A i \in 1 .. 3 : v.nums[i] = nums[i]
        BY <2>1, <2>2, <3>1
      <4> DEFINE w == v.nums
      <4>2. w \in Seq(Nat) /\ Len(w) = 3 /\ \A i \in 1 .. 3 : w[i] = nums[i]
        BY <2>3, <4>1
      <4> HIDE DEF w
      <4>3. Len(nums) = 3 /\ nums \in Seq(Nat)
        BY <2>5
      <4>4. w = [i \in 1 .. 3 |-> w[i]] /\ nums = [i \in 1 .. 3 |-> nums[i]]
        BY <4>2, <4>3
      <4>5. w = nums
        BY <4>2, <4>4
      <4> QED
        BY <4>5 DEF w
    <3>3. v = [ok |-> TRUE, v |-> FALSE, incompatible |-> FALSE, nums |-> v.nums, tail |-> << >>]
      BY <1>1 DEF Plain, RawVersion
    <3> QED
      BY <2>5, <3>2, <3>3 DEF Raw
  <2> QED
    BY <2>6, <2>7 DEF floor
<1> QED
  BY <1>3, <1>4, <1>5 DEF IsComparator

\* The floor of one branch.
LEMMA BranchIs ==
  ASSUME NEW branch, IsList(branch), \A j \in DOMAIN branch : IsComparator(branch[j]),
         ResolveBranch(branch) # None
  PROVE  LET floor == ResolveBranch(branch)
         IN  /\ floor \in [version : Plain, exact : BOOLEAN]
             /\ \A v : Plainly(v) /\ (\A j \in DOMAIN branch : Admits(branch[j], v)) =>
                   /\ compare("npm", floor.version, v) <= 0
                   /\ floor.exact => v = floor.version
<1> DEFINE floor == ResolveBranch(branch)
           Counts(c) == c.op \in {">=", "^", "~", ""} /\ ResolveToken(c) # None
           some == {i \in DOMAIN branch : Counts(branch[i])}
           floors == Kept(branch, some)
<1>1. floor = IF Len(branch) = 1 THEN ResolveToken(branch[1])
              ELSE IF floors = << >> THEN None
              ELSE [version |-> ZeroFill(floors[1]), exact |-> FALSE]
  BY DEF ResolveBranch
<1> HIDE DEF floor
<1>2. \A c : ResolveToken(c) # None => c.parts # << >> /\ c.op # "<"
                /\ ResolveToken(c) = [version |-> ZeroFill(c), exact |-> c.op \in {"=", ""} /\ Len(c.parts) >= 3]
  BY DEF ResolveToken
<1>3. floor # None
  BY DEF floor
<1>4. CASE Len(branch) = 1
  <2>1. 1 \in DOMAIN branch /\ IsComparator(branch[1]) /\ floor = ResolveToken(branch[1])
    BY <1>1, <1>4 DEF IsList
  <2> DEFINE c == branch[1]
  <2>2. /\ c.parts # << >> /\ c.op # "<"
        /\ floor = [version |-> ZeroFill(c), exact |-> c.op \in {"=", ""} /\ Len(c.parts) >= 3]
    BY <1>2, <1>3, <2>1
  <2>3. floor.version = ZeroFill(c) /\ floor.exact = (c.op \in {"=", ""} /\ Len(c.parts) >= 3)
    BY <2>2
  <2>4. floor \in [version : Plain, exact : BOOLEAN]
    <3>1. ZeroFill(c) \in Plain
      BY <2>1, ZeroFillIs
    <3>2. (c.op \in {"=", ""} /\ Len(c.parts) >= 3) \in BOOLEAN
      OBVIOUS
    <3> QED
      BY <2>2, <3>1, <3>2
  <2>5. ASSUME NEW v, Plainly(v), \A j \in DOMAIN branch : Admits(branch[j], v)
        PROVE  /\ compare("npm", floor.version, v) <= 0
               /\ floor.exact => v = floor.version
    BY <2>1, <2>2, <2>3, <2>5, AdmitsAbove
  <2> QED
    BY <2>4, <2>5 DEF floor
<1>5. CASE Len(branch) # 1
  <2>1. floors # << >> /\ floor = [version |-> ZeroFill(floors[1]), exact |-> FALSE]
    BY <1>1, <1>3, <1>5
  <2>2. 1 \in DOMAIN floors
    <3>1. IsList(floors) /\ Len(floors) = Cardinality(some) /\ (some = {} <=> floors = << >>)
      BY KeptHolds
    <3>2. IsFiniteSet(some) /\ Cardinality(some) # 0
      <4>1. IsFiniteSet(some)
        BY PlacesAreFinite
      <4> QED
        BY <2>1, <3>1, <4>1, FS_EmptySet
    <3> HIDE DEF some, floors
    <3> QED
      BY <3>1, <3>2 DEF IsList
  <2>3. PICK j \in some : floors[1] = branch[j]
    BY <2>2, KeptHolds
  <2> DEFINE c == branch[j]
  <2>4. IsComparator(c) /\ c.parts # << >> /\ c.op # "<" /\ j \in DOMAIN branch
    BY <1>2
  <2>5. floor = [version |-> ZeroFill(c), exact |-> FALSE]
    BY <2>1, <2>3
  <2> HIDE DEF c
  <2>6. floor \in [version : Plain, exact : BOOLEAN]
    BY <2>4, <2>5, ZeroFillIs
  <2>7. ASSUME NEW v, Plainly(v), \A k \in DOMAIN branch : Admits(branch[k], v)
        PROVE  /\ compare("npm", floor.version, v) <= 0
               /\ floor.exact => v = floor.version
    <3>1. Admits(c, v)
      BY <2>4, <2>7 DEF c
    <3>2. compare("npm", ZeroFill(c), v) <= 0
      BY <2>4, <2>7, <3>1, AdmitsAbove
    <3> QED
      BY <2>5, <3>2
  <2> QED
    BY <2>6, <2>7 DEF floor
<1> QED
  BY <1>4, <1>5

\* The rest of a list, place by place.
LEMMA RestIs ==
  ASSUME NEW list, IsList(list), Len(list) # 0, NEW S, \A i \in DOMAIN list : list[i] \in S,
         list \in Seq(S)
  PROVE  LET rest == Tail(list)
         IN  /\ Len(list) - 1 \in Nat /\ Len(rest) = Len(list) - 1
             /\ DOMAIN rest = 1 .. (Len(list) - 1)
             /\ \A i \in 1 .. (Len(list) - 1) : rest[i] = list[i + 1]
<1>1. Len(list) \in Nat
  OBVIOUS
<1> QED
  BY <1>1

FloorsOf(spec) == Floors([i \in DOMAIN spec |-> ResolveBranch(spec[i])])

\* The floor of a range is the lowest of the floors of its branches.
LEMMA NpmFloorIs ==
  ASSUME NEW spec, NEW S, S \subseteq [version : Plain, exact : BOOLEAN],
         IsList(FloorsOf(spec)), Len(FloorsOf(spec)) # 0, FloorsOf(spec) \in Seq(S),
         S = {FloorsOf(spec)[i] : i \in DOMAIN FloorsOf(spec)}
  PROVE  \E lowest \in S : /\ resolve_npm_floor(spec) =
                                 [lowest EXCEPT !.exact = @ /\ Len(FloorsOf(spec)) = 1]
                           /\ \A f \in S : compare("npm", lowest.version, f.version) <= 0
<1> DEFINE floors == FloorsOf(spec)
           rest == Tail(floors)
           n == Len(floors) - 1
           Lower(lowest, f) == IF compare("npm", f.version, lowest.version) < 0 THEN f ELSE lowest
           step == [q \in (1 .. n) \X S |-> Lower(q[2], rest[q[1]])]
           base == floors[1]
           Folds(f) == f = [T \in SUBSET DOMAIN rest |->
                              IF T = {} THEN base ELSE Lower(f[T \ {Max(T)}], rest[Max(T)])]
           f0 == CHOOSE f : Folds(f)
<1>1. /\ n \in Nat /\ Len(rest) = n /\ DOMAIN rest = 1 .. n
      /\ \A i \in 1 .. n : rest[i] = floors[i + 1]
      /\ DOMAIN floors = 1 .. (n + 1)
      /\ \A i \in DOMAIN floors : floors[i] \in S
  <2>1. \A i \in DOMAIN floors : floors[i] \in S
    OBVIOUS
  <2>2. n \in Nat /\ Len(rest) = n /\ DOMAIN rest = 1 .. n /\ \A i \in 1 .. n : rest[i] = floors[i + 1]
    BY <2>1, RestIs
  <2>3. Len(floors) = n + 1 /\ DOMAIN floors = 1 .. Len(floors)
    BY DEF IsList
  <2> HIDE DEF n
  <2> QED
    BY <2>1, <2>2, <2>3
<1>2. resolve_npm_floor(spec) = [f0[DOMAIN rest] EXCEPT !.exact = @ /\ Len(floors) = 1]
  <2>1. floors # << >>
    OBVIOUS
  <2> QED
    BY <2>1 DEF resolve_npm_floor, FoldLeft, MapThenFoldSet, FloorsOf
<1>0. IsList(floors) /\ floors \in Seq(S) /\ S = {floors[i] : i \in DOMAIN floors}
  OBVIOUS
<1> HIDE DEF floors
<1>3. base \in S /\ \A i \in 1 .. n : rest[i] \in S
  <2>1. n \in Nat => 1 \in 1 .. (n + 1) /\ \A i \in 1 .. n : i + 1 \in 1 .. (n + 1)
    OBVIOUS
  <2> HIDE DEF n, rest
  <2> QED
    BY <1>1, <2>1
<1> HIDE DEF n, rest, base
<1>4. \A s \in S, i \in 1 .. n : Lower(s, rest[i]) \in S
  BY <1>3
<1>5. step \in [(1 .. n) \X S -> S]
  BY <1>4
<1>6. \A s \in S, i \in 1 .. n : step[<<i, s>>] = Lower(s, rest[i])
  OBVIOUS
<1> HIDE DEF step, Lower
<1>7. PICK g : IsFold(g, n, S, base, step)
  BY <1>1, <1>3, <1>5, FoldExists
<1>8. \A T \in SUBSET (1 .. n) : T # {} => Max(T) \in 1 .. n /\ T \ {Max(T)} \in SUBSET (1 .. n)
  BY <1>1, MaxOfSome
<1>9. Folds(g)
  <2>1. /\ g \in [SUBSET (1 .. n) -> S]
        /\ \A T \in SUBSET (1 .. n) : g[T] = IF T = {} THEN base ELSE step[<<Max(T), g[T \ {Max(T)}]>>]
    BY <1>7 DEF IsFold
  <2>2. ASSUME NEW T \in SUBSET (1 .. n)
        PROVE  g[T] = IF T = {} THEN base ELSE Lower(g[T \ {Max(T)}], rest[Max(T)])
    <3>1. CASE T = {}
      BY <2>1, <3>1
    <3>2. CASE T # {}
      <4> DEFINE i == Max(T)
                 s == g[T \ {i}]
      <4>1. i \in 1 .. n /\ s \in S /\ g[T] = step[<<i, s>>]
        BY <1>8, <2>1, <3>2
      <4> HIDE DEF i, s
      <4>2. g[T] = Lower(s, rest[i])
        BY <1>6, <4>1
      <4> QED
        BY <3>2, <4>2 DEF i, s
    <3> QED
      BY <3>1, <3>2
  <2> QED
    BY <1>1, <2>1, <2>2
<1>10. Folds(f0)
  <2> HIDE DEF Folds
  <2> QED BY <1>9
<1> HIDE DEF f0
<1>11. \A T \in SUBSET (1 .. n) : f0[T] = IF T = {} THEN base ELSE Lower(f0[T \ {Max(T)}], rest[Max(T)])
  BY <1>1, <1>10
<1> HIDE DEF Folds
<1>12. PICK p : IsRun(p, f0, n, S, base, step)
  <2>1. f0[{}] = base
    BY <1>11
  <2>2. \A T \in SUBSET (1 .. n) : T # {} /\ f0[T \ {Max(T)}] \in S =>
            f0[T] = step[<<Max(T), f0[T \ {Max(T)}]>>]
    <3> SUFFICES ASSUME NEW T \in SUBSET (1 .. n), T # {}, f0[T \ {Max(T)}] \in S
                 PROVE  f0[T] = step[<<Max(T), f0[T \ {Max(T)}]>>]
      OBVIOUS
    <3> DEFINE i == Max(T)
               s == f0[T \ {i}]
    <3>1. i \in 1 .. n /\ f0[T] = Lower(s, rest[i]) /\ s \in S
      BY <1>8, <1>11
    <3> HIDE DEF i, s
    <3>2. f0[T] = step[<<i, s>>]
      BY <1>6, <3>1
    <3> QED
      BY <3>2 DEF i, s
  <2>3. Runs(f0, n, S, base, step)
    BY <2>1, <2>2 DEF Runs
  <2> QED
    BY <1>1, <1>3, <1>5, <2>3, FoldRuns
<1>13. /\ p \in [0 .. n -> S] /\ p[0] = base
       /\ \A m \in Nat : m < n => p[m + 1] = step[<<m + 1, p[m]>>]
       /\ p[n] = f0[1 .. n]
  BY <1>12 DEF IsRun
<1> DEFINE Least(m) == \A k \in 1 .. (m + 1) : compare("npm", p[m].version, floors[k].version) <= 0
           I == {m \in Nat : m <= n => Least(m)}
<1>14. \A f \in S : f.version \in Plain
  OBVIOUS
<1>15. 0 \in I
  <2>1. floors[1] = p[0] /\ p[0] \in S
    BY <1>3, <1>13 DEF base
  <2>3. \A k \in 1 .. (0 + 1) : k = 1
    OBVIOUS
  <2>2. compare("npm", p[0].version, p[0].version) = 0
    BY <1>14, <2>1, PlainOrder
  <2> QED
    BY <2>1, <2>2, <2>3
<1>16. ASSUME NEW m \in I PROVE m + 1 \in I
  <2> SUFFICES ASSUME m + 1 <= n PROVE Least(m + 1)
    OBVIOUS
  <2> DEFINE lowest == p[m]
             f == rest[m + 1]
             t == p[m + 1]
  <2>1. m \in Nat /\ m < n /\ m + 1 \in 1 .. n /\ m \in 0 .. n /\ m + 1 \in 0 .. n
    BY <1>1
  <2>2. lowest \in S /\ f \in S /\ t = Lower(lowest, f) /\ f = floors[m + 2]
    <3>1. lowest \in S /\ f \in S /\ f = floors[(m + 1) + 1]
      BY <1>1, <1>3, <1>13, <2>1
    <3>2. t = step[<<m + 1, lowest>>]
      BY <1>13, <2>1
    <3>3. step[<<m + 1, lowest>>] = Lower(lowest, f)
      BY <1>6, <2>1, <3>1
    <3>4. (m + 1) + 1 = m + 2
      BY <2>1
    <3> QED
      BY <3>1, <3>2, <3>3, <3>4
  <2>3. Least(m)
    BY <2>1
  <2> DEFINE At(k) == floors[k].version
             a == lowest.version
             b == f.version
  <2>4. a \in Plain /\ b \in Plain /\ \A k \in 1 .. (m + 2) : At(k) \in Plain
    <3>1. \A k \in 1 .. (m + 2) : k \in DOMAIN floors
      BY <1>1, <2>1
    <3> QED
      BY <1>1, <1>14, <2>2, <3>1
  <2>5. /\ compare("npm", a, b) = - compare("npm", b, a) /\ compare("npm", b, a) \in Signs
        /\ compare("npm", b, b) = 0
        /\ \A c \in Plain : compare("npm", b, a) <= 0 /\ compare("npm", a, c) <= 0 =>
              compare("npm", b, c) <= 0
    BY <2>4, PlainOrder
  <2>6. \A k \in 1 .. (m + 2) : k \in 1 .. (m + 1) \/ k = m + 2
    BY <2>1
  <2>7. \A k \in 1 .. (m + 1) : compare("npm", a, At(k)) <= 0 /\ At(k) \in Plain
    BY <2>1, <2>3, <2>4
  <2>8. At(m + 2) = b
    BY <2>2
  <2>9. t = IF compare("npm", b, a) < 0 THEN f ELSE lowest
    BY <2>2 DEF Lower
  <2>10. t.version = IF compare("npm", b, a) < 0 THEN b ELSE a
    BY <2>9
  <2> HIDE DEF At, a, b, lowest, f
  <2>11. CASE compare("npm", b, a) < 0
    <3>1. compare("npm", b, a) <= 0
      BY <2>5, <2>11 DEF Signs
    <3>2. \A k \in 1 .. (m + 2) : compare("npm", b, At(k)) <= 0
      BY <2>5, <2>6, <2>7, <2>8, <3>1
    <3>3. t.version = b
      BY <2>10, <2>11
    <3>4. \A k \in 1 .. (m + 2) : compare("npm", t.version, At(k)) <= 0
      BY <3>2, <3>3
    <3> QED
      BY <2>1, <3>4 DEF At
  <2>12. CASE ~ compare("npm", b, a) < 0
    <3>1. compare("npm", a, b) <= 0
      BY <2>5, <2>12 DEF Signs
    <3>2. \A k \in 1 .. (m + 2) : compare("npm", a, At(k)) <= 0
      BY <2>6, <2>7, <2>8, <3>1
    <3>3. t.version = a
      BY <2>10, <2>12
    <3>4. \A k \in 1 .. (m + 2) : compare("npm", t.version, At(k)) <= 0
      BY <3>2, <3>3
    <3> QED
      BY <2>1, <3>4 DEF At
  <2> QED
    BY <2>11, <2>12
<1>17. n \in I
  <2>1. I \in SUBSET Nat
    OBVIOUS
  <2> HIDE DEF I
  <2> QED
    BY <1>1, <1>15, <1>16, <2>1, AllNumbers
<1>18. Least(n)
  BY <1>1, <1>17
<1> HIDE DEF I
<1>19. p[n] \in S /\ \A f \in S : compare("npm", p[n].version, f.version) <= 0
  <2>1. p[n] \in S
    BY <1>1, <1>13
  <2>2. ASSUME NEW f \in S PROVE compare("npm", p[n].version, f.version) <= 0
    <3>1. PICK k \in DOMAIN floors : f = floors[k]
      BY <1>0
    <3>2. k \in 1 .. (n + 1)
      BY <1>1
    <3> QED
      BY <1>18, <3>1, <3>2
  <2> QED
    BY <2>1, <2>2
<1> HIDE DEF Least
<1>20. resolve_npm_floor(spec) = [p[n] EXCEPT !.exact = @ /\ Len(floors) = 1]
  <2>1. f0[DOMAIN rest] = p[n]
    BY <1>1, <1>13
  <2> QED
    BY <1>2, <2>1
<1> QED
  BY <1>19, <1>20 DEF floors

\* The floor of a package.json entry is below whatever its range admits.
LEMMA NpmRangesAreSafe ==
  ASSUME NEW spec, IsRange(spec), Resolvable(spec)
  PROVE  LET admitted == {v \in Releases : \E i \in DOMAIN spec :
                            \A j \in DOMAIN spec[i] : Admits(spec[i][j], v)}
         IN  LowestOf("npm", resolve_npm_floor(spec), admitted)
<1> DEFINE branches == [i \in DOMAIN spec |-> ResolveBranch(spec[i])]
           some == {i \in DOMAIN branches : branches[i] # None}
           floors == FloorsOf(spec)
           S == {floors[i] : i \in DOMAIN floors}
           admitted == {v \in Releases : \E i \in DOMAIN spec :
                            \A j \in DOMAIN spec[i] : Admits(spec[i][j], v)}
           floor == resolve_npm_floor(spec)
<1>1. /\ DOMAIN spec = 1 .. Len(spec) /\ Len(spec) \in Nat /\ Len(spec) > 0
      /\ \A i \in DOMAIN spec : IsList(spec[i]) /\ \A j \in DOMAIN spec[i] : IsComparator(spec[i][j])
      /\ \A i \in DOMAIN spec : ResolveBranch(spec[i]) # None
  BY DEF IsRange, IsList, Resolvable
<1>2. IsList(branches) /\ DOMAIN branches = DOMAIN spec /\ Len(branches) = Len(spec)
  BY <1>1 DEF IsList
<1>3. some = DOMAIN branches /\ some \in SUBSET DOMAIN branches
  BY <1>1
<1>4. floors = Kept(branches, some)
  BY DEF FloorsOf, Floors
<1>5. /\ \A i \in DOMAIN spec : branches[i] = ResolveBranch(spec[i])
      /\ \A i \in DOMAIN spec : branches[i] \in [version : Plain, exact : BOOLEAN]
  BY <1>1, BranchIs
<1> HIDE DEF branches, some, floors
<1>6. /\ IsList(floors) /\ Len(floors) = Cardinality(some)
      /\ \A i \in some : \E k \in DOMAIN floors : floors[k] = branches[i]
      /\ \A k \in DOMAIN floors : \E i \in some : floors[k] = branches[i]
  <2>1. some \in SUBSET DOMAIN branches
    BY <1>3
  <2> QED
    BY <1>2, <1>4, <2>1, KeptHolds
<1>7. Cardinality(some) = Len(spec)
  BY <1>2, <1>3, PlacesAreFinite
<1>8. S \subseteq [version : Plain, exact : BOOLEAN]
  BY <1>2, <1>3, <1>5, <1>6
<1>9. floors \in Seq(S)
  <2>1. PICK order : floors = [k \in 1 .. Cardinality(some) |-> branches[order[k]]]
    <3>1. some \in SUBSET DOMAIN branches
      BY <1>3
    <3>2. \E order : Kept(branches, some) = [k \in 1 .. Cardinality(some) |-> branches[order[k]]]
      BY <1>2, <3>1, KeptIs
    <3> QED
      BY <1>4, <3>2
  <2>2. \A k \in 1 .. Cardinality(some) : floors[k] \in S
    BY <2>1
  <2>3. Cardinality(some) \in Nat
    BY <1>1, <1>7
  <2> HIDE DEF S
  <2> QED
    BY <2>1, <2>2, <2>3
<1> HIDE DEF S
<1>10. PICK lowest \in S : /\ floor = [lowest EXCEPT !.exact = @ /\ Len(floors) = 1]
                           /\ \A f \in S : compare("npm", lowest.version, f.version) <= 0
  <2>1. IsList(FloorsOf(spec)) /\ Len(FloorsOf(spec)) # 0
    BY <1>1, <1>6, <1>7 DEF floors
  <2>2. FloorsOf(spec) \in Seq(S) /\ S = {FloorsOf(spec)[i] : i \in DOMAIN FloorsOf(spec)}
    BY <1>9 DEF floors, S
  <2>3. \E lowest \in S : /\ resolve_npm_floor(spec) =
                                 [lowest EXCEPT !.exact = @ /\ Len(FloorsOf(spec)) = 1]
                           /\ \A f \in S : compare("npm", lowest.version, f.version) <= 0
    BY <1>8, <2>1, <2>2, NpmFloorIs
  <2> QED
    BY <2>3 DEF floors
<1> HIDE DEF floor
<1>11. lowest \in [version : Plain, exact : BOOLEAN]
  BY <1>8
<1>12. floor.version = lowest.version /\ floor.exact = (lowest.exact /\ Len(floors) = 1)
  BY <1>10, <1>11
<1>13. ASSUME NEW v \in admitted
       PROVE  /\ compare("npm", floor.version, v) <= 0
              /\ floor.exact => compare("npm", floor.version, v) = 0
  <2>1. Plainly(v)
    BY IntakeAssumption
  <2>2. PICK i \in DOMAIN spec : \A j \in DOMAIN spec[i] : Admits(spec[i][j], v)
    OBVIOUS
  <2> DEFINE low == ResolveBranch(spec[i])
  <2>3. /\ low \in [version : Plain, exact : BOOLEAN]
        /\ compare("npm", low.version, v) <= 0
        /\ low.exact => v = low.version
    BY <1>1, <2>1, <2>2, BranchIs
  <2>4. low \in S
    <3>1. \E k \in DOMAIN floors : floors[k] = branches[i]
      BY <1>2, <1>3, <1>6
    <3> QED
      BY <1>5, <3>1 DEF S
  <2> HIDE DEF low
  <2>5. lowest.version \in Plain /\ low.version \in Plain /\ v \in Plain
    BY <1>11, <2>1, <2>3 DEF Plainly
  <2>6. compare("npm", lowest.version, low.version) <= 0
    BY <1>10, <2>4
  <2>7. compare("npm", lowest.version, v) <= 0
    BY <2>3, <2>5, <2>6, PlainOrder
  <2>8. ASSUME floor.exact PROVE compare("npm", floor.version, v) = 0
    <3>1. lowest.exact = TRUE /\ Len(floors) = 1
      BY <1>11, <1>12, <2>8
    <3>2. DOMAIN spec = 1 .. 1
      BY <1>1, <1>6, <1>7, <3>1
    <3>3. PICK k \in DOMAIN floors : lowest = floors[k]
      BY DEF S
    <3>4. PICK l \in some : lowest = branches[l]
      BY <1>6, <3>3
    <3>5. l = i
      BY <1>2, <1>3, <3>2
    <3>6. lowest = low
      BY <1>5, <3>4, <3>5 DEF low
    <3>7. v = lowest.version
      BY <2>3, <3>1, <3>6
    <3>8. compare("npm", v, v) = 0
      BY <2>5, PlainOrder
    <3> QED
      BY <1>12, <3>7, <3>8
  <2> QED
    BY <1>12, <2>7, <2>8
<1> HIDE DEF admitted
<1>14. LowestOf("npm", floor, admitted)
  BY <1>13 DEF LowestOf
<1> QED
  BY <1>14 DEF admitted, floor

-----------------------------------------------------------------------------
(* The specifiers of a requirements.txt. *)

\* What a clause of a requirements.txt is.
LEMMA ClauseIs ==
  ASSUME NEW c, IsClause(c)
  PROVE  /\ c.parts \in Seq(Nat) /\ Len(c.parts) \in 1 .. 3 /\ DOMAIN c.parts = 1 .. Len(c.parts)
         /\ Raw(c.parts, << >>) \in RawVersion
         /\ c.star \in BOOLEAN /\ (c.star => c.op \in {"==", "!="})
<1>1. c.parts \in Seq(Nat) /\ Len(c.parts) \in 1 .. 3 /\ c.star \in BOOLEAN
      /\ (c.star => c.op \in {"==", "!="})
  BY Zenon DEF IsClause
<1> DEFINE parts == c.parts
<1>2. parts \in Seq(Nat)
  BY <1>1
<1> HIDE DEF parts
<1>3. DOMAIN parts = 1 .. Len(parts) /\ Raw(parts, << >>) \in RawVersion
  BY <1>2 DEF Raw, RawVersion
<1> QED
  BY <1>1, <1>3 DEF parts

Pin(c) == c.op \in {"==", "==="} /\ ~ c.star
Bound(c) == c.op \in {">=", "~=", ">"} \/ (c.op = "==" /\ c.star)

\* What a clause allows is no lower than a bound, and is what it pins.
LEMMA AllowsAbove ==
  ASSUME NEW c, IsClause(c), NEW v, Plainly(v), Allows(c, v)
  PROVE  /\ Pin(c) => compare("PyPI", Raw(c.parts, << >>), v) = 0
         /\ Bound(c) => compare("PyPI", Raw(c.parts, << >>), v) <= 0
<1> DEFINE low == Raw(c.parts, << >>)
<1>1. v \in RawVersion /\ v.tail = << >> /\ low \in RawVersion
  BY ClauseIs, PlainIsRaw DEF Plainly
<1>2. /\ compare("PyPI", low, v) = - compare("PyPI", v, low)
      /\ compare("PyPI", v, low) \in Signs /\ compare("PyPI", low, v) = compare("npm", low, v)
  BY <1>1, RawOrder, PyPIAsNpm
<1>3. ASSUME c.star, c.op = "==" PROVE compare("npm", low, v) <= 0
  <2> DEFINE parts == c.parts
             nums == v.nums
             n == Len(parts)
  <2>1. parts \in Seq(Nat) /\ n \in 1 .. 3 /\ DOMAIN parts = 1 .. n
    BY ClauseIs
  <2>2. nums \in Seq(Nat) /\ Len(nums) = 3 /\ DOMAIN nums = 1 .. 3
    BY DEF Plain, RawVersion, Plainly
  <2>3. \A i \in 1 .. n : nums[i] = parts[i]
    BY <1>3 DEF Allows
  <2>4. \A i \in DOMAIN parts : i \in DOMAIN nums /\ nums[i] = parts[i]
    <3> HIDE DEF n, parts, nums
    <3> QED
      BY <2>1, <2>2, <2>3
  <2>5. compare("npm", Raw(parts, << >>), v) <= 0
    BY <1>1, <2>1, <2>4, StartsLow
  <2> QED
    BY <2>5
<1> HIDE DEF low
<1>4. ASSUME Pin(c) PROVE compare("PyPI", low, v) = 0
  <2>1. compare("PyPI", v, low) = 0
    BY <1>4 DEF Allows, Pin, low
  <2> QED
    BY <1>2, <2>1
<1>5. ASSUME Bound(c) PROVE compare("PyPI", low, v) <= 0
  <2>1. CASE c.op = "==" /\ c.star
    BY <1>2, <1>3, <2>1
  <2>2. CASE c.op \in {">=", "~=", ">"}
    <3>1. ~ c.star
      BY <2>2, ClauseIs
    <3>2. CASE c.op = ">="
      <4>1. compare("PyPI", v, low) >= 0
        BY <3>1, <3>2 DEF Allows, low
      <4> QED
        BY <1>2, <4>1 DEF Signs
    <3>3. CASE c.op = "~="
      <4>1. compare("PyPI", v, low) >= 0
        BY <3>1, <3>3 DEF Allows, low
      <4> QED
        BY <1>2, <4>1 DEF Signs
    <3>4. CASE c.op = ">"
      <4>1. compare("PyPI", v, low) > 0
        BY <3>1, <3>4 DEF Allows, low
      <4> QED
        BY <1>2, <4>1 DEF Signs
    <3> QED
      BY <2>2, <3>2, <3>3, <3>4
  <2> QED
    BY <1>5, <2>1, <2>2 DEF Bound
<1> QED
  BY <1>4, <1>5 DEF low

LowerBounds(clauses) == Kept(clauses, {i \in DOMAIN clauses : Bound(clauses[i])})

\* Without a pin, the floor of a specifier is one of its lower bounds.
LEMMA PyPIFloorIs ==
  ASSUME NEW clauses, NEW S, IsList(LowerBounds(clauses)), Len(LowerBounds(clauses)) # 0,
         NEW C, LowerBounds(clauses) \in Seq(C),
         \A i \in DOMAIN LowerBounds(clauses) : Raw(LowerBounds(clauses)[i].parts, << >>) \in S,
         \A i \in DOMAIN clauses : ~ Pin(clauses[i])
  PROVE  resolve_pypi_floor(clauses).version \in S /\ ~ resolve_pypi_floor(clauses).exact
<1> DEFINE floors == LowerBounds(clauses)
           rest == Tail(floors)
           n == Len(floors) - 1
           At(k) == Raw(rest[k].parts, << >>)
           Higher(highest, c) == IF compare("PyPI", Raw(c.parts, << >>), highest) > 0
                                 THEN Raw(c.parts, << >>) ELSE highest
           step == [q \in (1 .. n) \X S |-> Higher(q[2], rest[q[1]])]
           base == Raw(floors[1].parts, << >>)
           Folds(f) == f = [T \in SUBSET DOMAIN rest |->
                              IF T = {} THEN base ELSE Higher(f[T \ {Max(T)}], rest[Max(T)])]
           f0 == CHOOSE f : Folds(f)
<1>1. /\ n \in Nat /\ Len(rest) = n /\ DOMAIN rest = 1 .. n
      /\ \A i \in 1 .. n : rest[i] = floors[i + 1]
      /\ DOMAIN floors = 1 .. (n + 1)
  <2>1. \A i \in DOMAIN floors : floors[i] \in C
    OBVIOUS
  <2>2. n \in Nat /\ Len(rest) = n /\ DOMAIN rest = 1 .. n /\ \A i \in 1 .. n : rest[i] = floors[i + 1]
    BY <2>1, RestIs
  <2>3. Len(floors) = n + 1 /\ DOMAIN floors = 1 .. Len(floors)
    BY DEF IsList
  <2> HIDE DEF n
  <2> QED
    BY <2>2, <2>3
<1>2. resolve_pypi_floor(clauses) = [version |-> f0[DOMAIN rest], exact |-> FALSE]
  <2>1. floors # << >>
    OBVIOUS
  <2>2. Kept(clauses, {i \in DOMAIN clauses : clauses[i].op \in {"==", "==="} /\ ~ clauses[i].star}) = << >>
    <3>1. {i \in DOMAIN clauses : clauses[i].op \in {"==", "==="} /\ ~ clauses[i].star} = {}
      BY DEF Pin
    <3>2. Cardinality(DOMAIN [i \in {} |-> {j \in {} : j < i}]) = 0
      BY FS_EmptySet
    <3>3. Kept(clauses, {}) = << >>
      BY <3>2 DEF Kept, Picked, Ranked
    <3> QED
      BY <3>1, <3>3
  <2> QED
    BY <2>1, <2>2 DEF resolve_pypi_floor, FoldLeft, MapThenFoldSet, LowerBounds, Bound
<1>0. \A i \in DOMAIN floors : Raw(floors[i].parts, << >>) \in S
  OBVIOUS
<1> HIDE DEF floors
<1>3. base \in S /\ \A i \in 1 .. n : At(i) \in S
  <2>1. n \in Nat => 1 \in 1 .. (n + 1) /\ \A i \in 1 .. n : i + 1 \in 1 .. (n + 1)
    OBVIOUS
  <2> HIDE DEF n, rest
  <2> QED
    BY <1>0, <1>1, <2>1
<1> HIDE DEF n, rest, base
<1>4. \A s \in S, i \in 1 .. n : Higher(s, rest[i]) \in S
  BY <1>3
<1>5. step \in [(1 .. n) \X S -> S]
  BY <1>4
<1>6. \A s \in S, i \in 1 .. n : step[<<i, s>>] = Higher(s, rest[i])
  OBVIOUS
<1> HIDE DEF step, Higher, At
<1>7. PICK g : IsFold(g, n, S, base, step)
  BY <1>1, <1>3, <1>5, FoldExists
<1>8. \A T \in SUBSET (1 .. n) : T # {} => Max(T) \in 1 .. n /\ T \ {Max(T)} \in SUBSET (1 .. n)
  BY <1>1, MaxOfSome
<1>9. Folds(g)
  <2>1. /\ g \in [SUBSET (1 .. n) -> S]
        /\ \A T \in SUBSET (1 .. n) : g[T] = IF T = {} THEN base ELSE step[<<Max(T), g[T \ {Max(T)}]>>]
    BY <1>7 DEF IsFold
  <2>2. ASSUME NEW T \in SUBSET (1 .. n)
        PROVE  g[T] = IF T = {} THEN base ELSE Higher(g[T \ {Max(T)}], rest[Max(T)])
    <3>1. CASE T = {}
      BY <2>1, <3>1
    <3>2. CASE T # {}
      <4> DEFINE i == Max(T)
                 s == g[T \ {i}]
      <4>1. i \in 1 .. n /\ s \in S /\ g[T] = step[<<i, s>>]
        BY <1>8, <2>1, <3>2
      <4> HIDE DEF i, s
      <4>2. g[T] = Higher(s, rest[i])
        BY <1>6, <4>1
      <4> QED
        BY <3>2, <4>2 DEF i, s
    <3> QED
      BY <3>1, <3>2
  <2> QED
    BY <1>1, <2>1, <2>2
<1>10. Folds(f0)
  <2> HIDE DEF Folds
  <2> QED BY <1>9
<1> HIDE DEF f0
<1>11. \A T \in SUBSET (1 .. n) : f0[T] = IF T = {} THEN base ELSE Higher(f0[T \ {Max(T)}], rest[Max(T)])
  BY <1>1, <1>10
<1> HIDE DEF Folds
<1>12. PICK p : IsRun(p, f0, n, S, base, step)
  <2>1. f0[{}] = base
    BY <1>11
  <2>2. \A T \in SUBSET (1 .. n) : T # {} /\ f0[T \ {Max(T)}] \in S =>
            f0[T] = step[<<Max(T), f0[T \ {Max(T)}]>>]
    <3> SUFFICES ASSUME NEW T \in SUBSET (1 .. n), T # {}, f0[T \ {Max(T)}] \in S
                 PROVE  f0[T] = step[<<Max(T), f0[T \ {Max(T)}]>>]
      OBVIOUS
    <3> DEFINE i == Max(T)
               s == f0[T \ {i}]
    <3>1. i \in 1 .. n /\ f0[T] = Higher(s, rest[i]) /\ s \in S
      BY <1>8, <1>11
    <3> HIDE DEF i, s
    <3>2. f0[T] = step[<<i, s>>]
      BY <1>6, <3>1
    <3> QED
      BY <3>2 DEF i, s
  <2>3. Runs(f0, n, S, base, step)
    BY <2>1, <2>2 DEF Runs
  <2> QED
    BY <1>1, <1>3, <1>5, <2>3, FoldRuns
<1>13. p \in [0 .. n -> S] /\ p[n] = f0[1 .. n]
  BY <1>12 DEF IsRun
<1>14. f0[DOMAIN rest] \in S
  BY <1>1, <1>13
<1> QED
  BY <1>2, <1>14

\* The version a specifier is scanned with is no higher than any it allows.
LEMMA SpecifiersAreSafe ==
  ASSUME NEW clauses, IsList(clauses), \A i \in DOMAIN clauses : IsClause(clauses[i]),
         resolve_pypi_floor(clauses) # None
  PROVE  LET admitted == {v \in Releases : \A i \in DOMAIN clauses : Allows(clauses[i], v)}
         IN  LowestOf("PyPI", resolve_pypi_floor(clauses), admitted)
<1> DEFINE pinned == {i \in DOMAIN clauses : Pin(clauses[i])}
           bounds == {i \in DOMAIN clauses : Bound(clauses[i])}
           pins == Kept(clauses, pinned)
           floors == Kept(clauses, bounds)
           admitted == {v \in Releases : \A i \in DOMAIN clauses : Allows(clauses[i], v)}
           floor == resolve_pypi_floor(clauses)
<1>1. \A v \in admitted : Plainly(v) /\ \A i \in DOMAIN clauses : Allows(clauses[i], v)
  BY IntakeAssumption
<1>2. pinned \in SUBSET DOMAIN clauses /\ bounds \in SUBSET DOMAIN clauses
  OBVIOUS
<1>3. /\ pins # << >> => floor = [version |-> Raw(pins[1].parts, << >>), exact |-> TRUE]
      /\ pins = << >> /\ floors = << >> => floor = None
  BY DEF resolve_pypi_floor, Pin, Bound
<1>4. /\ IsList(pins) /\ Len(pins) = Cardinality(pinned) /\ ((pinned = {}) <=> (pins = << >>))
      /\ \A k \in DOMAIN pins : \E i \in pinned : pins[k] = clauses[i]
  BY <1>2, KeptHolds
<1>5. /\ IsList(floors) /\ Len(floors) = Cardinality(bounds) /\ ((bounds = {}) <=> (floors = << >>))
      /\ \A k \in DOMAIN floors : \E i \in bounds : floors[k] = clauses[i]
  BY <1>2, KeptHolds
<1>6. /\ pinned # {} => Cardinality(pinned) \in Nat \ {0}
      /\ bounds # {} => Cardinality(bounds) \in Nat \ {0}
  <2>1. IsFiniteSet(pinned) /\ Cardinality(pinned) \in Nat /\ IsFiniteSet(bounds) /\ Cardinality(bounds) \in Nat
    BY <1>2, PlacesAreFinite
  <2> QED
    BY <2>1, FS_EmptySet
<1>7. CASE pins # << >>
  <2>1. 1 \in DOMAIN pins
    <3> HIDE DEF pins, pinned
    <3> QED
      BY <1>4, <1>6, <1>7 DEF IsList
  <2>2. PICK i \in pinned : pins[1] = clauses[i]
    BY <1>4, <2>1
  <2>3. ASSUME NEW v \in admitted PROVE compare("PyPI", floor.version, v) = 0
    <3>1. compare("PyPI", Raw(clauses[i].parts, << >>), v) = 0
      BY <1>1, AllowsAbove
    <3> QED
      BY <1>3, <1>7, <2>2, <3>1
  <2> QED
    BY <2>3 DEF LowestOf
<1>8. CASE pins = << >>
  <2> DEFINE S == {Raw(clauses[i].parts, << >>) : i \in bounds}
             C == {clauses[i] : i \in DOMAIN clauses}
  <2>1. floors # << >>
    BY <1>3, <1>8
  <2>2. Len(floors) # 0
    <3> HIDE DEF floors, bounds
    <3> QED
      BY <1>5, <1>6, <2>1
  <2>3. floors \in Seq(C)
    <3>1. PICK order : /\ floors = [k \in 1 .. Cardinality(bounds) |-> clauses[order[k]]]
                       /\ IsOrder(order, bounds)
      BY <1>2, KeptIs
    <3>2. Cardinality(bounds) \in Nat /\ \A k \in 1 .. Cardinality(bounds) : order[k] \in DOMAIN clauses
      BY <1>2, <3>1 DEF IsOrder
    <3> HIDE DEF bounds, floors
    <3>3. \A k \in 1 .. Cardinality(bounds) : clauses[order[k]] \in C
      BY <3>2
    <3> HIDE DEF C
    <3> QED
      BY <3>1, <3>2, <3>3
  <2>4. LowerBounds(clauses) = floors
    BY DEF LowerBounds
  <2>5. \A k \in DOMAIN floors : Raw(floors[k].parts, << >>) \in S
    BY <1>5
  <2>6. \A i \in DOMAIN clauses : ~ Pin(clauses[i])
    BY <1>4, <1>8
  <2>7. floor.version \in S /\ ~ floor.exact
    <3> HIDE DEF floors, S, C, bounds
    <3> QED
      BY <1>5, <2>2, <2>3, <2>4, <2>5, <2>6, PyPIFloorIs
  <2>8. ASSUME NEW v \in admitted PROVE compare("PyPI", floor.version, v) <= 0
    <3>1. PICK i \in bounds : floor.version = Raw(clauses[i].parts, << >>)
      BY <2>7
    <3>2. compare("PyPI", Raw(clauses[i].parts, << >>), v) <= 0
      BY <1>1, AllowsAbove
    <3> QED
      BY <3>1, <3>2
  <2> QED
    BY <2>7, <2>8 DEF LowestOf
<1> QED
  BY <1>7, <1>8

\* Neither the version a reader is sent to nor the one a range is scanned with
\* is higher than it has to be.
THEOREM LowestIsAlwaysChosen == []IntakeAsking => []LowestIsChosen
<1>1. IntakeAsking => LowestIsChosen
  <2> SUFFICES ASSUME IntakeAsking PROVE LowestIsChosen
    OBVIOUS
  <2>1. UpgradeIsSafe
    BY UpgradesAreSafe
  <2>2. ASSUME question.kind = "range", Resolvable(question.spec)
        PROVE  LowestOf("npm", resolve_npm_floor(question.spec),
                   {v \in Releases : \E i \in DOMAIN question.spec :
                       \A j \in DOMAIN question.spec[i] : Admits(question.spec[i][j], v)})
    <3>1. question.spec \in Ranges
      BY <2>2 DEF IntakeAsking, RangeQuestions
    <3>2. IsRange(question.spec)
      BY <3>1, IntakeAssumption
    <3> QED
      BY <2>2, <3>2, NpmRangesAreSafe
  <2>3. ASSUME question.kind = "specifier", resolve_pypi_floor(question.clauses) # None
        PROVE  LowestOf("PyPI", resolve_pypi_floor(question.clauses),
                   {v \in Releases : \A i \in DOMAIN question.clauses :
                       Allows(question.clauses[i], v)})
    <3>1. question.clauses \in Specifiers
      BY <2>3 DEF IntakeAsking, SpecifierQuestions
    <3>2. IsList(question.clauses) /\ \A i \in DOMAIN question.clauses : IsClause(question.clauses[i])
      BY <3>1, IntakeAssumption
    <3> QED
      BY <2>3, <3>2, SpecifiersAreSafe
  <2>4. FloorIsLowest
    BY <2>2, <2>3 DEF FloorIsLowest
  <2> QED
    BY <2>1, <2>4 DEF LowestIsChosen
<1> QED
  BY <1>1, PTL

\* As many places of an order go to some of the things it orders as there are.
LEMMA OrderCounts ==
  ASSUME NEW places, NEW order, IsOrder(order, places), IsFiniteSet(places), NEW A \in SUBSET places
  PROVE  /\ Cardinality({k \in 1 .. Cardinality(places) : order[k] \in A}) = Cardinality(A)
         /\ IsFiniteSet(A) /\ Cardinality(A) \in Nat
<1> DEFINE n == Cardinality(places)
           D == {k \in 1 .. n : order[k] \in A}
           f == [k \in D |-> order[k]]
<1>1. /\ n \in Nat /\ order \in [1 .. n -> places]
      /\ \A i \in places : \E k \in 1 .. n : order[k] = i
      /\ \A k, l \in 1 .. n : order[k] = order[l] => k = l
  BY DEF IsOrder
<1> HIDE DEF n
<1>2. f \in [D -> A] /\ \A k \in D : f[k] = order[k]
  OBVIOUS
<1>3. \A k, l \in D : f[k] = f[l] => k = l
  BY <1>1, <1>2
<1>4. \A i \in A : \E k \in D : f[k] = i
  BY <1>1, <1>2
<1> HIDE DEF f
<1>5. f \in Bijection(D, A)
  <2>1. f \in Injection(D, A)
    BY <1>2, <1>3 DEF Injection, IsInjective
  <2>2. f \in Surjection(D, A)
    BY <1>2, <1>4 DEF Surjection
  <2> QED
    BY <2>1, <2>2 DEF Bijection
<1>6. ExistsBijection(D, A)
  BY <1>5 DEF ExistsBijection
<1>7. IsFiniteSet(D)
  <2>1. IsFiniteSet(1 .. n)
    BY <1>1, FS_Interval
  <2>2. D \in SUBSET (1 .. n)
    OBVIOUS
  <2> HIDE DEF D
  <2> QED
    BY <2>1, <2>2, FS_Subset
<1> HIDE DEF D
<1>8. Cardinality(A) = Cardinality(D) /\ IsFiniteSet(A)
  BY <1>6, <1>7, FS_Bijection
<1>9. Cardinality(A) \in Nat
  BY <1>8, FS_CardinalityType
<1> QED
  BY <1>8, <1>9 DEF D, n

\* What is kept of a list counts as it did in the list.
LEMMA KeptCounts ==
  ASSUME NEW list, IsList(list), NEW some \in SUBSET DOMAIN list, NEW A \in SUBSET some,
         NEW D \in SUBSET DOMAIN Kept(list, some),
         \A k \in DOMAIN Kept(list, some), i \in some : Kept(list, some)[k] = list[i] => (k \in D <=> i \in A)
  PROVE  Cardinality(D) = Cardinality(A)
<1>1. PICK order : /\ IsOrder(order, some)
                   /\ Kept(list, some) = [k \in 1 .. Cardinality(some) |-> list[order[k]]]
  BY KeptIs
<1>2. IsFiniteSet(some)
  BY PlacesAreFinite
<1> DEFINE n == Cardinality(some)
<1>3. DOMAIN Kept(list, some) = 1 .. n /\ \A k \in 1 .. n : Kept(list, some)[k] = list[order[k]]
  BY <1>1
<1>4. \A k \in 1 .. n : order[k] \in some
  BY <1>1 DEF IsOrder
<1>5. \A k \in 1 .. n : k \in D <=> order[k] \in A
  BY <1>3, <1>4
<1>6. D = {k \in 1 .. n : order[k] \in A}
  BY <1>3, <1>5
<1>7. A \in SUBSET some /\ IsOrder(order, some)
  BY <1>1
<1>8. Cardinality({k \in 1 .. n : order[k] \in A}) = Cardinality(A)
  BY <1>2, <1>7, OrderCounts
<1> QED
  BY <1>6, <1>8

\* The first of a sorted list is as urgent as any.
LEMMA SortedStarts ==
  ASSUME NEW list, IsList(list), list # << >>, NEW key, \A i \in DOMAIN list : key[i] \in Int
  PROVE  /\ Len(Sorted(list, key)) = Len(list) /\ Len(list) \in Nat \ {0}
         /\ DOMAIN Sorted(list, key) = 1 .. Len(list)
         /\ \E i \in DOMAIN list : /\ Sorted(list, key)[1] = list[i]
                                   /\ \A j \in DOMAIN list : key[i] >= key[j]
<1>1. Len(list) \in Nat \ {0} /\ DOMAIN list = 1 .. Len(list)
  <2>1. CASE Len(list) = 0
    <3>1. DOMAIN list = {}
      BY <2>1 DEF IsList
    <3> QED
      BY <3>1
  <2> QED
    BY <2>1 DEF IsList
<1>2. PICK order : /\ IsOrder(order, DOMAIN list)
                   /\ \A k, l \in 1 .. Len(list) : k < l => key[order[k]] >= key[order[l]]
                   /\ Sorted(list, key) = [k \in 1 .. Len(list) |-> list[order[k]]]
                   /\ Cardinality(DOMAIN list) = Len(list)
  BY SortedIs
<1>3. /\ order \in [1 .. Len(list) -> DOMAIN list]
      /\ \A i \in DOMAIN list : \E k \in 1 .. Len(list) : order[k] = i
  BY <1>2 DEF IsOrder
<1>4. Sorted(list, key)[1] = list[order[1]] /\ order[1] \in DOMAIN list
  <2>1. 1 \in 1 .. Len(list)
    BY <1>1
  <2> QED
    BY <1>2, <1>3, <2>1
<1>5. ASSUME NEW j \in DOMAIN list PROVE key[order[1]] >= key[j]
  <2>1. PICK k \in 1 .. Len(list) : order[k] = j
    BY <1>3
  <2>2. key[order[1]] \in Int /\ key[j] \in Int
    BY <1>4
  <2>3. k = 1 \/ 1 < k
    BY <1>1
  <2> QED
    BY <1>1, <1>2, <2>1, <2>2, <2>3
<1>6. Len(Sorted(list, key)) = Len(list) /\ DOMAIN Sorted(list, key) = 1 .. Len(list)
  BY <1>1, <1>2
<1> QED
  BY <1>1, <1>4, <1>5, <1>6

\* The lesser of two numbers.
LEMMA LesserOfTwo ==
  ASSUME NEW a \in Nat \ {0}, NEW b \in Nat \ {0}
  PROVE  Min({a, b}) \in Nat \ {0} /\ Min({a, b}) <= a
<1>1. {a, b} \in SUBSET Nat /\ {a, b} # {}
  OBVIOUS
<1>2. Min({a, b}) \in {a, b} /\ \A n \in {a, b} : Min({a, b}) <= n
  BY <1>1, LeastOf
<1> QED
  BY <1>2

\* Sorting gives a list.
LEMMA SortedIsList ==
  ASSUME NEW list, IsList(list), NEW key, \A i \in DOMAIN list : key[i] \in Int
  PROVE  Sorted(list, key) \in Seq({list[i] : i \in DOMAIN list})
<1>1. PICK order : /\ IsOrder(order, DOMAIN list)
                   /\ Sorted(list, key) = [k \in 1 .. Len(list) |-> list[order[k]]]
                   /\ Cardinality(DOMAIN list) = Len(list)
  BY SortedIs
<1>2. Len(list) \in Nat /\ order \in [1 .. Len(list) -> DOMAIN list]
  BY <1>1 DEF IsOrder, IsList
<1> DEFINE S == {list[i] : i \in DOMAIN list}
<1>3. \A k \in 1 .. Len(list) : list[order[k]] \in S
  BY <1>2
<1> HIDE DEF S
<1>4. Sorted(list, key) \in Seq(S)
  BY <1>1, <1>2, <1>3
<1> QED
  BY <1>4 DEF S

\* A confirmed exploitation is more urgent than anything else.
LEMMA ExploitedComesFirst ==
  ASSUME NEW s \in Severities, NEW t \in Severities
  PROVE  /\ Urgency(TRUE, s) \in Int /\ Urgency(FALSE, s) \in Int
         /\ Urgency(TRUE, s) > Urgency(FALSE, t)
BY Ranks DEF Urgency, SeverityRank

\* What a pipeline stops for is what the query for blocking findings asks for.
LEMMA BlockingIs ==
  ASSUME NEW f, IsFinding(f), f.verdict = "actionable", f.status = "open"
  PROVE  Stops(f, "high") <=> MayBlock(f)
<1>1. AtLeast(f.severity, "high") <=> f.severity \in {"critical", "high"}
  BY Ranks DEF IsFinding, AtLeast, SeverityRank
<1> QED
  BY <1>1 DEF Stops, MayBlock

\* What the answer to a pipeline says of the findings of a project.
LEMMA AnswersAreTrue ==
  ASSUME NEW findings, IsList(findings), \A i \in DOMAIN findings : IsFinding(findings[i])
  PROVE  LET counts == severity_counts(findings)
             listed == blocking_findings(findings)
             seen == {i \in DOMAIN findings : Stops(findings[i], "high")}
         IN  /\ Cardinality({i \in seen : findings[i].kev}) = counts["exploited"]
             /\ Cardinality({i \in seen : findings[i].malicious}) = counts["malicious"]
             /\ seen = {} => counts["critical"] = 0 /\ counts["high"] = 0
             /\ seen # {} => /\ listed # << >>
                             /\ Stops(listed[1], "high")
                             /\ counts["exploited"] > 0 => listed[1].kev
<1> DEFINE open == {i \in DOMAIN findings :
                       findings[i].verdict = "actionable" /\ findings[i].status = "open"}
           told == Kept(findings, open)
           seen == {i \in DOMAIN findings : Stops(findings[i], "high")}
           counts == severity_counts(findings)
           Counted(name) == {k \in DOMAIN told : CountsIn(told[k], name)}
           blocking == {k \in DOMAIN told : MayBlock(told[k])}
           worst == Kept(told, blocking)
           key == [i \in DOMAIN worst |-> Urgency(worst[i].kev, worst[i].severity)]
           sorted == Sorted(worst, key)
           listed == blocking_findings(findings)
<1>1. open \in SUBSET DOMAIN findings
  OBVIOUS
<1>2. /\ IsList(told)
      /\ \A i \in open : \E k \in DOMAIN told : told[k] = findings[i]
      /\ \A k \in DOMAIN told : \E i \in open : told[k] = findings[i]
  BY <1>1, KeptHolds
<1>3. \A i \in open : /\ IsFinding(findings[i])
                      /\ Stops(findings[i], "high") <=> MayBlock(findings[i])
  BY BlockingIs
<1>4. seen = {i \in open : MayBlock(findings[i])}
  BY <1>3 DEF Stops
<1>5. \A name \in {"critical", "high", "exploited", "malicious"} : counts[name] = Cardinality(Counted(name))
  <2>1. Told(findings) = told
    BY DEF Told
  <2>2. {"critical", "high", "exploited", "malicious"} \subseteq Severities \union {"malicious", "exploited"}
    BY Ranks
  <2> HIDE DEF told
  <2> QED
    BY <2>1, <2>2 DEF severity_counts
<1> HIDE DEF told, counts, seen
<1>6. /\ Counted("exploited") = {k \in DOMAIN told : told[k].kev}
      /\ Counted("malicious") = {k \in DOMAIN told : told[k].malicious}
      /\ Counted("critical") = {k \in DOMAIN told : told[k].severity = "critical"}
      /\ Counted("high") = {k \in DOMAIN told : told[k].severity = "high"}
  BY DEF CountsIn
<1>7. Cardinality(Counted("exploited")) = Cardinality({i \in seen : findings[i].kev})
  <2> DEFINE A == {i \in seen : findings[i].kev}
             D == Counted("exploited")
  <2>1. A \in SUBSET open /\ D \in SUBSET DOMAIN told
    BY <1>4
  <2>2. \A k \in DOMAIN told, i \in open : told[k] = findings[i] => (k \in D <=> i \in A)
    BY <1>4, <1>6 DEF MayBlock
  <2> HIDE DEF A, D, open, Counted
  <2>3. Cardinality(D) = Cardinality(A)
    BY <1>1, <2>1, <2>2, KeptCounts DEF told
  <2> QED
    BY <2>3 DEF A, D
<1>8. Cardinality(Counted("malicious")) = Cardinality({i \in seen : findings[i].malicious})
  <2> DEFINE A == {i \in seen : findings[i].malicious}
             D == Counted("malicious")
  <2>1. A \in SUBSET open /\ D \in SUBSET DOMAIN told
    BY <1>4
  <2>2. \A k \in DOMAIN told, i \in open : told[k] = findings[i] => (k \in D <=> i \in A)
    BY <1>4, <1>6 DEF MayBlock
  <2> HIDE DEF A, D, open, Counted
  <2>3. Cardinality(D) = Cardinality(A)
    BY <1>1, <2>1, <2>2, KeptCounts DEF told
  <2> QED
    BY <2>3 DEF A, D
<1>9. ASSUME seen = {} PROVE counts["critical"] = 0 /\ counts["high"] = 0
  <2>1. Counted("critical") = {} /\ Counted("high") = {}
    BY <1>2, <1>4, <1>6, <1>9 DEF MayBlock
  <2> QED
    BY <1>5, <2>1, FS_EmptySet
<1>10. ASSUME seen # {}
       PROVE  /\ listed # << >> /\ Stops(listed[1], "high")
              /\ counts["exploited"] > 0 => listed[1].kev
  <2>1. PICK i \in open : MayBlock(findings[i])
    BY <1>4, <1>10
  <2>2. blocking # {} /\ blocking \in SUBSET DOMAIN told
    BY <1>2, <2>1
  <2> HIDE DEF blocking
  <2>3. /\ IsList(worst) /\ worst # << >>
        /\ \A k \in blocking : \E j \in DOMAIN worst : worst[j] = told[k]
        /\ \A j \in DOMAIN worst : \E k \in blocking : worst[j] = told[k]
    BY <1>2, <2>2, KeptHolds
  <2> HIDE DEF worst
  <2>4. \A j \in DOMAIN worst : /\ IsFinding(worst[j]) /\ Stops(worst[j], "high")
                                /\ worst[j].kev \in BOOLEAN /\ worst[j].severity \in Severities
    <3>1. ASSUME NEW j \in DOMAIN worst PROVE IsFinding(worst[j]) /\ Stops(worst[j], "high")
      <4>1. PICK k \in blocking : worst[j] = told[k]
        BY <2>3
      <4>2. PICK l \in open : told[k] = findings[l]
        BY <1>2, <2>2
      <4> QED
        BY <1>3, <4>1, <4>2 DEF blocking
    <3> QED
      BY <3>1 DEF IsFinding
  <2>5. \A j \in DOMAIN worst : key[j] \in Int
    BY <2>4, ExploitedComesFirst
  <2>6. /\ Len(sorted) = Len(worst) /\ Len(worst) \in Nat \ {0} /\ DOMAIN sorted = 1 .. Len(worst)
        /\ \E j \in DOMAIN worst : /\ sorted[1] = worst[j]
                                   /\ \A l \in DOMAIN worst : key[j] >= key[l]
    <3> HIDE DEF key
    <3> QED
      BY <2>3, <2>5, SortedStarts
  <2>7. sorted \in Seq({worst[j] : j \in DOMAIN worst})
    <3> HIDE DEF key
    <3> QED
      BY <2>3, <2>5, SortedIsList
  <2>8. listed = SubSeq(sorted, 1, Min({Len(sorted), MAX_INLINE_FINDINGS}))
    BY DEF blocking_findings, Told, told, worst, blocking
  <2> DEFINE m == Min({Len(sorted), MAX_INLINE_FINDINGS})
  <2>9. m \in Nat \ {0} /\ m <= Len(sorted)
    <3>1. MAX_INLINE_FINDINGS \in Nat \ {0} /\ Len(sorted) \in Nat \ {0}
      BY <2>6, IntakeAssumption
    <3> HIDE DEF sorted
    <3> QED
      BY <3>1, LesserOfTwo
  <2> HIDE DEF listed, m, sorted
  <2>10. listed # << >> /\ listed[1] = sorted[1]
    BY <2>6, <2>7, <2>8, <2>9 DEF m
  <2>11. PICK j \in DOMAIN worst : sorted[1] = worst[j] /\ \A l \in DOMAIN worst : key[j] >= key[l]
    BY <2>6
  <2>12. ASSUME counts["exploited"] > 0 PROVE worst[j].kev
    <3>1. Counted("exploited") # {}
      BY <1>5, <2>12, FS_EmptySet
    <3>2. PICK k \in DOMAIN told : told[k].kev
      BY <1>6, <3>1
    <3>3. k \in blocking
      BY <3>2 DEF blocking, MayBlock
    <3>4. PICK l \in DOMAIN worst : worst[l] = told[k]
      BY <2>3, <3>3
    <3>5. key[j] >= key[l] /\ worst[l].kev = TRUE
      BY <2>4, <2>11, <3>2, <3>4
    <3>6. CASE worst[j].kev = FALSE
      <4>1. key[j] = Urgency(FALSE, worst[j].severity) /\ key[l] = Urgency(TRUE, worst[l].severity)
        BY <3>5, <3>6
      <4>2. Urgency(TRUE, worst[l].severity) > Urgency(FALSE, worst[j].severity)
        BY <2>4, ExploitedComesFirst
      <4>3. key[j] \in Int /\ key[l] \in Int
        BY <2>5
      <4> DEFINE a == key[j]
                 b == key[l]
      <4>4. a \in Int /\ b \in Int /\ a >= b /\ b > a
        <5> HIDE DEF key
        <5> QED
          BY <3>5, <4>1, <4>2, <4>3
      <4> HIDE DEF a, b
      <4> QED
        BY <4>4
    <3> QED
      BY <2>4, <3>6
  <2> QED
    BY <2>4, <2>10, <2>11, <2>12
<1> QED
  BY <1>5, <1>7, <1>8, <1>9, <1>10 DEF counts, seen

\* PipelinesSeeTheWorst, for findings in any number.
LEMMA PipelinesSeeIt == IntakeAsking => PipelinesSeeTheWorst
<1> SUFFICES ASSUME IntakeAsking, question.kind = "gate" PROVE PipelinesSeeTheWorst
  BY DEF PipelinesSeeTheWorst
<1> DEFINE findings == question.findings
<1>1. findings \in FindingLists
  BY DEF IntakeAsking, GateQuestions
<1>2. IsList(findings) /\ \A i \in DOMAIN findings : IsFinding(findings[i])
  BY <1>1, IntakeAssumption
<1> HIDE DEF findings
<1>3. LET counts == severity_counts(findings)
          listed == blocking_findings(findings)
          seen == {i \in DOMAIN findings : Stops(findings[i], "high")}
      IN  /\ Cardinality({i \in seen : findings[i].kev}) = counts["exploited"]
          /\ Cardinality({i \in seen : findings[i].malicious}) = counts["malicious"]
          /\ seen = {} => counts["critical"] = 0 /\ counts["high"] = 0
          /\ seen # {} => /\ listed # << >>
                          /\ Stops(listed[1], "high")
                          /\ counts["exploited"] > 0 => listed[1].kev
  BY <1>2, AnswersAreTrue
<1> QED
  BY <1>3 DEF PipelinesSeeTheWorst, findings

\* Each place of a flattened list is a place of one of the lists it is made of.
IsPlacing(g, flat, n, m, seqs, S) ==
  /\ flat \in Seq(S)
  /\ g \in [1 .. Len(flat) -> (1 .. n) \X (1 .. m)]
  /\ \A x, y \in 1 .. Len(flat) : g[x] = g[y] => x = y
  /\ \A a \in 1 .. n, b \in 1 .. m : \E x \in 1 .. Len(flat) : g[x] = << a, b >>
  /\ \A x \in 1 .. Len(flat) : flat[x] = seqs[g[x][1]][g[x][2]]

\* One more list behind those that were placed.
LEMMA PlacingGrows ==
  ASSUME NEW n \in Nat, NEW m \in Nat, NEW S, NEW seqs, NEW flat, NEW g,
         IsPlacing(g, flat, n, m, seqs, S), seqs[n + 1] \in Seq(S), Len(seqs[n + 1]) = m
  PROVE  \E h : IsPlacing(h, flat \o seqs[n + 1], n + 1, m, seqs, S)
<1> DEFINE l == Len(flat)
           s == seqs[n + 1]
           both == flat \o s
           h == [x \in 1 .. (l + m) |-> IF x <= l THEN g[x] ELSE << n + 1, x - l >>]
<1>1. /\ flat \in Seq(S) /\ g \in [1 .. l -> (1 .. n) \X (1 .. m)]
      /\ \A x, y \in 1 .. l : g[x] = g[y] => x = y
      /\ \A a \in 1 .. n, b \in 1 .. m : \E x \in 1 .. l : g[x] = << a, b >>
      /\ \A x \in 1 .. l : flat[x] = seqs[g[x][1]][g[x][2]]
  BY DEF IsPlacing
<1>2. s \in Seq(S) /\ Len(s) = m
  OBVIOUS
<1>3. l \in Nat
  BY <1>1
<1> HIDE DEF s
<1>4. /\ both \in Seq(S) /\ Len(both) = l + m
      /\ \A x \in 1 .. l : both[x] = flat[x]
      /\ \A x \in 1 .. m : both[x + l] = s[x]
  <2>1. both \in Seq(S) /\ Len(both) = l + m
    <3>1. flat \in Seq(S) /\ s \in Seq(S) /\ Len(s) = m
      BY <1>1, <1>2
    <3>2. flat \o s \in Seq(S)
      BY <3>1
    <3>3. Len(flat \o s) = Len(flat) + Len(s)
      BY <3>1
    <3> QED
      BY <3>1, <3>2, <3>3
  <2>2. \A x \in 1 .. (l + m) : both[x] = IF x <= l THEN flat[x] ELSE s[x - l]
    BY <1>1, <1>2
  <2>3. \A x \in 1 .. l : x \in 1 .. (l + m) /\ x <= l
    BY <1>3
  <2>4. \A x \in 1 .. m : x + l \in 1 .. (l + m) /\ ~ x + l <= l /\ (x + l) - l = x
    BY <1>3
  <2> HIDE DEF l, both
  <2> QED
    BY <2>1, <2>2, <2>3, <2>4
<1> HIDE DEF l, both
<1>5. \A x \in 1 .. (l + m) : \/ x \in 1 .. l
                              \/ ~ x <= l /\ x - l \in 1 .. m /\ x = (x - l) + l
  BY <1>3
<1>6. \A x \in 1 .. l : x \in 1 .. (l + m) /\ x <= l
  BY <1>3
<1>7. \A x \in 1 .. m : x + l \in 1 .. (l + m) /\ ~ x + l <= l /\ (x + l) - l = x
  BY <1>3
<1>8. /\ \A x \in 1 .. l : h[x] = g[x]
      /\ \A x \in 1 .. m : h[x + l] = << n + 1, x >>
      /\ DOMAIN h = 1 .. (l + m)
  BY <1>6, <1>7
<1> HIDE DEF h
<1>9. /\ 1 .. n \subseteq 1 .. (n + 1) /\ n + 1 \in 1 .. (n + 1) /\ n + 1 \notin 1 .. n
      /\ \A a \in 1 .. (n + 1) : a \in 1 .. n \/ a = n + 1
  OBVIOUS
<1>10. ASSUME NEW x \in 1 .. (l + m)
       PROVE  h[x] \in (1 .. (n + 1)) \X (1 .. m) /\ both[x] = seqs[h[x][1]][h[x][2]]
  <2>1. CASE x \in 1 .. l
    <3>1. g[x] \in (1 .. n) \X (1 .. m) /\ h[x] = g[x] /\ both[x] = flat[x]
      BY <1>1, <1>4, <1>8, <2>1
    <3> QED
      BY <1>1, <1>9, <2>1, <3>1
  <2>2. CASE x \notin 1 .. l
    <3> DEFINE y == x - l
    <3>1. y \in 1 .. m /\ x = y + l
      BY <1>5, <2>2
    <3> HIDE DEF y
    <3>2. h[x] = << n + 1, y >> /\ both[x] = s[y]
      BY <1>4, <1>8, <3>1
    <3> QED
      BY <1>9, <3>1, <3>2 DEF s
  <2> QED
    BY <2>1, <2>2
<1>11. ASSUME NEW x \in 1 .. (l + m), NEW y \in 1 .. (l + m), h[x] = h[y] PROVE x = y
  <2>1. \A z \in 1 .. l : h[z][1] \in 1 .. n
    BY <1>1, <1>8
  <2>2. \A z \in 1 .. (l + m) : z \notin 1 .. l => h[z] = << n + 1, z - l >> /\ z = (z - l) + l
    BY <1>5, <1>8
  <2>3. CASE x \in 1 .. l /\ y \in 1 .. l
    BY <1>1, <1>8, <1>11, <2>3
  <2>4. CASE x \notin 1 .. l /\ y \notin 1 .. l
    <3>1. x - l = y - l
      BY <1>11, <2>2, <2>4
    <3> QED
      BY <2>2, <2>4, <3>1
  <2>5. CASE ~ (x \in 1 .. l <=> y \in 1 .. l)
    BY <1>9, <1>11, <2>1, <2>2, <2>5
  <2> QED
    BY <2>3, <2>4, <2>5
<1>12. ASSUME NEW a \in 1 .. (n + 1), NEW b \in 1 .. m
       PROVE  \E x \in 1 .. (l + m) : h[x] = << a, b >>
  <2>1. CASE a \in 1 .. n
    <3>1. PICK x \in 1 .. l : g[x] = << a, b >>
      BY <1>1, <2>1
    <3> QED
      BY <1>6, <1>8, <3>1
  <2>2. CASE a = n + 1
    <3>1. b + l \in 1 .. (l + m) /\ h[b + l] = << a, b >>
      BY <1>7, <1>8, <2>2
    <3> QED
      BY <3>1
  <2> QED
    BY <1>9, <2>1, <2>2
<1>13. h = [x \in 1 .. (l + m) |-> h[x]]
  BY DEF h
<1>14. h \in [1 .. (l + m) -> (1 .. (n + 1)) \X (1 .. m)]
  BY <1>10, <1>13
<1>15. IsPlacing(h, both, n + 1, m, seqs, S)
  <2> DEFINE z == l + m
             k == n + 1
  <2>1. Len(both) = z /\ both \in Seq(S)
    BY <1>4
  <2>2. /\ h \in [1 .. z -> (1 .. k) \X (1 .. m)]
        /\ \A x, y \in 1 .. z : h[x] = h[y] => x = y
        /\ \A a \in 1 .. k, b \in 1 .. m : \E x \in 1 .. z : h[x] = << a, b >>
        /\ \A x \in 1 .. z : both[x] = seqs[h[x][1]][h[x][2]]
    BY <1>10, <1>11, <1>12, <1>14
  <2> HIDE DEF z, k
  <2>3. IsPlacing(h, both, k, m, seqs, S)
    BY <2>1, <2>2 DEF IsPlacing
  <2> QED
    BY <2>3 DEF k
<1> QED
  BY <1>15 DEF both, s

\* A recursion along the places of a list has a solution.
IsFlattening(f, seqs, n) ==
  f = [i \in 1 .. n |-> IF i = 1 THEN seqs[i] ELSE f[i - 1] \o seqs[i]]

\* Flattening lists is a step per list.
LEMMA FlatteningExists ==
  ASSUME NEW seqs, NEW n \in Nat
  PROVE  \E f : IsFlattening(f, seqs, n)
<1> DEFINE I == {k \in Nat : \E f : IsFlattening(f, seqs, k)}
<1>1. 0 \in I
  <2>1. IsFlattening([i \in 1 .. 0 |-> 0], seqs, 0)
    BY DEF IsFlattening
  <2> QED
    BY <2>1
<1>2. ASSUME NEW k \in I PROVE k + 1 \in I
  <2>1. PICK f : IsFlattening(f, seqs, k)
    OBVIOUS
  <2> DEFINE h == [i \in 1 .. (k + 1) |->
                     IF i = k + 1 THEN (IF i = 1 THEN seqs[i] ELSE f[i - 1] \o seqs[i]) ELSE f[i]]
  <2>2. /\ DOMAIN f = 1 .. k
        /\ \A i \in 1 .. k : f[i] = IF i = 1 THEN seqs[i] ELSE f[i - 1] \o seqs[i]
    BY <2>1 DEF IsFlattening
  <2>3. /\ \A i \in 1 .. k : h[i] = f[i]
        /\ h[k + 1] = IF k + 1 = 1 THEN seqs[k + 1] ELSE f[(k + 1) - 1] \o seqs[k + 1]
    <3>1. k \in Nat /\ k + 1 \in 1 .. (k + 1) /\ \A i \in 1 .. k : i \in 1 .. (k + 1) /\ i # k + 1
      OBVIOUS
    <3>2. \A i \in 1 .. (k + 1) :
             h[i] = IF i = k + 1 THEN (IF i = 1 THEN seqs[i] ELSE f[i - 1] \o seqs[i]) ELSE f[i]
      BY Zenon
    <3> HIDE DEF h
    <3>3. h[k + 1] = IF k + 1 = 1 THEN seqs[k + 1] ELSE f[(k + 1) - 1] \o seqs[k + 1]
      BY <3>1, <3>2, Zenon
    <3> QED
      BY <3>1, <3>2, <3>3
  <2>4. k \in Nat /\ \A i \in 1 .. (k + 1) : /\ i \in 1 .. k \/ i = k + 1
                                             /\ i # 1 => i - 1 \in 1 .. k
    OBVIOUS
  <2>5. h = [i \in 1 .. (k + 1) |-> h[i]]
    OBVIOUS
  <2> HIDE DEF h
  <2>6. \A i \in 1 .. (k + 1) : h[i] = IF i = 1 THEN seqs[i] ELSE h[i - 1] \o seqs[i]
    BY <2>2, <2>3, <2>4
  <2>7. IsFlattening(h, seqs, k + 1)
    BY <2>5, <2>6 DEF IsFlattening
  <2> QED
    BY <2>7
<1>3. n \in I
  <2>1. I \in SUBSET Nat
    OBVIOUS
  <2> HIDE DEF I
  <2> QED
    BY <1>1, <1>2, <2>1, AllNumbers
<1> QED
  BY <1>3

\* What flattening makes of as many lists of one length.
LEMMA FlattenedIs ==
  ASSUME NEW n \in Nat, NEW m \in Nat, NEW S, NEW seqs, Len(seqs) = n, n = 0 => seqs = << >>,
         \A i \in 1 .. n : seqs[i] \in Seq(S) /\ Len(seqs[i]) = m
  PROVE  \E g : IsPlacing(g, FlattenSeq(seqs), n, m, seqs, S)
<1>1. IsPlacing(<< >>, << >>, 0, m, seqs, S)
  <2>1. << >> \in Seq(S) /\ Len(<< >>) = 0 /\ 1 .. 0 = {}
    OBVIOUS
  <2>2. << >> \in [1 .. 0 -> (1 .. 0) \X (1 .. m)]
    BY <2>1
  <2> QED
    BY <2>1, <2>2 DEF IsPlacing
<1>2. CASE n = 0
  <2>1. FlattenSeq(seqs) = << >>
    BY <1>2 DEF FlattenSeq
  <2> QED
    BY <1>1, <1>2, <2>1
<1>3. CASE n # 0
  <2> DEFINE f == CHOOSE f : IsFlattening(f, seqs, n)
  <2>1. FlattenSeq(seqs) = f[n]
    BY <1>3 DEF FlattenSeq, IsFlattening
  <2>2. IsFlattening(f, seqs, n)
    BY FlatteningExists
  <2> HIDE DEF f
  <2>3. \A i \in 1 .. n : f[i] = IF i = 1 THEN seqs[i] ELSE f[i - 1] \o seqs[i]
    BY <2>2 DEF IsFlattening
  <2> DEFINE I == {i \in Nat : i + 1 <= n => \E g : IsPlacing(g, f[i + 1], i + 1, m, seqs, S)}
  <2>4. 0 \in I
    <3>1. f[1] = seqs[1] /\ seqs[1] \in Seq(S) /\ Len(seqs[1]) = m
      BY <1>3, <2>3
    <3>2. << >> \o seqs[1] = seqs[1]
      <4> DEFINE s == seqs[1]
      <4>1. s \in Seq(S)
        BY <3>1
      <4> HIDE DEF s
      <4>2. << >> \o s = s
        BY <4>1
      <4> QED
        BY <4>2 DEF s
    <3>3. \E g : IsPlacing(g, << >> \o seqs[0 + 1], 0 + 1, m, seqs, S)
      <4>1. seqs[0 + 1] \in Seq(S) /\ Len(seqs[0 + 1]) = m
        BY <3>1
      <4> QED
        BY <1>1, <4>1, PlacingGrows
    <3> QED
      BY <3>1, <3>2, <3>3
  <2>5. ASSUME NEW i \in I PROVE i + 1 \in I
    <3> SUFFICES ASSUME (i + 1) + 1 <= n
                 PROVE  \E g : IsPlacing(g, f[(i + 1) + 1], (i + 1) + 1, m, seqs, S)
      OBVIOUS
    <3>1. i \in Nat /\ i + 1 \in Nat /\ i + 1 <= n /\ (i + 1) + 1 \in 1 .. n
      OBVIOUS
    <3>2. PICK g : IsPlacing(g, f[i + 1], i + 1, m, seqs, S)
      BY <3>1
    <3>3. f[(i + 1) + 1] = f[i + 1] \o seqs[(i + 1) + 1]
      <4>1. (i + 1) + 1 # 1 /\ ((i + 1) + 1) - 1 = i + 1
        BY <3>1
      <4> DEFINE k == (i + 1) + 1
      <4>2. k \in 1 .. n /\ k # 1 /\ k - 1 = i + 1
        BY <3>1, <4>1
      <4> HIDE DEF k
      <4>3. f[k] = f[k - 1] \o seqs[k]
        BY <2>3, <4>2
      <4>4. f[k] = f[i + 1] \o seqs[k]
        BY <4>2, <4>3
      <4> QED
        BY <4>4 DEF k
    <3>4. seqs[(i + 1) + 1] \in Seq(S) /\ Len(seqs[(i + 1) + 1]) = m
      BY <3>1
    <3>5. \E h : IsPlacing(h, f[i + 1] \o seqs[(i + 1) + 1], (i + 1) + 1, m, seqs, S)
      BY <3>1, <3>2, <3>4, PlacingGrows
    <3> QED
      BY <3>3, <3>5
  <2>6. n - 1 \in I /\ (n - 1) + 1 = n
    <3>1. I \in SUBSET Nat /\ n - 1 \in Nat
      BY <1>3
    <3> HIDE DEF I
    <3> QED
      BY <2>4, <2>5, <3>1, AllNumbers
  <2> QED
    BY <2>1, <2>6
<1> QED
  BY <1>2, <1>3

\* Each decision of a scan is on a dependency in reach and an advisory.
IsExamination(h, decisions, installed, advisories, kev, policy, epss) ==
  LET reach == {i \in DOMAIN installed : WithinDepth(policy, installed[i])}
  IN  /\ IsList(decisions)
      /\ h \in [DOMAIN decisions -> reach \X (DOMAIN advisories)]
      /\ \A x, y \in DOMAIN decisions : h[x] = h[y] => x = y
      /\ \A p \in reach \X (DOMAIN advisories) : \E x \in DOMAIN decisions : h[x] = p
      /\ \A x \in DOMAIN decisions :
            decisions[x] = triage(installed[h[x][1]], advisories[h[x][2]], kev, policy, epss)

\* What examining one dependency files.
LEMMA ExaminedIs ==
  ASSUME NEW installed, IsList(installed), NEW advisories, IsList(advisories),
         NEW kev, NEW policy, NEW epss
  PROVE  LET candidates == [d \in ToSet(installed) |-> advisories]
         IN  \E h : IsExamination(h, Examined(installed, candidates, kev, policy, epss),
                                  installed, advisories, kev, policy, epss)
<1> DEFINE reach == {i \in DOMAIN installed : WithinDepth(policy, installed[i])}
           candidates == [d \in ToSet(installed) |-> advisories]
           reached == Kept(installed, reach)
           Of(d) == [k \in DOMAIN candidates[d] |-> triage(d, candidates[d][k], kev, policy, epss)]
           seqs == [i \in DOMAIN reached |-> Of(reached[i])]
           decisions == Examined(installed, candidates, kev, policy, epss)
           On(d, j) == triage(d, advisories[j], kev, policy, epss)
           S == {On(installed[i], j) : i \in DOMAIN installed, j \in DOMAIN advisories}
           n == Cardinality(reach)
           m == Len(advisories)
<1>1. decisions = FlattenSeq(seqs)
  BY DEF Examined
<1>2. reach \in SUBSET DOMAIN installed
  OBVIOUS
<1>3. PICK order : IsOrder(order, reach) /\ reached = [k \in 1 .. n |-> installed[order[k]]]
  <2> HIDE DEF reach
  <2> QED
    BY <1>2, KeptIs
<1>4. /\ n \in Nat /\ order \in [1 .. n -> reach]
      /\ \A i \in reach : \E k \in 1 .. n : order[k] = i
      /\ \A k, l \in 1 .. n : order[k] = order[l] => k = l
  BY <1>3 DEF IsOrder
<1>5. m \in Nat /\ DOMAIN advisories = 1 .. m
  BY DEF IsList
<1>6. \A i \in DOMAIN installed : candidates[installed[i]] = advisories
  BY DEF ToSet
<1>7. DOMAIN reached = 1 .. n /\ \A k \in 1 .. n : reached[k] = installed[order[k]] /\ order[k] \in DOMAIN installed
  BY <1>3, <1>4
<1> HIDE DEF reached, candidates, n, m, decisions, reach
<1>8. \A k \in 1 .. n : Of(reached[k]) = [j \in 1 .. m |-> On(installed[order[k]], j)]
  BY <1>5, <1>6, <1>7
<1>9. \A i \in DOMAIN installed, j \in 1 .. m : On(installed[i], j) \in S
  BY <1>5
<1> HIDE DEF On, S, Of
<1>10. ASSUME NEW k \in 1 .. n
       PROVE  /\ seqs[k] \in Seq(S) /\ Len(seqs[k]) = m
              /\ \A j \in 1 .. m : seqs[k][j] = On(installed[order[k]], j)
  <2> DEFINE s == [j \in 1 .. m |-> On(installed[order[k]], j)]
  <2>1. seqs[k] = s
    BY <1>7, <1>8
  <2>2. s \in Seq(S) /\ Len(s) = m /\ \A j \in 1 .. m : s[j] = On(installed[order[k]], j)
    BY <1>5, <1>7, <1>9
  <2> HIDE DEF s, seqs
  <2> QED
    BY <2>1, <2>2
<1>11. Len(seqs) = n /\ (n = 0 => seqs = << >>)
  <2>1. seqs = [i \in 1 .. n |-> Of(reached[i])]
    BY <1>7
  <2>2. Len(seqs) = n
    BY <1>4, <2>1
  <2>3. n = 0 => seqs = << >>
    BY <2>1
  <2> QED
    BY <2>2, <2>3
<1> HIDE DEF seqs
<1>12. PICK g : IsPlacing(g, decisions, n, m, seqs, S)
  BY <1>1, <1>4, <1>5, <1>10, <1>11, FlattenedIs
<1>13. /\ decisions \in Seq(S)
       /\ g \in [1 .. Len(decisions) -> (1 .. n) \X (1 .. m)]
       /\ \A x, y \in 1 .. Len(decisions) : g[x] = g[y] => x = y
       /\ \A a \in 1 .. n, b \in 1 .. m : \E x \in 1 .. Len(decisions) : g[x] = << a, b >>
       /\ \A x \in 1 .. Len(decisions) : decisions[x] = seqs[g[x][1]][g[x][2]]
  BY <1>12 DEF IsPlacing
<1>14. DOMAIN decisions = 1 .. Len(decisions) /\ Len(decisions) \in Nat
  BY <1>13
<1> DEFINE h == [x \in DOMAIN decisions |-> << order[g[x][1]], g[x][2] >>]
<1>15. \A x \in DOMAIN decisions : /\ h[x] = << order[g[x][1]], g[x][2] >>
                                   /\ g[x] \in (1 .. n) \X (1 .. m)
                                   /\ g[x] = << g[x][1], g[x][2] >>
  BY <1>13, <1>14
<1>16. DOMAIN h = DOMAIN decisions
  OBVIOUS
<1>17. h = [x \in DOMAIN decisions |-> h[x]]
  OBVIOUS
<1> HIDE DEF h
<1>18. ASSUME NEW x \in DOMAIN decisions
       PROVE  /\ h[x] \in reach \X (DOMAIN advisories)
              /\ decisions[x] = On(installed[h[x][1]], h[x][2])
  <2> DEFINE a == g[x][1]
             b == g[x][2]
  <2>1. a \in 1 .. n /\ b \in 1 .. m /\ h[x] = << order[a], b >>
    BY <1>15
  <2>2. decisions[x] = seqs[a][b]
    BY <1>13, <1>14
  <2> HIDE DEF a, b
  <2>3. order[a] \in reach /\ b \in DOMAIN advisories
    BY <1>4, <1>5, <2>1
  <2>4. seqs[a][b] = On(installed[order[a]], b)
    BY <1>10, <2>1
  <2>5. h[x][1] = order[a] /\ h[x][2] = b
    BY <2>1
  <2> QED
    BY <2>1, <2>2, <2>3, <2>4, <2>5
<1>19. ASSUME NEW x \in DOMAIN decisions, NEW y \in DOMAIN decisions, h[x] = h[y] PROVE x = y
  <2>1. order[g[x][1]] = order[g[y][1]] /\ g[x][2] = g[y][2]
    BY <1>15, <1>19
  <2>2. g[x] = g[y]
    BY <1>4, <1>15, <2>1
  <2> QED
    BY <1>13, <1>14, <2>2
<1>20. ASSUME NEW p \in reach \X (DOMAIN advisories) PROVE \E x \in DOMAIN decisions : h[x] = p
  <2>1. PICK k \in 1 .. n : order[k] = p[1]
    BY <1>4
  <2>2. PICK x \in DOMAIN decisions : g[x] = << k, p[2] >>
    <3>1. p[2] \in 1 .. m
      BY <1>5
    <3> DEFINE b == p[2]
    <3>2. b \in 1 .. m
      BY <3>1
    <3> HIDE DEF b
    <3>3. \E x \in 1 .. Len(decisions) : g[x] = << k, b >>
      BY <1>13, <3>2
    <3> QED
      BY <1>14, <3>3 DEF b
  <2>3. h[x] = << order[g[x][1]], g[x][2] >> /\ g[x][1] = k /\ g[x][2] = p[2]
    BY <1>15, <2>2
  <2>4. p = << p[1], p[2] >>
    OBVIOUS
  <2> QED
    BY <2>1, <2>3, <2>4
<1>21. h \in [DOMAIN decisions -> reach \X (DOMAIN advisories)]
  BY <1>17, <1>18
<1>22. IsExamination(h, decisions, installed, advisories, kev, policy, epss)
  BY <1>14, <1>18, <1>19, <1>20, <1>21 DEF IsExamination, IsList, On, reach
<1> QED
  BY <1>22 DEF decisions, candidates

\* A list of a scan holds what was decided so, the more urgent first.
LEMMA PickedIs ==
  ASSUME NEW list, IsList(list), NEW some \in SUBSET DOMAIN list, NEW key,
         \A i \in DOMAIN Kept(list, some) : key[i] \in Int
  PROVE  LET sorted == Sorted(Kept(list, some), key)
         IN  /\ sorted \in Seq({list[i] : i \in DOMAIN list})
             /\ Len(sorted) = Cardinality(some)
             /\ \A i \in some : \E k \in DOMAIN sorted : sorted[k] = list[i]
             /\ \A k, l \in DOMAIN sorted : k < l =>
                   \E i, j \in DOMAIN Kept(list, some) :
                      /\ sorted[k] = Kept(list, some)[i] /\ sorted[l] = Kept(list, some)[j]
                      /\ key[i] >= key[j]
<1> DEFINE kept == Kept(list, some)
           sorted == Sorted(kept, key)
<1>1. /\ IsList(kept) /\ Len(kept) = Cardinality(some)
      /\ \A i \in some : \E k \in DOMAIN kept : kept[k] = list[i]
      /\ \A k \in DOMAIN kept : \E i \in some : kept[k] = list[i]
  BY KeptHolds
<1> HIDE DEF kept
<1>2. \A i \in DOMAIN kept : key[i] \in Int
  BY DEF kept
<1>3. PICK order : /\ IsOrder(order, DOMAIN kept)
                   /\ \A k, l \in 1 .. Len(kept) : k < l => key[order[k]] >= key[order[l]]
                   /\ sorted = [k \in 1 .. Len(kept) |-> kept[order[k]]]
                   /\ Cardinality(DOMAIN kept) = Len(kept)
  BY <1>1, <1>2, SortedIs
<1>4. /\ Len(kept) \in Nat /\ order \in [1 .. Len(kept) -> DOMAIN kept]
      /\ \A i \in DOMAIN kept : \E k \in 1 .. Len(kept) : order[k] = i
  BY <1>1, <1>3 DEF IsOrder, IsList
<1> HIDE DEF sorted
<1>5. DOMAIN sorted = 1 .. Len(kept) /\ Len(sorted) = Len(kept)
      /\ \A k \in 1 .. Len(kept) : sorted[k] = kept[order[k]]
  BY <1>3, <1>4
<1> DEFINE S == {list[i] : i \in DOMAIN list}
<1>6. sorted \in Seq(S)
  <2>1. \A k \in 1 .. Len(kept) : sorted[k] \in S
    <3> SUFFICES ASSUME NEW k \in 1 .. Len(kept) PROVE sorted[k] \in S
      OBVIOUS
    <3>1. order[k] \in DOMAIN kept
      BY <1>4
    <3>2. PICK i \in some : kept[order[k]] = list[i]
      BY <1>1, <3>1
    <3> QED
      BY <1>5, <3>2
  <2> HIDE DEF S
  <2>2. sorted = [k \in 1 .. Len(kept) |-> sorted[k]]
    BY <1>3, <1>5
  <2> QED
    BY <1>4, <2>1, <2>2
<1>7. \A i \in some : \E k \in DOMAIN sorted : sorted[k] = list[i]
  BY <1>1, <1>4, <1>5
<1>8. ASSUME NEW k \in DOMAIN sorted, NEW l \in DOMAIN sorted, k < l
      PROVE  \E i, j \in DOMAIN kept : sorted[k] = kept[i] /\ sorted[l] = kept[j] /\ key[i] >= key[j]
  <2>1. order[k] \in DOMAIN kept /\ order[l] \in DOMAIN kept
    BY <1>4, <1>5
  <2> QED
    BY <1>3, <1>5, <1>8, <2>1
<1> QED
  BY <1>1, <1>5, <1>6, <1>7, <1>8 DEF kept, sorted

\* A decision is on a match exactly if an entry covers what is installed.
LEMMA DecidedIs ==
  ASSUME NEW dependency, NEW advisory, IsFiling(advisory), NEW kev, NEW policy, NEW epss
  PROVE  LET decided == triage(dependency, advisory, kev, policy, epss)
         IN  /\ decided.dependency = dependency /\ decided.advisory = advisory
             /\ decided.kev \in BOOLEAN
             /\ decided.verdict \in {"actionable", "suppressed"} <=>
                   \E i \in DOMAIN advisory.affected : Covers(dependency, advisory.affected[i])
<1> DEFINE covered == {i \in DOMAIN advisory.affected : Covers(dependency, advisory.affected[i])}
           entry == MatchingAffected(dependency, advisory)
           is_kev == CveIds(advisory) \intersect kev # {}
           score == EpssFor(advisory, epss)
           judged == Judge(dependency, advisory, is_kev, score, policy)
           decided == triage(dependency, advisory, kev, policy, epss)
<1>1. entry = FirstOrNone(advisory.affected, covered)
  BY DEF MatchingAffected
<1>2. covered = {} => entry = None
  BY <1>1 DEF FirstOrNone
<1>3. ASSUME covered # {} PROVE entry # None
  <2>1. covered \in SUBSET Nat
    BY DEF IsFiling, IsList
  <2>2. Min(covered) \in covered
    BY <1>3, <2>1, LeastOf
  <2> HIDE DEF entry
  <2>3. entry = advisory.affected[Min(covered)]
    BY <1>1, <1>3 DEF FirstOrNone
  <2> QED
    BY <2>2, <2>3 DEF IsFiling
<1>4. judged.verdict \in {"actionable", "suppressed"}
  BY JudgeTells
<1> HIDE DEF judged, entry, is_kev, score
<1>5. decided = MatchResult(entry, dependency, advisory, is_kev, score, policy)
  BY DEF triage, entry, is_kev, score
<1>6. /\ decided.dependency = dependency /\ decided.advisory = advisory /\ decided.kev = is_kev
      /\ decided.verdict = (IF entry = None THEN Decision("not_affected", None, FALSE) ELSE judged).verdict
  BY <1>5 DEF MatchResult, judged
<1>7. Decision("not_affected", None, FALSE).verdict = "not_affected"
  BY DEF Decision
<1>8. is_kev \in BOOLEAN
  BY DEF is_kev
<1> HIDE DEF decided, covered
<1>9. decided.verdict \in {"actionable", "suppressed"} <=> covered # {}
  BY <1>2, <1>3, <1>4, <1>6, <1>7
<1> QED
  BY <1>6, <1>8, <1>9 DEF decided, covered

FilesEach(result, filed, pairs, installed, advisories) ==
  /\ Len(filed) = Cardinality(pairs)
  /\ \A p \in pairs : \E k \in DOMAIN filed :
        filed[k].dependency = installed[p[1]] /\ filed[k].advisory = advisories[p[2]]
  /\ \A i, j \in DOMAIN result.actionable :
        i < j => Urgency(result.actionable[i].kev, result.actionable[i].advisory.severity) >=
                 Urgency(result.actionable[j].kev, result.actionable[j].advisory.severity)
  /\ result.dependencies_scanned + result.unreached_by_depth = Len(installed)

\* The two lists of a scan hold every match, each once.
AllIsFiled(installed, advisories, kev, policy, epss) ==
  LET result == triage_all(installed, [d \in ToSet(installed) |-> advisories], kev, policy, epss)
      pairs == {p \in (DOMAIN installed) \X (DOMAIN advisories) :
                  /\ WithinDepth(policy, installed[p[1]])
                  /\ \E i \in DOMAIN advisories[p[2]].affected :
                        Covers(installed[p[1]], advisories[p[2]].affected[i])}
  IN  FilesEach(result, result.actionable \o result.suppressed, pairs, installed, advisories)

\* Every pair of a dependency and an advisory that covers it is filed once, and nothing else.
LEMMA EverythingIsFiled ==
  ASSUME NEW installed, IsList(installed), NEW advisories, IsList(advisories),
         \A j \in DOMAIN advisories : IsFiling(advisories[j]),
         NEW kev, NEW policy, NEW epss
  PROVE  AllIsFiled(installed, advisories, kev, policy, epss)
<1> DEFINE reach == {i \in DOMAIN installed : WithinDepth(policy, installed[i])}
           candidates == [d \in ToSet(installed) |-> advisories]
           decisions == Examined(installed, candidates, kev, policy, epss)
           Of(v) == {x \in DOMAIN decisions : decisions[x].verdict = v}
           KeyOf(v) == [i \in DOMAIN Kept(decisions, Of(v)) |->
                          Urgency(Kept(decisions, Of(v))[i].kev, Kept(decisions, Of(v))[i].advisory.severity)]
           Pick(v) == Sorted(Kept(decisions, Of(v)), KeyOf(v))
           result == triage_all(installed, candidates, kev, policy, epss)
           actionable == Pick("actionable")
           suppressed == Pick("suppressed")
           filed == actionable \o suppressed
           Match(i, j) == \E k \in DOMAIN advisories[j].affected :
                             Covers(installed[i], advisories[j].affected[k])
           pairs == {p \in (DOMAIN installed) \X (DOMAIN advisories) :
                        WithinDepth(policy, installed[p[1]]) /\ Match(p[1], p[2])}
           matches == {x \in DOMAIN decisions : decisions[x].verdict \in {"actionable", "suppressed"}}
           unreached == Cardinality({i \in DOMAIN installed : ~ WithinDepth(policy, installed[i])})
<1>1. /\ result.actionable = actionable /\ result.suppressed = suppressed
      /\ result.unreached_by_depth = unreached
      /\ result.dependencies_scanned = Len(installed) - unreached
  BY DEF triage_all, TriageResult
<1>2. unreached \in Nat /\ Len(installed) \in Nat
  <2>1. {i \in DOMAIN installed : ~ WithinDepth(policy, installed[i])} \in SUBSET DOMAIN installed
    OBVIOUS
  <2>2. unreached \in Nat
    BY <2>1, PlacesAreFinite
  <2> QED
    BY <2>2 DEF IsList
<1>3. PICK h : IsExamination(h, decisions, installed, advisories, kev, policy, epss)
  BY ExaminedIs
<1> HIDE DEF decisions, result, unreached
<1>4. /\ IsList(decisions)
      /\ h \in [DOMAIN decisions -> reach \X (DOMAIN advisories)]
      /\ \A x, y \in DOMAIN decisions : h[x] = h[y] => x = y
      /\ \A p \in reach \X (DOMAIN advisories) : \E x \in DOMAIN decisions : h[x] = p
      /\ \A x \in DOMAIN decisions :
            decisions[x] = triage(installed[h[x][1]], advisories[h[x][2]], kev, policy, epss)
  BY <1>3 DEF IsExamination
<1>5. ASSUME NEW x \in DOMAIN decisions
      PROVE  /\ h[x] \in (DOMAIN installed) \X (DOMAIN advisories)
             /\ WithinDepth(policy, installed[h[x][1]])
             /\ decisions[x].dependency = installed[h[x][1]]
             /\ decisions[x].advisory = advisories[h[x][2]]
             /\ decisions[x].kev \in BOOLEAN /\ decisions[x].advisory.severity \in Severities
             /\ x \in matches <=> h[x] \in pairs
  <2> DEFINE i == h[x][1]
             j == h[x][2]
  <2>1. h[x] \in reach \X (DOMAIN advisories)
    BY <1>4
  <2>2. i \in DOMAIN installed /\ WithinDepth(policy, installed[i]) /\ j \in DOMAIN advisories
        /\ h[x] = << i, j >>
    BY <2>1
  <2>3. decisions[x] = triage(installed[i], advisories[j], kev, policy, epss)
    BY <1>4
  <2>4. h[x] \in pairs <=> Match(i, j)
    BY <2>2
  <2> HIDE DEF i, j
  <2>5. IsFiling(advisories[j]) /\ advisories[j].severity \in Severities
    BY <2>2 DEF IsFiling
  <2>6. /\ decisions[x].dependency = installed[i] /\ decisions[x].advisory = advisories[j]
        /\ decisions[x].kev \in BOOLEAN
        /\ decisions[x].verdict \in {"actionable", "suppressed"} <=> Match(i, j)
    BY <2>3, <2>5, DecidedIs
  <2> HIDE DEF Match, pairs
  <2> QED
    BY <2>2, <2>4, <2>5, <2>6 DEF i, j
<1> HIDE DEF Match
<1>6. /\ \A x \in matches : h[x] \in pairs
      /\ \A p \in pairs : \E x \in matches : h[x] = p
  <2>1. \A p \in pairs : p \in reach \X (DOMAIN advisories)
    OBVIOUS
  <2> HIDE DEF pairs
  <2> QED
    BY <1>4, <1>5, <2>1
<1> HIDE DEF pairs, reach
<1>7. Cardinality(matches) = Cardinality(pairs) /\ IsFiniteSet(matches)
  <2> DEFINE f == [x \in matches |-> h[x]]
  <2>1. f \in [matches -> pairs] /\ \A x \in matches : f[x] = h[x]
    BY <1>6
  <2>2. \A x, y \in matches : f[x] = f[y] => x = y
    BY <1>4, <2>1
  <2>3. \A p \in pairs : \E x \in matches : f[x] = p
    BY <1>6, <2>1
  <2>4. matches \in SUBSET DOMAIN decisions
    OBVIOUS
  <2> HIDE DEF f, matches
  <2>5. f \in Injection(matches, pairs)
    BY <2>1, <2>2 DEF Injection, IsInjective
  <2>6. f \in Surjection(matches, pairs)
    BY <2>1, <2>3 DEF Surjection
  <2>7. ExistsBijection(matches, pairs)
    BY <2>5, <2>6 DEF Bijection, ExistsBijection
  <2>8. IsFiniteSet(matches)
    BY <1>4, <2>4, PlacesAreFinite
  <2> QED
    BY <2>7, <2>8, FS_Bijection
<1>8. /\ matches = Of("actionable") \union Of("suppressed")
      /\ Of("actionable") \intersect Of("suppressed") = {}
      /\ Of("actionable") \in SUBSET DOMAIN decisions /\ Of("suppressed") \in SUBSET DOMAIN decisions
  OBVIOUS
<1> DEFINE C == {decisions[x] : x \in DOMAIN decisions}
<1>9. ASSUME NEW v \in {"actionable", "suppressed"}
      PROVE  /\ Pick(v) \in Seq(C) /\ Len(Pick(v)) = Cardinality(Of(v))
             /\ \A x \in Of(v) : \E k \in DOMAIN Pick(v) : Pick(v)[k] = decisions[x]
             /\ \A i, j \in DOMAIN Pick(v) : i < j =>
                  Urgency(Pick(v)[i].kev, Pick(v)[i].advisory.severity) >=
                  Urgency(Pick(v)[j].kev, Pick(v)[j].advisory.severity)
  <2> DEFINE some == Of(v)
             kept == Kept(decisions, some)
             key == [i \in DOMAIN kept |-> Urgency(kept[i].kev, kept[i].advisory.severity)]
             sorted == Sorted(kept, key)
  <2>1. some \in SUBSET DOMAIN decisions
    OBVIOUS
  <2> HIDE DEF some, C
  <2>2. \A k \in DOMAIN kept : \E x \in DOMAIN decisions : kept[k] = decisions[x]
    BY <1>4, <2>1, KeptHolds
  <2>3. \A i \in DOMAIN kept : key[i] = Urgency(kept[i].kev, kept[i].advisory.severity)
    BY Zenon
  <2>4. ASSUME NEW i \in DOMAIN kept PROVE key[i] \in Int
    <3>1. PICK x \in DOMAIN decisions : kept[i] = decisions[x]
      BY <2>2
    <3>2. Urgency(TRUE, decisions[x].advisory.severity) \in Int
          /\ Urgency(FALSE, decisions[x].advisory.severity) \in Int
      BY <1>5, ExploitedComesFirst
    <3>3. decisions[x].kev = TRUE \/ decisions[x].kev = FALSE
      BY <1>5
    <3> HIDE DEF key
    <3> QED
      BY <2>3, <3>1, <3>2, <3>3
  <2> HIDE DEF key
  <2>5. /\ sorted \in Seq({decisions[i] : i \in DOMAIN decisions})
        /\ Len(sorted) = Cardinality(some)
        /\ \A i \in some : \E k \in DOMAIN sorted : sorted[k] = decisions[i]
        /\ \A k, l \in DOMAIN sorted : k < l =>
              \E i, j \in DOMAIN kept : /\ sorted[k] = kept[i] /\ sorted[l] = kept[j]
                                        /\ key[i] >= key[j]
    BY <1>4, <2>1, <2>4, PickedIs
  <2>6. sorted = Pick(v)
    BY DEF key, some
  <2> HIDE DEF sorted, kept
  <2>7. \A k, l \in DOMAIN sorted : k < l =>
           Urgency(sorted[k].kev, sorted[k].advisory.severity) >=
           Urgency(sorted[l].kev, sorted[l].advisory.severity)
    BY <2>3, <2>5
  <2> HIDE DEF Pick
  <2> QED
    BY <2>5, <2>6, <2>7 DEF some, C
<1> HIDE DEF Pick, C, Of, KeyOf, matches
<1>10. /\ Cardinality(matches) = Cardinality(Of("actionable")) + Cardinality(Of("suppressed"))
       /\ Cardinality(Of("actionable")) \in Nat /\ Cardinality(Of("suppressed")) \in Nat
  <2>1. /\ IsFiniteSet(Of("actionable")) /\ Cardinality(Of("actionable")) \in Nat
        /\ IsFiniteSet(Of("suppressed")) /\ Cardinality(Of("suppressed")) \in Nat
    BY <1>4, <1>8, PlacesAreFinite
  <2> DEFINE a == Of("actionable")
             b == Of("suppressed")
  <2>2. IsFiniteSet(a) /\ IsFiniteSet(b) /\ a \intersect b = {} /\ matches = a \union b
    BY <1>8, <2>1
  <2>3. Cardinality(a) \in Nat /\ Cardinality(b) \in Nat
    BY <2>1
  <2> HIDE DEF a, b
  <2>4. Cardinality(a \union b) = Cardinality(a) + Cardinality(b) - Cardinality(a \intersect b)
    BY <2>2, FS_Union
  <2>5. Cardinality(a \intersect b) = 0
    BY <2>2, FS_EmptySet
  <2>6. Cardinality(matches) = Cardinality(a) + Cardinality(b)
    BY <2>2, <2>3, <2>4, <2>5
  <2> QED
    BY <2>3, <2>6 DEF a, b
<1>11. /\ filed \in Seq(C) /\ Len(filed) = Len(actionable) + Len(suppressed)
       /\ \A k \in DOMAIN actionable : \E l \in DOMAIN filed : filed[l] = actionable[k]
       /\ \A k \in DOMAIN suppressed : \E l \in DOMAIN filed : filed[l] = suppressed[k]
  <2>1. actionable \in Seq(C) /\ suppressed \in Seq(C)
    BY <1>9
  <2> HIDE DEF actionable, suppressed
  <2>2. filed \in Seq(C) /\ Len(filed) = Len(actionable) + Len(suppressed)
    BY <2>1
  <2>3. \A k \in DOMAIN actionable : k \in DOMAIN filed /\ filed[k] = actionable[k]
    BY <2>1
  <2>4. \A k \in DOMAIN suppressed : k + Len(actionable) \in DOMAIN filed
           /\ filed[k + Len(actionable)] = suppressed[k]
    BY <2>1
  <2> QED
    BY <2>2, <2>3, <2>4
<1> HIDE DEF filed
<1>12. Len(filed) = Cardinality(pairs)
  BY <1>7, <1>9, <1>10, <1>11
<1>13. ASSUME NEW p \in pairs
       PROVE  \E k \in DOMAIN filed : /\ filed[k].dependency = installed[p[1]]
                                      /\ filed[k].advisory = advisories[p[2]]
  <2>1. PICK x \in matches : h[x] = p
    BY <1>6
  <2>2. x \in Of("actionable") \/ x \in Of("suppressed")
    BY <1>8
  <2>3. x \in DOMAIN decisions
    BY <2>1 DEF matches
  <2>4. \E k \in DOMAIN filed : filed[k] = decisions[x]
    <3>1. CASE x \in Of("actionable")
      <4>1. PICK k \in DOMAIN actionable : actionable[k] = decisions[x]
        BY <1>9, <3>1
      <4> QED
        BY <1>11, <4>1
    <3>2. CASE x \in Of("suppressed")
      <4>1. PICK k \in DOMAIN suppressed : suppressed[k] = decisions[x]
        BY <1>9, <3>2
      <4> QED
        BY <1>11, <4>1
    <3> QED
      BY <2>2, <3>1, <3>2
  <2> QED
    BY <1>5, <2>1, <2>3, <2>4
<1>14. \A i, j \in DOMAIN actionable :
          i < j => Urgency(actionable[i].kev, actionable[i].advisory.severity) >=
                   Urgency(actionable[j].kev, actionable[j].advisory.severity)
  BY <1>9
<1>15. result.dependencies_scanned + result.unreached_by_depth = Len(installed)
  BY <1>1, <1>2
<1>16. filed = result.actionable \o result.suppressed
  BY <1>1 DEF filed
<1> HIDE DEF actionable, suppressed
<1>17. \A i, j \in DOMAIN result.actionable :
          i < j => Urgency(result.actionable[i].kev, result.actionable[i].advisory.severity) >=
                   Urgency(result.actionable[j].kev, result.actionable[j].advisory.severity)
  BY <1>1, <1>14
<1>18. FilesEach(result, result.actionable \o result.suppressed, pairs, installed, advisories)
  BY <1>12, <1>13, <1>15, <1>16, <1>17 DEF FilesEach
<1> QED
  BY <1>18 DEF AllIsFiled, result, pairs, Match

\* EveryMatchIsFiled, for lists of any length.
LEMMA EveryMatchIs == IntakeAsking => EveryMatchIsFiled
<1> SUFFICES ASSUME IntakeAsking, question.kind = "filing" PROVE EveryMatchIsFiled
  BY DEF EveryMatchIsFiled
<1> DEFINE installed == question.installed
           advisories == question.advisories
           epss == [cve \in {} |-> 0]
<1>1. installed \in InstalledLists /\ advisories \in AdvisoryLists
  BY DEF IntakeAsking, FilingQuestions
<1>2. IsList(installed) /\ IsList(advisories) /\ \A j \in DOMAIN advisories : IsFiling(advisories[j])
  BY <1>1, IntakeAssumption
<1>3. AllIsFiled(installed, advisories, question.kev, question.policy, epss)
  <2> HIDE DEF installed, advisories, epss
  <2> QED
    BY <1>2, EverythingIsFiled
<1> QED
  BY <1>3 DEF EveryMatchIsFiled, AllIsFiled, FilesEach, FilesAll

\* What a reader gets of the lines before it drops what it has twice.
IsReading(format, deps, lines) ==
  /\ DOMAIN deps \subseteq Nat
  /\ \A k \in DOMAIN deps :
        /\ deps[k].reachability \in Reachabilities
        /\ \E i \in DOMAIN lines : deps[k].name = lines[i].name /\ deps[k].version = Version(lines[i])
  /\ \A i \in DOMAIN lines : \E k \in DOMAIN deps :
        /\ deps[k].name = lines[i].name /\ deps[k].version = Version(lines[i])
        /\ \/ OnlyTests(lines[i])
           \/ format = "gradle" /\ lines[i].configurations = {}
           \/ deps[k].reachability # "dev_only"

\* Dropping what a reading has twice keeps the lines, each as exposed as it is.
LEMMA ReadingIsKept ==
  ASSUME NEW format, NEW deps, NEW lines, IsReading(format, deps, lines)
  PROVE  Reads(format, Dedupe(deps), lines)
<1>1. /\ DOMAIN deps \subseteq Nat
      /\ \A k \in DOMAIN deps : deps[k].reachability \in Reachabilities
      /\ \A k \in DOMAIN deps : \E i \in DOMAIN lines :
            deps[k].name = lines[i].name /\ deps[k].version = Version(lines[i])
      /\ \A i \in DOMAIN lines : \E k \in DOMAIN deps :
            /\ deps[k].name = lines[i].name /\ deps[k].version = Version(lines[i])
            /\ \/ OnlyTests(lines[i])
               \/ format = "gradle" /\ lines[i].configurations = {}
               \/ deps[k].reachability # "dev_only"
  BY DEF IsReading
<1>2. /\ \A i \in DOMAIN deps : \E d \in Dedupe(deps) :
            Alike(d, deps[i]) /\ Exposure[d.reachability] <= Exposure[deps[i].reachability]
      /\ \A d \in Dedupe(deps) : \E i \in DOMAIN deps : d = deps[i]
      /\ \A d, e \in Dedupe(deps) : Alike(d, e) => d = e
  BY <1>1, MostExposedIsKept
<1>3. \A r \in Reachabilities : r # "dev_only" => ~ Exposure["dev_only"] <= Exposure[r]
  BY DEF Reachabilities, Exposure
<1>4. ASSUME NEW i \in DOMAIN lines
      PROVE  \E d \in Dedupe(deps) :
                /\ d.name = lines[i].name /\ d.version = Version(lines[i])
                /\ \/ OnlyTests(lines[i])
                   \/ format = "gradle" /\ lines[i].configurations = {}
                   \/ d.reachability # "dev_only"
  <2>1. PICK k \in DOMAIN deps :
            /\ deps[k].name = lines[i].name /\ deps[k].version = Version(lines[i])
            /\ \/ OnlyTests(lines[i])
               \/ format = "gradle" /\ lines[i].configurations = {}
               \/ deps[k].reachability # "dev_only"
    BY <1>1
  <2>2. PICK d \in Dedupe(deps) :
            Alike(d, deps[k]) /\ Exposure[d.reachability] <= Exposure[deps[k].reachability]
    BY <1>2
  <2>3. deps[k].reachability # "dev_only" => d.reachability # "dev_only"
    BY <1>1, <1>3, <2>2
  <2>4. d.name = lines[i].name /\ d.version = Version(lines[i])
    BY <2>1, <2>2 DEF Alike
  <2> QED
    BY <2>1, <2>3, <2>4
<1>5. ASSUME NEW d \in Dedupe(deps)
      PROVE  \E i \in DOMAIN lines : d.name = lines[i].name /\ d.version = Version(lines[i])
  BY <1>1, <1>2
<1>6. \A d, e \in Dedupe(deps) : (d.name = e.name /\ d.version = e.version) => d = e
  BY <1>2 DEF Alike
<1> QED
  BY <1>4, <1>5, <1>6 DEF Reads

\* What a line stands for.
LEMMA LinesAre ==
  ASSUME NEW lines, IsList(lines), \A i \in DOMAIN lines : IsLine(lines[i])
  PROVE  /\ DOMAIN lines = 1 .. Len(lines) /\ Len(lines) \in Nat /\ DOMAIN lines \subseteq Nat
         /\ Plainly(Managed)
         /\ \A i \in DOMAIN lines : /\ Plainly(Version(lines[i])) /\ Version(lines[i]) # None
                                    /\ Version(lines[i]) \in RawVersion
                                    /\ Parses(Version(lines[i]))
                                    /\ lines[i].name \in Nat \ {0}
<1>1. Managed \in Plain /\ Managed.tail = << >>
  <2>1. << 3, 0, 0 >> \in Seq(Nat) /\ Len(<< 3, 0, 0 >>) = 3
    OBVIOUS
  <2> QED
    BY <2>1 DEF Managed, Raw, Plain, RawVersion
<1>2. Plainly(Managed)
  BY <1>1 DEF Plainly
<1>3. \A i \in DOMAIN lines : Plainly(Version(lines[i])) /\ lines[i].name \in Nat \ {0}
  BY <1>2 DEF IsLine, Version
<1>4. \A v : Plainly(v) => v # None /\ v \in RawVersion /\ Parses(v)
  BY PlainIsRaw, PlainOrder DEF Plainly
<1>5. DOMAIN lines = 1 .. Len(lines) /\ Len(lines) \in Nat /\ DOMAIN lines \subseteq Nat
  BY DEF IsList
<1> QED
  BY <1>2, <1>3, <1>4, <1>5

ExactOf(lines) == [i \in DOMAIN lines |-> [name |-> lines[i].name, version |-> Version(lines[i]),
                                           configurations |-> lines[i].configurations]]

\* gradle.lockfile and build.sbt.lock (_resolve_lock_lines and its two callers).
LEMMA ResolvedIsRead ==
  ASSUME NEW lines, IsList(lines), \A i \in DOMAIN lines : IsLine(lines[i])
  PROVE  /\ Reads("gradle", GradleLockfile(ExactOf(lines)), lines)
         /\ Reads("sbt", SbtLock(ExactOf(lines)), lines)
<1> DEFINE exact == ExactOf(lines)
           Shown(l, shipping) == Dependency(l.name, l.version,
                     IF l \in shipping THEN "runtime_transitive" ELSE "dev_only", TRUE, 0, << >>)
           ships == {l \in ToSet(exact) : l.configurations \ {"test"} # {}}
           shipsToo == {l \in ToSet(exact) : l.configurations = {} \/ l.configurations \ {"test"} # {}}
           deps(shipping) == [i \in DOMAIN exact |-> Shown(exact[i], shipping)]
<1>1. /\ DOMAIN exact = DOMAIN lines
      /\ \A i \in DOMAIN lines : /\ exact[i].name = lines[i].name /\ exact[i].version = Version(lines[i])
                                 /\ exact[i].configurations = lines[i].configurations
                                 /\ exact[i] \in ToSet(exact)
  BY DEF ExactOf, ToSet
<1>2. DOMAIN lines \subseteq Nat
  BY LinesAre
<1>3. GradleLockfile(exact) = Dedupe(deps(ships)) /\ SbtLock(exact) = Dedupe(deps(shipsToo))
  BY DEF GradleLockfile, SbtLock, Resolved
<1> HIDE DEF exact
<1>4. ASSUME NEW shipping, NEW i \in DOMAIN lines
      PROVE  LET d == deps(shipping)[i]
             IN  /\ d.name = lines[i].name /\ d.version = Version(lines[i])
                 /\ d.reachability = IF exact[i] \in shipping THEN "runtime_transitive" ELSE "dev_only"
  BY <1>1 DEF Dependency
<1>5. \A shipping : DOMAIN deps(shipping) = DOMAIN lines
  BY <1>1
<1>6. "runtime_transitive" \in Reachabilities /\ "dev_only" \in Reachabilities
  BY DEF Reachabilities
<1> HIDE DEF deps
<1>7. \A i \in DOMAIN lines : ~ OnlyTests(lines[i]) =>
         /\ lines[i].configurations # {} => exact[i] \in ships
         /\ exact[i] \in shipsToo
  BY <1>1 DEF OnlyTests
<1> HIDE DEF ships, shipsToo
<1>8. IsReading("gradle", deps(ships), lines)
  BY <1>2, <1>4, <1>5, <1>6, <1>7 DEF IsReading
<1>9. IsReading("sbt", deps(shipsToo), lines)
  BY <1>2, <1>4, <1>5, <1>6, <1>7 DEF IsReading
<1> QED
  BY <1>3, <1>8, <1>9, ReadingIsKept DEF exact

\* The entry of a manifest that stands for a line.
StandsFor(d, line) ==
  /\ d.name = line.name /\ d.version = Version(line)
  /\ d.reachability \in Reachabilities
  /\ OnlyTests(line) \/ d.reachability # "dev_only"

\* A reader that makes an entry of each element it keeps, where the kept ones
\* are those the lines stand behind, gives a reading of the lines.
LEMMA GatheredIsRead ==
  ASSUME NEW format, NEW lines, NEW source, IsList(source), NEW some \in SUBSET DOMAIN source,
         NEW of \in [some -> DOMAIN lines], \A i \in DOMAIN lines : \E j \in some : of[j] = i,
         NEW deps, DOMAIN deps = DOMAIN Kept(source, some),
         \A k \in DOMAIN deps, j \in some :
            Kept(source, some)[k] = source[j] => StandsFor(deps[k], lines[of[j]])
  PROVE  IsReading(format, deps, lines)
<1> DEFINE kept == Kept(source, some)
<1>1. /\ DOMAIN kept = 1 .. Len(kept) /\ Len(kept) \in Nat
      /\ \A j \in some : \E k \in DOMAIN kept : kept[k] = source[j]
      /\ \A k \in DOMAIN kept : \E j \in some : kept[k] = source[j]
  BY KeptHolds DEF IsList
<1>2. \A k \in DOMAIN deps, j \in some : kept[k] = source[j] => StandsFor(deps[k], lines[of[j]])
  OBVIOUS
<1> HIDE DEF kept
<1>3. DOMAIN deps = DOMAIN kept /\ DOMAIN kept \subseteq Nat
  BY <1>1 DEF kept
<1>4. \A k \in DOMAIN deps : \E i \in DOMAIN lines : StandsFor(deps[k], lines[i])
  BY <1>1, <1>2, <1>3
<1>5. \A i \in DOMAIN lines : \E k \in DOMAIN deps : StandsFor(deps[k], lines[i])
  BY <1>1, <1>2, <1>3
<1> QED
  BY <1>3, <1>4, <1>5 DEF IsReading, StandsFor

DeclaredOf(lines) == [i \in DOMAIN lines |->
                        [name |-> lines[i].name, version |-> lines[i].version,
                         scope |-> IF OnlyTests(lines[i]) THEN "test" ELSE "compile"]]
ManagedOf(lines) == [n \in {lines[i].name : i \in DOMAIN lines} |-> Managed]
NodesOf(lines) == [i \in DOMAIN lines |->
                        [name |-> lines[i].name, version |-> Version(lines[i]),
                         dev |-> OnlyTests(lines[i]), chain |-> << >>]]
RequiresOf(lines) == [i \in DOMAIN lines |->
                        [path |-> lines[i].name, version |-> Version(lines[i]),
                         indirect |-> OnlyTests(lines[i])]]

\* A list made of each element of another.
LEMMA MadeIsList ==
  ASSUME NEW lines, IsList(lines), NEW made, made = [i \in DOMAIN lines |-> made[i]]
  PROVE  IsList(made) /\ DOMAIN made = DOMAIN lines
<1>1. Len(lines) \in Nat /\ DOMAIN made = 1 .. Len(lines)
  BY DEF IsList
<1>2. Len(made) = Len(lines)
  BY <1>1
<1> QED
  BY <1>1, <1>2 DEF IsList

\* The three ways to depend on a package.
LEMMA ReachabilitiesAre ==
  "runtime_direct" \in Reachabilities /\ "runtime_transitive" \in Reachabilities /\ "dev_only" \in Reachabilities
BY DEF Reachabilities

\* pom.xml.
LEMMA PomIsRead ==
  ASSUME NEW lines, IsList(lines), \A i \in DOMAIN lines : IsLine(lines[i])
  PROVE  Reads("pom", PomXml(DeclaredOf(lines), ManagedOf(lines)), lines)
<1> DEFINE declared == DeclaredOf(lines)
           managed == ManagedOf(lines)
           Found(d) == IF d.version = None /\ d.name \in DOMAIN managed
                      THEN managed[d.name] ELSE d.version
           Shown(d) == Dependency(d.name, Found(d),
                     IF d.scope \in {"test", "provided"} THEN "dev_only" ELSE "runtime_direct",
                     TRUE, 0, << >>)
           some == {i \in DOMAIN declared : Found(declared[i]) # None /\ Parses(Found(declared[i]))}
           known == Kept(declared, some)
           deps == [i \in DOMAIN known |-> Shown(known[i])]
           of == [j \in some |-> j]
<1>1. PomXml(declared, managed) = Dedupe(deps)
  BY DEF PomXml
<1>2. /\ DOMAIN declared = DOMAIN lines
      /\ \A i \in DOMAIN lines : /\ declared[i].name = lines[i].name
                                 /\ declared[i].version = lines[i].version
                                 /\ declared[i].scope = IF OnlyTests(lines[i]) THEN "test" ELSE "compile"
      /\ \A i \in DOMAIN lines : lines[i].name \in DOMAIN managed /\ managed[lines[i].name] = Managed
  BY DEF DeclaredOf, ManagedOf
<1>3. IsList(declared)
  BY MadeIsList DEF DeclaredOf
<1> HIDE DEF declared, managed
<1>4. \A i \in DOMAIN lines : Found(declared[i]) = Version(lines[i])
  BY <1>2 DEF Version
<1> HIDE DEF Found
<1>5. \A i \in DOMAIN lines : Version(lines[i]) # None /\ Parses(Version(lines[i]))
  BY LinesAre
<1>6. some = DOMAIN lines
  BY <1>2, <1>4, <1>5
<1>7. \A i \in DOMAIN lines : StandsFor(Shown(declared[i]), lines[i])
  BY <1>2, <1>4, ReachabilitiesAre DEF StandsFor, Dependency
<1> HIDE DEF Shown
<1>8. \A k \in DOMAIN deps : deps[k] = Shown(known[k])
  OBVIOUS
<1>9. DOMAIN deps = DOMAIN known
  OBVIOUS
<1> HIDE DEF some
<1>10. IsReading("pom", deps, lines)
  <2>1. some \in SUBSET DOMAIN declared
    BY <1>2, <1>6
  <2>2. of \in [some -> DOMAIN lines] /\ \A j \in some : of[j] = j
    BY <1>6
  <2> HIDE DEF of
  <2>3. \A i \in DOMAIN lines : \E j \in some : of[j] = i
    BY <1>6, <2>2
  <2>4. ASSUME NEW k \in DOMAIN deps, NEW j \in some, known[k] = declared[j]
        PROVE  StandsFor(deps[k], lines[of[j]])
    BY <1>6, <1>7, <1>8, <2>2, <2>4
  <2> HIDE DEF deps
  <2>5. DOMAIN deps = DOMAIN Kept(declared, some)
    BY <1>9
  <2>6. \A k \in DOMAIN deps, j \in some :
           Kept(declared, some)[k] = declared[j] => StandsFor(deps[k], lines[of[j]])
    BY <2>4
  <2> HIDE DEF known
  <2> QED
    BY <1>3, <2>1, <2>2, <2>3, <2>5, <2>6, GatheredIsRead
<1> HIDE DEF deps
<1> QED
  BY <1>1, <1>10, ReadingIsKept DEF declared, managed

\* Two lists one after the other.
LEMMA JoinedIs ==
  ASSUME NEW S, NEW a \in Seq(S), NEW b \in Seq(S)
  PROVE  /\ a \o b \in Seq(S) /\ Len(a \o b) = Len(a) + Len(b)
         /\ DOMAIN (a \o b) = 1 .. (Len(a) + Len(b))
         /\ Len(a) \in Nat /\ Len(b) \in Nat
         /\ \A i \in 1 .. Len(a) : (a \o b)[i] = a[i]
         /\ \A i \in 1 .. Len(b) : (a \o b)[Len(a) + i] = b[i]
<1>1. a \o b \in Seq(S) /\ Len(a \o b) = Len(a) + Len(b)
  OBVIOUS
<1>2. DOMAIN (a \o b) = 1 .. Len(a \o b)
  BY <1>1
<1>3. \A i \in 1 .. Len(a) : (a \o b)[i] = a[i]
  OBVIOUS
<1>4. \A i \in 1 .. Len(b) : (a \o b)[Len(a) + i] = b[i]
  OBVIOUS
<1> QED
  BY <1>1, <1>2, <1>3, <1>4

\* What a list holds.
LEMMA ListIsSeq ==
  ASSUME NEW list, NEW n \in Nat, DOMAIN list = 1 .. n, list = [i \in DOMAIN list |-> list[i]]
  PROVE  /\ list \in Seq({list[i] : i \in DOMAIN list}) /\ Len(list) = n
         /\ \A T : {list[i] : i \in DOMAIN list} \subseteq T => list \in Seq(T)
<1>1. \A T : {list[i] : i \in DOMAIN list} \subseteq T => list \in [1 .. n -> T]
  OBVIOUS
<1>2. \A T : [1 .. n -> T] \subseteq Seq(T)
  OBVIOUS
<1>3. \A T : {list[i] : i \in DOMAIN list} \subseteq T => list \in Seq(T)
  BY <1>1, <1>2
<1>4. Len(list) = n
  BY <1>1, <1>2
<1> QED
  BY <1>3, <1>4

\* package-lock.json of version 1.
LEMMA NodesAreRead ==
  ASSUME NEW lines, IsList(lines), \A i \in DOMAIN lines : IsLine(lines[i])
  PROVE  Reads("npm1", PackageLockV1(NodesOf(lines)), lines)
<1> DEFINE nodes == NodesOf(lines)
           Shown(n) == Dependency(n.name, n.version,
                     IF n.dev THEN "dev_only"
                     ELSE IF n.chain = << >> THEN "runtime_direct" ELSE "runtime_transitive",
                     TRUE, Len(n.chain), n.chain)
           some == {i \in DOMAIN nodes : /\ Len(nodes[i].chain) <= MaxWalkDepth
                                         /\ nodes[i].version # None}
           within == Kept(nodes, some)
           deps == [i \in DOMAIN within |-> Shown(within[i])]
           of == [j \in some |-> j]
<1>1. PackageLockV1(nodes) = Dedupe(deps)
  BY DEF PackageLockV1
<1>2. /\ DOMAIN nodes = DOMAIN lines
      /\ \A i \in DOMAIN lines : /\ nodes[i].name = lines[i].name
                                 /\ nodes[i].version = Version(lines[i])
                                 /\ nodes[i].dev = OnlyTests(lines[i])
                                 /\ nodes[i].chain = << >>
  BY DEF NodesOf
<1>3. IsList(nodes)
  BY MadeIsList DEF NodesOf
<1> HIDE DEF nodes
<1>5. \A i \in DOMAIN lines : Version(lines[i]) # None
  BY LinesAre
<1>6. some = DOMAIN lines
  <2>1. Len(<< >>) <= MaxWalkDepth
    BY IntakeAssumption
  <2> QED
    BY <1>2, <1>5, <2>1
<1>7. \A i \in DOMAIN lines : StandsFor(Shown(nodes[i]), lines[i])
  BY <1>2, ReachabilitiesAre DEF StandsFor, Dependency
<1> HIDE DEF Shown
<1>8. \A k \in DOMAIN deps : deps[k] = Shown(within[k])
  OBVIOUS
<1>9. DOMAIN deps = DOMAIN within
  OBVIOUS
<1> HIDE DEF some
<1>10. IsReading("npm1", deps, lines)
  <2>1. some \in SUBSET DOMAIN nodes
    BY <1>2, <1>6
  <2>2. of \in [some -> DOMAIN lines] /\ \A j \in some : of[j] = j
    BY <1>6
  <2> HIDE DEF of
  <2>3. \A i \in DOMAIN lines : \E j \in some : of[j] = i
    BY <1>6, <2>2
  <2>4. ASSUME NEW k \in DOMAIN deps, NEW j \in some, within[k] = nodes[j]
        PROVE  StandsFor(deps[k], lines[of[j]])
    BY <1>6, <1>7, <1>8, <2>2, <2>4
  <2> HIDE DEF deps
  <2>5. DOMAIN deps = DOMAIN Kept(nodes, some)
    BY <1>9
  <2>6. \A k \in DOMAIN deps, j \in some :
           Kept(nodes, some)[k] = nodes[j] => StandsFor(deps[k], lines[of[j]])
    BY <2>4
  <2> HIDE DEF within
  <2> QED
    BY <1>3, <2>1, <2>2, <2>3, <2>5, <2>6, GatheredIsRead
<1> HIDE DEF deps
<1> QED
  BY <1>1, <1>10, ReadingIsKept DEF nodes

\* go.mod.
LEMMA RequiresAreRead ==
  ASSUME NEW lines, IsList(lines), \A i \in DOMAIN lines : IsLine(lines[i])
  PROVE  Reads("go", GoMod(RequiresOf(lines), {}, [n \in {} |-> 0]), lines)
<1> DEFINE requires == RequiresOf(lines)
           none == [n \in {} |-> 0]
           Given(r) == IF r.path \in DOMAIN none THEN none[r.path]
                       ELSE [path |-> r.path, version |-> r.version]
           Shown(r) == Dependency(Given(r).path, Given(r).version,
                     IF r.indirect THEN "runtime_transitive" ELSE "runtime_direct",
                     TRUE, IF r.indirect THEN 1 ELSE 0, << >>)
           some == {i \in DOMAIN requires :
                    /\ << requires[i].path, requires[i].version >> \notin {}
                    /\ Given(requires[i]).version # None}
           kept == Kept(requires, some)
           deps == [i \in DOMAIN kept |-> Shown(kept[i])]
           of == [j \in some |-> j]
<1>1. GoMod(requires, {}, none) = Dedupe(deps)
  BY DEF GoMod
<1>2. /\ DOMAIN requires = DOMAIN lines
      /\ \A i \in DOMAIN lines : /\ requires[i].path = lines[i].name
                                 /\ requires[i].version = Version(lines[i])
                                 /\ requires[i].indirect = OnlyTests(lines[i])
  BY DEF RequiresOf
<1>3. IsList(requires)
  BY MadeIsList DEF RequiresOf
<1> HIDE DEF requires
<1>4. \A r : Given(r).path = r.path /\ Given(r).version = r.version
  OBVIOUS
<1> HIDE DEF Given
<1>5. \A i \in DOMAIN lines : Version(lines[i]) # None
  BY LinesAre
<1>6. some = DOMAIN lines
  <2>1. \A i \in DOMAIN lines : Given(requires[i]).version # None
    BY <1>2, <1>4, <1>5
  <2>2. \A t : t \notin {}
    OBVIOUS
  <2>3. \A i : i \in some <=> i \in DOMAIN lines
    BY <1>2, <2>1, <2>2
  <2> HIDE DEF some
  <2> QED
    BY <2>3
<1>7. \A i \in DOMAIN lines : StandsFor(Shown(requires[i]), lines[i])
  <2>1. SUFFICES ASSUME NEW i \in DOMAIN lines PROVE StandsFor(Shown(requires[i]), lines[i])
    OBVIOUS
  <2>2. Given(requires[i]).path = lines[i].name /\ Given(requires[i]).version = Version(lines[i])
    BY <1>2, <1>4
  <2>3. requires[i].indirect = OnlyTests(lines[i])
    BY <1>2
  <2> QED
    BY <2>2, <2>3, ReachabilitiesAre DEF StandsFor, Dependency
<1> HIDE DEF Shown
<1>8. \A k \in DOMAIN deps : deps[k] = Shown(kept[k])
  OBVIOUS
<1>9. DOMAIN deps = DOMAIN kept
  OBVIOUS
<1> HIDE DEF some
<1>10. IsReading("go", deps, lines)
  <2>1. some \in SUBSET DOMAIN requires
    BY <1>2, <1>6
  <2>2. of \in [some -> DOMAIN lines] /\ \A j \in some : of[j] = j
    BY <1>6
  <2> HIDE DEF of
  <2>3. \A i \in DOMAIN lines : \E j \in some : of[j] = i
    BY <1>6, <2>2
  <2>4. ASSUME NEW k \in DOMAIN deps, NEW j \in some, kept[k] = requires[j]
        PROVE  StandsFor(deps[k], lines[of[j]])
    BY <1>6, <1>7, <1>8, <2>2, <2>4
  <2> HIDE DEF deps
  <2>5. DOMAIN deps = DOMAIN Kept(requires, some)
    BY <1>9
  <2>6. \A k \in DOMAIN deps, j \in some :
           Kept(requires, some)[k] = requires[j] => StandsFor(deps[k], lines[of[j]])
    BY <2>4
  <2> HIDE DEF kept
  <2> QED
    BY <1>3, <2>1, <2>2, <2>3, <2>5, <2>6, GatheredIsRead
<1> HIDE DEF deps
<1> QED
  BY <1>1, <1>10, ReadingIsKept DEF requires, none

\* Cargo.lock: package 0 is the project and is left out.
LEMMA PackagesAreRead ==
  ASSUME NEW lines, IsList(lines), \A i \in DOMAIN lines : IsLine(lines[i])
  PROVE  Reads("cargo", CargoLock(CargoPackages(lines)), lines)
<1> DEFINE packages == CargoPackages(lines)
           n == Len(lines)
           local == {packages[i].name : i \in {j \in DOMAIN packages : packages[j].source = None}}
           direct == UNION {ToSet(packages[i].requires) :
                            i \in {j \in DOMAIN packages : packages[j].name \in local}}
           Shown(p) == Dependency(p.name, p.version,
                     IF p.name \in direct THEN "runtime_direct" ELSE "runtime_transitive",
                     TRUE, IF p.name \in direct THEN 0 ELSE 1, << >>)
           some == {i \in DOMAIN packages : packages[i].name \notin local}
           foreign == Kept(packages, some)
           deps == [i \in DOMAIN foreign |-> Shown(foreign[i])]
           of == [j \in some |-> j - 1]
<1>1. CargoLock(packages) = Dedupe(deps)
  BY DEF CargoLock
<1>2. /\ DOMAIN packages = 1 .. (n + 1) /\ Len(packages) = n + 1 /\ n \in Nat /\ DOMAIN lines = 1 .. n
      /\ packages[1].name = 0 /\ packages[1].source = None
      /\ \A i \in 1 .. n : /\ packages[i + 1].name = lines[i].name
                           /\ packages[i + 1].version = Version(lines[i])
                           /\ packages[i + 1].source = "registry"
  <2> DEFINE root == << [name |-> 0, version |-> Managed, source |-> None, requires |-> << 1 >>] >>
             rest == [i \in DOMAIN lines |-> [name |-> lines[i].name, version |-> Version(lines[i]),
                             source |-> "registry", requires |-> << 2 >>]]
  <2>1. n \in Nat /\ DOMAIN lines = 1 .. n
    BY DEF IsList
  <2>2. packages = root \o rest
    BY DEF CargoPackages
  <2>3. /\ DOMAIN rest = 1 .. n
        /\ \A i \in 1 .. n : /\ rest[i].name = lines[i].name /\ rest[i].version = Version(lines[i])
                             /\ rest[i].source = "registry"
    BY <2>1
  <2>4. DOMAIN root = 1 .. 1 /\ root[1].name = 0 /\ root[1].source = None
    OBVIOUS
  <2> HIDE DEF rest, root, packages, n
  <2>5. PICK S : root \in Seq(S) /\ rest \in Seq(S)
    <3> DEFINE S == {root[i] : i \in DOMAIN root} \union {rest[i] : i \in DOMAIN rest}
    <3>1. rest = [i \in DOMAIN rest |-> rest[i]] /\ root = [i \in DOMAIN root |-> root[i]]
      BY DEF rest, root
    <3>2. {root[i] : i \in DOMAIN root} \subseteq S /\ {rest[i] : i \in DOMAIN rest} \subseteq S
      OBVIOUS
    <3> HIDE DEF S
    <3>3. root \in Seq(S)
      BY <2>4, <3>1, <3>2, ListIsSeq
    <3>4. rest \in Seq(S)
      BY <2>1, <2>3, <3>1, <3>2, ListIsSeq
    <3> QED
      BY <3>3, <3>4
  <2>6. Len(root) = 1 /\ Len(rest) = n
    BY <2>1, <2>3, <2>4, <2>5
  <2>7. /\ Len(packages) = 1 + n /\ DOMAIN packages = 1 .. (1 + n)
        /\ \A i \in 1 .. 1 : packages[i] = root[i]
        /\ \A i \in 1 .. n : packages[1 + i] = rest[i]
    <3>1. LET p == root \o rest
          IN  /\ Len(p) = Len(root) + Len(rest) /\ DOMAIN p = 1 .. (Len(root) + Len(rest))
              /\ \A i \in 1 .. Len(root) : p[i] = root[i]
              /\ \A i \in 1 .. Len(rest) : p[Len(root) + i] = rest[i]
      BY <2>5, JoinedIs
    <3> QED
      BY <2>2, <2>6, <3>1
  <2>8. packages[1] = root[1] /\ \A i \in 1 .. n : packages[i + 1] = rest[i]
    BY <2>1, <2>7
  <2> QED
    BY <2>1, <2>3, <2>4, <2>7, <2>8
<1>3. IsList(packages)
  BY <1>2 DEF IsList
<1> HIDE DEF packages, n
<1>4. "registry" # None
  BY IntakeAssumption
<1>5. local = {0}
  <2>1. \A j \in 1 .. (n + 1) : packages[j].source = None => j = 1
    <3> SUFFICES ASSUME NEW j \in 1 .. (n + 1), j # 1 PROVE packages[j].source # None
      OBVIOUS
    <3>1. j - 1 \in 1 .. n /\ (j - 1) + 1 = j
      BY <1>2
    <3> QED
      BY <1>2, <1>4, <3>1
  <2>2. 1 \in 1 .. (n + 1)
    BY <1>2
  <2> QED
    BY <1>2, <2>1, <2>2
<1> HIDE DEF local, direct
<1>6. some = 2 .. (n + 1)
  <2>1. \A i \in 1 .. n : lines[i].name # 0
    BY <1>2, LinesAre
  <2>2. \A j \in 1 .. (n + 1) : packages[j].name \notin local <=> j # 1
    <3> TAKE j \in 1 .. (n + 1)
    <3>1. CASE j = 1
      BY <1>2, <1>5, <3>1
    <3>2. CASE j # 1
      <4>1. j - 1 \in 1 .. n /\ (j - 1) + 1 = j
        BY <1>2, <3>2
      <4>2. packages[j].name = lines[j - 1].name /\ lines[j - 1].name # 0
        BY <1>2, <2>1, <4>1
      <4> QED
        BY <1>5, <3>2, <4>2
    <3> QED
      BY <3>1, <3>2
  <2>3. \A j : j \in 2 .. (n + 1) <=> j \in 1 .. (n + 1) /\ j # 1
    BY <1>2
  <2> QED
    BY <1>2, <2>2, <2>3
<1>7. \A i \in 1 .. n : StandsFor(Shown(packages[i + 1]), lines[i])
  BY <1>2, ReachabilitiesAre DEF StandsFor, Dependency
<1> HIDE DEF Shown
<1>8. \A k \in DOMAIN deps : deps[k] = Shown(foreign[k])
  OBVIOUS
<1>9. DOMAIN deps = DOMAIN foreign
  OBVIOUS
<1> HIDE DEF some
<1>10. IsReading("cargo", deps, lines)
  <2>1. some \in SUBSET DOMAIN packages
    BY <1>2, <1>6
  <2>2. of \in [some -> DOMAIN lines] /\ \A j \in some : of[j] = j - 1
    BY <1>2, <1>6
  <2> HIDE DEF of
  <2>3. \A i \in DOMAIN lines : \E j \in some : of[j] = i
    <3> TAKE i \in DOMAIN lines
    <3>1. i + 1 \in some /\ (i + 1) - 1 = i
      BY <1>2, <1>6
    <3> QED
      BY <2>2, <3>1
  <2>4. ASSUME NEW k \in DOMAIN deps, NEW j \in some, foreign[k] = packages[j]
        PROVE  StandsFor(deps[k], lines[of[j]])
    <3>1. j - 1 \in 1 .. n /\ (j - 1) + 1 = j
      BY <1>2, <1>6
    <3> QED
      BY <1>7, <1>8, <2>2, <2>4, <3>1
  <2> HIDE DEF deps
  <2>5. DOMAIN deps = DOMAIN Kept(packages, some)
    BY <1>9
  <2>6. \A k \in DOMAIN deps, j \in some :
           Kept(packages, some)[k] = packages[j] => StandsFor(deps[k], lines[of[j]])
    BY <2>4
  <2> HIDE DEF foreign
  <2> QED
    BY <1>3, <2>1, <2>2, <2>3, <2>5, <2>6, GatheredIsRead
<1> HIDE DEF deps
<1> QED
  BY <1>1, <1>10, ReadingIsKept DEF packages

\* A release is its three numbers.
LEMMA PlainlyIs ==
  ASSUME NEW v, Plainly(v)
  PROVE  /\ v \in RawVersion /\ v.nums \in Seq(Nat) /\ Len(v.nums) = 3 /\ DOMAIN v.nums = 1 .. 3
         /\ Raw(v.nums, << >>) = v
<1>1. v \in RawVersion /\ v \in Plain /\ v.tail = << >>
  BY PlainIsRaw DEF Plainly
<1>2. v.nums \in Seq(Nat) /\ Len(v.nums) = 3 /\ v.ok = TRUE
      /\ v.v = FALSE /\ v.incompatible = FALSE
  BY <1>1 DEF Plain, RawVersion
<1>3. v = [ok |-> v.ok, v |-> v.v, incompatible |-> v.incompatible, nums |-> v.nums, tail |-> v.tail]
  BY <1>1 DEF RawVersion
<1> QED
  BY <1>1, <1>2, <1>3 DEF Raw

\* A pin is scanned with the version it names.
LEMMA PinnedIs ==
  ASSUME NEW v, Plainly(v)
  PROVE  LET floor == resolve_pypi_floor(<< [op |-> "==", parts |-> v.nums, star |-> FALSE] >>)
         IN  floor = [version |-> v, exact |-> TRUE] /\ floor # None
<1> DEFINE c == [op |-> "==", parts |-> v.nums, star |-> FALSE]
           clauses == << c >>
           Pins(d) == d.op \in {"==", "==="} /\ ~ d.star
           some == {i \in DOMAIN clauses : Pins(clauses[i])}
           pins == Kept(clauses, some)
<1>1. IsList(clauses) /\ DOMAIN clauses = {1}
  BY DEF IsList
<1>2. some = {1}
  BY <1>1
<1>3. pins = << c >>
  <2>1. 1 \in DOMAIN clauses /\ clauses[1] = c
    BY <1>1
  <2> HIDE DEF clauses, c, some
  <2> QED
    BY <1>1, <1>2, <2>1, KeptOne
<1>4. resolve_pypi_floor(clauses) = [version |-> Raw(c.parts, << >>), exact |-> TRUE]
  <2>1. pins # << >> /\ pins[1] = c
    BY <1>3
  <2> HIDE DEF c
  <2>2. pins = Kept(clauses, {i \in DOMAIN clauses : clauses[i].op \in {"==", "==="} /\ ~ clauses[i].star})
    OBVIOUS
  <2> HIDE DEF pins, some, clauses
  <2> QED
    BY <2>1, <2>2 DEF resolve_pypi_floor
<1>5. Raw(c.parts, << >>) = v /\ v \in RawVersion
  BY PlainlyIs
<1>6. [version |-> v, exact |-> TRUE] \in Floor
  BY <1>5 DEF Floor
<1> QED
  BY <1>4, <1>5, <1>6, IntakeAssumption

\* requirements.txt: what comes from a URL is left out.
LEMMA WantedAreRead ==
  ASSUME NEW lines, IsList(lines), \A i \in DOMAIN lines : IsLine(lines[i])
  PROVE  Reads("pypi", RequirementsTxt(Wanted(lines)), lines)
<1> DEFINE n == Len(lines)
           wanted == Wanted(lines)
           names == [i \in DOMAIN wanted |-> wanted[i].name]
           floors == [i \in DOMAIN wanted |-> IF wanted[i].url THEN None
                                              ELSE resolve_pypi_floor(wanted[i].clauses)]
           source == [i \in DOMAIN names |->
                        IF floors[i] = None THEN None
                        ELSE Dependency(names[i], floors[i].version, "runtime_direct",
                                        floors[i].exact, 0, << >>)]
           some == {i \in DOMAIN names : floors[i] # None}
           deps == Kept(source, some)
           of == [j \in some |-> j]
<1>1. RequirementsTxt(wanted) = Dedupe(deps)
  BY DEF RequirementsTxt, Declared
<1>2. /\ n \in Nat /\ DOMAIN lines = 1 .. n /\ DOMAIN wanted = 1 .. (n + 1)
      /\ wanted[n + 1].url
      /\ \A i \in 1 .. n : /\ wanted[i].name = lines[i].name /\ ~ wanted[i].url
                           /\ wanted[i].clauses = << [op |-> "==", parts |-> Version(lines[i]).nums,
                                                      star |-> FALSE] >>
  <2> DEFINE head == [i \in DOMAIN lines |->
                        [name |-> lines[i].name, url |-> FALSE,
                         clauses |-> << [op |-> "==", parts |-> Version(lines[i]).nums, star |-> FALSE] >>]]
             url == << [name |-> 0, url |-> TRUE, clauses |-> << >>] >>
  <2>1. n \in Nat /\ DOMAIN lines = 1 .. n
    BY DEF IsList
  <2>2. wanted = head \o url
    BY DEF Wanted
  <2>3. /\ DOMAIN head = 1 .. n
        /\ \A i \in 1 .. n : /\ head[i].name = lines[i].name /\ ~ head[i].url
                             /\ head[i].clauses = << [op |-> "==", parts |-> Version(lines[i]).nums,
                                                      star |-> FALSE] >>
    BY <2>1
  <2>4. DOMAIN url = 1 .. 1 /\ url[1].url
    OBVIOUS
  <2>5. PICK S : url \in Seq(S) /\ head \in Seq(S)
    <3> DEFINE S == {url[i] : i \in DOMAIN url} \union {head[i] : i \in DOMAIN head}
    <3>1. head = [i \in DOMAIN head |-> head[i]] /\ url = [i \in DOMAIN url |-> url[i]]
      BY DEF head, url
    <3>2. {url[i] : i \in DOMAIN url} \subseteq S /\ {head[i] : i \in DOMAIN head} \subseteq S
      OBVIOUS
    <3> HIDE DEF S, head, url
    <3>3. url \in Seq(S)
      BY <2>4, <3>1, <3>2, ListIsSeq
    <3>4. head \in Seq(S)
      BY <2>1, <2>3, <3>1, <3>2, ListIsSeq
    <3> QED
      BY <3>3, <3>4
  <2> HIDE DEF head, url, wanted, n
  <2>6. Len(url) = 1 /\ Len(head) = n
    BY <2>1, <2>3, <2>4, <2>5
  <2>7. /\ DOMAIN wanted = 1 .. (n + 1)
        /\ \A i \in 1 .. n : wanted[i] = head[i]
        /\ \A i \in 1 .. 1 : wanted[n + i] = url[i]
    <3>1. LET p == head \o url
          IN  /\ DOMAIN p = 1 .. (Len(head) + Len(url))
              /\ \A i \in 1 .. Len(head) : p[i] = head[i]
              /\ \A i \in 1 .. Len(url) : p[Len(head) + i] = url[i]
      BY <2>5, JoinedIs
    <3> QED
      BY <2>2, <2>6, <3>1
  <2>8. wanted[n + 1] = url[1]
    BY <2>1, <2>7
  <2> QED
    BY <2>1, <2>3, <2>4, <2>7, <2>8
<1> HIDE DEF wanted, n
<1>3. /\ DOMAIN source = 1 .. (n + 1) /\ DOMAIN names = 1 .. (n + 1)
      /\ \A i \in 1 .. (n + 1) : names[i] = wanted[i].name
  BY <1>2
<1>4. IsList(source)
  <2>1. Len(source) = n + 1
    BY <1>2, <1>3
  <2> HIDE DEF source
  <2> QED
    BY <1>2, <1>3, <2>1 DEF IsList
<1>5. floors[n + 1] = None
  BY <1>2
<1>6. \A i \in 1 .. n : floors[i] = [version |-> Version(lines[i]), exact |-> TRUE] /\ floors[i] # None
  <2> TAKE i \in 1 .. n
  <2>1. i \in 1 .. (n + 1)
    BY <1>2
  <2>2. Plainly(Version(lines[i]))
    BY <1>2, LinesAre
  <2>3. floors[i] = resolve_pypi_floor(<< [op |-> "==", parts |-> Version(lines[i]).nums, star |-> FALSE] >>)
    BY <1>2, <2>1
  <2> HIDE DEF floors
  <2> QED
    BY <2>2, <2>3, PinnedIs
<1> HIDE DEF floors
<1>7. some = 1 .. n
  <2>1. \A i : i \in 1 .. (n + 1) <=> i \in 1 .. n \/ i = n + 1
    BY <1>2
  <2> QED
    BY <1>3, <1>5, <1>6, <2>1
<1>8. \A i \in 1 .. n : StandsFor(source[i], lines[i])
  <2> TAKE i \in 1 .. n
  <2>1. i \in 1 .. (n + 1)
    BY <1>2
  <2>2. source[i] = Dependency(lines[i].name, Version(lines[i]), "runtime_direct", TRUE, 0, << >>)
    <3>1. i \in DOMAIN names /\ names[i] = lines[i].name
      BY <1>2, <1>3, <2>1
    <3>2. floors[i] # None /\ floors[i].version = Version(lines[i]) /\ floors[i].exact = TRUE
      <4>1. floors[i] # None /\ floors[i] = [version |-> Version(lines[i]), exact |-> TRUE]
        BY <1>6
      <4> QED
        BY <4>1
    <3>3. source[i] = IF floors[i] = None THEN None
                      ELSE Dependency(names[i], floors[i].version, "runtime_direct",
                                      floors[i].exact, 0, << >>)
      BY <3>1
    <3> HIDE DEF source, names
    <3> QED
      BY <3>1, <3>2, <3>3
  <2> HIDE DEF source
  <2> QED
    BY <2>2, ReachabilitiesAre DEF StandsFor, Dependency
<1> HIDE DEF some, source
<1>10. IsReading("pypi", deps, lines)
  <2>1. some \in SUBSET DOMAIN source
    BY <1>2, <1>3, <1>7
  <2>2. of \in [some -> DOMAIN lines] /\ \A j \in some : of[j] = j
    BY <1>2, <1>7
  <2> HIDE DEF of
  <2>3. \A i \in DOMAIN lines : \E j \in some : of[j] = i
    BY <1>2, <1>7, <2>2
  <2>4. \A k \in DOMAIN deps, j \in some :
           Kept(source, some)[k] = source[j] => StandsFor(deps[k], lines[of[j]])
    BY <1>7, <1>8, <2>2
  <2>5. DOMAIN deps = DOMAIN Kept(source, some)
    OBVIOUS
  <2> HIDE DEF deps
  <2> QED
    BY <1>4, <2>1, <2>2, <2>3, <2>4, <2>5, GatheredIsRead
<1> HIDE DEF deps
<1> QED
  BY <1>1, <1>10, ReadingIsKept DEF wanted

ExactRange(v) == << << [op |-> "=", parts |-> v.nums, pre |-> << >>] >> >>

\* A range that is one version is scanned with it.
LEMMA ExactIs ==
  ASSUME NEW v, Plainly(v)
  PROVE  /\ resolve_npm_floor(ExactRange(v)) = [version |-> v, exact |-> TRUE]
         /\ [version |-> v, exact |-> TRUE] # None
<1> DEFINE c == [op |-> "=", parts |-> v.nums, pre |-> << >>]
           x == [version |-> v, exact |-> TRUE]
           spec == ExactRange(v)
           branches == [i \in DOMAIN spec |-> ResolveBranch(spec[i])]
           some == {i \in DOMAIN branches : branches[i] # None}
<1>1. /\ v \in RawVersion /\ v.nums \in Seq(Nat) /\ Len(v.nums) = 3 /\ DOMAIN v.nums = 1 .. 3
      /\ Raw(v.nums, << >>) = v /\ v \in Plain
  BY PlainlyIs DEF Plainly
<1>2. c.op = "=" /\ c.parts = v.nums /\ c.pre = << >> /\ IsComparator(c)
  <2>1. c.op = "=" /\ c.parts = v.nums /\ c.pre = << >>
    OBVIOUS
  <2> HIDE DEF c
  <2>2. Len(v.nums) <= 3
    BY <1>1
  <2> QED
    BY <1>1, <2>1, <2>2 DEF IsComparator
<1>3. spec = << << c >> >>
  BY DEF ExactRange
<1> HIDE DEF c, spec
<1>4. ZeroFill(c) = v
  <2>1. PICK nums \in Seq(Nat) : /\ ZeroFill(c) = Raw(nums, << >>)
                                 /\ Len(c.parts) = 3 => nums = c.parts
    BY <1>2, ZeroFillIs
  <2> QED
    BY <1>1, <1>2, <2>1
<1>5. ResolveToken(c) = x
  <2>1. c.parts # << >>
    BY <1>1, <1>2
  <2>2. (c.op \in {"=", ""} /\ Len(c.parts) >= 3) = TRUE
    <3>1. c.op \in {"=", ""}
      BY <1>2
    <3>2. Len(c.parts) >= 3
      <4>1. Len(c.parts) = Len(v.nums)
        BY <1>2
      <4>2. Len(v.nums) >= 3
        BY <1>1
      <4> QED
        BY <4>1, <4>2
    <3> QED
      BY <3>1, <3>2
  <2> QED
    BY <1>2, <1>4, <2>1, <2>2 DEF ResolveToken
<1>6. x \in Floor /\ x # None
  <2>1. x \in Floor
    BY <1>1 DEF Floor
  <2> QED
    BY <2>1, IntakeAssumption
<1>7. ResolveBranch(<< c >>) = x
  <2>1. Len(<< c >>) = 1 /\ << c >>[1] = c
    OBVIOUS
  <2> HIDE DEF x
  <2> QED
    BY <1>5, <2>1 DEF ResolveBranch
<1>8. DOMAIN branches = {1} /\ branches[1] = x /\ IsList(branches)
  <2>1. DOMAIN spec = 1 .. 1 /\ spec[1] = << c >>
    BY <1>3
  <2>2. DOMAIN branches = 1 .. 1 /\ branches[1] = x
    BY <1>7, <2>1
  <2>3. Len(branches) = 1
    BY <2>1
  <2> HIDE DEF branches
  <2> QED
    BY <2>2, <2>3 DEF IsList
<1>9. FloorsOf(spec) = << x >>
  <2>1. FloorsOf(spec) = Kept(branches, some)
    BY DEF FloorsOf, Floors
  <2> HIDE DEF branches, x
  <2>2. some = {1}
    BY <1>6, <1>8
  <2> HIDE DEF some
  <2> QED
    BY <1>8, <2>1, <2>2, KeptOne
<1>10. x \in [version : Plain, exact : BOOLEAN] /\ x.exact = TRUE
  BY <1>1
<1>11. [x EXCEPT !.exact = @ /\ TRUE] = x
  OBVIOUS
<1> HIDE DEF x
<1>12. PICK lowest \in {x} : resolve_npm_floor(spec) = [lowest EXCEPT !.exact = @ /\ Len(FloorsOf(spec)) = 1]
  <2>1. /\ IsList(FloorsOf(spec)) /\ Len(FloorsOf(spec)) # 0 /\ FloorsOf(spec) \in Seq({x})
        /\ {x} = {FloorsOf(spec)[i] : i \in DOMAIN FloorsOf(spec)}
    BY <1>9 DEF IsList
  <2>2. {x} \subseteq [version : Plain, exact : BOOLEAN]
    BY <1>10
  <2> QED
    BY <2>1, <2>2, NpmFloorIs
<1>13. (Len(FloorsOf(spec)) = 1) = TRUE
  BY <1>9
<1> QED
  BY <1>6, <1>11, <1>12, <1>13 DEF spec, x

EntriesOf(lines, test) ==
  LET chosen == Kept(lines, {i \in DOMAIN lines : OnlyTests(lines[i]) = test})
  IN  [i \in DOMAIN chosen |-> [name |-> chosen[i].name, spec |-> ExactRange(Version(chosen[i]))]]

SectionOf(entries, reachability) ==
  Declared([i \in DOMAIN entries |-> entries[i].name],
           [i \in DOMAIN entries |-> resolve_npm_floor(entries[i].spec)], reachability)

\* The entries of a section are its lines.
SectionReads(d, lines, test) ==
  /\ IsList(d) /\ d = [i \in DOMAIN d |-> d[i]]
  /\ \A k \in DOMAIN d : \E i \in DOMAIN lines : StandsFor(d[k], lines[i])
  /\ \A i \in DOMAIN lines : OnlyTests(lines[i]) = test => \E k \in DOMAIN d : StandsFor(d[k], lines[i])

\* A section of a package.json.
LEMMA SectionIsRead ==
  ASSUME NEW lines, IsList(lines), \A i \in DOMAIN lines : IsLine(lines[i]),
         NEW test \in BOOLEAN, NEW reachability \in Reachabilities, test \/ reachability # "dev_only"
  PROVE  SectionReads(SectionOf(EntriesOf(lines, test), reachability), lines, test)
<1> DEFINE these == {i \in DOMAIN lines : OnlyTests(lines[i]) = test}
           chosen == Kept(lines, these)
           entries == EntriesOf(lines, test)
           names == [i \in DOMAIN entries |-> entries[i].name]
           floors == [i \in DOMAIN entries |-> resolve_npm_floor(entries[i].spec)]
           source == [i \in DOMAIN names |->
                        IF floors[i] = None THEN None
                        ELSE Dependency(names[i], floors[i].version, reachability, floors[i].exact, 0, << >>)]
           some == {i \in DOMAIN names : floors[i] # None}
           d == Kept(source, some)
<1>1. /\ IsList(chosen) /\ \A i \in these : \E k \in DOMAIN chosen : chosen[k] = lines[i]
      /\ \A k \in DOMAIN chosen : \E i \in these : chosen[k] = lines[i]
  <2>1. these \in SUBSET DOMAIN lines
    OBVIOUS
  <2> HIDE DEF these
  <2> QED
    BY <2>1, KeptHolds
<1>2. SectionOf(entries, reachability) = d
  BY DEF SectionOf, Declared
<1>3. /\ DOMAIN entries = DOMAIN chosen
      /\ \A k \in DOMAIN chosen : /\ entries[k].name = chosen[k].name
                                  /\ entries[k].spec = ExactRange(Version(chosen[k]))
  BY DEF EntriesOf
<1>4. \A k \in DOMAIN chosen : \E i \in DOMAIN lines : chosen[k] = lines[i] /\ OnlyTests(lines[i]) = test
  BY <1>1
<1>5. \A i \in DOMAIN lines : OnlyTests(lines[i]) = test => \E k \in DOMAIN chosen : chosen[k] = lines[i]
  BY <1>1
<1> HIDE DEF entries, chosen, these
<1>6. \A k \in DOMAIN chosen : Plainly(Version(chosen[k]))
  BY <1>4, LinesAre
<1>7. \A k \in DOMAIN chosen : /\ floors[k] = [version |-> Version(chosen[k]), exact |-> TRUE]
                               /\ floors[k] # None
  <2> TAKE k \in DOMAIN chosen
  <2>1. floors[k] = resolve_npm_floor(ExactRange(Version(chosen[k])))
    BY <1>3
  <2> HIDE DEF floors
  <2> QED
    BY <1>6, <2>1, ExactIs
<1>8. DOMAIN names = DOMAIN chosen /\ \A k \in DOMAIN chosen : names[k] = chosen[k].name
  BY <1>3
<1> HIDE DEF names, floors
<1>9. some = DOMAIN chosen
  BY <1>7, <1>8
<1>10. DOMAIN source = DOMAIN chosen /\ IsList(source)
  <2>1. source = [i \in DOMAIN chosen |-> source[i]]
    BY <1>8
  <2> HIDE DEF source
  <2> QED
    BY <1>1, <2>1, MadeIsList
<1>11. \A k \in DOMAIN chosen : source[k] =
          Dependency(chosen[k].name, Version(chosen[k]), reachability, TRUE, 0, << >>)
  <2> TAKE k \in DOMAIN chosen
  <2>1. floors[k] # None /\ floors[k] = [version |-> Version(chosen[k]), exact |-> TRUE]
    BY <1>7
  <2>2. floors[k].version = Version(chosen[k]) /\ floors[k].exact = TRUE
    BY <2>1
  <2>3. source[k] = Dependency(names[k], floors[k].version, reachability, floors[k].exact, 0, << >>)
    BY <1>8, <2>1
  <2> HIDE DEF source
  <2> QED
    BY <1>8, <2>2, <2>3
<1> HIDE DEF source, some
<1>12. \A k \in DOMAIN chosen, i \in DOMAIN lines :
          chosen[k] = lines[i] /\ OnlyTests(lines[i]) = test => StandsFor(source[k], lines[i])
  <2> SUFFICES ASSUME NEW k \in DOMAIN chosen, NEW i \in DOMAIN lines,
                      chosen[k] = lines[i], OnlyTests(lines[i]) = test
               PROVE  StandsFor(source[k], lines[i])
    OBVIOUS
  <2>1. source[k] = Dependency(lines[i].name, Version(lines[i]), reachability, TRUE, 0, << >>)
    BY <1>11
  <2>2. OnlyTests(lines[i]) \/ reachability # "dev_only"
    OBVIOUS
  <2> QED
    BY <2>1, <2>2 DEF StandsFor, Dependency
<1>13. /\ IsList(d)
       /\ \A j \in DOMAIN chosen : \E k \in DOMAIN d : d[k] = source[j]
       /\ \A k \in DOMAIN d : \E j \in DOMAIN chosen : d[k] = source[j]
  BY <1>9, <1>10, KeptHolds
<1>14. d = [i \in DOMAIN d |-> d[i]]
  <2>1. PICK order : d = [k \in 1 .. Cardinality(some) |-> source[order[k]]]
    <3>1. some \in SUBSET DOMAIN source
      BY <1>9, <1>10
    <3>2. \E order : /\ IsOrder(order, some)
                     /\ \A k, l \in 1 .. Cardinality(some) : k < l => order[k] < order[l]
                     /\ Kept(source, some) = [k \in 1 .. Cardinality(some) |-> source[order[k]]]
      BY <1>10, <3>1, KeptIs
    <3> QED
      BY <3>2
  <2> HIDE DEF d
  <2> QED
    BY <2>1
<1> HIDE DEF d
<1>15. \A k \in DOMAIN d : \E i \in DOMAIN lines : StandsFor(d[k], lines[i])
  BY <1>4, <1>12, <1>13
<1>16. \A i \in DOMAIN lines : OnlyTests(lines[i]) = test => \E k \in DOMAIN d : StandsFor(d[k], lines[i])
  BY <1>5, <1>12, <1>13
<1>17. SectionReads(d, lines, test)
  BY <1>13, <1>14, <1>15, <1>16 DEF SectionReads
<1> QED
  BY <1>2, <1>17 DEF entries

\* An empty section.
LEMMA NothingIsDeclared ==
  ASSUME NEW reachability PROVE SectionOf(<< >>, reachability) = << >>
<1> DEFINE entries == << >>
           names == [i \in DOMAIN entries |-> entries[i].name]
           floors == [i \in DOMAIN entries |-> resolve_npm_floor(entries[i].spec)]
           source == [i \in DOMAIN names |->
                        IF floors[i] = None THEN None
                        ELSE Dependency(names[i], floors[i].version, reachability, floors[i].exact, 0, << >>)]
           some == {i \in DOMAIN names : floors[i] # None}
<1>1. DOMAIN entries = {} /\ DOMAIN names = {} /\ DOMAIN source = {}
  OBVIOUS
<1>2. some = {}
  BY <1>1
<1>3. IsList(source)
  <2>1. source = << >>
    BY <1>1
  <2> HIDE DEF source
  <2> QED
    BY <2>1 DEF IsList
<1>4. SectionOf(<< >>, reachability) = Kept(source, some)
  BY DEF SectionOf, Declared
<1> HIDE DEF source, some
<1> QED
  BY <1>2, <1>3, <1>4, KeptHolds

\* package.json.
LEMMA SectionsAreRead ==
  ASSUME NEW lines, IsList(lines), \A i \in DOMAIN lines : IsLine(lines[i])
  PROVE  Reads("npm", PackageJson(Sections(lines)), lines)
<1> DEFINE a == SectionOf(EntriesOf(lines, FALSE), "runtime_direct")
           b == SectionOf(EntriesOf(lines, TRUE), "dev_only")
           e == SectionOf(<< >>, "runtime_direct")
           deps == a \o e \o e \o b
           S == {a[i] : i \in DOMAIN a} \union {b[i] : i \in DOMAIN b}
<1>1. PackageJson(Sections(lines)) = Dedupe(deps)
  <2>1. /\ Sections(lines).dependencies = EntriesOf(lines, FALSE)
        /\ Sections(lines).devDependencies = EntriesOf(lines, TRUE)
        /\ Sections(lines).optionalDependencies = << >>
        /\ Sections(lines).peerDependencies = << >>
    BY DEF Sections, EntriesOf, ExactRange
  <2> DEFINE all == Sections(lines)
  <2>2. PackageJson(all) = Dedupe(SectionOf(all.dependencies, "runtime_direct")
                                  \o SectionOf(all.optionalDependencies, "runtime_direct")
                                  \o SectionOf(all.peerDependencies, "runtime_direct")
                                  \o SectionOf(all.devDependencies, "dev_only"))
    BY DEF PackageJson, SectionOf
  <2> HIDE DEF all
  <2> QED
    BY <2>1, <2>2 DEF all
<1>2. SectionReads(a, lines, FALSE) /\ SectionReads(b, lines, TRUE)
  BY SectionIsRead, ReachabilitiesAre
<1>3. e = << >>
  BY NothingIsDeclared
<1> HIDE DEF a, b, e
<1>4. a \in Seq(S) /\ b \in Seq(S)
  <2>1. {a[i] : i \in DOMAIN a} \subseteq S /\ {b[i] : i \in DOMAIN b} \subseteq S
    OBVIOUS
  <2>2. /\ Len(a) \in Nat /\ DOMAIN a = 1 .. Len(a) /\ a = [i \in DOMAIN a |-> a[i]]
        /\ Len(b) \in Nat /\ DOMAIN b = 1 .. Len(b) /\ b = [i \in DOMAIN b |-> b[i]]
    BY <1>2 DEF SectionReads, IsList
  <2> HIDE DEF S
  <2>3. a \in Seq(S)
    BY <2>1, <2>2, ListIsSeq
  <2>4. b \in Seq(S)
    BY <2>1, <2>2, ListIsSeq
  <2> QED
    BY <2>3, <2>4
<1> HIDE DEF S
<1>5. deps = a \o b
  <2>1. a \o << >> = a
    BY <1>4
  <2> QED
    BY <1>3, <2>1
<1> HIDE DEF deps
<1>6. /\ DOMAIN deps = 1 .. (Len(a) + Len(b)) /\ Len(a) \in Nat /\ Len(b) \in Nat
      /\ \A i \in 1 .. Len(a) : deps[i] = a[i]
      /\ \A i \in 1 .. Len(b) : deps[Len(a) + i] = b[i]
  BY <1>4, <1>5, JoinedIs
<1> DEFINE m == Len(a)
           n == Len(b)
<1>7. DOMAIN a = 1 .. m /\ DOMAIN b = 1 .. n
  BY <1>2 DEF SectionReads, IsList
<1>8. /\ DOMAIN deps = 1 .. (m + n) /\ m \in Nat /\ n \in Nat
      /\ \A i \in 1 .. m : deps[i] = a[i]
      /\ \A i \in 1 .. n : deps[m + i] = b[i]
  BY <1>6
<1>13. \A i \in 1 .. n : \E k \in DOMAIN deps : k = m + i /\ deps[k] = b[i]
  <2> TAKE i \in 1 .. n
  <2>1. deps[m + i] = b[i]
    BY <1>6
  <2>2. m + i \in DOMAIN deps
    BY <1>8
  <2> QED
    BY <2>1, <2>2
<1> HIDE DEF m, n
<1>9. ASSUME NEW k \in DOMAIN deps
      PROVE  \E i \in DOMAIN lines : StandsFor(deps[k], lines[i])
  <2>1. CASE k \in 1 .. m
    BY <1>2, <1>7, <1>8, <2>1 DEF SectionReads
  <2>2. CASE k \notin 1 .. m
    <3>1. k - m \in 1 .. n /\ m + (k - m) = k
      BY <1>8, <2>2
    <3>2. deps[k] = b[k - m]
      <4> DEFINE i == k - m
      <4>1. i \in 1 .. n /\ m + i = k
        BY <3>1
      <4> HIDE DEF i
      <4>3. deps[k] = b[i]
        BY <1>13, <4>1
      <4> QED
        BY <4>3 DEF i
    <3> QED
      BY <1>2, <1>7, <3>1, <3>2 DEF SectionReads
  <2> QED
    BY <2>1, <2>2
<1>10. ASSUME NEW i \in DOMAIN lines
       PROVE  \E k \in DOMAIN deps : StandsFor(deps[k], lines[i])
  <2>1. OnlyTests(lines[i]) = TRUE \/ OnlyTests(lines[i]) = FALSE
    BY DEF OnlyTests
  <2>2. CASE OnlyTests(lines[i]) = FALSE
    <3>1. PICK k \in DOMAIN a : StandsFor(a[k], lines[i])
      BY <1>2, <2>2 DEF SectionReads
    <3>2. k \in 1 .. (m + n) /\ deps[k] = a[k]
      BY <1>7, <1>8
    <3> QED
      BY <1>8, <3>1, <3>2
  <2>3. CASE OnlyTests(lines[i]) = TRUE
    <3>1. PICK k \in DOMAIN b : StandsFor(b[k], lines[i])
      BY <1>2, <2>3 DEF SectionReads
    <3>2. \E l \in DOMAIN deps : deps[l] = b[k]
      BY <1>7, <1>13
    <3> QED
      BY <3>1, <3>2
  <2> QED
    BY <2>1, <2>2, <2>3
<1>11. DOMAIN deps \subseteq Nat
  BY <1>8
<1>12. IsReading("npm", deps, lines)
  BY <1>9, <1>10, <1>11 DEF IsReading, StandsFor
<1> QED
  BY <1>1, <1>12, ReadingIsKept

\* Every format reads the lines it is made of, and ships what they ship.
LEMMA LinesAreRead == IntakeAsking => ShippedIsNeverDev
<1> SUFFICES ASSUME IntakeAsking, question.kind = "manifest"
             PROVE  \A format \in DOMAIN Readings(question.lines) :
                       Reads(format, Readings(question.lines)[format], question.lines)
  BY DEF ShippedIsNeverDev
<1> DEFINE lines == question.lines
<1>1. IsList(lines) /\ \A i \in DOMAIN lines : IsLine(lines[i])
  <2>1. lines \in LineLists
    BY DEF IntakeAsking, ManifestQuestions
  <2> QED
    BY <2>1, IntakeAssumption
<1> HIDE DEF lines
<1>2. Readings(lines) =
        [pypi |-> RequirementsTxt(Wanted(lines)),
         gradle |-> GradleLockfile(ExactOf(lines)), sbt |-> SbtLock(ExactOf(lines)),
         pom |-> PomXml(DeclaredOf(lines), ManagedOf(lines)),
         npm |-> PackageJson(Sections(lines)), npm1 |-> PackageLockV1(NodesOf(lines)),
         cargo |-> CargoLock(CargoPackages(lines)),
         go |-> GoMod(RequiresOf(lines), {}, [n \in {} |-> 0])]
  BY DEF Readings, ExactOf, DeclaredOf, ManagedOf, NodesOf, RequiresOf
<1>3. Reads("pypi", RequirementsTxt(Wanted(lines)), lines)
  BY <1>1, WantedAreRead
<1>4. Reads("gradle", GradleLockfile(ExactOf(lines)), lines) /\ Reads("sbt", SbtLock(ExactOf(lines)), lines)
  BY <1>1, ResolvedIsRead
<1>5. Reads("pom", PomXml(DeclaredOf(lines), ManagedOf(lines)), lines)
  BY <1>1, PomIsRead
<1>6. Reads("npm", PackageJson(Sections(lines)), lines)
  BY <1>1, SectionsAreRead
<1>7. Reads("npm1", PackageLockV1(NodesOf(lines)), lines)
  BY <1>1, NodesAreRead
<1>8. Reads("cargo", CargoLock(CargoPackages(lines)), lines)
  BY <1>1, PackagesAreRead
<1>9. Reads("go", GoMod(RequiresOf(lines), {}, [n \in {} |-> 0]), lines)
  BY <1>1, RequiresAreRead
<1>10. \A format \in DOMAIN Readings(lines) : Reads(format, Readings(lines)[format], lines)
  BY <1>2, <1>3, <1>4, <1>5, <1>6, <1>7, <1>8, <1>9
<1> QED
  BY <1>10 DEF lines

\* What was found of a dependency is in exactly one of the two lists, a pipeline
\* sees the worst of it, and every line of a manifest is scanned as what it is,
\* whatever is installed, known and asked (triage_all, severity_counts,
\* _blocking_findings and the parsers of manifests.py).
THEOREM NothingEverIsHidden == []IntakeAsking => []NothingIsHidden
<1>1. IntakeAsking => NothingIsHidden
  BY EveryMatchIs, PipelinesSeeIt, LinesAreRead DEF NothingIsHidden
<1> QED
  BY <1>1, PTL

\* The least of three numbers.
LEMMA LeastOfThree ==
  ASSUME NEW a \in Nat, NEW b \in Nat, NEW c \in Nat
  PROVE  /\ Min({a, b, c}) \in Nat /\ Min({a, b, c}) \in {a, b, c}
         /\ Min({a, b, c}) <= a /\ Min({a, b, c}) <= b /\ Min({a, b, c}) <= c
<1> DEFINE S == {a, b, c}
<1>1. S \subseteq Nat /\ S # {}
  OBVIOUS
<1>2. Min(S) \in S /\ \A n \in S : Min(S) <= n
  BY <1>1, LeastOf
<1> QED
  BY <1>1, <1>2

Pairs(left, right) == (0 .. Len(left)) \X (0 .. Len(right))

\* What Distance says of one pair of prefixes, given the shorter ones.
EditsOf(d, left, right, i, j) ==
  IF i = 0 \/ j = 0 THEN i + j
  ELSE Min({d[<< i - 1, j >>] + 1, d[<< i, j - 1 >>] + 1,
            d[<< i - 1, j - 1 >>] + (IF left[i] = right[j] THEN 0 ELSE 1)})

\* The table of the distances between the prefixes of two names exists.
LEMMA TableExists ==
  ASSUME NEW left, IsList(left), NEW right, IsList(right)
  PROVE  \E f : f = [p \in Pairs(left, right) |-> EditsOf(f, left, right, p[1], p[2])]
<1> DEFINE P == Pairs(left, right)
           Sound(f, k) == \A p \in P : p[1] + p[2] <= k => f[p] = EditsOf(f, left, right, p[1], p[2])
           I == {k \in Nat : \E f : f = [p \in P |-> f[p]] /\ Sound(f, k)}
           m == Len(left)
           n == Len(right)
<1>1. m \in Nat /\ n \in Nat
  BY DEF IsList
<1>2. \A p \in P : p[1] \in Nat /\ p[2] \in Nat /\ p[1] + p[2] <= m + n /\ p = << p[1], p[2] >>
                   /\ p[1] <= m /\ p[2] <= n
  BY <1>1 DEF Pairs
<1>3. \A i, j \in Nat : i <= m /\ j <= n => << i, j >> \in P
  BY <1>1 DEF Pairs
<1> HIDE DEF P, m, n
<1>4. 0 \in I
  <2> DEFINE f == [p \in P |-> p[1] + p[2]]
  <2>1. f = [p \in P |-> f[p]] /\ \A p \in P : f[p] = p[1] + p[2]
    OBVIOUS
  <2> HIDE DEF f
  <2>2. ASSUME NEW p \in P, p[1] + p[2] <= 0
        PROVE  f[p] = EditsOf(f, left, right, p[1], p[2])
    <3>1. p[1] = 0
      BY <1>2, <2>2
    <3> QED
      BY <2>1, <3>1 DEF EditsOf
  <2> QED
    BY <2>1, <2>2
<1>5. ASSUME NEW k \in I PROVE k + 1 \in I
  <2>1. PICK f : f = [p \in P |-> f[p]] /\ Sound(f, k)
    OBVIOUS
  <2> DEFINE g == [p \in P |-> IF p[1] + p[2] <= k THEN f[p] ELSE EditsOf(f, left, right, p[1], p[2])]
  <2>2. /\ g = [p \in P |-> g[p]]
        /\ \A p \in P : g[p] = IF p[1] + p[2] <= k THEN f[p] ELSE EditsOf(f, left, right, p[1], p[2])
    OBVIOUS
  <2> HIDE DEF g
  <2>3. \A i, j \in Nat : i <= m /\ j <= n /\ i + j <= k => g[<< i, j >>] = f[<< i, j >>]
    <3> SUFFICES ASSUME NEW i \in Nat, NEW j \in Nat, i <= m, j <= n, i + j <= k
                 PROVE  g[<< i, j >>] = f[<< i, j >>]
      OBVIOUS
    <3>1. << i, j >> \in P /\ << i, j >>[1] = i /\ << i, j >>[2] = j
      BY <1>3
    <3> QED
      BY <2>2, <3>1
  <2>4. ASSUME NEW p \in P, p[1] + p[2] <= k + 1
        PROVE  g[p] = EditsOf(g, left, right, p[1], p[2])
    <3> DEFINE i == p[1]
               j == p[2]
    <3>1. i \in Nat /\ j \in Nat /\ i <= m /\ j <= n /\ i + j <= k + 1 /\ k \in Nat
      BY <1>2, <2>4
    <3>2. g[p] = EditsOf(f, left, right, i, j)
      BY <2>1, <2>2
    <3> HIDE DEF i, j
    <3>3. EditsOf(g, left, right, i, j) = EditsOf(f, left, right, i, j)
      <4>1. CASE i = 0 \/ j = 0
        BY <4>1 DEF EditsOf
      <4>2. CASE i # 0 /\ j # 0
        <5>1. i - 1 \in Nat /\ j - 1 \in Nat /\ i - 1 <= m /\ j - 1 <= n
              /\ (i - 1) + j <= k /\ i + (j - 1) <= k /\ (i - 1) + (j - 1) <= k
          BY <1>1, <3>1, <4>2
        <5>2. g[<< i - 1, j >>] = f[<< i - 1, j >>]
          BY <2>3, <3>1, <5>1
        <5>3. g[<< i, j - 1 >>] = f[<< i, j - 1 >>]
          BY <2>3, <3>1, <5>1
        <5>4. g[<< i - 1, j - 1 >>] = f[<< i - 1, j - 1 >>]
          BY <2>3, <5>1
        <5> QED
          BY <5>2, <5>3, <5>4 DEF EditsOf
      <4> QED
        BY <4>1, <4>2
    <3> QED
      BY <3>2, <3>3 DEF i, j
  <2>5. k + 1 \in Nat
    OBVIOUS
  <2> QED
    BY <2>2, <2>4, <2>5
<1>6. m + n \in I
  <2>1. I \in SUBSET Nat
    OBVIOUS
  <2> HIDE DEF I
  <2> QED
    BY <1>1, <1>4, <1>5, <2>1, AllNumbers
<1>7. PICK f : f = [p \in P |-> f[p]] /\ Sound(f, m + n)
  BY <1>6
<1>8. \A p \in P : f[p] = EditsOf(f, left, right, p[1], p[2])
  BY <1>2, <1>7
<1>9. f = [p \in P |-> EditsOf(f, left, right, p[1], p[2])]
  BY <1>7, <1>8
<1> QED
  BY <1>9 DEF P

IsTable(d, left, right) ==
  \A i \in 0 .. Len(left), j \in 0 .. Len(right) :
     d[<< i, j >>] \in Nat /\ d[<< i, j >>] = EditsOf(d, left, right, i, j)

\* Distance is read from that table.
LEMMA DistanceIs ==
  ASSUME NEW left, IsList(left), NEW right, IsList(right)
  PROVE  \E d : IsTable(d, left, right) /\ Distance(left, right) = d[<< Len(left), Len(right) >>]
<1> DEFINE P == Pairs(left, right)
           m == Len(left)
           n == Len(right)
           Table(f) == f = [p \in P |-> EditsOf(f, left, right, p[1], p[2])]
           d == CHOOSE f : Table(f)
           I == {k \in Nat : \A i \in 0 .. m, j \in 0 .. n : i + j <= k => d[<< i, j >>] \in Nat}
<1>1. Distance(left, right) = d[<< m, n >>]
  BY DEF Distance, Pairs, EditsOf
<1>2. Table(d)
  <2>1. \E f : Table(f)
    BY TableExists
  <2> HIDE DEF Table
  <2> QED BY <2>1
<1>3. m \in Nat /\ n \in Nat
  BY DEF IsList
<1> HIDE DEF d
<1>4. \A i \in 0 .. m, j \in 0 .. n : d[<< i, j >>] = EditsOf(d, left, right, i, j)
  <2>1. \A p \in P : d[p] = EditsOf(d, left, right, p[1], p[2])
    BY <1>2
  <2> SUFFICES ASSUME NEW i \in 0 .. m, NEW j \in 0 .. n
               PROVE  d[<< i, j >>] = EditsOf(d, left, right, i, j)
    OBVIOUS
  <2>2. << i, j >> \in P /\ << i, j >>[1] = i /\ << i, j >>[2] = j
    BY DEF Pairs
  <2> HIDE DEF P
  <2> QED
    BY <2>1, <2>2
<1> HIDE DEF P, Table, m, n
<1>5. 0 \in I
  <2> SUFFICES ASSUME NEW i \in 0 .. m, NEW j \in 0 .. n, i + j <= 0 PROVE d[<< i, j >>] \in Nat
    OBVIOUS
  <2>1. i = 0 /\ j = 0
    BY <1>3
  <2> QED
    <3>1. d[<< i, j >>] = i + j
      BY <1>4, <2>1 DEF EditsOf
    <3> QED
      BY <2>1, <3>1
<1>6. ASSUME NEW k \in I PROVE k + 1 \in I
  <2>1. \A i \in 0 .. m, j \in 0 .. n : i + j <= k => d[<< i, j >>] \in Nat
    OBVIOUS
  <2>2. ASSUME NEW i \in 0 .. m, NEW j \in 0 .. n, i + j <= k + 1
        PROVE  d[<< i, j >>] \in Nat
    <3>1. CASE i = 0 \/ j = 0
      <4>1. d[<< i, j >>] = i + j
        BY <1>4, <3>1 DEF EditsOf
      <4> QED
        BY <1>3, <4>1
    <3>2. CASE i # 0 /\ j # 0
      <4> DEFINE a == d[<< i - 1, j >>] + 1
                 b == d[<< i, j - 1 >>] + 1
                 c == d[<< i - 1, j - 1 >>] + (IF left[i] = right[j] THEN 0 ELSE 1)
      <4>1. i - 1 \in 0 .. m /\ j - 1 \in 0 .. n /\ k \in Nat
            /\ (i - 1) + j <= k /\ i + (j - 1) <= k /\ (i - 1) + (j - 1) <= k
        BY <1>3, <2>2, <3>2
      <4>2. a \in Nat /\ b \in Nat
        BY <2>1, <4>1
      <4>3. d[<< i - 1, j - 1 >>] \in Nat
        BY <2>1, <4>1
      <4>4. c \in Nat
        BY <4>3
      <4>5. d[<< i, j >>] = Min({a, b, c})
        BY <1>4, <3>2 DEF EditsOf
      <4> HIDE DEF a, b, c
      <4> QED
        BY <4>2, <4>4, <4>5, LeastOfThree
    <3> QED
      BY <3>1, <3>2
  <2> QED
    BY <2>2
<1>7. \A k \in Nat : k \in I
  <2>1. I \in SUBSET Nat
    OBVIOUS
  <2> HIDE DEF I
  <2> QED
    BY <1>5, <1>6, <2>1, AllNumbers
<1>8. \A i \in 0 .. m, j \in 0 .. n : d[<< i, j >>] \in Nat
  <2> TAKE i \in 0 .. m, j \in 0 .. n
  <2>1. i + j \in I
    BY <1>3, <1>7
  <2> QED
    BY <1>3, <2>1
<1>9. IsTable(d, left, right)
  BY <1>4, <1>8 DEF IsTable, m, n
<1> QED
  BY <1>1, <1>9 DEF m, n

\* A property of 0 that carries over to the next number holds up to any bound.
LEMMA NumbersUpTo ==
  ASSUME NEW m \in Nat, NEW J, 0 \in J, \A k \in 0 .. m : k \in J /\ k < m => k + 1 \in J
  PROVE  \A k \in 0 .. m : k \in J
<1> DEFINE I == {k \in Nat : k <= m => k \in J}
<1>1. 0 \in I /\ I \in SUBSET Nat
  OBVIOUS
<1>2. ASSUME NEW k \in I PROVE k + 1 \in I
  <2>1. k \in Nat /\ k + 1 \in Nat
    OBVIOUS
  <2>2. k + 1 <= m => k \in 0 .. m /\ k \in J /\ k < m
    BY <2>1
  <2>3. k + 1 <= m => k + 1 \in J
    BY <2>2
  <2> QED
    BY <2>1, <2>3
<1>3. \A k \in Nat : k \in I
  <2> HIDE DEF I
  <2> QED
    BY <1>1, <1>2, AllNumbers
<1> QED
  BY <1>3

\* A cell of the table and the three it is made of.
IsCell(cell, a, b, c, cost) ==
  /\ cell \in Nat /\ a \in Nat /\ b \in Nat /\ c \in Nat
  /\ cell <= a + 1 /\ cell <= b + 1 /\ cell <= c + cost
  /\ cell = a + 1 \/ cell = b + 1 \/ cell = c + cost
  /\ cell = Min({a + 1, b + 1, c + cost})

\* Each cell is one.
LEMMA CellIs ==
  ASSUME NEW left, IsList(left), NEW right, IsList(right), NEW d, IsTable(d, left, right),
         NEW i \in 1 .. Len(left), NEW j \in 1 .. Len(right)
  PROVE  IsCell(d[<< i, j >>], d[<< i - 1, j >>], d[<< i, j - 1 >>], d[<< i - 1, j - 1 >>],
                IF left[i] = right[j] THEN 0 ELSE 1)
<1> DEFINE cost == IF left[i] = right[j] THEN 0 ELSE 1
           cell == d[<< i, j >>]
           a == d[<< i - 1, j >>]
           b == d[<< i, j - 1 >>]
           c == d[<< i - 1, j - 1 >>]
<1>1. /\ i \in 0 .. Len(left) /\ i - 1 \in 0 .. Len(left) /\ i # 0
      /\ j \in 0 .. Len(right) /\ j - 1 \in 0 .. Len(right) /\ j # 0
  BY DEF IsList
<1>2. cell \in Nat /\ a \in Nat /\ b \in Nat /\ c \in Nat
  BY <1>1 DEF IsTable
<1>3. cell = Min({a + 1, b + 1, c + cost})
  <2>1. cell = EditsOf(d, left, right, i, j)
    BY <1>1 DEF IsTable
  <2> QED
    BY <1>1, <2>1 DEF EditsOf
<1>4. cost \in Nat
  OBVIOUS
<1> HIDE DEF cost, cell, a, b, c
<1>5. a + 1 \in Nat /\ b + 1 \in Nat /\ c + cost \in Nat
  BY <1>2, <1>4
<1>6. /\ cell \in {a + 1, b + 1, c + cost}
      /\ cell <= a + 1 /\ cell <= b + 1 /\ cell <= c + cost
  BY <1>3, <1>5, LeastOfThree
<1> QED
  BY <1>2, <1>3, <1>6 DEF IsCell, cost, cell, a, b, c

\* Its edges.
LEMMA EdgesAre ==
  ASSUME NEW left, IsList(left), NEW right, IsList(right), NEW d, IsTable(d, left, right)
  PROVE  /\ \A i \in 0 .. Len(left) : d[<< i, 0 >>] = i
         /\ \A j \in 0 .. Len(right) : d[<< 0, j >>] = j
         /\ \A i \in 0 .. Len(left), j \in 0 .. Len(right) : d[<< i, j >>] \in Nat
<1>1. Len(left) \in Nat /\ Len(right) \in Nat /\ 0 \in 0 .. Len(left) /\ 0 \in 0 .. Len(right)
  BY DEF IsList
<1>2. \A i \in 0 .. Len(left) : d[<< i, 0 >>] = i
  <2> TAKE i \in 0 .. Len(left)
  <2>1. d[<< i, 0 >>] = i + 0
    BY <1>1 DEF IsTable, EditsOf
  <2> QED
    BY <1>1, <2>1
<1>3. \A j \in 0 .. Len(right) : d[<< 0, j >>] = j
  <2> TAKE j \in 0 .. Len(right)
  <2>1. d[<< 0, j >>] = 0 + j
    BY <1>1 DEF IsTable, EditsOf
  <2> QED
    BY <1>1, <2>1
<1> QED
  BY <1>2, <1>3 DEF IsTable

\* Two names are at least as far apart as their lengths.
LEMMA LengthsTell ==
  ASSUME NEW left, IsList(left), NEW right, IsList(right), NEW d, IsTable(d, left, right)
  PROVE  \A i \in 0 .. Len(left), j \in 0 .. Len(right) :
            d[<< i, j >>] >= i - j /\ d[<< i, j >>] >= j - i
<1> DEFINE m == Len(left)
           n == Len(right)
           I == {k \in Nat : \A i \in 0 .. m, j \in 0 .. n :
                    i + j <= k => d[<< i, j >>] >= i - j /\ d[<< i, j >>] >= j - i}
<1>1. m \in Nat /\ n \in Nat
  BY DEF IsList
<1>2. /\ \A i \in 0 .. m : d[<< i, 0 >>] = i
      /\ \A j \in 0 .. n : d[<< 0, j >>] = j
  BY EdgesAre
<1>3. 0 \in I
  <2> SUFFICES ASSUME NEW i \in 0 .. m, NEW j \in 0 .. n, i + j <= 0
               PROVE  d[<< i, j >>] >= i - j /\ d[<< i, j >>] >= j - i
    OBVIOUS
  <2>1. i = 0 /\ j = 0
    BY <1>1
  <2>2. d[<< 0, j >>] = j
    BY <1>2
  <2> QED
    BY <2>1, <2>2
<1>4. ASSUME NEW k \in I PROVE k + 1 \in I
  <2>1. \A i \in 0 .. m, j \in 0 .. n :
            i + j <= k => d[<< i, j >>] >= i - j /\ d[<< i, j >>] >= j - i
    OBVIOUS
  <2>2. ASSUME NEW i \in 0 .. m, NEW j \in 0 .. n, i + j <= k + 1
        PROVE  d[<< i, j >>] >= i - j /\ d[<< i, j >>] >= j - i
    <3>1. CASE i = 0
      <4>1. d[<< 0, j >>] = j
        BY <1>2
      <4> QED
        BY <1>1, <3>1, <4>1
    <3>2. CASE j = 0
      <4>1. d[<< i, 0 >>] = i
        BY <1>2
      <4> QED
        BY <1>1, <3>2, <4>1
    <3>3. CASE i # 0 /\ j # 0
      <4> DEFINE cost == IF left[i] = right[j] THEN 0 ELSE 1
                 cell == d[<< i, j >>]
                 a == d[<< i - 1, j >>]
                 b == d[<< i, j - 1 >>]
                 c == d[<< i - 1, j - 1 >>]
      <4>1. i \in 1 .. m /\ j \in 1 .. n
        BY <1>1, <3>3
      <4>2. IsCell(cell, a, b, c, cost)
        BY <4>1, CellIs
      <4>3. i - 1 \in 0 .. m /\ j - 1 \in 0 .. n /\ k \in Nat
            /\ (i - 1) + j <= k /\ i + (j - 1) <= k /\ (i - 1) + (j - 1) <= k
        BY <1>1, <2>2, <3>3
      <4>4. a >= (i - 1) - j /\ a >= j - (i - 1)
        BY <2>1, <4>3
      <4>5. b >= i - (j - 1) /\ b >= (j - 1) - i
        BY <2>1, <4>3
      <4>6. c >= (i - 1) - (j - 1) /\ c >= (j - 1) - (i - 1)
        BY <2>1, <4>3
      <4>7. cost \in {0, 1} /\ i \in Nat /\ j \in Nat
        BY <4>1
      <4> HIDE DEF cost, cell, a, b, c
      <4>8. cell >= i - j /\ cell >= j - i
        BY <4>2, <4>4, <4>5, <4>6, <4>7 DEF IsCell
      <4> QED
        BY <4>8 DEF cell
    <3> QED
      BY <3>1, <3>2, <3>3
  <2> QED
    BY <2>2
<1>5. \A k \in Nat : k \in I
  <2>1. I \in SUBSET Nat
    OBVIOUS
  <2> HIDE DEF I
  <2> QED
    BY <1>3, <1>4, <2>1, AllNumbers
<1> QED
  <2> TAKE i \in 0 .. Len(left), j \in 0 .. Len(right)
  <2>1. i + j \in I
    <3>1. i + j \in Nat
      BY <1>1
    <3> HIDE DEF I
    <3> QED
      BY <1>5, <3>1
  <2> QED
    BY <1>1, <2>1

\* Two names of one length are no further apart than the letters that differ.
LEMMA DiagonalStays ==
  ASSUME NEW left, IsList(left), NEW right, IsList(right), NEW d, IsTable(d, left, right),
         Len(right) = Len(left), NEW e, \A k \in 0 .. Len(left) : e[k] \in Nat,
         \A k \in 1 .. Len(left) : left[k] = right[k] => e[k] >= e[k - 1],
         \A k \in 1 .. Len(left) : left[k] # right[k] => e[k] >= e[k - 1] + 1
  PROVE  \A k \in 0 .. Len(left) : d[<< k, k >>] <= e[k]
<1> DEFINE m == Len(left)
           J == {k \in 0 .. m : d[<< k, k >>] <= e[k]}
<1>1. m \in Nat
  BY DEF IsList
<1>2. 0 \in J
  <2>1. d[<< 0, 0 >>] = 0 /\ 0 \in 0 .. m
    BY <1>1, EdgesAre
  <2>2. e[0] \in Nat
    BY <2>1
  <2> QED
    BY <2>1, <2>2
<1>3. ASSUME NEW k \in 0 .. m, k \in J, k < m PROVE k + 1 \in J
  <2> DEFINE i == k + 1
             cost == IF left[i] = right[i] THEN 0 ELSE 1
             cell == d[<< i, i >>]
             c == d[<< i - 1, i - 1 >>]
  <2>1. i \in 1 .. m /\ i \in 1 .. Len(right) /\ i - 1 = k /\ i \in 0 .. m
    BY <1>1, <1>3
  <2> HIDE DEF i
  <2>2. cell \in Nat /\ c \in Nat /\ cell <= c + cost
    BY <2>1, CellIs DEF IsCell
  <2>3. c <= e[k]
    BY <1>3, <2>1
  <2>4. e[i] >= e[k] + cost
    <3>1. left[i] = right[i] => e[i] >= e[k]
      BY <2>1
    <3>2. left[i] # right[i] => e[i] >= e[k] + 1
      BY <2>1
    <3>3. e[k] \in Nat /\ e[i] \in Nat
      BY <2>1
    <3> QED
      BY <3>1, <3>2, <3>3
  <2>5. cost \in Nat /\ e[k] \in Nat /\ e[i] \in Nat
    BY <2>1
  <2> HIDE DEF cost, cell, c
  <2>6. cell <= e[i]
    BY <2>2, <2>3, <2>4, <2>5
  <2>7. i \in J
    BY <2>1, <2>6 DEF cell
  <2> QED
    BY <2>7 DEF i
<1>4. \A k \in 0 .. m : k \in J
  <2> HIDE DEF J, m
  <2> QED
    BY <1>1, <1>2, <1>3, NumbersUpTo
<1> QED
  BY <1>4

\* Once a whole row is above the bound, every later one is.
LEMMA RowsGrow ==
  ASSUME NEW left, IsList(left), NEW right, IsList(right), NEW d, IsTable(d, left, right),
         NEW limit \in Nat, NEW i \in 1 .. Len(left),
         \A j \in 0 .. Len(right) : d[<< i - 1, j >>] > limit
  PROVE  \A j \in 0 .. Len(right) : d[<< i, j >>] > limit
<1> DEFINE n == Len(right)
           J == {j \in 0 .. n : d[<< i, j >>] > limit}
<1>1. n \in Nat /\ i \in 0 .. Len(left) /\ i - 1 \in 0 .. Len(left) /\ i \in Nat
  BY DEF IsList
<1>2. 0 \in J
  <2>1. 0 \in 0 .. n /\ d[<< i, 0 >>] = i /\ d[<< i - 1, 0 >>] = i - 1
    BY <1>1, EdgesAre
  <2>2. d[<< i - 1, 0 >>] > limit
    BY <2>1
  <2>3. i > limit
    BY <1>1, <2>1, <2>2
  <2> QED
    BY <2>1, <2>3
<1>3. ASSUME NEW k \in 0 .. n, k \in J, k < n PROVE k + 1 \in J
  <2> DEFINE j == k + 1
             cost == IF left[i] = right[j] THEN 0 ELSE 1
             cell == d[<< i, j >>]
             a == d[<< i - 1, j >>]
             b == d[<< i, j - 1 >>]
             c == d[<< i - 1, j - 1 >>]
  <2>1. j \in 1 .. n /\ j - 1 = k /\ j \in 0 .. n
    BY <1>1, <1>3
  <2> HIDE DEF j
  <2>2. IsCell(cell, a, b, c, cost)
    BY <2>1, CellIs
  <2>3. a > limit /\ b > limit /\ c > limit
    BY <1>3, <2>1
  <2>4. cost \in Nat
    OBVIOUS
  <2> HIDE DEF cost, cell, a, b, c
  <2>5. cell > limit
    BY <2>2, <2>3, <2>4 DEF IsCell
  <2>6. j \in J
    BY <2>1, <2>5 DEF cell
  <2> QED
    BY <2>6 DEF j
<1>4. \A k \in 0 .. n : k \in J
  <2> HIDE DEF J, n
  <2> QED
    BY <1>1, <1>2, <1>3, NumbersUpTo
<1> QED
  BY <1>4

RowOf(d, i, n) == [j \in 0 .. n |-> d[<< i, j >>]]

\* A row made of the one before it is the next row of the table.
LEMMA RowIs ==
  ASSUME NEW left, IsList(left), NEW right, IsList(right), NEW d, IsTable(d, left, right),
         NEW i \in 1 .. Len(left)
  PROVE  NextRow(RowOf(d, i - 1, Len(right)), i, left[i], right) = RowOf(d, i, Len(right))
<1> DEFINE n == Len(right)
           previous == RowOf(d, i - 1, n)
           Cell(row, j) == IF j = 0 THEN i
                           ELSE Min({previous[j] + 1, row[j - 1] + 1,
                                     previous[j - 1] + (IF left[i] = right[j] THEN 0 ELSE 1)})
           IsRow(row) == row = [j \in 0 .. n |-> Cell(row, j)]
           next == CHOOSE row : IsRow(row)
           mine == RowOf(d, i, n)
<1>1. NextRow(previous, i, left[i], right) = next
  BY DEF NextRow
<1>2. /\ n \in Nat /\ i \in 0 .. Len(left) /\ i - 1 \in 0 .. Len(left)
      /\ \A j \in 0 .. n : previous[j] = d[<< i - 1, j >>] /\ mine[j] = d[<< i, j >>]
      /\ mine = [j \in 0 .. n |-> mine[j]]
  BY DEF IsList, RowOf
<1>3. mine[0] = i
  <2>1. d[<< i, 0 >>] = i /\ 0 \in 0 .. n
    BY <1>2, EdgesAre
  <2> HIDE DEF mine
  <2> QED
    BY <1>2, <2>1
<1> HIDE DEF mine, previous
<1>4. ASSUME NEW row, NEW j \in 1 .. n, row[j - 1] = d[<< i, j - 1 >>]
      PROVE  Cell(row, j) = mine[j]
  <2>1. IsCell(d[<< i, j >>], d[<< i - 1, j >>], d[<< i, j - 1 >>], d[<< i - 1, j - 1 >>],
               IF left[i] = right[j] THEN 0 ELSE 1)
    BY CellIs
  <2>2. j \in 0 .. n /\ j - 1 \in 0 .. n /\ j # 0
    BY <1>2
  <2>3. d[<< i, j >>] = Min({d[<< i - 1, j >>] + 1, d[<< i, j - 1 >>] + 1,
                             d[<< i - 1, j - 1 >>] + (IF left[i] = right[j] THEN 0 ELSE 1)})
    BY <2>1 DEF IsCell
  <2>4. previous[j] = d[<< i - 1, j >>] /\ previous[j - 1] = d[<< i - 1, j - 1 >>] /\ mine[j] = d[<< i, j >>]
    BY <1>2, <2>2
  <2> QED
    BY <1>4, <2>2, <2>3, <2>4
<1>5. IsRow(mine)
  <2>1. ASSUME NEW j \in 0 .. n PROVE Cell(mine, j) = mine[j]
    <3>1. CASE j = 0
      BY <1>3, <3>1
    <3>2. CASE j # 0
      <4>1. j \in 1 .. n /\ j - 1 \in 0 .. n
        BY <1>2, <3>2
      <4>2. mine[j - 1] = d[<< i, j - 1 >>]
        BY <1>2, <4>1
      <4> HIDE DEF Cell
      <4> QED
        BY <1>4, <4>1, <4>2
    <3> QED
      BY <3>1, <3>2
  <2> HIDE DEF Cell
  <2> QED
    BY <1>2, <2>1
<1>6. IsRow(next)
  <2> HIDE DEF IsRow
  <2> QED
    BY <1>5
<1> HIDE DEF next
<1>7. \A j \in 0 .. n : next[j] = Cell(next, j)
  <2> HIDE DEF Cell
  <2> QED
    BY <1>6
<1>8. \A j \in 0 .. n : next[j] = mine[j]
  <2> DEFINE J == {j \in 0 .. n : next[j] = mine[j]}
  <2>1. 0 \in J
    <3>1. 0 \in 0 .. n
      BY <1>2
    <3>2. Cell(next, 0) = i
      OBVIOUS
    <3> HIDE DEF Cell
    <3> QED
      BY <1>3, <1>7, <3>1, <3>2
  <2> HIDE DEF Cell
  <2>2. ASSUME NEW k \in 0 .. n, k \in J, k < n PROVE k + 1 \in J
    <3> DEFINE j == k + 1
    <3>1. j \in 1 .. n /\ j - 1 = k /\ j \in 0 .. n
      BY <1>2, <2>2
    <3> HIDE DEF j
    <3>2. next[j - 1] = d[<< i, j - 1 >>]
      BY <1>2, <2>2, <3>1
    <3>3. next[j] = mine[j]
      BY <1>4, <1>7, <3>1, <3>2
    <3>4. j \in J
      BY <3>1, <3>3
    <3> QED
      BY <3>4 DEF j
  <2>3. \A j \in 0 .. n : j \in J
    <3> HIDE DEF J, n
    <3> QED
      BY <1>2, <2>1, <2>2, NumbersUpTo
  <2> QED
    BY <2>3
<1>9. next = [j \in 0 .. n |-> next[j]]
  <2> HIDE DEF Cell
  <2> QED
    BY <1>6
<1>10. next = mine
  BY <1>2, <1>8, <1>9
<1> QED
  BY <1>1, <1>10 DEF mine, previous

\* The bounded distance is the distance as far as the bound (edit_distance).
LEMMA BoundedIs ==
  ASSUME NEW left, IsList(left), NEW right, IsList(right), NEW limit \in Nat
  PROVE  IF Distance(left, right) > limit THEN edit_distance(left, right, limit) > limit
         ELSE edit_distance(left, right, limit) = Distance(left, right)
<1> DEFINE m == Len(left)
           n == Len(right)
           Step(rows, i) == IF i = 0 THEN [j \in 0 .. n |-> j]
                            ELSE NextRow(rows[i - 1], i, left[i], right)
           IsRows(rows) == rows = [i \in 0 .. m |-> Step(rows, i)]
           made == CHOOSE rows : IsRows(rows)
           Over(i) == \A j \in 0 .. n : made[i][j] > limit
<1>1. PICK d : IsTable(d, left, right) /\ Distance(left, right) = d[<< m, n >>]
  BY DistanceIs
<1> DEFINE mine == [i \in 0 .. m |-> RowOf(d, i, n)]
<1>2. edit_distance(left, right, limit) =
        IF left = right THEN 0
        ELSE IF Abs(m - n) > limit \/ \E i \in 1 .. m : Over(i) THEN limit + 1
        ELSE made[m][n]
  BY DEF edit_distance
<1>3. m \in Nat /\ n \in Nat
  BY DEF IsList
<1>16. /\ \A j \in 0 .. Len(right) : d[<< 0, j >>] = j
       /\ \A i \in 0 .. Len(left), j \in 0 .. Len(right) : d[<< i, j >>] \in Nat
  <2>1. IsTable(d, left, right)
    BY <1>1
  <2> HIDE DEF made, mine, IsRows, Step, Over, m, n
  <2> QED
    BY <2>1, EdgesAre
<1>4. RowOf(d, 0, n) = [j \in 0 .. n |-> j]
  <2>1. \A j \in 0 .. n : d[<< 0, j >>] = j
    BY <1>16
  <2> QED
    BY <2>1 DEF RowOf
<1>5. ASSUME NEW i \in 1 .. m, NEW rows, rows[i - 1] = RowOf(d, i - 1, n)
      PROVE  Step(rows, i) = RowOf(d, i, n)
  <2>1. i # 0
    BY <1>3
  <2>2. NextRow(RowOf(d, i - 1, n), i, left[i], right) = RowOf(d, i, n)
    BY <1>1, RowIs
  <2> QED
    BY <1>5, <2>1, <2>2
<1>6. \A rows : Step(rows, 0) = RowOf(d, 0, n)
  BY <1>4
<1> HIDE DEF Step
<1>7. IsRows(mine)
  <2>1. \A i \in 0 .. m : mine[i] = RowOf(d, i, n)
    OBVIOUS
  <2>2. ASSUME NEW i \in 0 .. m PROVE Step(mine, i) = RowOf(d, i, n)
    <3>1. CASE i = 0
      BY <1>6, <3>1
    <3>2. CASE i # 0
      <4>1. i \in 1 .. m /\ i - 1 \in 0 .. m
        BY <1>3, <3>2
      <4>2. mine[i - 1] = RowOf(d, i - 1, n)
        BY <2>1, <4>1
      <4> HIDE DEF mine
      <4> QED
        BY <1>5, <4>1, <4>2
    <3> QED
      BY <3>1, <3>2
  <2> QED
    BY <2>2
<1>8. IsRows(made)
  <2> HIDE DEF IsRows, mine
  <2> QED
    BY <1>7
<1> HIDE DEF made, mine
<1>9. \A i \in 0 .. m : made[i] = Step(made, i)
  BY <1>8
<1>10. \A i \in 0 .. m : made[i] = RowOf(d, i, n)
  <2> DEFINE J == {i \in 0 .. m : made[i] = RowOf(d, i, n)}
  <2>1. 0 \in J
    BY <1>3, <1>6, <1>9
  <2>2. ASSUME NEW k \in 0 .. m, k \in J, k < m PROVE k + 1 \in J
    <3> DEFINE i == k + 1
    <3>1. i \in 1 .. m /\ i - 1 = k /\ i \in 0 .. m
      BY <1>3, <2>2
    <3> HIDE DEF i
    <3>2. made[i - 1] = RowOf(d, i - 1, n)
      BY <2>2, <3>1
    <3>3. made[i] = RowOf(d, i, n)
      BY <1>5, <1>9, <3>1, <3>2
    <3>4. i \in J
      BY <3>1, <3>3
    <3> QED
      BY <3>4 DEF i
  <2>3. \A i \in 0 .. m : i \in J
    <3> HIDE DEF J, m, IsRows, Over
    <3> QED
      BY <1>3, <2>1, <2>2, NumbersUpTo
  <2> QED
    BY <2>3
<1>11. \A i \in 0 .. m, j \in 0 .. n : made[i][j] = d[<< i, j >>] /\ d[<< i, j >>] \in Nat
  <2> SUFFICES ASSUME NEW i \in 0 .. m, NEW j \in 0 .. n
               PROVE  made[i][j] = d[<< i, j >>] /\ d[<< i, j >>] \in Nat
    OBVIOUS
  <2>1. made[i] = RowOf(d, i, n)
    BY <1>10
  <2>2. RowOf(d, i, n)[j] = d[<< i, j >>]
    BY DEF RowOf
  <2> QED
    BY <1>16, <2>1, <2>2
<1> DEFINE distance == d[<< m, n >>]
<1>12. distance \in Nat /\ made[m][n] = distance
  <2>1. m \in 0 .. m /\ n \in 0 .. n
    BY <1>3
  <2> QED
    BY <1>11, <2>1
<1>13. CASE left = right
  <2> DEFINE e == [k \in 0 .. m |-> 0]
  <2>1. \A k \in 0 .. m : e[k] = 0
    OBVIOUS
  <2>2. \A k \in 1 .. m : k - 1 \in 0 .. m /\ k \in 0 .. m
    BY <1>3
  <2> HIDE DEF e
  <2>3. \A k \in 0 .. Len(left) : d[<< k, k >>] <= e[k]
    <3>1. \A k \in 0 .. Len(left) : e[k] \in Nat
      BY <2>1
    <3>2. \A k \in 1 .. Len(left) : left[k] = right[k] => e[k] >= e[k - 1]
      BY <2>1, <2>2
    <3>3. \A k \in 1 .. Len(left) : left[k] # right[k] => e[k] >= e[k - 1] + 1
      BY <1>13
    <3>4. Len(right) = Len(left)
      BY <1>13
    <3> QED
      BY <1>1, <3>1, <3>2, <3>3, <3>4, DiagonalStays
  <2>4. m \in 0 .. m /\ n = m
    BY <1>3, <1>13
  <2>5. distance <= 0
    BY <2>1, <2>3, <2>4
  <2>6. distance = 0
    BY <1>12, <2>5
  <2> HIDE DEF distance
  <2> QED
    BY <1>1, <1>2, <1>13, <2>6 DEF distance
<1>14. CASE left # right /\ (Abs(m - n) > limit \/ \E i \in 1 .. m : Over(i))
  <2>1. edit_distance(left, right, limit) = limit + 1
    BY <1>2, <1>14
  <2>2. distance > limit
    <3>1. CASE Abs(m - n) > limit
      <4>1. distance >= m - n /\ distance >= n - m
        <5>1. m \in 0 .. m /\ n \in 0 .. n
          BY <1>3
        <5> QED
          BY <1>1, <5>1, LengthsTell
      <4> HIDE DEF distance, m, n
      <4> QED
        BY <1>3, <1>12, <3>1, <4>1 DEF Abs
    <3>2. CASE \E i \in 1 .. m : Over(i)
      <4>1. PICK i \in 1 .. m : Over(i)
        BY <3>2
      <4> DEFINE J == {k \in 0 .. m : i <= k => \A j \in 0 .. n : d[<< k, j >>] > limit}
      <4>2. \A j \in 0 .. n : d[<< i, j >>] > limit
        BY <1>3, <1>11, <4>1
      <4> HIDE DEF Over
      <4>3. 0 \in J
        BY <1>3
      <4>4. ASSUME NEW k \in 0 .. m, k \in J, k < m PROVE k + 1 \in J
        <5> DEFINE l == k + 1
        <5>1. l \in 1 .. m /\ l - 1 = k /\ l \in 0 .. m
          BY <1>3, <4>4
        <5> HIDE DEF l
        <5>2. ASSUME i <= l PROVE \A j \in 0 .. n : d[<< l, j >>] > limit
          <6>1. CASE i = l
            BY <4>2, <6>1
          <6>2. CASE i # l
            <7>1. i <= k
              BY <1>3, <5>1, <5>2, <6>2
            <7>2. \A j \in 0 .. n : d[<< l - 1, j >>] > limit
              BY <4>4, <5>1, <7>1
            <7> QED
              BY <1>1, <5>1, <7>2, RowsGrow
          <6> QED
            BY <6>1, <6>2
        <5>3. l \in J
          BY <5>1, <5>2
        <5> QED
          BY <5>3 DEF l
      <4>5. \A k \in 0 .. m : k \in J
        <5> HIDE DEF J, m
        <5> QED
          BY <1>3, <4>3, <4>4, NumbersUpTo
      <4>6. m \in J /\ i <= m /\ n \in 0 .. n
        BY <1>3, <4>5
      <4> QED
        BY <4>6
    <3> QED
      BY <1>14, <3>1, <3>2
  <2> HIDE DEF distance
  <2>3. limit + 1 > limit
    OBVIOUS
  <2> QED
    BY <1>1, <2>1, <2>2, <2>3 DEF distance
<1>15. CASE left # right /\ ~ (Abs(m - n) > limit \/ \E i \in 1 .. m : Over(i))
  <2>1. edit_distance(left, right, limit) = distance
    BY <1>2, <1>12, <1>15
  <2> HIDE DEF distance, Over
  <2> QED
    BY <1>1, <2>1 DEF distance
<1> QED
  BY <1>13, <1>14, <1>15

\* How far apart two names are is a number.
LEMMA DistanceIsNumber ==
  ASSUME NEW left, IsList(left), NEW right, IsList(right)
  PROVE  Distance(left, right) \in Nat
<1>1. PICK d : IsTable(d, left, right) /\ Distance(left, right) = d[<< Len(left), Len(right) >>]
  BY DistanceIs
<1>2. Len(left) \in 0 .. Len(left) /\ Len(right) \in 0 .. Len(right)
  BY DEF IsList
<1> QED
  BY <1>1, <1>2 DEF IsTable

\* Names that differ by a swap of neighbours are two edits apart at most.
LEMMA SwapIsNear ==
  ASSUME NEW left, IsList(left), NEW right, IsList(right), IsTransposition(left, right)
  PROVE  Distance(left, right) <= 2
<1> DEFINE m == Len(left)
<1>1. PICK d : IsTable(d, left, right) /\ Distance(left, right) = d[<< Len(left), Len(right) >>]
  BY DistanceIs
<1>2. PICK i \in 1 .. m - 1 : Differences(left, right) = {i, i + 1}
  BY DEF IsTransposition
<1>3. Len(right) = m /\ m \in Nat /\ DOMAIN left = 1 .. m
  BY DEF IsTransposition, IsList
<1> DEFINE e == [k \in 0 .. m |-> IF k < i THEN 0 ELSE IF k = i THEN 1 ELSE 2]
<1>4. \A k \in 0 .. m : e[k] = IF k < i THEN 0 ELSE IF k = i THEN 1 ELSE 2
  OBVIOUS
<1>5. \A k \in 1 .. m : left[k] # right[k] <=> k = i \/ k = i + 1
  BY <1>2, <1>3 DEF Differences
<1>6. \A k \in 1 .. m : k - 1 \in 0 .. m /\ k \in 0 .. m
  BY <1>3
<1> HIDE DEF e
<1>7. \A k \in 0 .. m : e[k] \in Nat /\ e[k] <= 2
  BY <1>4
<1>8. ASSUME NEW k \in 1 .. m, left[k] = right[k] PROVE e[k] >= e[k - 1]
  <2>1. k # i /\ k # i + 1
    BY <1>5, <1>8
  <2> QED
    BY <1>3, <1>4, <1>6, <2>1
<1>9. ASSUME NEW k \in 1 .. m, left[k] # right[k] PROVE e[k] >= e[k - 1] + 1
  <2>1. k = i \/ k = i + 1
    BY <1>5, <1>9
  <2> QED
    BY <1>3, <1>4, <1>6, <2>1
<1>10. \A k \in 0 .. Len(left) : d[<< k, k >>] <= e[k]
  BY <1>1, <1>3, <1>7, <1>8, <1>9, DiagonalStays
<1>11. m \in 0 .. m
  BY <1>3
<1>12. d[<< m, m >>] <= e[m] /\ e[m] <= 2 /\ e[m] \in Nat
  BY <1>7, <1>10, <1>11
<1>13. Distance(left, right) = d[<< m, m >>] /\ Distance(left, right) \in Nat
  BY <1>1, <1>3, DistanceIsNumber
<1> QED
  BY <1>12, <1>13

\* A name that imitates a popular one is reported as doing so (check_typosquat).
LEMMA ImitationIsReported ==
  ASSUME NEW left, IsList(left), NEW right, IsList(right), Imitates(left, right)
  PROVE  Resembles(left, right) # None
<1> DEFINE mine == Canonical(left)
           theirs == Canonical(right)
           distance == edit_distance(mine, theirs, 2)
           shape == Shape(mine, theirs)
           plain == Signal("typosquat", "concerning", "separator")
           other == Signal("typosquat", IF shape = "substitution" THEN "notable" ELSE "concerning", shape)
<1>1. IsList(mine) /\ IsList(theirs)
  <2>1. \A name : IsList(name) => IsList(Canonical(name))
    <3> SUFFICES ASSUME NEW name, IsList(name) PROVE IsList(Canonical(name))
      OBVIOUS
    <3> DEFINE some == {i \in DOMAIN name : name[i] \notin SEPARATORS}
    <3>1. some \in SUBSET DOMAIN name
      OBVIOUS
    <3> HIDE DEF some
    <3>2. IsList(Kept(name, some))
      BY <3>1, KeptHolds
    <3> QED
      BY <3>2 DEF Canonical, some
  <2> QED
    BY <2>1
<1>2. Distance(mine, theirs) <= 1 \/ IsTransposition(mine, theirs)
  BY DEF Imitates
<1>3. shape \in {"transposition", "confusable", "length", "substitution"}
      /\ (IsTransposition(mine, theirs) => shape = "transposition")
  <2>1. CASE IsTransposition(mine, theirs)
    <3>1. ~ IsConfusableSwap(mine, theirs)
      <4>1. PICK i \in 1 .. Len(mine) - 1 : Differences(mine, theirs) = {i, i + 1}
        BY <2>1 DEF IsTransposition
      <4>2. \A j : {i, i + 1} # {j}
        <5>1. Len(mine) \in Nat
          BY <1>1 DEF IsList
        <5>2. i \in Int /\ i # i + 1
          BY <5>1
        <5>3. i \in {i, i + 1} /\ i + 1 \in {i, i + 1}
          OBVIOUS
        <5>4. ASSUME NEW j, {i, i + 1} = {j} PROVE FALSE
          <6>1. i = j /\ i + 1 = j
            BY <5>3, <5>4
          <6> QED
            BY <5>2, <6>1
        <5> QED
          BY <5>4
      <4> QED
        BY <4>1, <4>2 DEF IsConfusableSwap
    <3> QED
      BY <2>1, <3>1 DEF Shape
  <2>2. CASE ~ IsTransposition(mine, theirs) /\ IsConfusableSwap(mine, theirs)
    BY <2>2 DEF Shape
  <2>3. CASE ~ IsTransposition(mine, theirs) /\ ~ IsConfusableSwap(mine, theirs)
    <3>1. shape = IF Len(mine) # Len(theirs) THEN "length" ELSE "substitution"
      BY <2>3 DEF Shape
    <3> QED
      BY <2>3, <3>1
  <2> QED
    BY <2>1, <2>2, <2>3
<1>4. Resembles(left, right) =
        IF mine = theirs THEN plain
        ELSE IF distance > 2 \/ (distance = 2 /\ shape # "transposition") THEN None
        ELSE other
  BY DEF Resembles
<1> HIDE DEF mine, theirs, shape
<1>5. Distance(mine, theirs) \in Nat /\ Distance(mine, theirs) <= 2
  <2>1. Distance(mine, theirs) \in Nat
    BY <1>1, DistanceIsNumber
  <2>2. IsTransposition(mine, theirs) => Distance(mine, theirs) <= 2
    BY <1>1, SwapIsNear
  <2> QED
    BY <1>2, <2>1, <2>2
<1>6. distance = Distance(mine, theirs)
  <2>1. 2 \in Nat
    OBVIOUS
  <2>2. IF Distance(mine, theirs) > 2 THEN edit_distance(mine, theirs, 2) > 2
        ELSE edit_distance(mine, theirs, 2) = Distance(mine, theirs)
    BY <1>1, <2>1, BoundedIs
  <2> QED
    BY <1>5, <2>2
<1>7. ~ (distance > 2 \/ (distance = 2 /\ shape # "transposition"))
  <2> HIDE DEF distance
  <2> QED
    BY <1>2, <1>3, <1>5, <1>6
<1>8. plain \in Resemblance /\ other \in Resemblance
  BY <1>3 DEF Signal, Resemblance
<1> HIDE DEF plain, other, distance
<1> QED
  BY <1>4, <1>7, <1>8, IntakeAssumption

\* ImitationsAreSeen, for names of any length.
LEMMA ImitationsAreFound == IntakeAsking => ImitationsAreSeen
<1> SUFFICES ASSUME IntakeAsking, question.kind = "names" PROVE ImitationsAreSeen
  BY DEF ImitationsAreSeen
<1> DEFINE left == question.left
           right == question.right
           distance == Distance(left, right)
           Bounded(limit) == edit_distance(left, right, limit)
<1>1. IsList(left) /\ IsList(right)
  <2>1. left \in Named /\ right \in Popular \union {<< >>}
    BY DEF IntakeAsking, NameQuestions
  <2>2. IsList(<< >>)
    BY DEF IsList
  <2> HIDE DEF left, right
  <2> QED
    BY <2>1, <2>2, IntakeAssumption
<1>2. ASSUME \A limit \in 1 .. 2 : IF distance > limit THEN Bounded(limit) > limit
                                   ELSE Bounded(limit) = distance,
             (/\ right \in Popular /\ Imitates(left, right)
              /\ Len(left) >= MIN_LENGTH /\ left \notin Popular \union KnownDistinct)
             => None \notin check_typosquat(left, FALSE)
      PROVE  ImitationsAreSeen
  BY <1>2 DEF ImitationsAreSeen
<1> HIDE DEF left, right
<1>3. \A limit \in 1 .. 2 : IF distance > limit THEN Bounded(limit) > limit ELSE Bounded(limit) = distance
  <2> TAKE limit \in 1 .. 2
  <2>1. limit \in Nat
    OBVIOUS
  <2> QED
    BY <1>1, <2>1, BoundedIs
<1>4. ASSUME right \in Popular, Imitates(left, right), Len(left) >= MIN_LENGTH,
             left \notin Popular \union KnownDistinct
      PROVE  None \notin check_typosquat(left, FALSE)
  <2> DEFINE found == {Resembles(left, target) : target \in Popular} \ {None}
  <2>1. Resembles(left, right) # None
    BY <1>1, <1>4, ImitationIsReported
  <2>2. Resembles(left, right) \in found
    BY <1>4, <2>1
  <2>3. None \notin found /\ found # {}
    BY <2>2
  <2>4. ~ Len(left) < MIN_LENGTH
    BY <1>1, <1>4, IntakeAssumption DEF IsList
  <2>5. check_typosquat(left, FALSE) = found
    BY <1>4, <2>3, <2>4 DEF check_typosquat
  <2> QED
    BY <2>3, <2>5
<1> QED
  BY <1>2, <1>3, <1>4

\* Whatever names are popular and whatever is asked about, the bounded distance
\* is the distance as far as its bound, and a name one edit or one swap away
\* from a popular one is reported (edit_distance, check_typosquat).
THEOREM ImitationsAreAlwaysSeen == []IntakeAsking => []ImitationsAreSeen
<1>1. IntakeAsking => ImitationsAreSeen
  BY ImitationsAreFound
<1> QED
  BY <1>1, PTL
=============================================================================

---------------------------- MODULE Triage_proofs ----------------------------
(***************************************************************************)
(* Proofs about the decisions of a scan, for every version, advisory,      *)
(* dependency and policy: the order of versions, what worse news and the   *)
(* layers of a policy may not do, and where the two engines agree.         *)
(***************************************************************************)
EXTENDS Decisions, FiniteSetTheorems, WellFoundedInduction, TLAPS

-----------------------------------------------------------------------------
(***************************************************************************)
(* The least and the greatest of a set of numbers.                         *)
(***************************************************************************)

\* (Of all theorems on induction the one that speaks of sets.)
LEMMA LeastOf ==
  ASSUME NEW S \in SUBSET Nat, S # {}
  PROVE  Min(S) \in S /\ \A n \in S : Min(S) <= n
<1> DEFINE R == OpToRel(<, Nat)
<1>1. \E x \in S : \A y \in S : <<y, x>> \notin R
  <2> HIDE DEF R
  <2>1. IsWellFoundedOn(R, Nat)
    BY NatLessThanWellFounded DEF R
  <2> QED
    BY <2>1, WFMin
<1>2. \A m, n \in Nat : m < n => <<m, n>> \in R
  BY DEF OpToRel
<1>3. \E x \in S : \A y \in S : x <= y
  <2> HIDE DEF R
  <2>1. PICK x \in S : \A y \in S : <<y, x>> \notin R
    BY <1>1
  <2>2. \A y \in S : ~ (y < x)
    BY <1>2, <2>1
  <2> QED
    BY <2>2
<1> QED
  BY <1>3 DEF Min

LEMMA GreatestOf ==
  ASSUME NEW S \in SUBSET Nat, S # {}, NEW bound \in Nat, \A n \in S : n <= bound
  PROVE  Max(S) \in S /\ \A n \in S : n <= Max(S)
<1> DEFINE T == {bound - n : n \in S}
<1>1. T \in SUBSET Nat /\ T # {}
  <2>1. \A n \in S : bound - n \in Nat
    OBVIOUS
  <2> QED
    BY <2>1
<1>2. PICK m \in S : Min(T) = bound - m
  BY <1>1, LeastOf
<1>3. \A n \in S : n <= m
  <2>1. \A n \in S : bound - m <= bound - n
    BY <1>1, <1>2, LeastOf
  <2> QED
    BY <2>1
<1> QED
  BY <1>3 DEF Max

-----------------------------------------------------------------------------
(***************************************************************************)
(* Comparing position by position.                                         *)
(***************************************************************************)

Signs == {-1, 0, 1}
Places == Nat \ {0}

\* The first place at which s is not 0 has sign c, and c is 0 if there is none.
Says(s, c) ==
  \/ c = 0 /\ \A i \in Places : s[i] = 0
  \/ c # 0 /\ \E k \in Places : s[k] = c /\ \A i \in Places : i < k => s[i] = 0

LEMMA FirstSignSays ==
  ASSUME NEW n \in Nat, NEW s \in [1 .. n -> Signs], NEW t \in [Places -> Signs],
         \A i \in 1 .. n : t[i] = s[i], \A i \in Places : i > n => t[i] = 0
  PROVE  Says(t, FirstSign(s))
<1> DEFINE D == {i \in DOMAIN s : s[i] # 0}
<1>1. D \in SUBSET Nat /\ D \subseteq 1 .. n
  OBVIOUS
<1>2. FirstSign(s) = IF D = {} THEN 0 ELSE s[Min(D)]
  BY DEF FirstSign
<1>3. CASE D = {}
  <2>1. ASSUME NEW i \in Places PROVE t[i] = 0
    <3>1. CASE i \in 1 .. n
      <4>1. i \notin D
        BY <1>3
      <4> QED
        BY <3>1, <4>1
    <3>2. CASE i > n
      BY <3>2
    <3> QED
      BY <3>1, <3>2 DEF Places
  <2> QED
    BY <1>2, <1>3, <2>1 DEF Says
<1>4. CASE D # {}
  <2>1. Min(D) \in D /\ \A i \in D : Min(D) <= i
    BY <1>1, <1>4, LeastOf
  <2> DEFINE k == Min(D)
  <2>2. k \in 1 .. n /\ s[k] # 0 /\ t[k] = s[k] /\ k \in Places
    BY <2>1 DEF Places
  <2>3. ASSUME NEW i \in Places, i < k PROVE t[i] = 0
    <3>1. i \in 1 .. n /\ i \notin D
      BY <2>1, <2>2, <2>3 DEF Places
    <3> QED
      BY <3>1
  <2>4. FirstSign(s) = s[k]
    BY <1>2, <1>4
  <2> HIDE DEF k
  <2> QED
    BY <2>2, <2>3, <2>4 DEF Says
<1> QED
  BY <1>3, <1>4

\* Comparing the other way round says the opposite.
LEMMA OppositeSays ==
  ASSUME NEW s \in [Places -> Signs], NEW t \in [Places -> Signs],
         \A i \in Places : t[i] = - s[i],
         NEW c \in Signs, NEW d \in Signs, Says(s, c), Says(t, d)
  PROVE  d = - c
<1>1. CASE \A i \in Places : s[i] = 0
  BY <1>1 DEF Says, Signs
<1>2. CASE c # 0
  <2>1. PICK k \in Places : s[k] = c /\ \A i \in Places : i < k => s[i] = 0
    BY <1>2 DEF Says
  <2>2. t[k] = - c /\ t[k] # 0
    BY <1>2, <2>1 DEF Signs
  <2>3. PICK m \in Places : t[m] = d /\ d # 0 /\ \A i \in Places : i < m => t[i] = 0
    BY <2>2 DEF Says
  <2>4. s[m] # 0
    BY <2>3 DEF Signs
  <2>5. m = k
    <3>1. ~ (k < m) /\ ~ (m < k)
      BY <2>1, <2>2, <2>3, <2>4
    <3> QED
      BY <3>1 DEF Places
  <2> QED
    BY <2>2, <2>3, <2>5
<1> QED
  BY <1>1, <1>2 DEF Says

\* At every place, two steps upwards make a step upwards.
Compose(f, g, h) ==
    \A i \in Places :
        f[i] <= 0 /\ g[i] <= 0 => h[i] <= 0 /\ (h[i] = 0 <=> f[i] = 0 /\ g[i] = 0)

\* If the places compose, so do their first differences.
LEMMA ComposedSays ==
  ASSUME NEW f \in [Places -> Signs], NEW g \in [Places -> Signs], NEW h \in [Places -> Signs],
         Compose(f, g, h),
         NEW x \in Signs, NEW y \in Signs, NEW z \in Signs,
         Says(f, x), Says(g, y), Says(h, z), x <= 0, y <= 0
  PROVE  z <= 0 /\ (z = 0 => x = 0 /\ y = 0)
<1>1. CASE x = 0 /\ y = 0
  <2>1. \A i \in Places : f[i] = 0 /\ g[i] = 0
    BY <1>1 DEF Says
  <2>2. \A i \in Places : h[i] = 0
    BY <2>1 DEF Compose
  <2> QED
    BY <1>1, <2>2 DEF Says
<1>2. ASSUME NEW k \in Places, f[k] <= 0, g[k] <= 0, f[k] # 0 \/ g[k] # 0,
             \A i \in Places : i < k => f[i] = 0 /\ g[i] = 0
      PROVE  z < 0
  <2>1. h[k] <= 0 /\ h[k] # 0
    BY <1>2 DEF Compose
  <2>2. \A i \in Places : i < k => h[i] = 0
    BY <1>2 DEF Compose
  <2>3. PICK m \in Places : h[m] = z /\ z # 0 /\ \A i \in Places : i < m => h[i] = 0
    BY <2>1 DEF Says
  <2>4. m = k
    <3>1. ~ (k < m) /\ ~ (m < k)
      BY <2>1, <2>2, <2>3
    <3> QED
      BY <3>1 DEF Places
  <2> QED
    BY <2>1, <2>3, <2>4 DEF Signs
<1>3. CASE x # 0 /\ y = 0
  <2>1. PICK k \in Places : f[k] = x /\ \A i \in Places : i < k => f[i] = 0
    BY <1>3 DEF Says
  <2>2. \A i \in Places : g[i] = 0
    BY <1>3 DEF Says
  <2> QED
    BY <1>2, <1>3, <2>1, <2>2 DEF Signs
<1>4. CASE x = 0 /\ y # 0
  <2>1. PICK k \in Places : g[k] = y /\ \A i \in Places : i < k => g[i] = 0
    BY <1>4 DEF Says
  <2>2. \A i \in Places : f[i] = 0
    BY <1>4 DEF Says
  <2> QED
    BY <1>2, <1>4, <2>1, <2>2 DEF Signs
<1>5. CASE x # 0 /\ y # 0
  <2>1. PICK k \in Places : f[k] = x /\ \A i \in Places : i < k => f[i] = 0
    BY <1>5 DEF Says
  <2>2. PICK m \in Places : g[m] = y /\ \A i \in Places : i < m => g[i] = 0
    BY <1>5 DEF Says
  <2>3. CASE k < m
    BY <1>2, <1>5, <2>1, <2>2, <2>3 DEF Signs, Places
  <2>4. CASE m < k
    BY <1>2, <1>5, <2>1, <2>2, <2>4 DEF Signs, Places
  <2>5. CASE m = k
    BY <1>2, <1>5, <2>1, <2>2, <2>5 DEF Signs, Places
  <2> QED
    BY <2>3, <2>4, <2>5 DEF Places
<1> QED
  BY <1>1, <1>3, <1>4, <1>5 DEF Signs
-----------------------------------------------------------------------------
(***************************************************************************)
(* The order of npm, Go and crates.io.                                     *)
(***************************************************************************)

\* Numbers are compared with zeros behind the shorter one.
ReleaseAt(a, b) == [i \in Places |-> Sign(Padded(a, i) - Padded(b, i))]

LEMMA PaddedIsNumber == ASSUME NEW a \in Seq(Nat), NEW i \in Places PROVE Padded(a, i) \in Nat
  BY DEF Padded

LEMMA SignsOfDifferences ==
  ASSUME NEW x \in Int, NEW y \in Int
  PROVE  /\ Sign(x - y) \in Signs
         /\ Sign(x - y) <= 0 <=> x <= y
         /\ Sign(x - y) = 0 <=> x = y
         /\ Sign(y - x) = - Sign(x - y)
  BY DEF Sign, Signs

LEMMA ReleaseSays ==
  ASSUME NEW a \in Seq(Nat), NEW b \in Seq(Nat)
  PROVE  ReleaseAt(a, b) \in [Places -> Signs] /\ Says(ReleaseAt(a, b), CompareRelease(a, b))
<1> DEFINE n == Longer(a, b)
           s == [i \in 1 .. n |-> Sign(Padded(a, i) - Padded(b, i))]
           t == ReleaseAt(a, b)
<1>1. n \in Nat /\ Len(a) <= n /\ Len(b) <= n
  BY DEF Longer
<1>2. \A i \in Places : Sign(Padded(a, i) - Padded(b, i)) \in Signs
  <2> TAKE i \in Places
  <2>1. Padded(a, i) \in Int /\ Padded(b, i) \in Int
    BY PaddedIsNumber
  <2> QED
    BY <2>1, SignsOfDifferences
<1>3. t \in [Places -> Signs]
  BY <1>2 DEF ReleaseAt
<1>4. s \in [1 .. n -> Signs] /\ \A i \in 1 .. n : t[i] = s[i]
  BY <1>1, <1>2 DEF ReleaseAt, Places
<1>5. \A i \in Places : i > n => t[i] = 0
  BY <1>1 DEF ReleaseAt, Padded, Sign, Places
<1>6. CompareRelease(a, b) = FirstSign(s)
  BY DEF CompareRelease
<1> HIDE DEF n, s, t
<1>7. Says(t, FirstSign(s))
  BY <1>1, <1>3, <1>4, <1>5, FirstSignSays
<1> QED
  BY <1>3, <1>6, <1>7 DEF t

\* Of two pre-releases the one that goes on is the higher.
TailAt(a, b) ==
  [i \in Places |->
     IF i <= Len(a) /\ i <= Len(b) THEN CompareIdent(a[i], b[i])
     ELSE IF i <= Len(a) THEN 1 ELSE IF i <= Len(b) THEN -1 ELSE 0]

LEMMA IdentsAreOrdered ==
  ASSUME NEW x \in Token, NEW y \in Token, NEW z \in Token
  PROVE  /\ CompareIdent(x, y) \in Signs
         /\ CompareIdent(y, x) = - CompareIdent(x, y)
         /\ CompareIdent(x, y) <= 0 /\ CompareIdent(y, z) <= 0 =>
              /\ CompareIdent(x, z) <= 0
              /\ CompareIdent(x, z) = 0 <=> CompareIdent(x, y) = 0 /\ CompareIdent(y, z) = 0
  BY DEF CompareIdent, Sign, Signs, Token

LEMMA TailsAreSigns ==
  ASSUME NEW a \in Seq(Token), NEW b \in Seq(Token)
  PROVE  TailAt(a, b) \in [Places -> Signs]
<1>1. ASSUME NEW i \in Places PROVE TailAt(a, b)[i] \in Signs
  <2>1. CASE i <= Len(a) /\ i <= Len(b)
    <3>1. a[i] \in Token /\ b[i] \in Token
      BY <2>1 DEF Places
    <3> QED
      BY <2>1, <3>1, IdentsAreOrdered DEF TailAt
  <2>2. CASE ~ (i <= Len(a) /\ i <= Len(b))
    BY <2>2 DEF TailAt, Signs
  <2> QED
    BY <2>1, <2>2
<1> QED
  BY <1>1 DEF TailAt

LEMMA PrereleaseSays ==
  ASSUME NEW a \in Seq(Token), NEW b \in Seq(Token), a # << >>, b # << >>
  PROVE  Says(TailAt(a, b), ComparePrerelease(a, b))
<1> DEFINE n == Shorter(a, b)
           s == [i \in 1 .. n |-> CompareIdent(a[i], b[i])]
           t == TailAt(a, b)
           u == [i \in Places |-> IF i <= n THEN s[i] ELSE 0]
<1>1. n \in Nat /\ n = IF Len(a) < Len(b) THEN Len(a) ELSE Len(b)
  BY DEF Shorter
<1>2. \A i \in 1 .. n : i \in Places /\ i <= Len(a) /\ i <= Len(b)
  BY <1>1 DEF Places
<1>3. t \in [Places -> Signs]
  BY TailsAreSigns
<1>4. \A i \in 1 .. n : t[i] = s[i]
  BY <1>2 DEF TailAt
<1>5. s \in [1 .. n -> Signs]
  BY <1>2, <1>3, <1>4
<1>6. u \in [Places -> Signs]
  BY <1>1, <1>5 DEF Places, Signs
<1>7. Says(u, FirstSign(s))
  <2>1. (\A i \in 1 .. n : u[i] = s[i]) /\ \A i \in Places : i > n => u[i] = 0
    BY <1>1, <1>2 DEF Places
  <2> HIDE DEF n, s, t, u
  <2> QED
    BY <1>1, <1>5, <1>6, <2>1, FirstSignSays
<1>8. ComparePrerelease(a, b) =
        IF FirstSign(s) # 0 THEN FirstSign(s) ELSE Sign(Len(a) - Len(b))
  BY DEF ComparePrerelease
<1>9. \A i \in Places : i > n =>
        t[i] = IF i <= Len(a) THEN 1 ELSE IF i <= Len(b) THEN -1 ELSE 0
  BY <1>1 DEF TailAt, Places
<1>10. \A i \in Places : i <= n => t[i] = u[i]
  <2> TAKE i \in Places
  <2> HAVE i <= n
  <2>1. i \in 1 .. n /\ u[i] = s[i]
    BY <1>1 DEF Places
  <2> HIDE DEF s, t, u
  <2> QED
    BY <1>4, <2>1
<1>11. \A i \in Places : i > n => u[i] = 0
  BY <1>1 DEF Places
<1> HIDE DEF n, s, t, u
<1>12. CASE FirstSign(s) # 0
  <2>1. PICK k \in Places : u[k] = FirstSign(s) /\ \A i \in Places : i < k => u[i] = 0
    BY <1>7, <1>12 DEF Says
  <2>2. k <= n
    BY <1>1, <1>11, <1>12, <2>1 DEF Places
  <2>3. t[k] = FirstSign(s) /\ \A i \in Places : i < k => t[i] = 0
    BY <1>1, <1>10, <2>1, <2>2 DEF Places
  <2> QED
    BY <1>8, <1>12, <2>3 DEF Says, t
<1>13. CASE FirstSign(s) = 0
  <2>1. \A i \in Places : i <= n => t[i] = 0
    BY <1>7, <1>10, <1>13 DEF Says
  <2>2. CASE Len(a) = Len(b)
    <3>1. \A i \in Places : i > n => t[i] = 0
      BY <1>1, <1>9, <2>2 DEF Places
    <3>2. \A i \in Places : t[i] = 0
      BY <1>1, <2>1, <3>1 DEF Places
    <3>3. ComparePrerelease(a, b) = 0
      BY <1>8, <1>13, <2>2 DEF Sign
    <3> QED
      BY <3>2, <3>3 DEF Says, t
  <2>3. CASE Len(a) # Len(b)
    <3> DEFINE k == n + 1
    <3>1. k \in Places /\ k > n
      BY <1>1 DEF Places
    <3>2. t[k] = ComparePrerelease(a, b) /\ t[k] # 0
      BY <1>1, <1>8, <1>9, <1>13, <2>3, <3>1 DEF Sign
    <3>3. \A i \in Places : i < k => t[i] = 0
      BY <1>1, <2>1 DEF Places
    <3> HIDE DEF k
    <3> QED
      BY <3>1, <3>2, <3>3 DEF Says, t
  <2> QED
    BY <2>2, <2>3
<1> QED
  BY <1>12, <1>13
\* ComparePrerelease: no pre-release at all is the highest.
LEMMA TailsAreOrdered ==
  ASSUME NEW a \in Seq(Token), NEW b \in Seq(Token), NEW c \in Seq(Token)
  PROVE  /\ ComparePrerelease(a, b) \in Signs
         /\ ComparePrerelease(b, a) = - ComparePrerelease(a, b)
         /\ ComparePrerelease(a, b) <= 0 /\ ComparePrerelease(b, c) <= 0 =>
              /\ ComparePrerelease(a, c) <= 0
              /\ ComparePrerelease(a, c) = 0
                   => ComparePrerelease(a, b) = 0 /\ ComparePrerelease(b, c) = 0
<1>1. ASSUME NEW x \in Seq(Token), NEW y \in Seq(Token), x = << >> \/ y = << >>
      PROVE  ComparePrerelease(x, y) = IF x # << >> THEN -1 ELSE IF y # << >> THEN 1 ELSE 0
  <2>1. ComparePrerelease(x, y) = Sign(Len(y) - Len(x))
    BY <1>1 DEF ComparePrerelease
  <2>2. Len(x) \in Nat /\ Len(y) \in Nat /\ (x = << >> <=> Len(x) = 0) /\ (y = << >> <=> Len(y) = 0)
    OBVIOUS
  <2> QED
    BY <1>1, <2>1, <2>2 DEF Sign
<1>2. ASSUME NEW x \in Seq(Token), NEW y \in Seq(Token), x # << >>, y # << >>
      PROVE  ComparePrerelease(x, y) \in Signs
  <2>1. Says(TailAt(x, y), ComparePrerelease(x, y)) /\ TailAt(x, y) \in [Places -> Signs]
    BY <1>2, PrereleaseSays, TailsAreSigns
  <2> QED
    BY <2>1 DEF Says, Signs
<1>3. ASSUME NEW x \in Seq(Token), NEW y \in Seq(Token)
      PROVE  ComparePrerelease(x, y) \in Signs
  <2>1. CASE x = << >> \/ y = << >>
    BY <1>1, <2>1 DEF Signs
  <2>2. CASE x # << >> /\ y # << >>
    BY <1>2, <2>2
  <2> QED
    BY <2>1, <2>2
<1>4. ComparePrerelease(b, a) = - ComparePrerelease(a, b)
  <2>1. CASE a = << >> \/ b = << >>
    BY <1>1, <2>1
  <2>2. CASE a # << >> /\ b # << >>
    <3>1. /\ TailAt(a, b) \in [Places -> Signs] /\ TailAt(b, a) \in [Places -> Signs]
          /\ Says(TailAt(a, b), ComparePrerelease(a, b))
          /\ Says(TailAt(b, a), ComparePrerelease(b, a))
      BY <2>2, PrereleaseSays, TailsAreSigns
    <3>2. ASSUME NEW i \in Places PROVE TailAt(b, a)[i] = - TailAt(a, b)[i]
      <4>1. CASE i <= Len(a) /\ i <= Len(b)
        <5>1. a[i] \in Token /\ b[i] \in Token
          BY <4>1 DEF Places
        <5> QED
          BY <4>1, <5>1, IdentsAreOrdered DEF TailAt
      <4>2. CASE ~ (i <= Len(a) /\ i <= Len(b))
        BY <4>2 DEF TailAt
      <4> QED
        BY <4>1, <4>2
    <3>3. ComparePrerelease(a, b) \in Signs /\ ComparePrerelease(b, a) \in Signs
      BY <1>3
    <3> QED
      BY <3>1, <3>2, <3>3, OppositeSays
  <2> QED
    BY <2>1, <2>2
<1>5. ASSUME ComparePrerelease(a, b) <= 0, ComparePrerelease(b, c) <= 0
      PROVE  /\ ComparePrerelease(a, c) <= 0
             /\ ComparePrerelease(a, c) = 0
                  => ComparePrerelease(a, b) = 0 /\ ComparePrerelease(b, c) = 0
  <2>1. ComparePrerelease(a, b) \in Signs /\ ComparePrerelease(b, c) \in Signs
        /\ ComparePrerelease(a, c) \in Signs
    BY <1>3
  <2> DEFINE A == a = << >>
             B == b = << >>
             C == c = << >>
  <2>2. /\ A \/ B => ComparePrerelease(a, b) = IF ~ A THEN -1 ELSE IF ~ B THEN 1 ELSE 0
        /\ B \/ C => ComparePrerelease(b, c) = IF ~ B THEN -1 ELSE IF ~ C THEN 1 ELSE 0
        /\ A \/ C => ComparePrerelease(a, c) = IF ~ A THEN -1 ELSE IF ~ C THEN 1 ELSE 0
    BY <1>1
  <2>3. CASE A \/ B \/ C
    <3> HIDE DEF A, B, C
    <3> QED
      BY <1>5, <2>1, <2>2, <2>3 DEF Signs
  <2>5. CASE a # << >> /\ b # << >> /\ c # << >>
    <3>1. /\ TailAt(a, b) \in [Places -> Signs] /\ Says(TailAt(a, b), ComparePrerelease(a, b))
          /\ TailAt(b, c) \in [Places -> Signs] /\ Says(TailAt(b, c), ComparePrerelease(b, c))
          /\ TailAt(a, c) \in [Places -> Signs] /\ Says(TailAt(a, c), ComparePrerelease(a, c))
      BY <2>5, PrereleaseSays, TailsAreSigns
    <3>2. ASSUME NEW i \in Places, TailAt(a, b)[i] <= 0, TailAt(b, c)[i] <= 0
          PROVE  /\ TailAt(a, c)[i] <= 0
                 /\ TailAt(a, c)[i] = 0 <=> TailAt(a, b)[i] = 0 /\ TailAt(b, c)[i] = 0
      <4>1. /\ Len(a) \in Nat /\ Len(b) \in Nat /\ Len(c) \in Nat /\ i \in Nat /\ i > 0
        BY DEF Places
      <4>2. CASE i <= Len(a)
        <5>1. i <= Len(b)
          BY <3>2, <4>1, <4>2 DEF TailAt
        <5>2. i <= Len(c)
          BY <3>2, <4>1, <5>1 DEF TailAt
        <5>3. a[i] \in Token /\ b[i] \in Token /\ c[i] \in Token
          BY <4>1, <4>2, <5>1, <5>2
        <5>4. /\ TailAt(a, b)[i] = CompareIdent(a[i], b[i])
              /\ TailAt(b, c)[i] = CompareIdent(b[i], c[i])
              /\ TailAt(a, c)[i] = CompareIdent(a[i], c[i])
          BY <4>2, <5>1, <5>2 DEF TailAt
        <5> QED
          BY <3>2, <5>3, <5>4, IdentsAreOrdered
      <4>3. CASE ~ (i <= Len(a)) /\ i <= Len(b)
        <5>1. i <= Len(c)
          BY <3>2, <4>1, <4>3 DEF TailAt
        <5> QED
          BY <4>3, <5>1 DEF TailAt
      <4>4. CASE ~ (i <= Len(a)) /\ ~ (i <= Len(b))
        BY <4>4 DEF TailAt
      <4> QED
        BY <4>2, <4>3, <4>4
    <3>3. Compose(TailAt(a, b), TailAt(b, c), TailAt(a, c))
      BY <3>2 DEF Compose
    <3> QED
      BY <1>5, <2>1, <3>1, <3>3, ComposedSays
  <2> QED
    BY <2>3, <2>5
<1> QED
  BY <1>3, <1>4, <1>5

LEMMA ReleasesAreOrdered ==
  ASSUME NEW a \in Seq(Nat), NEW b \in Seq(Nat), NEW c \in Seq(Nat)
  PROVE  /\ CompareRelease(a, b) \in Signs
         /\ CompareRelease(b, a) = - CompareRelease(a, b)
         /\ CompareRelease(a, b) <= 0 /\ CompareRelease(b, c) <= 0 =>
              /\ CompareRelease(a, c) <= 0
              /\ CompareRelease(a, c) = 0
                   => CompareRelease(a, b) = 0 /\ CompareRelease(b, c) = 0
<1>1. ASSUME NEW x \in Seq(Nat), NEW y \in Seq(Nat)
      PROVE  /\ ReleaseAt(x, y) \in [Places -> Signs]
             /\ Says(ReleaseAt(x, y), CompareRelease(x, y))
             /\ CompareRelease(x, y) \in Signs
  <2>1. ReleaseAt(x, y) \in [Places -> Signs] /\ Says(ReleaseAt(x, y), CompareRelease(x, y))
    BY ReleaseSays
  <2> QED
    BY <2>1 DEF Says, Signs
<1>2. ASSUME NEW x \in Seq(Nat), NEW y \in Seq(Nat), NEW i \in Places
      PROVE  /\ Padded(x, i) \in Int /\ Padded(y, i) \in Int
             /\ ReleaseAt(x, y)[i] <= 0 <=> Padded(x, i) <= Padded(y, i)
             /\ ReleaseAt(x, y)[i] = 0 <=> Padded(x, i) = Padded(y, i)
             /\ ReleaseAt(y, x)[i] = - ReleaseAt(x, y)[i]
  <2>1. Padded(x, i) \in Int /\ Padded(y, i) \in Int
    BY PaddedIsNumber
  <2> QED
    BY <2>1, SignsOfDifferences DEF ReleaseAt
<1>3. CompareRelease(b, a) = - CompareRelease(a, b)
  <2>1. \A i \in Places : ReleaseAt(b, a)[i] = - ReleaseAt(a, b)[i]
    BY <1>2
  <2>2. /\ ReleaseAt(a, b) \in [Places -> Signs] /\ Says(ReleaseAt(a, b), CompareRelease(a, b))
        /\ ReleaseAt(b, a) \in [Places -> Signs] /\ Says(ReleaseAt(b, a), CompareRelease(b, a))
        /\ CompareRelease(a, b) \in Signs /\ CompareRelease(b, a) \in Signs
    BY <1>1
  <2> QED
    BY <2>1, <2>2, OppositeSays
<1>4. ASSUME NEW i \in Places, ReleaseAt(a, b)[i] <= 0, ReleaseAt(b, c)[i] <= 0
      PROVE  /\ ReleaseAt(a, c)[i] <= 0
             /\ ReleaseAt(a, c)[i] = 0 <=> ReleaseAt(a, b)[i] = 0 /\ ReleaseAt(b, c)[i] = 0
  <2>1. Padded(a, i) <= Padded(b, i) /\ Padded(b, i) <= Padded(c, i)
    BY <1>2, <1>4
  <2> QED
    BY <1>2, <2>1
<1>5. /\ ReleaseAt(a, b) \in [Places -> Signs] /\ Says(ReleaseAt(a, b), CompareRelease(a, b))
      /\ ReleaseAt(b, c) \in [Places -> Signs] /\ Says(ReleaseAt(b, c), CompareRelease(b, c))
      /\ ReleaseAt(a, c) \in [Places -> Signs] /\ Says(ReleaseAt(a, c), CompareRelease(a, c))
      /\ CompareRelease(a, b) \in Signs /\ CompareRelease(b, c) \in Signs
      /\ CompareRelease(a, c) \in Signs
  BY <1>1
<1>6. ASSUME CompareRelease(a, b) <= 0, CompareRelease(b, c) <= 0
      PROVE  /\ CompareRelease(a, c) <= 0
             /\ CompareRelease(a, c) = 0
                  => CompareRelease(a, b) = 0 /\ CompareRelease(b, c) = 0
  <2>1. /\ ReleaseAt(a, b) \in [Places -> Signs] /\ Says(ReleaseAt(a, b), CompareRelease(a, b))
        /\ ReleaseAt(b, c) \in [Places -> Signs] /\ Says(ReleaseAt(b, c), CompareRelease(b, c))
        /\ ReleaseAt(a, c) \in [Places -> Signs] /\ Says(ReleaseAt(a, c), CompareRelease(a, c))
    BY <1>1
  <2>2. /\ CompareRelease(a, b) \in Signs /\ CompareRelease(b, c) \in Signs
        /\ CompareRelease(a, c) \in Signs
    BY <1>1
  <2>3. Compose(ReleaseAt(a, b), ReleaseAt(b, c), ReleaseAt(a, c))
    BY <1>4 DEF Compose
  <2> QED
    BY <1>6, <2>1, <2>2, <2>3, ComposedSays
<1> QED
  BY <1>3, <1>5, <1>6

LEMMA SemVerSigns ==
  ASSUME NEW ecosystem \in {"npm", "Go", "crates.io"},
         NEW a \in RawVersion, NEW b \in RawVersion
  PROVE  compare(ecosystem, a, b) \in Signs
<1>1. a.nums \in Seq(Nat) /\ b.nums \in Seq(Nat) /\ a.tail \in Seq(Token) /\ b.tail \in Seq(Token)
  BY DEF RawVersion
<1>2. CompareRelease(a.nums, b.nums) \in Signs /\ ComparePrerelease(a.tail, b.tail) \in Signs
  BY <1>1, ReleasesAreOrdered, TailsAreOrdered
<1>3. compare(ecosystem, a, b) =
         IF CompareRelease(a.nums, b.nums) # 0 THEN CompareRelease(a.nums, b.nums)
         ELSE ComparePrerelease(a.tail, b.tail)
  BY DEF compare, normalize, SemVerCompare, RawVersion
<1> QED
  BY <1>2, <1>3

LEMMA SemVerOrders ==
  ASSUME NEW ecosystem \in {"npm", "Go", "crates.io"},
         NEW a \in RawVersion, NEW b \in RawVersion, NEW c \in RawVersion
  PROVE  Ordered(ecosystem, a, b, c)
<1>1. ASSUME NEW x \in RawVersion, NEW y \in RawVersion
      PROVE  compare(ecosystem, x, y) =
               IF CompareRelease(x.nums, y.nums) # 0 THEN CompareRelease(x.nums, y.nums)
               ELSE ComparePrerelease(x.tail, y.tail)
  BY DEF compare, normalize, SemVerCompare, RawVersion
<1>2. \A x \in RawVersion : x.nums \in Seq(Nat) /\ x.tail \in Seq(Token)
  BY DEF RawVersion
<1>3. \A x, y \in RawVersion :
        /\ CompareRelease(x.nums, y.nums) \in Signs
        /\ CompareRelease(y.nums, x.nums) = - CompareRelease(x.nums, y.nums)
        /\ ComparePrerelease(x.tail, y.tail) \in Signs
        /\ ComparePrerelease(y.tail, x.tail) = - ComparePrerelease(x.tail, y.tail)
  BY <1>2, ReleasesAreOrdered, TailsAreOrdered
<1>4. compare(ecosystem, a, b) = - compare(ecosystem, b, a)
  BY <1>1, <1>3 DEF Signs
<1>5. ASSUME compare(ecosystem, a, b) <= 0, compare(ecosystem, b, c) <= 0
      PROVE  /\ compare(ecosystem, a, c) <= 0
             /\ compare(ecosystem, a, c) = 0
                  => compare(ecosystem, a, b) = 0 /\ compare(ecosystem, b, c) = 0
  <2>1. CompareRelease(a.nums, b.nums) <= 0 /\ CompareRelease(b.nums, c.nums) <= 0
    BY <1>1, <1>3, <1>5 DEF Signs
  <2>2. /\ CompareRelease(a.nums, c.nums) <= 0
        /\ CompareRelease(a.nums, c.nums) = 0
             => CompareRelease(a.nums, b.nums) = 0 /\ CompareRelease(b.nums, c.nums) = 0
    BY <1>2, <2>1, ReleasesAreOrdered
  <2>3. CASE CompareRelease(a.nums, c.nums) # 0
    BY <1>1, <1>3, <2>2, <2>3 DEF Signs
  <2>4. CASE CompareRelease(a.nums, c.nums) = 0
    <3>1. /\ compare(ecosystem, a, b) = ComparePrerelease(a.tail, b.tail)
          /\ compare(ecosystem, b, c) = ComparePrerelease(b.tail, c.tail)
          /\ compare(ecosystem, a, c) = ComparePrerelease(a.tail, c.tail)
      BY <1>1, <2>2, <2>4
    <3> QED
      BY <1>2, <1>5, <3>1, TailsAreOrdered
  <2> QED
    BY <2>3, <2>4
<1> QED
  BY <1>4, <1>5 DEF Ordered

\* However many numbers and pre-release parts the versions have, `compare`
\* orders those of npm, Go and crates.io.
THEOREM VersionsAreOrdered == []Asking => []SemVerIsAnOrder
<1>1. Asking => SemVerIsAnOrder
  BY SemVerOrders, DecisionsAssumption DEF Asking, OrderQuestions, SemVerIsAnOrder
<1> QED
  BY <1>1, PTL

\* A range that holds two versions holds those between them, and none at or
\* above its fix (in_range).
THEOREM RangesHaveNoHoles ==
  ASSUME NEW ecosystem \in {"npm", "Go", "crates.io"},
         NEW a \in RawVersion, NEW b \in RawVersion, NEW c \in RawVersion,
         NEW rng, rng.introduced \in RawVersion \union {None},
         rng.fixed \in RawVersion \union {None}, rng.last_affected \in RawVersion \union {None},
         compare(ecosystem, a, b) <= 0
  PROVE  /\ /\ in_range(ecosystem, a, rng)
            /\ compare(ecosystem, b, c) <= 0
            /\ in_range(ecosystem, c, rng)
            => in_range(ecosystem, b, rng)
         /\ rng.fixed # None /\ rng.fixed = a => ~ in_range(ecosystem, b, rng)
<1> DEFINE cmp(x, y) == compare(ecosystem, x, y)
<1>1. \A x, y \in RawVersion : cmp(x, y) \in Signs /\ cmp(x, y) = - cmp(y, x)
  BY SemVerSigns, SemVerOrders DEF Ordered
<1>2. \A x, y, z \in RawVersion :
         cmp(x, y) <= 0 /\ cmp(y, z) <= 0 =>
            cmp(x, z) <= 0 /\ (cmp(x, z) = 0 => cmp(x, y) = 0 /\ cmp(y, z) = 0)
  BY SemVerOrders DEF Ordered
<1> HIDE DEF cmp
<1>3. ASSUME in_range(ecosystem, a, rng), cmp(b, c) <= 0, in_range(ecosystem, c, rng)
      PROVE  in_range(ecosystem, b, rng)
  <2>1. rng.introduced # None => Parses(rng.introduced) /\ cmp(b, rng.introduced) >= 0
    <3> SUFFICES ASSUME rng.introduced # None
                 PROVE  Parses(rng.introduced) /\ cmp(b, rng.introduced) >= 0
      OBVIOUS
    <3>1. rng.introduced \in RawVersion /\ Parses(rng.introduced) /\ cmp(a, rng.introduced) >= 0
      BY <1>3 DEF in_range, cmp
    <3>2. cmp(rng.introduced, a) <= 0 /\ cmp(a, b) <= 0
      BY <1>1, <3>1 DEF Signs, cmp
    <3>3. cmp(rng.introduced, b) <= 0
      BY <1>2, <3>1, <3>2
    <3> QED
      BY <1>1, <3>1, <3>3 DEF Signs
  <2>2. rng.fixed # None => Parses(rng.fixed) /\ cmp(b, rng.fixed) < 0
    <3> SUFFICES ASSUME rng.fixed # None
                 PROVE  Parses(rng.fixed) /\ cmp(b, rng.fixed) < 0
      OBVIOUS
    <3>1. rng.fixed \in RawVersion /\ Parses(rng.fixed) /\ cmp(c, rng.fixed) < 0
      BY <1>3 DEF in_range, cmp
    <3>2. cmp(c, rng.fixed) \in Signs /\ cmp(b, rng.fixed) \in Signs
      BY <1>1, <3>1
    <3>3. cmp(c, rng.fixed) <= 0 /\ cmp(c, rng.fixed) # 0
      BY <3>1, <3>2 DEF Signs
    <3>4. cmp(b, rng.fixed) <= 0 /\ cmp(b, rng.fixed) # 0
      BY <1>2, <1>3, <3>1, <3>3
    <3> QED
      BY <3>1, <3>2, <3>4 DEF Signs
  <2>3. rng.fixed = None /\ rng.last_affected # None =>
           Parses(rng.last_affected) /\ cmp(b, rng.last_affected) <= 0
    <3> SUFFICES ASSUME rng.fixed = None, rng.last_affected # None
                 PROVE  Parses(rng.last_affected) /\ cmp(b, rng.last_affected) <= 0
      OBVIOUS
    <3>1. /\ rng.last_affected \in RawVersion /\ Parses(rng.last_affected)
          /\ cmp(c, rng.last_affected) <= 0
      BY <1>3 DEF in_range, cmp
    <3> QED
      BY <1>2, <1>3, <3>1
  <2> QED
    BY <2>1, <2>2, <2>3 DEF in_range, cmp
<1>4. ASSUME rng.fixed # None, rng.fixed = a
      PROVE  ~ in_range(ecosystem, b, rng)
  <2>1. cmp(a, b) <= 0
    BY DEF cmp
  <2>2. ~ (cmp(b, a) < 0)
    BY <1>1, <2>1 DEF Signs
  <2> QED
    BY <1>4, <2>2 DEF in_range, cmp
<1> QED
  BY <1>3, <1>4 DEF cmp

-----------------------------------------------------------------------------
(***************************************************************************)
(* The decision on one dependency and one advisory.                        *)
(***************************************************************************)

LEMMA Ranks ==
  /\ Severities = {"unknown", "low", "medium", "high", "critical"}
  /\ \A s \in Severities : SeverityRank[s] \in Nat
BY DEF Severities, SeverityRank

\* A match is told exactly then.
MustBeTold(policy, reachability, advisory, is_kev, score, ignored) ==
    /\ ~ advisory.withdrawn
    /\ \/ advisory.mal
       \/ is_kev /\ policy.always_alert_on_kev
       \/ /\ ~ ignored
          /\ \/ /\ policy.epss_threshold # None
                /\ score # None
                /\ score >= policy.epss_threshold
             \/ /\ ~ FilteredAsDev(policy, advisory, reachability)
                /\ AtLeast(advisory.severity, ThresholdFor(policy, reachability))

LEMMA JudgeTells ==
  ASSUME NEW dependency, NEW advisory, NEW is_kev, NEW score, NEW policy
  PROVE  /\ (Judge(dependency, advisory, is_kev, score, policy).verdict = "actionable") <=>
               MustBeTold(policy, dependency.reachability, advisory, is_kev, score,
                    Ignores(policy, advisory, dependency))
         /\ Judge(dependency, advisory, is_kev, score, policy).verdict
               \in {"actionable", "suppressed"}
<1> DEFINE J == Judge(dependency, advisory, is_kev, score, policy)
           malicious == IsMalicious(advisory)
           exploited == is_kev /\ policy.always_alert_on_kev
           ignored == Ignores(policy, advisory, dependency)
           likely == /\ policy.epss_threshold # None
                     /\ score # None
                     /\ score >= policy.epss_threshold
           filtered == FilteredAsDev(policy, advisory, dependency.reachability)
           severe == AtLeast(advisory.severity, ThresholdFor(policy, dependency.reachability))
           told == MustBeTold(policy, dependency.reachability, advisory, is_kev, score, ignored)
<1>1. \A v, r, o : Decision(v, r, o).verdict = v
  BY DEF Decision
<1>2. told <=> /\ ~ advisory.withdrawn
               /\ malicious \/ exploited \/ (~ ignored /\ (likely \/ (~ filtered /\ severe)))
  BY DEF MustBeTold, IsMalicious
<1>3. ASSUME advisory.withdrawn
      PROVE  J.verdict = "suppressed"
  <2>1. J = Decision("suppressed", "withdrawn", FALSE)
    BY <1>3 DEF Judge
  <2> QED
    BY <1>1, <2>1
<1>4. ASSUME ~ advisory.withdrawn /\ malicious
      PROVE  J.verdict = "actionable"
  <2>1. J = Decision("actionable", "malicious_package", ignored)
    BY <1>4 DEF Judge
  <2> QED
    BY <1>1, <2>1
<1>5. ASSUME ~ advisory.withdrawn /\ ~ malicious /\ exploited
      PROVE  J.verdict = "actionable"
  <2>1. J = Decision("actionable", "exploited_in_wild", ignored)
    BY <1>5 DEF Judge
  <2> QED
    BY <1>1, <2>1
<1>6. ASSUME ~ advisory.withdrawn /\ ~ malicious /\ ~ exploited /\ ignored
      PROVE  J.verdict = "suppressed"
  <2>1. J = Decision("suppressed", "ignored_by_rule", FALSE)
    BY <1>6 DEF Judge
  <2> QED
    BY <1>1, <2>1
<1>7. ASSUME ~ advisory.withdrawn /\ ~ malicious /\ ~ exploited /\ ~ ignored /\ likely
      PROVE  J.verdict = "actionable"
  <2>1. J = Decision("actionable", "likely_to_be_exploited", FALSE)
    BY <1>7 DEF Judge
  <2> QED
    BY <1>1, <2>1
<1>8. ASSUME ~ advisory.withdrawn /\ ~ malicious /\ ~ exploited /\ ~ ignored /\ ~ likely
             /\ filtered
      PROVE  J.verdict = "suppressed"
  <2>1. J = Decision("suppressed", "dev_only_dependency", FALSE)
    BY <1>8 DEF Judge
  <2> QED
    BY <1>1, <2>1
<1>9. ASSUME ~ advisory.withdrawn /\ ~ malicious /\ ~ exploited /\ ~ ignored /\ ~ likely
             /\ ~ filtered /\ severe
      PROVE  J.verdict = "actionable"
  <2>1. J = Decision("actionable", SevereReason(advisory, dependency.reachability), FALSE)
    BY <1>9 DEF Judge
  <2> QED
    BY <1>1, <2>1
<1>10. ASSUME ~ advisory.withdrawn /\ ~ malicious /\ ~ exploited /\ ~ ignored /\ ~ likely
              /\ ~ filtered /\ ~ severe
       PROVE  J.verdict = "suppressed"
  <2>1. J = Decision("suppressed", MildReason(policy, advisory, dependency.reachability), FALSE)
    BY <1>10 DEF Judge
  <2> QED
    BY <1>1, <2>1
<1> HIDE DEF malicious, exploited, ignored, likely, filtered, severe, J, told
<1>11. (J.verdict = "actionable") <=> told
  BY <1>2, <1>3, <1>4, <1>5, <1>6, <1>7, <1>8, <1>9, <1>10, Zenon
<1>12. J.verdict \in {"actionable", "suppressed"}
  BY <1>3, <1>4, <1>5, <1>6, <1>7, <1>8, <1>9, <1>10, Zenon
<1> QED
  BY <1>11, <1>12 DEF J, told, ignored

LEMMA VerdictIs ==
  ASSUME NEW case, NEW policy
  PROVE  VerdictOn(case, policy) =
           IF MatchingAffected(case.dependency, case.advisory) = None THEN "not_affected"
           ELSE Judge(case.dependency, case.advisory,
                      CveIds(case.advisory) \intersect case.kev # {},
                      EpssFor(case.advisory, case.epss), policy).verdict
BY DEF VerdictOn, triage, MatchResult, Decision

LEMMA LaterThreshold ==
  ASSUME NEW s \in Severities, NEW t \in Severities, NEW u \in Severities,
         AtLeast(t, s), AtLeast(s, u)
  PROVE  AtLeast(t, u)
BY Ranks DEF AtLeast

\* What one more CVE known, or one higher score, does to the highest.
LEMMA ScoreGrows ==
  ASSUME NEW before, NEW after, NEW advisory, NEW other,
         IsCase(before), IsCase(after),
         CveIds(advisory) = CveIds(other),
         \A cve \in DOMAIN before.epss :
            cve \in DOMAIN after.epss /\ before.epss[cve] <= after.epss[cve],
         EpssFor(advisory, before.epss) # None
  PROVE  /\ EpssFor(advisory, before.epss) \in Nat
         /\ EpssFor(other, after.epss) \in Nat
         /\ EpssFor(advisory, before.epss) <= EpssFor(other, after.epss)
<1> DEFINE known == CveIds(advisory) \intersect DOMAIN before.epss
           then == CveIds(other) \intersect DOMAIN after.epss
           S == {before.epss[cve] : cve \in known}
           T == {after.epss[cve] : cve \in then}
<1>1. known # {} /\ EpssFor(advisory, before.epss) = Max(S)
  BY DEF EpssFor
<1>2. known \subseteq then
  OBVIOUS
<1>3. EpssFor(other, after.epss) = Max(T)
  BY <1>1, <1>2 DEF EpssFor
<1>4. /\ S \in SUBSET Nat /\ S # {} /\ \A n \in S : n <= 100
      /\ T \in SUBSET Nat /\ T # {} /\ \A n \in T : n <= 100
  <2>1. /\ \A cve \in DOMAIN before.epss : before.epss[cve] \in 0 .. 100
        /\ \A cve \in DOMAIN after.epss : after.epss[cve] \in 0 .. 100
    BY DEF IsCase
  <2>2. S \subseteq 0 .. 100 /\ T \subseteq 0 .. 100
    BY <2>1
  <2>3. S # {} /\ T # {}
    BY <1>1, <1>2
  <2> HIDE DEF S, T
  <2> QED
    BY <2>2, <2>3
<1>5. PICK cve \in known : Max(S) = before.epss[cve]
  <2> HIDE DEF S
  <2>1. Max(S) \in S
    BY <1>4, GreatestOf
  <2> QED
    BY <2>1 DEF S
<1>6. after.epss[cve] \in T /\ before.epss[cve] <= after.epss[cve]
  BY <1>2, <1>5
<1>7. Max(S) \in Nat /\ Max(T) \in Nat /\ \A n \in T : n <= Max(T)
  <2> HIDE DEF S, T
  <2>1. Max(S) \in S /\ Max(T) \in T /\ \A n \in T : n <= Max(T)
    BY <1>4, GreatestOf
  <2> QED
    BY <1>4, <2>1
<1> HIDE DEF S, T, known, then
<1>8. after.epss[cve] \in Nat /\ before.epss[cve] \in Nat
  BY <1>4, <1>5, <1>6, <1>7
<1> QED
  BY <1>1, <1>3, <1>5, <1>6, <1>7, <1>8

LEMMA SameMatch ==
  ASSUME NEW before, NEW after, WorseNews(before, after)
  PROVE  MatchingAffected(before.dependency, before.advisory) =
         MatchingAffected(after.dependency, after.advisory)
<1> DEFINE d == before.dependency
           e == after.dependency
<1>1. /\ d.ecosystem = e.ecosystem /\ d.name = e.name /\ d.version = e.version
      /\ before.advisory.affected = after.advisory.affected
  BY DEF WorseNews
<1>2. \A entry : Covers(d, entry) = Covers(e, entry)
  BY <1>1 DEF Covers
<1> HIDE DEF d, e
<1>3. {i \in DOMAIN before.advisory.affected : Covers(d, before.advisory.affected[i])} =
      {i \in DOMAIN after.advisory.affected : Covers(e, after.advisory.affected[i])}
  BY <1>1, <1>2
<1> QED
  BY <1>1, <1>3 DEF MatchingAffected, FirstOrNone, d, e

LEMMA SameIgnores ==
  ASSUME NEW before, NEW after, NEW policy, WorseNews(before, after)
  PROVE  /\ Ignores(policy, before.advisory, before.dependency) =
            Ignores(policy, after.advisory, after.dependency)
         /\ CveIds(before.advisory) = CveIds(after.advisory)
<1>1. /\ before.dependency.name = after.dependency.name
      /\ before.advisory.id = after.advisory.id
      /\ before.advisory.aliases = after.advisory.aliases
      /\ before.advisory.cves = after.advisory.cves
  BY DEF WorseNews
<1> QED
  BY <1>1 DEF Ignores, CveIds

\* The floors of a policy, seen from where the dependency was and is.
LEMMA FloorsHold ==
  ASSUME NEW policy, NEW before, NEW after, IsPolicy(policy), IsCase(before), IsCase(after),
         WorseNews(before, after),
         \/ after.dependency.reachability = before.dependency.reachability
         \/ policy.dev_threshold = None
         \/ AtLeast(policy.dev_threshold, policy.transitive_threshold),
         ~ FilteredAsDev(policy, before.advisory, before.dependency.reachability),
         AtLeast(before.advisory.severity,
                 ThresholdFor(policy, before.dependency.reachability))
  PROVE  /\ ~ FilteredAsDev(policy, after.advisory, after.dependency.reachability)
         /\ AtLeast(after.advisory.severity,
                    ThresholdFor(policy, after.dependency.reachability))
<1> DEFINE s == before.advisory.severity
           t == after.advisory.severity
           r == before.dependency.reachability
           q == after.dependency.reachability
<1>1. s \in Severities /\ t \in Severities /\ AtLeast(t, s)
  BY DEF IsCase, WorseNews, AtLeast
<1>2. /\ policy.direct_threshold \in Severities
      /\ policy.transitive_threshold \in Severities
      /\ policy.dev_threshold # None => policy.dev_threshold \in Severities
  BY DEF IsPolicy
<1>3. q = r \/ (r = "dev_only" /\ q = "runtime_transitive")
  BY DEF WorseNews
<1> HIDE DEF s, t, r, q
<1>4. ~ FilteredAsDev(policy, after.advisory, q)
  <2>1. \A u \in Severities : AtLeast(s, u) => AtLeast(t, u)
    BY <1>1, LaterThreshold
  <2>2. ~ FilteredAsDev(policy, before.advisory, r)
    BY DEF r
  <2> QED
    BY <1>2, <1>3, <2>1, <2>2 DEF FilteredAsDev, ShipsToProduction, s, t
<1>5. AtLeast(t, ThresholdFor(policy, q))
  <2>1. AtLeast(s, ThresholdFor(policy, r))
    BY DEF r, s
  <2>2. \A u \in Severities : AtLeast(s, u) => AtLeast(t, u)
    BY <1>1, LaterThreshold
  <2>3. ThresholdFor(policy, r) \in Severities
    BY <1>2 DEF ThresholdFor
  <2>4. CASE q = r
    BY <2>1, <2>2, <2>3, <2>4
  <2>5. CASE r = "dev_only" /\ q = "runtime_transitive"
    <3>1. ThresholdFor(policy, q) = policy.transitive_threshold
      BY <2>5 DEF ThresholdFor
    <3>2. CASE policy.dev_threshold = None
      BY <2>1, <2>2, <2>3, <2>5, <3>1, <3>2 DEF ThresholdFor
    <3>3. CASE policy.dev_threshold # None
      <4>1. ThresholdFor(policy, r) = policy.dev_threshold
        BY <2>5, <3>3 DEF ThresholdFor
      <4>2. AtLeast(policy.dev_threshold, policy.transitive_threshold)
        BY <2>5, <3>3 DEF q, r
      <4>3. AtLeast(s, policy.transitive_threshold)
        BY <1>1, <1>2, <2>1, <3>3, <4>1, <4>2, LaterThreshold
      <4> QED
        BY <1>2, <2>2, <3>1, <4>3
    <3> QED
      BY <3>2, <3>3
  <2> QED
    BY <1>3, <2>4, <2>5
<1> QED
  BY <1>4, <1>5 DEF q, t

LEMMA ActionableIs ==
  ASSUME NEW case, NEW policy
  PROVE  VerdictOn(case, policy) = "actionable" <=>
           /\ MatchingAffected(case.dependency, case.advisory) # None
           /\ MustBeTold(policy, case.dependency.reachability, case.advisory,
                   CveIds(case.advisory) \intersect case.kev # {},
                   EpssFor(case.advisory, case.epss),
                   Ignores(policy, case.advisory, case.dependency))
BY VerdictIs, JudgeTells

LEMMA DangerOnlyAdds ==
  ASSUME NEW policy, NEW before, NEW after, IsPolicy(policy), IsCase(before), IsCase(after)
  PROVE  DangerAdds(policy, before, after)
<1> SUFFICES ASSUME VerdictOn(before, policy) = "actionable",
                    WorseNews(before, after),
                    \/ after.dependency.reachability = before.dependency.reachability
                    \/ policy.dev_threshold = None
                    \/ AtLeast(policy.dev_threshold, policy.transitive_threshold)
             PROVE  VerdictOn(after, policy) = "actionable"
  BY DEF DangerAdds, AtLeast
<1> DEFINE told(case) ==
             MustBeTold(policy, case.dependency.reachability, case.advisory,
                  CveIds(case.advisory) \intersect case.kev # {},
                  EpssFor(case.advisory, case.epss),
                  Ignores(policy, case.advisory, case.dependency))
<1>1. MatchingAffected(before.dependency, before.advisory) # None /\ told(before)
  BY ActionableIs
<1>2. MatchingAffected(after.dependency, after.advisory) # None
  BY <1>1, SameMatch
<1> SUFFICES told(after)
  BY <1>2, ActionableIs
<1>3. /\ CveIds(before.advisory) = CveIds(after.advisory)
      /\ Ignores(policy, before.advisory, before.dependency) =
         Ignores(policy, after.advisory, after.dependency)
  BY SameIgnores
<1>4. /\ before.advisory.withdrawn = after.advisory.withdrawn
      /\ before.advisory.mal => after.advisory.mal
      /\ before.kev \subseteq after.kev
  BY DEF WorseNews
<1>5. ~ after.advisory.withdrawn
  BY <1>1, <1>4 DEF MustBeTold
<1>6. CASE before.advisory.mal
  BY <1>4, <1>5, <1>6 DEF MustBeTold
<1>7. CASE CveIds(before.advisory) \intersect before.kev # {} /\ policy.always_alert_on_kev
  <2>1. CveIds(after.advisory) \intersect after.kev # {}
    BY <1>3, <1>4, <1>7
  <2> QED
    BY <1>5, <1>7, <2>1 DEF MustBeTold
<1>8. CASE /\ ~ Ignores(policy, before.advisory, before.dependency)
           /\ policy.epss_threshold # None
           /\ EpssFor(before.advisory, before.epss) # None
           /\ EpssFor(before.advisory, before.epss) >= policy.epss_threshold
  <2>1. \A cve \in DOMAIN before.epss :
          cve \in DOMAIN after.epss /\ before.epss[cve] <= after.epss[cve]
    BY DEF WorseNews
  <2>2. /\ EpssFor(before.advisory, before.epss) \in Nat
        /\ EpssFor(after.advisory, after.epss) \in Nat
        /\ EpssFor(before.advisory, before.epss) <= EpssFor(after.advisory, after.epss)
    BY <1>3, <1>8, <2>1, ScoreGrows
  <2>3. policy.epss_threshold \in Nat
    BY <1>8 DEF IsPolicy
  <2>4. /\ EpssFor(after.advisory, after.epss) # None
        /\ EpssFor(after.advisory, after.epss) >= policy.epss_threshold
    BY <1>8, <2>2, <2>3, NoneAssumption
  <2> QED
    BY <1>3, <1>5, <1>8, <2>4 DEF MustBeTold
<1>9. CASE /\ ~ Ignores(policy, before.advisory, before.dependency)
           /\ ~ FilteredAsDev(policy, before.advisory, before.dependency.reachability)
           /\ AtLeast(before.advisory.severity,
                      ThresholdFor(policy, before.dependency.reachability))
  <2>1. /\ ~ FilteredAsDev(policy, after.advisory, after.dependency.reachability)
        /\ AtLeast(after.advisory.severity,
                   ThresholdFor(policy, after.dependency.reachability))
    BY <1>9, FloorsHold
  <2> QED
    BY <1>3, <1>5, <1>9, <2>1 DEF MustBeTold
<1> QED
  BY <1>1, <1>6, <1>7, <1>8, <1>9 DEF MustBeTold

\* Whatever is asked, worse news quietens nothing.
THEOREM WorseNewsIsTold == []Asking => []DangerIsMonotone
<1>1. Asking => DangerIsMonotone
  BY DangerOnlyAdds, DecisionsAssumption DEF Asking, TriageQuestions, DangerIsMonotone
<1> QED
  BY <1>1, PTL
-----------------------------------------------------------------------------
(***************************************************************************)
(* The layers of a policy: a project's file, its settings and a profile    *)
(* over the policy of the product.                                         *)
(***************************************************************************)

LEMMA EpssIsNumber ==
  ASSUME NEW raw \in Int \union {None, Bad}
  PROVE  ReadEpss(raw) \in Nat \union {None}
BY DEF ReadEpss

LEMMA ParsedIsTyped ==
  ASSUME NEW document, IsDocument(document)
  PROVE  LET parsed == parse_policy(document)
         IN  /\ parsed.direct_threshold \in Severities \union {None}
             /\ parsed.transitive_threshold \in Severities \union {None}
             /\ parsed.dev_threshold \in Severities \union {None}
             /\ parsed.epss_threshold \in Nat \union {None}
<1>1. \A raw : ReadSeverity(raw) \in Severities \union {None}
  BY Ranks DEF ReadSeverity, Thresholds
<1>2. CASE document \in {None, Bad}
  BY <1>2 DEF parse_policy, EmptyPolicy, BrokenPolicy
<1>3. CASE document \notin {None, Bad}
  <2>1. ReadEpss(document.epss) \in Nat \union {None}
    BY <1>3, EpssIsNumber DEF IsDocument
  <2> QED
    BY <1>1, <1>3, <2>1 DEF parse_policy
<1> QED
  BY <1>2, <1>3

\* No list of a document names everything there is.
LEMMA ListsAreNarrow ==
  ASSUME NEW document
  PROVE  IdentifiersOf(parse_policy(document), "package")
            \intersect ({None} \union MATCHES_EVERYTHING) = {}
<1>1. ASSUME NEW raw, ReadOneIgnore(raw) # None
      PROVE  ReadOneIgnore(raw).identifier \notin {None} \union MATCHES_EVERYTHING
  BY <1>1 DEF ReadOneIgnore
<1>2. CASE document \in {None, Bad}
  BY <1>2 DEF parse_policy, EmptyPolicy, BrokenPolicy, IdentifiersOf
<1>3. CASE document \notin {None, Bad}
  <2>1. parse_policy(document).ignores = ReadIgnores(document.ignore)
    BY <1>3 DEF parse_policy
  <2>2. \A entry \in ReadIgnores(document.ignore) :
           entry.identifier \notin {None} \union MATCHES_EVERYTHING
    BY <1>1 DEF ReadIgnores
  <2> QED
    BY <2>1, <2>2 DEF IdentifiersOf
<1> QED
  BY <1>2, <1>3

\* A rule the owner adds leaves the project one.
LEMMA RulesStay ==
  ASSUME NEW target, NEW form, IsProject(target), NEW Thresholded, NEW Likely, NEW Named, NEW Files,
         target \in [direct_threshold : Thresholded, transitive_threshold : Thresholded,
                     dev_threshold : Thresholded, epss_threshold : Likely,
                     rules : [advisory : SUBSET Named, package : SUBSET Named],
                     policy_file : Files],
         form.kind \in {None, Bad, "advisory", "package"}
  PROVE  IsProject(add_project_rule(target, form))
<1> DEFINE after == add_project_rule(target, form)
           kind == IgnoreKind(form.kind)
<1>1. CASE Refused(form)
  BY <1>1 DEF add_project_rule
<1>2. CASE ~ Refused(form)
  <2>1. kind \in {"advisory", "package"} /\ form.identifier # None
    BY <1>2 DEF Refused, IgnoreKind
  <2>2. kind = "package" => form.identifier \notin MATCHES_EVERYTHING
    BY <1>2 DEF Refused
  <2> HIDE DEF kind
  <2>3. after = [target EXCEPT !.rules[kind] = @ \union {form.identifier}]
    BY <1>2 DEF add_project_rule, kind
  <2>4. /\ after.direct_threshold = target.direct_threshold
        /\ after.transitive_threshold = target.transitive_threshold
        /\ after.dev_threshold = target.dev_threshold
        /\ after.epss_threshold = target.epss_threshold
        /\ after.policy_file = target.policy_file
        /\ after.rules = [target.rules EXCEPT ![kind] = @ \union {form.identifier}]
    BY <2>3
  <2>5. after.rules["package"] = IF kind = "package"
                                 THEN target.rules["package"] \union {form.identifier}
                                 ELSE target.rules["package"]
    BY <2>1, <2>4
  <2>6. after.rules.package \intersect ({None} \union MATCHES_EVERYTHING) = {}
    BY <2>1, <2>2, <2>5 DEF IsProject
  <2> QED
    BY <2>4, <2>6 DEF IsProject
<1> QED
  BY <1>1, <1>2

\* What the owner sets leaves the project one.
LEMMA SettingsStay ==
  ASSUME NEW target, NEW body, IsProject(target),
         NEW Rules, NEW Files,
         target \in [direct_threshold : Severities \union {None},
                     transitive_threshold : Severities \union {None},
                     dev_threshold : Severities \union {None},
                     epss_threshold : Nat \union {None}, rules : Rules, policy_file : Files]
  PROVE  IsProject(set_project_thresholds(target, body))
<1> DEFINE after == set_project_thresholds(target, body)
<1>1. CASE after = target
  BY <1>1
<1>2. CASE after # target
  <2>1. /\ {body.direct, body.transitive} \subseteq Severities \union {None}
        /\ body.epss = None \/ body.epss \in 0 .. 100
        /\ after = [target EXCEPT !.direct_threshold = body.direct,
                        !.transitive_threshold = body.transitive,
                        !.epss_threshold = IF body.epss = None THEN None ELSE 100 * body.epss]
    BY <1>2 DEF set_project_thresholds
  <2>2. (IF body.epss = None THEN None ELSE 100 * body.epss) \in Nat \union {None}
    BY <2>1
  <2>3. /\ after.direct_threshold = body.direct
        /\ after.transitive_threshold = body.transitive
        /\ after.dev_threshold = target.dev_threshold
        /\ after.epss_threshold = IF body.epss = None THEN None ELSE 100 * body.epss
        /\ after.policy_file = target.policy_file
        /\ after.rules = target.rules
    BY <2>1
  <2> QED
    BY <2>1, <2>2, <2>3 DEF IsProject
<1> QED
  BY <1>1, <1>2

LEMMA LayeredIsTyped ==
  ASSUME NEW file, NEW target, NEW profile,
         \A layer \in {file, target, profile} :
            /\ layer.direct_threshold \in Severities \union {None}
            /\ layer.transitive_threshold \in Severities \union {None}
            /\ layer.dev_threshold \in Severities \union {None}
            /\ layer.epss_threshold \in Nat \union {None},
         NEW Barred, target.rules.package \intersect Barred = {},
         \A layer \in {file, profile} : IdentifiersOf(layer, "package") \intersect Barred = {},
         None \in Barred
  PROVE  /\ IsPolicy(LayeredPolicy(DefaultPolicy, file, target, profile))
         /\ LayeredPolicy(DefaultPolicy, file, target, profile).always_alert_on_kev = TRUE
         /\ LayeredPolicy(DefaultPolicy, file, target, profile).ignored_packages
                \intersect Barred = {}
<1> DEFINE policy == LayeredPolicy(DefaultPolicy, file, target, profile)
<1>1. /\ policy.direct_threshold =
            FirstSet(file.direct_threshold, target.direct_threshold, profile.direct_threshold, "high")
      /\ policy.transitive_threshold =
            FirstSet(file.transitive_threshold, target.transitive_threshold,
                     profile.transitive_threshold, "critical")
      /\ policy.dev_threshold =
            FirstSet(file.dev_threshold, target.dev_threshold, profile.dev_threshold, None)
      /\ policy.epss_threshold =
            FirstSet(file.epss_threshold, target.epss_threshold, profile.epss_threshold, None)
      /\ policy.always_alert_on_kev = TRUE
      /\ policy.max_depth = None
      /\ policy.ignored_packages =
            target.rules["package"] \union IdentifiersOf(file, "package")
                                    \union IdentifiersOf(profile, "package")
  BY DEF LayeredPolicy, DefaultPolicy
<1> HIDE DEF policy
<1>2. policy.direct_threshold \in Severities /\ policy.transitive_threshold \in Severities
  BY <1>1, Ranks DEF FirstSet
<1>3. policy.dev_threshold \in Severities \union {None}
  BY <1>1 DEF FirstSet
<1>4. policy.epss_threshold \in Nat \union {None}
  BY <1>1 DEF FirstSet
<1>5. policy.ignored_packages \intersect Barred = {}
  BY <1>1
<1> QED
  BY <1>1, <1>2, <1>3, <1>4, <1>5 DEF IsPolicy, policy

\* Whatever a project's file, its settings, its profiles and its rules say:
\* the policy of a scan is one worse news cannot quieten, malware and confirmed
\* exploitation of what is installed are told, and no glob that covers
\* everything is in force (build_policy, triage).
THEOREM ProjectsAreWarned ==
  ASSUME NEW target, NEW profiles, NEW assigned, NEW default, NEW requested,
         IsProject(target), \A slug \in DOMAIN profiles : IsDocument(profiles[slug]),
         NEW policy, policy = build_policy(target, profiles, assigned, default, requested),
         policy # Bad
  PROVE  /\ IsPolicy(policy)
         /\ policy.ignored_packages \intersect MATCHES_EVERYTHING = {}
         /\ \A before, after :
               IsCase(before) /\ IsCase(after) => DangerAdds(policy, before, after)
         /\ \A case : WorstIsTold(case, policy)
<1> DEFINE file == parse_policy(target.policy_file)
           asked == IF requested # None THEN requested ELSE file.profile
           slug == profile_for_scan(profiles, asked, assigned, default)
           profile == IF slug = None THEN EmptyPolicy ELSE parse_policy(profiles[slug])
<1>1. policy = LayeredPolicy(DefaultPolicy, file, target, profile) /\ slug # Bad
  BY DEF build_policy
<1>2. slug # None => slug \in DOMAIN profiles
  BY <1>1 DEF profile_for_scan
<1>3. /\ file.direct_threshold \in Severities \union {None}
      /\ file.transitive_threshold \in Severities \union {None}
      /\ file.dev_threshold \in Severities \union {None}
      /\ file.epss_threshold \in Nat \union {None}
  BY ParsedIsTyped DEF IsProject
<1>4. /\ profile.direct_threshold \in Severities \union {None}
      /\ profile.transitive_threshold \in Severities \union {None}
      /\ profile.dev_threshold \in Severities \union {None}
      /\ profile.epss_threshold \in Nat \union {None}
  <2> HIDE DEF slug
  <2>1. CASE slug = None
    BY <2>1 DEF EmptyPolicy
  <2>2. CASE slug # None
    BY <1>2, <2>2, ParsedIsTyped
  <2> QED
    BY <2>1, <2>2
<1> HIDE DEF file, profile, slug, asked
<1>5. /\ IsPolicy(policy) /\ policy.always_alert_on_kev = TRUE
      /\ policy.ignored_packages \intersect ({None} \union MATCHES_EVERYTHING) = {}
  <2>1. /\ target.direct_threshold \in Severities \union {None}
        /\ target.transitive_threshold \in Severities \union {None}
        /\ target.dev_threshold \in Severities \union {None}
        /\ target.epss_threshold \in Nat \union {None}
    BY DEF IsProject
  <2>2. \A layer \in {file, target, profile} :
           /\ layer.direct_threshold \in Severities \union {None}
           /\ layer.transitive_threshold \in Severities \union {None}
           /\ layer.dev_threshold \in Severities \union {None}
           /\ layer.epss_threshold \in Nat \union {None}
    BY <1>3, <1>4, <2>1
  <2> DEFINE Barred == {None} \union MATCHES_EVERYTHING
  <2>3. \A layer \in {file, profile} : IdentifiersOf(layer, "package") \intersect Barred = {}
    <3>1. IdentifiersOf(EmptyPolicy, "package") = {}
      BY DEF IdentifiersOf, EmptyPolicy
    <3> QED
      BY <3>1, ListsAreNarrow DEF file, profile
  <2>4. target.rules.package \intersect Barred = {}
    BY DEF IsProject
  <2>5. None \in Barred
    OBVIOUS
  <2>6. /\ IsPolicy(policy) /\ policy.always_alert_on_kev = TRUE
        /\ policy.ignored_packages \intersect Barred = {}
    <3> DEFINE layered == LayeredPolicy(DefaultPolicy, file, target, profile)
    <3> HIDE DEF Barred
    <3>1. IsPolicy(layered) /\ layered.always_alert_on_kev = TRUE
      BY <2>2, <2>3, <2>4, <2>5, LayeredIsTyped
    <3>2. layered.ignored_packages \intersect Barred = {}
      BY <2>2, <2>3, <2>4, <2>5, LayeredIsTyped
    <3> QED
      BY <1>1, <3>1, <3>2
  <2> QED
    BY <2>6
<1>6. ASSUME NEW case PROVE WorstIsTold(case, policy)
  <2> SUFFICES ASSUME ~ case.advisory.withdrawn,
                      \/ IsMalicious(case.advisory)
                      \/ CveIds(case.advisory) \intersect case.kev # {},
                      VerdictOn(case, policy) # "not_affected"
               PROVE  VerdictOn(case, policy) = "actionable"
    BY DEF WorstIsTold
  <2>1. MatchingAffected(case.dependency, case.advisory) # None
    BY VerdictIs
  <2> QED
    BY <1>5, <2>1, ActionableIs DEF MustBeTold, IsMalicious
<1> QED
  BY <1>5, <1>6, DangerOnlyAdds

\* NothingSilencesTheWorst, for every project, choice of profiles and case.
THEOREM ProjectsAreTold == []Asking => []NothingSilencesTheWorst
<1>1. Asking => NothingSilencesTheWorst
  <2> SUFFICES ASSUME Asking, question.kind = "layers",
                      PolicyFor(question.target, question.choice) # Bad
               PROVE  LET policy == PolicyFor(question.target, question.choice)
                      IN  /\ \A case \in Alarms : WorstIsTold(case, policy)
                          /\ policy.ignored_packages \intersect MATCHES_EVERYTHING = {}
    BY DEF NothingSilencesTheWorst
  <2>1. IsProject(question.target)
    BY DecisionsAssumption DEF Asking, LayerQuestions
  <2> QED
    BY <2>1, DecisionsAssumption, ProjectsAreWarned DEF PolicyFor
<1> QED
  BY <1>1, PTL
-----------------------------------------------------------------------------
(***************************************************************************)
(* The two engines.                                                        *)
(***************************************************************************)

\* A package the engine ignores it ignores for the advisory or for a glob.
LEMMA GoIgnores ==
  ASSUME NEW dependency, NEW advisory, NEW kev, NEW policy, NEW epss,
         None \notin policy.ignored_packages
  PROVE  (\E ignore \in ShadowRules(policy).ignored :
              IgnoreMatches(ignore, dependency, ShadowAdvisory(advisory, kev, epss)))
         <=> \/ ({advisory.id} \union advisory.aliases) \intersect policy.ignored_ids # {}
             \/ \E glob \in policy.ignored_packages : dependency.name \in MatchedBy[glob]
<1> DEFINE ids == {advisory.id} \union advisory.aliases
           ByName == {[advisory_id |-> id, package |-> None] : id \in policy.ignored_ids}
           ByGlob == {[advisory_id |-> None, package |-> glob] : glob \in policy.ignored_packages}
           shadow == ShadowAdvisory(advisory, kev, epss)
<1>1. ShadowRules(policy).ignored = ByName \union ByGlob
  BY DEF ShadowRules
<1>2. {shadow.id} \union shadow.aliases = ids
  BY DEF ShadowAdvisory
<1>3. \A id \in policy.ignored_ids :
         IgnoreMatches([advisory_id |-> id, package |-> None], dependency, shadow) <=> id \in ids
  BY <1>2 DEF IgnoreMatches
<1>4. \A glob \in policy.ignored_packages :
         IgnoreMatches([advisory_id |-> None, package |-> glob], dependency, shadow)
            <=> dependency.name \in MatchedBy[glob]
  BY DEF IgnoreMatches
<1> HIDE DEF ids, shadow
<1>5. (\E ignore \in ByName : IgnoreMatches(ignore, dependency, shadow))
         <=> ids \intersect policy.ignored_ids # {}
  BY <1>3
<1>6. (\E ignore \in ByGlob : IgnoreMatches(ignore, dependency, shadow))
         <=> \E glob \in policy.ignored_packages : dependency.name \in MatchedBy[glob]
  BY <1>4
<1> HIDE DEF ByName, ByGlob
<1>7. (\E ignore \in ByName \union ByGlob : IgnoreMatches(ignore, dependency, shadow))
         <=> \/ ids \intersect policy.ignored_ids # {}
             \/ \E glob \in policy.ignored_packages : dependency.name \in MatchedBy[glob]
  BY <1>5, <1>6
<1> QED
  BY <1>1, <1>7 DEF shadow, ids

\* The floors of the two engines are the same floor.
LEMMA FloorsAlike ==
  ASSUME NEW dependency, NEW advisory, NEW policy, IsPolicy(policy),
         dependency.reachability \in Reachabilities, ~ policy.alert_on_dev,
         None \notin Severities, NEW threshold,
         threshold = IF dependency.reachability = "runtime_direct" THEN policy.direct_threshold
                     ELSE IF dependency.reachability = "dev_only" THEN policy.dev_threshold
                     ELSE policy.transitive_threshold
  PROVE  (threshold # None /\ AtLeast(advisory.severity, threshold)) <=>
            /\ ~ FilteredAsDev(policy, advisory, dependency.reachability)
            /\ AtLeast(advisory.severity, ThresholdFor(policy, dependency.reachability))
<1>1. policy.direct_threshold # None /\ policy.transitive_threshold # None
  BY DEF IsPolicy
<1>2. CASE dependency.reachability = "runtime_direct"
  BY <1>1, <1>2 DEF FilteredAsDev, ShipsToProduction, ThresholdFor
<1>3. CASE dependency.reachability = "runtime_transitive"
  BY <1>1, <1>3 DEF FilteredAsDev, ShipsToProduction, ThresholdFor
<1>4. CASE dependency.reachability = "dev_only" /\ policy.dev_threshold = None
  BY <1>4 DEF FilteredAsDev, ShipsToProduction
<1>5. CASE dependency.reachability = "dev_only" /\ policy.dev_threshold # None
  BY <1>5 DEF FilteredAsDev, ShipsToProduction, ThresholdFor
<1> QED
  BY <1>2, <1>3, <1>4, <1>5 DEF Reachabilities

\* Asked about the same match, the engine in Go judges as the matcher does,
\* for every policy that does not use the switch for development dependencies
\* and every advisory that is not withdrawn, unless a glob decides and the two
\* read the policy's globs differently (rules.go, Evaluate; engine_client,
\* _request).
THEOREM EnginesJudgeAlike ==
  ASSUME NEW dependency, NEW advisory, NEW kev, NEW policy, NEW epss, IsPolicy(policy),
         dependency.reachability \in Reachabilities, ~ policy.alert_on_dev,
         ~ advisory.withdrawn, None \notin Severities, None \notin policy.ignored_packages,
         GlobsReadAlike(policy, dependency.name) \/ GlobsAreIdle(policy, advisory, kev)
  PROVE  LET here == Judge(dependency, advisory, CveIds(advisory) \intersect kev # {},
                           EpssFor(advisory, epss), policy).verdict
             there == Evaluate(dependency, ShadowAdvisory(advisory, kev, epss), ShadowRules(policy))
         IN  /\ here \in {"actionable", "suppressed"}
             /\ there = IF here = "suppressed" THEN "filtered" ELSE "actionable"
<1> DEFINE exploited == CveIds(advisory) \intersect kev # {}
           score == EpssFor(advisory, epss)
           ignored == Ignores(policy, advisory, dependency)
           shadow == ShadowAdvisory(advisory, kev, epss)
           config == ShadowRules(policy)
           silenced == \E ignore \in config.ignored : IgnoreMatches(ignore, dependency, shadow)
           threshold == IF dependency.reachability = "runtime_direct" THEN policy.direct_threshold
                        ELSE IF dependency.reachability = "dev_only" THEN policy.dev_threshold
                        ELSE policy.transitive_threshold
           urgent == exploited /\ policy.always_alert_on_kev
           likely == policy.epss_threshold # None /\ score # None /\ score >= policy.epss_threshold
           severe == threshold # None /\ AtLeast(advisory.severity, threshold)
           here == Judge(dependency, advisory, exploited, score, policy).verdict
           there == Evaluate(dependency, shadow, config)
<1>1. here \in {"actionable", "suppressed"}
  BY JudgeTells
<1>2. (here = "actionable") <=> advisory.mal \/ urgent \/ (~ ignored /\ (likely \/ severe))
  <2> DEFINE quiet == FilteredAsDev(policy, advisory, dependency.reachability)
             high == AtLeast(advisory.severity, ThresholdFor(policy, dependency.reachability))
             told == MustBeTold(policy, dependency.reachability, advisory, exploited, score, ignored)
  <2>1. severe <=> ~ quiet /\ high
    BY FloorsAlike
  <2>2. (here = "actionable") <=> told
    BY JudgeTells
  <2>3. told <=> /\ ~ advisory.withdrawn
                 /\ advisory.mal \/ urgent \/ (~ ignored /\ (likely \/ (~ quiet /\ high)))
    BY DEF MustBeTold
  <2> HIDE DEF here, urgent, ignored, likely, severe, quiet, high, told
  <2> QED
    BY <2>1, <2>2, <2>3, Zenon
<1>3. there = IF advisory.mal THEN "actionable"
              ELSE IF ~ urgent /\ silenced THEN "filtered"
              ELSE IF urgent THEN "actionable"
              ELSE IF likely THEN "actionable"
              ELSE IF severe THEN "actionable" ELSE "filtered"
  <2>1. /\ shadow.mal = advisory.mal /\ shadow.severity = advisory.severity
        /\ shadow.known_exploited = exploited /\ shadow.epss_score = score
    BY DEF ShadowAdvisory
  <2>2. /\ config.direct_threshold = policy.direct_threshold
        /\ config.transitive_threshold = policy.transitive_threshold
        /\ config.dev_threshold = policy.dev_threshold
        /\ config.epss_alert_above = policy.epss_threshold
        /\ config.always_alert_on_kev = policy.always_alert_on_kev
        /\ config.block_on_kev = FALSE
    BY DEF ShadowRules
  <2> HIDE DEF shadow, config, exploited, score
  <2> QED
    BY <2>1, <2>2 DEF Evaluate, IsMalicious
<1>4. advisory.mal \/ urgent \/ (silenced <=> ignored)
  <2> DEFINE named == ({advisory.id} \union advisory.aliases) \intersect policy.ignored_ids # {}
             covered == \E glob \in policy.ignored_packages : dependency.name \in CoveredBy[glob]
             matched == \E glob \in policy.ignored_packages : dependency.name \in MatchedBy[glob]
  <2>1. silenced <=> named \/ matched
    BY GoIgnores
  <2>2. ignored <=> named \/ covered
    BY DEF Ignores
  <2>3. (covered <=> matched) \/ advisory.mal \/ urgent \/ named
    BY DEF GlobsReadAlike, GlobsAreIdle, IsMalicious
  <2> HIDE DEF silenced, ignored, named, covered, matched, urgent
  <2> QED
    BY <2>1, <2>2, <2>3
<1> HIDE DEF here, there, urgent, ignored, silenced, likely, severe
<1>5. there = IF here = "suppressed" THEN "filtered" ELSE "actionable"
  BY <1>1, <1>2, <1>3, <1>4, Zenon
<1> QED
  BY <1>1, <1>5 DEF here, there

\* The zeros the engine drops are those the matcher adds.
LEMMA TrimmedIsPadded ==
  ASSUME NEW a \in Seq(Nat)
  PROVE  TrimZeros(a) \in Seq(Nat) /\ \A i \in Places : Padded(TrimZeros(a), i) = Padded(a, i)
<1> DEFINE kept == {i \in DOMAIN a : a[i] # 0} \union {0}
           last == Max(kept)
<1>1. kept \in SUBSET Nat /\ kept # {} /\ (\A i \in kept : i <= Len(a)) /\ Len(a) \in Nat
  OBVIOUS
<1>2. last \in kept /\ \A i \in kept : i <= last
  <2> HIDE DEF kept
  <2> QED
    BY <1>1, GreatestOf
<1>3. last \in 0 .. Len(a)
  BY <1>2
<1>4. TrimZeros(a) = SubSeq(a, 1, last)
  BY DEF TrimZeros
<1> HIDE DEF last
<1>5. /\ TrimZeros(a) \in Seq(Nat) /\ DOMAIN TrimZeros(a) = 1 .. last
      /\ \A i \in 1 .. last : TrimZeros(a)[i] = a[i]
  BY <1>3, <1>4
<1>6. ASSUME NEW i \in Places PROVE Padded(TrimZeros(a), i) = Padded(a, i)
  <2>1. CASE i <= last
    BY <1>3, <1>5, <2>1 DEF Padded, Places
  <2>2. CASE i > last
    <3>1. i \notin kept
      BY <1>2, <1>3, <2>2 DEF Places
    <3> QED
      BY <1>3, <1>5, <2>2, <3>1 DEF Padded, Places
  <2> QED
    BY <1>3, <2>1, <2>2 DEF Places
<1> QED
  BY <1>5, <1>6

LEMMA SaysOnce ==
  ASSUME NEW s \in [Places -> Signs], NEW c, NEW d, Says(s, c), Says(s, d)
  PROVE  c = d
<1>1. CASE \A i \in Places : s[i] = 0
  BY <1>1 DEF Says
<1>2. CASE ~ \A i \in Places : s[i] = 0
  <2>1. PICK k \in Places : s[k] = c /\ c # 0 /\ \A i \in Places : i < k => s[i] = 0
    BY <1>2 DEF Says
  <2>2. PICK m \in Places : s[m] = d /\ d # 0 /\ \A i \in Places : i < m => s[i] = 0
    BY <1>2 DEF Says
  <2>3. ~ (k < m) /\ ~ (m < k)
    BY <2>1, <2>2
  <2>4. k = m
    BY <2>3 DEF Places
  <2> QED
    BY <2>1, <2>2, <2>4
<1> QED
  BY <1>1, <1>2

LEMMA ReleasesAlike ==
  ASSUME NEW a \in Seq(Nat), NEW b \in Seq(Nat)
  PROVE  CompareRelease(TrimZeros(a), TrimZeros(b)) = CompareRelease(a, b)
<1>1. TrimZeros(a) \in Seq(Nat) /\ TrimZeros(b) \in Seq(Nat)
  BY TrimmedIsPadded
<1>2. ReleaseAt(TrimZeros(a), TrimZeros(b)) = ReleaseAt(a, b)
  BY TrimmedIsPadded DEF ReleaseAt
<1>3. /\ ReleaseAt(a, b) \in [Places -> Signs]
      /\ Says(ReleaseAt(a, b), CompareRelease(a, b))
  BY ReleaseSays
<1>4. Says(ReleaseAt(a, b), CompareRelease(TrimZeros(a), TrimZeros(b)))
  BY <1>1, <1>2, ReleaseSays
<1> QED
  BY <1>3, <1>4, SaysOnce

\* Both engines order plain versions alike, and hold none but equal ones equal.
LEMMA EnginesCompareAlike ==
  ASSUME NEW ecosystem \in {"npm", "Go", "crates.io"}, NEW a \in Plain, NEW b \in Plain
  PROVE  /\ GoCompare(a, b) = compare(ecosystem, a, b)
         /\ GoCompare(a, b) = 0 <=> a = b
<1>1. /\ a.nums \in Seq(Nat) /\ b.nums \in Seq(Nat) /\ Len(a.nums) = 3 /\ Len(b.nums) = 3
      /\ a.tail \in Seq(Token) /\ b.tail \in Seq(Token)
      /\ a \in RawVersion /\ b \in RawVersion
  BY DEF Plain, RawVersion
<1> DEFINE release == CompareRelease(a.nums, b.nums)
<1>2. compare(ecosystem, a, b) = IF release # 0 THEN release ELSE ComparePrerelease(a.tail, b.tail)
  BY <1>1 DEF compare, normalize, SemVerCompare, RawVersion
<1>3. release \in Signs /\ (release = 0 => a.nums = b.nums)
  <2>1. ReleaseAt(a.nums, b.nums) \in [Places -> Signs] /\ Says(ReleaseAt(a.nums, b.nums), release)
    BY <1>1, ReleaseSays
  <2>2. release \in Signs
    BY <2>1 DEF Says, Signs
  <2>3. ASSUME release = 0 PROVE a.nums = b.nums
    <3>1. \A i \in Places : ReleaseAt(a.nums, b.nums)[i] = 0
      BY <2>1, <2>3 DEF Says
    <3>2. ASSUME NEW i \in 1 .. 3 PROVE a.nums[i] = b.nums[i]
      <4>1. i \in Places /\ Padded(a.nums, i) = a.nums[i] /\ Padded(b.nums, i) = b.nums[i]
        BY <1>1 DEF Padded, Places
      <4>2. Sign(a.nums[i] - b.nums[i]) = 0
        BY <3>1, <4>1 DEF ReleaseAt
      <4>3. a.nums[i] \in Int /\ b.nums[i] \in Int
        BY <1>1
      <4> QED
        BY <4>2, <4>3, SignsOfDifferences
    <3>3. ASSUME NEW s \in Seq(Nat), Len(s) = 3 PROVE s \in [1 .. 3 -> Nat]
      BY <3>3
    <3>4. a.nums \in [1 .. 3 -> Nat] /\ b.nums \in [1 .. 3 -> Nat]
      BY <1>1, <3>3
    <3> QED
      BY <3>2, <3>4
  <2> QED
    BY <2>2, <2>3
<1> DEFINE Bare(v) == v.tail = << >>
           Pre(v) == /\ Len(v.tail) = 1 /\ ~ v.tail[1].num /\ v.tail[1].val \in Nat
                     /\ Qualifier(v.tail) = -1 /\ v.tail # << >>
<1>4. ASSUME NEW v \in Plain PROVE Bare(v) \/ Pre(v)
  <2>1. v.tail \in Seq(Token)
    BY DEF Plain, RawVersion
  <2>2. CASE v.tail # << >>
    <3>1. /\ Len(v.tail) = 1 /\ ~ v.tail[1].num
          /\ v.tail \notin {<< Word("release") >>, << Word("final") >>, << Word("ga") >>}
      BY <2>2 DEF Plain
    <3>2. v.tail[1] \in Token
      BY <2>1, <3>1
    <3>3. v.tail[1].val \in Nat
      BY <3>2 DEF Token
    <3>4. Qualifier(v.tail) = -1
      BY <2>2, <3>1 DEF Qualifier
    <3> QED
      BY <2>2, <3>1, <3>3, <3>4
  <2> QED
    BY <2>2
<1>5. ASSUME NEW v \in Plain
      PROVE  TrimZeroTokens(v.tail) = v.tail /\ (Bare(v) => Qualifier(v.tail) = 0)
  <2> DEFINE kept == {i \in DOMAIN v.tail : ~ (v.tail[i].num /\ v.tail[i].val = 0)}
  <2>1. v.tail \in Seq(Token)
    BY DEF Plain, RawVersion
  <2>2. kept = DOMAIN v.tail
    BY <1>4, <2>1
  <2>3. Max(kept \union {0}) = Len(v.tail)
    <3>1. kept \union {0} = 0 .. Len(v.tail)
      BY <2>1, <2>2
    <3>2. \A n \in Nat : Max(0 .. n) = n
      BY DEF Max
    <3>3. Len(v.tail) \in Nat
      BY <2>1
    <3> HIDE DEF kept
    <3> QED
      BY <3>1, <3>2, <3>3
  <2>4. TrimZeroTokens(v.tail) = v.tail
    BY <2>1, <2>3 DEF TrimZeroTokens
  <2> QED
    BY <2>4 DEF Qualifier
<1> DEFINE qualifier == Sign(Qualifier(a.tail) - Qualifier(b.tail))
           detail == FirstSign([i \in 1 .. Longer(a.tail, b.tail) |->
                                   DetailSign(TokenAt(a.tail, i), TokenAt(b.tail, i))])
<1>6. GoCompare(a, b) = IF release # 0 THEN release ELSE IF qualifier # 0 THEN qualifier ELSE detail
  <2>1. CompareRelease(TrimZeros(a.nums), TrimZeros(b.nums)) = release
    BY <1>1, ReleasesAlike
  <2>2. TrimZeroTokens(a.tail) = a.tail /\ TrimZeroTokens(b.tail) = b.tail
    BY <1>5
  <2> QED
    BY <2>1, <2>2 DEF GoCompare
<1>7. /\ (IF qualifier # 0 THEN qualifier ELSE detail) = ComparePrerelease(a.tail, b.tail)
      /\ ComparePrerelease(a.tail, b.tail) = 0 <=> a.tail = b.tail
  <2>1. CASE Bare(a) /\ Bare(b)
    <3>1. qualifier = 0
      BY <1>5, <2>1 DEF Sign
    <3>2. Longer(a.tail, b.tail) = 0
      BY <2>1 DEF Longer
    <3>3. detail = 0
      BY <3>2 DEF FirstSign
    <3>4. ComparePrerelease(a.tail, b.tail) = 0
      BY <2>1 DEF ComparePrerelease, Sign
    <3> QED
      BY <2>1, <3>1, <3>3, <3>4
  <2>2. CASE Bare(a) /\ Pre(b)
    BY <1>5, <2>2 DEF ComparePrerelease, Sign
  <2>3. CASE Pre(a) /\ Bare(b)
    BY <1>5, <2>3 DEF ComparePrerelease, Sign
  <2>4. CASE Pre(a) /\ Pre(b)
    <3> DEFINE x == a.tail[1]
               y == b.tail[1]
               sign == Sign(x.val - y.val)
    <3>1. qualifier = 0
      BY <2>4 DEF Sign
    <3>2. /\ Longer(a.tail, b.tail) = 1 /\ Shorter(a.tail, b.tail) = 1
          /\ DOMAIN a.tail = 1 .. 1 /\ DOMAIN b.tail = 1 .. 1
      BY <1>1, <2>4 DEF Longer, Shorter
    <3>3. ASSUME NEW s, s = [i \in 1 .. 1 |-> s[1]]
          PROVE  FirstSign(s) = s[1]
      <4>1. DOMAIN s = 1 .. 1
        BY <3>3
      <4>2. CASE s[1] = 0
        <5>1. {i \in DOMAIN s : s[i] # 0} = {}
          BY <4>1, <4>2
        <5> QED
          BY <4>2, <5>1 DEF FirstSign
      <4>3. CASE s[1] # 0
        <5>1. {i \in DOMAIN s : s[i] # 0} = {1}
          BY <4>1, <4>3
        <5>2. Min({1}) = 1
          BY DEF Min
        <5> QED
          BY <5>1, <5>2 DEF FirstSign
      <4> QED
        BY <4>2, <4>3
    <3>4. DetailSign(TokenAt(a.tail, 1), TokenAt(b.tail, 1)) = sign
      BY <2>4, <3>2 DEF DetailSign, TokenAt
    <3>5. CompareIdent(a.tail[1], b.tail[1]) = sign
      <4>1. x.num = y.num
        <5>1. x \in Token /\ y \in Token
          BY <1>1, <2>4
        <5> QED
          BY <2>4, <5>1 DEF Token
      <4> QED
        BY <4>1 DEF CompareIdent
    <3>6. detail = sign
      <4> DEFINE s == [i \in 1 .. 1 |-> DetailSign(TokenAt(a.tail, i), TokenAt(b.tail, i))]
      <4>1. s = [i \in 1 .. 1 |-> s[1]] /\ s[1] = sign
        BY <3>4
      <4>2. detail = FirstSign(s)
        BY <3>2
      <4> HIDE DEF s, detail, sign
      <4> QED
        BY <3>3, <4>1, <4>2
    <3>7. ComparePrerelease(a.tail, b.tail) = sign
      <4> DEFINE s == [i \in 1 .. 1 |-> CompareIdent(a.tail[i], b.tail[i])]
      <4>1. s = [i \in 1 .. 1 |-> s[1]] /\ s[1] = sign
        BY <3>5
      <4>2. ComparePrerelease(a.tail, b.tail) = IF FirstSign(s) # 0 THEN FirstSign(s) ELSE 0
        BY <2>4, <3>2 DEF ComparePrerelease, Sign
      <4> HIDE DEF s, sign
      <4> QED
        BY <3>3, <4>1, <4>2
    <3>8. sign = 0 <=> a.tail = b.tail
      <4>1. x.val \in Int /\ y.val \in Int /\ x \in Token /\ y \in Token
        BY <1>1, <2>4
      <4>2. sign = 0 <=> x.val = y.val
        BY <4>1, SignsOfDifferences
      <4>3. x.val = y.val => x = y
        BY <2>4, <4>1 DEF Token
      <4>4. x = y => a.tail = b.tail
        BY <1>1, <3>2
      <4> QED
        BY <4>2, <4>3, <4>4
    <3> QED
      BY <3>1, <3>6, <3>7, <3>8
  <2> QED
    BY <1>4, <2>1, <2>2, <2>3, <2>4
<1>8. a.nums = b.nums /\ a.tail = b.tail => a = b
  BY <1>1 DEF Plain, RawVersion
<1>9. release # 0 => a # b
  <2>1. ASSUME a = b PROVE release = 0
    <3>1. Ordered(ecosystem, a, a, a) /\ compare(ecosystem, a, a) \in Signs
      BY <1>1, SemVerOrders, SemVerSigns
    <3>2. compare(ecosystem, a, a) = 0
      BY <3>1 DEF Ordered, Signs
    <3> QED
      BY <1>2, <2>1, <3>2
  <2> QED
    BY <2>1
<1> HIDE DEF release, qualifier, detail
<1> QED
  BY <1>2, <1>3, <1>6, <1>7, <1>8, <1>9

LEMMA PlainStays ==
  ASSUME NEW ecosystem, NEW v \in Plain
  PROVE  normalize(ecosystem, v) = v /\ Parses(v)
<1>1. v \in RawVersion /\ v.ok = TRUE /\ v.v = FALSE /\ v.incompatible = FALSE
  BY DEF Plain, RawVersion
<1> QED
  BY <1>1 DEF normalize, Parses, RawVersion

\* An entry covers the same plain versions for both.
LEMMA EnginesMatchAlike ==
  ASSUME NEW ecosystem \in {"npm", "Go", "crates.io"}, NEW version \in Plain,
         NEW entry, IsPlainEntry(entry)
  PROVE  version_matches(ecosystem, version, entry) <=> affectedBy(version, entry)
<1>1. \A candidate \in entry.versions :
         normalize(ecosystem, candidate) = normalize(ecosystem, version)
            <=> GoCompare(version, candidate) = 0
  BY PlainStays, EnginesCompareAlike DEF IsPlainEntry
<1>2. ASSUME NEW i \in DOMAIN entry.ranges
      PROVE  in_range(ecosystem, version, entry.ranges[i]) <=> GoInRange(version, entry.ranges[i])
  <2> DEFINE rng == entry.ranges[i]
  <2>1. /\ rng.introduced \in Plain \union {None} /\ rng.fixed \in Plain \union {None}
        /\ rng.last_affected \in Plain \union {None}
    BY DEF IsPlainEntry
  <2>2. \A bound \in Plain :
           Parses(bound) /\ GoCompare(version, bound) = compare(ecosystem, version, bound)
    BY PlainStays, EnginesCompareAlike
  <2> HIDE DEF rng
  <2>3. in_range(ecosystem, version, rng) <=> GoInRange(version, rng)
    BY <2>1, <2>2 DEF in_range, GoInRange
  <2> QED
    BY <2>3 DEF rng
<1>3. Parses(version)
  BY PlainStays
<1> QED
  BY <1>1, <1>2, <1>3 DEF version_matches, affectedBy

\* And has the same fix: the fixes compare alike, so the same one is the lowest.
LEMMA EnginesFixAlike ==
  ASSUME NEW dependency, NEW entry, dependency.ecosystem \in {"npm", "Go", "crates.io"},
         dependency.version \in Plain, IsPlainEntry(entry)
  PROVE  GoFix(dependency, entry) =
         first_fixed_version(dependency.ecosystem, dependency.version, entry)
<1> DEFINE ecosystem == dependency.ecosystem
           version == dependency.version
           ranges == entry.ranges
           here == {i \in DOMAIN ranges : /\ ranges[i].fixed # None
                                          /\ Parses(ranges[i].fixed)
                                          /\ compare(ecosystem, ranges[i].fixed, version) > 0}
           there == {i \in DOMAIN ranges : /\ ranges[i].fixed # None
                                           /\ GoCompare(ranges[i].fixed, version) > 0}
<1>1. first_fixed_version(ecosystem, version, entry) =
         LowestFix(ranges, here, FixSigns(ecosystem, ranges, here))
  BY DEF first_fixed_version
<1>2. GoFix(dependency, entry) = LowestFix(ranges, there, GoFixSigns(ranges, there))
  BY DEF GoFix
<1>3. \A i \in DOMAIN ranges : ranges[i].fixed # None => ranges[i].fixed \in Plain
  BY DEF IsPlainEntry
<1>4. \A v \in Plain : Parses(v)
  BY PlainStays
<1>5. \A v, w \in Plain : GoCompare(v, w) = compare(ecosystem, v, w)
  BY EnginesCompareAlike
<1>6. here = there
  BY <1>3, <1>4, <1>5
<1>7. FixSigns(ecosystem, ranges, here) = GoFixSigns(ranges, here)
  <2>1. \A i \in here : ranges[i].fixed \in Plain
    BY <1>3
  <2> HIDE DEF here, ranges, ecosystem
  <2>2. \A p \in here \X here :
           compare(ecosystem, ranges[p[1]].fixed, ranges[p[2]].fixed) =
           GoCompare(ranges[p[1]].fixed, ranges[p[2]].fixed)
    BY <1>5, <2>1
  <2> QED
    BY <2>2 DEF FixSigns, GoFixSigns
<1> HIDE DEF here, there, ranges, ecosystem, version
<1>8. first_fixed_version(ecosystem, version, entry) = GoFix(dependency, entry)
  BY <1>1, <1>2, <1>6, <1>7
<1> QED
  BY <1>8 DEF ecosystem, version

\* What both hold of a pair, when both have judged it.
LEMMA EnginesHoldAlike ==
  ASSUME NEW case, NEW policy, IsCase(case), IsPlainCase(case), IsPolicy(policy),
         ~ policy.alert_on_dev, ~ case.advisory.withdrawn, None \notin Severities,
         \/ GlobsReadAlike(policy, case.dependency.name)
         \/ GlobsAreIdle(policy, case.advisory, case.kev)
  PROVE  ShadowMatches(case.dependency, case.advisory, case.kev, policy, case.epss)
<1> DEFINE dependency == case.dependency
           advisory == case.advisory
           shadow == ShadowAdvisory(advisory, case.kev, case.epss)
           config == ShadowRules(policy)
           entry == MatchingAffected(dependency, advisory)
           exploited == CveIds(advisory) \intersect case.kev # {}
           score == EpssFor(advisory, case.epss)
           here == Judge(dependency, advisory, exploited, score, policy).verdict
           there == Evaluate(dependency, shadow, config)
           decision == triage(dependency, advisory, case.kev, policy, case.epss)
           ecosystem == dependency.ecosystem
           fix == first_fixed_version(ecosystem, dependency.version, entry)
<1>1. /\ shadow.affected = advisory.affected /\ shadow.withdrawn = advisory.withdrawn
      /\ config.max_depth = policy.max_depth
  BY DEF ShadowAdvisory, ShadowRules
<1>2. MatchedEntry(dependency, shadow) = entry
  <2> DEFINE affected == advisory.affected
             ours == {i \in DOMAIN affected : Covers(dependency, affected[i])}
             theirs == {i \in DOMAIN affected :
                          /\ affected[i].ecosystem = dependency.ecosystem
                          /\ affected[i].name = dependency.name
                          /\ affectedBy(dependency.version, affected[i])}
  <2>1. ASSUME NEW i \in DOMAIN affected, affected[i].ecosystem = dependency.ecosystem
        PROVE  version_matches(dependency.ecosystem, dependency.version, affected[i])
                  <=> affectedBy(dependency.version, affected[i])
    <3>1. IsPlainEntry(affected[i]) /\ dependency.version \in Plain
          /\ dependency.ecosystem \in {"npm", "Go", "crates.io"}
      BY <2>1 DEF IsPlainCase
    <3> QED
      BY <3>1, EnginesMatchAlike
  <2>2. ours = theirs
    BY <2>1 DEF Covers
  <2>3. entry = FirstOrNone(affected, ours)
    BY DEF MatchingAffected
  <2>4. MatchedEntry(dependency, shadow) = FirstOrNone(affected, theirs)
    BY <1>1 DEF MatchedEntry
  <2> HIDE DEF ours, theirs, entry
  <2> QED
    BY <2>2, <2>3, <2>4
<1>3. entry # None => IsPlainEntry(entry)
  <2> DEFINE ours == {i \in DOMAIN advisory.affected : Covers(dependency, advisory.affected[i])}
  <2> SUFFICES ASSUME entry # None PROVE IsPlainEntry(entry)
    OBVIOUS
  <2>1. ours # {} /\ entry = advisory.affected[Min(ours)]
    BY DEF MatchingAffected, FirstOrNone
  <2>2. ours \in SUBSET Nat
    BY DEF IsCase
  <2>3. Min(ours) \in ours
    BY <2>1, <2>2, LeastOf
  <2> QED
    BY <2>1, <2>3 DEF IsPlainCase, Covers
<1>4. entry # None => GoFix(dependency, entry) = fix
  BY <1>3, EnginesFixAlike DEF IsPlainCase
<1>5. /\ here \in {"actionable", "suppressed"}
      /\ there = IF here = "suppressed" THEN "filtered" ELSE "actionable"
  <2>1. dependency.reachability \in Reachabilities
    BY DEF IsCase
  <2>2. None \notin policy.ignored_packages
    BY DEF IsPolicy
  <2>3. ~ advisory.withdrawn
    OBVIOUS
  <2>4. GlobsReadAlike(policy, dependency.name) \/ GlobsAreIdle(policy, advisory, case.kev)
    OBVIOUS
  <2> HIDE DEF dependency, advisory
  <2> QED
    BY <2>1, <2>2, <2>3, <2>4, EnginesJudgeAlike
<1>6. /\ decision.verdict = IF entry = None THEN "not_affected" ELSE here
      /\ decision.fixed_version = IF entry = None THEN None ELSE fix
  BY DEF triage, MatchResult, Decision
<1> DEFINE held == IF entry = None THEN {} ELSE {<< here, fix >>}
<1>7. HeldByPython(decision) = held
  <2> HIDE DEF decision, here, fix, entry
  <2> QED
    BY <1>5, <1>6 DEF HeldByPython
<1>8. HeldByGo(FindingOn(entry, dependency, shadow, config)) = held
  <2>1. CASE entry = None
    BY <2>1 DEF FindingOn, HeldByGo
  <2>2. CASE entry # None
    <3>1. FindingOn(entry, dependency, shadow, config) = {<< there, fix >>}
      BY <1>4, <2>2 DEF FindingOn
    <3> HIDE DEF there, fix, here, entry
    <3>2. HeldByGo({<< there, fix >>}) =
             {<< IF there = "filtered" THEN "suppressed" ELSE there, fix >>}
      BY DEF HeldByGo
    <3>3. (IF there = "filtered" THEN "suppressed" ELSE there) = here
      BY <1>5
    <3> QED
      BY <2>2, <3>1, <3>2, <3>3
  <2> QED
    BY <2>1, <2>2
<1>9. policy.max_depth \in Nat \union {None} /\ dependency.depth \in Nat
  BY DEF IsPolicy, IsCase
<1>10. GoFinding(dependency, shadow, config) =
          IF WithinDepth(policy, dependency)
          THEN FindingOn(entry, dependency, shadow, config) ELSE {}
  <2>1. WithinDepth(policy, dependency) <=>
           ~ (config.max_depth # None /\ dependency.depth > config.max_depth)
    BY <1>1, <1>9 DEF WithinDepth
  <2> HIDE DEF shadow, config, entry, dependency
  <2> QED
    BY <1>2, <2>1 DEF GoFinding
<1>11. HeldByGo({}) = {}
  BY DEF HeldByGo
<1> HIDE DEF decision, held, entry, shadow, config
<1>12. HeldByGo(GoFinding(dependency, shadow, config)) =
          IF WithinDepth(policy, dependency) THEN HeldByPython(decision) ELSE {}
  BY <1>7, <1>8, <1>10, <1>11
<1> QED
  BY <1>12 DEF ShadowMatches, shadow, config, decision

\* EngineAgrees, for every policy and every case on plain versions, whatever
\* the globs are and however either engine reads them.
THEOREM EnginesAgree ==
  ASSUME \A case \in Cases : IsPlainCase(case)
  PROVE  []Asking => []EngineAgrees
<1>1. Asking => EngineAgrees
  <2> SUFFICES ASSUME Asking, question.kind = "triage",
                      ~ question.case.advisory.withdrawn, ~ question.policy.alert_on_dev,
                      \/ GlobsReadAlike(question.policy, question.case.dependency.name)
                      \/ GlobsAreIdle(question.policy, question.case.advisory, question.case.kev)
               PROVE  ShadowMatches(question.case.dependency, question.case.advisory,
                                    question.case.kev, question.policy, question.case.epss)
    BY DEF EngineAgrees
  <2>1. question.case \in Cases /\ question.policy \in PoliciesAsked
    BY DEF Asking, TriageQuestions
  <2>2. /\ IsCase(question.case) /\ IsPlainCase(question.case) /\ IsPolicy(question.policy)
        /\ None \notin Severities
    BY <2>1, DecisionsAssumption
  <2> QED
    BY <2>2, EnginesHoldAlike
<1> QED
  BY <1>1, PTL

-----------------------------------------------------------------------------
(***************************************************************************)
(* The source a project uploads.                                           *)
(***************************************************************************)

States == DOMAIN Strength

LEMMA StatesAre ==
  /\ States = {"unknown", "not_observed", "potentially_reachable", "reachable"}
  /\ Strength["unknown"] = 0 /\ Strength["not_observed"] = 0
  /\ Strength["potentially_reachable"] = 1 /\ Strength["reachable"] = 2
BY DEF States, Strength

\* What was imported still is with a file more.
LEMMA ImportsGrow ==
  ASSUME NEW files, NEW more
  PROVE  /\ Imports(files) \subseteq Imports(files \union {more})
         /\ \A package : Imported(files, package) => Imported(files \union {more}, package)
<1>1. Imports(files) \subseteq Imports(files \union {more})
  BY DEF Imports, Readable
<1> QED
  BY <1>1 DEF Imported

\* What the analyser answers, as four conditions.
LEMMA AnalyzedIs ==
  ASSUME NEW dependency, NEW bundle
  PROVE  LET state == AnalyzeOne(dependency, bundle)
             throughRoot == /\ dependency.via # << >>
                            /\ dependency.depth > 0
                            /\ Imported(bundle.files, dependency.via[1])
             own == << dependency.name, TRUE >> \in Imports(bundle.files)
             seen == Imported(bundle.files, dependency.name) \/ throughRoot
         IN  /\ state \in States
             /\ state = "reachable" <=> own
             /\ state = "potentially_reachable" <=> ~ own /\ seen
             /\ state = "not_observed" => ~ own /\ ~ seen /\ ~ Uncertain(bundle)
             /\ ~ own /\ ~ seen /\ ~ Uncertain(bundle)
                  /\ ~ (dependency.depth > 0 /\ dependency.via = << >>) => state = "not_observed"
             /\ state = "not_observed" => ~ (dependency.depth > 0 /\ dependency.via = << >>)
BY StatesAre DEF AnalyzeOne

\* MoreSourceNeverHides, for every dependency, bundle and file.
THEOREM SourceOnlyAdds == []Asking => []MoreSourceNeverHides
<1>1. Asking => MoreSourceNeverHides
  <2> SUFFICES ASSUME Asking, question.kind = "sources", NEW more \in Sources
               PROVE  LET dependency == question.dependency
                          before == State(question, question.files)
                          after == State(question, question.files \union {more})
                      IN  /\ Strength[after] >= Strength[before]
                          /\ after = "not_observed" =>
                                  /\ question.complete /\ ~ more.dynamic /\ more.supported
                                  /\ dependency.name \notin more.imports
                                  /\ before = "not_observed"
                          /\ GoState(dependency, question.files) = "not_observed"
                                  => Strength[before] = 0
                          /\ CarryForward(Copy(dependency, 1), Stored(dependency, before)) = before
                          /\ CarryForward(Copy(dependency, 2), Stored(dependency, before)) = "unknown"
    BY DEF MoreSourceNeverHides
  <2> DEFINE dependency == question.dependency
             some == question.files
             all == question.files \union {more}
             less == [files |-> some, complete |-> question.complete]
             full == [files |-> all, complete |-> question.complete]
             before == State(question, some)
             after == State(question, all)
             Own(files) == << dependency.name, TRUE >> \in Imports(files)
             Through(files) == /\ dependency.via # << >>
                               /\ dependency.depth > 0
                               /\ Imported(files, dependency.via[1])
             Seen(files) == Imported(files, dependency.name) \/ Through(files)
             Lost == dependency.depth > 0 /\ dependency.via = << >>
  <2>1. /\ before \in States
        /\ before = "reachable" <=> Own(some)
        /\ before = "potentially_reachable" <=> ~ Own(some) /\ Seen(some)
        /\ ~ Own(some) /\ ~ Seen(some) /\ ~ Uncertain(less) /\ ~ Lost => before = "not_observed"
    <3>1. before = AnalyzeOne(dependency, less) /\ less.files = some
      BY DEF State
    <3> HIDE DEF less, before, some, dependency
    <3> QED
      BY <3>1, AnalyzedIs
  <2>2. /\ after \in States
        /\ after = "reachable" <=> Own(all)
        /\ after = "potentially_reachable" <=> ~ Own(all) /\ Seen(all)
        /\ after = "not_observed" => ~ Own(all) /\ ~ Seen(all) /\ ~ Uncertain(full) /\ ~ Lost
    <3>1. after = AnalyzeOne(dependency, full) /\ full.files = all
      BY DEF State
    <3> HIDE DEF full, after, all, dependency
    <3> QED
      BY <3>1, AnalyzedIs
  <2>3. (Own(some) => Own(all)) /\ (Seen(some) => Seen(all))
    BY ImportsGrow
  <2>4. ~ Uncertain(full) => /\ ~ Uncertain(less) /\ question.complete
                             /\ more.supported /\ ~ more.dynamic
    BY DEF Uncertain
  <2>5. more.supported /\ dependency.name \in more.imports => Seen(all)
    <3>1. more.production \in BOOLEAN
      BY DecisionsAssumption
    <3>2. more.supported /\ dependency.name \in more.imports
             => << dependency.name, more.production >> \in Imports(all)
      BY DEF Imports, Readable
    <3> QED
      BY <3>1, <3>2 DEF Imported
  <2>6. GoState(dependency, some) = "not_observed" => ~ Own(some) /\ ~ Seen(some)
    <3> SUFFICES ASSUME GoState(dependency, some) = "not_observed"
                 PROVE  ~ Own(some) /\ ~ Seen(some)
      OBVIOUS
    <3>1. /\ ~ \E f \in some : dependency.name \in f.imports
          /\ ~ (/\ dependency.depth > 0
                /\ dependency.via # << >>
                /\ \E f \in some : dependency.via[1] \in f.imports)
      BY DEF GoState, GoAnalyzeOne
    <3>2. \A package, production :
             << package, production >> \in Imports(some) => \E f \in some : package \in f.imports
      BY DEF Imports, Readable
    <3> QED
      BY <3>1, <3>2 DEF Imported
  <2>7. /\ CarryForward(Copy(dependency, 1), Stored(dependency, before)) = before
        /\ CarryForward(Copy(dependency, 2), Stored(dependency, before)) = "unknown"
    <3> HIDE DEF before, dependency
    <3> DEFINE stored == [name |-> dependency.name, version |-> 1, automated_reachability |-> before]
    <3>1. {r \in {stored} : r.name = dependency.name /\ r.version = 1} = {stored}
      OBVIOUS
    <3>2. {r \in {stored} : r.name = dependency.name /\ r.version = 2} = {}
      OBVIOUS
    <3>3. (CHOOSE r \in {stored} : TRUE) = stored
      OBVIOUS
    <3>4. stored.automated_reachability = before
      OBVIOUS
    <3>5. Stored(dependency, before) = {stored}
      BY DEF Stored
    <3>6. \A v : Copy(dependency, v).name = dependency.name /\ Copy(dependency, v).version = v
      BY DEF Copy
    <3> HIDE DEF stored
    <3> QED
      BY <3>1, <3>2, <3>3, <3>4, <3>5, <3>6 DEF CarryForward
  <2> HIDE DEF dependency, some, all, less, full, before, after, Own, Seen, Through, Lost
  <2>8. Strength[after] >= Strength[before]
    BY <2>1, <2>2, <2>3, StatesAre
  <2>9. after = "not_observed" =>
           /\ question.complete /\ ~ more.dynamic /\ more.supported
           /\ dependency.name \notin more.imports
           /\ before = "not_observed"
    BY <2>1, <2>2, <2>3, <2>4, <2>5
  <2>10. GoState(dependency, some) = "not_observed" => Strength[before] = 0
    BY <2>1, <2>6, StatesAre
  <2> QED
    BY <2>7, <2>8, <2>9, <2>10 DEF dependency, some, all, before, after
<1> QED
  BY <1>1, PTL

-----------------------------------------------------------------------------
(***************************************************************************)
(* Numbers in order.                                                       *)
(***************************************************************************)

\* Numbers in order are those numbers: each has a place, and each place one.
LEMMA OrderKeepsAll ==
  ASSUME NEW S \in SUBSET Nat, IsFiniteSet(S)
  PROVE  InOrder(S) \in [1 .. Cardinality(S) -> S] /\ ToSet(InOrder(S)) = S
<1> DEFINE Under(n) == {m \in S : m < n}
           Rank(n) == Cardinality(Under(n))
           size == Cardinality(S)
<1>0. size \in Nat /\ \A n \in S : n \in Int
  BY FS_CardinalityType
<1>1. \A n \in S : IsFiniteSet(Under(n)) /\ Rank(n) \in 0 .. size - 1
  <2> SUFFICES ASSUME NEW n \in S PROVE IsFiniteSet(Under(n)) /\ Rank(n) \in 0 .. size - 1
    OBVIOUS
  <2>1. IsFiniteSet(S \ {n}) /\ Cardinality(S \ {n}) = size - 1
    BY FS_RemoveElement
  <2>2. Under(n) \in SUBSET (S \ {n})
    OBVIOUS
  <2>3. IsFiniteSet(Under(n)) /\ Rank(n) <= size - 1
    BY <2>1, <2>2, FS_Subset
  <2>4. Rank(n) \in Nat /\ size \in Nat
    BY <2>3, FS_CardinalityType
  <2> QED
    BY <2>3, <2>4
<1>2. \A n, p \in S : n < p => Rank(n) < Rank(p)
  <2> SUFFICES ASSUME NEW n \in S, NEW p \in S, n < p PROVE Rank(n) < Rank(p)
    OBVIOUS
  <2>1. n \in Under(p) /\ IsFiniteSet(Under(p))
    BY <1>1
  <2>2. IsFiniteSet(Under(p) \ {n}) /\ Cardinality(Under(p) \ {n}) = Rank(p) - 1
    BY <2>1, FS_RemoveElement
  <2>3. Under(n) \in SUBSET (Under(p) \ {n})
    <3>1. \A m \in S : m < n => m < p /\ m # n
      BY <1>0
    <3> QED
      BY <3>1
  <2>4. Rank(n) <= Rank(p) - 1
    BY <2>2, <2>3, FS_Subset
  <2>5. Rank(n) \in Int /\ Rank(p) \in Int
    BY <1>1, FS_CardinalityType
  <2> QED
    BY <2>4, <2>5
<1>3. \A k \in 1 .. size : \E n \in S : Rank(n) = k - 1
  <2> DEFINE Missing == {k \in 1 .. size : \A n \in S : Rank(n) # k - 1}
  <2> SUFFICES ASSUME Missing # {} PROVE FALSE
    OBVIOUS
  <2> DEFINE k == Min(Missing)
  <2>1. k \in Missing /\ \A j \in Missing : k <= j
    <3>1. Missing \in SUBSET Nat
      OBVIOUS
    <3> QED
      BY <3>1, LeastOf
  <2>2. k \in 1 .. size /\ \A n \in S : Rank(n) # k - 1
    BY <2>1
  <2> HIDE DEF k, Rank
  <2>3. CASE k = 1
    <3>1. S # {}
      BY <2>2, <1>0, FS_EmptySet
    <3>2. Min(S) \in S /\ \A n \in S : Min(S) <= n
      BY <3>1, LeastOf
    <3>3. Under(Min(S)) = {}
      <4> DEFINE low == Min(S)
      <4>1. low \in S /\ \A n \in S : low <= n
        BY <3>2
      <4> HIDE DEF low
      <4>2. \A n \in S : ~ (n < low)
        BY <1>0, <4>1
      <4>3. Under(low) = {}
        BY <4>2
      <4> QED
        BY <4>3 DEF low
    <3>4. Rank(Min(S)) = 0
      BY <3>3, FS_EmptySet DEF Rank
    <3> QED
      BY <2>2, <2>3, <3>2, <3>4, 1 - 1 = 0
  <2>4. CASE k # 1
    <3>1. k - 1 \in 1 .. size /\ k - 1 \notin Missing
      BY <1>0, <2>1, <2>2, <2>4
    <3>2. PICK n \in S : Rank(n) = k - 2
      <4>1. \E n \in S : Rank(n) = (k - 1) - 1
        BY <3>1
      <4>2. (k - 1) - 1 = k - 2
        BY <2>2, <1>0
      <4> QED
        BY <4>1, <4>2
    <3> DEFINE Above == {m \in S : m > n}
    <3>3. IsFiniteSet(Under(n) \union {n}) /\ Cardinality(Under(n) \union {n}) = k - 1
      <4>1. IsFiniteSet(Under(n)) /\ n \notin Under(n)
        BY <1>1
      <4>2. Cardinality(Under(n) \union {n}) = Cardinality(Under(n)) + 1 /\ IsFiniteSet(Under(n) \union {n})
        BY <4>1, FS_AddElement
      <4> HIDE DEF Under
      <4> QED
        BY <4>2, <3>2, <2>2, <1>0 DEF Rank
    <3>4. Above # {}
      <4> SUFFICES ASSUME Above = {} PROVE FALSE
        OBVIOUS
      <4>1. S = Under(n) \union {n}
        <5>1. \A m \in S : m < n \/ m = n
          BY <1>0
        <5> QED
          BY <5>1
      <4>2. size = k - 1
        BY <4>1, <3>3
      <4> QED
        BY <4>2, <2>2, <1>0
    <3>5. Min(Above) \in Above /\ \A m \in Above : Min(Above) <= m
      <4>1. Above \in SUBSET Nat
        OBVIOUS
      <4> HIDE DEF Above
      <4> QED
        BY <3>4, <4>1, LeastOf
    <3> DEFINE p == Min(Above)
    <3>6. Under(p) = Under(n) \union {n}
      <4>1. p \in S /\ p > n
        BY <3>5
      <4>2. \A m \in S : m < p => m <= n
        <5> SUFFICES ASSUME NEW m \in S, m < p, m > n PROVE FALSE
          BY <1>0
        <5>1. m \in Above
          OBVIOUS
        <5>2. p <= m /\ p \in S
          BY <3>5, <5>1
        <5> HIDE DEF p
        <5> QED
          BY <5>2, <1>0
      <4> HIDE DEF p
      <4>3. \A m \in S : m < p <=> (m < n \/ m = n)
        BY <1>0, <4>1, <4>2
      <4> QED
        BY <4>3
    <3>7. p \in S /\ Rank(p) = k - 1
      BY <3>3, <3>5, <3>6 DEF Rank
    <3> QED
      BY <2>2, <3>7
  <2> QED
    BY <2>3, <2>4
<1> DEFINE s == InOrder(S)
<1> DEFINE At(k) == CHOOSE n \in S : Rank(n) = k - 1
<1>s. s = [k \in 1 .. size |-> At(k)]
  BY DEF InOrder
<1>a. \A k \in 1 .. size : At(k) \in S /\ Rank(At(k)) = k - 1
  <2> HIDE DEF Rank
  <2> QED
    BY <1>3
<1>4. DOMAIN s = 1 .. size /\ \A k \in 1 .. size : s[k] \in S /\ Rank(s[k]) = k - 1
  <2> HIDE DEF s, Rank, At
  <2> QED
    BY <1>s, <1>a
<1>5. s \in [1 .. size -> S]
  <2> HIDE DEF s, Rank, At
  <2> QED
    BY <1>s, <1>a
<1>6. \A n \in S : \E k \in 1 .. size : s[k] = n
  <2> SUFFICES ASSUME NEW n \in S PROVE \E k \in 1 .. size : s[k] = n
    OBVIOUS
  <2> HIDE DEF s, Rank, size
  <2>1. Rank(n) + 1 \in 1 .. size /\ (Rank(n) + 1) - 1 = Rank(n)
    <3>1. Rank(n) \in 0 .. size - 1
      BY <1>1
    <3> QED
      BY <1>0, <3>1
  <2> DEFINE q == s[Rank(n) + 1]
  <2>2. q \in S /\ Rank(q) = Rank(n)
    BY <1>4, <2>1
  <2>3. Rank(n) \in Int
    <3>1. Rank(n) \in 0 .. size - 1
      BY <1>1
    <3> QED
      BY <1>0, <3>1
  <2>4. q = n
    <3> HIDE DEF q
    <3>1. ~ (q < n) /\ ~ (n < q)
      BY <1>2, <2>2, <2>3
    <3> QED
      BY <1>0, <3>1, <2>2
  <2> QED
    BY <2>1, <2>4
<1> QED
  <2>1. ToSet(s) = {s[k] : k \in 1 .. size}
    BY <1>4 DEF ToSet
  <2>2. ToSet(s) = S
    <3> HIDE DEF s, size
    <3> QED
      BY <1>4, <1>6, <2>1
  <2> QED
    BY <1>5, <2>2

-----------------------------------------------------------------------------
(***************************************************************************)
(* The walk over a package-lock.json.  A queue served in order holds names *)
(* of at most two distances, the nearer first, and whoever has left it was *)
(* no farther than who is next: so a shorter chain than the route a name   *)
(* has would have been served before.                                      *)
(***************************************************************************)

Required(name) == ToSet(IndexByName(lock.entries, name))
Far(name) == Len(routes[name])

IsRoute(route, name) ==
  /\ route \in Seq(Nat) /\ route # << >>
  /\ route[1] \in lock.direct /\ route[Len(route)] = name
  /\ \A i \in 1 .. Len(route) - 1 : route[i + 1] \in Required(route[i])

Served(name) ==
  /\ Far(name) < MaxWalkDepth =>
        \A child \in Required(name) : child \in DOMAIN routes /\ Far(child) <= Far(name) + 1
  /\ queue # << >> => Far(name) <= Far(queue[1])

WalkInv ==
  /\ lock \in Locks
  /\ DOMAIN routes \subseteq Nat
  /\ \A name \in DOMAIN routes : IsRoute(routes[name], name) /\ Far(name) <= MaxWalkDepth
  /\ \A name \in lock.direct : name \in DOMAIN routes /\ Far(name) = 1
  /\ queue \in Seq(DOMAIN routes)
  /\ \A i, j \in DOMAIN queue : i < j => Far(queue[i]) <= Far(queue[j])
  /\ \A i \in DOMAIN queue : Far(queue[i]) <= Far(queue[1]) + 1
  /\ \A name \in DOMAIN routes \ ToSet(queue) : Served(name)

LEMMA RequiresAreNames ==
  ASSUME NpmLockAssumption, lock \in Locks, NEW name
  PROVE  IndexByName(lock.entries, name) \in Seq(Nat)
<1> DEFINE entries == lock.entries
           copies == {i \in DOMAIN entries : entries[i].name = name}
           hoisted == {i \in copies : \A j \in copies : entries[i].nesting <= entries[j].nesting}
<1>1. /\ DOMAIN entries \subseteq Nat
      /\ \A i \in DOMAIN entries : entries[i].nesting \in Nat /\ entries[i].requires \in Seq(Nat)
  <2>1. entries \in Seq(ToSet(entries)) /\ \A i \in DOMAIN entries : IsEntry(entries[i])
    BY DEF NpmLockAssumption
  <2>2. DOMAIN entries = 1 .. Len(entries) /\ Len(entries) \in Nat
    BY <2>1
  <2> HIDE DEF entries
  <2> QED
    BY <2>1, <2>2 DEF IsEntry
<1> HIDE DEF entries
<1>2. copies # {} => hoisted # {}
  <2> SUFFICES ASSUME copies # {} PROVE hoisted # {}
    OBVIOUS
  <2> DEFINE depths == {entries[i].nesting : i \in copies}
  <2>1. depths \in SUBSET Nat /\ depths # {}
    BY <1>1
  <2>2. Min(depths) \in depths /\ \A n \in depths : Min(depths) <= n
    BY <2>1, LeastOf
  <2>3. PICK i \in copies : entries[i].nesting = Min(depths)
    BY <2>2
  <2>4. \A j \in copies : entries[i].nesting <= entries[j].nesting
    BY <2>2, <2>3
  <2> QED
    BY <2>4
<1>3. copies # {} => Min(hoisted) \in DOMAIN entries
  <2> SUFFICES ASSUME copies # {} PROVE Min(hoisted) \in DOMAIN entries
    OBVIOUS
  <2>1. hoisted \in SUBSET Nat /\ hoisted \subseteq DOMAIN entries
    BY <1>1
  <2> HIDE DEF hoisted, copies
  <2>2. Min(hoisted) \in hoisted
    BY <1>2, <2>1, LeastOf
  <2> QED
    BY <2>1, <2>2
<1>4. IndexByName(entries, name) = IF copies = {} THEN << >> ELSE entries[Min(hoisted)].requires
  BY DEF IndexByName
<1> HIDE DEF copies, hoisted
<1>5. IndexByName(entries, name) \in Seq(Nat)
  <2>1. CASE copies = {}
    <3>1. IndexByName(entries, name) = << >>
      BY <1>4, <2>1
    <3> QED
      BY <3>1
  <2>2. CASE copies # {}
    <3>1. entries[Min(hoisted)].requires \in Seq(Nat)
      BY <1>1, <1>3, <2>2
    <3>2. IndexByName(entries, name) = entries[Min(hoisted)].requires
      BY <1>4, <2>2
    <3> QED
      BY <3>1, <3>2
  <2> QED
    BY <2>1, <2>2
<1> QED
  BY <1>5 DEF entries

LEMMA ChildrenAreNew ==
  ASSUME NpmLockAssumption, lock \in Locks, NEW name
  PROVE  /\ NewChildren(name) \in Seq(Nat)
         /\ ToSet(NewChildren(name)) =
               IF Len(routes[name]) >= MaxWalkDepth THEN {} ELSE Required(name) \ DOMAIN routes
<1> DEFINE wanted == IndexByName(lock.entries, name)
           first == {i \in DOMAIN wanted : /\ wanted[i] \notin DOMAIN routes
                                           /\ \A j \in 1 .. i - 1 : wanted[j] # wanted[i]}
           order == InOrder(first)
           children == [k \in 1 .. Cardinality(first) |-> wanted[order[k]]]
<1>1. wanted \in Seq(Nat)
  BY RequiresAreNames
<1>2. DOMAIN wanted = 1 .. Len(wanted) /\ Len(wanted) \in Nat /\ \A i \in DOMAIN wanted : wanted[i] \in Nat
  BY <1>1
<1>3. NewChildren(name) = IF Len(routes[name]) >= MaxWalkDepth THEN << >> ELSE children
  BY DEF NewChildren
<1>4. Required(name) = {wanted[i] : i \in DOMAIN wanted}
  BY DEF Required, ToSet
<1> HIDE DEF wanted
<1>5. first \in SUBSET Nat /\ first \subseteq DOMAIN wanted /\ IsFiniteSet(first)
  <2>1. first \in SUBSET (1 .. Len(wanted))
    BY <1>2
  <2>2. IsFiniteSet(1 .. Len(wanted))
    BY <1>2, FS_Interval
  <2> HIDE DEF first
  <2>3. IsFiniteSet(first)
    BY <2>1, <2>2, FS_Subset
  <2>4. first \subseteq DOMAIN wanted
    BY <1>2, <2>1
  <2>5. first \in SUBSET Nat
    BY <1>2, <2>1
  <2> QED
    BY <2>3, <2>4, <2>5
<1>6. {wanted[i] : i \in first} = Required(name) \ DOMAIN routes
  <2>1. \A n \in Required(name) \ DOMAIN routes : \E i \in first : wanted[i] = n
    <3> SUFFICES ASSUME NEW n \in Required(name) \ DOMAIN routes
                 PROVE  \E i \in first : wanted[i] = n
      OBVIOUS
    <3> DEFINE places == {i \in DOMAIN wanted : wanted[i] = n}
    <3>1. places \in SUBSET Nat /\ places # {}
      BY <1>2, <1>4
    <3> DEFINE i == Min(places)
    <3>2. i \in places /\ \A j \in places : i <= j
      <4> HIDE DEF places
      <4> QED
        BY <3>1, LeastOf
    <3> HIDE DEF i
    <3>3. \A j \in 1 .. i - 1 : wanted[j] # wanted[i]
      <4> SUFFICES ASSUME NEW j \in 1 .. i - 1, wanted[j] = wanted[i] PROVE FALSE
        OBVIOUS
      <4>1. j \in DOMAIN wanted /\ j < i
        BY <1>2, <3>2
      <4>2. j \in places
        BY <4>1, <3>2
      <4>3. i <= j
        BY <4>2, <3>2
      <4> QED
        BY <4>1, <4>3, <1>2, <3>2
    <3> QED
      BY <3>2, <3>3
  <2>2. \A i \in first : wanted[i] \in Required(name) \ DOMAIN routes
    BY <1>4
  <2> HIDE DEF first
  <2> QED
    BY <2>1, <2>2
<1>7. order \in [1 .. Cardinality(first) -> first] /\ ToSet(order) = first /\ Cardinality(first) \in Nat
  <2> HIDE DEF first
  <2> QED
    BY <1>5, OrderKeepsAll, FS_CardinalityType
<1>8. children \in Seq(Nat) /\ ToSet(children) = {wanted[i] : i \in first}
  <2> HIDE DEF first, order
  <2>1. \A k \in 1 .. Cardinality(first) : order[k] \in first /\ wanted[order[k]] \in Nat
    BY <1>2, <1>5, <1>7
  <2>2. first = {order[k] : k \in 1 .. Cardinality(first)}
    BY <1>7 DEF ToSet
  <2>3. children \in Seq(Nat)
    BY <1>7, <2>1
  <2>4. ToSet(children) = {wanted[order[k]] : k \in 1 .. Cardinality(first)}
    BY DEF ToSet
  <2> QED
    BY <2>2, <2>3, <2>4
<1> HIDE DEF children, first
<1>9. CASE Len(routes[name]) >= MaxWalkDepth
  <2>1. NewChildren(name) = << >>
    BY <1>3, <1>9
  <2>2. ToSet(<< >>) = {}
    BY DEF ToSet
  <2>3. << >> \in Seq(Nat)
    OBVIOUS
  <2> QED
    BY <1>9, <2>1, <2>2, <2>3
<1>10. CASE ~ (Len(routes[name]) >= MaxWalkDepth)
  <2>1. NewChildren(name) = children
    BY <1>3, <1>10
  <2> QED
    BY <1>6, <1>8, <1>10, <2>1
<1> QED
  BY <1>9, <1>10

LEMMA RouteGrows ==
  ASSUME NEW route, NEW name, IsRoute(route, name), NEW child \in Nat, child \in Required(name)
  PROVE  IsRoute(Append(route, child), child) /\ Len(Append(route, child)) = Len(route) + 1
<1> DEFINE grown == Append(route, child)
<1>1. route \in Seq(Nat) /\ Len(route) \in Nat \ {0}
  BY DEF IsRoute
<1>2. /\ grown \in Seq(Nat) /\ Len(grown) = Len(route) + 1
      /\ \A i \in 1 .. Len(route) : grown[i] = route[i]
      /\ grown[Len(route) + 1] = child
  BY <1>1
<1> HIDE DEF grown
<1>3. grown # << >> /\ grown[1] \in lock.direct /\ grown[Len(grown)] = child
  BY <1>1, <1>2 DEF IsRoute
<1>4. \A i \in 1 .. Len(grown) - 1 : grown[i + 1] \in Required(grown[i])
  <2> SUFFICES ASSUME NEW i \in 1 .. Len(grown) - 1 PROVE grown[i + 1] \in Required(grown[i])
    OBVIOUS
  <2>1. CASE i = Len(route)
    <3>1. grown[i + 1] = child /\ grown[i] = route[Len(route)] /\ route[Len(route)] = name
      BY <1>1, <1>2, <2>1 DEF IsRoute
    <3> QED
      BY <3>1
  <2>2. CASE i # Len(route)
    <3>1. i \in 1 .. Len(route) - 1 /\ i \in 1 .. Len(route) /\ i + 1 \in 1 .. Len(route)
      BY <1>1, <1>2, <2>2
    <3>2. route[i + 1] \in Required(route[i])
      BY <3>1 DEF IsRoute
    <3> QED
      BY <1>2, <3>1, <3>2
  <2> QED
    BY <2>1, <2>2
<1> QED
  BY <1>2, <1>3, <1>4 DEF IsRoute, grown

LEMMA WalkStarts == NpmLockAssumption /\ WalkInit => WalkInv
<1> SUFFICES ASSUME NpmLockAssumption, WalkInit PROVE WalkInv
  OBVIOUS
<1>1. lock \in Locks /\ lock.direct \in SUBSET Nat /\ IsFiniteSet(lock.direct) /\ MaxWalkDepth \in Nat \ {0}
  BY DEF WalkInit, NpmLockAssumption
<1>2. DOMAIN routes = lock.direct /\ \A name \in lock.direct : routes[name] = << name >>
  BY DEF WalkInit
<1>3. queue \in [1 .. Cardinality(lock.direct) -> lock.direct] /\ ToSet(queue) = lock.direct
      /\ Cardinality(lock.direct) \in Nat
  BY <1>1, OrderKeepsAll, FS_CardinalityType DEF WalkInit
<1>4. \A name \in lock.direct : IsRoute(routes[name], name) /\ Far(name) = 1
  <2> SUFFICES ASSUME NEW name \in lock.direct PROVE IsRoute(<< name >>, name) /\ Len(<< name >>) = 1
    BY <1>2 DEF Far
  <2>1. << name >> \in Seq(Nat) /\ << name >> # << >> /\ Len(<< name >>) = 1 /\ << name >>[1] = name
    BY <1>1
  <2>2. \A i \in 1 .. 1 - 1 : FALSE
    OBVIOUS
  <2> QED
    BY <2>1, <2>2 DEF IsRoute
<1>5. queue \in Seq(DOMAIN routes) /\ \A i \in DOMAIN queue : queue[i] \in lock.direct /\ Far(queue[i]) = 1
  BY <1>2, <1>3, <1>4
<1>6. \A i \in DOMAIN queue : Far(queue[i]) = 1 /\ Far(queue[1]) = 1
  <2> SUFFICES ASSUME NEW i \in DOMAIN queue PROVE 1 \in DOMAIN queue
    BY <1>5
  <2> QED
    BY <1>3
<1> QED
  BY <1>1, <1>2, <1>3, <1>4, <1>5, <1>6 DEF WalkInv

LEMMA WalkStep == NpmLockAssumption /\ WalkInv /\ [Visit]_walk => WalkInv'
<1> SUFFICES ASSUME NpmLockAssumption, WalkInv, [Visit]_walk PROVE WalkInv'
  OBVIOUS
<1>1. CASE UNCHANGED walk
  BY <1>1 DEF walk, WalkInv, IsRoute, Served, Far, Required
<1>2. CASE Visit
  <2> DEFINE head == queue[1]
             kids == NewChildren(head)
             new == ToSet(kids)
  <2>1. queue \in Seq(DOMAIN routes) /\ queue # << >> /\ Len(queue) \in Nat \ {0} /\ head \in DOMAIN routes
    BY <1>2 DEF WalkInv, Visit
  <2>2. lock' = lock /\ queue' = Tail(queue) \o kids /\ routes' = Routed(head, kids)
    BY <1>2, <2>1 DEF Visit
  <2>3. /\ lock \in Locks /\ MaxWalkDepth \in Nat \ {0} /\ DOMAIN routes \subseteq Nat
        /\ \A name \in DOMAIN routes : Far(name) \in Nat \ {0} /\ Far(name) <= MaxWalkDepth
    BY DEF WalkInv, IsRoute, NpmLockAssumption, Far
  <2>4. /\ kids \in Seq(Nat)
        /\ new = IF Far(head) >= MaxWalkDepth THEN {} ELSE Required(head) \ DOMAIN routes
    BY <2>3, ChildrenAreNew DEF Far
  <2>5. /\ DOMAIN routes' = DOMAIN routes \union new
        /\ \A name \in DOMAIN routes : routes'[name] = routes[name]
        /\ \A name \in new : routes'[name] = Append(routes[head], name)
    <3>1. new \intersect DOMAIN routes = {}
      BY <2>4
    <3> HIDE DEF kids
    <3> QED
      BY <2>2, <3>1 DEF Routed
  <2>6. \A name : Required(name)' = Required(name)
    BY <2>2 DEF Required
  <2>7. \A name \in new : name \in Nat /\ name \in Required(head) /\ Far(head) < MaxWalkDepth
    <3>1. new \subseteq Nat
      BY <2>4 DEF ToSet
    <3> HIDE DEF new, head
    <3> QED
      BY <2>1, <2>3, <2>4, <3>1
  <2>8. /\ \A name \in DOMAIN routes : Far(name)' = Far(name)
        /\ \A name \in new : Far(name)' = Far(head) + 1 /\ IsRoute(routes'[name], name)
    <3>1. \A name \in DOMAIN routes : Far(name)' = Far(name)
      BY <2>5 DEF Far
    <3>2. ASSUME NEW name \in new PROVE Far(name)' = Far(head) + 1 /\ IsRoute(routes'[name], name)
      <4>1. IsRoute(routes[head], head)
        BY <2>1 DEF WalkInv
      <4> HIDE DEF head, new
      <4>2. IsRoute(Append(routes[head], name), name) /\ Len(Append(routes[head], name)) = Len(routes[head]) + 1
        BY <2>7, <4>1, RouteGrows
      <4> QED
        BY <2>5, <4>2 DEF Far
    <3> HIDE DEF new
    <3> QED
      BY <3>1, <3>2
  <2>9. /\ queue' \in Seq(DOMAIN routes') /\ Len(queue') = Len(queue) - 1 + Len(kids)
        /\ Len(kids) \in Nat
        /\ \A i \in 1 .. Len(queue) - 1 : queue'[i] = queue[i + 1]
        /\ \A i \in Len(queue) .. Len(queue') : queue'[i] \in new
        /\ ToSet(queue') = ToSet(Tail(queue)) \union new
    <3>1. Tail(queue) \in Seq(DOMAIN routes \union new) /\ Len(Tail(queue)) = Len(queue) - 1
          /\ \A i \in 1 .. Len(queue) - 1 : Tail(queue)[i] = queue[i + 1]
      BY <2>1
    <3>2. kids \in Seq(DOMAIN routes \union new) /\ Len(kids) \in Nat /\ \A i \in 1 .. Len(kids) : kids[i] \in new
      <4>1. DOMAIN kids = 1 .. Len(kids) /\ Len(kids) \in Nat /\ \A i \in DOMAIN kids : kids[i] \in new
        BY <2>4 DEF ToSet
      <4>2. kids \in Seq(new)
        <5> HIDE DEF kids, new
        <5> QED
          BY <2>4, <4>1
      <4> HIDE DEF kids, new
      <4> QED
        BY <4>1, <4>2
    <3> DEFINE t == Tail(queue)
               s == t \o kids
               D == DOMAIN routes \union new
    <3> HIDE DEF t, kids, new, D
    <3>3. t \in Seq(D) /\ kids \in Seq(D) /\ Len(t) \in Nat
      BY <3>1, <3>2 DEF t, D
    <3>4. /\ s \in Seq(D) /\ Len(s) = Len(t) + Len(kids)
          /\ \A i \in 1 .. Len(t) : s[i] = t[i]
          /\ \A i \in Len(t) + 1 .. Len(s) : s[i] = kids[i - Len(t)]
      BY <3>3
    <3> HIDE DEF s
    <3>5. Len(t) = Len(queue) - 1 /\ \A i \in 1 .. Len(t) : t[i] = queue[i + 1]
      BY <3>1 DEF t
    <3>6. \A i \in Len(queue) .. Len(s) : s[i] \in new
      <4> SUFFICES ASSUME NEW i \in Len(queue) .. Len(s) PROVE s[i] \in new
        OBVIOUS
      <4>1. i \in Len(t) + 1 .. Len(s) /\ i - Len(t) \in 1 .. Len(kids)
        BY <2>1, <3>2, <3>3, <3>4, <3>5
      <4> QED
        BY <3>2, <3>4, <4>1
    <3>7. ToSet(s) = ToSet(t) \union ToSet(kids)
      <4>1. /\ \A i \in DOMAIN s : s[i] \in ToSet(t) \/ s[i] \in ToSet(kids)
            /\ \A i \in DOMAIN t : i \in DOMAIN s /\ s[i] = t[i]
            /\ \A i \in DOMAIN kids : i + Len(t) \in DOMAIN s /\ s[i + Len(t)] = kids[i]
        <5>1. DOMAIN s = 1 .. Len(t) + Len(kids) /\ DOMAIN t = 1 .. Len(t) /\ DOMAIN kids = 1 .. Len(kids)
          BY <3>3, <3>4
        <5>2. \A i \in DOMAIN t : i \in DOMAIN s /\ s[i] = t[i]
          BY <3>2, <3>3, <3>4, <5>1
        <5>3. \A i \in DOMAIN kids : i + Len(t) \in DOMAIN s /\ s[i + Len(t)] = kids[i]
          <6> SUFFICES ASSUME NEW i \in DOMAIN kids PROVE i + Len(t) \in DOMAIN s /\ s[i + Len(t)] = kids[i]
            OBVIOUS
          <6>1. i + Len(t) \in Len(t) + 1 .. Len(s) /\ i + Len(t) - Len(t) = i
            BY <3>2, <3>3, <3>4, <5>1
          <6> QED
            BY <3>2, <3>3, <3>4, <5>1, <6>1
        <5>4. \A i \in DOMAIN s : s[i] \in ToSet(t) \/ s[i] \in ToSet(kids)
          <6> SUFFICES ASSUME NEW i \in DOMAIN s PROVE s[i] \in ToSet(t) \/ s[i] \in ToSet(kids)
            OBVIOUS
          <6>1. CASE i <= Len(t)
            BY <5>1, <5>2, <3>3, <3>4, <6>1 DEF ToSet
          <6>2. CASE ~ (i <= Len(t))
            <7>1. i \in Len(t) + 1 .. Len(s) /\ i - Len(t) \in DOMAIN kids
              BY <5>1, <3>2, <3>3, <3>4, <6>2
            <7> QED
              BY <3>4, <7>1 DEF ToSet
          <6> QED
            BY <6>1, <6>2
        <5> QED
          BY <5>2, <5>3, <5>4
      <4> QED
        BY <4>1 DEF ToSet
    <3> QED
      BY <2>1, <2>2, <2>5, <3>2, <3>4, <3>5, <3>6, <3>7 DEF s, t, D, new
  <2> QED
    <3> HIDE DEF kids, new
    <3>1. DOMAIN routes' \subseteq Nat /\ lock' \in Locks
      BY <2>2, <2>3, <2>5, <2>7
    <3>2. \A name \in DOMAIN routes' : IsRoute(routes[name], name)' /\ Far(name)' <= MaxWalkDepth
      <4> SUFFICES ASSUME NEW name \in DOMAIN routes'
                   PROVE  IsRoute(routes[name], name)' /\ Far(name)' <= MaxWalkDepth
        OBVIOUS
      <4>1. IsRoute(routes'[name], name) /\ Far(name)' <= MaxWalkDepth
        <5>1. CASE name \in new
          BY <2>1, <2>3, <2>7, <2>8, <5>1
        <5>2. CASE name \in DOMAIN routes
          BY <2>5, <2>8, <5>2 DEF WalkInv
        <5> QED
          BY <2>5, <5>1, <5>2
      <4>2. IsRoute(routes[name], name)'
        BY <2>2, <2>6, <4>1 DEF IsRoute
      <4> QED
        BY <4>1, <4>2
    <3>3. \A name \in lock'.direct : name \in DOMAIN routes' /\ Far(name)' = 1
      BY <2>2, <2>5, <2>8 DEF WalkInv
    <3>4. \A i \in DOMAIN queue : queue[i] \in DOMAIN routes /\ Far(queue[i]) >= Far(head)
                                  /\ Far(queue[i]) <= Far(head) + 1
      <4> SUFFICES ASSUME NEW i \in DOMAIN queue
                   PROVE  queue[i] \in DOMAIN routes /\ Far(queue[i]) >= Far(head)
                          /\ Far(queue[i]) <= Far(head) + 1
        OBVIOUS
      <4>1. queue[i] \in DOMAIN routes /\ Far(queue[i]) <= Far(head) + 1
        BY <2>1 DEF WalkInv
      <4>2. 1 \in DOMAIN queue /\ (i = 1 \/ 1 < i)
        BY <2>1
      <4>3. Far(queue[i]) \in Nat /\ Far(head) \in Nat
        BY <2>1, <2>3, <4>1
      <4>4. 1 < i => Far(head) <= Far(queue[i])
        BY <4>2 DEF WalkInv
      <4>5. CASE i = 1
        <5>1. Far(queue[i]) >= Far(head)
          BY <4>5, <4>3
        <5> QED
          BY <5>1, <4>1
      <4>6. CASE 1 < i
        <5>1. Far(queue[i]) >= Far(head)
          BY <4>3, <4>4, <4>6
        <5> QED
          BY <5>1, <4>1
      <4> QED
        BY <4>2, <4>5, <4>6
    <3>5. \A i \in DOMAIN queue' :
             \/ i \in 1 .. Len(queue) - 1 /\ i + 1 \in DOMAIN queue /\ Far(queue[i])' = Far(queue[i + 1])
             \/ i >= Len(queue) /\ Far(queue[i])' = Far(head) + 1
      <4> SUFFICES ASSUME NEW i \in DOMAIN queue'
                   PROVE  \/ i \in 1 .. Len(queue) - 1 /\ i + 1 \in DOMAIN queue /\ Far(queue[i])' = Far(queue[i + 1])
                          \/ i >= Len(queue) /\ Far(queue[i])' = Far(head) + 1
        OBVIOUS
      <4>1. i \in 1 .. Len(queue')
        BY <2>9
      <4>2. CASE i < Len(queue)
        <5>1. i \in 1 .. Len(queue) - 1 /\ i + 1 \in DOMAIN queue
          BY <2>1, <2>9, <4>1, <4>2
        <5>2. queue'[i] = queue[i + 1] /\ queue[i + 1] \in DOMAIN routes
          BY <2>9, <3>4, <5>1
        <5>3. Far(queue[i])' = Far(queue[i + 1])
          <6>1. \A n \in DOMAIN routes : Len(routes'[n]) = Len(routes[n])
            BY <2>5
          <6> QED
            BY <5>2, <6>1 DEF Far
        <5> QED
          BY <5>1, <5>3
      <4>3. CASE ~ (i < Len(queue))
        <5>1. i \in Len(queue) .. Len(queue') /\ i >= Len(queue)
          BY <2>1, <2>9, <4>1, <4>3
        <5>2. queue'[i] \in new
          BY <2>9, <5>1
        <5>3. \A n \in new : Len(routes'[n]) = Far(head) + 1
          BY <2>8 DEF Far
        <5>4. Far(queue[i])' = Far(head) + 1
          BY <5>2, <5>3 DEF Far
        <5> QED
          BY <5>1, <5>4
      <4> QED
        BY <4>2, <4>3
    <3>h. Far(head) \in Nat \ {0} /\ Far(head) <= MaxWalkDepth
      BY <2>1, <2>3
    <3>i. \A i \in DOMAIN queue' : i \in Nat /\ i >= 1 /\ (1 < i => 1 \in DOMAIN queue')
      BY <2>9
    <3>j. \A i \in DOMAIN queue' : Far(queue[i])' \in Nat /\ Far(queue[i])' >= Far(head)
                                   /\ Far(queue[i])' <= Far(head) + 1
      <4> SUFFICES ASSUME NEW i \in DOMAIN queue'
                   PROVE  Far(queue[i])' \in Nat /\ Far(queue[i])' >= Far(head)
                          /\ Far(queue[i])' <= Far(head) + 1
        OBVIOUS
      <4>1. CASE i + 1 \in DOMAIN queue /\ Far(queue[i])' = Far(queue[i + 1])
        BY <2>3, <3>4, <4>1
      <4>2. CASE Far(queue[i])' = Far(head) + 1
        BY <3>h, <4>2
      <4> QED
        BY <3>5, <4>1, <4>2
    <3>6. \A i, j \in DOMAIN queue' : i < j => Far(queue[i])' <= Far(queue[j])'
      <4> SUFFICES ASSUME NEW i \in DOMAIN queue', NEW j \in DOMAIN queue', i < j
                   PROVE  Far(queue[i])' <= Far(queue[j])'
        OBVIOUS
      <4>1. CASE Far(queue[j])' = Far(head) + 1
        BY <3>h, <3>j, <4>1
      <4>2. CASE j \in 1 .. Len(queue) - 1 /\ j + 1 \in DOMAIN queue /\ Far(queue[j])' = Far(queue[j + 1])
        <5>1. i < Len(queue) /\ i + 1 < j + 1
          BY <2>1, <3>i, <4>2
        <5>2. i + 1 \in DOMAIN queue /\ Far(queue[i])' = Far(queue[i + 1])
          BY <2>1, <3>5, <3>i, <5>1
        <5>3. Far(queue[i + 1]) <= Far(queue[j + 1])
          BY <4>2, <5>1, <5>2 DEF WalkInv
        <5> QED
          BY <4>2, <5>2, <5>3
      <4> QED
        BY <3>5, <4>1, <4>2
    <3>7. \A i \in DOMAIN queue' : Far(queue[i])' <= Far(queue[1])' + 1
      <4> SUFFICES ASSUME NEW i \in DOMAIN queue' PROVE Far(queue[i])' <= Far(queue[1])' + 1
        OBVIOUS
      <4>1. i = 1 \/ 1 \in DOMAIN queue'
        BY <3>i
      <4>2. 1 \in DOMAIN queue'
        BY <4>1
      <4>3. Far(queue[1])' \in Nat /\ Far(queue[1])' >= Far(head)
        BY <3>j, <4>2
      <4>4. Far(queue[i])' \in Nat /\ Far(queue[i])' <= Far(head) + 1
        BY <3>j
      <4> QED
        BY <3>h, <4>3, <4>4
    <3>8. \A name \in DOMAIN routes' \ ToSet(queue') : Served(name)'
      <4> SUFFICES ASSUME NEW name \in DOMAIN routes', name \notin ToSet(queue') PROVE Served(name)'
        OBVIOUS
      <4>1. name \in DOMAIN routes /\ name \notin new /\ name \notin ToSet(Tail(queue))
        BY <2>5, <2>9
      <4>2. Far(name)' = Far(name) /\ Far(name) \in Nat
        BY <2>3, <2>8, <4>1
      <4>3. name = head \/ name \notin ToSet(queue)
        <5> SUFFICES ASSUME NEW i \in DOMAIN queue, queue[i] = name, i # 1 PROVE FALSE
          BY DEF ToSet
        <5>1. i - 1 \in 1 .. Len(queue) - 1 /\ (i - 1) + 1 = i
          BY <2>1
        <5>2. i - 1 \in DOMAIN Tail(queue) /\ Tail(queue)[i - 1] = queue[(i - 1) + 1]
          BY <2>1, <5>1
        <5> QED
          BY <4>1, <5>1, <5>2 DEF ToSet
      <4>4. Far(name) <= Far(head)
        <5>1. CASE name = head
          BY <3>h, <5>1
        <5>2. CASE name \notin ToSet(queue)
          BY <2>1, <4>1, <5>2 DEF WalkInv, Served
        <5> QED
          BY <4>3, <5>1, <5>2
      <4>5. queue' # << >> => Far(name)' <= Far(queue[1])'
        <5> SUFFICES ASSUME queue' # << >> PROVE Far(name)' <= Far(queue[1])'
          OBVIOUS
        <5>1. 1 \in DOMAIN queue'
          BY <2>9
        <5>2. Far(queue[1])' \in Nat /\ Far(queue[1])' >= Far(head)
          BY <3>j, <5>1
        <5> QED
          BY <3>h, <4>2, <4>4, <5>2
      <4>6. ASSUME Far(name) < MaxWalkDepth, NEW child \in Required(name)
            PROVE  child \in DOMAIN routes' /\ Far(child)' <= Far(name) + 1
        <5>1. CASE name = head
          <6>1. CASE child \in DOMAIN routes
            <7>1. Far(child)' = Far(child) /\ child \in DOMAIN routes' /\ Far(child) \in Nat
              BY <2>3, <2>5, <2>8, <6>1
            <7>2. Far(child) <= Far(head) + 1
              <8>1. CASE child \in ToSet(queue)
                BY <3>4, <8>1 DEF ToSet
              <8>2. CASE child \notin ToSet(queue)
                <9>1. Far(child) <= Far(head)
                  BY <2>1, <6>1, <8>2 DEF WalkInv, Served
                <9> QED
                  BY <3>h, <7>1, <9>1
              <8> QED
                BY <8>1, <8>2
            <7> QED
              BY <5>1, <7>1, <7>2
          <6>2. CASE child \notin DOMAIN routes
            <7>1. child \in new
              BY <2>3, <2>4, <3>h, <4>6, <5>1, <6>2
            <7> QED
              BY <2>5, <2>8, <3>h, <5>1, <7>1
          <6> QED
            BY <6>1, <6>2
        <5>2. CASE name \notin ToSet(queue)
          <6>1. child \in DOMAIN routes /\ Far(child) <= Far(name) + 1
            BY <4>1, <4>6, <5>2 DEF WalkInv, Served
          <6>2. Far(child)' = Far(child) /\ child \in DOMAIN routes'
            BY <2>5, <2>8, <6>1
          <6> QED
            BY <6>1, <6>2
        <5> QED
          BY <4>3, <5>1, <5>2
      <4>7. \A child \in Required(name)' : child \in Required(name)
        BY <2>6
      <4> QED
        BY <2>3, <4>2, <4>5, <4>6, <4>7 DEF Served
    <3> QED
      BY <2>9, <3>1, <3>2, <3>3, <3>6, <3>7, <3>8 DEF WalkInv
<1> QED
  BY <1>1, <1>2

LEMMA ChainsAreServed ==
  ASSUME NpmLockAssumption, WalkInv, NEW n \in 1 .. MaxWalkDepth, NEW c \in [1 .. n -> LockNames],
         c[1] \in lock.direct, \A i \in 1 .. n - 1 : c[i + 1] \in Required(c[i])
  PROVE  /\ c[n] \in DOMAIN routes => Far(c[n]) <= n
         /\ queue = << >> => c[n] \in DOMAIN routes
<1>0. n \in Nat /\ n >= 1 /\ MaxWalkDepth \in Nat /\ n <= MaxWalkDepth
  BY DEF NpmLockAssumption
<1> SUFFICES ASSUME \/ c[n] \notin DOMAIN routes /\ queue = << >>
                    \/ c[n] \in DOMAIN routes /\ ~ (Far(c[n]) <= n)
             PROVE  FALSE
  BY <1>0
<1>1. \A name \in DOMAIN routes : Far(name) \in Nat
  BY DEF WalkInv, IsRoute, Far
<1> DEFINE Late == {i \in 1 .. n : ~ (c[i] \in DOMAIN routes /\ Far(c[i]) <= i)}
           i == Min(Late)
<1>2. Late \in SUBSET Nat /\ n \in Late
  BY <1>0
<1>3. i \in Late /\ \A j \in Late : i <= j
  <2> HIDE DEF Late
  <2> QED
    BY <1>2, LeastOf
<1> HIDE DEF i
<1>4. i \in 1 .. n /\ i <= n
  BY <1>2, <1>3
<1>5. i # 1
  <2> SUFFICES ASSUME i = 1 PROVE FALSE
    OBVIOUS
  <2>1. c[1] \in DOMAIN routes /\ Far(c[1]) = 1
    BY DEF WalkInv
  <2> QED
    BY <1>3, <2>1
<1>6. i - 1 \in 1 .. n - 1 /\ i - 1 \in 1 .. n /\ (i - 1) + 1 = i /\ i - 1 < i
  BY <1>0, <1>4, <1>5
<1>7. i - 1 \notin Late
  BY <1>2, <1>3, <1>6
<1> DEFINE before == c[i - 1]
<1>8. before \in DOMAIN routes /\ Far(before) <= i - 1 /\ Far(before) \in Nat
  BY <1>1, <1>6, <1>7
<1>9. c[i] \in Required(before)
  BY <1>6
<1>10. Far(before) < MaxWalkDepth
  BY <1>0, <1>4, <1>8
<1>11. before \in ToSet(queue)
  <2> SUFFICES ASSUME before \notin ToSet(queue) PROVE FALSE
    OBVIOUS
  <2>1. c[i] \in DOMAIN routes /\ Far(c[i]) <= Far(before) + 1
    BY <1>8, <1>9, <1>10 DEF WalkInv, Served
  <2>2. Far(c[i]) <= i
    BY <1>1, <1>4, <1>8, <2>1
  <2> QED
    BY <1>3, <2>1, <2>2
<1>12. queue \in Seq(DOMAIN routes) /\ queue # << >> /\ 1 \in DOMAIN queue /\ queue[1] \in DOMAIN routes
  <2>1. queue \in Seq(DOMAIN routes)
    BY DEF WalkInv
  <2>2. queue # << >>
    BY <1>11 DEF ToSet
  <2> QED
    BY <2>1, <2>2
<1>13. Far(queue[1]) <= Far(before)
  <2>1. PICK k \in DOMAIN queue : queue[k] = before
    BY <1>11 DEF ToSet
  <2>2. k = 1 \/ 1 < k
    BY <1>12
  <2>3. CASE k = 1
    BY <1>8, <2>1, <2>3
  <2>4. CASE 1 < k
    BY <1>12, <2>1, <2>4 DEF WalkInv
  <2> QED
    BY <2>2, <2>3, <2>4
<1>14. c[n] \in DOMAIN routes /\ ~ (Far(c[n]) <= n)
  BY <1>12
<1>15. Far(c[n]) <= Far(queue[1]) + 1
  <2>1. CASE c[n] \in ToSet(queue)
    BY <2>1 DEF WalkInv, ToSet
  <2>2. CASE c[n] \notin ToSet(queue)
    <3>1. Far(c[n]) <= Far(queue[1])
      BY <1>12, <1>14, <2>2 DEF WalkInv, Served
    <3> QED
      BY <1>1, <1>12, <1>14, <3>1
  <2> QED
    BY <2>1, <2>2
<1> QED
  BY <1>0, <1>1, <1>4, <1>8, <1>12, <1>13, <1>14, <1>15

LEMMA WalkIsRight == NpmLockAssumption /\ WalkInv => RouteIsShortest
<1> SUFFICES ASSUME NpmLockAssumption, WalkInv PROVE RouteIsShortest
  OBVIOUS
<1>1. ASSUME NEW name \in DOMAIN routes
      PROVE  LET route == routes[name]
             IN  /\ route[1] \in lock.direct /\ route[Len(route)] = name
                 /\ \A i \in 1 .. Len(route) - 1 :
                       route[i + 1] \in ToSet(IndexByName(lock.entries, route[i]))
  BY DEF WalkInv, IsRoute, Required
<1>2. ASSUME NEW n \in 1 .. MaxWalkDepth
      PROVE  /\ \A name \in Reached(n) \intersect DOMAIN routes : Len(routes[name]) <= n
             /\ queue = << >> => Reached(n) \subseteq DOMAIN routes
  <2> SUFFICES ASSUME NEW name \in Reached(n)
               PROVE  /\ name \in DOMAIN routes => Len(routes[name]) <= n
                      /\ queue = << >> => name \in DOMAIN routes
    OBVIOUS
  <2>0. n \in Nat \ {0}
    BY DEF NpmLockAssumption
  <2>1. PICK c \in [1 .. n -> LockNames] :
           /\ c[1] \in lock.direct /\ name = c[n]
           /\ \A i \in 1 .. n - 1 :
                 c[i + 1] \in [x \in LockNames |-> ToSet(IndexByName(lock.entries, x))][c[i]]
    BY DEF Reached
  <2>2. \A i \in 1 .. n - 1 : c[i] \in LockNames
    BY <2>0
  <2>3. \A i \in 1 .. n - 1 : c[i + 1] \in Required(c[i])
    BY <2>1, <2>2 DEF Required
  <2>4. /\ c[n] \in DOMAIN routes => Far(c[n]) <= n
        /\ queue = << >> => c[n] \in DOMAIN routes
    BY <2>1, <2>3, ChainsAreServed
  <2> QED
    BY <2>1, <2>4 DEF Far
<1> QED
  BY <1>1, <1>2 DEF RouteIsShortest

-----------------------------------------------------------------------------
(***************************************************************************)
(* What is scanned of several copies.                                      *)
(***************************************************************************)

Alike(d, e) == d.name = e.name /\ d.version = e.version

LEMMA MostExposedIsKept ==
  ASSUME NEW deps, DOMAIN deps \in SUBSET Nat,
         \A i \in DOMAIN deps : deps[i].reachability \in Reachabilities
  PROVE  /\ \A i \in DOMAIN deps : \E d \in Dedupe(deps) :
               Alike(d, deps[i]) /\ Exposure[d.reachability] <= Exposure[deps[i].reachability]
         /\ \A d \in Dedupe(deps) : \E i \in DOMAIN deps : d = deps[i]
         /\ \A d, e \in Dedupe(deps) : Alike(d, e) => d = e
<1> DEFINE How(i) == Exposure[deps[i].reachability]
           Stays(i) == \A j \in DOMAIN deps : Alike(deps[i], deps[j]) =>
                         How(i) < How(j) \/ (How(i) = How(j) /\ i <= j)
<1>1. \A i \in DOMAIN deps : How(i) \in Nat /\ i \in Nat
  BY DEF Exposure, Reachabilities
<1>2. Dedupe(deps) = {deps[i] : i \in {k \in DOMAIN deps : Stays(k)}}
  BY DEF Dedupe, Alike
<1> HIDE DEF How
<1>3. \A i \in DOMAIN deps : \E k \in DOMAIN deps : Stays(k) /\ Alike(deps[k], deps[i]) /\ How(k) <= How(i)
  <2> SUFFICES ASSUME NEW i \in DOMAIN deps
               PROVE  \E k \in DOMAIN deps : Stays(k) /\ Alike(deps[k], deps[i]) /\ How(k) <= How(i)
    OBVIOUS
  <2> DEFINE Copies == {j \in DOMAIN deps : Alike(deps[j], deps[i])}
             Hows == {How(j) : j \in Copies}
             low == Min(Hows)
             Lows == {j \in Copies : How(j) = low}
             k == Min(Lows)
  <2>1. Hows \in SUBSET Nat /\ Hows # {} /\ i \in Copies
    BY <1>1 DEF Alike
  <2>2. low \in Hows /\ \A n \in Hows : low <= n
    <3> HIDE DEF Hows
    <3> QED
      BY <2>1, LeastOf
  <2> HIDE DEF low
  <2>3. Lows \in SUBSET Nat /\ Lows # {}
    BY <1>1, <2>2
  <2>4. k \in Lows /\ \A j \in Lows : k <= j
    <3> HIDE DEF Lows
    <3> QED
      BY <2>3, LeastOf
  <2> HIDE DEF k
  <2>5. k \in DOMAIN deps /\ Alike(deps[k], deps[i]) /\ How(k) = low
    BY <2>4
  <2>6. How(k) <= How(i)
    BY <2>1, <2>2, <2>5
  <2>7. ASSUME NEW j \in DOMAIN deps, Alike(deps[k], deps[j])
        PROVE  How(k) < How(j) \/ (How(k) = How(j) /\ k <= j)
    <3>1. j \in Copies
      BY <2>5, <2>7 DEF Alike
    <3>2. low <= How(j)
      BY <2>2, <3>1
    <3>3. How(j) = low => k <= j
      BY <2>4, <3>1
    <3> QED
      BY <1>1, <2>5, <3>2, <3>3
  <2> QED
    BY <2>5, <2>6, <2>7
<1>4. \A i, j \in DOMAIN deps : Stays(i) /\ Stays(j) /\ Alike(deps[i], deps[j]) => i = j
  <2> SUFFICES ASSUME NEW i \in DOMAIN deps, NEW j \in DOMAIN deps, Stays(i), Stays(j), Alike(deps[i], deps[j])
               PROVE  i = j
    OBVIOUS
  <2>1. How(i) < How(j) \/ (How(i) = How(j) /\ i <= j)
    OBVIOUS
  <2>2. How(j) < How(i) \/ (How(j) = How(i) /\ j <= i)
    BY DEF Alike
  <2> QED
    BY <1>1, <2>1, <2>2
<1> HIDE DEF Stays
<1>5. \A i \in DOMAIN deps : \E d \in Dedupe(deps) : Alike(d, deps[i]) /\ Exposure[d.reachability] <= How(i)
  BY <1>2, <1>3 DEF How
<1> QED
  BY <1>2, <1>4, <1>5 DEF How

LEMMA InstalledIsScanned == NpmLockAssumption /\ WalkInv => MostExposedWins
<1> SUFFICES ASSUME NpmLockAssumption, WalkInv PROVE MostExposedWins
  OBVIOUS
<1> DEFINE entries == lock.entries
           deps == [i \in DOMAIN entries |-> LockDependency(entries[i])]
           Go(i) == GoLockDependency(entries[i])
<1>1. /\ DOMAIN entries \in SUBSET Nat
      /\ \A i \in DOMAIN entries : entries[i].dev \in BOOLEAN
  <2>1. lock \in Locks /\ entries \in Seq(ToSet(entries)) /\ \A i \in DOMAIN entries : IsEntry(entries[i])
    BY DEF NpmLockAssumption, WalkInv
  <2>2. DOMAIN entries = 1 .. Len(entries) /\ Len(entries) \in Nat
    BY <2>1
  <2> HIDE DEF entries
  <2> QED
    BY <2>1, <2>2 DEF IsEntry
<1>2. PackageLock = Dedupe(deps)
  BY DEF PackageLock
<1>3. \A i \in DOMAIN entries :
         /\ deps[i].name = entries[i].name /\ deps[i].version = entries[i].version
         /\ deps[i].reachability \in Reachabilities
         /\ ~ entries[i].dev => deps[i].reachability # "dev_only"
         /\ deps[i].depth = 0 <=> entries[i].name \in lock.direct
  <2> SUFFICES ASSUME NEW i \in DOMAIN entries
               PROVE  LET d == LockDependency(entries[i])
                      IN  /\ d.name = entries[i].name /\ d.version = entries[i].version
                          /\ d.reachability \in Reachabilities
                          /\ ~ entries[i].dev => d.reachability # "dev_only"
                          /\ d.depth = 0 <=> entries[i].name \in lock.direct
    OBVIOUS
  <2> DEFINE e == entries[i]
  <2> HIDE DEF entries, e
  <2>1. /\ LockDependency(e).name = e.name /\ LockDependency(e).version = e.version
        /\ LockDependency(e).reachability = LockReachability(e, lock.direct)
    BY DEF LockDependency, Dependency
  <2>2. /\ LockReachability(e, lock.direct) \in Reachabilities
        /\ ~ e.dev => LockReachability(e, lock.direct) # "dev_only"
    BY DEF LockReachability, Reachabilities
  <2>3. CASE e.name \in DOMAIN routes
    <3>1. IsRoute(routes[e.name], e.name)
      BY <2>3 DEF WalkInv
    <3>2. routes[e.name] \in Seq(Nat) /\ Len(routes[e.name]) \in Nat \ {0}
      BY <3>1 DEF IsRoute
    <3>3. Len(Front(routes[e.name])) = Len(routes[e.name]) - 1
      BY <3>2 DEF Front
    <3>4. Len(routes[e.name]) = 1 <=> e.name \in lock.direct
      <4>1. e.name \in lock.direct => Len(routes[e.name]) = 1
        BY DEF WalkInv, Far
      <4>2. Len(routes[e.name]) = 1 => e.name \in lock.direct
        BY <3>1 DEF IsRoute
      <4> QED
        BY <4>1, <4>2
    <3>5. LockDependency(e).depth = Len(Front(routes[e.name]))
      BY <2>3 DEF LockDependency, Dependency
    <3>6. LockDependency(e).depth = 0 <=> e.name \in lock.direct
      BY <3>2, <3>3, <3>4, <3>5
    <3> QED
      BY <2>1, <2>2, <3>6 DEF e
  <2>4. CASE e.name \notin DOMAIN routes
    <3>1. e.name \notin lock.direct
      BY <2>4 DEF WalkInv
    <3>2. LockDependency(e).depth = 1
      BY <2>4, <3>1 DEF LockDependency, Dependency
    <3> QED
      BY <2>1, <2>2, <3>1, <3>2 DEF e
  <2> QED
    BY <2>3, <2>4
<1>4. DOMAIN deps = DOMAIN entries
  OBVIOUS
<1> HIDE DEF deps, entries
<1>5. /\ \A i \in DOMAIN deps : \E d \in PackageLock :
               Alike(d, deps[i]) /\ Exposure[d.reachability] <= Exposure[deps[i].reachability]
      /\ \A d \in PackageLock : \E i \in DOMAIN deps : d = deps[i]
      /\ \A d, e \in PackageLock : Alike(d, e) => d = e
  BY <1>1, <1>2, <1>3, <1>4, MostExposedIsKept
<1>6. ASSUME NEW i \in DOMAIN entries
      PROVE  \E d \in PackageLock : /\ d.name = entries[i].name /\ d.version = entries[i].version
                                    /\ ~ entries[i].dev => d.reachability # "dev_only"
  <2>1. PICK d \in PackageLock : Alike(d, deps[i]) /\ Exposure[d.reachability] <= Exposure[deps[i].reachability]
    BY <1>4, <1>5
  <2>2. d.name = entries[i].name /\ d.version = entries[i].version
    BY <1>3, <2>1 DEF Alike
  <2>3. ~ entries[i].dev => d.reachability # "dev_only"
    <3>1. deps[i].reachability # "dev_only" => Exposure[deps[i].reachability] < 2
      BY <1>3 DEF Exposure, Reachabilities
    <3>2. Exposure["dev_only"] = 2
      BY DEF Exposure
    <3>3. Exposure[deps[i].reachability] \in Nat
      BY <1>3 DEF Exposure, Reachabilities
    <3> QED
      BY <1>3, <2>1, <3>1, <3>2, <3>3
  <2> QED
    BY <2>2, <2>3
<1>7. ASSUME NEW i \in DOMAIN entries, NEW reading \in GoPackageLock
      PROVE  \E d \in reading : d.name = entries[i].name /\ d.version = entries[i].version
  <2> DEFINE Key(d) == << d.name, d.version >>
             all == {Go(j) : j \in DOMAIN entries}
             keys == {Key(d) : d \in all}
  <2>1. PICK pick \in [keys -> all] : /\ reading = {pick[k] : k \in keys}
                                      /\ \A k \in keys : Key(pick[k]) = k
    <3>1. DOMAIN entries = DOMAIN lock.entries /\ \A j \in DOMAIN entries : Go(j) = GoLockDependency(lock.entries[j])
      BY DEF entries
    <3>2. all = {GoLockDependency(lock.entries[j]) : j \in DOMAIN lock.entries}
      BY <3>1
    <3> HIDE DEF all
    <3>3. GoPackageLock =
            {{pick[k] : k \in keys} :
               pick \in {f \in [keys -> all] : \A k \in keys :
                            f[k] \in {d \in all : Key(d) = k /\ \A e \in all : Key(e) = k => d.depth <= e.depth}}}
      BY <3>2 DEF GoPackageLock
    <3> QED
      BY <3>3
  <2>2. Go(i).name = entries[i].name /\ Go(i).version = entries[i].version
    BY DEF GoLockDependency, Dependency
  <2>3. Key(Go(i)) \in keys
    OBVIOUS
  <2>4. pick[Key(Go(i))] \in reading /\ Key(pick[Key(Go(i))]) = Key(Go(i))
    BY <2>1, <2>3
  <2> QED
    BY <2>2, <2>4
<1>8. ASSUME NEW d \in PackageLock
      PROVE  /\ \E i \in DOMAIN entries : d.name = entries[i].name /\ d.version = entries[i].version
             /\ \A e \in PackageLock : d.name = e.name /\ d.version = e.version => d = e
             /\ d.depth = 0 <=> d.name \in lock.direct
  BY <1>3, <1>4, <1>5 DEF Alike
<1> QED
  BY <1>6, <1>7, <1>8 DEF MostExposedWins, entries

\* Whatever a package-lock.json requires of whom, the depth of a package is
\* its distance from the project, and what is installed is scanned as exposed
\* as its most exposed copy (_walk_npm_graph, _parse_lock_v2, _dedupe).
THEOREM LockIsRead == NpmLockAssumption => (WalkSpec => []InstalledIsPlaced)
<1> SUFFICES ASSUME NpmLockAssumption PROVE WalkSpec => []InstalledIsPlaced
  OBVIOUS
<1>1. WalkInit => WalkInv
  BY WalkStarts
<1>2. WalkInv /\ [Visit]_walk => WalkInv'
  BY WalkStep
<1>3. WalkInv => InstalledIsPlaced
  BY WalkIsRight, InstalledIsScanned DEF InstalledIsPlaced
<1> QED
  BY <1>1, <1>2, <1>3, PTL DEF WalkSpec

=============================================================================

--------------------------- MODULE ServiceMapProofs ---------------------------
(***************************************************************************)
(* Proofs about ServiceMap: its types; that no chain of declared parents   *)
(* comes back to itself, whatever the switches report, whatever automatic  *)
(* mode makes of it and whatever a person does, as long as no device is    *)
(* merged with one that is above it; and that one pass of automatic mode   *)
(* puts everything where the reports say.                                  *)
(*                                                                         *)
(* That nothing loops is said without walking: in every set of devices     *)
(* there is one that hangs off none of the others (Grounded).              *)
(***************************************************************************)
EXTENDS ServiceMap, WellFoundedInduction, FiniteSetTheorems, TLAPS

Tree == [Devices -> Devices \cup {None}]
Size == Cardinality(Devices)

\* The parents have no loops.
Grounded(up) ==
  \A S \in SUBSET Devices : S # {} => \E d \in S : up[d] \notin S

-----------------------------------------------------------------------------
(* Numbers, and what is least or most among them. *)

\* The devices are finite in number, and none is None.
LEMMA Counted == Size \in Nat /\ IsFiniteSet(Devices) /\ Devices \subseteq Nat /\ None \notin Devices
BY TopologyAssumption, FS_CardinalityType DEF Size

\* Among some numbers there is a least one.
LEMMA LeastOf ==
  ASSUME NEW S, S \subseteq Nat, S # {} PROVE \E n \in S : \A k \in S : n <= k
<1> DEFINE R == OpToRel(<, Nat)
<1>1. PICK m \in S : \A n \in S : ~ (<<n, m>> \in R)
  <2>1. IsWellFoundedOn(R, Nat)
    BY NatLessThanWellFounded
  <2> HIDE DEF R
  <2> QED
    BY <2>1, WFMin
<1>2. R = {ss \in Nat \X Nat : ss[1] < ss[2]}
  BY Zenon DEF OpToRel
<1> HIDE DEF R
<1>3. \A n \in S : m <= n
  <2> SUFFICES ASSUME NEW n \in S PROVE m <= n
    OBVIOUS
  <2>1. ~(n < m)
    BY <1>1, <1>2
  <2> QED
    BY <2>1
<1> QED
  BY <1>3

\* So what Min gives is one of them.
LEMMA MinIn == ASSUME NEW S, S \subseteq Nat, S # {} PROVE Min(S) \in S
<1>1. \E n \in S : \A k \in S : n <= k
  BY LeastOf
<1> QED
  BY <1>1, Zenon DEF Min

\* Of two, it is the lesser.
LEMMA LesserOf ==
  ASSUME NEW a \in Nat, NEW b \in Nat
  PROVE  Min({a, b}) \in {a, b} /\ Min({a, b}) <= a /\ Min({a, b}) <= b
<1>1. \E n \in {a, b} : \A k \in {a, b} : n <= k
  OBVIOUS
<1>2. Min({a, b}) \in {a, b} /\ \A k \in {a, b} : Min({a, b}) <= k
  BY <1>1, Zenon DEF Min
<1> QED
  BY <1>2

\* And what Max gives, of finitely many.
LEMMA MaxIn == ASSUME NEW S, S \subseteq Nat, IsFiniteSet(S), S # {} PROVE Max(S) \in S
<1> DEFINE B == {Cardinality(T) : T \in {U \in SUBSET S : U # {} /\ ~ \E n \in U : \A k \in U : n >= k}}
<1>1. B \subseteq Nat
  BY FS_Subset, FS_CardinalityType
<1>2. B = {}
  <2> SUFFICES ASSUME B # {} PROVE FALSE
    OBVIOUS
  <2>1. PICK b \in B : \A k \in B : b <= k
    BY <1>1, LeastOf
  <2>2. PICK T \in SUBSET S : T # {} /\ (~ \E n \in T : \A k \in T : n >= k) /\ b = Cardinality(T)
    BY <2>1
  <2>3. PICK x \in T : TRUE
    BY <2>2
  <2> DEFINE U == T \ {x}
  <2>4. IsFiniteSet(T) /\ Cardinality(U) = Cardinality(T) - 1 /\ U \in SUBSET S /\ Cardinality(T) \in Nat
    BY FS_Subset, FS_CardinalityType, FS_RemoveElement
  <2>5. U # {} /\ ~ \E n \in U : \A k \in U : n >= k
    <3>1. x \in Nat /\ T \subseteq Nat
      OBVIOUS
    <3>2. CASE U = {}
      BY <2>2, <3>1, <3>2
    <3>3. ASSUME NEW n \in U, \A k \in U : n >= k PROVE FALSE
      BY <2>2, <3>1, <3>3
    <3> QED
      BY <3>2, <3>3
  <2>6. Cardinality(U) \in B
    BY <2>4, <2>5
  <2> QED
    BY <2>1, <2>2, <2>4, <2>6
<1>3. \E n \in S : \A k \in S : n >= k
  BY <1>2
<1> QED
  BY <1>3, Zenon DEF Max

\* One element, and it can be chosen.
LEMMA OneOf == ASSUME NEW S, Cardinality(S) = 1, IsFiniteSet(S) PROVE (CHOOSE x \in S : TRUE) \in S
BY FS_EmptySet

-----------------------------------------------------------------------------
(* The walk up from a device. *)

\* What Climb is asked to be, up to n steps.
Steps(up, d, f, n) ==
  f = [k \in 0 .. n |-> IF k = 0 THEN d
                        ELSE LET at == f[k - 1] IN IF at = None THEN None ELSE up[at]]

\* There is such a function, however far it goes.
LEMMA StepsExist == ASSUME NEW up, NEW d PROVE \A n \in Nat : \E f : Steps(up, d, f, n)
<1> DEFINE Next1(at) == IF at = None THEN None ELSE up[at]
           B == {n \in Nat : ~ \E f : Steps(up, d, f, n)}
<1>1. \A f, n : Steps(up, d, f, n) <=> f = [k \in 0 .. n |-> IF k = 0 THEN d ELSE Next1(f[k - 1])]
  BY DEF Steps
<1> HIDE DEF Next1
<1> SUFFICES ASSUME B # {} PROVE FALSE
  OBVIOUS
<1>2. PICK n \in B : \A k \in B : n <= k
  <2>1. B \subseteq Nat
    OBVIOUS
  <2> HIDE DEF B
  <2> QED
    BY <2>1, LeastOf
<1>3. n \in Nat /\ ~ \E f : Steps(up, d, f, n)
  OBVIOUS
<1>4. CASE n = 0
  <2> DEFINE f == [k \in 0 .. 0 |-> d]
  <2>1. f = [k \in 0 .. 0 |-> IF k = 0 THEN d ELSE Next1(f[k - 1])]
    OBVIOUS
  <2> QED
    BY <1>1, <1>3, <1>4, <2>1
<1>5. CASE n # 0
  <2>1. n - 1 \in Nat /\ n - 1 \notin B
    BY <1>2, <1>3, <1>5
  <2>2. PICK g : Steps(up, d, g, n - 1)
    BY <2>1
  <2> DEFINE f == [k \in 0 .. n |-> IF k = n THEN Next1(g[n - 1]) ELSE g[k]]
  <2>3. g = [k \in 0 .. n - 1 |-> IF k = 0 THEN d ELSE Next1(g[k - 1])]
    BY <1>1, <2>2
  <2>4. \A k \in 0 .. n : f[k] = IF k = 0 THEN d ELSE Next1(f[k - 1])
    <3> SUFFICES ASSUME NEW k \in 0 .. n PROVE f[k] = IF k = 0 THEN d ELSE Next1(f[k - 1])
      OBVIOUS
    <3>1. CASE k = n
      <4>1. f[k] = Next1(g[n - 1]) /\ n - 1 \in 0 .. n /\ n - 1 # n
        BY <1>3, <1>5, <3>1
      <4>2. f[n - 1] = g[n - 1]
        BY <4>1
      <4> QED
        BY <1>5, <3>1, <4>1, <4>2
    <3>2. CASE k # n
      <4>1. k \in 0 .. n - 1 /\ f[k] = g[k]
        BY <1>3, <3>2
      <4>2. k # 0 => k - 1 \in 0 .. n /\ k - 1 # n
        BY <1>3, <3>2
      <4>3. k # 0 => f[k - 1] = g[k - 1]
        BY <4>2
      <4> QED
        BY <2>3, <4>1, <4>3
    <3> QED
      BY <3>1, <3>2
  <2>5. f = [k \in 0 .. n |-> IF k = 0 THEN d ELSE Next1(f[k - 1])]
    <3> DEFINE h == [k \in 0 .. n |-> IF k = 0 THEN d ELSE Next1(f[k - 1])]
    <3>1. \A k \in 0 .. n : h[k] = f[k]
      BY <2>4
    <3>2. h = [k \in 0 .. n |-> h[k]] /\ f = [k \in 0 .. n |-> f[k]]
      OBVIOUS
    <3> HIDE DEF f, h
    <3>3. h = f
      BY <3>1, <3>2
    <3> QED
      BY <3>3, Zenon DEF h
  <2> QED
    BY <1>1, <1>3, <2>5
<1> QED
  BY <1>4, <1>5

\* So each step of the walk is the parent of the one before.
LEMMA ClimbIs ==
  ASSUME NEW up, NEW d
  PROVE  /\ DOMAIN Climb(up, d) = 0 .. Size
         /\ Climb(up, d)[0] = d
         /\ \A n \in 1 .. Size :
              Climb(up, d)[n] = IF Climb(up, d)[n - 1] = None THEN None ELSE up[Climb(up, d)[n - 1]]
<1> DEFINE climb[n \in 0 .. Size] ==
             IF n = 0 THEN d ELSE LET at == climb[n - 1] IN IF at = None THEN None ELSE up[at]
<1>1. climb = CHOOSE f : f = [n \in 0 .. Size |->
                IF n = 0 THEN d ELSE LET at == f[n - 1] IN IF at = None THEN None ELSE up[at]]
  OBVIOUS
<1>2. \E f : Steps(up, d, f, Size)
  BY Counted, StepsExist
<1>3. Steps(up, d, climb, Size)
  BY <1>1, <1>2, Zenon DEF Steps
<1>4. Climb(up, d) = climb
  BY Zenon DEF Climb, Size
<1> HIDE DEF climb
<1> DEFINE Next1(at) == IF at = None THEN None ELSE up[at]
<1>5. climb = [k \in 0 .. Size |-> IF k = 0 THEN d ELSE Next1(climb[k - 1])]
  BY <1>3 DEF Steps
<1> HIDE DEF Next1
<1>6. /\ DOMAIN climb = 0 .. Size /\ climb[0] = d
      /\ \A k \in 1 .. Size : climb[k] = Next1(climb[k - 1])
  BY <1>5, Counted
<1> QED
  BY <1>4, <1>6 DEF Next1

\* A walk that is on a device was on devices all the way.
LEMMA ClimbStays ==
  ASSUME NEW up \in Tree, NEW d \in Devices, NEW n \in 0 .. Size, Climb(up, d)[n] # None
  PROVE  /\ \A k \in 0 .. n : Climb(up, d)[k] \in Devices
         /\ \A k \in 1 .. n : Climb(up, d)[k] = up[Climb(up, d)[k - 1]]
<1> DEFINE c == Climb(up, d)
<1>1. /\ c[0] = d
      /\ \A k \in 1 .. Size : c[k] = IF c[k - 1] = None THEN None ELSE up[c[k - 1]]
  BY ClimbIs
<1> HIDE DEF c
<1>2. \A k \in 0 .. Size : c[k] \in Devices \cup {None}
  <2> DEFINE B == {k \in Nat : k <= Size /\ c[k] \notin Devices \cup {None}}
  <2> SUFFICES ASSUME B # {} PROVE FALSE
    BY Counted
  <2>1. PICK m \in B : \A k \in B : m <= k
    <3>1. B \subseteq Nat
      OBVIOUS
    <3> HIDE DEF B
    <3> QED
      BY <3>1, LeastOf
  <2>2. m # 0
    BY <1>1
  <2>3. m - 1 \in Nat /\ m - 1 \notin B /\ m \in 1 .. Size
    BY <2>1, <2>2, Counted
  <2>4. c[m - 1] \in Devices \cup {None}
    BY <2>3, Counted
  <2> QED
    BY <1>1, <2>3, <2>4 DEF Tree
<1>3. \A k \in 0 .. n : c[k] # None
  <2> DEFINE B == {k \in Nat : k <= n /\ c[n - k] = None}
  <2>1. n \in Nat /\ n <= Size
    BY Counted
  <2>2. B = {}
    <3> SUFFICES ASSUME B # {} PROVE FALSE
      OBVIOUS
    <3>1. PICK m \in B : \A k \in B : m <= k
      <4>1. B \subseteq Nat
        OBVIOUS
      <4> HIDE DEF B
      <4> QED
        BY <4>1, LeastOf
    <3>2. m # 0
      BY <2>1 DEF c
    <3>3. m - 1 \in Nat /\ m - 1 \notin B /\ n - (m - 1) \in 1 .. Size /\ m - 1 <= n
      BY <2>1, <3>1, <3>2, Counted
    <3>4. c[n - (m - 1)] # None
      BY <3>3
    <3>5. (n - (m - 1)) - 1 = n - m
      BY <2>1
    <3>6. c[n - m] # None
      BY <1>1, <3>3, <3>4, <3>5
    <3> QED
      BY <3>6
  <2> SUFFICES ASSUME NEW k \in 0 .. n, c[k] = None PROVE FALSE
    OBVIOUS
  <2>3. n - k \in Nat /\ n - k <= n /\ n - (n - k) = k
    BY <2>1
  <2>4. n - k \in B
    BY <2>3
  <2> QED
    BY <2>2, <2>4
<1>4. \A k \in 0 .. n : k \in 0 .. Size
  BY Counted
<1>5. \A k \in 1 .. n : k \in 1 .. Size /\ k - 1 \in 0 .. n
  BY Counted
<1> QED
  BY <1>1, <1>2, <1>3, <1>4, <1>5 DEF c

\* A walk that begins at the parent is the rest of the one that began below.
LEMMA ClimbOn ==
  ASSUME NEW up, NEW d \in Devices, NEW a, a = up[d]
  PROVE  \A n \in 0 .. Size : n + 1 <= Size => Climb(up, d)[n + 1] = Climb(up, a)[n]
<1> DEFINE c == Climb(up, d)
           e == Climb(up, a)
           B == {n \in Nat : n + 1 <= Size /\ c[n + 1] # e[n]}
<1>1. /\ c[0] = d /\ e[0] = a
      /\ \A k \in 1 .. Size : c[k] = IF c[k - 1] = None THEN None ELSE up[c[k - 1]]
      /\ \A k \in 1 .. Size : e[k] = IF e[k - 1] = None THEN None ELSE up[e[k - 1]]
  BY ClimbIs
<1> HIDE DEF c, e
<1>2. B = {}
  <2> SUFFICES ASSUME B # {} PROVE FALSE
    OBVIOUS
  <2>1. PICK m \in B : \A k \in B : m <= k
    <3>1. B \subseteq Nat
      OBVIOUS
    <3> HIDE DEF B
    <3> QED
      BY <3>1, LeastOf
  <2>2. m \in Nat /\ m + 1 \in 1 .. Size /\ (m + 1) - 1 = m /\ c[m + 1] # e[m]
    BY Counted
  <2>3. CASE m = 0
    <3>1. c[0] = d /\ d # None
      BY <1>1, Counted
    <3>2. c[1] = up[d]
      BY <1>1, <2>2, <2>3, <3>1
    <3> QED
      BY <1>1, <2>2, <2>3, <3>2
  <2>4. CASE m # 0
    <3>1. m \in 1 .. Size /\ m - 1 \in Nat /\ m - 1 \notin B /\ (m - 1) + 1 = m /\ m <= Size
      BY <2>1, <2>2, <2>4, Counted
    <3>2. c[m] = e[m - 1]
      BY <3>1
    <3> QED
      BY <1>1, <2>2, <3>1, <3>2
  <2> QED
    BY <2>3, <2>4
<1> QED
  BY <1>2, Counted DEF c, e

-----------------------------------------------------------------------------
(* Trees without loops. *)

\* Where nothing loops, no walk is on a device twice.
LEMMA NoReturn ==
  ASSUME NEW up \in Tree, Grounded(up), NEW d \in Devices, NEW n \in 0 .. Size, Climb(up, d)[n] # None,
         NEW i \in 0 .. n, NEW j \in 0 .. n, i < j, Climb(up, d)[i] = Climb(up, d)[j]
  PROVE  FALSE
<1> DEFINE c == Climb(up, d)
           S == {c[k] : k \in i .. j - 1}
<1>1. /\ \A k \in 0 .. n : c[k] \in Devices
      /\ \A k \in 1 .. n : c[k] = up[c[k - 1]]
  BY ClimbStays
<1> HIDE DEF c
<1>2. n \in Nat /\ n <= Size
  BY Counted
<1>3. \A k \in i .. j - 1 : k \in 0 .. n /\ k + 1 \in 1 .. n /\ (k + 1) - 1 = k
  BY <1>2
<1>4. S \in SUBSET Devices
  BY <1>1, <1>3
<1>5. c[i] \in S /\ c[i] = c[j]
  BY <1>2 DEF c
<1>6. ASSUME NEW e \in S PROVE up[e] \in S
  <2>1. PICK k \in i .. j - 1 : e = c[k]
    OBVIOUS
  <2>2. up[e] = c[k + 1]
    BY <1>1, <1>3, <2>1
  <2>3. k + 1 = j \/ k + 1 \in i .. j - 1
    BY <1>2
  <2> QED
    BY <1>5, <2>2, <2>3
<1> HIDE DEF S
<1> QED
  BY <1>4, <1>5, <1>6 DEF Grounded

\* So they have no loops (hierarchy.py: "Cycles cannot be saved").
LEMMA GroundedHasNoLoops == ASSUME NEW up \in Tree, Grounded(up) PROVE Loops(up) = {}
<1> SUFFICES ASSUME NEW d \in Devices, NEW n \in 1 .. Size, Climb(up, d)[n] = d PROVE FALSE
  BY DEF Loops, Size
<1>1. n \in 0 .. Size /\ 0 \in 0 .. n /\ n \in 0 .. n /\ 0 < n /\ d # None
  BY Counted
<1>2. Climb(up, d)[0] = d
  BY ClimbIs
<1> QED
  BY <1>1, <1>2, NoReturn

\* ... and every walk is over within as many steps as there are devices.
LEMMA WalksEnd == ASSUME NEW up \in Tree, Grounded(up), NEW d \in Devices PROVE Climb(up, d)[Size] = None
<1> SUFFICES ASSUME Climb(up, d)[Size] # None PROVE FALSE
  OBVIOUS
<1> DEFINE c == Climb(up, d)
           f == [k \in 0 .. Size |-> c[k]]
<1>1. Size \in 0 .. Size
  BY Counted
<1>2. \A k \in 0 .. Size : c[k] \in Devices
  BY <1>1, ClimbStays
<1>3. f \in [0 .. Size -> Devices]
  BY <1>2
<1>4. IsFiniteSet(0 .. Size) /\ Cardinality(0 .. Size) = Size + 1
  BY Counted, FS_Interval
<1>5. \E x, y \in 0 .. Size : x # y /\ f[x] = f[y]
  <2> HIDE DEF f
  <2>1. Cardinality(Devices) < Cardinality(0 .. Size)
    BY <1>4, Counted DEF Size
  <2> QED
    BY <1>3, <1>4, <2>1, Counted, FS_PigeonHole
<1>6. PICK x, y \in 0 .. Size : x # y /\ c[x] = c[y]
  BY <1>5
<1> HIDE DEF f
<1>7. x < y \/ y < x
  BY <1>6, Counted
<1> QED
  BY <1>1, <1>6, <1>7, NoReturn

\* What is not below a device hangs off nothing that is.
LEMMA AsideIsAside ==
  ASSUME NEW up \in Tree, Grounded(up), NEW d \in Devices, NEW e \in Devices,
         e # d, e \notin Descendants(up, d), up[e] # None
  PROVE  up[e] \in Devices /\ up[e] # d /\ up[e] \notin Descendants(up, d)
<1> DEFINE a == up[e]
<1>1. a \in Devices
  BY DEF Tree
<1>2. \A n \in 1 .. Size : Climb(up, e)[n] # d
  BY DEF Descendants, Size
<1>3. \A n \in 0 .. Size : n + 1 <= Size => Climb(up, e)[n + 1] = Climb(up, a)[n]
  BY ClimbOn
<1>4. Climb(up, a)[Size] = None
  BY <1>1, WalksEnd
<1>5. Climb(up, a)[0] = a
  BY ClimbIs
<1> HIDE DEF a
<1>6. ASSUME NEW n \in 0 .. Size, Climb(up, a)[n] = d PROVE FALSE
  <2>1. n # Size /\ n \in Nat /\ Size \in Nat
    BY <1>4, <1>6, Counted
  <2>2. n + 1 \in 1 .. Size
    BY <2>1
  <2> QED
    BY <1>2, <1>3, <1>6, <2>1, <2>2
<1>7. a # d
  BY <1>5, <1>6, Counted
<1>8. a \notin Descendants(up, d)
  <2>1. \A n \in 1 .. Size : n \in 0 .. Size
    BY Counted
  <2> QED
    BY <1>6, <2>1 DEF Descendants, Size
<1> QED
  BY <1>1, <1>7, <1>8 DEF a

\* A device hung off one that is neither itself nor below it makes no loop
\* (hierarchy.can_parent).
LEMMA HungIsGrounded ==
  ASSUME NEW up \in Tree, Grounded(up), NEW d \in Devices, NEW p \in Devices, CanParent(up, d, p)
  PROVE  [up EXCEPT ![d] = p] \in Tree /\ Grounded([up EXCEPT ![d] = p])
<1> DEFINE new == [up EXCEPT ![d] = p]
<1>1. new \in Tree /\ new[d] = p /\ \A e \in Devices : e # d => new[e] = up[e]
  BY DEF Tree
<1> HIDE DEF new
<1>2. ASSUME NEW S \in SUBSET Devices, S # {}, \A e \in S : new[e] \in S PROVE FALSE
  <2>1. CASE d \notin S
    BY <1>1, <1>2, <2>1 DEF Grounded
  <2>2. CASE d \in S
    <3> DEFINE T == {e \in S : e # d /\ e \notin Descendants(up, d)}
    <3>1. p \in T
      BY <1>1, <1>2, <2>2 DEF CanParent
    <3>2. ASSUME NEW e \in T PROVE up[e] \in T
      <4>1. e \in S /\ e # d /\ e \notin Descendants(up, d) /\ e \in Devices
        OBVIOUS
      <4>2. up[e] \in S
        BY <1>1, <1>2, <4>1
      <4>3. up[e] # None
        BY <4>2, Counted
      <4> QED
        BY <4>1, <4>2, <4>3, AsideIsAside
    <3>3. T \in SUBSET Devices
      OBVIOUS
    <3> HIDE DEF T
    <3> QED
      BY <3>1, <3>2, <3>3 DEF Grounded
  <2> QED
    BY <2>1, <2>2
<1> QED
  BY <1>1, <1>2 DEF Grounded, new

\* Taking devices off the map makes none.
LEMMA FewerIsGrounded ==
  ASSUME NEW up \in Tree, Grounded(up), NEW new \in Tree,
         \A d \in Devices : new[d] \in {up[d], None}
  PROVE  Grounded(new)
<1> SUFFICES ASSUME NEW S \in SUBSET Devices, S # {}, \A e \in S : new[e] \in S PROVE FALSE
  BY DEF Grounded
<1>1. \A e \in S : up[e] \in S
  BY Counted
<1> QED
  BY <1>1 DEF Grounded

\* Nor does hanging what hung off one device off another that is not below it
\* (merge.apply, after which the first is gone).
LEMMA JoinedIsGrounded ==
  ASSUME NEW up \in Tree, Grounded(up), NEW keep \in Devices, NEW other \in Devices,
         keep # other, keep \notin Descendants(up, other), NEW new \in Tree, new[other] = None,
         \A d \in Devices : new[d] \in {up[d], None} \/ (up[d] = other /\ new[d] = keep)
  PROVE  Grounded(new)
<1> SUFFICES ASSUME NEW S \in SUBSET Devices, S # {}, \A e \in S : new[e] \in S PROVE FALSE
  BY DEF Grounded
<1>1. \A e \in S : e \in Devices /\ e # other /\ new[e] # None
  BY Counted
<1>2. CASE \A e \in S : new[e] = up[e]
  BY <1>2 DEF Grounded
<1>3. CASE \E e \in S : new[e] # up[e]
  <2> DEFINE T == {e \in S : e \notin Descendants(up, other)}
  <2>1. keep \in T
    BY <1>1, <1>3
  <2>2. ASSUME NEW e \in T PROVE up[e] \in T
    <3>1. e \in S /\ e \notin Descendants(up, other)
      OBVIOUS
    <3>2. up[e] # None
      BY <1>1, <3>1, Counted
    <3>3. up[e] \in Devices /\ up[e] # other /\ up[e] \notin Descendants(up, other)
      BY <1>1, <3>1, <3>2, AsideIsAside
    <3>4. new[e] = up[e]
      BY <1>1, <3>1, <3>3
    <3> QED
      BY <3>1, <3>3, <3>4
  <2>3. T \in SUBSET Devices
    OBVIOUS
  <2> HIDE DEF T
  <2> QED
    BY <2>1, <2>2, <2>3 DEF Grounded
<1> QED
  BY <1>2, <1>3

-----------------------------------------------------------------------------
(* What is found is about devices there are. *)

\* A net that speaks of the devices in R only.
About(net, R) ==
  /\ R \subseteq Devices
  /\ \A d \in Devices : net.macs[d] # {} => d \in R
  /\ DOMAIN net.tables \subseteq R /\ DOMAIN net.lldp \subseteq R
  /\ \A s \in DOMAIN net.lldp : net.lldp[s] \subseteq Nat \X R
  /\ net.root \in R \cup {None}

\* A link from one of them to another, or to nothing.
Within(l, R) == l.device \in R /\ l.parent \in R \cup {None}

\* One link that is made.
LEMMA LinkIs ==
  ASSUME NEW R, NEW d \in R, NEW p \in R \cup {None}, NEW port, NEW source
  PROVE  Within(Link(d, p, port, source), R)
BY DEF Within, Link

\* Only switches that answered are used.
LEMMA UplinksOf == ASSUME NEW net PROVE DOMAIN Uplinks(net) \subseteq DOMAIN net.tables
BY DEF Uplinks

\* What the MAC tables say.
LEMMA MacLinksAbout ==
  ASSUME NEW net, NEW R, About(net, R), net.root # None,
         NEW up, DOMAIN up \subseteq DOMAIN net.tables
  PROVE  \A l \in MacLinks(net, up) : Within(l, R)
<1> DEFINE known == {d \in Devices : net.macs[d] # {}} \ {net.root}
           sees  == {sd \in (DOMAIN up) \X Devices :
                       sd[1] # sd[2] /\ SeenOn(net, up, sd[1], sd[2]) # {}}
           seers(d)    == {s \in DOMAIN up : <<s, d>> \in sees}
           switches(d) == Deepest(sees, seers(d))
           seenUp      == UNION {net.tables[s][up[s]] : s \in DOMAIN up \ {net.root}}
           placed  == {d \in known : Cardinality(switches(d)) = 1}
           switch(d) == CHOOSE s \in switches(d) : TRUE
           unseen  == {d \in known : seers(d) = {}}
           onTop   == unseen \cap DOMAIN up
           onWayUp == {d \in unseen \ onTop : net.macs[d] \cap seenUp # {}}
<1>1. DOMAIN up \subseteq R /\ R \subseteq Devices /\ known \subseteq R /\ net.root \in R
  BY DEF About
<1>2. MacLinks(net, up) =
        {Link(d, switch(d), Min(SeenOn(net, up, switch(d), d)), "mac") : d \in placed}
        \cup {Link(d, net.root, up[d], "top") : d \in onTop}
        \cup {Link(d, net.root, None, "uplink") : d \in onWayUp}
        \cup {Link(net.root, None, None, "root")}
  BY DEF MacLinks
<1>3. ASSUME NEW d \in placed PROVE d \in R /\ switch(d) \in R
  <2>1. switches(d) \subseteq DOMAIN up /\ Cardinality(switches(d)) = 1
    BY DEF Deepest
  <2>2. IsFiniteSet(switches(d))
    <3> HIDE DEF switches
    <3> QED
      BY <1>1, <2>1, Counted, FS_Subset
  <2>3. switch(d) \in switches(d)
    <3> HIDE DEF switches
    <3> QED
      BY <2>1, <2>2, OneOf
  <2>4. d \in R
    BY <1>1
  <2> HIDE DEF switches, switch
  <2> QED
    BY <1>1, <2>1, <2>3, <2>4
<1>4. onTop \subseteq R /\ onWayUp \subseteq R /\ None \in R \cup {None}
  BY <1>1
<1> HIDE DEF placed, onTop, onWayUp, switch
<1> SUFFICES ASSUME NEW l \in MacLinks(net, up) PROVE Within(l, R)
  OBVIOUS
<1>5. CASE \E d \in placed : l = Link(d, switch(d), Min(SeenOn(net, up, switch(d), d)), "mac")
  BY <1>3, <1>5, LinkIs
<1>6. CASE \E d \in onTop : l = Link(d, net.root, up[d], "top")
  BY <1>1, <1>4, <1>6, LinkIs
<1>7. CASE \E d \in onWayUp : l = Link(d, net.root, None, "uplink")
  BY <1>1, <1>4, <1>7, LinkIs
<1>8. CASE l = Link(net.root, None, None, "root")
  BY <1>1, <1>8, LinkIs
<1> QED
  BY <1>2, <1>5, <1>6, <1>7, <1>8

\* Behind a piece of infrastructure that is one of them.
LEMMA BehindAbout ==
  ASSUME NEW net, NEW R, R \subseteq Devices, NEW links, \A l \in links : Within(l, R)
  PROVE  \A l \in Behind(net, links) : Within(l, R)
<1> DEFINE group(l) == IF l.source # "mac" THEN {}
                       ELSE {k.device : k \in {k \in links : /\ k.source = "mac"
                                                            /\ <<k.parent, k.port>> = <<l.parent, l.port>>}}
           front(l) == {d \in group(l) \cap net.infra : net.parents[d] \notin group(l)}
           which(l) == CHOOSE d \in front(l) : TRUE
           made(l)  == IF Cardinality(front(l)) = 1 /\ l.device \notin front(l)
                       THEN Link(l.device, which(l), l.port, "behind") ELSE l
<1>1. Behind(net, links) = {made(l) : l \in links}
  BY DEF Behind
<1>2. ASSUME NEW l \in links PROVE Within(made(l), R)
  <2>1. front(l) \subseteq R
    BY DEF Within
  <2>2. l.device \in R
    BY DEF Within
  <2> HIDE DEF front
  <2>3. IsFiniteSet(front(l))
    BY <2>1, Counted, FS_Subset
  <2>4. CASE Cardinality(front(l)) = 1 /\ l.device \notin front(l)
    <3>1. which(l) \in R
      BY <2>1, <2>3, <2>4, OneOf
    <3> HIDE DEF which
    <3> QED
      BY <2>2, <2>4, <3>1, LinkIs
  <2>5. CASE ~(Cardinality(front(l)) = 1 /\ l.device \notin front(l))
    BY <2>5
  <2> QED
    BY <2>4, <2>5
<1> HIDE DEF made
<1> QED
  BY <1>1, <1>2

\* Of some rows of LLDP, the one with the lowest switch and port is there.
LEMMA FirstIn ==
  ASSUME NEW S, S # {}, NEW R, R \subseteq Nat, S \subseteq R \X Nat \X R
  PROVE  (CHOOSE r \in S : \A q \in S : r[1] < q[1] \/ (r[1] = q[1] /\ r[2] <= q[2])) \in S
<1>1. PICK a \in {r[1] : r \in S} : \A b \in {r[1] : r \in S} : a <= b
  <2> DEFINE A == {r[1] : r \in S}
  <2>1. A \subseteq Nat /\ A # {}
    OBVIOUS
  <2> HIDE DEF A
  <2>2. \E n \in A : \A k \in A : n <= k
    BY <2>1, LeastOf
  <2> QED
    BY <2>2 DEF A
<1> DEFINE P == {r[2] : r \in {q \in S : q[1] = a}}
<1>2. PICK p \in P : \A b \in P : p <= b
  <2>1. P \subseteq Nat /\ P # {}
    BY <1>1
  <2> HIDE DEF P
  <2> QED
    BY <2>1, LeastOf
<1>3. PICK r \in S : r[1] = a /\ r[2] = p
  BY <1>2
<1>4. \A q \in S : r[1] < q[1] \/ (r[1] = q[1] /\ r[2] <= q[2])
  <2> SUFFICES ASSUME NEW q \in S PROVE r[1] < q[1] \/ (r[1] = q[1] /\ r[2] <= q[2])
    OBVIOUS
  <2>1. r[1] \in Nat /\ q[1] \in Nat /\ r[1] <= q[1]
    BY <1>1, <1>3
  <2>2. CASE q[1] = a
    BY <1>2, <1>3, <2>2
  <2>3. CASE q[1] # a
    BY <1>3, <2>1, <2>3
  <2> QED
    BY <2>2, <2>3
<1>5. \E s \in S : \A q \in S : s[1] < q[1] \/ (s[1] = q[1] /\ s[2] <= q[2])
  BY <1>4
<1> QED
  BY <1>5, Zenon

\* What LLDP says.
LEMMA LldpLinksAbout ==
  ASSUME NEW net, NEW R, About(net, R), net.root # None, NEW up
  PROVE  \A l \in LldpLinks(net, up) : Within(l, R)
<1> DEFINE told == {r \in UNION {{<<s, h[1], h[2]>> : h \in net.lldp[s]} : s \in DOMAIN net.lldp} :
                      r[3] # r[1]}
           isDown(r) == \/ r[1] = net.root
                        \/ r[1] \in DOMAIN up /\ r[2] # up[r[1]] /\ r[3] # net.root
           isUp(r)   == /\ ~isDown(r)
                        /\ r[3] = net.root \/ (r[1] \in DOMAIN up /\ r[2] = up[r[1]])
           first(S)  == CHOOSE r \in S : \A q \in S : r[1] < q[1] \/ (r[1] = q[1] /\ r[2] <= q[2])
           down(d) == {r \in told : isDown(r) /\ r[3] = d}
           above(d) == {r \in told : isUp(r) /\ r[1] = d}
           made(d) == IF down(d) # {}
                      THEN Link(d, first(down(d))[1], first(down(d))[2], "lldp")
                      ELSE Link(d, first(above(d))[3], first(above(d))[2], "lldp")
<1>1. LldpLinks(net, up) = {made(d) : d \in {e \in Devices \ {net.root} : down(e) \cup above(e) # {}}}
  BY DEF LldpLinks
<1>2. R \subseteq Nat /\ told \subseteq R \X Nat \X R
  <2>1. R \subseteq Nat
    BY Counted DEF About
  <2>2. ASSUME NEW s \in DOMAIN net.lldp, NEW h \in net.lldp[s] PROVE s \in R /\ h \in Nat \X R
    BY DEF About
  <2> QED
    BY <2>1, <2>2
<1>3. ASSUME NEW S, S \subseteq told, S # {} PROVE first(S) \in S
  <2> HIDE DEF told
  <2>1. S \subseteq R \X Nat \X R
    BY <1>2, <1>3
  <2> QED
    BY <1>2, <1>3, <2>1, FirstIn
<1>4. ASSUME NEW d \in Devices, down(d) \cup above(d) # {} PROVE Within(made(d), R)
  <2>1. down(d) \subseteq told /\ above(d) \subseteq told
    OBVIOUS
  <2>2. \A r \in down(d) : r[3] = d
    OBVIOUS
  <2>3. \A r \in above(d) : r[1] = d
    OBVIOUS
  <2> HIDE DEF told, down, above, first
  <2>4. CASE down(d) # {}
    <3>1. first(down(d)) \in R \X Nat \X R /\ first(down(d))[3] = d
      BY <1>2, <1>3, <2>1, <2>2, <2>4
    <3> QED
      BY <2>4, <3>1, LinkIs
  <2>5. CASE down(d) = {}
    <3>1. first(above(d)) \in R \X Nat \X R /\ first(above(d))[1] = d
      BY <1>2, <1>3, <1>4, <2>1, <2>3, <2>5
    <3> QED
      BY <2>5, <3>1, LinkIs
  <2> QED
    BY <2>4, <2>5
<1> HIDE DEF made, down, above
<1> QED
  BY <1>1, <1>4

\* And what is left without loops.
LEMMA InferAbout ==
  ASSUME NEW net, NEW R, About(net, R)
  PROVE  /\ DOMAIN Infer(net) \subseteq R
         /\ \A d \in DOMAIN Infer(net) : Infer(net)[d].parent \in R \cup {None}
<1>1. CASE net.root = None
  BY <1>1 DEF Infer
<1>2. CASE net.root # None
  <2> DEFINE up    == Uplinks(net)
             heard == LldpLinks(net, up)
             seen  == Behind(net, MacLinks(net, up))
             links == heard \cup {l \in seen : \A h \in heard : h.device # l.device}
             of(d) == CHOOSE l \in links : l.device = d
  <2>1. Infer(net) = WithoutLoops(links)
    BY <1>2, Zenon DEF Infer
  <2>2. \A l \in links : Within(l, R)
    <3>1. \A l \in heard : Within(l, R)
      BY <1>2, LldpLinksAbout
    <3>2. \A l \in seen : Within(l, R)
      <4>1. R \subseteq Devices
        BY DEF About
      <4>2. \A l \in MacLinks(net, up) : Within(l, R)
        BY <1>2, UplinksOf, MacLinksAbout
      <4> QED
        BY <4>1, <4>2, BehindAbout
    <3> QED
      BY <3>1, <3>2
  <2> HIDE DEF links
  <2>3. \E E \in SUBSET {l.device : l \in links} : WithoutLoops(links) = [d \in E |-> of(d)]
    <3> DEFINE parents == [d \in Devices |-> IF d \in {l.device : l \in links} THEN of(d).parent ELSE None]
               E  == {d \in {l.device : l \in links} : Climb(parents, d)[Cardinality(Devices)] = None}
    <3>1. WithoutLoops(links) = [d \in E |-> of(d)]
      BY Zenon DEF WithoutLoops
    <3>2. E \in SUBSET {l.device : l \in links}
      OBVIOUS
    <3> HIDE DEF E
    <3> QED
      BY <3>1, <3>2
  <2>4. PICK E \in SUBSET {l.device : l \in links} : WithoutLoops(links) = [d \in E |-> of(d)]
    BY <2>3
  <2>5. ASSUME NEW d \in E PROVE of(d) \in links /\ of(d).device = d
    <3>1. \E l \in links : l.device = d
      OBVIOUS
    <3> QED
      BY <3>1, Zenon
  <2> HIDE DEF of
  <2> QED
    BY <2>1, <2>2, <2>4, <2>5 DEF Within
<1> QED
  BY <1>1, <1>2

-----------------------------------------------------------------------------
(* The reports in force are about the rows there are. *)

\* The device a machine seen by LLDP belongs to has a row.
LEMMA NeighbourIn == ASSUME TypeOK, NEW m, Neighbour(m) # None PROVE Neighbour(m) \in rows
<1>1. \A d \in Devices : Macs[d] # {} => d \in rows
  BY DEF Macs
<1>2. ASSUME ByMac(m) # None PROVE ByMac(m) \in rows
  <2> DEFINE S == {d \in Devices : m \in Macs[d]} \cup {None}
  <2>1. S \subseteq Nat /\ IsFiniteSet(S) /\ S # {}
    <3>1. IsFiniteSet({d \in Devices : m \in Macs[d]})
      BY Counted, FS_Subset
    <3>2. IsFiniteSet(S)
      BY <3>1, FS_AddElement
    <3>3. S \subseteq Nat /\ S # {}
      BY Counted DEF None
    <3> QED
      BY <3>2, <3>3
  <2>2. ByMac(m) = Max(S)
    BY DEF ByMac
  <2>3. \A d \in S : d # None => d \in rows
    BY <1>1
  <2> HIDE DEF S
  <2> QED
    BY <1>2, <2>1, <2>2, <2>3, MaxIn
<1>3. ASSUME ByName(m) # None PROVE ByName(m) \in rows
  <2> DEFINE S == {d \in rows : NameOf[d] = m}
             x == CHOOSE d \in S : TRUE
  <2>1. ByName(m) = IF Cardinality(S) = 1 THEN x ELSE None
    BY DEF ByName
  <2>2. Cardinality(S) = 1 => x \in S
    <3>1. IsFiniteSet(S)
      BY Counted, FS_Subset DEF TypeOK
    <3> HIDE DEF S
    <3> QED
      BY <3>1, OneOf
  <2> HIDE DEF x
  <2> QED
    BY <1>3, <2>1, <2>2
<1> QED
  BY <1>2, <1>3 DEF Neighbour

\* So has the gateway.
LEMMA RootIn == ASSUME TypeOK, NEW roles PROVE Root(roles) \in rows \cup {None}
<1> DEFINE gateways == {d \in rows \ ignored : roles[d] = "gateway"}
           first    == {d \in gateways : \E m \in Polled : snmp[m] = d}
           byAddresses == {snmp[m] : m \in {n \in ManyOwn : read[n] # NotRead}} \ ({None} \cup ignored)
           x == CHOOSE d \in byAddresses : TRUE
<1>1. Root(roles) = IF first # {} THEN Min(first)
                    ELSE IF gateways # {} THEN Min(gateways)
                    ELSE IF Cardinality(byAddresses) = 1 THEN x ELSE None
  BY DEF Root
<1>2. first \subseteq rows /\ gateways \subseteq rows /\ rows \subseteq Nat /\ rows \subseteq Devices
  BY Counted DEF TypeOK
<1>3. byAddresses \subseteq rows
  BY ServiceMapAssumption DEF TypeOK
<1>4. Cardinality(byAddresses) = 1 => x \in byAddresses
  <2>1. IsFiniteSet(byAddresses)
    <3> HIDE DEF byAddresses
    <3> QED
      BY <1>2, <1>3, Counted, FS_Subset
  <2> HIDE DEF byAddresses
  <2> QED
    BY <2>1, OneOf
<1>5. first # {} => Min(first) \in first
  <2> HIDE DEF first
  <2> QED
    BY <1>2, MinIn
<1>6. gateways # {} => Min(gateways) \in gateways
  <2> HIDE DEF gateways
  <2> QED
    BY <1>2, MinIn
<1> HIDE DEF first, gateways, byAddresses, x
<1> QED
  BY <1>1, <1>2, <1>3, <1>4, <1>5, <1>6

\* What is discovered is about rows, and suggests roles there are.
LEMMA NetAbout == ASSUME TypeOK, NEW parents, NEW roles PROVE About(Net(parents, roles), rows)
<1> DEFINE net == Net(parents, roles)
           told == {e \in rows : Reports(e) # {}}
           which(d) == CHOOSE m \in Reports(d) : TRUE
           said(d) == {<<h[1], Neighbour(h[2])>> :
                         h \in {g \in Heard(read[which(d)], which(d)) : Neighbour(g[2]) # None}}
<1>1. /\ net.macs = Macs /\ net.root = Root(roles)
      /\ DOMAIN net.tables = {snmp[m] : m \in Bridges} \cap told
      /\ net.lldp = [d \in told |-> said(d)]
  BY Zenon DEF Net
<1>2. \A d \in told : said(d) \subseteq Nat \X rows
  <2> SUFFICES ASSUME NEW d \in told, NEW h \in Heard(read[which(d)], which(d)), Neighbour(h[2]) # None
               PROVE  <<h[1], Neighbour(h[2])>> \in Nat \X rows
    OBVIOUS
  <2>1. h[1] \in Nat
    <3> HIDE DEF which
    <3> QED
      BY ServiceMapAssumption DEF Heard
  <2> QED
    BY <2>1, NeighbourIn
<1>3. \A d \in Devices : Macs[d] # {} => d \in rows
  BY DEF Macs
<1> HIDE DEF net, said
<1>4. DOMAIN net.lldp = told /\ \A s \in DOMAIN net.lldp : net.lldp[s] \subseteq Nat \X rows
  BY <1>1, <1>2
<1>5. rows \subseteq Devices
  BY DEF TypeOK
<1> QED
  BY <1>1, <1>3, <1>4, <1>5, RootIn DEF About, net

\* A found place of a device there is, below another that is.
Found(found) ==
  /\ DOMAIN found \subseteq rows
  /\ \A d \in DOMAIN found : found[d].parent \in rows \cup {None} /\ found[d].role \in MapRoles

\* Such are the places that are discovered.
LEMMA DiscoverFinds == ASSUME TypeOK, NEW parents, NEW roles PROVE Found(Discover(parents, roles))
<1> DEFINE net == Net(parents, roles)
           links == Infer(net)
           named(d) == IF d = net.root THEN "gateway"
                       ELSE IF d \in DOMAIN net.tables THEN "switch" ELSE "unknown"
<1>1. Discover(parents, roles) = [d \in DOMAIN links |-> [parent |-> links[d].parent, role |-> named(d)]]
  BY Zenon DEF Discover
<1>2. About(net, rows)
  BY NetAbout
<1> HIDE DEF net
<1>3. \A d : named(d) \in MapRoles
  BY DEF MapRoles
<1>4. DOMAIN links \subseteq rows /\ \A d \in DOMAIN links : links[d].parent \in rows \cup {None}
  BY <1>2, InferAbout
<1> HIDE DEF links, named
<1> QED
  BY <1>1, <1>3, <1>4 DEF Found

-----------------------------------------------------------------------------
(* What automatic mode makes of it, and what a person accepts. *)

\* A map of the rows that are there.
MapOf(map, there) ==
  /\ map.parent \in [Devices -> there \cup {None}]
  /\ DOMAIN map.auto \subseteq there /\ \A d \in DOMAIN map.auto : map.auto[d] \in there \cup {None}
  /\ map.role \in [Devices -> MapRoles]

\* A map as it should be: places among the rows, and no loops, unless a merge
\* made one already (not safe).
Sound(map, safe) == MapOf(map, rows) /\ (safe => Grounded(map.parent))

\* One device is put where it was found.
LEMMA SettledSound ==
  ASSUME TypeOK, NEW safe \in BOOLEAN, NEW how, NEW map, Sound(map, safe), NEW found, Found(found),
         NEW d \in DOMAIN found
  PROVE  Sound(Settled(how, map, d, found), safe)
<1> DEFINE p     == found[d].parent
           hung  == [map.parent EXCEPT ![d] = p]
           named == [map.role EXCEPT ![d] = found[d].role]
           put   == [e \in DOMAIN map.auto \cup {d} |-> IF e = d THEN p ELSE map.auto[e]]
<1>1. d \in rows /\ p \in rows \cup {None} /\ found[d].role \in MapRoles /\ rows \subseteq Devices
  BY DEF Found, TypeOK
<1>2. map.parent \in Tree /\ (safe => Grounded(map.parent))
  BY <1>1 DEF Sound, MapOf, Tree
<1>3. named \in [Devices -> MapRoles]
  BY <1>1 DEF Sound, MapOf
<1>4. p # None => hung \in [Devices -> rows \cup {None}]
  BY <1>1 DEF Sound, MapOf
<1>5. safe /\ p # None /\ CanParent(map.parent, d, p) => Grounded(hung)
  BY <1>1, <1>2, HungIsGrounded
<1>6. DOMAIN put \subseteq rows /\ \A e \in DOMAIN put : put[e] \in rows \cup {None}
  BY <1>1 DEF Sound, MapOf
<1> DEFINE fresh == d \notin DOMAIN map.auto /\ map.parent[d] = None
           own   == d \in DOMAIN map.auto /\ map.parent[d] = map.auto[d]
           goes  == /\ p # None /\ p # map.parent[d]
                    /\ fresh \/ own
                    /\ CanParent(map.parent, d, p)
           takes == p # None /\ map.parent[d] = None
           new   == found[d].role # "unknown" /\ map.role[d] = "unknown"
           placed   == [parent |-> IF goes THEN hung ELSE map.parent,
                        auto   |-> IF goes THEN put ELSE map.auto,
                        role   |-> IF new THEN named ELSE map.role]
           accepted == [parent |-> IF takes THEN hung ELSE map.parent,
                        auto   |-> map.auto,
                        role   |-> IF new THEN named ELSE map.role]
<1>7. Placed(map, d, found) = placed
  BY Zenon DEF Placed
<1>8. Accepted(map, d, found) = IF takes /\ ~CanParent(map.parent, d, p) THEN map ELSE accepted
  BY Zenon DEF Accepted
<1>9. goes => p # None /\ CanParent(map.parent, d, p)
  OBVIOUS
<1>10. takes => p # None
  OBVIOUS
<1> HIDE DEF goes, takes, new, hung, named, put, p
<1>11. Sound(placed, safe)
  BY <1>3, <1>4, <1>5, <1>6, <1>9 DEF Sound, MapOf
<1>12. takes => CanParent(map.parent, d, p) \/ map = Accepted(map, d, found)
  BY <1>8
<1>13. Sound(Accepted(map, d, found), safe)
  <2>1. CASE takes /\ ~CanParent(map.parent, d, p)
    BY <1>8, <2>1
  <2>2. CASE ~(takes /\ ~CanParent(map.parent, d, p))
    <3>1. Sound(accepted, safe)
      BY <1>3, <1>4, <1>5, <1>10, <2>2 DEF Sound, MapOf
    <3> QED
      BY <1>8, <2>2, <3>1
  <2> QED
    BY <2>1, <2>2
<1> QED
  BY <1>7, <1>11, <1>13 DEF Settled

\* The chosen devices, one after the other, up to the nth of the order.
Doing(how, map, found, chosen, f, n) ==
  f = [k \in 0 .. n |->
         IF k = 0 THEN map
         ELSE IF k \in DOMAIN InOrder(found) /\ InOrder(found)[k] \in chosen
              THEN Settled(how, f[k - 1], InOrder(found)[k], found)
         ELSE f[k - 1]]

\* There is such a function, however many they are.
LEMMA DoingExists ==
  ASSUME NEW how, NEW map, NEW found, NEW chosen
  PROVE  \A n \in Nat : \E f : Doing(how, map, found, chosen, f, n)
<1> DEFINE then(x, k) == IF k \in DOMAIN InOrder(found) /\ InOrder(found)[k] \in chosen
                         THEN Settled(how, x, InOrder(found)[k], found) ELSE x
           Fits(f, n) == Doing(how, map, found, chosen, f, n)
           B == {n \in Nat : ~ \E f : Fits(f, n)}
<1>1. \A f, n : Fits(f, n) <=> f = [k \in 0 .. n |-> IF k = 0 THEN map ELSE then(f[k - 1], k)]
  BY DEF Doing
<1> HIDE DEF then, Fits
<1> SUFFICES ASSUME B # {} PROVE FALSE
  BY DEF Fits
<1>2. PICK n \in B : \A k \in B : n <= k
  <2>1. B \subseteq Nat
    OBVIOUS
  <2> HIDE DEF B
  <2> QED
    BY <2>1, LeastOf
<1>3. n \in Nat /\ ~ \E f : Fits(f, n)
  OBVIOUS
<1>4. CASE n = 0
  <2> DEFINE f == [k \in 0 .. 0 |-> map]
  <2>1. f = [k \in 0 .. 0 |-> IF k = 0 THEN map ELSE then(f[k - 1], k)]
    OBVIOUS
  <2> QED
    BY <1>1, <1>3, <1>4, <2>1
<1>5. CASE n # 0
  <2>1. n - 1 \in Nat /\ n - 1 \notin B
    BY <1>2, <1>3, <1>5
  <2>2. PICK g : Fits(g, n - 1)
    BY <2>1
  <2> DEFINE f == [k \in 0 .. n |-> IF k = n THEN then(g[n - 1], n) ELSE g[k]]
  <2>3. g = [k \in 0 .. n - 1 |-> IF k = 0 THEN map ELSE then(g[k - 1], k)]
    BY <1>1, <2>2
  <2>4. \A k \in 0 .. n : f[k] = IF k = 0 THEN map ELSE then(f[k - 1], k)
    <3> SUFFICES ASSUME NEW k \in 0 .. n PROVE f[k] = IF k = 0 THEN map ELSE then(f[k - 1], k)
      OBVIOUS
    <3>1. CASE k = n
      <4>1. f[k] = then(g[n - 1], n) /\ n - 1 \in 0 .. n /\ n - 1 # n
        BY <1>3, <1>5, <3>1
      <4>2. f[n - 1] = g[n - 1]
        BY <4>1
      <4> QED
        BY <1>5, <3>1, <4>1, <4>2
    <3>2. CASE k # n
      <4>1. k \in 0 .. n - 1 /\ f[k] = g[k]
        BY <1>3, <3>2
      <4>2. k # 0 => k - 1 \in 0 .. n /\ k - 1 # n
        BY <1>3, <3>2
      <4>3. k # 0 => f[k - 1] = g[k - 1]
        BY <4>2
      <4> QED
        BY <2>3, <4>1, <4>3
    <3> QED
      BY <3>1, <3>2
  <2>5. f = [k \in 0 .. n |-> IF k = 0 THEN map ELSE then(f[k - 1], k)]
    <3> DEFINE h == [k \in 0 .. n |-> IF k = 0 THEN map ELSE then(f[k - 1], k)]
    <3>1. \A k \in 0 .. n : h[k] = f[k]
      BY <2>4
    <3>2. h = [k \in 0 .. n |-> h[k]] /\ f = [k \in 0 .. n |-> f[k]]
      OBVIOUS
    <3> HIDE DEF f, h
    <3>3. h = f
      BY <3>1, <3>2
    <3> QED
      BY <3>3, Zenon DEF h
  <2> QED
    BY <1>1, <1>3, <2>5
<1> QED
  BY <1>4, <1>5

\* What becomes of the map is what the last of them leaves.
LEMMA OneByOneIs ==
  ASSUME NEW how, NEW map, NEW found, NEW chosen
  PROVE  \E f : Doing(how, map, found, chosen, f, Size) /\ OneByOne(how, map, found, chosen) = f[Size]
<1> DEFINE order == InOrder(found)
           after[n \in 0 .. Size] ==
             IF n = 0 THEN map
             ELSE IF n \in DOMAIN order /\ order[n] \in chosen
                  THEN Settled(how, after[n - 1], order[n], found)
             ELSE after[n - 1]
<1>1. after = CHOOSE f : f = [n \in 0 .. Size |->
                IF n = 0 THEN map
                ELSE IF n \in DOMAIN order /\ order[n] \in chosen
                     THEN Settled(how, f[n - 1], order[n], found)
                ELSE f[n - 1]]
  OBVIOUS
<1>2. \E f : Doing(how, map, found, chosen, f, Size)
  BY Counted, DoingExists
<1>3. Doing(how, map, found, chosen, after, Size)
  BY <1>1, <1>2, Zenon DEF Doing
<1>4. OneByOne(how, map, found, chosen) = after[Size]
  BY Zenon DEF OneByOne, Size
<1> HIDE DEF after
<1> QED
  BY <1>3, <1>4

\* So whatever order they are taken in, no loop comes of it.
LEMMA OneByOneSound ==
  ASSUME TypeOK, NEW safe \in BOOLEAN, NEW how, NEW map, Sound(map, safe), NEW found, Found(found),
         NEW chosen, chosen \subseteq DOMAIN found
  PROVE  Sound(OneByOne(how, map, found, chosen), safe)
<1> DEFINE order == InOrder(found)
<1>1. PICK after : Doing(how, map, found, chosen, after, Size)
                   /\ OneByOne(how, map, found, chosen) = after[Size]
  BY OneByOneIs
<1> HIDE DEF order
<1> DEFINE then(x, k) == IF k \in DOMAIN order /\ order[k] \in chosen
                         THEN Settled(how, x, order[k], found) ELSE x
<1>2. after = [k \in 0 .. Size |-> IF k = 0 THEN map ELSE then(after[k - 1], k)]
  BY <1>1 DEF Doing, order
<1>3. ASSUME NEW x, Sound(x, safe), NEW k PROVE Sound(then(x, k), safe)
  BY <1>3, SettledSound
<1> HIDE DEF then
<1> DEFINE B == {k \in Nat : k <= Size /\ ~Sound(after[k], safe)}
<1>4. B = {}
  <2> SUFFICES ASSUME B # {} PROVE FALSE
    OBVIOUS
  <2>1. PICK m \in B : \A k \in B : m <= k
    <3>1. B \subseteq Nat
      OBVIOUS
    <3> HIDE DEF B
    <3> QED
      BY <3>1, LeastOf
  <2>2. m \in 0 .. Size /\ ~Sound(after[m], safe)
    BY Counted
  <2>3. m # 0
    BY <1>2, <2>2
  <2>4. m - 1 \in Nat /\ m - 1 \notin B /\ m - 1 <= Size
    BY <2>1, <2>2, <2>3, Counted
  <2>5. Sound(after[m - 1], safe)
    BY <2>4
  <2>6. after[m] = then(after[m - 1], m)
    BY <1>2, <2>2, <2>3
  <2> QED
    BY <1>3, <2>2, <2>5, <2>6
<1>5. Size \notin B /\ Size \in Nat /\ Size <= Size
  BY <1>4, Counted
<1> QED
  BY <1>1, <1>5

\* A pass of automatic mode.
LEMMA PassSound ==
  ASSUME TypeOK, NEW safe \in BOOLEAN, NEW map, Sound(map, safe), NEW rejected
  PROVE  Sound(Pass(map, rejected), safe)
<1> DEFINE found == Discover(map.parent, map.role)
<1>1. Found(found)
  BY DiscoverFinds
<1>2. Pass(map, rejected) =
        OneByOne("automatic", map, found, {d \in DOMAIN found : <<d, found[d].parent>> \notin rejected})
  BY Zenon DEF Pass
<1> HIDE DEF found
<1>3. {d \in DOMAIN found : <<d, found[d].parent>> \notin rejected} \subseteq DOMAIN found
  OBVIOUS
<1> QED
  BY <1>1, <1>2, <1>3, OneByOneSound

-----------------------------------------------------------------------------
(* One pass brings the map up to date. *)

\* Where everything was found, as parents.
Up(found) == [e \in Devices |-> IF e \in DOMAIN found THEN found[e].parent ELSE None]

\* A walk from a set that leads to itself stays in it.
LEMMA ClimbWithin ==
  ASSUME NEW up, NEW S, \A e \in S \ {None} : up[e] \in S, NEW d \in S
  PROVE  \A k \in 0 .. Size : Climb(up, d)[k] \in S
<1> DEFINE c == Climb(up, d)
           B == {k \in Nat : k <= Size /\ c[k] \notin S}
<1>1. /\ c[0] = d
      /\ \A k \in 1 .. Size : c[k] = IF c[k - 1] = None THEN None ELSE up[c[k - 1]]
  BY ClimbIs
<1> HIDE DEF c
<1>2. B = {}
  <2> SUFFICES ASSUME B # {} PROVE FALSE
    OBVIOUS
  <2>1. PICK m \in B : \A k \in B : m <= k
    <3>1. B \subseteq Nat
      OBVIOUS
    <3> HIDE DEF B
    <3> QED
      BY <3>1, LeastOf
  <2>2. m # 0 /\ c[m] \notin S
    BY <1>1
  <2>3. m - 1 \in Nat /\ m - 1 \notin B /\ m - 1 <= Size /\ m \in 1 .. Size
    BY <2>1, <2>2, Counted
  <2>4. c[m - 1] \in S
    BY <2>3
  <2> QED
    BY <1>1, <2>2, <2>3, <2>4
<1> QED
  BY <1>2, Counted DEF c

\* What is left without loops has none.
LEMMA WithoutLoopsGrounded == ASSUME NEW links PROVE Grounded(Up(WithoutLoops(links)))
<1> DEFINE names   == {l.device : l \in links}
           of(d)   == CHOOSE l \in links : l.device = d
           parents == [d \in Devices |-> IF d \in names THEN of(d).parent ELSE None]
           E       == {d \in names : Climb(parents, d)[Size] = None}
<1>1. WithoutLoops(links) = [d \in E |-> of(d)]
  BY Zenon DEF WithoutLoops, Size
<1> HIDE DEF of
<1> SUFFICES ASSUME NEW S \in SUBSET Devices, S # {}, \A e \in S : Up(WithoutLoops(links))[e] \in S
             PROVE  FALSE
  BY DEF Grounded
<1>2. ASSUME NEW e \in S PROVE e \in E /\ parents[e] \in S
  <2>1. e \in Devices /\ Up(WithoutLoops(links))[e] # None
    BY Counted
  <2>2. e \in E
    BY <1>1, <2>1 DEF Up
  <2>3. Up(WithoutLoops(links))[e] = of(e).parent
    BY <1>1, <2>1, <2>2 DEF Up
  <2>4. parents[e] = of(e).parent
    BY <2>1, <2>2
  <2> QED
    BY <2>2, <2>3, <2>4
<1>3. PICK d \in S : TRUE
  OBVIOUS
<1>4. Climb(parents, d)[Size] = None
  BY <1>2
<1>5. None \notin S /\ \A e \in S : parents[e] \in S
  BY <1>2, Counted
<1> HIDE DEF E, parents
<1>6. \A k \in 0 .. Size : Climb(parents, d)[k] \in S
  BY <1>3, <1>5, ClimbWithin
<1>7. Size \in 0 .. Size
  BY Counted
<1> QED
  BY <1>4, <1>5, <1>6, <1>7

\* So what is inferred has none.
LEMMA InferGrounded == ASSUME NEW net PROVE Grounded(Up(Infer(net)))
<1>1. CASE net.root = None
  <2>1. Up(Infer(net)) = [e \in Devices |-> None]
    BY <1>1 DEF Infer, Up
  <2> QED
    BY <2>1, Counted DEF Grounded
<1>2. CASE net.root # None
  <2>1. \E links : Infer(net) = WithoutLoops(links)
    BY <1>2, Zenon DEF Infer
  <2> QED
    BY <2>1, WithoutLoopsGrounded
<1> QED
  BY <1>1, <1>2

\* The places that are found make no loop.
LEMMA FoundIsGrounded ==
  ASSUME TypeOK, NEW parents, NEW roles
  PROVE  Up(Discover(parents, roles)) \in Tree /\ Grounded(Up(Discover(parents, roles)))
<1> DEFINE net == Net(parents, roles)
           links == Infer(net)
           named(d) == IF d = net.root THEN "gateway"
                       ELSE IF d \in DOMAIN net.tables THEN "switch" ELSE "unknown"
           found == Discover(parents, roles)
<1>1. found = [d \in DOMAIN links |-> [parent |-> links[d].parent, role |-> named(d)]]
  BY Zenon DEF Discover
<1> HIDE DEF net
<1>2. Grounded(Up(links))
  BY InferGrounded
<1> HIDE DEF links, named
<1>3. Up(found) = Up(links)
  BY <1>1 DEF Up
<1>4. Found(found) /\ rows \subseteq Devices
  BY DiscoverFinds DEF TypeOK
<1> HIDE DEF found
<1>5. Up(found) \in Tree
  BY <1>4 DEF Found, Up, Tree
<1> QED
  BY <1>2, <1>3, <1>5 DEF found

\* How deep a device is found is a number.
LEMMA DepthIs ==
  ASSUME NEW found, Up(found) \in Tree, NEW d \in Devices PROVE Depth(found, d) \in Nat
<1> DEFINE up == Up(found)
           A == Ancestors(up, d)
<1>1. up = [a \in Devices |-> IF a \in DOMAIN found THEN found[a].parent ELSE None]
  BY DEF Up
<1>2. Depth(found, d) = Cardinality(A)
  BY <1>1, Zenon DEF Depth
<1>3. A \in SUBSET Devices
  <2> SUFFICES ASSUME NEW n \in 1 .. Min({MaxDepth, Size}), Climb(up, d)[n] # None
               PROVE  Climb(up, d)[n] \in Devices
    BY DEF Ancestors, Size
  <2>1. Min({MaxDepth, Size}) \in {MaxDepth, Size} /\ Min({MaxDepth, Size}) <= Size /\ Size \in Nat
    BY Counted, TopologyAssumption, LesserOf
  <2>2. n \in 0 .. Size /\ n \in 0 .. n
    BY <2>1, TopologyAssumption
  <2> QED
    BY <2>2, ClimbStays
<1> HIDE DEF A
<1> QED
  BY <1>2, <1>3, Counted, FS_Subset, FS_CardinalityType

\* Above a device that was found is one less deep, as long as the walk that
\* measures it is not cut short (_depth).
LEMMA AboveIsLess ==
  ASSUME NEW found, DOMAIN found \subseteq Devices, Up(found) \in Tree, Grounded(Up(found)),
         NEW d \in DOMAIN found, found[d].parent # None, Depth(found, d) < MaxDepth
  PROVE  /\ Depth(found, found[d].parent) \in Nat /\ Depth(found, d) \in Nat
         /\ Depth(found, found[d].parent) < Depth(found, d)
<1> DEFINE up == Up(found)
           p == up[d]
           c == Climb(up, d)
           e == Climb(up, p)
           m == Min({MaxDepth, Size})
           A == {c[n] : n \in 1 .. m} \ {None, d}
           B == {e[n] : n \in 1 .. m} \ {None, p}
<1>1. d \in Devices /\ p = found[d].parent /\ p \in Devices /\ p # None /\ up \in Tree /\ Grounded(up)
  BY DEF Up, Tree
<1>2. /\ c[0] = d
      /\ \A k \in 1 .. Size : c[k] = IF c[k - 1] = None THEN None ELSE up[c[k - 1]]
  BY ClimbIs
<1>3. \A n \in 0 .. Size : n + 1 <= Size => c[n + 1] = e[n]
  BY <1>1, ClimbOn
<1>4. e[Size] = None
  BY <1>1, WalksEnd
<1>5. ASSUME NEW i \in 0 .. Size, NEW j \in 0 .. Size, i < j, c[j] # None PROVE c[i] # c[j]
  <2>1. i \in 0 .. j /\ j \in 0 .. j
    BY <1>5, Counted
  <2> QED
    BY <1>1, <1>5, <2>1, NoReturn
<1>6. ASSUME NEW n \in 0 .. Size, c[n] # None PROVE \A k \in 0 .. n : c[k] \in Devices
  BY <1>1, <1>6, ClimbStays
<1>7. Depth(found, d) = Cardinality(A) /\ Depth(found, p) = Cardinality(B)
  <2>1. up = [a \in Devices |-> IF a \in DOMAIN found THEN found[a].parent ELSE None]
    BY DEF Up
  <2>2. A = Ancestors(up, d) /\ B = Ancestors(up, p)
    BY Zenon DEF Ancestors, Size
  <2> HIDE DEF A, B, p, up
  <2>3. Depth(found, d) = Cardinality(Ancestors(up, d)) /\ Depth(found, p) = Cardinality(Ancestors(up, p))
    BY <2>1, Zenon DEF Depth
  <2> QED
    BY <2>2, <2>3
<1>8. m \in Nat /\ m <= Size /\ m <= MaxDepth /\ m \in {MaxDepth, Size} /\ Size \in Nat /\ MaxDepth \in Nat
  <2>1. Size \in Nat /\ MaxDepth \in Nat
    BY Counted, TopologyAssumption
  <2>2. m \in {MaxDepth, Size} /\ m <= MaxDepth /\ m <= Size
    BY <2>1, LesserOf
  <2> HIDE DEF m
  <2> QED
    BY <2>1, <2>2
<1>9. Depth(found, d) < MaxDepth
  OBVIOUS
<1> HIDE DEF p, c, e, m, up
<1>10. \A k \in 1 .. m : k \in 0 .. Size /\ k \in 1 .. Size /\ k - 1 \in 0 .. Size
  BY <1>8
<1>11. IsFiniteSet(A) /\ Cardinality(A) \in Nat
  <2>1. A \in SUBSET Devices
    <3> SUFFICES ASSUME NEW n \in 1 .. m, c[n] # None PROVE c[n] \in Devices
      OBVIOUS
    <3>1. n \in 0 .. Size /\ n \in 0 .. n
      BY <1>8
    <3> QED
      BY <1>6, <3>1
  <2> HIDE DEF A
  <2> QED
    BY <2>1, Counted, FS_Subset, FS_CardinalityType
<1>12. ASSUME m = MaxDepth, m \in 0 .. Size, c[m] # None PROVE FALSE
  <2>1. \A k \in 1 .. m : c[k] \in A
    <3> SUFFICES ASSUME NEW k \in 1 .. m PROVE c[k] \in A
      OBVIOUS
    <3>1. k \in 0 .. m /\ k \in 0 .. Size /\ 0 \in 0 .. Size /\ 0 < k
      BY <1>8
    <3>2. c[k] \in Devices
      BY <1>6, <1>12, <3>1
    <3>3. c[k] # None
      BY <3>2, Counted
    <3>4. c[k] # d
      BY <1>2, <1>5, <3>1, <3>3
    <3> QED
      BY <3>3, <3>4
  <2> DEFINE f == [k \in 1 .. m |-> c[k]]
  <2> HIDE DEF A
  <2>2. f \in [1 .. m -> A]
    BY <2>1
  <2>3. \A i, j \in 1 .. m : i < j => f[i] # f[j]
    <3> SUFFICES ASSUME NEW i \in 1 .. m, NEW j \in 1 .. m, i < j PROVE c[i] # c[j]
      OBVIOUS
    <3>1. j \in 0 .. m /\ i \in 0 .. Size /\ j \in 0 .. Size
      BY <1>8
    <3>2. c[j] # None
      BY <1>6, <1>12, <3>1, Counted
    <3> QED
      BY <1>5, <3>1, <3>2
  <2>4. IsFiniteSet(1 .. m) /\ Cardinality(1 .. m) = m
    BY <1>8, FS_Interval
  <2>5. Cardinality(A) < m
    BY <1>7, <1>9, <1>12
  <2> HIDE DEF f
  <2>6. PICK x, y \in 1 .. m : x # y /\ f[x] = f[y]
    BY <1>11, <2>2, <2>4, <2>5, FS_PigeonHole
  <2>7. x < y \/ y < x
    BY <2>6
  <2> QED
    BY <2>3, <2>6, <2>7
<1>13. B \subseteq A
  <2> SUFFICES ASSUME NEW n \in 1 .. m, e[n] # None, e[n] # p PROVE e[n] \in A
    OBVIOUS
  <2>1. n \in 0 .. Size /\ n # Size
    BY <1>4, <1>8
  <2>2. n + 1 <= Size /\ n + 1 \in 1 .. Size /\ n + 1 \in 0 .. Size /\ 0 \in 0 .. Size /\ 0 < n + 1
    BY <1>8, <2>1
  <2>3. c[n + 1] = e[n]
    BY <1>3, <2>1, <2>2
  <2>4. c[n + 1] # d
    BY <1>2, <1>5, <2>2, <2>3
  <2>5. CASE n + 1 <= m
    <3>1. n + 1 \in 1 .. m
      BY <1>8, <2>5
    <3> QED
      BY <2>3, <2>4, <3>1
  <2>6. CASE ~(n + 1 <= m)
    <3>1. m = n /\ m = MaxDepth
      BY <1>8, <2>1, <2>6
    <3>2. n \in 0 .. n + 1
      BY <1>8
    <3>3. c[n] \in Devices
      BY <1>6, <2>2, <2>3, <3>2
    <3> QED
      BY <1>12, <2>1, <3>1, <3>3, Counted
  <2> QED
    BY <2>5, <2>6
<1>14. p \in A
  <2>1. Size # 0
    BY <1>1, <1>8, Counted, FS_EmptySet DEF Size
  <2>2. MaxDepth # 0
    BY <1>7, <1>8, <1>9, <1>11
  <2>3. 1 \in 1 .. m /\ 1 \in 1 .. Size /\ 0 \in 0 .. Size /\ 1 \in 0 .. Size
    BY <1>8, <2>1, <2>2
  <2>4. c[1] = p
    BY <1>1, <1>2, <2>3, Counted DEF p
  <2>5. p # d
    BY <1>1, <1>2, <1>5, <2>3, <2>4
  <2> QED
    BY <1>1, <2>3, <2>4, <2>5
<1>15. p \notin B
  OBVIOUS
<1> HIDE DEF A, B
<1>16. Cardinality(B) \in Nat /\ Cardinality(B) < Cardinality(A)
  <2>1. IsFiniteSet(B) /\ Cardinality(B) <= Cardinality(A) /\ (Cardinality(A) = Cardinality(B) => A = B)
    BY <1>11, <1>13, FS_Subset
  <2>2. Cardinality(B) \in Nat
    BY <2>1, FS_CardinalityType
  <2> QED
    BY <1>11, <1>14, <1>15, <2>1, <2>2
<1> QED
  BY <1>1, <1>7, <1>11, <1>16

\* The order in which found devices are taken: each once, the top first.
LEMMA OrderIs ==
  ASSUME NEW found, DOMAIN found \subseteq Devices,
         \A d \in DOMAIN found : Depth(found, d) \in Nat
  PROVE  \E n \in Nat :
           /\ n <= Size /\ DOMAIN InOrder(found) = 1 .. n
           /\ \A i \in 1 .. n : InOrder(found)[i] \in DOMAIN found
           /\ \A d \in DOMAIN found : \E i \in 1 .. n : InOrder(found)[i] = d
           /\ \A i, j \in 1 .. n : InOrder(found)[i] = InOrder(found)[j] => i = j
           /\ \A i, j \in 1 .. n :
                Depth(found, InOrder(found)[i]) < Depth(found, InOrder(found)[j]) => i < j
<1> DEFINE D == {<<Depth(found, d), d>> : d \in DOMAIN found}
           n == Cardinality(D)
           first(y, x) == y[1] < x[1] \/ (y[1] = x[1] /\ y[2] < x[2])
           under(x) == {y \in D : first(y, x)}
           rank(x) == Cardinality(under(x))
           taken(i) == CHOOSE x \in D : rank(x) = i - 1
           order == [i \in 1 .. n |-> taken(i)[2]]
<1>1. InOrder(found) = order
  BY Zenon DEF InOrder
<1>2. /\ \A d \in DOMAIN found : <<Depth(found, d), d>> \in D
      /\ \A x \in D : /\ x[1] \in Nat /\ x[2] \in Nat /\ x[2] \in DOMAIN found /\ x[2] \in Devices
                     /\ x[1] = Depth(found, x[2]) /\ x = <<x[1], x[2]>>
  BY Counted
<1> HIDE DEF D
<1>3. IsFiniteSet(D) /\ n \in Nat /\ n <= Size
  <2> DEFINE f == [x \in D |-> x[2]]
  <2>1. f \in Injection(D, Devices)
    BY <1>2 DEF Injection, IsInjective
  <2> HIDE DEF f
  <2> QED
    BY <2>1, Counted, FS_Injection, FS_CardinalityType DEF Size
<1> HIDE DEF n
<1>4. ASSUME NEW x \in D PROVE IsFiniteSet(under(x)) /\ rank(x) \in Nat
  <2>1. under(x) \in SUBSET D
    OBVIOUS
  <2> HIDE DEF under
  <2> QED
    BY <1>3, <2>1, FS_Subset, FS_CardinalityType
<1>5. ASSUME NEW y \in D, NEW x \in D, first(y, x) PROVE rank(y) < rank(x)
  <2>1. under(y) \in SUBSET under(x)
    <3> SUFFICES ASSUME NEW a \in D, first(a, y) PROVE first(a, x)
      OBVIOUS
    <3> QED
      BY <1>2, <1>5
  <2>2. y \in under(x)
    BY <1>5
  <2>3. y \notin under(y)
    BY <1>2
  <2> HIDE DEF under
  <2>4. Cardinality(under(y)) <= Cardinality(under(x)) /\ Cardinality(under(y)) # Cardinality(under(x))
    BY <1>4, <2>1, <2>2, <2>3, FS_Subset
  <2> QED
    BY <1>4, <2>4
<1>6. ASSUME NEW x \in D PROVE rank(x) < n
  <2>1. under(x) \in SUBSET D
    OBVIOUS
  <2>2. x \notin under(x)
    BY <1>2
  <2> HIDE DEF under
  <2>3. Cardinality(under(x)) <= Cardinality(D) /\ Cardinality(under(x)) # Cardinality(D)
    BY <1>3, <2>1, <2>2, FS_Subset
  <2> QED
    BY <1>3, <1>4, <2>3 DEF n
<1>7. ASSUME NEW y \in D, NEW x \in D, rank(y) = rank(x) PROVE y = x
  <2>1. y # x => first(y, x) \/ first(x, y)
    BY <1>2
  <2> HIDE DEF first, rank
  <2>2. rank(y) \in Nat /\ rank(x) \in Nat
    BY <1>4
  <2> QED
    BY <1>5, <1>7, <2>1, <2>2
<1> HIDE DEF rank
<1>8. ASSUME NEW x \in D PROVE rank(x) \in 0 .. n - 1 /\ rank(x) + 1 \in 1 .. n
  <2>1. rank(x) \in Nat /\ rank(x) < n
    BY <1>4, <1>6
  <2> QED
    BY <1>3, <2>1
<1>9. \A k \in 0 .. n - 1 : \E x \in D : rank(x) = k
  <2> DEFINE f == [x \in D |-> rank(x)]
  <2>1. IsFiniteSet(0 .. n - 1) /\ Cardinality(0 .. n - 1) = n
    BY <1>3, FS_Interval
  <2>2. f \in Injection(D, 0 .. n - 1)
    BY <1>7, <1>8 DEF Injection, IsInjective
  <2>3. \A x \in D : f[x] = rank(x)
    OBVIOUS
  <2> HIDE DEF f
  <2>4. f \in Surjection(D, 0 .. n - 1)
    BY <2>1, <2>2, FS_Injection DEF n
  <2> QED
    BY <2>3, <2>4 DEF Surjection
<1>10. ASSUME NEW i \in 1 .. n PROVE taken(i) \in D /\ rank(taken(i)) = i - 1
  <2>1. i - 1 \in 0 .. n - 1
    BY <1>3
  <2>2. \E x \in D : rank(x) = i - 1
    BY <1>9, <2>1
  <2> QED
    BY <2>2, Zenon
<1>11. DOMAIN order = 1 .. n /\ \A i \in 1 .. n : order[i] = taken(i)[2]
  OBVIOUS
<1> HIDE DEF order, taken
<1>12. ASSUME NEW d \in DOMAIN found PROVE \E i \in 1 .. n : order[i] = d
  <2> DEFINE x == <<Depth(found, d), d>>
  <2>1. x \in D /\ x[2] = d
    BY <1>2
  <2> HIDE DEF x
  <2>2. rank(x) + 1 \in 1 .. n /\ (rank(x) + 1) - 1 = rank(x)
    BY <1>8, <2>1
  <2>3. taken(rank(x) + 1) = x
    BY <1>7, <1>10, <2>1, <2>2
  <2> QED
    BY <1>11, <2>1, <2>2, <2>3
<1>13. ASSUME NEW i \in 1 .. n, NEW j \in 1 .. n, Depth(found, order[i]) < Depth(found, order[j]) PROVE i < j
  <2>1. first(taken(i), taken(j))
    BY <1>2, <1>10, <1>11, <1>13
  <2>2. rank(taken(i)) < rank(taken(j))
    BY <1>5, <1>10, <2>1
  <2> QED
    BY <1>3, <1>10, <2>2
<1>14. ASSUME NEW i \in 1 .. n, NEW j \in 1 .. n, order[i] = order[j] PROVE i = j
  <2>1. taken(i) = taken(j)
    BY <1>2, <1>10, <1>11, <1>14
  <2>2. i - 1 = j - 1
    BY <1>10, <2>1
  <2> QED
    BY <1>3, <2>2
<1>15. \A i \in 1 .. n : order[i] \in DOMAIN found
  BY <1>2, <1>10, <1>11
<1>16. /\ n <= Size /\ DOMAIN order = 1 .. n
       /\ \A i \in 1 .. n : order[i] \in DOMAIN found
       /\ \A d \in DOMAIN found : \E i \in 1 .. n : order[i] = d
       /\ \A i, j \in 1 .. n : order[i] = order[j] => i = j
       /\ \A i, j \in 1 .. n : Depth(found, order[i]) < Depth(found, order[j]) => i < j
  BY <1>3, <1>11, <1>12, <1>13, <1>14, <1>15, Zenon
<1> QED
  BY <1>1, <1>3, <1>16, Zenon

\* What is on top of the places that were found hangs off nothing.
TopsAreFree(found, up) ==
  \A d \in DOMAIN found :
    /\ found[d].parent = None => up[d] = None
    /\ found[d].parent \notin DOMAIN found \cup {None} => up[found[d].parent] = None

\* What map_auto says of a device: where automatic mode put it, or nothing.
Entry(map, d) == IF d \in DOMAIN map.auto THEN <<map.auto[d]>> ELSE <<>>

\* One device of the pass, whose parent comes before it: it can be put where
\* it was found, because nothing above that place is below the device.
LEMMA PlacedFollows ==
  ASSUME NEW found, DOMAIN found \subseteq Devices, Up(found) \in Tree, Grounded(Up(found)),
         NEW d \in DOMAIN found, NEW done, done \subseteq DOMAIN found, d \notin done,
         NEW map, map.parent \in Tree,
         \A e \in done : map.parent[e] = found[e].parent,
         \A e \in done \cup {d} : found[e].parent \in DOMAIN found => found[e].parent \in done,
         \A e \in done \cup {d} :
           found[e].parent \notin DOMAIN found \cup {None} => map.parent[found[e].parent] = None,
         found[d].parent = None => map.parent[d] = None,
         \/ Entry(map, d) = <<>> /\ map.parent[d] = None
         \/ Entry(map, d) = <<map.parent[d]>>
  PROVE  /\ Placed(map, d, found).parent = [map.parent EXCEPT ![d] = found[d].parent]
         /\ \A e \in Devices \ {d} : Entry(Placed(map, d, found), e) = Entry(map, e)
<1> DEFINE p    == found[d].parent
           hung == [map.parent EXCEPT ![d] = p]
           put  == [e \in DOMAIN map.auto \cup {d} |-> IF e = d THEN p ELSE map.auto[e]]
           fresh == d \notin DOMAIN map.auto /\ map.parent[d] = None
           own   == d \in DOMAIN map.auto /\ map.parent[d] = map.auto[d]
           goes  == /\ p # None /\ p # map.parent[d]
                    /\ fresh \/ own
                    /\ CanParent(map.parent, d, p)
           named == found[d].role # "unknown" /\ map.role[d] = "unknown"
           placed == [parent |-> IF goes THEN hung ELSE map.parent,
                      auto   |-> IF goes THEN put ELSE map.auto,
                      role   |-> IF named THEN [map.role EXCEPT ![d] = found[d].role] ELSE map.role]
<1>1. Placed(map, d, found) = placed
  BY Zenon DEF Placed
<1>2. d \in Devices /\ p \in Devices \cup {None} /\ p # d
  <2>1. Up(found)[d] = p /\ d \in Devices
    BY DEF Up
  <2>2. p # d
    BY <2>1 DEF Grounded
  <2> QED
    BY <2>1, <2>2 DEF Tree
<1>3. p # None => CanParent(map.parent, d, p)
  <2> SUFFICES ASSUME p # None, p \in Descendants(map.parent, d) PROVE FALSE
    BY <1>2 DEF CanParent
  <2> DEFINE tops == {e \in Devices : /\ e \notin DOMAIN found
                                      /\ \E c \in done \cup {d} : found[c].parent = e}
             T == done \cup tops
  <2>1. T \subseteq Devices /\ d \notin T /\ p \in T
    BY <1>2
  <2>2. ASSUME NEW e \in T PROVE map.parent[e] \in T \cup {None}
    <3>1. CASE e \in done
      <4>1. Up(found)[e] = found[e].parent /\ e \in Devices /\ map.parent[e] = found[e].parent
        BY <3>1 DEF Up
      <4>2. found[e].parent \in Devices \cup {None}
        BY <4>1 DEF Tree
      <4> QED
        BY <3>1, <4>1, <4>2
    <3>2. CASE e \in tops
      BY <3>2, Counted
    <3> QED
      BY <3>1, <3>2
  <2> HIDE DEF T, p
  <2>3. PICK n \in 1 .. Size : Climb(map.parent, p)[n] = d
    BY DEF Descendants, Size
  <2>4. \A k \in 0 .. Size : Climb(map.parent, p)[k] \in T \cup {None}
    <3> DEFINE S == T \cup {None}
    <3>1. (\A e \in S \ {None} : map.parent[e] \in S) /\ p \in S
      BY <2>1, <2>2
    <3> HIDE DEF S
    <3>2. \A k \in 0 .. Size : Climb(map.parent, p)[k] \in S
      BY <3>1, ClimbWithin
    <3> QED
      BY <3>2 DEF S
  <2>5. n \in 0 .. Size
    BY Counted
  <2> QED
    BY <1>2, <2>1, <2>3, <2>4, <2>5, Counted
<1>4. fresh \/ own
  BY DEF Entry
<1>5. map.parent = [map.parent EXCEPT ![d] = map.parent[d]]
  BY DEF Tree
<1>6. ~goes => p = map.parent[d]
  BY <1>3, <1>4
<1>7. /\ DOMAIN put = DOMAIN map.auto \cup {d}
      /\ \A e \in DOMAIN map.auto \ {d} : put[e] = map.auto[e]
  OBVIOUS
<1> HIDE DEF goes, named, put
<1>8. placed.parent = hung
  BY <1>5, <1>6
<1>9. placed.auto = put \/ placed.auto = map.auto
  OBVIOUS
<1> HIDE DEF placed
<1>10. ASSUME NEW e \in Devices, e # d PROVE Entry(placed, e) = Entry(map, e)
  BY <1>7, <1>9, <1>10 DEF Entry
<1> QED
  BY <1>1, <1>8, <1>10

\* No chain of found places is longer than the walk that measures it.
ChainsAreShort(found) == \A d \in DOMAIN found : Depth(found, d) < MaxDepth

\* One pass puts everything where it was found.
LEMMA PassReaches ==
  ASSUME TypeOK, AllAutomatic, dismissed = {}, NEW found, found = Discover(parent, role),
         TopsAreFree(found, parent), ChainsAreShort(found)
  PROVE  \A d \in DOMAIN found : Pass(Map, dismissed).parent[d] = found[d].parent
<1> DEFINE order == InOrder(found)
<1>1. /\ DOMAIN found \subseteq Devices /\ Up(found) \in Tree /\ Grounded(Up(found))
      /\ \A d \in DOMAIN found : found[d].parent \in Devices \cup {None}
  BY DiscoverFinds, FoundIsGrounded DEF Found, TypeOK
<1>2. ASSUME NEW d \in DOMAIN found PROVE Depth(found, d) \in Nat
  BY <1>1, DepthIs
<1>3. PICK n \in Nat :
        /\ n <= Size /\ DOMAIN order = 1 .. n
        /\ \A i \in 1 .. n : order[i] \in DOMAIN found
        /\ \A d \in DOMAIN found : \E i \in 1 .. n : order[i] = d
        /\ \A i, j \in 1 .. n : order[i] = order[j] => i = j
        /\ \A i, j \in 1 .. n : Depth(found, order[i]) < Depth(found, order[j]) => i < j
  BY <1>1, <1>2, OrderIs
<1> HIDE DEF order
<1>4. ASSUME NEW i \in 1 .. n, found[order[i]].parent \in DOMAIN found
      PROVE  \E j \in 1 .. n : j < i /\ order[j] = found[order[i]].parent
  <2>1. PICK j \in 1 .. n : order[j] = found[order[i]].parent
    BY <1>3, <1>4
  <2>2. order[i] \in DOMAIN found /\ found[order[i]].parent # None
    BY <1>1, <1>3, <1>4, Counted
  <2>3. Depth(found, order[j]) < Depth(found, order[i])
    BY <1>1, <2>1, <2>2, AboveIsLess DEF ChainsAreShort
  <2> QED
    BY <1>3, <2>1, <2>3
<1> DEFINE chosen == {d \in DOMAIN found : <<d, found[d].parent>> \notin dismissed}
<1>5. Pass(Map, dismissed) = OneByOne("automatic", Map, found, chosen)
  BY Zenon DEF Pass, Map
<1>6. chosen = DOMAIN found
  OBVIOUS
<1>7. PICK after : /\ Doing("automatic", Map, found, chosen, after, Size)
                   /\ OneByOne("automatic", Map, found, chosen) = after[Size]
  BY OneByOneIs
<1> HIDE DEF chosen
<1>8. /\ after[0] = Map
      /\ \A k \in 1 .. Size : after[k] = IF k \in 1 .. n THEN Placed(after[k - 1], order[k], found)
                                         ELSE after[k - 1]
  <2> DEFINE then(x, k) == IF k \in DOMAIN order /\ order[k] \in chosen
                           THEN Settled("automatic", x, order[k], found) ELSE x
  <2>1. after = [k \in 0 .. Size |-> IF k = 0 THEN Map ELSE then(after[k - 1], k)]
    BY <1>7 DEF Doing, order
  <2>2. \A x, k : then(x, k) = IF k \in 1 .. n THEN Placed(x, order[k], found) ELSE x
    BY <1>3, <1>6 DEF Settled
  <2> HIDE DEF then
  <2>3. after[0] = Map /\ \A k \in 1 .. Size : after[k] = then(after[k - 1], k)
    BY <2>1, Counted
  <2> QED
    BY <2>2, <2>3
<1> DEFINE done(k) == {order[i] : i \in {j \in 1 .. n : j <= k}}
           Fits(k) == /\ after[k].parent \in Tree
                      /\ \A e \in Devices :
                           after[k].parent[e] = IF e \in done(k) THEN found[e].parent ELSE parent[e]
                      /\ \A e \in Devices \ done(k) : Entry(after[k], e) = Entry(Map, e)
<1>9. Fits(0)
  <2>1. done(0) = {}
    BY <1>3
  <2> HIDE DEF done
  <2> QED
    BY <1>8, <2>1 DEF Map, TypeOK, Tree
<1>10. ASSUME NEW k \in 1 .. Size, Fits(k - 1) PROVE Fits(k)
  <2>1. CASE k \notin 1 .. n
    <3>1. done(k) = done(k - 1)
      BY <1>3, <2>1, Counted
    <3>2. after[k] = after[k - 1]
      BY <1>8, <2>1
    <3> HIDE DEF done
    <3> QED
      BY <1>10, <3>1, <3>2
  <2>2. CASE k \in 1 .. n
    <3> DEFINE d == order[k]
               before == done(k - 1)
               map == after[k - 1]
    <3>1. d \in DOMAIN found /\ d \in Devices /\ after[k] = Placed(map, d, found)
      BY <1>1, <1>3, <1>8, <2>2
    <3>2. before \subseteq DOMAIN found /\ d \notin before /\ done(k) = before \cup {d}
      BY <1>3, <2>2
    <3>3. ASSUME NEW e \in before \cup {d}, found[e].parent \in DOMAIN found
          PROVE  found[e].parent \in before
      <4>1. PICK i \in 1 .. n : i <= k /\ e = order[i]
        BY <1>3, <2>2
      <4>2. PICK j \in 1 .. n : j < i /\ order[j] = found[e].parent
        BY <1>4, <3>3, <4>1
      <4>3. j <= k - 1
        BY <1>3, <2>2, <4>1, <4>2
      <4> QED
        BY <4>2, <4>3
    <3> HIDE DEF done
    <3>4. /\ map.parent \in Tree
          /\ \A e \in Devices : map.parent[e] = IF e \in before THEN found[e].parent ELSE parent[e]
          /\ \A e \in Devices \ before : Entry(map, e) = Entry(Map, e)
      BY <1>10
    <3> HIDE DEF d, before, map
    <3>5. \A e \in before : map.parent[e] = found[e].parent
      BY <1>1, <3>2, <3>4
    <3>6. ASSUME NEW e \in before \cup {d}, found[e].parent \notin DOMAIN found \cup {None}
          PROVE  map.parent[found[e].parent] = None
      <4>1. e \in DOMAIN found /\ found[e].parent \in Devices /\ found[e].parent \notin before
        BY <1>1, <3>1, <3>2, <3>6
      <4> QED
        BY <3>4, <3>6, <4>1 DEF TopsAreFree
    <3>7. found[d].parent = None => map.parent[d] = None
      BY <3>1, <3>2, <3>4 DEF TopsAreFree
    <3>8. \/ Entry(map, d) = <<>> /\ map.parent[d] = None
          \/ Entry(map, d) = <<map.parent[d]>>
      <4>1. map.parent[d] = parent[d] /\ Entry(map, d) = Entry(Map, d)
        BY <3>1, <3>2, <3>4
      <4>2. d \in rows
        BY <3>1, DiscoverFinds DEF Found
      <4>3. \/ Entry(Map, d) = <<>> /\ parent[d] = None
            \/ Entry(Map, d) = <<parent[d]>>
        BY <4>2 DEF AllAutomatic, PlacedAutomatically, Entry, Map
      <4> QED
        BY <4>1, <4>3
    <3> DEFINE new == Placed(map, d, found)
    <3>9. /\ new.parent = [map.parent EXCEPT ![d] = found[d].parent]
          /\ \A e \in Devices \ {d} : Entry(new, e) = Entry(map, e)
      BY <1>1, <3>1, <3>2, <3>3, <3>4, <3>5, <3>6, <3>7, <3>8, PlacedFollows
    <3> HIDE DEF new
    <3>10. after[k] = new
      BY <3>1 DEF new
    <3>11. found[d].parent \in Devices \cup {None}
      BY <1>1, <3>1
    <3>12. /\ new.parent \in Tree /\ new.parent[d] = found[d].parent
           /\ \A e \in Devices \ {d} : new.parent[e] = map.parent[e]
      BY <3>1, <3>4, <3>9, <3>11 DEF Tree
    <3>13. \A e \in Devices :
             after[k].parent[e] = IF e \in done(k) THEN found[e].parent ELSE parent[e]
      BY <3>2, <3>4, <3>10, <3>12
    <3>14. \A e \in Devices \ done(k) : Entry(after[k], e) = Entry(Map, e)
      BY <3>2, <3>4, <3>9, <3>10
    <3> QED
      BY <3>10, <3>12, <3>13, <3>14
  <2> QED
    BY <2>1, <2>2
<1> HIDE DEF Fits
<1> DEFINE B == {k \in Nat : k <= Size /\ ~Fits(k)}
<1>11. B = {}
  <2> SUFFICES ASSUME B # {} PROVE FALSE
    OBVIOUS
  <2>1. PICK m \in B : \A k \in B : m <= k
    <3>1. B \subseteq Nat
      OBVIOUS
    <3> HIDE DEF B
    <3> QED
      BY <3>1, LeastOf
  <2>2. m # 0 /\ m \in 1 .. Size /\ ~Fits(m)
    BY <1>9, Counted
  <2>3. m - 1 \in Nat /\ m - 1 \notin B /\ m - 1 <= Size
    BY <2>1, <2>2, Counted
  <2> QED
    BY <1>10, <2>2, <2>3
<1>12. Fits(Size)
  BY <1>11, Counted
<1>13. \A d \in DOMAIN found : d \in done(Size) /\ d \in Devices
  BY <1>1, <1>3, Counted
<1> HIDE DEF done
<1> QED
  BY <1>5, <1>7, <1>12, <1>13 DEF Fits

-----------------------------------------------------------------------------
(* The actions. *)

\* The rest of TypeOK: the network, the rows, the answers and the bounds.
RestOK ==
  /\ cable \in Cablings
  /\ read \in [Polled -> Cablings \cup {NotRead}]
  /\ rows \subseteq Devices /\ ignored \subseteq rows
  /\ mac \in [Devices -> Machines \cup {None}]
  /\ snmp \in [Polled -> rows \cup {None}]
  /\ dismissed \subseteq Devices \X (Devices \cup {None})
  /\ mode \in {"manual", "automatic"}
  /\ moves \in 0..MaxMoves /\ hands \in 0..MaxHands

\* The two halves of it.
LEMMA Halves == TypeOK <=> RestOK /\ MapOf(Map, rows)
BY DEF TypeOK, RestOK, MapOf, Map

\* What is kept: the types, and, as long as it is safe, no loops.
Kept(safe) == TypeOK /\ (safe => Grounded(parent))

\* The map that is there is as it should be.
LEMMA MapIsSound == ASSUME NEW safe \in BOOLEAN, Kept(safe) PROVE Sound(Map, safe)
BY Halves DEF Kept, Sound, Map

\* A step to such a map, on the rows there were, keeps all of it.
LEMMA SoundStep ==
  ASSUME NEW safe \in BOOLEAN, Kept(safe), NEW map, Sound(map, safe), Becomes(map), rows' = rows, RestOK'
  PROVE  Kept(safe)'
<1>1. Map'.parent = map.parent /\ Map'.auto = map.auto /\ Map'.role = map.role
  BY DEF Becomes, Map
<1>2. MapOf(Map, rows)'
  BY <1>1 DEF Sound, MapOf
<1>3. TypeOK'
  BY <1>2 DEF TypeOK, RestOK, MapOf, Map
<1>4. safe => Grounded(parent)'
  BY DEF Sound, Becomes, Grounded
<1> QED
  BY <1>3, <1>4 DEF Kept

\* Steps that leave the map alone.
LEMMA SameMapStep ==
  ASSUME NEW safe \in BOOLEAN, Kept(safe), UNCHANGED <<place, rows>>, RestOK' PROVE Kept(safe)'
<1>1. Sound(Map, safe)
  BY MapIsSound
<1>2. Becomes(Map) /\ rows' = rows
  BY DEF Becomes, Map, place
<1> QED
  BY <1>1, <1>2, SoundStep

\* The network, reading it, and ignoring a device.
LEMMA NetworkKeeps ==
  ASSUME NEW safe \in BOOLEAN, Kept(safe),
         \/ \E c \in Cablings : Replug(c)
         \/ \E m \in Polled : ReadMachine(m)
         \/ \E d \in Devices : Ignore(d)
  PROVE  Kept(safe)'
<1> USE Halves DEF Kept, RestOK
<1>1. ASSUME NEW c \in Cablings, Replug(c) PROVE Kept(safe)'
  <2>1. UNCHANGED <<place, rows>> /\ RestOK'
    BY <1>1, ServiceMapAssumption DEF Replug, device
  <2> QED
    BY <2>1, SameMapStep
<1>2. ASSUME NEW m \in Polled, ReadMachine(m) PROVE Kept(safe)'
  <2>1. UNCHANGED <<place, rows>> /\ RestOK'
    BY <1>2 DEF ReadMachine, device
  <2> QED
    BY <2>1, SameMapStep
<1>3. ASSUME NEW d \in Devices, Ignore(d) PROVE Kept(safe)'
  <2>1. UNCHANGED <<place, rows>> /\ RestOK'
    BY <1>3, ServiceMapAssumption DEF Ignore, ByHand, network
  <2> QED
    BY <2>1, SameMapStep
<1> QED
  BY <1>1, <1>2, <1>3

\* Automatic mode: its pass, and switching to it.
LEMMA AutomaticKeeps ==
  ASSUME NEW safe \in BOOLEAN, Kept(safe), AutomaticPass \/ \E m \in {"manual", "automatic"} : SetMode(m)
  PROVE  Kept(safe)'
<1>1. TypeOK /\ RestOK /\ Sound(Map, safe)
  BY Halves, MapIsSound DEF Kept
<1>2. Sound(Pass(Map, dismissed), safe)
  BY <1>1, PassSound
<1>3. CASE AutomaticPass
  <2>1. Becomes(Pass(Map, dismissed)) /\ rows' = rows /\ RestOK'
    BY <1>1, <1>3 DEF AutomaticPass, RestOK, network, device
  <2> QED
    BY <1>2, <2>1, SoundStep
<1>4. ASSUME NEW m \in {"manual", "automatic"}, SetMode(m) PROVE Kept(safe)'
  <2>1. Becomes(Pass(Map, dismissed)) \/ Becomes(Map)
    BY <1>4 DEF SetMode
  <2>2. rows' = rows /\ RestOK'
    BY <1>1, <1>4, ServiceMapAssumption DEF SetMode, ByHand, RestOK, network, device
  <2> QED
    BY <1>1, <1>2, <2>1, <2>2, SoundStep
<1> QED
  BY <1>3, <1>4

\* Places a person sets.
LEMMA PlaceKeeps ==
  ASSUME NEW safe \in BOOLEAN, Kept(safe), NEW d \in Devices, NEW r \in Roles,
         NEW p \in Devices \cup {None}, Place(d, r, p)
  PROVE  Kept(safe)'
<1> DEFINE map == [parent |-> [parent EXCEPT ![d] = p], auto |-> auto, role |-> [role EXCEPT ![d] = r]]
<1>1. TypeOK /\ RestOK /\ MapOf(Map, rows) /\ (safe => Grounded(parent)) /\ parent \in Tree
  BY Halves DEF Kept, TypeOK, Tree
<1>2. /\ d \in rows /\ (p # None => p \in rows /\ CanParent(parent, d, p))
      /\ Becomes(map) /\ rows' = rows /\ RestOK'
  BY <1>1, ServiceMapAssumption DEF Place, ByHand, Becomes, RestOK, network, device
<1>3. MapOf(map, rows)
  BY <1>1, <1>2, ServiceMapAssumption DEF MapOf, Map
<1>4. ASSUME safe PROVE Grounded(map.parent)
  <2>1. CASE p = None
    <3> DEFINE new == [parent EXCEPT ![d] = None]
    <3>1. new \in Tree /\ \A e \in Devices : new[e] \in {parent[e], None}
      BY <1>1 DEF Tree
    <3>2. Grounded(new)
      <4> HIDE DEF new
      <4> QED
        BY <1>1, <1>4, <3>1, FewerIsGrounded
    <3> QED
      BY <2>1, <3>2
  <2>2. CASE p # None
    BY <1>1, <1>2, <1>4, <2>2, HungIsGrounded
  <2> QED
    BY <2>1, <2>2
<1>5. Sound(map, safe)
  BY <1>3, <1>4 DEF Sound
<1> HIDE DEF map
<1> QED
  BY <1>2, <1>5, SoundStep

\* Places a person accepts.
LEMMA AcceptKeeps ==
  ASSUME NEW safe \in BOOLEAN, Kept(safe), AcceptAll \/ \E d \in Devices : Accept(d)
  PROVE  Kept(safe)'
<1> DEFINE found == Discover(parent, role)
<1>1. TypeOK /\ RestOK /\ Sound(Map, safe)
  BY Halves, MapIsSound DEF Kept
<1>2. Found(found)
  BY <1>1, DiscoverFinds
<1>3. Suggested(found) \subseteq DOMAIN found
  BY DEF Suggested
<1>4. CASE AcceptAll
  <2>1. Becomes(OneByOne("accepted", Map, found, Suggested(found))) /\ ByHand
        /\ UNCHANGED <<network, device, dismissed, mode>>
    BY <1>4, Zenon DEF AcceptAll
  <2>2. rows' = rows /\ RestOK'
    BY <1>1, <2>1, ServiceMapAssumption DEF ByHand, RestOK, network, device
  <2> HIDE DEF found
  <2>3. Sound(OneByOne("accepted", Map, found, Suggested(found)), safe)
    BY <1>1, <1>2, <1>3, OneByOneSound
  <2> QED
    BY <2>1, <2>2, <2>3, SoundStep
<1>5. ASSUME NEW d \in Devices, Accept(d) PROVE Kept(safe)'
  <2>1. Becomes(Accepted(Map, d, found)) /\ ByHand /\ d \in Suggested(found)
        /\ UNCHANGED <<network, device, dismissed, mode>>
    BY <1>5, Zenon DEF Accept
  <2>2. rows' = rows /\ RestOK'
    BY <1>1, <2>1, ServiceMapAssumption DEF ByHand, RestOK, network, device
  <2>3. Settled("accepted", Map, d, found) = Accepted(Map, d, found)
    BY DEF Settled
  <2> HIDE DEF found
  <2>4. Sound(Accepted(Map, d, found), safe)
    BY <1>1, <1>2, <1>3, <2>1, <2>3, SettledSound
  <2> QED
    BY <2>1, <2>2, <2>4, SoundStep
<1> QED
  BY <1>4, <1>5

\* A device that is not where it was found.
LEMMA NotRightKeeps ==
  ASSUME NEW safe \in BOOLEAN, Kept(safe), NEW d \in Devices, NotRight(d) PROVE Kept(safe)'
<1> DEFINE found == Discover(parent, role)
           map == [parent |-> [parent EXCEPT ![d] = None],
                   auto |-> [e \in DOMAIN auto \ {d} |-> auto[e]], role |-> role]
<1>1. TypeOK /\ RestOK /\ MapOf(Map, rows) /\ (safe => Grounded(parent)) /\ parent \in Tree
  BY Halves DEF Kept, TypeOK, Tree
<1>2. Found(found)
  BY <1>1, DiscoverFinds
<1>3. /\ ByHand /\ d \in DOMAIN found /\ dismissed' = dismissed \cup {<<d, found[d].parent>>}
      /\ UNCHANGED <<network, device, mode>>
      /\ UNCHANGED place \/ Becomes(map)
  BY Zenon DEF NotRight, Becomes, map
<1> HIDE DEF found
<1>4. rows' = rows /\ RestOK'
  <2>1. <<d, found[d].parent>> \in Devices \X (Devices \cup {None})
    BY <1>1, <1>2, <1>3 DEF Found, RestOK
  <2> QED
    BY <1>1, <1>3, <2>1, ServiceMapAssumption DEF ByHand, RestOK, network, device
<1>5. CASE UNCHANGED place
  BY <1>4, <1>5, SameMapStep
<1>6. CASE Becomes(map)
  <2>1. MapOf(map, rows)
    BY <1>1 DEF MapOf, Map
  <2>2. ASSUME safe PROVE Grounded(map.parent)
    <3> DEFINE new == [parent EXCEPT ![d] = None]
    <3>1. new \in Tree /\ \A e \in Devices : new[e] \in {parent[e], None}
      BY <1>1 DEF Tree
    <3>2. Grounded(new)
      <4> HIDE DEF new
      <4> QED
        BY <1>1, <2>2, <3>1, FewerIsGrounded
    <3> QED
      BY <3>2
  <2>3. Sound(map, safe)
    BY <2>1, <2>2 DEF Sound
  <2> HIDE DEF map
  <2> QED
    BY <1>4, <1>6, <2>3, SoundStep
<1> QED
  BY <1>3, <1>5, <1>6

\* The map is started over.
LEMMA WipeKeeps == ASSUME NEW safe \in BOOLEAN, Kept(safe), Wipe PROVE Kept(safe)'
<1> DEFINE empty == [parent |-> [d \in Devices |-> None], auto |-> [d \in {} |-> None],
                     role |-> [d \in Devices |-> "unknown"]]
<1>1. TypeOK /\ RestOK
  BY Halves DEF Kept
<1>2. /\ ByHand /\ dismissed' = {} /\ UNCHANGED <<network, device, mode>>
      /\ Becomes(Pass(empty, {})) \/ Becomes(empty)
  BY Zenon DEF Wipe
<1>3. rows' = rows /\ RestOK'
  BY <1>1, <1>2, ServiceMapAssumption DEF ByHand, RestOK, network, device
<1>4. Sound(empty, safe)
  <2>1. MapOf(empty, rows)
    BY DEF MapOf, MapRoles
  <2>2. Grounded(empty.parent)
    BY Counted DEF Grounded
  <2> QED
    BY <2>1, <2>2 DEF Sound
<1> HIDE DEF empty
<1>5. Sound(Pass(empty, {}), safe)
  BY <1>1, <1>4, PassSound
<1> QED
  BY <1>2, <1>3, <1>4, <1>5, SoundStep

\* A row that goes leaves a map of the others.
LEMMA GoneIsMap ==
  ASSUME NEW there, there \subseteq Devices, NEW map, MapOf(map, there), NEW d \in Devices
  PROVE  MapOf(Gone(d, map), there \ {d})
BY DEF Gone, MapOf, MapRoles

\* A device that is removed.
LEMMA RemoveKeeps ==
  ASSUME NEW safe \in BOOLEAN, Kept(safe), NEW d \in Devices, RemoveDevice(d) PROVE Kept(safe)'
<1>1. TypeOK /\ RestOK /\ MapOf(Map, rows) /\ (safe => Grounded(parent)) /\ parent \in Tree
  BY Halves DEF Kept, TypeOK, Tree
<1>2. /\ rows' = rows \ {d} /\ Becomes(Gone(d, Map))
      /\ rows \subseteq Devices
  BY <1>1 DEF RemoveDevice, RestOK
<1>3. RestOK'
  BY <1>1, ServiceMapAssumption DEF RemoveDevice, ByHand, RestOK
<1>4. MapOf(Gone(d, Map), rows \ {d})
  BY <1>1, <1>2, GoneIsMap
<1>5. TypeOK'
  BY <1>2, <1>3, <1>4 DEF TypeOK, RestOK, MapOf, Becomes
<1>6. ASSUME safe PROVE Grounded(parent')
  <2>1. parent' = [e \in Devices |-> IF e = d \/ parent[e] = d THEN None ELSE parent[e]]
    BY <1>2 DEF Becomes, Gone, Map
  <2>2. parent' \in Tree /\ \A e \in Devices : parent'[e] \in {parent[e], None}
    BY <1>1, <2>1 DEF Tree
  <2> QED
    BY <1>1, <1>6, <2>2, FewerIsGrounded
<1> QED
  BY <1>5, <1>6 DEF Kept, Grounded

\* The kept device of a merge is not below the other one.
MergesUp == \A keep, other \in Devices : Merge(keep, other) => keep \notin Descendants(parent, other)

\* Two devices that are merged.
LEMMA MergeKeeps ==
  ASSUME NEW safe \in BOOLEAN, Kept(safe), NEW keep \in Devices, NEW other \in Devices, Merge(keep, other),
         safe => keep \notin Descendants(parent, other)
  PROVE  Kept(safe)'
<1> DEFINE up    == [d \in Devices |-> IF parent[d] = other THEN keep ELSE parent[d]]
           put   == [d \in DOMAIN auto |-> IF auto[d] = other THEN keep ELSE auto[d]]
           roles == [role EXCEPT ![keep] = IF @ = "unknown" THEN role[other] ELSE @]
           onto  == [parent |-> up, auto |-> put, role |-> roles]
<1>1. TypeOK /\ RestOK /\ MapOf(Map, rows) /\ (safe => Grounded(parent)) /\ parent \in Tree
  BY Halves DEF Kept, TypeOK, Tree
<1>2. keep # other /\ keep \in rows /\ other \in rows /\ rows' = rows \ {other} /\ rows \subseteq Devices
  BY <1>1 DEF Merge, CanMerge, RestOK
<1>3. Becomes(Gone(other, onto))
  BY Zenon DEF Merge
<1>4. RestOK'
  BY <1>1, <1>2, ServiceMapAssumption DEF Merge, ByHand, RestOK, network
<1>5. MapOf(onto, rows)
  BY <1>1, <1>2 DEF MapOf, Map
<1> HIDE DEF onto
<1>6. MapOf(Gone(other, onto), rows \ {other})
  BY <1>2, <1>5, GoneIsMap
<1>7. TypeOK'
  BY <1>2, <1>3, <1>4, <1>6 DEF TypeOK, RestOK, MapOf, Becomes
<1>8. ASSUME safe PROVE Grounded(parent')
  <2>1. parent' = [e \in Devices |-> IF e = other \/ up[e] = other THEN None ELSE up[e]]
    BY <1>3 DEF Becomes, Gone, onto
  <2>2. parent' \in Tree /\ parent'[other] = None
    BY <1>1, <1>2, <2>1 DEF Tree
  <2>3. \A e \in Devices : parent'[e] \in {parent[e], None} \/ (parent[e] = other /\ parent'[e] = keep)
    BY <1>1, <1>2, <2>1 DEF Tree
  <2> QED
    BY <1>1, <1>2, <1>8, <2>2, <2>3, JoinedIsGrounded
<1> QED
  BY <1>7, <1>8 DEF Kept, Grounded

-----------------------------------------------------------------------------
(* The theorems. *)

\* It holds of the empty map.
LEMMA InitKept == Init => Kept(TRUE)
<1> SUFFICES ASSUME Init PROVE Kept(TRUE)
  OBVIOUS
<1>1. RestOK
  <2>1. \A m \in Polled : (CHOOSE d \in Devices : MacOf[d] = m) \in Devices
    BY ServiceMapAssumption
  <2>2. snmp \in [Polled -> rows \cup {None}]
    BY <2>1, Zenon DEF Init
  <2>3. read \in [Polled -> Cablings \cup {NotRead}]
    BY DEF Init
  <2> QED
    BY <2>2, <2>3, ServiceMapAssumption DEF Init, RestOK
<1>2. MapOf(Map, rows)
  BY DEF Init, MapOf, Map, MapRoles
<1>3. Grounded(parent)
  BY Counted DEF Init, Grounded
<1> QED
  BY <1>1, <1>2, <1>3, Halves DEF Kept

\* Every step keeps it; a merge, if it is upwards.
LEMMA StepKept ==
  ASSUME NEW safe \in BOOLEAN, Kept(safe), [Next]_vars, safe => MergesUp PROVE Kept(safe)'
<1>1. CASE UNCHANGED vars
  BY <1>1 DEF vars, network, device, place, Kept, TypeOK, Grounded
<1>2. CASE Next
  <2>1. ASSUME NEW h \in Hands, NEW r \in Roles, Place(h[1], r, h[2]) PROVE Kept(safe)'
    <3>1. h[1] \in Devices /\ h[2] \in Devices \cup {None}
      BY ServiceMapAssumption
    <3> QED
      BY <2>1, <3>1, PlaceKeeps
  <2>2. ASSUME NEW h \in Merges, Merge(h[1], h[2]) PROVE Kept(safe)'
    <3>1. h[1] \in Devices /\ h[2] \in Devices
      BY ServiceMapAssumption
    <3>2. safe => h[1] \notin Descendants(parent, h[2])
      BY <2>2, <3>1 DEF MergesUp
    <3> QED
      BY <2>2, <3>1, <3>2, MergeKeeps
  <2>3. CASE \/ \E c \in Cablings : Replug(c)
             \/ \E m \in Polled : ReadMachine(m)
             \/ \E d \in Devices : Ignore(d)
    BY <2>3, NetworkKeeps
  <2>4. CASE AutomaticPass \/ \E m \in {"manual", "automatic"} : SetMode(m)
    BY <2>4, AutomaticKeeps
  <2>5. CASE AcceptAll \/ \E d \in Devices : Accept(d)
    BY <2>5, AcceptKeeps
  <2>6. ASSUME NEW d \in Devices, NotRight(d) PROVE Kept(safe)'
    BY <2>6, NotRightKeeps
  <2>7. ASSUME NEW d \in Devices, RemoveDevice(d) PROVE Kept(safe)'
    BY <2>7, RemoveKeeps
  <2>8. CASE Wipe
    BY <2>8, WipeKeeps
  <2> QED
    BY <1>2, <2>1, <2>2, <2>3, <2>4, <2>5, <2>6, <2>7, <2>8 DEF Next
<1> QED
  BY <1>1, <1>2

\* The map speaks of devices that have a row, through reads, passes, places,
\* removals and merges (topology.py, routes_map.py, merge.py).
THEOREM MapTypeCorrect == Spec => []TypeOK
<1>1. Init => Kept(FALSE)
  BY InitKept DEF Kept
<1>2. Kept(FALSE) /\ [Next]_vars => Kept(FALSE)'
  BY StepKept
<1>3. Kept(FALSE) => TypeOK
  BY DEF Kept
<1> QED
  BY <1>1, <1>2, <1>3, PTL DEF Spec

\* No chain of parents comes back to itself (hierarchy.can_parent), whatever
\* the switches report and in whatever order devices are placed, moved,
\* accepted, taken back and removed; as long as no device is merged with one
\* above it, of which the first is kept (merge.apply makes a loop of that).
THEOREM MapHasNoLoops == Spec /\ [][MergesUp]_vars => []NoLoops
<1>1. Init => Kept(TRUE)
  BY InitKept
<1>2. Kept(TRUE) /\ [Next]_vars /\ [MergesUp]_vars => Kept(TRUE)'
  <2> SUFFICES ASSUME Kept(TRUE), [Next]_vars, [MergesUp]_vars PROVE Kept(TRUE)'
    OBVIOUS
  <2>1. CASE UNCHANGED vars
    BY <2>1 DEF vars, network, device, place, Kept, TypeOK, Grounded
  <2>2. CASE MergesUp
    BY <2>2, StepKept
  <2> QED
    BY <2>1, <2>2
<1>3. Kept(TRUE) => NoLoops
  BY GroundedHasNoLoops DEF Kept, TypeOK, NoLoops, Tree
<1> QED
  BY <1>1, <1>2, <1>3, PTL DEF Spec

\* After one pass of automatic mode everything is where the reports put it, on
\* a map no person has a say in (apply_automatic: moved if SNMP now sees it
\* elsewhere), whatever each device hung off before.  So it is as long as what
\* the reports put on top is not itself left hanging off something (the pass
\* places, and never takes a place away), and no found chain is longer than
\* hierarchy.MAX_DEPTH, beyond which _depth no longer tells which comes first.
THEOREM OnePassFollows ==
  Spec => []((LET found == Discover(parent, role)
              IN  TopsAreFree(found, parent) /\ ChainsAreShort(found)) => PassFollows)
<1> DEFINE Follows == (LET found == Discover(parent, role)
                       IN  TopsAreFree(found, parent) /\ ChainsAreShort(found)) => PassFollows
<1>1. TypeOK => Follows
  <2> DEFINE found == Discover(parent, role)
             after == Pass(Map, dismissed)
  <2> SUFFICES ASSUME TypeOK, TopsAreFree(found, parent), ChainsAreShort(found), AllAutomatic, dismissed = {}
               PROVE  \A d \in DOMAIN found : after.parent[d] = found[d].parent
    BY Zenon DEF PassFollows
  <2>1. \E f : f = found
    OBVIOUS
  <2> HIDE DEF found
  <2>2. found = Discover(parent, role)
    BY DEF found
  <2> QED
    BY <2>2, PassReaches
<1> HIDE DEF Follows
<1>2. Spec => []Follows
  BY <1>1, MapTypeCorrect, PTL
<1> QED
  BY <1>2 DEF Follows

===============================================================================

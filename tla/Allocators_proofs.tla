-------------------------- MODULE Allocators_proofs --------------------------
(***************************************************************************)
(* Proofs about allocators, for every number of inputs and outputs, every  *)
(* kind of arbiter and every history of requests: what is granted is a     *)
(* matching of what was asked for, nothing is wasted and priorities count, *)
(* and a wavefront keeps no request waiting longer than it has diagonals.  *)
(* Left out are max_size, whose augmenting paths are a recursive search,   *)
(* and a second pass of select, which does break the matching.             *)
(***************************************************************************)
EXTENDS Allocators, FiniteSetTheorems, WellFoundedInduction, TLAPS

-----------------------------------------------------------------------------
(* Least and greatest elements: a CHOOSE of one chooses something.         *)

(* A set of naturals that is not empty has a least element. *)
LEMMA LeastNatural ==
  ASSUME NEW T \in SUBSET Nat, T # {}
  PROVE  \E x \in T : \A y \in T : x <= y
<1> DEFINE R == {ss \in Nat \X Nat : ss[1] < ss[2]}
<1>1. IsWellFoundedOn(R, Nat)
  BY NatLessThanWellFounded DEF OpToRel
<1>2. \A x, y \in Nat : x < y => <<x, y>> \in R
  OBVIOUS
<1>3. \E x \in T : \A y \in T : ~ (<<y, x>> \in R)
  <2> HIDE DEF R
  <2> QED BY <1>1, WFMin
<1> HIDE DEF R
<1>4. PICK x \in T : \A y \in T : ~ (<<y, x>> \in R)
  BY <1>3
<1>5. \A y \in T : x <= y
  <2> TAKE y \in T
  <2>1. x \in Nat /\ y \in Nat
    OBVIOUS
  <2>2. ~(y < x)
    BY <1>2, <1>4, <2>1
  <2> QED
    BY <2>1, <2>2
<1> QED
  BY <1>5

(* Elements of a set measured by naturals: one of the least measure. *)
LEMMA LeastBy ==
  ASSUME NEW S, NEW f \in [S -> Nat], S # {}
  PROVE  \E x \in S : \A y \in S : f[x] <= f[y]
<1> DEFINE T == {f[x] : x \in S}
<1>1. T \in SUBSET Nat /\ T # {}
  OBVIOUS
<1>2. PICK t \in T : \A y \in T : t <= y
  <2> HIDE DEF T
  <2> QED BY <1>1, LeastNatural
<1> QED
  BY <1>2

(* Elements of a finite set measured by integers: one of the greatest. It  *)
(* is one with the fewest elements above it.                               *)
LEMMA GreatestBy ==
  ASSUME NEW S, IsFiniteSet(S), S # {}, NEW f \in [S -> Int]
  PROVE  \E x \in S : \A y \in S : f[y] <= f[x]
<1> DEFINE Above(x) == {y \in S : f[y] > f[x]}
           n == [x \in S |-> Cardinality(Above(x))]
<1>1. ASSUME NEW x \in S
      PROVE  Above(x) \in SUBSET S /\ IsFiniteSet(Above(x)) /\ Cardinality(Above(x)) \in Nat
  <2>1. Above(x) \in SUBSET S
    OBVIOUS
  <2> HIDE DEF Above
  <2> QED BY <2>1, FS_Subset, FS_CardinalityType
<1>2. n \in [S -> Nat]
  BY <1>1
<1>3. PICK x \in S : \A y \in S : n[x] <= n[y]
  <2> HIDE DEF n
  <2> QED BY <1>2, LeastBy
<1>4. ASSUME NEW y \in S, ~(f[y] <= f[x])
      PROVE  FALSE
  <2>1. f[y] > f[x]
    BY <1>4
  <2>2. Above(y) \in SUBSET Above(x) /\ y \in Above(x) /\ y \notin Above(y)
    BY <2>1
  <2>3. IsFiniteSet(Above(x)) /\ Cardinality(Above(x)) \in Nat /\ Cardinality(Above(y)) \in Nat
    BY <1>1
  <2>4. Cardinality(Above(x)) <= Cardinality(Above(y))
    BY <1>3
  <2> HIDE DEF Above
  <2>5. Cardinality(Above(y)) <= Cardinality(Above(x))
        /\ (Cardinality(Above(x)) = Cardinality(Above(y)) => Above(x) = Above(y))
    BY <2>2, <2>3, FS_Subset
  <2> QED
    BY <2>2, <2>3, <2>4, <2>5
<1> QED
  BY <1>4

-----------------------------------------------------------------------------
(* Arithmetic of the round.                                                *)
LEMMA Residue ==
  ASSUME NEW a \in Int, NEW n \in Nat \ {0}
  PROVE  a % n \in Nat /\ a % n < n /\ a % n \in 0 .. n - 1
OBVIOUS

LEMMA Division ==
  ASSUME NEW a \in Int, NEW n \in Nat \ {0}
  PROVE  \E p, m \in Int : m = n * p /\ a = m + (a % n)
<1>1. a \div n \in Int /\ a = n * (a \div n) + (a % n)
  OBVIOUS
<1>2. n * (a \div n) \in Int
  BY <1>1
<1> QED
  BY <1>1, <1>2

LEMMA CloseMultiples ==
  ASSUME NEW n \in Nat \ {0}, NEW p \in Int, NEW q \in Int,
         n * p - n * q < n, n * q - n * p < n
  PROVE  p = q
<1>1. ASSUME NEW x \in Int, NEW y \in Int, x > y, n * x - n * y < n
      PROVE  FALSE
  <2>1. PICK d \in Nat : x = y + 1 + d
    BY <1>1, x - y - 1 \in Nat
  <2>2. n * (y + 1 + d) = n * y + n + n * d /\ n * d >= 0 /\ n * y \in Int /\ n * d \in Int
    BY n \in Nat
  <2>3. PICK u, v : u = n * y /\ v = n * d
    OBVIOUS
  <2>4. n * x = u + n + v /\ u \in Int /\ v \in Int /\ v >= 0
    BY <2>1, <2>2, <2>3
  <2>5. (u + n + v) - u < n
    BY <1>1, <2>3, <2>4
  <2> QED BY <2>4, <2>5
<1> QED
  BY <1>1

(* Two numbers that are closer than n and alike modulo n are the same.     *)
LEMMA SameResidue ==
  ASSUME NEW a \in Int, NEW b \in Int, NEW n \in Nat \ {0},
         a % n = b % n, a - b < n, b - a < n
  PROVE  a = b
<1>1. PICK p \in Int, u \in Int : u = n * p /\ a = u + (a % n)
  BY Division
<1>2. PICK q \in Int, v \in Int : v = n * q /\ b = v + (b % n)
  BY Division
<1>3. PICK r \in Int : r = a % n
  BY Residue
<1>4. u - v < n /\ v - u < n
  BY <1>1, <1>2, <1>3
<1>5. p = q
  BY <1>1, <1>2, <1>4, CloseMultiples
<1> QED
  BY <1>1, <1>2, <1>5

(* Going from x as far as y lies behind it leads to where y is.            *)
LEMMA RoundTrip ==
  ASSUME NEW x \in Int, NEW y \in Int, NEW n \in Nat \ {0}
  PROVE  (x + ((y - x) % n)) % n = y % n
<1>1. PICK z \in Int : z = y - x
  OBVIOUS
<1>2. PICK r \in Int : r = z % n
  BY <1>1
<1>3. PICK p \in Int, t \in Int : t = n * p /\ z = t + r
  BY <1>2, Division
<1>4. PICK q \in Int, u \in Int : u = n * q /\ x + r = u + ((x + r) % n)
  <2>1. x + r \in Int
    OBVIOUS
  <2> QED BY <2>1, Division
<1>5. PICK w \in Int, v \in Int : v = n * w /\ y = v + (y % n)
  BY Division
<1>6. PICK a \in Nat, b \in Nat : a = (x + r) % n /\ b = y % n /\ a < n /\ b < n
  BY Residue
<1>7. y = x + z /\ x + r = u + a /\ y = v + b
  BY <1>1, <1>4, <1>5, <1>6
<1>8. v - (u + t) = a - b
  BY <1>3, <1>7
<1>9. n * (q + p) = u + t
  BY <1>3, <1>4
<1>10. n * w - n * (q + p) < n /\ n * (q + p) - n * w < n
  BY <1>5, <1>6, <1>8, <1>9
<1>11. w = q + p
  BY <1>10, CloseMultiples
<1>12. a = b
  BY <1>5, <1>8, <1>9, <1>11
<1> QED
  BY <1>1, <1>2, <1>6, <1>12

(* The next pass is the next diagonal, or the first of the next level.     *)
LEMMA NextPass ==
  ASSUME NEW k \in Nat, NEW n \in Nat \ {0}
  PROVE  \/ (k + 1) \div n = k \div n /\ (k + 1) % n = (k % n) + 1
         \/ (k + 1) \div n = (k \div n) + 1 /\ (k + 1) % n = 0 /\ (k % n) + 1 = n
<1>1. PICK q \in Int : q = k \div n
  OBVIOUS
<1>2. PICK s \in Int : s = (k + 1) \div n
  OBVIOUS
<1>3. PICK a \in Nat : a = k % n /\ a < n
  BY Residue
<1>4. PICK b \in Nat : b = (k + 1) % n /\ b < n
  <2>1. k + 1 \in Int
    OBVIOUS
  <2> QED BY <2>1, Residue
<1>5. k = n * q + a
  BY <1>1, <1>3
<1>6. k + 1 = n * s + b
  BY <1>2, <1>4
<1>7. PICK u \in Int, v \in Int : u = n * q /\ v = n * s
  <2>1. n * q \in Int /\ n * s \in Int
    OBVIOUS
  <2> QED BY <2>1
<1>8. u + a + 1 = v + b
  BY <1>5, <1>6, <1>7
<1>9. CASE a + 1 < n
  <2>1. n * s - n * q < n /\ n * q - n * s < n
    BY <1>3, <1>4, <1>7, <1>8, <1>9
  <2>2. s = q
    BY <2>1, CloseMultiples
  <2> QED BY <1>1, <1>2, <1>3, <1>4, <1>7, <1>8, <2>2
<1>10. CASE ~(a + 1 < n)
  <2>1. a + 1 = n
    BY <1>3, <1>10
  <2>2. n * (q + 1) = u + n
    BY <1>7
  <2>3. n * s - n * (q + 1) < n /\ n * (q + 1) - n * s < n
    BY <1>3, <1>4, <1>7, <1>8, <2>1, <2>2
  <2>4. s = q + 1
    BY <2>3, CloseMultiples
  <2>5. v = u + n
    BY <1>7, <2>2, <2>4
  <2> QED BY <1>1, <1>2, <1>3, <1>4, <1>8, <2>1, <2>4, <2>5
<1> QED
  BY <1>9, <1>10

(* Fewer passes than there are levels times diagonals: still on a level.   *)
LEMMA LevelLeft ==
  ASSUME NEW k \in Nat, NEW n \in Nat \ {0}, NEW m \in Nat, k < n * m
  PROVE  k \div n \in Nat /\ k \div n < m
<1>1. PICK q \in Int : q = k \div n
  OBVIOUS
<1>2. PICK a \in Nat : a = k % n /\ a < n
  BY Residue
<1>3. k = n * q + a
  BY <1>1, <1>2
<1>4. q \in Nat
  BY <1>1
<1>5. ASSUME q >= m
      PROVE  FALSE
  <2>1. PICK e \in Nat : q = m + e
    BY <1>4, <1>5, q - m \in Nat
  <2>2. n * (m + e) = n * m + n * e /\ n * e >= 0 /\ n * m \in Int /\ n * e \in Int
    BY n \in Nat
  <2>3. PICK x, y : x = n * m /\ y = n * e
    OBVIOUS
  <2> QED BY <1>2, <1>3, <2>1, <2>2, <2>3
<1> QED
  BY <1>1, <1>4, <1>5

LEMMA AllPasses ==
  ASSUME NEW n \in Nat \ {0}, NEW m \in Nat
  PROVE  (n * m) \div n = m
<1>1. PICK k \in Nat : k = n * m
  <2>1. n * m \in Nat
    OBVIOUS
  <2> QED BY <2>1
<1>2. PICK q \in Int : q = k \div n
  OBVIOUS
<1>3. PICK a \in Nat : a = k % n /\ a < n
  BY Residue
<1>4. k = n * q + a
  BY <1>2, <1>3
<1>5. PICK x \in Int : x = n * q
  <2>1. n * q \in Int
    OBVIOUS
  <2> QED BY <2>1
<1>6. n * m - n * q < n /\ n * q - n * m < n
  BY <1>1, <1>3, <1>4, <1>5
<1>7. m = q
  BY <1>6, CloseMultiples
<1> QED
  BY <1>1, <1>2, <1>7

(* Past the diagonal j after d, what lay further behind lies j + 1 nearer. *)
LEMMA Nearer ==
  ASSUME NEW x \in Int, NEW d \in Int, NEW n \in Nat \ {0}, NEW j \in Nat, j < (x - d) % n
  PROVE  (x - ((d + j + 1) % n)) % n = ((x - d) % n) - j - 1
<1>1. PICK z \in Int, y \in Int : z = x - d /\ y = d + j + 1
  OBVIOUS
<1>2. PICK e \in Nat : e = y % n /\ e < n
  BY Residue
<1>3. PICK w \in Int : w = x - e
  OBVIOUS
<1>4. PICK a \in Nat : a = z % n /\ a < n
  BY Residue
<1>5. PICK b \in Nat : b = w % n /\ b < n
  BY Residue
<1>6. PICK p \in Int, t \in Int : t = n * p /\ z = t + a
  BY <1>4, Division
<1>7. PICK q \in Int, u \in Int : u = n * q /\ y = u + e
  BY <1>2, Division
<1>8. PICK s \in Int, v \in Int : v = n * s /\ w = v + b
  BY <1>5, Division
<1>9. n * (p + q) = t + u
  BY <1>6, <1>7
<1>10. v + b = t + u + (a - j - 1)
  BY <1>1, <1>3, <1>6, <1>7, <1>8
<1>11. j < a
  BY <1>1, <1>4
<1>12. n * s - n * (p + q) < n /\ n * (p + q) - n * s < n
  BY <1>4, <1>5, <1>8, <1>9, <1>10, <1>11
<1>13. s = p + q
  BY <1>12, CloseMultiples
<1>14. b = a - j - 1
  BY <1>8, <1>9, <1>10, <1>13
<1> QED
  BY <1>1, <1>2, <1>3, <1>4, <1>5, <1>14

-----------------------------------------------------------------------------
(***************************************************************************)
(* Arbiters: one that is asked chooses a foremost request, so that its     *)
(* assertion that _selected is one never fails, and its state stays one.   *)
(***************************************************************************)
Arbs == {"round_robin", "matrix", "tree"}

IsState(arb, st) ==
  /\ arb = "round_robin" => st \in Int
  /\ arb = "tree" => st.global \in Int /\ st.groups \in [Indices(TreeGroups) -> Int]

(* Nobody beats himself, and who beats one beats those it beats.           *)
StrictOrder(beats, n) ==
  /\ beats \subseteq Indices(n) \X Indices(n)
  /\ \A i \in Indices(n) : <<i, i>> \notin beats
  /\ \A i, j, k \in Indices(n) : <<i, j>> \in beats /\ <<j, k>> \in beats => <<i, k>> \in beats

(* The state of an arbiter of n inputs. *)
Prepared(arb, st, n) ==
  /\ IsState(arb, st)
  /\ arb = "matrix" => StrictOrder(st, n)
  /\ arb = "tree" => n % TreeGroups = 0

(* What an arbiter of n inputs is asked. *)
Asked(r, n) == DOMAIN r \subseteq Indices(n) /\ (\A i \in DOMAIN r : r[i] \in Int) /\ DOMAIN r # {}

LEMMA NoneIsNoIndex ==
  ASSUME NEW n \in Nat
  PROVE  None \notin Indices(n) /\ Indices(n) \subseteq Nat
BY DEF None, Indices

LEMMA FirstIsIn ==
  ASSUME NEW S \in SUBSET Int, S # {}, NEW p \in Int, NEW n \in Nat \ {0}
  PROVE  FirstFrom(S, p, n) \in S
<1> DEFINE f == [i \in S |-> (i - p) % n]
<1>1. f \in [S -> Nat]
  <2>1. \A i \in S : i - p \in Int
    OBVIOUS
  <2> QED BY <2>1, Residue
<1>2. PICK i \in S : \A j \in S : f[i] <= f[j]
  <2> HIDE DEF f
  <2> QED BY <1>1, LeastBy
<1>3. \A j \in S : (i - p) % n <= (j - p) % n
  BY <1>2
<1> QED
  BY <1>3 DEF FirstFrom

LEMMA RoundRobinWins ==
  ASSUME NEW r, DOMAIN r \subseteq Int, NEW p \in Int, NEW n \in Nat \ {0}
  PROVE  RoundRobinWinner(p, n, r) \in DOMAIN r \cup {None}
<1>1. Foremost(r) \in SUBSET Int /\ Foremost(r) \subseteq DOMAIN r
  BY DEF Foremost
<1> QED
  BY <1>1, FirstIsIn DEF RoundRobinWinner

LEMMA GroupWins ==
  ASSUME NEW r, NEW n \in Nat \ {0}, NEW tree, IsState("tree", tree),
         NEW g \in Indices(TreeGroups), GroupWinner(tree, n, g, r) # None
  PROVE  /\ g * GroupSize(n) + GroupWinner(tree, n, g, r) \in DOMAIN r
         /\ GroupSize(n) \in Nat \ {0}
<1> DEFINE members == {i \in Indices(GroupSize(n)) : g * GroupSize(n) + i \in DOMAIN r}
           q == GroupRequests(n, g, r)
<1>1. DOMAIN q = members
  BY DEF GroupRequests
<1>2. GroupSize(n) \in Nat
  BY DEF GroupSize, TreeGroups
<1>3. DOMAIN q \subseteq Int
  BY <1>1, <1>2 DEF Indices
<1>4. GroupSize(n) # 0
  <2> SUFFICES ASSUME GroupSize(n) = 0 PROVE FALSE
    OBVIOUS
  <2>1. members = {}
    BY DEF Indices
  <2>2. Foremost(q) = {}
    BY <1>1, <2>1 DEF Foremost
  <2> QED BY <2>2 DEF GroupWinner, RoundRobinWinner
<1>5. tree.groups[g] \in Int
  BY DEF IsState
<1>6. GroupWinner(tree, n, g, r) \in DOMAIN q \cup {None}
  <2> HIDE DEF q
  <2>1. RoundRobinWinner(tree.groups[g], GroupSize(n), q) \in DOMAIN q \cup {None}
    BY <1>2, <1>3, <1>4, <1>5, RoundRobinWins
  <2> QED BY <2>1 DEF GroupWinner, q
<1> QED
  BY <1>1, <1>2, <1>4, <1>6

LEMMA AskedFinite ==
  ASSUME NEW n \in Nat, NEW r, Asked(r, n)
  PROVE  IsFiniteSet(DOMAIN r) /\ DOMAIN r \subseteq Nat
<1>1. IsFiniteSet(0 .. n - 1)
  <2>1. n - 1 \in Int
    OBVIOUS
  <2> QED BY <2>1, FS_Interval
<1> QED
  BY <1>1, FS_Subset DEF Asked, Indices

LEMMA ForemostExists ==
  ASSUME NEW r, IsFiniteSet(DOMAIN r), DOMAIN r # {}, \A i \in DOMAIN r : r[i] \in Int
  PROVE  Foremost(r) # {}
<1> DEFINE f == [i \in DOMAIN r |-> r[i]]
<1>1. f \in [DOMAIN r -> Int] /\ \A i \in DOMAIN r : f[i] = r[i]
  OBVIOUS
<1>2. PICK x \in DOMAIN r : \A y \in DOMAIN r : f[y] <= f[x]
  <2> HIDE DEF f
  <2> QED BY <1>1, GreatestBy
<1> QED
  BY <1>1, <1>2 DEF Foremost

LEMMA RoundRobinChooses ==
  ASSUME NEW r, IsFiniteSet(DOMAIN r), DOMAIN r # {}, \A i \in DOMAIN r : r[i] \in Int,
         DOMAIN r \subseteq Int, NEW p \in Int, NEW n \in Nat \ {0}
  PROVE  RoundRobinWinner(p, n, r) \in Foremost(r)
<1>1. Foremost(r) \in SUBSET Int
  BY DEF Foremost
<1> QED
  BY <1>1, ForemostExists, FirstIsIn DEF RoundRobinWinner

(* Among finitely many there is one whom no other beats: the one beaten by *)
(* the fewest.                                                             *)
LEMMA UnbeatenExists ==
  ASSUME NEW n \in Nat, NEW beats, StrictOrder(beats, n),
         NEW S \in SUBSET Indices(n), S # {}, IsFiniteSet(S)
  PROVE  \E i \in S : \A j \in S : <<j, i>> \notin beats
<1> DEFINE Over(i) == {j \in S : <<j, i>> \in beats}
           f == [i \in S |-> Cardinality(Over(i))]
<1>1. ASSUME NEW i \in S
      PROVE  IsFiniteSet(Over(i)) /\ Cardinality(Over(i)) \in Nat
  <2>1. Over(i) \in SUBSET S
    OBVIOUS
  <2> HIDE DEF Over
  <2> QED BY <2>1, FS_Subset, FS_CardinalityType
<1>2. f \in [S -> Nat]
  BY <1>1
<1>3. PICK i \in S : \A j \in S : f[i] <= f[j]
  <2> HIDE DEF f
  <2> QED BY <1>2, LeastBy
<1>4. ASSUME NEW j \in S, <<j, i>> \in beats
      PROVE  FALSE
  <2>1. Over(j) \in SUBSET Over(i) /\ j \in Over(i) /\ j \notin Over(j)
    BY <1>4 DEF StrictOrder
  <2>2. Cardinality(Over(i)) <= Cardinality(Over(j))
    BY <1>3
  <2>3. Cardinality(Over(i)) \in Nat /\ Cardinality(Over(j)) \in Nat /\ IsFiniteSet(Over(i))
    BY <1>1
  <2> HIDE DEF Over
  <2>4. Cardinality(Over(j)) <= Cardinality(Over(i))
        /\ (Cardinality(Over(i)) = Cardinality(Over(j)) => Over(i) = Over(j))
    BY <2>1, <2>3, FS_Subset
  <2> QED BY <2>1, <2>2, <2>3, <2>4
<1> QED
  BY <1>4

LEMMA MatrixChooses ==
  ASSUME NEW n \in Nat, NEW beats, StrictOrder(beats, n), NEW r, Asked(r, n)
  PROVE  MatrixWinner(beats, n, r) \in Foremost(r)
<1> DEFINE unbeaten == {i \in Foremost(r) : \A j \in Foremost(r) : <<j, i>> \notin beats}
<1>1. IsFiniteSet(DOMAIN r) /\ DOMAIN r \subseteq Nat /\ DOMAIN r \subseteq Indices(n)
      /\ DOMAIN r # {} /\ \A i \in DOMAIN r : r[i] \in Int
  BY AskedFinite DEF Asked
<1>2. Foremost(r) # {} /\ Foremost(r) \subseteq DOMAIN r
  BY <1>1, ForemostExists DEF Foremost
<1>3. Foremost(r) \in SUBSET Indices(n) /\ IsFiniteSet(Foremost(r))
  BY <1>1, <1>2, FS_Subset
<1>4. unbeaten # {} /\ unbeaten \in SUBSET Nat
  BY <1>1, <1>2, <1>3, UnbeatenExists
<1>5. (CHOOSE i \in unbeaten : \A j \in unbeaten : i <= j) \in unbeaten
  <2> HIDE DEF unbeaten
  <2> QED BY <1>4, LeastNatural
<1>6. Cardinality(DOMAIN r) = 1 => (CHOOSE i \in DOMAIN r : TRUE) \in Foremost(r)
  <2> SUFFICES ASSUME Cardinality(DOMAIN r) = 1
               PROVE  (CHOOSE i \in DOMAIN r : TRUE) \in Foremost(r)
    OBVIOUS
  <2>1. PICK x : DOMAIN r = {x}
    BY <1>1, FS_Singleton
  <2>2. Foremost(r) = {x}
    BY <1>2, <2>1
  <2> QED BY <2>1, <2>2
<1>7. MatrixWinner(beats, n, r) =
        IF Cardinality(DOMAIN r) = 1 THEN CHOOSE i \in DOMAIN r : TRUE
        ELSE IF unbeaten = {} THEN None
        ELSE CHOOSE i \in unbeaten : \A j \in unbeaten : i <= j
  BY DEF MatrixWinner
<1>8. unbeaten \subseteq Foremost(r)
  OBVIOUS
<1> HIDE DEF unbeaten
<1> QED
  BY <1>4, <1>5, <1>6, <1>7, <1>8

(* The group of an input, and its number in it. *)
LEMMA Grouped ==
  ASSUME NEW n \in Nat \ {0}, n % TreeGroups = 0, NEW i \in Indices(n)
  PROVE  /\ GroupSize(n) \in Nat \ {0}
         /\ \E g \in Indices(TreeGroups), k \in Indices(GroupSize(n)) : i = g * GroupSize(n) + k
<1>1. n = 2 * GroupSize(n) /\ GroupSize(n) \in Nat
  BY DEF GroupSize, TreeGroups
<1>2. GroupSize(n) # 0 /\ i \in Nat /\ i < n
  BY <1>1 DEF Indices
<1>3. CASE i < GroupSize(n)
  <2>1. i \in Indices(GroupSize(n)) /\ 0 \in Indices(TreeGroups) /\ i = 0 * GroupSize(n) + i
    BY <1>1, <1>2, <1>3 DEF Indices, TreeGroups
  <2> QED BY <1>1, <1>2, <2>1
<1>4. CASE ~(i < GroupSize(n))
  <2>1. i - GroupSize(n) \in Indices(GroupSize(n)) /\ 1 \in Indices(TreeGroups)
        /\ i = 1 * GroupSize(n) + (i - GroupSize(n))
    BY <1>1, <1>2, <1>4 DEF Indices, TreeGroups
  <2> QED BY <1>1, <1>2, <2>1
<1> QED
  BY <1>3, <1>4

LEMMA TreeChooses ==
  ASSUME NEW n \in Nat \ {0}, n % TreeGroups = 0, NEW tree, IsState("tree", tree),
         NEW r, Asked(r, n)
  PROVE  TreeWinner(tree, n, r) \in Foremost(r)
<1> DEFINE m == GroupSize(n)
           asking == {g \in Indices(TreeGroups) : GroupWinner(tree, n, g, r) # None}
           q == [g \in asking |-> r[g * m + GroupWinner(tree, n, g, r)]]
<1>1. PICK x : x \in DOMAIN r
  BY DEF Asked
<1>2. m \in Nat \ {0} /\ TreeGroups \in Nat \ {0}
  <2>1. x \in Indices(n)
    BY <1>1 DEF Asked
  <2> QED BY <2>1, Grouped DEF TreeGroups
<1> HIDE DEF m
<1>3. ASSUME NEW g \in Indices(TreeGroups), NEW k \in Indices(m), g * m + k \in DOMAIN r
      PROVE  /\ GroupWinner(tree, n, g, r) # None
             /\ g * m + GroupWinner(tree, n, g, r) \in DOMAIN r
             /\ r[g * m + k] <= r[g * m + GroupWinner(tree, n, g, r)]
  <2> DEFINE s == GroupRequests(n, g, r)
  <2>1. DOMAIN s = {i \in Indices(m) : g * m + i \in DOMAIN r}
        /\ \A i \in DOMAIN s : s[i] = r[g * m + i]
    BY DEF GroupRequests, m
  <2>2. Asked(s, m) /\ k \in DOMAIN s
    BY <1>3, <2>1 DEF Asked
  <2>3. tree.groups[g] \in Int
    BY DEF IsState
  <2> HIDE DEF s
  <2>4. RoundRobinWinner(tree.groups[g], m, s) \in Foremost(s)
    BY <1>2, <2>2, <2>3, AskedFinite, RoundRobinChooses DEF Asked
  <2>5. GroupWinner(tree, n, g, r) \in Foremost(s)
    BY <2>4 DEF GroupWinner, m, s
  <2>6. GroupWinner(tree, n, g, r) \in DOMAIN s /\ s[k] <= s[GroupWinner(tree, n, g, r)]
    BY <2>2, <2>5 DEF Foremost
  <2>7. None \notin DOMAIN s
    BY <2>1 DEF None, Indices
  <2> QED BY <2>1, <2>2, <2>6, <2>7
<1>4. ASSUME NEW g \in asking
      PROVE  g * m + GroupWinner(tree, n, g, r) \in DOMAIN r
  BY GroupWins DEF m
<1>5. DOMAIN q = asking /\ asking \in SUBSET Indices(TreeGroups)
      /\ \A g \in asking : q[g] = r[g * m + GroupWinner(tree, n, g, r)]
  BY DEF m
<1>6. Asked(q, TreeGroups)
  <2>1. asking # {}
    <3>1. x \in Indices(n)
      BY <1>1 DEF Asked
    <3>2. PICK g \in Indices(TreeGroups), k \in Indices(m) : x = g * m + k
      BY <3>1, Grouped DEF m
    <3> QED BY <1>1, <1>3, <3>2
  <2>2. \A g \in asking : q[g] \in Int
    BY <1>4, <1>5 DEF Asked
  <2> HIDE DEF asking, q
  <2> QED BY <1>5, <2>1, <2>2 DEF Asked
<1>7. tree.global \in Int
  BY DEF IsState
<1>8. GlobalWinner(tree, n, r) = RoundRobinWinner(tree.global, TreeGroups, q)
  BY DEF GlobalWinner, m
<1> HIDE DEF q, asking
<1>9. GlobalWinner(tree, n, r) \in Foremost(q)
  BY <1>2, <1>6, <1>7, <1>8, AskedFinite, RoundRobinChooses DEF Asked
<1>10. PICK g : g = GlobalWinner(tree, n, r)
  OBVIOUS
<1>11. g \in asking /\ \A h \in asking : q[h] <= q[g]
  BY <1>5, <1>9, <1>10 DEF Foremost
<1>12. g # None
  BY <1>5, <1>11 DEF Indices, None, TreeGroups
<1> DEFINE w == g * m + GroupWinner(tree, n, g, r)
<1>13. TreeWinner(tree, n, r) = w /\ w \in DOMAIN r /\ q[g] = r[w]
  BY <1>4, <1>5, <1>10, <1>11, <1>12 DEF TreeWinner, m
<1>14. ASSUME NEW y \in DOMAIN r
       PROVE  r[y] <= r[w]
  <2>1. y \in Indices(n)
    BY DEF Asked
  <2>2. PICK h \in Indices(TreeGroups), k \in Indices(m) : y = h * m + k
    BY <2>1, Grouped DEF m
  <2>3. h \in asking /\ r[y] <= q[h]
    BY <1>3, <1>5, <2>2 DEF asking
  <2>4. q[h] <= r[w]
    BY <1>11, <1>13, <2>3
  <2>5. r[y] \in Int /\ r[w] \in Int /\ q[h] \in Int
    BY <1>5, <1>6, <1>13, <2>3 DEF Asked
  <2> QED BY <2>3, <2>4, <2>5
<1> HIDE DEF w
<1> QED
  BY <1>13, <1>14 DEF Foremost

(* An arbiter of any kind that is asked chooses a request of the greatest  *)
(* priority, whatever it remembers: what Arbitrate() asserts of _selected. *)
THEOREM ArbiterChooses ==
  ASSUME NEW arb \in Arbs, NEW n \in Nat \ {0}, NEW st, Prepared(arb, st, n), NEW r, Asked(r, n)
  PROVE  Arbitrate(arb, st, n, r) \in Foremost(r)
<1>1. IsFiniteSet(DOMAIN r) /\ DOMAIN r \subseteq Nat /\ DOMAIN r # {}
      /\ \A i \in DOMAIN r : r[i] \in Int
  BY AskedFinite DEF Asked
<1>2. CASE arb = "round_robin"
  <2>1. Arbitrate(arb, st, n, r) = RoundRobinWinner(st, n, r) /\ st \in Int
    BY <1>1, <1>2 DEF Arbitrate, Prepared, IsState
  <2> QED BY <1>1, <2>1, RoundRobinChooses
<1>3. CASE arb = "matrix"
  <2>1. Arbitrate(arb, st, n, r) = MatrixWinner(st, n, r) /\ StrictOrder(st, n)
    BY <1>1, <1>3 DEF Arbitrate, Prepared
  <2> QED BY <2>1, MatrixChooses
<1>4. CASE arb = "tree"
  <2>1. Arbitrate(arb, st, n, r) = TreeWinner(st, n, r) /\ IsState("tree", st) /\ n % TreeGroups = 0
    BY <1>1, <1>4 DEF Arbitrate, Prepared
  <2> QED BY <2>1, TreeChooses
<1> QED
  BY <1>2, <1>3, <1>4 DEF Arbs

(* Losing to everybody from now on, the winner leaves the others' order.   *)
LEMMA OrderKept ==
  ASSUME NEW n, NEW beats, StrictOrder(beats, n), NEW w \in Indices(n)
  PROVE  StrictOrder(MatrixUpdate(beats, n, w), n)
<1> DEFINE after == MatrixUpdate(beats, n, w)
<1>1. \A i, j \in Indices(n) :
        <<i, j>> \in after <=> (<<i, j>> \in beats /\ i # w) \/ (j = w /\ i # w)
  BY DEF MatrixUpdate
<1>2. after \subseteq Indices(n) \X Indices(n)
  BY DEF MatrixUpdate, StrictOrder
<1> HIDE DEF after
<1> QED
  BY <1>1, <1>2 DEF StrictOrder, after

LEMMA FirstOrder ==
  ASSUME NEW n \in Nat
  PROVE  StrictOrder(MatrixInit(n), n)
<1>1. \A i, j \in Indices(n) : <<i, j>> \in MatrixInit(n) <=> j < i
  BY DEF MatrixInit
<1>2. MatrixInit(n) \subseteq Indices(n) \X Indices(n) /\ Indices(n) \subseteq Int
  BY DEF MatrixInit, Indices
<1> QED
  BY <1>1, <1>2 DEF StrictOrder
(* What the winner of an arbitration is: None, or above all it beat.       *)
Answers(w, r) ==
  /\ w \in DOMAIN r \cup {None}
  /\ \A i \in DOMAIN r : w # None /\ w \in DOMAIN r /\ r[i] <= r[w]

LEMMA ForemostAnswers ==
  ASSUME NEW n \in Nat, NEW r, NEW w, DOMAIN r \subseteq Indices(n), w \in Foremost(r)
  PROVE  Answers(w, r)
BY NoneIsNoIndex DEF Foremost, Answers

LEMMA RoundRobinAnswers ==
  ASSUME NEW p \in Int, NEW n \in Nat \ {0}, NEW r,
         DOMAIN r \subseteq Indices(n), \A i \in DOMAIN r : r[i] \in Int
  PROVE  Answers(RoundRobinWinner(p, n, r), r)
<1>1. CASE DOMAIN r = {}
  BY <1>1 DEF RoundRobinWinner, Foremost, Answers
<1>2. CASE DOMAIN r # {}
  <2>1. IsFiniteSet(DOMAIN r) /\ DOMAIN r \subseteq Int
    BY <1>2, AskedFinite DEF Asked
  <2>2. RoundRobinWinner(p, n, r) \in Foremost(r)
    BY <1>2, <2>1, RoundRobinChooses
  <2> QED BY <2>2, ForemostAnswers
<1> QED
  BY <1>1, <1>2

LEMMA ArbiterAnswers ==
  ASSUME NEW arb \in Arbs, NEW n \in Nat \ {0}, NEW st, Prepared(arb, st, n), NEW r,
         DOMAIN r \subseteq Indices(n), \A i \in DOMAIN r : r[i] \in Int
  PROVE  Answers(Arbitrate(arb, st, n, r), r)
<1>1. CASE DOMAIN r = {}
  BY <1>1 DEF Arbitrate, Answers
<1>2. CASE DOMAIN r # {}
  <2>1. Asked(r, n)
    BY <1>2 DEF Asked
  <2>2. Arbitrate(arb, st, n, r) \in Foremost(r)
    BY <2>1, ArbiterChooses
  <2> QED BY <2>2, ForemostAnswers
<1> QED
  BY <1>1, <1>2

LEMMA UpdatePrepared ==
  ASSUME NEW arb \in Arbs, NEW n \in Nat \ {0}, NEW st, Prepared(arb, st, n), NEW w \in Indices(n)
  PROVE  Prepared(arb, UpdateState(arb, st, n, w), n)
<1>1. w \in Int
  BY DEF Indices
<1>2. CASE arb = "round_robin"
  <2>1. UpdateState(arb, st, n, w) = (w + 1) % n /\ (w + 1) % n \in Int
    BY <1>1, <1>2 DEF UpdateState, RoundRobinUpdate
  <2> QED BY <1>2, <2>1 DEF Prepared, IsState
<1>3. CASE arb = "matrix"
  <2>1. UpdateState(arb, st, n, w) = MatrixUpdate(st, n, w) /\ StrictOrder(st, n)
    BY <1>3 DEF UpdateState, Prepared
  <2> QED BY <1>3, <2>1, OrderKept DEF Prepared, IsState
<1>4. CASE arb = "tree"
  <2> DEFINE m == GroupSize(n)
             g == w \div m
             up == ((w % m) + 1) % m
  <2>1. m \in Nat \ {0} /\ n % TreeGroups = 0
    BY <1>4, Grouped DEF Prepared
  <2>2. UpdateState(arb, st, n, w) =
          [groups |-> [st.groups EXCEPT ![g] = up], global |-> (g + 1) % TreeGroups]
    BY <1>4 DEF UpdateState, TreeUpdate, RoundRobinUpdate
  <2>3. st.groups \in [Indices(TreeGroups) -> Int]
    BY <1>4 DEF Prepared, IsState
  <2> HIDE DEF m
  <2>4. w % m \in Int
    BY <1>1, <2>1
  <2>5. up \in Int
    BY <2>1, <2>4
  <2>6. g \in Int /\ (g + 1) % TreeGroups \in Int
    BY <1>1, <2>1 DEF TreeGroups
  <2> HIDE DEF g, up
  <2>7. [st.groups EXCEPT ![g] = up] \in [Indices(TreeGroups) -> Int]
    BY <2>3, <2>5
  <2> QED BY <1>4, <2>1, <2>2, <2>6, <2>7 DEF Prepared, IsState
<1> QED
  BY <1>2, <1>3, <1>4 DEF Arbs

LEMMA InitPrepared ==
  ASSUME NEW arb \in Arbs, NEW n \in Nat \ {0}, arb = "tree" => n % TreeGroups = 0
  PROVE  Prepared(arb, ArbiterInit(arb, n), n)
BY FirstOrder DEF Arbs, ArbiterInit, Prepared, IsState, TreeInit

-----------------------------------------------------------------------------
(***************************************************************************)
(* Matchings of the requests r of an allocator c.                          *)
(***************************************************************************)
Sized(c) == c.ins \in Nat \ {0} /\ c.outs \in Nat \ {0}

Sound(c, r, in, out) ==
  /\ in \in [Indices(c.ins) -> Indices(c.outs) \cup {None}]
  /\ out \in [Indices(c.outs) -> Indices(c.ins) \cup {None}]
  /\ \A i \in Indices(c.ins), o \in Indices(c.outs) : (in[i] = o) <=> (out[o] = i)
  /\ \A i \in Indices(c.ins) : in[i] # None => <<i, in[i]>> \in DOMAIN r

(* What may be matched in addition: free ends, one output per input.       *)
Acceptable(c, r, in, out, acc) ==
  /\ acc \in [Indices(c.ins) -> Indices(c.outs) \cup {None}]
  /\ \A i \in Indices(c.ins) : acc[i] # None =>
       in[i] = None /\ out[acc[i]] = None /\ <<i, acc[i]>> \in DOMAIN r
  /\ \A i, j \in Indices(c.ins) : (acc[i] # None /\ acc[i] = acc[j]) => i = j

InAfter(c, in, acc) ==
  [i \in Indices(c.ins) |-> IF acc[i] # None THEN acc[i] ELSE in[i]]

OutAfter(c, out, acc) ==
  [o \in Indices(c.outs) |-> IF {i \in Indices(c.ins) : acc[i] = o} # {}
                             THEN CHOOSE i \in Indices(c.ins) : acc[i] = o ELSE out[o]]

LEMMA MatchKeeps ==
  ASSUME NEW c, Sized(c), NEW r, NEW in, NEW out, Sound(c, r, in, out),
         NEW acc, Acceptable(c, r, in, out, acc)
  PROVE  Sound(c, r, InAfter(c, in, acc), OutAfter(c, out, acc))
<1> DEFINE I == Indices(c.ins)
           O == Indices(c.outs)
           in2 == InAfter(c, in, acc)
           out2 == OutAfter(c, out, acc)
<1>1. None \notin I /\ None \notin O
  BY NoneIsNoIndex DEF Sized
<1>2. /\ in \in [I -> O \cup {None}] /\ out \in [O -> I \cup {None}]
      /\ \A i \in I, o \in O : (in[i] = o) <=> (out[o] = i)
      /\ \A i \in I : in[i] # None => <<i, in[i]>> \in DOMAIN r
  BY DEF Sound
<1>3. /\ acc \in [I -> O \cup {None}]
      /\ \A i \in I : acc[i] # None => in[i] = None /\ out[acc[i]] = None /\ <<i, acc[i]>> \in DOMAIN r
      /\ \A i, j \in I : (acc[i] # None /\ acc[i] = acc[j]) => i = j
  BY DEF Acceptable
<1>4. \A i \in I : in2[i] = IF acc[i] # None THEN acc[i] ELSE in[i]
  BY DEF InAfter
<1>5. ASSUME NEW o \in O
      PROVE  /\ \A i \in I : acc[i] = o => out2[o] = i
             /\ (\A i \in I : acc[i] # o) => out2[o] = out[o]
  <2>1. out2[o] = IF {i \in I : acc[i] = o} # {} THEN CHOOSE i \in I : acc[i] = o ELSE out[o]
    BY DEF OutAfter
  <2>2. ASSUME NEW i \in I, acc[i] = o
        PROVE  out2[o] = i
    <3>1. (CHOOSE j \in I : acc[j] = o) = i
      <4>1. \A j \in I : acc[j] = o => j = i
        BY <1>1, <1>3, <2>2
      <4> QED BY <2>2, <4>1
    <3> QED BY <2>1, <2>2, <3>1
  <2> QED BY <2>1, <2>2
<1>6. in2 \in [I -> O \cup {None}]
  <2>1. \A i \in I : in2[i] \in O \cup {None}
    BY <1>2, <1>3, <1>4
  <2> QED BY <2>1 DEF InAfter
<1>7. out2 \in [O -> I \cup {None}]
  <2>1. \A o \in O : out2[o] \in I \cup {None}
    BY <1>2, <1>5
  <2> QED BY <2>1 DEF OutAfter
<1> HIDE DEF in2, out2, I, O
<1>8. ASSUME NEW i \in I, NEW o \in O
      PROVE  (in2[i] = o) <=> (out2[o] = i)
  <2>1. CASE acc[i] = o
    BY <1>1, <1>4, <1>5, <2>1
  <2>2. CASE acc[i] # o /\ \E j \in I : acc[j] = o
    <3>1. PICK j \in I : acc[j] = o
      BY <2>2
    <3>2. out2[o] = j /\ j # i /\ out[o] = None
      BY <1>1, <1>3, <1>5, <2>2, <3>1
    <3>3. in[i] # o
      BY <1>1, <1>2, <3>2
    <3>4. in2[i] # o
      BY <1>4, <2>2, <3>3
    <3>5. out2[o] # i
      BY <3>2
    <3> QED BY <3>4, <3>5
  <2>3. CASE acc[i] # o /\ \A j \in I : acc[j] # o
    <3>1. out2[o] = out[o]
      BY <1>5, <2>3
    <3>2. CASE acc[i] # None
      <4>1. in2[i] # o
        BY <1>4, <2>3, <3>2
      <4>2. in[i] = None /\ in[i] # o
        BY <1>1, <1>3, <3>2
      <4>3. out2[o] # i
        BY <1>2, <3>1, <4>2
      <4> QED BY <4>1, <4>3
    <3>3. CASE acc[i] = None
      BY <1>2, <1>4, <3>1, <3>3
    <3> QED BY <3>2, <3>3
  <2> QED BY <2>1, <2>2, <2>3
<1>9. \A i \in I : in2[i] # None => <<i, in2[i]>> \in DOMAIN r
  BY <1>2, <1>3, <1>4
<1> QED
  BY <1>6, <1>7, <1>8, <1>9 DEF Sound, I, O, in2, out2

-----------------------------------------------------------------------------
(***************************************************************************)
(* What a good choice is: something is granted if anything was asked for,  *)
(* and a request that its input and its output both prefer is.             *)
(***************************************************************************)
TwoPriorities == [in_pri : Int, out_pri : Int]

SomeGranted(c, r, in) ==
  DOMAIN r # {} => \E i \in Indices(c.ins) : in[i] # None

Preferred(r, p) ==
  \A q \in DOMAIN r \ {p} :
    /\ q[1] = p[1] => r[q].in_pri < r[p].in_pri
    /\ q[2] = p[2] => r[q].out_pri < r[p].out_pri

TopGranted(r, in) ==
  \A p \in DOMAIN r : Preferred(r, p) => in[p[1]] = p[2]

Pairs(c, r) ==
  /\ DOMAIN r \subseteq Indices(c.ins) \X Indices(c.outs)
  /\ \A p \in DOMAIN r : r[p] \in TwoPriorities

(* A round of grants g by outputs and of accepts acc by inputs, among free *)
(* ends: no output that can grant and no input that is granted holds back. *)
Round(c, r, in, out, g, acc) ==
  /\ g \in [Indices(c.outs) -> Indices(c.ins) \cup {None}]
  /\ acc \in [Indices(c.ins) -> Indices(c.outs) \cup {None}]
  /\ \A o \in Indices(c.outs) : g[o] # None =>
       in[g[o]] = None /\ out[o] = None /\ <<g[o], o>> \in DOMAIN r
  /\ \A i \in Indices(c.ins) : acc[i] # None => g[acc[i]] = i
  /\ \A p \in DOMAIN r : in[p[1]] = None /\ out[p[2]] = None => g[p[2]] # None
  /\ \A o \in Indices(c.outs) : g[o] # None => acc[g[o]] # None

(* Grants go to the foremost requests of the output, accepts to those of   *)
(* the input.                                                              *)
Prized(c, r, g, acc) ==
  /\ \A o \in Indices(c.outs), i \in Indices(c.ins) :
       g[o] # None /\ <<i, o>> \in DOMAIN r => r[<<i, o>>].out_pri <= r[<<g[o], o>>].out_pri
  /\ \A i \in Indices(c.ins), o \in Indices(c.outs) :
       acc[i] # None /\ g[o] = i => r[<<i, o>>].in_pri <= r[<<i, acc[i]>>].in_pri

(* Each input chooses one of its requests, and each output a winner among  *)
(* the inputs that chose it.                                               *)
Chosen(c, r, choice, winner) ==
  /\ choice \in [Indices(c.ins) -> Indices(c.outs) \cup {None}]
  /\ \A i \in Indices(c.ins) : choice[i] # None => <<i, choice[i]>> \in DOMAIN r
  /\ \A p \in DOMAIN r : choice[p[1]] # None
  /\ \A i \in Indices(c.ins) : choice[i] # None =>
       winner[choice[i]] \in Indices(c.ins) /\ choice[winner[choice[i]]] = choice[i]

ChosenPrized(c, r, choice, winner) ==
  /\ \A p \in DOMAIN r : r[p].in_pri <= r[<<p[1], choice[p[1]]>>].in_pri
  /\ \A i \in Indices(c.ins) : choice[i] # None =>
       r[<<i, choice[i]>>].out_pri <= r[<<winner[choice[i]], choice[i]>>].out_pri

Accepts(c, choice, winner) ==
  [i \in Indices(c.ins) |-> IF choice[i] # None /\ winner[choice[i]] = i THEN choice[i] ELSE None]

LEMMA RoundAcceptable ==
  ASSUME NEW c, Sized(c), NEW r, NEW in, NEW out, NEW g, NEW acc, Round(c, r, in, out, g, acc)
  PROVE  Acceptable(c, r, in, out, acc)
<1>1. None \notin Indices(c.ins) /\ None \notin Indices(c.outs)
  BY NoneIsNoIndex DEF Sized
<1>2. \A i \in Indices(c.ins) : acc[i] # None => acc[i] \in Indices(c.outs) /\ g[acc[i]] # None
  BY <1>1 DEF Round
<1> QED
  BY <1>2 DEF Acceptable, Round

LEMMA ChosenAcceptable ==
  ASSUME NEW c, Sized(c), NEW r, NEW in, NEW out,
         \A i \in Indices(c.ins) : in[i] = None,
         \A o \in Indices(c.outs) : out[o] = None,
         NEW choice, NEW winner, Chosen(c, r, choice, winner)
  PROVE  Acceptable(c, r, in, out, Accepts(c, choice, winner))
<1> DEFINE acc == Accepts(c, choice, winner)
<1>1. acc \in [Indices(c.ins) -> Indices(c.outs) \cup {None}]
  BY DEF Accepts, Chosen
<1>2. \A i \in Indices(c.ins) : acc[i] # None =>
        acc[i] = choice[i] /\ winner[acc[i]] = i /\ <<i, acc[i]>> \in DOMAIN r
  BY DEF Accepts, Chosen
<1>3. \A i \in Indices(c.ins) : acc[i] # None => acc[i] \in Indices(c.outs)
  BY <1>1
<1> HIDE DEF acc
<1>4. \A i \in Indices(c.ins) : acc[i] # None =>
        in[i] = None /\ out[acc[i]] = None /\ <<i, acc[i]>> \in DOMAIN r
  BY <1>2, <1>3
<1>5. \A i, j \in Indices(c.ins) : (acc[i] # None /\ acc[i] = acc[j]) => i = j
  BY <1>2
<1>6. Acceptable(c, r, in, out, acc)
  BY <1>1, <1>4, <1>5 DEF Acceptable
<1> QED
  BY <1>6 DEF acc

LEMMA RoundGrantsSome ==
  ASSUME NEW c, Sized(c), NEW r, Pairs(c, r), NEW in, NEW out,
         \A i \in Indices(c.ins) : in[i] = None,
         \A o \in Indices(c.outs) : out[o] = None,
         NEW g, NEW acc, Round(c, r, in, out, g, acc)
  PROVE  SomeGranted(c, r, InAfter(c, in, acc))
<1> SUFFICES ASSUME NEW p \in DOMAIN r
             PROVE  \E i \in Indices(c.ins) : InAfter(c, in, acc)[i] # None
  BY DEF SomeGranted
<1>1. p[1] \in Indices(c.ins) /\ p[2] \in Indices(c.outs)
  BY DEF Pairs
<1>2. g[p[2]] # None /\ g[p[2]] \in Indices(c.ins) /\ acc[g[p[2]]] # None
  BY <1>1 DEF Round
<1> QED
  BY <1>2 DEF InAfter

(* A request as good as the preferred one at one of its ends is that one.  *)
LEMMA PreferredAlone ==
  ASSUME NEW c, NEW r, Pairs(c, r), NEW p \in DOMAIN r, Preferred(r, p), NEW q \in DOMAIN r
  PROVE  /\ q[1] = p[1] /\ r[p].in_pri <= r[q].in_pri => q = p
         /\ q[2] = p[2] /\ r[p].out_pri <= r[q].out_pri => q = p
<1>1. r[p] \in TwoPriorities /\ r[q] \in TwoPriorities
  BY DEF Pairs
<1>2. /\ r[p].in_pri \in Int /\ r[q].in_pri \in Int
      /\ r[p].out_pri \in Int /\ r[q].out_pri \in Int
  BY <1>1 DEF TwoPriorities
<1> QED
  BY <1>2 DEF Preferred

LEMMA RoundGrantsTop ==
  ASSUME NEW c, Sized(c), NEW r, Pairs(c, r), NEW in, NEW out,
         \A i \in Indices(c.ins) : in[i] = None,
         \A o \in Indices(c.outs) : out[o] = None,
         NEW g, NEW acc, Round(c, r, in, out, g, acc), Prized(c, r, g, acc)
  PROVE  TopGranted(r, InAfter(c, in, acc))
<1> SUFFICES ASSUME NEW p \in DOMAIN r, Preferred(r, p)
             PROVE  InAfter(c, in, acc)[p[1]] = p[2]
  BY DEF TopGranted
<1>1. PICK i \in Indices(c.ins), o \in Indices(c.outs) : p = <<i, o>>
  BY DEF Pairs
<1>2. None \notin Indices(c.ins) /\ None \notin Indices(c.outs)
  BY NoneIsNoIndex DEF Sized
<1>3. \A q \in DOMAIN r : /\ q[1] = i /\ r[p].in_pri <= r[q].in_pri => q = p
                          /\ q[2] = o /\ r[p].out_pri <= r[q].out_pri => q = p
  BY <1>1, PreferredAlone
<1>4. g[o] # None /\ g[o] \in Indices(c.ins) /\ <<g[o], o>> \in DOMAIN r
  BY <1>1 DEF Round
<1>5. r[p].out_pri <= r[<<g[o], o>>].out_pri
  BY <1>1, <1>4 DEF Prized
<1>6. g[o] = i
  <2>1. PICK q : q = <<g[o], o>>
    OBVIOUS
  <2>2. q \in DOMAIN r /\ q[2] = o /\ r[p].out_pri <= r[q].out_pri
    BY <1>4, <1>5, <2>1
  <2>3. q = p
    BY <1>3, <2>2
  <2> QED BY <1>1, <2>1, <2>3
<1>7. acc[i] # None /\ acc[i] \in Indices(c.outs) /\ g[acc[i]] = i
  BY <1>1, <1>4, <1>6 DEF Round
<1>8. <<i, acc[i]>> \in DOMAIN r /\ r[p].in_pri <= r[<<i, acc[i]>>].in_pri
  BY <1>1, <1>2, <1>6, <1>7 DEF Round, Prized
<1>9. acc[i] = o
  <2>1. PICK q : q = <<i, acc[i]>>
    OBVIOUS
  <2>2. q \in DOMAIN r /\ q[1] = i /\ r[p].in_pri <= r[q].in_pri
    BY <1>8, <2>1
  <2>3. q = p
    BY <1>3, <2>2
  <2> QED BY <1>1, <2>1, <2>3
<1> QED
  BY <1>1, <1>7, <1>9 DEF InAfter

LEMMA ChosenGrantsSome ==
  ASSUME NEW c, Sized(c), NEW r, Pairs(c, r), NEW in,
         NEW choice, NEW winner, Chosen(c, r, choice, winner)
  PROVE  SomeGranted(c, r, InAfter(c, in, Accepts(c, choice, winner)))
<1> DEFINE acc == Accepts(c, choice, winner)
<1> SUFFICES ASSUME NEW p \in DOMAIN r
             PROVE  \E i \in Indices(c.ins) : InAfter(c, in, acc)[i] # None
  BY DEF SomeGranted
<1>1. p[1] \in Indices(c.ins) /\ choice[p[1]] # None
  BY DEF Pairs, Chosen
<1>2. PICK w : w = winner[choice[p[1]]]
  OBVIOUS
<1>3. w \in Indices(c.ins) /\ choice[w] = choice[p[1]] /\ winner[choice[w]] = w
  BY <1>1, <1>2 DEF Chosen
<1>4. acc[w] # None
  BY <1>1, <1>3 DEF Accepts
<1> HIDE DEF acc
<1> QED
  BY <1>3, <1>4 DEF InAfter

LEMMA ChosenGrantsTop ==
  ASSUME NEW c, Sized(c), NEW r, Pairs(c, r), NEW in,
         NEW choice, NEW winner, Chosen(c, r, choice, winner), ChosenPrized(c, r, choice, winner)
  PROVE  TopGranted(r, InAfter(c, in, Accepts(c, choice, winner)))
<1> DEFINE acc == Accepts(c, choice, winner)
<1> SUFFICES ASSUME NEW p \in DOMAIN r, Preferred(r, p)
             PROVE  InAfter(c, in, acc)[p[1]] = p[2]
  BY DEF TopGranted
<1>1. PICK i \in Indices(c.ins), o \in Indices(c.outs) : p = <<i, o>>
  BY DEF Pairs
<1>2. \A q \in DOMAIN r : /\ q[1] = i /\ r[p].in_pri <= r[q].in_pri => q = p
                          /\ q[2] = o /\ r[p].out_pri <= r[q].out_pri => q = p
  BY <1>1, PreferredAlone
<1>3. choice[i] # None /\ <<i, choice[i]>> \in DOMAIN r
  BY <1>1 DEF Chosen
<1>4. r[p].in_pri <= r[<<i, choice[i]>>].in_pri
  BY <1>1 DEF ChosenPrized
<1>5. choice[i] = o
  <2>1. PICK q : q = <<i, choice[i]>>
    OBVIOUS
  <2>2. q \in DOMAIN r /\ q[1] = i /\ r[p].in_pri <= r[q].in_pri
    BY <1>3, <1>4, <2>1
  <2>3. q = p
    BY <1>2, <2>2
  <2> QED BY <1>1, <2>1, <2>3
<1>6. PICK w : w = winner[o]
  OBVIOUS
<1>7. w \in Indices(c.ins) /\ choice[w] = o
  BY <1>3, <1>5, <1>6 DEF Chosen
<1>8. <<w, o>> \in DOMAIN r
  BY <1>3, <1>5, <1>7 DEF Chosen
<1>9. r[p].out_pri <= r[<<w, o>>].out_pri
  BY <1>1, <1>3, <1>5, <1>6 DEF ChosenPrized
<1>10. w = i
  <2>1. PICK q : q = <<w, o>>
    OBVIOUS
  <2>2. q \in DOMAIN r /\ q[2] = o /\ r[p].out_pri <= r[q].out_pri
    BY <1>8, <1>9, <2>1
  <2>3. q = p
    BY <1>2, <2>2
  <2> QED BY <1>1, <2>1, <2>3
<1>11. acc[i] = o /\ o # None
  BY <1>3, <1>5, <1>6, <1>10 DEF Accepts
<1> HIDE DEF acc
<1> QED
  BY <1>1, <1>11 DEF InAfter

-----------------------------------------------------------------------------
(***************************************************************************)
(* Rounds add up: each matches an input more, or none is left to match.    *)
(***************************************************************************)
Open(r, in, out) == {p \in DOMAIN r : in[p[1]] = None /\ out[p[2]] = None}

MatchedIns(c, in) == {i \in Indices(c.ins) : in[i] # None}

Advanced(c, r, in, out, k) == Open(r, in, out) # {} => Cardinality(MatchedIns(c, in)) >= k

LEMMA IndicesFinite ==
  ASSUME NEW n \in Nat
  PROVE  IsFiniteSet(Indices(n)) /\ Cardinality(Indices(n)) = n
<1>1. n - 1 \in Int
  OBVIOUS
<1>2. IsFiniteSet(0 .. n - 1)
      /\ Cardinality(0 .. n - 1) = IF 0 > n - 1 THEN 0 ELSE (n - 1) - 0 + 1
  BY <1>1, FS_Interval
<1> QED
  BY <1>2 DEF Indices

LEMMA RoundAdvances ==
  ASSUME NEW c, Sized(c), NEW r, Pairs(c, r), NEW in, NEW out,
         NEW g, NEW acc, Round(c, r, in, out, g, acc),
         NEW k \in Nat, Advanced(c, r, in, out, k)
  PROVE  Advanced(c, r, InAfter(c, in, acc), OutAfter(c, out, acc), k + 1)
<1> DEFINE in2 == InAfter(c, in, acc)
           out2 == OutAfter(c, out, acc)
<1> SUFFICES ASSUME NEW p \in Open(r, in2, out2)
             PROVE  Cardinality(MatchedIns(c, in2)) >= k + 1
  BY DEF Advanced
<1>1. None \notin Indices(c.ins) /\ None \notin Indices(c.outs)
  BY NoneIsNoIndex DEF Sized
<1>2. PICK i \in Indices(c.ins), o \in Indices(c.outs) : p = <<i, o>>
  BY DEF Pairs, Open
<1>3. p \in DOMAIN r /\ in2[i] = None /\ out2[o] = None
  BY <1>2 DEF Open
<1>4. \A j \in Indices(c.ins) : in2[j] = IF acc[j] # None THEN acc[j] ELSE in[j]
  BY DEF InAfter
<1>5. in[i] = None /\ acc[i] = None
  BY <1>3, <1>4
<1>6. out[o] = None
  <2>1. out2[o] = IF {j \in Indices(c.ins) : acc[j] = o} # {}
                  THEN CHOOSE j \in Indices(c.ins) : acc[j] = o ELSE out[o]
    BY DEF OutAfter
  <2>2. CASE \E j \in Indices(c.ins) : acc[j] = o
    <3>1. (CHOOSE j \in Indices(c.ins) : acc[j] = o) \in Indices(c.ins)
      BY <2>2
    <3> QED BY <1>1, <1>3, <2>1, <2>2, <3>1
  <2>3. CASE ~ \E j \in Indices(c.ins) : acc[j] = o
    BY <1>3, <2>1, <2>3
  <2> QED BY <2>2, <2>3
<1> HIDE DEF in2, out2
<1>7. Cardinality(MatchedIns(c, in)) >= k
  BY <1>2, <1>3, <1>5, <1>6 DEF Advanced, Open
<1>8. PICK j \in Indices(c.ins) : in[j] = None /\ acc[j] # None
  <2>1. g[o] # None /\ g[o] \in Indices(c.ins) /\ in[g[o]] = None /\ acc[g[o]] # None
    BY <1>2, <1>3, <1>5, <1>6 DEF Round
  <2> QED BY <2>1
<1>9. MatchedIns(c, in) \in SUBSET MatchedIns(c, in2)
  BY <1>4 DEF MatchedIns
<1>10. j \in MatchedIns(c, in2) /\ j \notin MatchedIns(c, in)
  BY <1>4, <1>8 DEF MatchedIns
<1>11. IsFiniteSet(MatchedIns(c, in2)) /\ IsFiniteSet(MatchedIns(c, in))
  <2>1. IsFiniteSet(Indices(c.ins))
    BY IndicesFinite DEF Sized
  <2> QED BY <2>1, FS_Subset DEF MatchedIns
<1>12. Cardinality(MatchedIns(c, in)) <= Cardinality(MatchedIns(c, in2))
       /\ Cardinality(MatchedIns(c, in)) # Cardinality(MatchedIns(c, in2))
  BY <1>9, <1>10, <1>11, FS_Subset
<1>13. Cardinality(MatchedIns(c, in)) \in Nat /\ Cardinality(MatchedIns(c, in2)) \in Nat
  BY <1>11, FS_CardinalityType
<1> QED
  BY <1>7, <1>12, <1>13

(* As many rounds as the smaller side has ends match all that can be.      *)
LEMMA AdvancedToEnd ==
  ASSUME NEW c, Sized(c), NEW r, Pairs(c, r), NEW in, NEW out, Sound(c, r, in, out),
         NEW k \in Nat, Advanced(c, r, in, out, k), k >= c.ins \/ k >= c.outs
  PROVE  Open(r, in, out) = {}
<1> SUFFICES ASSUME NEW p \in Open(r, in, out) PROVE FALSE
  OBVIOUS
<1> DEFINE M == MatchedIns(c, in)
           N == {o \in Indices(c.outs) : out[o] # None}
           f == [i \in M |-> in[i]]
<1>1. None \notin Indices(c.ins) /\ None \notin Indices(c.outs)
  BY NoneIsNoIndex DEF Sized
<1>2. /\ p[1] \in Indices(c.ins) /\ in[p[1]] = None
      /\ p[2] \in Indices(c.outs) /\ out[p[2]] = None
  BY DEF Pairs, Open
<1>3. Cardinality(M) >= k
  BY DEF Advanced
<1>4. /\ IsFiniteSet(Indices(c.ins)) /\ Cardinality(Indices(c.ins)) = c.ins
      /\ IsFiniteSet(Indices(c.outs)) /\ Cardinality(Indices(c.outs)) = c.outs
  BY IndicesFinite DEF Sized
<1>5. M \in SUBSET Indices(c.ins) /\ p[1] \notin M
  BY <1>2 DEF MatchedIns
<1>6. IsFiniteSet(M) /\ Cardinality(M) <= c.ins /\ Cardinality(M) # c.ins /\ Cardinality(M) \in Nat
  <2> HIDE DEF M
  <2> QED BY <1>2, <1>4, <1>5, FS_Subset, FS_CardinalityType
<1>7. N \in SUBSET Indices(c.outs) /\ p[2] \notin N
  BY <1>2
<1>8. IsFiniteSet(N) /\ Cardinality(N) <= c.outs /\ Cardinality(N) # c.outs /\ Cardinality(N) \in Nat
  <2> HIDE DEF N
  <2> QED BY <1>2, <1>4, <1>7, FS_Subset, FS_CardinalityType
<1>9. f \in Injection(M, N)
  <2>1. \A i \in M : f[i] \in N /\ out[f[i]] = i
    <3> TAKE i \in M
    <3>1. i \in Indices(c.ins) /\ in[i] \in Indices(c.outs)
      BY DEF MatchedIns, Sound
    <3>2. out[in[i]] = i
      BY <3>1 DEF Sound
    <3> QED BY <1>1, <3>1, <3>2
  <2>2. f \in [M -> N]
    BY <2>1
  <2>3. \A i, j \in M : f[i] = f[j] => i = j
    BY <2>1
  <2> HIDE DEF f, M, N
  <2> QED BY <2>2, <2>3 DEF Injection, IsInjective
<1>10. Cardinality(M) <= Cardinality(N)
  <2> HIDE DEF f, M, N
  <2> QED BY <1>8, <1>9, FS_Injection
<1> HIDE DEF f, M, N
<1> QED
  BY <1>3, <1>6, <1>8, <1>10 DEF Sized

-----------------------------------------------------------------------------
(***************************************************************************)
(* The order in which a wavefront reaches requests: a level for each pair  *)
(* of priorities, highest first, and the diagonals of the square from d on.*)
(***************************************************************************)
LevelsOf(r) == {r[p] : p \in DOMAIN r}

Above(r, v) == {u \in LevelsOf(r) : Exceeds(u, v)}

Rank(r, v) == Cardinality(Above(r, v))

Behind(p, d, n) == (p[1] + p[2] - d) % n

(* Reached in one of the first k passes. *)
Reached(r, d, n, k, p) ==
  \/ Rank(r, r[p]) < k \div n
  \/ Rank(r, r[p]) = k \div n /\ Behind(p, d, n) < k % n

Sooner(r, d, n, q, p) ==
  \/ Rank(r, r[q]) < Rank(r, r[p])
  \/ Rank(r, r[q]) = Rank(r, r[p]) /\ Behind(q, d, n) < Behind(p, d, n)

ShareEnd(p, q) == p[1] = q[1] \/ p[2] = q[2]

(* After k passes: only requests that were reached are granted, and one    *)
(* that was reached is granted, or lost an end to one reached sooner.      *)
Swept(r, in, d, n, k) ==
  /\ \A q \in DOMAIN r : in[q[1]] = q[2] => Reached(r, d, n, k, q)
  /\ \A p \in DOMAIN r : Reached(r, d, n, k, p) =>
       \E q \in DOMAIN r : in[q[1]] = q[2] /\ ShareEnd(p, q) /\ (q = p \/ Sooner(r, d, n, q, p))

(* What is left of it in the end. *)
Served(r, in) ==
  \A p \in DOMAIN r : \E q \in DOMAIN r : in[q[1]] = q[2] /\ ShareEnd(p, q) /\ ~Exceeds(r[p], r[q])

LevelAt(r, m) == CHOOSE v \in LevelsOf(r) : Rank(r, v) = m

(* The requests a pass grants. *)
FrontOf(r, in, out, d, n, k) ==
  {p \in DOMAIN r : /\ (p[1] + p[2]) % n = (d + k) % n /\ r[p] = LevelAt(r, k \div n)
                    /\ in[p[1]] = None /\ out[p[2]] = None}

(* The diagonal k after d is that of what lies k behind d.                 *)
LEMMA OnDiagonal ==
  ASSUME NEW p, p[1] \in Int, p[2] \in Int, NEW d \in Int, NEW k \in Nat, NEW n \in Nat \ {0}
  PROVE  (p[1] + p[2]) % n = (d + k) % n <=> Behind(p, d, n) = k % n
<1>1. PICK x \in Int : x = p[1] + p[2]
  OBVIOUS
<1>2. PICK u \in Nat : u = (x - d) % n /\ u < n
  <2>1. x - d \in Int
    OBVIOUS
  <2> QED BY <2>1, Residue
<1>3. PICK v \in Nat : v = k % n /\ v < n
  <2>1. k \in Int
    OBVIOUS
  <2> QED BY <2>1, Residue
<1>4. (d + u) % n = x % n
  BY <1>2, RoundTrip
<1>5. (d + v) % n = (d + k) % n
  <2>1. PICK z \in Int : z = d + k
    OBVIOUS
  <2>2. (d + ((z - d) % n)) % n = z % n
    BY RoundTrip
  <2>3. z - d = k
    BY <2>1
  <2> QED BY <1>3, <2>1, <2>2, <2>3
<1>6. ASSUME x % n = (d + k) % n
      PROVE  u = v
  <2>1. (d + u) % n = (d + v) % n
    BY <1>4, <1>5, <1>6
  <2>2. (d + u) - (d + v) < n /\ (d + v) - (d + u) < n /\ d + u \in Int /\ d + v \in Int
    BY <1>2, <1>3
  <2>3. d + u = d + v
    BY <2>1, <2>2, SameResidue
  <2> QED BY <1>2, <1>3, <2>3
<1>7. ASSUME u = v
      PROVE  x % n = (d + k) % n
  BY <1>4, <1>5, <1>7
<1>8. Behind(p, d, n) = u
  BY <1>1, <1>2 DEF Behind
<1> QED
  BY <1>1, <1>3, <1>6, <1>7, <1>8

(* Levels have ranks from 0 on, the higher the priority the lower.         *)
Graded(r) == IsFiniteSet(DOMAIN r) /\ \A p \in DOMAIN r : r[p] \in TwoPriorities

LEMMA ExceedsOrders ==
  ASSUME NEW u \in TwoPriorities, NEW v \in TwoPriorities
  PROVE  /\ ~Exceeds(u, u)
         /\ Exceeds(u, v) => ~Exceeds(v, u)
         /\ ~Exceeds(u, v) /\ ~Exceeds(v, u) => u = v
         /\ \A w \in TwoPriorities : Exceeds(w, u) /\ Exceeds(u, v) => Exceeds(w, v)
         /\ \A w \in TwoPriorities : Exceeds(w, v) /\ ~Exceeds(u, v) => Exceeds(w, u)
<1>1. u.in_pri \in Int /\ u.out_pri \in Int /\ v.in_pri \in Int /\ v.out_pri \in Int
  BY DEF TwoPriorities
<1>2. \A w \in TwoPriorities : w.in_pri \in Int /\ w.out_pri \in Int
  BY DEF TwoPriorities
<1>3. u.in_pri = v.in_pri /\ u.out_pri = v.out_pri => u = v
  BY DEF TwoPriorities
<1>4. /\ ~Exceeds(u, u)
      /\ Exceeds(u, v) => ~Exceeds(v, u)
      /\ ~Exceeds(u, v) /\ ~Exceeds(v, u) => u = v
  BY <1>1, <1>3 DEF Exceeds
<1>5. ASSUME NEW w \in TwoPriorities
      PROVE  /\ Exceeds(w, u) /\ Exceeds(u, v) => Exceeds(w, v)
             /\ Exceeds(w, v) /\ ~Exceeds(u, v) => Exceeds(w, u)
  BY <1>1, <1>2 DEF Exceeds
<1> QED
  BY <1>4, <1>5

LEMMA LevelsFinite ==
  ASSUME NEW r, Graded(r)
  PROVE  /\ IsFiniteSet(LevelsOf(r)) /\ Cardinality(LevelsOf(r)) \in Nat /\ LevelsOf(r) \subseteq TwoPriorities
         /\ \A v \in LevelsOf(r) : IsFiniteSet(Above(r, v)) /\ Rank(r, v) \in Nat
         /\ DOMAIN r # {} => Cardinality(LevelsOf(r)) > 0
<1> DEFINE f == [p \in DOMAIN r |-> r[p]]
<1>1. f \in Surjection(DOMAIN r, LevelsOf(r))
  BY DEF LevelsOf, Surjection
<1>2. IsFiniteSet(LevelsOf(r))
  <2> HIDE DEF f
  <2> QED BY <1>1, FS_Surjection DEF Graded
<1>3. ASSUME NEW v \in LevelsOf(r)
      PROVE  IsFiniteSet(Above(r, v)) /\ Rank(r, v) \in Nat
  <2>1. Above(r, v) \in SUBSET LevelsOf(r)
    BY DEF Above
  <2> QED BY <1>2, <2>1, FS_Subset, FS_CardinalityType DEF Rank
<1>4. LevelsOf(r) \subseteq TwoPriorities
  BY DEF LevelsOf, Graded
<1>5. Cardinality(LevelsOf(r)) \in Nat
  BY <1>2, FS_CardinalityType
<1>6. ASSUME DOMAIN r # {}
      PROVE  Cardinality(LevelsOf(r)) > 0
  <2>1. LevelsOf(r) # {}
    BY <1>6 DEF LevelsOf
  <2>2. Cardinality(LevelsOf(r)) # 0
    BY <1>2, <2>1, FS_EmptySet
  <2> QED BY <1>5, <2>2
<1> QED
  BY <1>2, <1>3, <1>4, <1>5, <1>6

LEMMA RankOrder ==
  ASSUME NEW r, Graded(r), NEW u \in LevelsOf(r), NEW v \in LevelsOf(r)
  PROVE  Exceeds(u, v) <=> Rank(r, u) < Rank(r, v)
<1>1. /\ u \in TwoPriorities /\ v \in TwoPriorities /\ LevelsOf(r) \subseteq TwoPriorities
      /\ IsFiniteSet(Above(r, u)) /\ Rank(r, u) \in Nat
      /\ IsFiniteSet(Above(r, v)) /\ Rank(r, v) \in Nat
  BY LevelsFinite
<1>2. ASSUME Exceeds(u, v)
      PROVE  Rank(r, u) < Rank(r, v)
  <2>1. Above(r, u) \in SUBSET Above(r, v) /\ u \in Above(r, v) /\ u \notin Above(r, u)
    BY <1>1, <1>2, ExceedsOrders DEF Above
  <2>2. Cardinality(Above(r, u)) <= Cardinality(Above(r, v))
        /\ Cardinality(Above(r, u)) # Cardinality(Above(r, v))
    BY <1>1, <2>1, FS_Subset
  <2> QED BY <1>1, <2>2 DEF Rank
<1>3. ASSUME ~Exceeds(u, v)
      PROVE  ~(Rank(r, u) < Rank(r, v))
  <2>1. Above(r, v) \in SUBSET Above(r, u)
    BY <1>1, <1>3, ExceedsOrders DEF Above
  <2>2. Cardinality(Above(r, v)) <= Cardinality(Above(r, u))
    BY <1>1, <2>1, FS_Subset
  <2> QED BY <1>1, <2>2 DEF Rank
<1> QED
  BY <1>2, <1>3

LEMMA Ranked ==
  ASSUME NEW r, Graded(r)
  PROVE  /\ \A v \in LevelsOf(r) : Rank(r, v) < Cardinality(LevelsOf(r))
         /\ \A m \in 0 .. Cardinality(LevelsOf(r)) - 1 : \E v \in LevelsOf(r) : Rank(r, v) = m
<1> DEFINE L == LevelsOf(r)
           N == Indices(Cardinality(L))
           f == [v \in L |-> Rank(r, v)]
<1>1. IsFiniteSet(L) /\ Cardinality(L) \in Nat /\ L \subseteq TwoPriorities
  BY LevelsFinite
<1>2. ASSUME NEW v \in L
      PROVE  Rank(r, v) \in Nat /\ Rank(r, v) < Cardinality(L)
  <2>1. Above(r, v) \in SUBSET L /\ v \notin Above(r, v)
    BY <1>1, ExceedsOrders DEF Above
  <2>2. Cardinality(Above(r, v)) <= Cardinality(L) /\ Cardinality(Above(r, v)) # Cardinality(L)
    BY <1>1, <2>1, FS_Subset
  <2>3. Rank(r, v) \in Nat
    BY LevelsFinite
  <2> QED BY <1>1, <2>2, <2>3 DEF Rank
<1>3. IsFiniteSet(N) /\ Cardinality(N) = Cardinality(L)
  BY <1>1, IndicesFinite
<1>4. f \in Injection(L, N)
  <2>1. \A v \in L : f[v] \in N
    BY <1>1, <1>2 DEF Indices
  <2>2. ASSUME NEW u \in L, NEW v \in L, f[u] = f[v]
        PROVE  u = v
    <3>1. Rank(r, u) = Rank(r, v) /\ u \in TwoPriorities /\ v \in TwoPriorities /\ Rank(r, u) \in Nat
      BY <1>1, <1>2, <2>2
    <3>2. ~Exceeds(u, v) /\ ~Exceeds(v, u)
      BY <3>1, RankOrder
    <3> QED BY <3>1, <3>2, ExceedsOrders
  <2>3. f \in [L -> N]
    BY <2>1
  <2> HIDE DEF f, L, N
  <2> QED BY <2>2, <2>3 DEF Injection, IsInjective
<1>5. f \in Surjection(L, N)
  <2> HIDE DEF f, L, N
  <2> QED BY <1>1, <1>3, <1>4, FS_Injection
<1>6. \A m \in N : \E v \in L : f[v] = m
  <2> HIDE DEF f, L, N
  <2> QED BY <1>5 DEF Surjection
<1>7. \A m \in 0 .. Cardinality(L) - 1 : \E v \in L : Rank(r, v) = m
  BY <1>6 DEF Indices
<1> QED
  BY <1>2, <1>7

(* The level of a pass is the one of its rank. *)
LEMMA LevelHasRank ==
  ASSUME NEW r, Graded(r), NEW m \in Nat, m < Cardinality(LevelsOf(r))
  PROVE  /\ LevelAt(r, m) \in LevelsOf(r) /\ Rank(r, LevelAt(r, m)) = m
         /\ \A v \in LevelsOf(r) : Rank(r, v) = m => v = LevelAt(r, m)
<1>1. PICK w \in LevelsOf(r) : Rank(r, w) = m
  <2>1. m \in 0 .. Cardinality(LevelsOf(r)) - 1
    BY LevelsFinite
  <2> QED BY <2>1, Ranked
<1>2. LevelAt(r, m) \in LevelsOf(r) /\ Rank(r, LevelAt(r, m)) = m
  BY <1>1 DEF LevelAt
<1>3. ASSUME NEW v \in LevelsOf(r), Rank(r, v) = m
      PROVE  v = LevelAt(r, m)
  <2>1. PICK u \in LevelsOf(r) : u = LevelAt(r, m)
    BY <1>2
  <2>2. ~Exceeds(u, v) /\ ~Exceeds(v, u)
    BY <1>2, <1>3, <2>1, RankOrder
  <2>3. u \in TwoPriorities /\ v \in TwoPriorities
    BY LevelsFinite
  <2> QED BY <2>1, <2>2, <2>3, ExceedsOrders
<1> QED
  BY <1>2, <1>3
(* One more pass reaches one more diagonal of one level.                   *)
LEMMA ReachedNext ==
  ASSUME NEW r, Graded(r), NEW d \in Int, NEW n \in Nat \ {0}, NEW k \in Nat,
         NEW p \in DOMAIN r, p[1] \in Int, p[2] \in Int
  PROVE  Reached(r, d, n, k + 1, p) <=>
           \/ Reached(r, d, n, k, p)
           \/ Rank(r, r[p]) = k \div n /\ Behind(p, d, n) = k % n
<1>1. PICK x \in Nat : x = Rank(r, r[p])
  <2>1. r[p] \in LevelsOf(r)
    BY DEF LevelsOf
  <2> QED BY <2>1, LevelsFinite
<1>2. PICK y \in Nat : y = Behind(p, d, n) /\ y < n
  <2>1. p[1] + p[2] - d \in Int
    OBVIOUS
  <2> QED BY <2>1, Residue DEF Behind
<1>3. PICK q \in Int : q = k \div n
  OBVIOUS
<1>4. PICK a \in Nat : a = k % n /\ a < n
  BY Residue
<1>5. \/ (k + 1) \div n = q /\ (k + 1) % n = a + 1
      \/ (k + 1) \div n = q + 1 /\ (k + 1) % n = 0 /\ a + 1 = n
  BY <1>3, <1>4, NextPass
<1>6. Reached(r, d, n, k, p) <=> (x < q \/ (x = q /\ y < a))
  BY <1>1, <1>2, <1>3, <1>4 DEF Reached
<1>7. Reached(r, d, n, k + 1, p) <=> (x < q \/ (x = q /\ y <= a))
  <2>1. CASE (k + 1) \div n = q /\ (k + 1) % n = a + 1
    <3>1. Reached(r, d, n, k + 1, p) <=> (x < q \/ (x = q /\ y < a + 1))
      BY <1>1, <1>2, <2>1 DEF Reached
    <3> QED BY <1>2, <1>4, <3>1
  <2>2. CASE (k + 1) \div n = q + 1 /\ (k + 1) % n = 0 /\ a + 1 = n
    <3>1. Reached(r, d, n, k + 1, p) <=> (x < q + 1 \/ (x = q + 1 /\ y < 0))
      BY <1>1, <1>2, <2>2 DEF Reached
    <3> QED BY <1>1, <1>2, <1>3, <1>4, <2>2, <3>1
  <2> QED BY <1>5, <2>1, <2>2
<1> QED
  BY <1>1, <1>2, <1>3, <1>4, <1>6, <1>7

LEMMA SweepStarts ==
  ASSUME NEW c, Sized(c), NEW r, Pairs(c, r), Graded(r), NEW in,
         \A i \in Indices(c.ins) : in[i] = None, NEW d \in Int, NEW n \in Nat \ {0}
  PROVE  Swept(r, in, d, n, 0)
<1>1. None \notin Indices(c.outs) /\ Indices(c.ins) \subseteq Nat /\ Indices(c.outs) \subseteq Nat
  BY NoneIsNoIndex DEF Sized
<1>2. \A q \in DOMAIN r : in[q[1]] # q[2] /\ q[1] \in Int /\ q[2] \in Int
  BY <1>1 DEF Pairs
<1>3. ASSUME NEW p \in DOMAIN r
      PROVE  ~Reached(r, d, n, 0, p)
  <2>1. r[p] \in LevelsOf(r)
    BY DEF LevelsOf
  <2>2. Rank(r, r[p]) \in Nat
    BY <2>1, LevelsFinite
  <2>3. p[1] + p[2] - d \in Int
    BY <1>2
  <2>4. Behind(p, d, n) \in Nat
    BY <2>3, Residue DEF Behind
  <2>5. 0 \div n = 0 /\ 0 % n = 0
    OBVIOUS
  <2> QED BY <2>2, <2>4, <2>5 DEF Reached
<1> QED
  BY <1>2, <1>3 DEF Swept

LEMMA SweepGoesOn ==
  ASSUME NEW c, Sized(c), NEW r, Pairs(c, r), Graded(r), NEW in, NEW out, Sound(c, r, in, out),
         NEW d \in Int, NEW n \in Nat \ {0},
         NEW k \in Nat, k < n * Cardinality(LevelsOf(r)), Swept(r, in, d, n, k), NEW in2,
         \A p \in DOMAIN r :
           in2[p[1]] = p[2] <=> in[p[1]] = p[2] \/ p \in FrontOf(r, in, out, d, n, k)
  PROVE  Swept(r, in2, d, n, k + 1)
<1> DEFINE F == FrontOf(r, in, out, d, n, k)
           Now(p) == Rank(r, r[p]) = k \div n /\ Behind(p, d, n) = k % n
<1>1. Indices(c.ins) \subseteq Nat /\ Indices(c.outs) \subseteq Nat
  BY NoneIsNoIndex DEF Sized
<1>2. \A p \in DOMAIN r : p[1] \in Indices(c.ins) /\ p[2] \in Indices(c.outs) /\ p = <<p[1], p[2]>>
  BY DEF Pairs
<1>3. \A p \in DOMAIN r : p[1] \in Int /\ p[2] \in Int
  BY <1>1, <1>2
<1>4. k \div n \in Nat /\ k \div n < Cardinality(LevelsOf(r))
  BY LevelsFinite, LevelLeft
<1>5. /\ Rank(r, LevelAt(r, k \div n)) = k \div n
      /\ \A v \in LevelsOf(r) : Rank(r, v) = k \div n => v = LevelAt(r, k \div n)
  BY <1>4, LevelHasRank
<1>6. ASSUME NEW p \in DOMAIN r
      PROVE  /\ r[p] = LevelAt(r, k \div n) <=> Rank(r, r[p]) = k \div n
             /\ (p[1] + p[2]) % n = (d + k) % n <=> Behind(p, d, n) = k % n
  <2>1. r[p] \in LevelsOf(r)
    BY DEF LevelsOf
  <2>2. r[p] = LevelAt(r, k \div n) <=> Rank(r, r[p]) = k \div n
    BY <1>5, <2>1
  <2>3. (p[1] + p[2]) % n = (d + k) % n <=> Behind(p, d, n) = k % n
    BY <1>3, OnDiagonal
  <2> QED BY <2>2, <2>3
<1>7. \A p \in DOMAIN r : p \in F <=> Now(p) /\ in[p[1]] = None /\ out[p[2]] = None
  BY <1>6 DEF FrontOf
<1>8. \A p \in DOMAIN r : Reached(r, d, n, k + 1, p) <=> Reached(r, d, n, k, p) \/ Now(p)
  BY <1>3, ReachedNext
<1>9. \A p, q \in DOMAIN r : Reached(r, d, n, k, q) /\ Now(p) => Sooner(r, d, n, q, p)
  BY DEF Reached, Sooner
<1> HIDE DEF F, Now
<1>10. ASSUME NEW q \in DOMAIN r, in2[q[1]] = q[2]
       PROVE  Reached(r, d, n, k + 1, q)
  <2>1. in[q[1]] = q[2] \/ q \in F
    BY <1>10 DEF F
  <2> QED BY <1>7, <1>8, <2>1 DEF Swept
<1>11. ASSUME NEW p \in DOMAIN r, Reached(r, d, n, k + 1, p)
       PROVE  \E q \in DOMAIN r : in2[q[1]] = q[2] /\ ShareEnd(p, q)
                                  /\ (q = p \/ Sooner(r, d, n, q, p))
  <2>1. CASE Reached(r, d, n, k, p)
    <3>1. PICK q \in DOMAIN r : in[q[1]] = q[2] /\ ShareEnd(p, q)
                                /\ (q = p \/ Sooner(r, d, n, q, p))
      BY <2>1 DEF Swept
    <3>2. in2[q[1]] = q[2]
      BY <3>1
    <3> QED BY <3>1, <3>2
  <2>2. CASE Now(p) /\ in[p[1]] = None /\ out[p[2]] = None
    <3>1. in2[p[1]] = p[2]
      BY <1>7, <2>2 DEF F
    <3> QED BY <3>1 DEF ShareEnd
  <2>3. CASE Now(p) /\ in[p[1]] # None
    <3>1. PICK q : q = <<p[1], in[p[1]]>>
      OBVIOUS
    <3>2. q \in DOMAIN r /\ q[1] = p[1] /\ in[q[1]] = q[2]
      BY <1>2, <2>3, <3>1 DEF Sound
    <3>3. Reached(r, d, n, k, q) /\ in2[q[1]] = q[2]
      BY <3>2 DEF Swept
    <3> QED BY <1>9, <2>3, <3>2, <3>3 DEF ShareEnd
  <2>4. CASE Now(p) /\ out[p[2]] # None
    <3>1. PICK i : i = out[p[2]]
      OBVIOUS
    <3>2. i \in Indices(c.ins) /\ in[i] = p[2]
      BY <1>2, <2>4, <3>1 DEF Sound
    <3>3. p[2] # None
      BY <1>1, <1>2, NoneIsNoIndex DEF Sized
    <3>4. PICK q : q = <<i, p[2]>>
      OBVIOUS
    <3>5. q \in DOMAIN r /\ q[2] = p[2] /\ in[q[1]] = q[2]
      BY <3>2, <3>3, <3>4 DEF Sound
    <3>6. Reached(r, d, n, k, q) /\ in2[q[1]] = q[2]
      BY <3>5 DEF Swept
    <3> QED BY <1>9, <2>4, <3>5, <3>6 DEF ShareEnd
  <2> QED BY <1>8, <1>11, <2>1, <2>2, <2>3, <2>4
<1> QED
  BY <1>10, <1>11 DEF Swept

LEMMA AllReached ==
  ASSUME NEW r, Graded(r), NEW d, NEW n \in Nat \ {0}, NEW p \in DOMAIN r
  PROVE  Reached(r, d, n, n * Cardinality(LevelsOf(r)), p)
<1>1. r[p] \in LevelsOf(r)
  BY DEF LevelsOf
<1>2. Rank(r, r[p]) < Cardinality(LevelsOf(r)) /\ Cardinality(LevelsOf(r)) \in Nat
  BY <1>1, Ranked, LevelsFinite
<1>3. (n * Cardinality(LevelsOf(r))) \div n = Cardinality(LevelsOf(r))
  BY <1>2, AllPasses
<1> QED
  BY <1>2, <1>3 DEF Reached

LEMMA SweptServes ==
  ASSUME NEW r, Graded(r), NEW in, NEW d, NEW n \in Nat \ {0},
         Swept(r, in, d, n, n * Cardinality(LevelsOf(r)))
  PROVE  Served(r, in)
<1> SUFFICES ASSUME NEW p \in DOMAIN r
             PROVE  \E q \in DOMAIN r : in[q[1]] = q[2] /\ ShareEnd(p, q) /\ ~Exceeds(r[p], r[q])
  BY DEF Served
<1>1. PICK q \in DOMAIN r : in[q[1]] = q[2] /\ ShareEnd(p, q) /\ (q = p \/ Sooner(r, d, n, q, p))
  BY AllReached DEF Swept
<1>2. r[p] \in LevelsOf(r) /\ r[q] \in LevelsOf(r) /\ r[p] \in TwoPriorities /\ r[q] \in TwoPriorities
  BY DEF LevelsOf, Graded
<1>3. Sooner(r, d, n, q, p) => ~Exceeds(r[p], r[q])
  <2>1. Rank(r, r[p]) \in Nat /\ Rank(r, r[q]) \in Nat
    BY <1>2, LevelsFinite
  <2>2. Exceeds(r[p], r[q]) <=> Rank(r, r[p]) < Rank(r, r[q])
    BY <1>2, RankOrder
  <2> QED BY <2>1, <2>2 DEF Sooner
<1> QED
  BY <1>1, <1>2, <1>3, ExceedsOrders

-----------------------------------------------------------------------------
(***************************************************************************)
(* The inductive invariant.                                                *)
(***************************************************************************)
InScope(c) == c.alloc # "max_size" /\ (c.alloc = "select" => c.iters = 1)

Tables ==
  /\ phase \in {"idle", "allocate", "done"} /\ pass \in Nat
  /\ DOMAIN req \subseteq Ins \X Outs /\ \A p \in DOMAIN req : req[p] \in Priorities
  /\ grants \in [Outs -> Ins \cup {None}]
  /\ diag \in 0 .. Square - 1

(* Arbiters and pointers are what their kind makes them.                   *)
Remembers(c, p) ==
  /\ c.alloc \in Separable =>
       /\ \A i \in Indices(c.ins) : Prepared(c.arb, p.in[i], c.outs)
       /\ \A o \in Indices(c.outs) : Prepared(c.arb, p.out[o], c.ins)
  /\ c.alloc \notin Separable =>
       /\ \A i \in Indices(c.ins) : p.in[i] \in Int
       /\ \A o \in Indices(c.outs) : p.out[o] \in Int

(* Before the first pass nothing is matched.                               *)
Fresh ==
  phase = "idle" \/ (phase = "allocate" /\ pass = 0) =>
    /\ \A i \in Ins : inmatch[i] = None
    /\ \A o \in Outs : outmatch[o] = None /\ grants[o] = None

Rounds == {"islip", "pim"}

Several == ~(Cardinality(DOMAIN req) <= 1)

(* Who makes a second pass, and with which requests.                       *)
OnlyPass ==
  /\ phase = "idle" => pass = 0
  /\ phase = "allocate" /\ pass # 0 =>
       cfg.alloc \in Rounds \/ (cfg.alloc \in Wavefronts /\ Several)

(* How far the passes have got, and what they come to.                     *)
Progress ==
  /\ phase = "allocate" =>
       /\ cfg.alloc \in Rounds =>
            pass < cfg.iters /\ Advanced(cfg, req, inmatch, outmatch, pass)
       /\ cfg.alloc \in Wavefronts /\ Several =>
            /\ pass < Square * Cardinality(LevelsOf(req))
            /\ Swept(req, inmatch, diag, Square, pass)
  /\ phase = "done" =>
       /\ cfg.alloc \in Rounds => Advanced(cfg, req, inmatch, outmatch, cfg.iters)
       /\ cfg.alloc \in Separable \cup {"select", "loa"} => SomeGranted(cfg, req, inmatch)
       /\ cfg.alloc \in Separable \cup {"select"} => TopGranted(req, inmatch)
       /\ cfg.alloc \in Wavefronts => Served(req, inmatch)

ScopeInv ==
  /\ Tables /\ Sound(cfg, req, inmatch, outmatch) /\ Remembers(cfg, ptr)
  /\ Fresh /\ OnlyPass /\ Progress

AllocInv == cfg \in Configs /\ (InScope(cfg) => ScopeInv)

(* What each kind's pass keeps, and what it comes to.                      *)
Kept ==
  /\ Sound(cfg, req, inmatch', outmatch')
  /\ Remembers(cfg, ptr')
  /\ grants' \in [Outs -> Ins \cup {None}]
  /\ diag' \in 0 .. Square - 1

Progressed ==
  /\ cfg.alloc \in Rounds => Advanced(cfg, req, inmatch', outmatch', pass + 1)
  /\ cfg.alloc \in Separable \cup {"select", "loa"} => SomeGranted(cfg, req, inmatch')
  /\ cfg.alloc \in Separable \cup {"select"} => TopGranted(req, inmatch')
  /\ cfg.alloc \in Wavefronts =>
       IF Several THEN Swept(req, inmatch', diag, Square, pass + 1) ELSE Served(req, inmatch')

LEMMA ConfigTypes ==
  ASSUME cfg \in Configs
  PROVE  /\ Sized(cfg) /\ cfg.alloc \in Kinds /\ cfg.arb \in Arbs /\ cfg.iters \in Nat \ {0}
         /\ (\A i \in Ins : i \in Nat) /\ (\A o \in Outs : o \in Nat) /\ None \notin Ins /\ None \notin Outs
         /\ Square \in Nat \ {0} /\ cfg.pris \subseteq Int
         /\ Ins = Indices(cfg.ins) /\ Outs = Indices(cfg.outs)
         /\ cfg.ins \in Nat \ {0} /\ cfg.outs \in Nat \ {0}
<1>1. Sized(cfg) /\ cfg.alloc \in Kinds /\ cfg.arb \in Arbs /\ cfg.iters \in Nat \ {0}
      /\ cfg.pris \subseteq Int
  BY ConfigAssumption DEF Sized, Arbs
<1>2. /\ \A i \in Indices(cfg.ins) : i \in Nat
      /\ \A o \in Indices(cfg.outs) : o \in Nat
      /\ None \notin Indices(cfg.ins) /\ None \notin Indices(cfg.outs)
  BY <1>1, NoneIsNoIndex DEF Sized
<1> QED
  BY <1>1, <1>2 DEF Sized, Ins, Outs, Square

(* The requests of a cycle. *)
LEMMA RequestsOf ==
  ASSUME NEW c \in Configs, NEW r, DOMAIN r \subseteq Indices(c.ins) \X Indices(c.outs),
         \A p \in DOMAIN r : r[p] \in [in_pri : c.pris, out_pri : c.pris]
  PROVE  Pairs(c, r) /\ IsFiniteSet(DOMAIN r) /\ Graded(r)
<1>1. c.ins \in Nat /\ c.outs \in Nat /\ c.pris \subseteq Int
  BY ConfigAssumption
<1>2. IsFiniteSet(Indices(c.ins)) /\ IsFiniteSet(Indices(c.outs))
  BY <1>1, IndicesFinite
<1>3. IsFiniteSet(Indices(c.ins) \X Indices(c.outs))
  BY <1>2, FS_Product
<1>4. IsFiniteSet(DOMAIN r)
  BY <1>3, FS_Subset
<1>5. \A p \in DOMAIN r : r[p] \in TwoPriorities
  BY <1>1 DEF TwoPriorities
<1> QED
  BY <1>4, <1>5 DEF Pairs, Graded

LEMMA Requests ==
  ASSUME cfg \in Configs, Tables
  PROVE  Pairs(cfg, req) /\ IsFiniteSet(DOMAIN req) /\ Graded(req)
BY RequestsOf DEF Tables, Ins, Outs, Priorities

(* A pass that accepts free ends leaves a matching.                        *)
LEMMA MatchIs ==
  ASSUME NEW acc, Match(acc)
  PROVE  inmatch' = InAfter(cfg, inmatch, acc) /\ outmatch' = OutAfter(cfg, outmatch, acc)
BY DEF Match, InAfter, OutAfter, Granted, Ins, Outs

LEMMA MatchSound ==
  ASSUME NEW acc, Sized(cfg), Sound(cfg, req, inmatch, outmatch),
         Acceptable(cfg, req, inmatch, outmatch, acc), Match(acc)
  PROVE  Sound(cfg, req, inmatch', outmatch')
BY MatchIs, MatchKeeps

LEMMA PointersKept ==
  ASSUME NEW acc \in [Ins -> Outs \cup {None}], cfg \in Configs, cfg.alloc \notin Separable,
         Remembers(cfg, ptr), MovePointers(acc)
  PROVE  Remembers(cfg, ptr')
<1>1. Sized(cfg) /\ (\A i \in Ins : i \in Nat) /\ (\A o \in Outs : o \in Nat)
  BY ConfigTypes
<1>2. /\ \A i \in Ins : ptr.in[i] \in Int
      /\ \A o \in Outs : ptr.out[o] \in Int
  BY DEF Remembers, Ins, Outs
<1>3. ASSUME NEW i \in Ins
      PROVE  ptr'.in[i] \in Int
  <2>1. acc[i] # None => acc[i] \in Int
    BY <1>1
  <2>2. acc[i] # None => (acc[i] + 1) % cfg.outs \in Int
    BY <1>1, <2>1 DEF Sized
  <2> QED BY <1>2, <2>2 DEF MovePointers
<1>4. ASSUME NEW o \in Outs
      PROVE  ptr'.out[o] \in Int
  <2> DEFINE w == CHOOSE i \in Ins : acc[i] = o
  <2>1. Granted(acc, o) # {} => w \in Nat
    BY <1>1 DEF Granted
  <2>2. Granted(acc, o) # {} => (w + 1) % cfg.ins \in Int
    <3> HIDE DEF w
    <3> QED BY <1>1, <2>1 DEF Sized
  <2>3. ptr'.out[o] = IF pass > 0 THEN ptr.out[o]
                      ELSE IF Granted(acc, o) = {} THEN ptr.out[o] ELSE (w + 1) % cfg.ins
    BY DEF MovePointers
  <2> QED BY <1>2, <2>2, <2>3
<1> QED
  BY <1>3, <1>4 DEF Remembers, Ins, Outs

(* Arbiters are told of matches.                                           *)
LEMMA UpdatesKept ==
  ASSUME cfg \in Configs, cfg.alloc \in Separable, Remembers(cfg, ptr),
         NEW acc \in [Ins -> Outs \cup {None}], UpdateMatched(acc)
  PROVE  Remembers(cfg, ptr')
<1>1. /\ Ins = Indices(cfg.ins) /\ Outs = Indices(cfg.outs) /\ cfg.arb \in Arbs
      /\ cfg.ins \in Nat \ {0} /\ cfg.outs \in Nat \ {0}
  BY ConfigTypes
<1>2. /\ \A i \in Ins : Prepared(cfg.arb, ptr.in[i], cfg.outs)
      /\ \A o \in Outs : Prepared(cfg.arb, ptr.out[o], cfg.ins)
  BY <1>1 DEF Remembers
<1>3. ASSUME NEW i \in Ins
      PROVE  Prepared(cfg.arb, ptr'.in[i], cfg.outs)
  <2>1. ptr'.in[i] = IF acc[i] = None THEN ptr.in[i]
                     ELSE UpdateState(cfg.arb, ptr.in[i], cfg.outs, acc[i])
    BY DEF UpdateMatched
  <2>2. acc[i] # None => acc[i] \in Indices(cfg.outs)
    BY <1>1
  <2>3. acc[i] # None => Prepared(cfg.arb, UpdateState(cfg.arb, ptr.in[i], cfg.outs, acc[i]), cfg.outs)
    BY <1>1, <1>2, <2>2, UpdatePrepared
  <2> QED BY <1>2, <2>1, <2>3
<1>4. ASSUME NEW o \in Outs
      PROVE  Prepared(cfg.arb, ptr'.out[o], cfg.ins)
  <2> DEFINE w == CHOOSE i \in Ins : acc[i] = o
  <2>1. ptr'.out[o] = IF Granted(acc, o) = {} THEN ptr.out[o]
                      ELSE UpdateState(cfg.arb, ptr.out[o], cfg.ins, w)
    BY DEF UpdateMatched
  <2>2. Granted(acc, o) # {} => w \in Indices(cfg.ins)
    BY <1>1 DEF Granted
  <2> HIDE DEF w
  <2>3. Granted(acc, o) # {} => Prepared(cfg.arb, UpdateState(cfg.arb, ptr.out[o], cfg.ins, w), cfg.ins)
    BY <1>1, <1>2, <2>2, UpdatePrepared
  <2> QED BY <1>2, <2>1, <2>3
<1> QED
  BY <1>1, <1>3, <1>4 DEF Remembers

-----------------------------------------------------------------------------
(* Rounds: an output that can grants to a free input that asks for it, and *)
(* an input that is granted anything accepts some of it.                   *)
Fits(g, acc) ==
  /\ \A o \in Outs : IF FreeOut(o) /\ FreeRequesters(o) # {}
                     THEN g[o] \in FreeRequesters(o) ELSE g[o] = None
  /\ \A i \in Ins : IF Offers(g, i) = {} THEN acc[i] = None ELSE acc[i] \in Offers(g, i)

LEMMA FitsRound ==
  ASSUME cfg \in Configs, ScopeInv,
         NEW g \in [Outs -> Ins \cup {None}], NEW acc \in [Ins -> Outs \cup {None}], Fits(g, acc)
  PROVE  Round(cfg, req, inmatch, outmatch, g, acc)
<1>1. Ins = Indices(cfg.ins) /\ Outs = Indices(cfg.outs) /\ None \notin Ins /\ None \notin Outs
  BY ConfigTypes
<1>2. ASSUME NEW o \in Outs, g[o] # None
      PROVE  inmatch[g[o]] = None /\ outmatch[o] = None /\ <<g[o], o>> \in DOMAIN req
             /\ acc[g[o]] # None
  <2>1. FreeOut(o) /\ g[o] \in FreeRequesters(o)
    BY <1>2 DEF Fits
  <2>2. g[o] \in Ins /\ o \in Offers(g, g[o])
    BY <2>1 DEF FreeRequesters, Requesters, Offers
  <2>3. acc[g[o]] \in Offers(g, g[o])
    BY <2>2 DEF Fits
  <2>4. acc[g[o]] # None
    BY <1>1, <2>3 DEF Offers
  <2> QED BY <2>1, <2>4 DEF FreeRequesters, Requesters, FreeIn, FreeOut
<1>3. \A i \in Ins : acc[i] # None => g[acc[i]] = i
  BY DEF Fits, Offers
<1>4. ASSUME NEW p \in DOMAIN req, inmatch[p[1]] = None, outmatch[p[2]] = None
      PROVE  g[p[2]] # None
  <2>1. PICK i \in Ins, o \in Outs : p = <<i, o>>
    BY DEF ScopeInv, Tables
  <2>2. i \in FreeRequesters(o) /\ FreeOut(o)
    BY <1>4, <2>1 DEF FreeRequesters, Requesters, FreeIn, FreeOut
  <2>3. g[o] \in FreeRequesters(o)
    BY <2>2 DEF Fits
  <2>4. g[o] \in Ins
    BY <2>3 DEF FreeRequesters, Requesters
  <2> QED BY <1>1, <2>1, <2>4
<1> QED
  BY <1>1, <1>2, <1>3, <1>4 DEF Round

LEMMA RoundsKeep ==
  ASSUME cfg \in Configs, ScopeInv, phase = "allocate", cfg.alloc \in Rounds,
         NEW g \in [Outs -> Ins \cup {None}], NEW acc \in [Ins -> Outs \cup {None}], Fits(g, acc),
         Match(acc)
  PROVE  Sound(cfg, req, inmatch', outmatch') /\ Progressed
<1>1. Sized(cfg) /\ Pairs(cfg, req) /\ Round(cfg, req, inmatch, outmatch, g, acc)
  BY ConfigTypes, Requests, FitsRound DEF ScopeInv
<1>2. Sound(cfg, req, inmatch', outmatch')
  BY <1>1, RoundAcceptable, MatchSound DEF ScopeInv
<1>3. Advanced(cfg, req, inmatch, outmatch, pass) /\ pass \in Nat
  BY DEF ScopeInv, Progress, Tables
<1>4. Advanced(cfg, req, inmatch', outmatch', pass + 1)
  <2>1. Advanced(cfg, req, InAfter(cfg, inmatch, acc), OutAfter(cfg, outmatch, acc), pass + 1)
    BY <1>1, <1>3, RoundAdvances
  <2> QED BY <2>1, MatchIs
<1> QED
  BY <1>2, <1>4 DEF Progressed, Rounds, Separable, Wavefronts

LEMMA IslipKeeps ==
  ASSUME cfg \in Configs, ScopeInv, phase = "allocate", IslipPass
  PROVE  Kept /\ Progressed
<1> DEFINE g == [o \in Outs |-> IslipGrant(o)]
           acc == [i \in Ins |-> IslipAccept(g, i)]
<1>1. /\ (\A i \in Ins : i \in Nat) /\ (\A o \in Outs : o \in Nat)
      /\ None \notin Ins /\ None \notin Outs /\ cfg.ins \in Nat \ {0} /\ cfg.outs \in Nat \ {0}
  BY ConfigTypes
<1>2. /\ cfg.alloc = "islip" /\ Match(acc) /\ MovePointers(acc)
      /\ grants' = grants /\ diag' = diag
  BY DEF IslipPass
<1>3. /\ \A i \in Ins : ptr.in[i] \in Int
      /\ \A o \in Outs : ptr.out[o] \in Int
  BY <1>2 DEF ScopeInv, Remembers, Ins, Outs, Separable
<1>4. ASSUME NEW o \in Outs
      PROVE  /\ g[o] \in Ins \cup {None}
             /\ IF FreeOut(o) /\ FreeRequesters(o) # {}
                THEN g[o] \in FreeRequesters(o) ELSE g[o] = None
  <2>1. g[o] = IF FreeOut(o) /\ FreeRequesters(o) # {}
               THEN FirstFrom(FreeRequesters(o), ptr.out[o], cfg.ins) ELSE None
    BY DEF IslipGrant
  <2>2. FreeRequesters(o) \in SUBSET Int /\ FreeRequesters(o) \subseteq Ins
    BY <1>1 DEF FreeRequesters, Requesters
  <2> QED BY <1>1, <1>3, <2>1, <2>2, FirstIsIn
<1>5. ASSUME NEW i \in Ins
      PROVE  /\ acc[i] \in Outs \cup {None}
             /\ IF Offers(g, i) = {} THEN acc[i] = None ELSE acc[i] \in Offers(g, i)
  <2> HIDE DEF g
  <2>1. acc[i] = IF Offers(g, i) = {} THEN None ELSE FirstFrom(Offers(g, i), ptr.in[i], cfg.outs)
    BY DEF IslipAccept
  <2>2. Offers(g, i) \in SUBSET Int /\ Offers(g, i) \subseteq Outs
    BY <1>1 DEF Offers
  <2> HIDE DEF acc
  <2> QED BY <1>1, <1>3, <2>1, <2>2, FirstIsIn
<1>6. g \in [Outs -> Ins \cup {None}] /\ acc \in [Ins -> Outs \cup {None}]
  BY <1>4, <1>5
<1> HIDE DEF g, acc
<1>7. Fits(g, acc)
  BY <1>4, <1>5 DEF Fits
<1>8. Sound(cfg, req, inmatch', outmatch') /\ Progressed
  BY <1>2, <1>6, <1>7, RoundsKeep DEF Rounds
<1>9. Remembers(cfg, ptr')
  BY <1>2, <1>6, PointersKept DEF ScopeInv, Separable
<1> QED
  BY <1>2, <1>8, <1>9 DEF Kept, ScopeInv, Tables

LEMMA PimKeeps ==
  ASSUME cfg \in Configs, ScopeInv, phase = "allocate", PimPass
  PROVE  Kept /\ Progressed
<1>1. cfg.alloc \in Rounds /\ ptr' = ptr /\ grants' = grants /\ diag' = diag
  BY DEF PimPass, Rounds
<1>2. PICK g \in [Outs -> Ins \cup {None}], acc \in [Ins -> Outs \cup {None}] :
        Fits(g, acc) /\ Match(acc)
  BY DEF PimPass, Fits
<1>3. Sound(cfg, req, inmatch', outmatch') /\ Progressed
  BY <1>1, <1>2, RoundsKeep
<1> QED
  BY <1>1, <1>3 DEF Kept, ScopeInv, Tables

-----------------------------------------------------------------------------
(* Allocators of one pass start from nothing.                              *)
LEMMA FirstPass ==
  ASSUME ScopeInv, phase = "allocate", cfg.alloc \notin Rounds \cup Wavefronts
  PROVE  /\ \A i \in Ins : inmatch[i] = None
         /\ \A o \in Outs : outmatch[o] = None /\ grants[o] = None
BY DEF ScopeInv, OnlyPass, Fresh

(* A lone round that looks at priorities.                                  *)
LEMMA LoneRoundKeeps ==
  ASSUME cfg \in Configs, ScopeInv, phase = "allocate", cfg.alloc \notin Rounds \cup Wavefronts,
         NEW g \in [Outs -> Ins \cup {None}], NEW acc \in [Ins -> Outs \cup {None}],
         \A o \in Outs : Answers(g[o], [i \in Requesters(o) |-> req[<<i, o>>].out_pri]),
         \A i \in Ins : Answers(acc[i], [o \in Offers(g, i) |-> req[<<i, o>>].in_pri]),
         Match(acc)
  PROVE  Sound(cfg, req, inmatch', outmatch') /\ Progressed
<1>1. /\ Sized(cfg) /\ Pairs(cfg, req) /\ None \notin Ins /\ None \notin Outs
      /\ Ins = Indices(cfg.ins) /\ Outs = Indices(cfg.outs)
  BY ConfigTypes, Requests DEF ScopeInv
<1>2. /\ \A i \in Ins : inmatch[i] = None
      /\ \A o \in Outs : outmatch[o] = None
  BY FirstPass
<1>3. ASSUME NEW o \in Outs
      PROVE  /\ g[o] \in Requesters(o) \cup {None}
             /\ \A i \in Requesters(o) : g[o] \in Requesters(o) /\ req[<<i, o>>].out_pri <= req[<<g[o], o>>].out_pri
  <2> DEFINE r == [i \in Requesters(o) |-> req[<<i, o>>].out_pri]
  <2>1. DOMAIN r = Requesters(o) /\ \A i \in Requesters(o) : r[i] = req[<<i, o>>].out_pri
    OBVIOUS
  <2>2. Answers(g[o], r)
    OBVIOUS
  <2> HIDE DEF r
  <2> QED BY <2>1, <2>2 DEF Answers
<1>4. ASSUME NEW i \in Ins
      PROVE  /\ acc[i] \in Offers(g, i) \cup {None}
             /\ \A o \in Offers(g, i) : acc[i] \in Offers(g, i) /\ req[<<i, o>>].in_pri <= req[<<i, acc[i]>>].in_pri
  <2> DEFINE r == [o \in Offers(g, i) |-> req[<<i, o>>].in_pri]
  <2>1. DOMAIN r = Offers(g, i) /\ \A o \in Offers(g, i) : r[o] = req[<<i, o>>].in_pri
    OBVIOUS
  <2>2. Answers(acc[i], r)
    OBVIOUS
  <2> HIDE DEF r
  <2> QED BY <2>1, <2>2 DEF Answers
<1>5. \A o \in Outs : FreeOut(o) /\ FreeRequesters(o) = Requesters(o)
  BY <1>2 DEF FreeOut, FreeRequesters, Requesters, FreeIn
<1>6. Fits(g, acc)
  BY <1>3, <1>4, <1>5 DEF Fits
<1>7. Round(cfg, req, inmatch, outmatch, g, acc)
  BY <1>6, FitsRound
<1>8. Prized(cfg, req, g, acc)
  <2>1. \A o \in Outs, i \in Ins : <<i, o>> \in DOMAIN req => req[<<i, o>>].out_pri <= req[<<g[o], o>>].out_pri
    BY <1>3 DEF Requesters
  <2>2. \A i \in Ins, o \in Outs : g[o] = i => req[<<i, o>>].in_pri <= req[<<i, acc[i]>>].in_pri
    BY <1>4 DEF Offers
  <2> QED BY <1>1, <2>1, <2>2 DEF Prized
<1>9. Sound(cfg, req, inmatch', outmatch')
  BY <1>1, <1>7, RoundAcceptable, MatchSound DEF ScopeInv
<1>10. SomeGranted(cfg, req, InAfter(cfg, inmatch, acc)) /\ TopGranted(req, InAfter(cfg, inmatch, acc))
  BY <1>1, <1>2, <1>7, <1>8, RoundGrantsSome, RoundGrantsTop
<1> QED
  BY <1>9, <1>10, MatchIs DEF Progressed

LEMMA SelectKeeps ==
  ASSUME cfg \in Configs, ScopeInv, InScope(cfg), phase = "allocate", SelectPass
  PROVE  Kept /\ Progressed
<1> DEFINE g == [o \in Outs |-> SelectGrant(o)]
           acc == [i \in Ins |-> SelectAccept(g, i)]
<1>1. /\ Ins = Indices(cfg.ins) /\ Outs = Indices(cfg.outs) /\ Pairs(cfg, req)
      /\ cfg.ins \in Nat \ {0} /\ cfg.outs \in Nat \ {0}
  BY ConfigTypes, Requests DEF ScopeInv
<1>2. /\ cfg.alloc = "select" /\ Match(acc) /\ MovePointers(acc)
      /\ grants' = g /\ diag' = diag
  BY DEF SelectPass
<1>3. /\ \A i \in Ins : ptr.in[i] \in Int
      /\ \A o \in Outs : ptr.out[o] \in Int
  BY <1>2 DEF ScopeInv, Remembers, Ins, Outs, Separable
<1>4. /\ \A i \in Ins : inmatch[i] = None
      /\ \A o \in Outs : outmatch[o] = None /\ grants[o] = None
  BY <1>2, FirstPass DEF Rounds, Wavefronts
<1>5. ASSUME NEW o \in Outs
      PROVE  /\ g[o] \in Requesters(o) \cup {None}
             /\ Answers(g[o], [i \in Requesters(o) |-> req[<<i, o>>].out_pri])
  <2> DEFINE r == [i \in Requesters(o) |-> req[<<i, o>>].out_pri]
  <2>1. FreeOut(o) /\ FreeRequesters(o) = Requesters(o)
    BY <1>4 DEF FreeOut, FreeRequesters, Requesters, FreeIn
  <2>2. g[o] = IF Requesters(o) # {} THEN RoundRobinWinner(ptr.out[o], cfg.ins, r) ELSE None
    BY <1>4, <2>1 DEF SelectGrant
  <2>3. DOMAIN r = Requesters(o) /\ DOMAIN r \subseteq Indices(cfg.ins) /\ \A i \in DOMAIN r : r[i] \in Int
    BY <1>1 DEF Requesters, Pairs, TwoPriorities
  <2> HIDE DEF r, g
  <2>4. Answers(RoundRobinWinner(ptr.out[o], cfg.ins, r), r)
    BY <1>1, <1>3, <2>3, RoundRobinAnswers
  <2>5. Answers(g[o], r)
    BY <2>2, <2>3, <2>4 DEF Answers
  <2> QED BY <2>3, <2>5 DEF Answers, r
<1>6. ASSUME NEW i \in Ins
      PROVE  /\ acc[i] \in Outs \cup {None}
             /\ Answers(acc[i], [o \in Offers(g, i) |-> req[<<i, o>>].in_pri])
  <2> HIDE DEF g
  <2> DEFINE r == [o \in Offers(g, i) |-> req[<<i, o>>].in_pri]
  <2>1. acc[i] = RoundRobinWinner(ptr.in[i], cfg.outs, r)
    BY DEF SelectAccept
  <2>2. \A o \in Offers(g, i) : <<i, o>> \in DOMAIN req /\ o \in Outs
    BY <1>1, <1>5, NoneIsNoIndex DEF Offers, Requesters
  <2>3. DOMAIN r = Offers(g, i) /\ DOMAIN r \subseteq Indices(cfg.outs) /\ \A o \in DOMAIN r : r[o] \in Int
    BY <1>1, <2>2 DEF Pairs, TwoPriorities
  <2> HIDE DEF r, acc
  <2>4. Answers(acc[i], r)
    BY <1>1, <1>3, <2>1, <2>3, RoundRobinAnswers
  <2> QED BY <1>1, <2>3, <2>4 DEF Answers, r
<1>7. g \in [Outs -> Ins \cup {None}] /\ acc \in [Ins -> Outs \cup {None}]
  BY <1>5, <1>6 DEF Requesters
<1> HIDE DEF g, acc
<1>8. Sound(cfg, req, inmatch', outmatch') /\ Progressed
  BY <1>2, <1>5, <1>6, <1>7, LoneRoundKeeps DEF Rounds, Wavefronts
<1>9. Remembers(cfg, ptr')
  BY <1>2, <1>7, PointersKept DEF ScopeInv, Separable
<1> QED
  BY <1>2, <1>7, <1>8, <1>9 DEF Kept, ScopeInv, Tables

LEMMA OutputFirstKeeps ==
  ASSUME cfg \in Configs, ScopeInv, phase = "allocate", OutputFirstPass
  PROVE  Kept /\ Progressed
<1> DEFINE g == [o \in Outs |-> OutputChoice(o)]
           acc == [i \in Ins |-> InputWinner(g, i)]
<1>1. /\ Ins = Indices(cfg.ins) /\ Outs = Indices(cfg.outs) /\ Pairs(cfg, req)
      /\ cfg.ins \in Nat \ {0} /\ cfg.outs \in Nat \ {0} /\ cfg.arb \in Arbs
  BY ConfigTypes, Requests DEF ScopeInv
<1>2. /\ cfg.alloc = "separable_output_first" /\ Match(acc) /\ UpdateMatched(acc)
      /\ grants' = grants /\ diag' = diag
  BY DEF OutputFirstPass
<1>3. /\ \A i \in Ins : Prepared(cfg.arb, ptr.in[i], cfg.outs)
      /\ \A o \in Outs : Prepared(cfg.arb, ptr.out[o], cfg.ins)
  BY <1>1, <1>2 DEF ScopeInv, Remembers, Separable
<1>4. ASSUME NEW o \in Outs
      PROVE  /\ g[o] \in Requesters(o) \cup {None}
             /\ Answers(g[o], [i \in Requesters(o) |-> req[<<i, o>>].out_pri])
  <2> DEFINE r == [i \in Requesters(o) |-> req[<<i, o>>].out_pri]
  <2>1. g[o] = Arbitrate(cfg.arb, ptr.out[o], cfg.ins, r)
    BY DEF OutputChoice
  <2>2. DOMAIN r = Requesters(o) /\ DOMAIN r \subseteq Indices(cfg.ins) /\ \A i \in DOMAIN r : r[i] \in Int
    BY <1>1 DEF Requesters, Pairs, TwoPriorities
  <2> HIDE DEF r, g
  <2>3. Answers(g[o], r)
    BY <1>1, <1>3, <2>1, <2>2, ArbiterAnswers
  <2> QED BY <2>2, <2>3 DEF Answers, r
<1>5. ASSUME NEW i \in Ins
      PROVE  /\ acc[i] \in Outs \cup {None}
             /\ Answers(acc[i], [o \in Offers(g, i) |-> req[<<i, o>>].in_pri])
  <2> HIDE DEF g
  <2> DEFINE r == [o \in Offers(g, i) |-> req[<<i, o>>].in_pri]
  <2>1. acc[i] = Arbitrate(cfg.arb, ptr.in[i], cfg.outs, r)
    BY DEF InputWinner, Offers
  <2>2. \A o \in Offers(g, i) : <<i, o>> \in DOMAIN req /\ o \in Outs
    BY <1>1, <1>4, NoneIsNoIndex DEF Offers, Requesters
  <2>3. DOMAIN r = Offers(g, i) /\ DOMAIN r \subseteq Indices(cfg.outs) /\ \A o \in DOMAIN r : r[o] \in Int
    BY <1>1, <2>2 DEF Pairs, TwoPriorities
  <2> HIDE DEF r, acc
  <2>4. Answers(acc[i], r)
    BY <1>1, <1>3, <2>1, <2>3, ArbiterAnswers
  <2> QED BY <1>1, <2>3, <2>4 DEF Answers, r
<1>6. g \in [Outs -> Ins \cup {None}] /\ acc \in [Ins -> Outs \cup {None}]
  BY <1>4, <1>5 DEF Requesters
<1> HIDE DEF g, acc
<1>7. Sound(cfg, req, inmatch', outmatch') /\ Progressed
  BY <1>2, <1>4, <1>5, <1>6, LoneRoundKeeps DEF Rounds, Wavefronts
<1>8. Remembers(cfg, ptr')
  BY <1>2, <1>6, UpdatesKept DEF ScopeInv, Separable
<1> QED
  BY <1>2, <1>7, <1>8 DEF Kept, ScopeInv, Tables

LEMMA InputFirstKeeps ==
  ASSUME cfg \in Configs, ScopeInv, phase = "allocate", InputFirstPass
  PROVE  Kept /\ Progressed
<1> DEFINE choice == [i \in Ins |-> InputChoice(i)]
           winner == [o \in Outs |-> OutputWinner(choice, o)]
           acc == Accepts(cfg, choice, winner)
<1>1. /\ Ins = Indices(cfg.ins) /\ Outs = Indices(cfg.outs) /\ Pairs(cfg, req) /\ Sized(cfg)
      /\ cfg.ins \in Nat \ {0} /\ cfg.outs \in Nat \ {0} /\ cfg.arb \in Arbs
      /\ None \notin Ins /\ None \notin Outs
  BY ConfigTypes, Requests DEF ScopeInv
<1>2. /\ cfg.alloc = "separable_input_first" /\ Match(acc) /\ UpdateMatched(acc)
      /\ grants' = grants /\ diag' = diag
  BY <1>1 DEF InputFirstPass, Accepts
<1>3. /\ \A i \in Ins : Prepared(cfg.arb, ptr.in[i], cfg.outs)
      /\ \A o \in Outs : Prepared(cfg.arb, ptr.out[o], cfg.ins)
  BY <1>1, <1>2 DEF ScopeInv, Remembers, Separable
<1>4. /\ \A i \in Ins : inmatch[i] = None
      /\ \A o \in Outs : outmatch[o] = None
  BY <1>2, FirstPass DEF Rounds, Wavefronts
<1>5. ASSUME NEW i \in Ins
      PROVE  /\ choice[i] \in Outs \cup {None}
             /\ choice[i] # None => <<i, choice[i]>> \in DOMAIN req
             /\ \A o \in Outs : <<i, o>> \in DOMAIN req =>
                  choice[i] # None /\ req[<<i, o>>].in_pri <= req[<<i, choice[i]>>].in_pri
  <2> DEFINE asked == {o \in Outs : <<i, o>> \in DOMAIN req}
             r == [o \in asked |-> req[<<i, o>>].in_pri]
  <2>1. choice[i] = Arbitrate(cfg.arb, ptr.in[i], cfg.outs, r)
    BY DEF InputChoice
  <2>2. DOMAIN r = asked /\ DOMAIN r \subseteq Indices(cfg.outs) /\ \A o \in DOMAIN r : r[o] \in Int
    BY <1>1 DEF Pairs, TwoPriorities
  <2>3. \A o \in DOMAIN r : r[o] = req[<<i, o>>].in_pri
    OBVIOUS
  <2> HIDE DEF r, choice
  <2>4. Answers(Arbitrate(cfg.arb, ptr.in[i], cfg.outs, r), r)
    BY <1>1, <1>3, <2>2, ArbiterAnswers
  <2> QED BY <2>1, <2>2, <2>3, <2>4 DEF Answers
<1>6. choice \in [Ins -> Outs \cup {None}]
  BY <1>5
<1>7. ASSUME NEW o \in Outs, NEW i \in Ins, choice[i] = o
      PROVE  /\ winner[o] \in Ins /\ choice[winner[o]] = o
             /\ req[<<i, o>>].out_pri <= req[<<winner[o], o>>].out_pri
  <2> HIDE DEF choice
  <2> DEFINE asking == {j \in Ins : choice[j] = o}
             r == [j \in asking |-> req[<<j, o>>].out_pri]
  <2>1. winner[o] = Arbitrate(cfg.arb, ptr.out[o], cfg.ins, r)
    BY DEF OutputWinner
  <2>2. \A j \in asking : <<j, o>> \in DOMAIN req
    BY <1>1, <1>5
  <2>3. DOMAIN r = asking /\ DOMAIN r \subseteq Indices(cfg.ins) /\ \A j \in DOMAIN r : r[j] \in Int
    BY <1>1, <2>2 DEF Pairs, TwoPriorities
  <2>4. \A j \in DOMAIN r : r[j] = req[<<j, o>>].out_pri
    OBVIOUS
  <2>5. i \in DOMAIN r
    BY <1>7
  <2> HIDE DEF r, winner
  <2>6. Answers(Arbitrate(cfg.arb, ptr.out[o], cfg.ins, r), r)
    BY <1>1, <1>3, <2>3, ArbiterAnswers
  <2> QED BY <2>1, <2>3, <2>4, <2>5, <2>6 DEF Answers
<1> HIDE DEF choice, winner
<1>8. Chosen(cfg, req, choice, winner) /\ ChosenPrized(cfg, req, choice, winner)
  <2>1. \A p \in DOMAIN req : \E i \in Ins, o \in Outs : p = <<i, o>>
    BY <1>1 DEF Pairs
  <2>2. \A p \in DOMAIN req : choice[p[1]] # None /\ req[p].in_pri <= req[<<p[1], choice[p[1]]>>].in_pri
    BY <1>5, <2>1
  <2>3. \A i \in Ins : choice[i] # None =>
          /\ winner[choice[i]] \in Ins /\ choice[winner[choice[i]]] = choice[i]
          /\ req[<<i, choice[i]>>].out_pri <= req[<<winner[choice[i]], choice[i]>>].out_pri
    BY <1>5, <1>7
  <2>4. \A i \in Ins : choice[i] # None => <<i, choice[i]>> \in DOMAIN req
    BY <1>5
  <2>5. Chosen(cfg, req, choice, winner)
    BY <1>1, <1>6, <2>2, <2>3, <2>4 DEF Chosen
  <2>6. ChosenPrized(cfg, req, choice, winner)
    BY <1>1, <2>2, <2>3 DEF ChosenPrized
  <2> QED BY <2>5, <2>6
<1>9. acc \in [Ins -> Outs \cup {None}]
  BY <1>1, <1>6 DEF Accepts
<1>10. Sound(cfg, req, inmatch', outmatch')
  BY <1>1, <1>2, <1>4, <1>8, ChosenAcceptable, MatchSound DEF ScopeInv
<1>11. SomeGranted(cfg, req, InAfter(cfg, inmatch, acc)) /\ TopGranted(req, InAfter(cfg, inmatch, acc))
  BY <1>1, <1>8, ChosenGrantsSome, ChosenGrantsTop
<1> HIDE DEF acc
<1>12. Progressed
  BY <1>2, <1>11, MatchIs DEF Progressed, Rounds, Wavefronts
<1>13. Remembers(cfg, ptr')
  BY <1>2, <1>9, UpdatesKept DEF ScopeInv, Separable
<1> QED
  BY <1>2, <1>10, <1>12, <1>13 DEF Kept, ScopeInv, Tables

LEMMA LoaKeeps ==
  ASSUME cfg \in Configs, ScopeInv, phase = "allocate", LoaPass
  PROVE  Kept /\ Progressed
<1> DEFINE lonely == [i \in Ins |-> Lonely(i)]
           winner == [o \in Outs |-> LoaGrant(lonely, o)]
           acc == [i \in Ins |-> IF lonely[i] # None /\ LoaGrant(lonely, lonely[i]) = i
                                 THEN lonely[i] ELSE None]
<1>1. /\ Sized(cfg) /\ (\A i \in Ins : i \in Nat) /\ (\A o \in Outs : o \in Nat)
      /\ None \notin Ins /\ None \notin Outs /\ cfg.ins \in Nat \ {0} /\ cfg.outs \in Nat \ {0}
      /\ Ins = Indices(cfg.ins) /\ Outs = Indices(cfg.outs) /\ Pairs(cfg, req)
  BY ConfigTypes, Requests DEF ScopeInv
<1>2. /\ cfg.alloc = "loa" /\ Match(acc) /\ grants' = grants /\ diag' = diag
      /\ ptr' = [in |-> [i \in Ins |-> IF acc[i] = None THEN ptr.in[i]
                                       ELSE (ptr.in[i] + 1) % cfg.outs],
                 out |-> [o \in Outs |-> IF Granted(acc, o) = {} THEN ptr.out[o]
                                         ELSE (ptr.out[o] + 1) % cfg.ins]]
  BY DEF LoaPass
<1>3. /\ \A i \in Ins : ptr.in[i] \in Int
      /\ \A o \in Outs : ptr.out[o] \in Int
  BY <1>1, <1>2 DEF ScopeInv, Remembers, Separable
<1>4. /\ \A i \in Ins : inmatch[i] = None
      /\ \A o \in Outs : outmatch[o] = None
  BY <1>2, FirstPass DEF Rounds, Wavefronts
<1>5. ASSUME NEW i \in Ins
      PROVE  /\ lonely[i] \in Outs \cup {None}
             /\ lonely[i] # None => <<i, lonely[i]>> \in DOMAIN req
             /\ (\E o \in Outs : <<i, o>> \in DOMAIN req) => lonely[i] # None
  <2> DEFINE asked == {o \in Outs : <<i, o>> \in DOMAIN req}
             f == [o \in asked |-> Cardinality(Requesters(o))]
             fewest == {o \in asked : \A p \in asked :
                         Cardinality(Requesters(o)) <= Cardinality(Requesters(p))}
  <2>1. lonely[i] = IF fewest = {} THEN None ELSE FirstFrom(fewest, ptr.in[i], cfg.outs)
    BY DEF Lonely
  <2>2. \A o \in Outs : Cardinality(Requesters(o)) \in Nat
    <3>1. IsFiniteSet(Ins)
      BY <1>1, IndicesFinite
    <3>2. \A o \in Outs : Requesters(o) \in SUBSET Ins
      BY DEF Requesters
    <3> QED BY <3>1, <3>2, FS_Subset, FS_CardinalityType
  <2>3. asked # {} => fewest # {}
    <3>1. f \in [asked -> Nat]
      BY <2>2
    <3> SUFFICES ASSUME asked # {} PROVE \E o \in asked : \A p \in asked : f[o] <= f[p]
      OBVIOUS
    <3> HIDE DEF f, asked
    <3> QED BY <3>1, LeastBy
  <2>4. /\ \A o \in fewest : o \in Outs /\ <<i, o>> \in DOMAIN req
        /\ fewest \in SUBSET Int
    BY <1>1
  <2>5. (\E o \in Outs : <<i, o>> \in DOMAIN req) => asked # {}
    OBVIOUS
  <2> HIDE DEF fewest, lonely, asked
  <2>6. fewest # {} => lonely[i] \in fewest
    BY <1>1, <1>3, <2>1, <2>4, FirstIsIn
  <2> QED BY <1>1, <2>1, <2>3, <2>4, <2>5, <2>6
<1>6. lonely \in [Ins -> Outs \cup {None}]
  BY <1>5
<1>7. acc = Accepts(cfg, lonely, winner)
  <2>1. \A i \in Ins : lonely[i] # None => winner[lonely[i]] = LoaGrant(lonely, lonely[i])
    BY <1>5
  <2> HIDE DEF winner, lonely
  <2> QED BY <1>1, <2>1 DEF Accepts
<1>8. ASSUME NEW o \in Outs, NEW i \in Ins, lonely[i] = o
      PROVE  winner[o] \in Ins /\ lonely[winner[o]] = o
  <2> HIDE DEF lonely
  <2> DEFINE asking == {j \in Ins : lonely[j] = o}
  <2>1. winner[o] = IF asking = {} THEN None ELSE FirstFrom(asking, ptr.out[o], cfg.ins)
    BY DEF LoaGrant
  <2>2. asking # {} /\ asking \in SUBSET Int /\ \A j \in asking : j \in Ins /\ lonely[j] = o
    BY <1>1, <1>8
  <2> HIDE DEF asking, winner
  <2> QED BY <1>1, <1>3, <2>1, <2>2, FirstIsIn
<1> HIDE DEF winner, lonely, acc
<1>9. Chosen(cfg, req, lonely, winner)
  <2>1. \A p \in DOMAIN req : \E i \in Ins, o \in Outs : p = <<i, o>>
    BY <1>1 DEF Pairs
  <2>2. ASSUME NEW p \in DOMAIN req
        PROVE  lonely[p[1]] # None
    <3>1. PICK i \in Ins, o \in Outs : p = <<i, o>>
      BY <2>1
    <3> QED BY <1>5, <3>1
  <2>3. \A i \in Ins : lonely[i] # None =>
          winner[lonely[i]] \in Ins /\ lonely[winner[lonely[i]]] = lonely[i]
    BY <1>5, <1>8
  <2> QED BY <1>1, <1>5, <1>6, <2>2, <2>3 DEF Chosen
<1>10. Sound(cfg, req, inmatch', outmatch')
  BY <1>1, <1>2, <1>4, <1>7, <1>9, ChosenAcceptable, MatchSound DEF ScopeInv
<1>11. SomeGranted(cfg, req, InAfter(cfg, inmatch, acc))
  BY <1>1, <1>7, <1>9, ChosenGrantsSome
<1>12. Progressed
  BY <1>2, <1>11, MatchIs DEF Progressed, Rounds, Separable, Wavefronts
<1>13. Remembers(cfg, ptr')
  <2>1. \A i \in Ins : ptr'.in[i] \in Int
    BY <1>1, <1>2, <1>3
  <2>2. \A o \in Outs : ptr'.out[o] \in Int
    BY <1>1, <1>2, <1>3
  <2> QED BY <1>1, <1>2, <2>1, <2>2 DEF Remembers, Separable
<1> QED
  BY <1>2, <1>10, <1>12, <1>13 DEF Kept, ScopeInv, Tables

(* The level of rank 0 has nothing above it.                               *)
LEMMA TopmostExists ==
  ASSUME Graded(req), DOMAIN req # {}
  PROVE  Topmost # {}
<1>1. 0 \in 0 .. Cardinality(LevelsOf(req)) - 1
  BY LevelsFinite
<1>2. PICK v \in LevelsOf(req) : Rank(req, v) = 0
  BY <1>1, Ranked
<1>3. PICK p \in DOMAIN req : req[p] = v
  BY DEF LevelsOf
<1>4. Above(req, v) = {}
  BY <1>2, LevelsFinite, FS_EmptySet DEF Rank
<1>5. \A q \in DOMAIN req : req[q] \in LevelsOf(req)
  BY DEF LevelsOf
<1>6. \A q \in DOMAIN req : ~Exceeds(req[q], req[p])
  BY <1>3, <1>4, <1>5 DEF Above
<1> QED
  BY <1>3, <1>6 DEF Topmost

-----------------------------------------------------------------------------
(* The diagonal a round-robin wavefront moves past: no foremost request is *)
(* met sooner on the way round from diag.                                  *)
LEMMA FirstDiagonalIs ==
  ASSUME cfg \in Configs, Tables, DOMAIN req # {}
  PROVE  \E j \in Nat : /\ FirstDiagonal = diag + j
                        /\ \A p \in Topmost : j <= Behind(p, diag, Square)
<1> DEFINE Meets(d) == Wave(diag + d) \cap Topmost # {}
           T == {d \in 0 .. Square - 1 : Meets(d)}
           First(d) == Meets(d) /\ \A e \in 0 .. d - 1 : Wave(diag + e) \cap Topmost = {}
<1>1. /\ Sized(cfg) /\ (\A i \in Ins : i \in Nat) /\ (\A o \in Outs : o \in Nat)
      /\ Square \in Nat \ {0} /\ diag \in Int /\ Graded(req) /\ IsFiniteSet(DOMAIN req)
  BY ConfigTypes, Requests DEF Tables
<1>2. ASSUME NEW p \in Topmost
      PROVE  Behind(p, diag, Square) \in T
  <2>1. p \in DOMAIN req /\ p[1] \in Int /\ p[2] \in Int
    BY <1>1 DEF Topmost, Tables
  <2>2. PICK y \in Int : y = p[1] + p[2]
    BY <2>1
  <2>3. PICK d \in 0 .. Square - 1 : d = (y - diag) % Square
    <3>1. y - diag \in Int
      BY <1>1
    <3> QED BY <1>1, <3>1, Residue
  <2>4. (diag + d) % Square = y % Square
    BY <1>1, <2>3, RoundTrip
  <2>5. p \in Wave(diag + d)
    BY <2>1, <2>2, <2>4 DEF Wave
  <2>6. d \in T
    BY <2>3, <2>5
  <2>7. Behind(p, diag, Square) = d
    <3>1. Behind(p, diag, Square) = (p[1] + p[2] - diag) % Square
      BY DEF Behind
    <3>2. p[1] + p[2] - diag = y - diag
      BY <1>1, <2>1, <2>2
    <3> QED BY <2>3, <3>1, <3>2
  <2> HIDE DEF T
  <2> QED BY <2>6, <2>7
<1>3. T \in SUBSET Nat /\ T # {}
  <2>1. Topmost # {}
    BY <1>1, TopmostExists
  <2>2. T \in SUBSET Nat
    BY <1>1
  <2> QED BY <1>2, <2>1, <2>2
<1>4. PICK x \in T : \A z \in T : x <= z
  <2> HIDE DEF T
  <2> QED BY <1>3, LeastNatural
<1>5. First(x)
  <2>1. ASSUME NEW e \in 0 .. x - 1
        PROVE  Wave(diag + e) \cap Topmost = {}
    <3>1. e \in 0 .. Square - 1 /\ ~(x <= e)
      BY <1>1, <1>4
    <3>2. e \notin T
      BY <1>4, <3>1
    <3> QED BY <3>1, <3>2
  <2> QED BY <1>4, <2>1
<1>6. \E d \in 0 .. Square - 1 : First(d)
  BY <1>4, <1>5
<1> DEFINE j == CHOOSE d \in 0 .. Square - 1 :
                  /\ Wave(diag + d) \cap Topmost # {}
                  /\ \A e \in 0 .. d - 1 : Wave(diag + e) \cap Topmost = {}
<1>7. j \in 0 .. Square - 1 /\ First(j)
  BY <1>6
<1>8. FirstDiagonal = diag + j
  BY DEF FirstDiagonal
<1> HIDE DEF j
<1>9. ASSUME NEW p \in Topmost
      PROVE  j <= Behind(p, diag, Square)
  <2>1. PICK b \in T : b = Behind(p, diag, Square)
    BY <1>2
  <2>2. b \in Nat /\ j \in Nat /\ Wave(diag + b) \cap Topmost # {}
    BY <1>3, <1>7
  <2>3. ~(b \in 0 .. j - 1)
    BY <1>7, <2>2
  <2> QED BY <2>1, <2>2, <2>3
<1>10. j \in Nat
  BY <1>1, <1>7
<1> QED
  BY <1>8, <1>9, <1>10

(* What a pass grants: a lone request, or what the diagonal of its level   *)
(* has with both ends free.                                                *)
LEMMA FrontIs ==
  ASSUME cfg \in Configs, ScopeInv, phase = "allocate", cfg.alloc \in Wavefronts
  PROVE  /\ Several => Front = FrontOf(req, inmatch, outmatch, diag, Square, pass)
         /\ ~Several => /\ Front = DOMAIN req /\ \A p, q \in DOMAIN req : p = q
                        /\ \A i \in Ins : inmatch[i] = None
                        /\ \A o \in Outs : outmatch[o] = None
<1>1. IsFiniteSet(DOMAIN req) /\ Cardinality(DOMAIN req) \in Nat
  BY Requests, FS_CardinalityType DEF ScopeInv
<1>2. ASSUME Several
      PROVE  Front = FrontOf(req, inmatch, outmatch, diag, Square, pass)
  <2>1. Cardinality(DOMAIN req) # 1
    BY <1>1, <1>2 DEF Several
  <2>2. Level = LevelAt(req, pass \div Square)
    BY DEF Level, Levels, LevelAt, LevelsOf, Rank, Above
  <2> QED BY <2>1, <2>2 DEF Front, FrontOf, Wave, FreeIn, FreeOut
<1>3. ASSUME ~Several
      PROVE  /\ Front = DOMAIN req /\ \A p, q \in DOMAIN req : p = q
             /\ \A i \in Ins : inmatch[i] = None
             /\ \A o \in Outs : outmatch[o] = None
  <2>1. pass = 0
    BY <1>3 DEF ScopeInv, OnlyPass, Wavefronts, Rounds
  <2>2. /\ \A i \in Ins : inmatch[i] = None
        /\ \A o \in Outs : outmatch[o] = None
    BY <2>1 DEF ScopeInv, Fresh
  <2>3. CASE Cardinality(DOMAIN req) = 1
    <3>1. PICK p : DOMAIN req = {p}
      BY <1>1, <2>3, FS_Singleton
    <3> QED BY <2>2, <2>3, <3>1 DEF Front
  <2>4. CASE Cardinality(DOMAIN req) = 0
    <3>1. DOMAIN req = {}
      BY <1>1, <2>4, FS_EmptySet
    <3> QED BY <2>2, <2>4, <3>1 DEF Front, Wave
  <2> QED BY <1>1, <1>3, <2>3, <2>4 DEF Several
<1> QED
  BY <1>2, <1>3

(* The front of a wave is free, and no two of it share an end.             *)
LEMMA FrontApart ==
  ASSUME cfg \in Configs, ScopeInv, phase = "allocate", cfg.alloc \in Wavefronts
  PROVE  /\ \A p \in Front : p \in DOMAIN req /\ inmatch[p[1]] = None /\ outmatch[p[2]] = None
         /\ \A i, j \in Ins, o, q \in Outs :
              <<i, o>> \in Front /\ <<j, q>> \in Front /\ (i = j \/ o = q) => i = j /\ o = q
<1>1. /\ Sized(cfg) /\ (\A i \in Ins : i \in Nat) /\ (\A o \in Outs : o \in Nat)
      /\ Square \in Nat \ {0} /\ diag \in Int /\ pass \in Nat
      /\ DOMAIN req \subseteq Ins \X Outs
  BY ConfigTypes DEF ScopeInv, Tables
<1>2. CASE ~Several
  <2>1. Front = DOMAIN req /\ \A p \in DOMAIN req : inmatch[p[1]] = None /\ outmatch[p[2]] = None
    BY <1>1, <1>2, FrontIs
  <2>2. \A p, q \in Front : p = q
    BY <1>2, FrontIs
  <2> QED BY <2>1, <2>2
<1>3. CASE Several
  <2>1. Front = FrontOf(req, inmatch, outmatch, diag, Square, pass)
    BY <1>3, FrontIs
  <2>2. \A p \in Front : p \in DOMAIN req /\ inmatch[p[1]] = None /\ outmatch[p[2]] = None
    BY <2>1 DEF FrontOf
  <2>3. PICK d : d = (diag + pass) % Square
    OBVIOUS
  <2>4. \A i \in Ins, o \in Outs : <<i, o>> \in Front => (i + o) % Square = d
    BY <2>1, <2>3 DEF FrontOf
  <2>5. (\A i \in Ins : i < Square) /\ (\A o \in Outs : o < Square)
    BY <1>1 DEF Ins, Outs, Indices, Square, Sized
  <2>6. ASSUME NEW i \in Ins, NEW j \in Ins, NEW o \in Outs, NEW q \in Outs,
               <<i, o>> \in Front, <<j, q>> \in Front, i = j \/ o = q
        PROVE  i = j /\ o = q
    <3>1. (i + o) % Square = (j + q) % Square
      BY <2>4, <2>6
    <3>2. i \in Nat /\ j \in Nat /\ o \in Nat /\ q \in Nat
          /\ i < Square /\ j < Square /\ o < Square /\ q < Square
      BY <1>1, <2>5
    <3>3. (i + o) - (j + q) < Square /\ (j + q) - (i + o) < Square
      BY <1>1, <2>6, <3>2
    <3>4. i + o = j + q
      BY <1>1, <3>1, <3>2, <3>3, SameResidue
    <3> QED BY <2>6, <3>2, <3>4
  <2> QED BY <2>2, <2>6
<1> QED
  BY <1>2, <1>3

LEMMA WavefrontKeeps ==
  ASSUME cfg \in Configs, ScopeInv, phase = "allocate", WavefrontPass
  PROVE  Kept /\ Progressed
<1> DEFINE acc == [i \in Ins |-> IF \E o \in Outs : <<i, o>> \in Front
                                 THEN CHOOSE o \in Outs : <<i, o>> \in Front ELSE None]
           last == \/ Cardinality(DOMAIN req) <= 1
                   \/ pass + 1 = Square * Cardinality(Levels)
<1>1. /\ Sized(cfg) /\ Square \in Nat \ {0} /\ diag \in Int /\ None \notin Outs /\ pass \in Nat
      /\ Ins = Indices(cfg.ins) /\ Outs = Indices(cfg.outs) /\ Pairs(cfg, req) /\ Graded(req)
  BY ConfigTypes, Requests DEF ScopeInv, Tables
<1>2. /\ cfg.alloc \in Wavefronts /\ Match(acc) /\ grants' = grants /\ ptr' = ptr
      /\ diag' = IF ~last \/ DOMAIN req = {} THEN diag
                 ELSE NextDiagonal(IF cfg.alloc = "rr_wavefront" THEN FirstDiagonal ELSE diag)
  BY DEF WavefrontPass
<1>3. \A i \in Ins : acc[i] \in Outs \cup {None} /\ (acc[i] # None => <<i, acc[i]>> \in Front)
  OBVIOUS
<1>4. acc \in [Ins -> Outs \cup {None}]
  BY <1>3
<1>5. \A i \in Ins : (\E o \in Outs : <<i, o>> \in Front) => acc[i] # None
  BY <1>1
<1> HIDE DEF acc, last
<1>6. Acceptable(cfg, req, inmatch, outmatch, acc)
  <2>1. \A i \in Ins : acc[i] # None =>
          inmatch[i] = None /\ outmatch[acc[i]] = None /\ <<i, acc[i]>> \in DOMAIN req
    BY <1>2, <1>3, FrontApart
  <2>2. ASSUME NEW i \in Ins, NEW j \in Ins, acc[i] # None, acc[i] = acc[j]
        PROVE  i = j
    <3>1. acc[i] \in Outs /\ acc[j] \in Outs /\ <<i, acc[i]>> \in Front /\ <<j, acc[j]>> \in Front
      BY <1>3, <2>2
    <3> QED BY <1>2, <2>2, <3>1, FrontApart
  <2> QED BY <1>1, <1>4, <2>1, <2>2 DEF Acceptable
<1>7. Sound(cfg, req, inmatch', outmatch')
  BY <1>1, <1>2, <1>6, MatchSound DEF ScopeInv
<1>8. diag' \in 0 .. Square - 1
  <2>1. \A d \in Int : NextDiagonal(d) \in 0 .. Square - 1
    <3> TAKE d \in Int
    <3>1. d + 1 \in Int
      OBVIOUS
    <3> QED BY <1>1, <3>1, Residue DEF NextDiagonal
  <2>2. DOMAIN req # {} => FirstDiagonal \in Int
    <3> SUFFICES ASSUME DOMAIN req # {} PROVE FirstDiagonal \in Int
      OBVIOUS
    <3>1. PICK j \in Nat : FirstDiagonal = diag + j
      BY FirstDiagonalIs DEF ScopeInv
    <3> QED BY <1>1, <3>1
  <2>3. diag \in 0 .. Square - 1
    BY DEF ScopeInv, Tables
  <2> QED BY <1>1, <1>2, <2>1, <2>2, <2>3
<1>9. ASSUME NEW p \in DOMAIN req
      PROVE  inmatch'[p[1]] = p[2] <=> inmatch[p[1]] = p[2] \/ p \in Front
  <2>1. PICK i \in Ins, o \in Outs : p = <<i, o>>
    BY <1>1 DEF Pairs
  <2>2. inmatch'[i] = IF acc[i] # None THEN acc[i] ELSE inmatch[i]
    BY <1>2 DEF Match
  <2>3. acc[i] # None => <<i, acc[i]>> \in Front /\ acc[i] \in Outs /\ inmatch[i] = None
    BY <1>2, <1>3, FrontApart
  <2>4. <<i, o>> \in Front => acc[i] = o
    BY <1>2, <1>5, <2>3, FrontApart
  <2> QED BY <1>1, <2>1, <2>2, <2>3, <2>4
<1>10. Progressed
  <2>1. CASE Several
    <3>1. Front = FrontOf(req, inmatch, outmatch, diag, Square, pass)
      BY <1>2, <2>1, FrontIs
    <3>2. pass < Square * Cardinality(LevelsOf(req)) /\ Swept(req, inmatch, diag, Square, pass)
      BY <1>2, <2>1 DEF ScopeInv, Progress
    <3>3. \A p \in DOMAIN req : inmatch'[p[1]] = p[2] <=>
            inmatch[p[1]] = p[2] \/ p \in FrontOf(req, inmatch, outmatch, diag, Square, pass)
      BY <1>9, <3>1
    <3>4. Swept(req, inmatch', diag, Square, pass + 1)
      BY <1>1, <3>2, <3>3, SweepGoesOn DEF ScopeInv
    <3> QED BY <1>2, <2>1, <3>4 DEF Progressed, Wavefronts, Separable, Rounds
  <2>2. CASE ~Several
    <3>1. \A p \in DOMAIN req :
            inmatch'[p[1]] = p[2] /\ ShareEnd(p, p) /\ ~Exceeds(req[p], req[p])
      BY <1>1, <1>2, <1>9, <2>2, FrontIs, ExceedsOrders DEF ShareEnd, Pairs
    <3>2. Served(req, inmatch')
      BY <3>1 DEF Served
    <3> QED BY <1>2, <2>2, <3>2 DEF Progressed, Wavefronts, Separable, Rounds
  <2> QED BY <2>1, <2>2
<1> QED
  BY <1>2, <1>7, <1>8, <1>10 DEF Kept, ScopeInv, Tables

-----------------------------------------------------------------------------
(* Every pass: the tables it leaves, and whether another one follows.      *)
LEMMA PassEnds ==
  ASSUME cfg \in Configs, InScope(cfg), ScopeInv, Pass
  PROVE  /\ Kept /\ Progressed
         /\ cfg' = cfg /\ req' = req /\ pass' = pass + 1 /\ phase' \in {"allocate", "done"}
         /\ cfg.alloc \in Rounds => (phase' = "done" <=> pass + 1 = cfg.iters)
         /\ cfg.alloc \in Wavefronts /\ Several =>
              (phase' = "done" <=> pass + 1 = Square * Cardinality(LevelsOf(req)))
         /\ phase' = "allocate" => cfg.alloc \in Rounds \/ (cfg.alloc \in Wavefronts /\ Several)
<1>1. phase = "allocate" /\ pass \in Nat
  BY DEF Pass, ScopeInv, Tables
<1>2. CASE IslipPass
  <2>1. cfg.alloc = "islip" /\ EndPass(pass + 1 = cfg.iters)
    BY <1>2 DEF IslipPass
  <2> QED BY <1>1, <1>2, <2>1, IslipKeeps DEF EndPass, Rounds, Wavefronts
<1>3. CASE PimPass
  <2>1. cfg.alloc = "pim" /\ EndPass(pass + 1 = cfg.iters)
    BY <1>3 DEF PimPass
  <2> QED BY <1>1, <1>3, <2>1, PimKeeps DEF EndPass, Rounds, Wavefronts
<1>4. CASE SelectPass
  <2>1. cfg.alloc = "select" /\ EndPass(pass + 1 = cfg.iters)
    BY <1>4 DEF SelectPass
  <2>2. pass = 0 /\ cfg.iters = 1
    BY <1>1, <2>1 DEF InScope, ScopeInv, OnlyPass, Wavefronts, Rounds
  <2> QED BY <1>1, <1>4, <2>1, <2>2, SelectKeeps DEF EndPass, Rounds, Wavefronts
<1>5. CASE LoaPass
  <2>1. cfg.alloc = "loa" /\ EndPass(TRUE)
    BY <1>5 DEF LoaPass
  <2> QED BY <1>1, <1>5, <2>1, LoaKeeps DEF EndPass, Rounds, Wavefronts
<1>6. CASE InputFirstPass
  <2>1. cfg.alloc = "separable_input_first" /\ EndPass(TRUE)
    BY <1>6 DEF InputFirstPass
  <2> QED BY <1>1, <1>6, <2>1, InputFirstKeeps DEF EndPass, Rounds, Wavefronts
<1>7. CASE OutputFirstPass
  <2>1. cfg.alloc = "separable_output_first" /\ EndPass(TRUE)
    BY <1>7 DEF OutputFirstPass
  <2> QED BY <1>1, <1>7, <2>1, OutputFirstKeeps DEF EndPass, Rounds, Wavefronts
<1>8. CASE WavefrontPass
  <2>1. cfg.alloc \in Wavefronts
        /\ EndPass(~Several \/ pass + 1 = Square * Cardinality(LevelsOf(req)))
    BY <1>8 DEF WavefrontPass, Several, Levels, LevelsOf
  <2> QED BY <1>1, <1>8, <2>1, WavefrontKeeps DEF EndPass, Rounds, Wavefronts
<1>9. CASE MaxSizePass
  BY <1>9 DEF MaxSizePass, InScope
<1> QED
  BY <1>2, <1>3, <1>4, <1>5, <1>6, <1>7, <1>8, <1>9 DEF Pass

LEMMA PassKeepsInv ==
  ASSUME cfg \in Configs, InScope(cfg), ScopeInv, Pass
  PROVE  ScopeInv'
<1>1. cfg' = cfg /\ req' = req /\ Ins' = Ins /\ Outs' = Outs /\ Square' = Square
  BY PassEnds DEF Ins, Outs, Square
<1>2. phase = "allocate" /\ pass \in Nat /\ pass' = pass + 1 /\ phase' \in {"allocate", "done"}
  BY PassEnds DEF Pass, ScopeInv, Tables
<1>3. Tables'
  BY <1>1, <1>2, PassEnds DEF Kept, ScopeInv, Tables, Priorities
<1>4. Sound(cfg, req, inmatch, outmatch)' /\ Remembers(cfg, ptr)'
  BY <1>1, PassEnds DEF Kept
<1>5. Fresh'
  BY <1>2 DEF Fresh
<1>6. OnlyPass'
  BY <1>1, <1>2, PassEnds DEF OnlyPass, Several
<1>7. Progressed
  BY PassEnds
<1>8. ASSUME phase' = "done"
      PROVE  Progress'
  <2>1. cfg.alloc \in Rounds => Advanced(cfg, req, inmatch', outmatch', cfg.iters)
    BY <1>7, <1>8, PassEnds DEF Progressed
  <2>2. cfg.alloc \in Wavefronts => Served(req, inmatch')
    <3> SUFFICES ASSUME cfg.alloc \in Wavefronts PROVE Served(req, inmatch')
      OBVIOUS
    <3>1. CASE ~Several
      BY <1>7, <3>1 DEF Progressed
    <3>2. CASE Several
      <4>1. pass + 1 = Square * Cardinality(LevelsOf(req))
        BY <1>8, <3>2, PassEnds
      <4>2. Swept(req, inmatch', diag, Square, Square * Cardinality(LevelsOf(req)))
        BY <1>7, <3>2, <4>1 DEF Progressed
      <4> QED BY <4>2, ConfigTypes, Requests, SweptServes DEF ScopeInv
    <3> QED BY <3>1, <3>2
  <2> QED BY <1>1, <1>7, <1>8, <2>1, <2>2 DEF Progress, Progressed
<1>9. ASSUME phase' = "allocate"
      PROVE  Progress'
  <2>1. cfg.alloc \in Rounds =>
          pass' < cfg.iters /\ Advanced(cfg, req, inmatch', outmatch', pass')
    <3> SUFFICES ASSUME cfg.alloc \in Rounds
                 PROVE  pass' < cfg.iters /\ Advanced(cfg, req, inmatch', outmatch', pass')
      OBVIOUS
    <3>1. pass < cfg.iters /\ pass + 1 # cfg.iters /\ cfg.iters \in Nat
      BY <1>2, <1>9, PassEnds, ConfigTypes DEF ScopeInv, Progress
    <3> QED BY <1>2, <1>7, <3>1 DEF Progressed
  <2>2. ASSUME cfg.alloc \in Wavefronts, Several
        PROVE  /\ diag' = diag /\ pass' < Square * Cardinality(LevelsOf(req))
               /\ Swept(req, inmatch', diag, Square, pass')
    <3>1. pass < Square * Cardinality(LevelsOf(req)) /\ pass + 1 # Square * Cardinality(LevelsOf(req))
      BY <1>2, <1>9, <2>2, PassEnds DEF ScopeInv, Progress
    <3>2. Square * Cardinality(LevelsOf(req)) \in Nat
      <4>1. Square \in Nat /\ Cardinality(LevelsOf(req)) \in Nat
        BY ConfigTypes, Requests, LevelsFinite DEF ScopeInv
      <4> QED BY <4>1
    <3>3. pass + 1 < Square * Cardinality(LevelsOf(req))
      BY <1>2, <3>1, <3>2
    <3>4. diag' = diag
      <4>1. WavefrontPass
        BY <2>2 DEF Pass, IslipPass, PimPass, SelectPass, LoaPass, InputFirstPass, OutputFirstPass,
                    MaxSizePass, Wavefronts
      <4>2. ~(Cardinality(DOMAIN req) <= 1 \/ pass + 1 = Square * Cardinality(Levels))
        BY <2>2, <3>1 DEF Several, Levels, LevelsOf
      <4> QED BY <4>1, <4>2 DEF WavefrontPass
    <3> QED BY <1>2, <1>7, <2>2, <3>3, <3>4 DEF Progressed
  <2> QED BY <1>1, <1>9, <2>1, <2>2 DEF Progress, Several
<1> QED
  BY <1>2, <1>3, <1>4, <1>5, <1>6, <1>8, <1>9 DEF ScopeInv

(* Nothing matched is a matching of any requests.                          *)
LEMMA EmptySound ==
  ASSUME NEW c, Sized(c), NEW r
  PROVE  Sound(c, r, [i \in Indices(c.ins) |-> None], [o \in Indices(c.outs) |-> None])
<1>1. None \notin Indices(c.ins) /\ None \notin Indices(c.outs)
  BY NoneIsNoIndex DEF Sized
<1> QED
  BY <1>1 DEF Sound

LEMMA ClearKeepsInv ==
  ASSUME cfg \in Configs, ScopeInv, Clear
  PROVE  ScopeInv'
<1>1. Sized(cfg) /\ cfg' = cfg /\ Ins' = Ins /\ Outs' = Outs /\ Square' = Square
      /\ ptr' = ptr /\ diag' = diag /\ phase' = "idle" /\ pass' = 0
  BY ConfigTypes DEF Clear, Ins, Outs, Square
<1>2. inmatch' = [i \in Ins |-> None] /\ outmatch' = [o \in Outs |-> None]
      /\ grants' = [o \in Outs |-> None] /\ req' = [p \in Staying |-> req[p]]
  BY DEF Clear
<1>3. Staying \subseteq DOMAIN req
  BY DEF Staying, Refused
<1>4. Tables'
  <2>1. DOMAIN req' \subseteq Ins \X Outs /\ \A p \in DOMAIN req' : req'[p] \in Priorities
    BY <1>2, <1>3 DEF ScopeInv, Tables
  <2> QED BY <1>1, <1>2, <2>1 DEF ScopeInv, Tables, Priorities
<1>5. Sound(cfg, req, inmatch, outmatch)'
  BY <1>1, <1>2, EmptySound DEF Ins, Outs
<1>6. Remembers(cfg, ptr)'
  BY <1>1 DEF ScopeInv
<1>7. Fresh' /\ OnlyPass' /\ Progress'
  BY <1>1, <1>2 DEF Fresh, OnlyPass, Progress
<1> QED
  BY <1>4, <1>5, <1>6, <1>7 DEF ScopeInv

LEMMA AddKeepsInv ==
  ASSUME cfg \in Configs, ScopeInv, AddRequests
  PROVE  ScopeInv'
<1>1. Sized(cfg) /\ cfg' = cfg /\ Ins' = Ins /\ Outs' = Outs /\ Square' = Square
      /\ ptr' = ptr /\ diag' = diag /\ phase' = "allocate" /\ pass' = pass
      /\ inmatch' = inmatch /\ outmatch' = outmatch /\ grants' = grants /\ phase = "idle"
  BY ConfigTypes DEF AddRequests, Ins, Outs, Square
<1>2. PICK pairs \in SUBSET (Ins \X Outs) : req' \in [pairs -> Priorities]
  BY DEF AddRequests
<1>3. Tables'
  <2>1. DOMAIN req' \subseteq Ins \X Outs /\ \A p \in DOMAIN req' : req'[p] \in Priorities
    BY <1>2
  <2> QED BY <1>1, <2>1 DEF ScopeInv, Tables, Priorities
<1>4. /\ \A i \in Ins : inmatch[i] = None
      /\ \A o \in Outs : outmatch[o] = None /\ grants[o] = None
  BY <1>1 DEF ScopeInv, Fresh
<1>5. Sound(cfg, req, inmatch, outmatch)'
  <2>1. inmatch = [i \in Indices(cfg.ins) |-> None] /\ outmatch = [o \in Indices(cfg.outs) |-> None]
    BY <1>4 DEF ScopeInv, Sound, Ins, Outs
  <2> QED BY <1>1, <2>1, EmptySound
<1>6. Remembers(cfg, ptr)'
  BY <1>1 DEF ScopeInv
<1>7. Fresh'
  BY <1>1, <1>4 DEF Fresh
<1>8. pass = 0
  BY <1>1 DEF ScopeInv, OnlyPass
<1>9. OnlyPass'
  BY <1>1, <1>8 DEF OnlyPass
<1>10. Progress'
  <2>1. Pairs(cfg, req') /\ IsFiniteSet(DOMAIN req') /\ Graded(req')
    <3>1. DOMAIN req' \subseteq Indices(cfg.ins) \X Indices(cfg.outs)
          /\ \A p \in DOMAIN req' : req'[p] \in [in_pri : cfg.pris, out_pri : cfg.pris]
      BY <1>2 DEF Ins, Outs, Priorities
    <3> QED BY <3>1, RequestsOf
  <2>2. Advanced(cfg, req', inmatch, outmatch, 0)
    <3>1. IsFiniteSet(Indices(cfg.ins))
      BY <1>1, IndicesFinite DEF Sized
    <3>2. MatchedIns(cfg, inmatch) \in SUBSET Indices(cfg.ins)
      BY DEF MatchedIns
    <3>3. Cardinality(MatchedIns(cfg, inmatch)) \in Nat
      BY <3>1, <3>2, FS_Subset, FS_CardinalityType
    <3> QED BY <3>3 DEF Advanced
  <2>3. ASSUME Several'
        PROVE  /\ 0 < Square * Cardinality(LevelsOf(req'))
               /\ Swept(req', inmatch, diag, Square, 0)
    <3>1. Square \in Nat \ {0} /\ diag \in Int /\ Ins = Indices(cfg.ins)
      BY ConfigTypes DEF ScopeInv, Tables
    <3>2. DOMAIN req' # {}
      <4>1. Cardinality({}) = 0
        BY FS_EmptySet
      <4> QED BY <2>3, <4>1 DEF Several
    <3>3. PICK m \in Nat : m = Cardinality(LevelsOf(req')) /\ m > 0
      BY <2>1, <3>2, LevelsFinite
    <3>4. 0 < Square * m
      <4>1. \A a, b \in Nat \ {0} : 0 < a * b
        OBVIOUS
      <4> QED BY <3>1, <3>3, <4>1
    <3>5. Swept(req', inmatch, diag, Square, 0)
      BY <1>1, <1>4, <2>1, <3>1, SweepStarts
    <3> QED BY <3>3, <3>4, <3>5
  <2>4. 0 < cfg.iters
    BY ConfigTypes
  <2> QED BY <1>1, <1>8, <2>2, <2>3, <2>4 DEF Progress
<1> QED
  BY <1>3, <1>5, <1>6, <1>7, <1>9, <1>10 DEF ScopeInv

-----------------------------------------------------------------------------
LEMMA InitAllocInv == Init => AllocInv
<1> SUFFICES ASSUME Init PROVE cfg \in Configs /\ ScopeInv
  BY DEF AllocInv
<1>1. cfg \in Configs /\ Sized(cfg) /\ cfg.arb \in Arbs /\ Square \in Nat \ {0}
      /\ cfg.ins \in Nat \ {0} /\ cfg.outs \in Nat \ {0}
  BY ConfigTypes DEF Init
<1>2. /\ phase = "idle" /\ req = <<>> /\ pass = 0 /\ diag = 0
      /\ inmatch = [i \in Ins |-> None] /\ outmatch = [o \in Outs |-> None]
      /\ grants = [o \in Outs |-> None]
      /\ ptr = [in |-> [i \in Ins |-> Memory(cfg.outs)], out |-> [o \in Outs |-> Memory(cfg.ins)]]
  BY DEF Init
<1>3. Tables
  <2>1. DOMAIN req = {}
    BY <1>2
  <2> QED BY <1>1, <1>2, <2>1 DEF Tables
<1>4. Sound(cfg, req, inmatch, outmatch)
  BY <1>1, <1>2, EmptySound DEF Ins, Outs
<1>5. Remembers(cfg, ptr)
  <2>1. cfg.arb = "tree" => cfg.ins % TreeGroups = 0 /\ cfg.outs % TreeGroups = 0
    BY <1>1, ConfigAssumption
  <2>2. ASSUME NEW n \in Nat \ {0}, cfg.arb = "tree" => n % TreeGroups = 0
        PROVE  /\ cfg.alloc \in Separable => Prepared(cfg.arb, Memory(n), n)
               /\ cfg.alloc \notin Separable => Memory(n) \in Int
    BY <1>1, <2>2, InitPrepared DEF Memory
  <2>3. /\ cfg.alloc \in Separable => /\ Prepared(cfg.arb, Memory(cfg.outs), cfg.outs)
                                      /\ Prepared(cfg.arb, Memory(cfg.ins), cfg.ins)
        /\ cfg.alloc \notin Separable => Memory(cfg.outs) \in Int /\ Memory(cfg.ins) \in Int
    BY <1>1, <2>1, <2>2
  <2>4. /\ \A i \in Indices(cfg.ins) : ptr.in[i] = Memory(cfg.outs)
        /\ \A o \in Indices(cfg.outs) : ptr.out[o] = Memory(cfg.ins)
    BY <1>2 DEF Ins, Outs
  <2> QED BY <2>3, <2>4 DEF Remembers
<1>6. Fresh /\ OnlyPass /\ Progress
  BY <1>2 DEF Fresh, OnlyPass, Progress
<1> QED
  BY <1>1, <1>3, <1>4, <1>5, <1>6 DEF ScopeInv

LEMMA StepAllocInv == AllocInv /\ [Next]_vars => AllocInv'
<1> SUFFICES ASSUME AllocInv, [Next]_vars PROVE AllocInv'
  OBVIOUS
<1>1. cfg \in Configs /\ cfg' = cfg
  BY DEF AllocInv, vars, Next, Clear, AddRequests, Pass, IslipPass, PimPass, SelectPass, LoaPass,
         InputFirstPass, OutputFirstPass, WavefrontPass, MaxSizePass, EndPass
<1>2. ASSUME InScope(cfg)
      PROVE  ScopeInv'
  <2>1. ScopeInv
    BY <1>2 DEF AllocInv
  <2>2. CASE Clear
    BY <1>1, <2>1, <2>2, ClearKeepsInv
  <2>3. CASE AddRequests
    BY <1>1, <2>1, <2>3, AddKeepsInv
  <2>4. CASE Pass
    BY <1>1, <1>2, <2>1, <2>4, PassKeepsInv
  <2>5. CASE UNCHANGED vars
    BY <2>1, <2>5 DEF vars, ScopeInv, Tables, Priorities, Fresh, OnlyPass, Several, Progress, Ins, Outs, Square
  <2> QED BY <2>2, <2>3, <2>4, <2>5 DEF Next
<1> QED
  BY <1>1, <1>2 DEF AllocInv

(* Every allocator but max_size, and select if it makes one pass, grants   *)
(* each output to one input and each input one output, as both its tables  *)
(* agree, and only what was asked for, whatever the requests and however   *)
(* many passes: what Allocate() leaves in _inmatch and _outmatch.          *)
THEOREM GrantsAreSound == Spec => [](InScope(cfg) => GrantsSound)
<1>1. AllocInv => (InScope(cfg) => GrantsSound)
  BY DEF AllocInv, ScopeInv, Tables, Sound, GrantsSound, TypeOK, IsMatching, Ins, Outs
<1> QED
  BY <1>1, InitAllocInv, StepAllocInv, PTL DEF Spec

-----------------------------------------------------------------------------
(***************************************************************************)
(* What the invariant says of an allocation that is over.                  *)
(***************************************************************************)

(* A request that was served in favour of what is not below it is granted, *)
(* or an end of it went to a request not below it.                         *)
LEMMA ServedWell ==
  ASSUME NEW c, Sized(c), NEW r, Pairs(c, r), NEW in, NEW out, Sound(c, r, in, out), Served(r, in)
  PROVE  \A p \in DOMAIN r :
           \/ in[p[1]] # None /\ ~Exceeds(r[p], r[<<p[1], in[p[1]]>>])
           \/ out[p[2]] # None /\ ~Exceeds(r[p], r[<<out[p[2]], p[2]>>])
<1>1. None \notin Indices(c.ins) /\ None \notin Indices(c.outs)
  BY NoneIsNoIndex DEF Sized
<1>2. ASSUME NEW p \in DOMAIN r
      PROVE  \/ in[p[1]] # None /\ ~Exceeds(r[p], r[<<p[1], in[p[1]]>>])
             \/ out[p[2]] # None /\ ~Exceeds(r[p], r[<<out[p[2]], p[2]>>])
  <2>1. PICK q \in DOMAIN r : in[q[1]] = q[2] /\ ShareEnd(p, q) /\ ~Exceeds(r[p], r[q])
    BY DEF Served
  <2>2. PICK i \in Indices(c.ins), o \in Indices(c.outs) : q = <<i, o>>
    BY DEF Pairs
  <2>3. in[i] = o /\ out[o] = i /\ i # None /\ o # None
    BY <1>1, <2>1, <2>2 DEF Sound
  <2>4. CASE p[1] = q[1]
    BY <2>1, <2>2, <2>3, <2>4
  <2>5. CASE p[2] = q[2]
    BY <2>1, <2>2, <2>3, <2>5
  <2> QED BY <2>1, <2>4, <2>5 DEF ShareEnd
<1> QED
  BY <1>2

LEMMA NothingLeft ==
  ASSUME cfg \in Configs, InScope(cfg), ScopeInv, phase = "done"
  PROVE  LeavesNothing
<1>1. /\ Sized(cfg) /\ Pairs(cfg, req) /\ Sound(cfg, req, inmatch, outmatch) /\ Progress
      /\ Ins = Indices(cfg.ins) /\ cfg.alloc \in Kinds /\ cfg.iters \in Nat \ {0}
      /\ cfg.ins \in Nat /\ cfg.outs \in Nat
  BY ConfigTypes, Requests DEF ScopeInv
<1>2. CASE cfg.alloc \in Wavefronts
  <2>1. \A p \in DOMAIN req : ~(inmatch[p[1]] = None /\ outmatch[p[2]] = None)
    BY <1>1, <1>2, ServedWell DEF Progress
  <2> QED BY <1>2, <2>1 DEF LeavesNothing, FreeIn, FreeOut
<1>3. CASE cfg.alloc \in Rounds
  <2>1. Advanced(cfg, req, inmatch, outmatch, cfg.iters)
    BY <1>1, <1>3 DEF Progress
  <2>2. cfg.alloc \notin Wavefronts \cup {"max_size"} /\ cfg.alloc \in {"islip", "pim"}
    BY <1>3 DEF Rounds, Wavefronts
  <2>3. ASSUME cfg.iters >= Smaller
        PROVE  \A p \in DOMAIN req : ~(FreeIn(p[1]) /\ FreeOut(p[2]))
    <3>1. cfg.iters >= cfg.ins \/ cfg.iters >= cfg.outs
      BY <2>3 DEF Smaller
    <3>2. Open(req, inmatch, outmatch) = {}
      BY <1>1, <2>1, <3>1, AdvancedToEnd
    <3> QED BY <3>2 DEF Open, FreeIn, FreeOut
  <2>4. ASSUME DOMAIN req # {}
        PROVE  \E i \in Ins : ~FreeIn(i)
    <3>1. PICK p \in DOMAIN req : TRUE
      BY <2>4
    <3>2. PICK i \in Indices(cfg.ins), o \in Indices(cfg.outs) : p = <<i, o>>
      BY <1>1, <3>1 DEF Pairs
    <3>3. CASE p \in Open(req, inmatch, outmatch)
      <4>1. Cardinality(MatchedIns(cfg, inmatch)) >= cfg.iters
        BY <2>1, <3>3 DEF Advanced
      <4>2. MatchedIns(cfg, inmatch) # {}
        <5>1. Cardinality({}) = 0
          BY FS_EmptySet
        <5> QED BY <1>1, <4>1, <5>1
      <4> QED BY <1>1, <4>2 DEF MatchedIns, FreeIn
    <3>4. CASE p \notin Open(req, inmatch, outmatch)
      <4>1. inmatch[i] # None \/ outmatch[o] # None
        BY <3>1, <3>2, <3>4 DEF Open
      <4>2. ASSUME outmatch[o] # None
            PROVE  \E j \in Ins : inmatch[j] # None
        <5>1. outmatch[o] \in Indices(cfg.ins)
          BY <1>1, <4>2 DEF Sound
        <5>2. inmatch[outmatch[o]] = o
          BY <1>1, <5>1 DEF Sound
        <5>3. o # None
          BY NoneIsNoIndex, <1>1
        <5> QED BY <1>1, <5>1, <5>2, <5>3
      <4> QED BY <1>1, <4>1, <4>2 DEF FreeIn
    <3> QED BY <3>3, <3>4
  <2> QED BY <2>2, <2>3, <2>4 DEF LeavesNothing
<1>4. CASE cfg.alloc \in Separable \cup {"select", "loa"}
  <2>1. SomeGranted(cfg, req, inmatch)
    BY <1>1, <1>4 DEF Progress
  <2>2. cfg.alloc \notin Wavefronts \cup {"max_size"} /\ cfg.alloc \notin {"islip", "pim"}
    BY <1>4 DEF Separable, Wavefronts
  <2> QED BY <1>1, <2>1, <2>2 DEF LeavesNothing, SomeGranted, FreeIn
<1> QED
  BY <1>1, <1>2, <1>3, <1>4 DEF Kinds, InScope, Wavefronts, Rounds, Separable

LEMMA PrioritiesRespected ==
  ASSUME cfg \in Configs, ScopeInv, phase = "done"
  PROVE  PriorityRespected
<1>1. /\ Sized(cfg) /\ Pairs(cfg, req) /\ Sound(cfg, req, inmatch, outmatch) /\ Progress
  BY ConfigTypes, Requests DEF ScopeInv
<1>2. ASSUME cfg.alloc \in Wavefronts
      PROVE  \A p \in DOMAIN req :
               \/ ~FreeIn(p[1]) /\ ~Exceeds(req[p], req[<<p[1], inmatch[p[1]]>>])
               \/ ~FreeOut(p[2]) /\ ~Exceeds(req[p], req[<<outmatch[p[2]], p[2]>>])
  <2>1. Served(req, inmatch)
    BY <1>1, <1>2 DEF Progress
  <2> QED BY <1>1, <2>1, ServedWell DEF FreeIn, FreeOut
<1>3. ASSUME cfg.alloc \in Separable \cup {"select"}
      PROVE  \A p \in DOMAIN req : Prevails(p) => inmatch[p[1]] = p[2]
  <2>1. TopGranted(req, inmatch)
    BY <1>1, <1>3 DEF Progress
  <2> QED BY <2>1 DEF TopGranted, Preferred, Prevails
<1> QED
  BY <1>2, <1>3 DEF PriorityRespected

(* An allocation that is over left nothing that it should have granted: as *)
(* much was granted as its kind promises, wavefronts refused nothing but   *)
(* for a request at one of its ends that it does not exceed, and a request *)
(* that prevails at its input by in_pri and at its output by out_pri was   *)
(* granted, whatever the two priorities of every request are.              *)
THEOREM GrantsAreWellChosen == Spec => [](InScope(cfg) => GrantsWellChosen)
<1>1. AllocInv => (InScope(cfg) => GrantsWellChosen)
  <2> SUFFICES ASSUME AllocInv, InScope(cfg) PROVE GrantsWellChosen
    OBVIOUS
  <2>1. LeavesNothing
    BY NothingLeft DEF AllocInv, LeavesNothing
  <2>2. MaximumMatch
    BY DEF InScope, MaximumMatch
  <2>3. PriorityRespected
    BY PrioritiesRespected DEF AllocInv, PriorityRespected
  <2> QED BY <2>1, <2>2, <2>3 DEF GrantsWellChosen
<1> QED
  BY <1>1, InitAllocInv, StepAllocInv, PTL DEF Spec

-----------------------------------------------------------------------------
(***************************************************************************)
(* Fairness of wavefronts: with every allocation that refuses it the       *)
(* watched request lies on a diagonal nearer to the one the next starts at.*)
(***************************************************************************)
WaveFair ==
  cfg.alloc \in Wavefronts =>
    /\ waited \in Nat /\ watched \in Ins \X Outs
    /\ waited # 0 => /\ IsFair /\ watched \in DOMAIN req
                     /\ phase = "done" => inmatch[watched[1]] # watched[2]
    /\ waited + Behind(watched, diag, Square) < Square

FairInv == AllocInv /\ WaveFair

LEMMA BehindType ==
  ASSUME cfg \in Configs, NEW p \in Ins \X Outs, NEW d \in Int
  PROVE  Behind(p, d, Square) \in Nat /\ Behind(p, d, Square) < Square
<1>1. p[1] \in Int /\ p[2] \in Int /\ Square \in Nat \ {0}
  BY ConfigTypes
<1>2. PICK y \in Int : y = p[1] + p[2] - d
  BY <1>1
<1> QED
  BY <1>1, <1>2, Residue DEF Behind

(* With one priority all requests are topmost, and of one rank.            *)
LEMMA OnePriority ==
  ASSUME cfg \in Configs, Tables, IsFair
  PROVE  \A p, q \in DOMAIN req : req[p] = req[q]
<1>1. IsFiniteSet(cfg.pris) /\ Cardinality(cfg.pris) = 1
  BY ConfigAssumption DEF IsFair
<1>2. PICK v : cfg.pris = {v}
  BY <1>1, FS_Singleton
<1>3. \A x \in Priorities : x = [in_pri |-> v, out_pri |-> v]
  BY <1>2 DEF Priorities
<1> QED
  BY <1>3 DEF Tables

LEMMA RefusedNearer ==
  ASSUME cfg \in Configs, InScope(cfg), ScopeInv, Pass, cfg.alloc \in Wavefronts, phase' = "done",
         IsFair, watched \in DOMAIN req, inmatch'[watched[1]] # watched[2]
  PROVE  Behind(watched, diag', Square) < Behind(watched, diag, Square)
<1>1. /\ phase = "allocate" /\ Graded(req) /\ Progressed /\ Square \in Nat \ {0} /\ diag \in Int
      /\ Tables /\ watched \in Ins \X Outs /\ watched[1] \in Int /\ watched[2] \in Int
      /\ \A p \in DOMAIN req : p \in Ins \X Outs
  BY ConfigTypes, Requests, PassEnds DEF ScopeInv, Tables, Pass
<1>2. WavefrontPass
  BY DEF Pass, IslipPass, PimPass, SelectPass, LoaPass, InputFirstPass, OutputFirstPass,
         MaxSizePass, Wavefronts
<1>3. Several
  <2> SUFFICES ASSUME ~Several PROVE FALSE
    OBVIOUS
  <2>1. \A p, q \in DOMAIN req : p = q
    BY <1>1, FrontIs
  <2>2. PICK q \in DOMAIN req : inmatch'[q[1]] = q[2]
    BY <1>1 DEF Progressed, Served
  <2> QED BY <2>1, <2>2
<1>4. Swept(req, inmatch', diag, Square, Square * Cardinality(LevelsOf(req)))
  <2>1. pass + 1 = Square * Cardinality(LevelsOf(req))
    BY <1>3, PassEnds
  <2> QED BY <1>1, <1>3, <2>1 DEF Progressed
<1>5. PICK q \in DOMAIN req : Sooner(req, diag, Square, q, watched)
  <2>1. Reached(req, diag, Square, Square * Cardinality(LevelsOf(req)), watched)
    BY <1>1, AllReached
  <2> QED BY <1>4, <2>1 DEF Swept
<1>6. Behind(q, diag, Square) < Behind(watched, diag, Square)
  <2>1. req[q] = req[watched] /\ req[q] \in LevelsOf(req)
    BY <1>1, OnePriority DEF LevelsOf
  <2>2. Rank(req, req[q]) \in Nat
    BY <1>1, <2>1, LevelsFinite
  <2> QED BY <1>5, <2>1, <2>2 DEF Sooner
<1>7. PICK j \in Nat :
        /\ diag' = (diag + j + 1) % Square
        /\ j <= Behind(q, diag, Square)
  <2>1. /\ DOMAIN req # {}
        /\ diag' = NextDiagonal(IF cfg.alloc = "rr_wavefront" THEN FirstDiagonal ELSE diag)
    BY <1>1, <1>2 DEF WavefrontPass, EndPass
  <2>2. CASE cfg.alloc = "rr_wavefront"
    <3>1. PICK j \in Nat : FirstDiagonal = diag + j
                           /\ \A p \in Topmost : j <= Behind(p, diag, Square)
      BY <1>1, <2>1, FirstDiagonalIs
    <3>2. q \in Topmost
      <4>1. \A p \in DOMAIN req : req[p] = req[q] /\ req[p] \in TwoPriorities
        BY <1>1, OnePriority DEF Graded
      <4>2. \A p \in DOMAIN req : ~Exceeds(req[p], req[q])
        BY <4>1, ExceedsOrders
      <4> QED BY <4>2 DEF Topmost
    <3> QED BY <2>1, <2>2, <3>1, <3>2 DEF NextDiagonal
  <2>3. CASE cfg.alloc # "rr_wavefront"
    <3>1. diag' = (diag + 0 + 1) % Square
      BY <1>1, <2>1, <2>3 DEF NextDiagonal
    <3>2. 0 <= Behind(q, diag, Square)
      BY <1>1, BehindType
    <3> QED BY <3>1, <3>2
  <2> QED BY <2>2, <2>3
<1>8. PICK x \in Int : x = watched[1] + watched[2]
  BY <1>1
<1>9. Behind(watched, diag, Square) = (x - diag) % Square
      /\ Behind(watched, diag', Square) = (x - diag') % Square
  <2>1. ASSUME NEW d \in Int
        PROVE  Behind(watched, d, Square) = (x - d) % Square
    <3>1. Behind(watched, d, Square) = (watched[1] + watched[2] - d) % Square
      BY DEF Behind
    <3>2. watched[1] + watched[2] - d = x - d
      BY <1>1, <1>8
    <3> QED BY <3>1, <3>2
  <2>2. diag' \in Int
    BY <1>1, PassEnds DEF Kept
  <2> QED BY <1>1, <2>1, <2>2
<1>10. /\ Behind(watched, diag, Square) \in Nat /\ Behind(q, diag, Square) \in Nat
  BY <1>1, BehindType
<1>11. j < (x - diag) % Square
  BY <1>6, <1>7, <1>9, <1>10
<1>12. (x - ((diag + j + 1) % Square)) % Square = ((x - diag) % Square) - j - 1
  BY <1>1, <1>11, Nearer
<1>13. Behind(watched, diag', Square) = Behind(watched, diag, Square) - j - 1
  BY <1>7, <1>9, <1>12
<1> QED
  BY <1>10, <1>13

LEMMA PassKeepsFair ==
  ASSUME AllocInv, WaveFair, Pass, cfg.alloc \in Wavefronts
  PROVE  WaveFair'
<1>1. /\ cfg \in Configs /\ InScope(cfg) /\ ScopeInv /\ phase = "allocate"
  BY DEF AllocInv, InScope, Wavefronts, Pass
<1>2. WavefrontPass
  BY DEF Pass, IslipPass, PimPass, SelectPass, LoaPass, InputFirstPass, OutputFirstPass,
         MaxSizePass, Wavefronts
<1>3. PICK last \in BOOLEAN :
        /\ phase' = IF last THEN "done" ELSE phase
        /\ waited' = IF ~last \/ ~IsFair \/ watched \notin DOMAIN req THEN waited
                     ELSE IF inmatch'[watched[1]] = watched[2] THEN 0 ELSE waited + 1
        /\ ~last => diag' = diag
        /\ cfg' = cfg /\ req' = req /\ watched' = watched
  <2> DEFINE last == \/ Cardinality(DOMAIN req) <= 1
                     \/ pass + 1 = Square * Cardinality(Levels)
  <2>1. last \in BOOLEAN
    OBVIOUS
  <2>2. EndPass(last) /\ (~last => diag' = diag)
    BY <1>2 DEF WavefrontPass
  <2> HIDE DEF last
  <2> QED BY <2>1, <2>2 DEF EndPass
<1>4. Ins' = Ins /\ Outs' = Outs /\ Square' = Square /\ IsFair' = IsFair
  BY <1>3 DEF Ins, Outs, Square, IsFair
<1>5. diag' \in Int /\ diag \in Int /\ Square \in Nat
  <2>1. diag' \in 0 .. Square - 1 /\ diag \in 0 .. Square - 1
    BY <1>1, PassEnds DEF Kept, ScopeInv, Tables
  <2> QED BY <1>1, <2>1, ConfigTypes
<1>6. /\ waited \in Nat /\ watched \in Ins \X Outs
      /\ waited # 0 => IsFair /\ watched \in DOMAIN req
      /\ waited + Behind(watched, diag, Square) < Square
  BY DEF WaveFair
<1>7. /\ Behind(watched, diag, Square) \in Nat
      /\ Behind(watched, diag', Square) \in Nat /\ Behind(watched, diag', Square) < Square
  BY <1>1, <1>5, <1>6, BehindType
<1>8. /\ waited' \in Nat /\ waited' + Behind(watched, diag', Square) < Square
      /\ waited' # 0 => /\ IsFair /\ watched \in DOMAIN req
                        /\ phase' = "done" => inmatch'[watched[1]] # watched[2]
  <2>1. CASE ~last
    BY <1>1, <1>3, <1>6, <2>1
  <2>2. CASE last /\ (~IsFair \/ watched \notin DOMAIN req)
    <3>1. waited' = 0
      BY <1>3, <1>6, <2>2
    <3> QED BY <1>7, <3>1
  <2>3. CASE last /\ IsFair /\ watched \in DOMAIN req /\ inmatch'[watched[1]] = watched[2]
    <3>1. waited' = 0
      BY <1>3, <2>3
    <3> QED BY <1>7, <3>1
  <2>4. CASE last /\ IsFair /\ watched \in DOMAIN req /\ inmatch'[watched[1]] # watched[2]
    <3>1. waited' = waited + 1 /\ phase' = "done"
      BY <1>3, <2>4
    <3>2. Behind(watched, diag', Square) < Behind(watched, diag, Square)
      BY <1>1, <2>4, <3>1, RefusedNearer
    <3>3. waited' + Behind(watched, diag', Square) < Square
      BY <1>5, <1>6, <1>7, <3>1, <3>2
    <3> QED BY <1>6, <2>4, <3>1, <3>3
  <2> QED BY <2>1, <2>2, <2>3, <2>4
<1> QED
  BY <1>3, <1>4, <1>6, <1>8 DEF WaveFair

LEMMA StepFairInv == FairInv /\ [Next]_vars => FairInv'
<1> SUFFICES ASSUME FairInv, [Next]_vars PROVE FairInv'
  OBVIOUS
<1>1. AllocInv'
  BY StepAllocInv DEF FairInv
<1>2. cfg' = cfg
  BY DEF vars, Next, Clear, AddRequests, Pass, IslipPass, PimPass, SelectPass, LoaPass,
         InputFirstPass, OutputFirstPass, WavefrontPass, MaxSizePass, EndPass
<1>3. Ins' = Ins /\ Outs' = Outs /\ Square' = Square /\ IsFair' = IsFair
  BY <1>2 DEF Ins, Outs, Square, IsFair
<1>4. ASSUME cfg.alloc \in Wavefronts
      PROVE  WaveFair'
  <2>1. /\ waited \in Nat /\ watched \in Ins \X Outs
        /\ waited # 0 => /\ IsFair /\ watched \in DOMAIN req
                         /\ phase = "done" => inmatch[watched[1]] # watched[2]
        /\ waited + Behind(watched, diag, Square) < Square
    BY <1>4 DEF FairInv, WaveFair
  <2>2. CASE Clear
    <3>1. waited # 0 => watched \in Staying
      BY <2>1, <2>2 DEF Clear, Staying, Refused
    <3>2. DOMAIN req' = Staying /\ phase' = "idle" /\ waited' = waited /\ watched' = watched
          /\ diag' = diag
      BY <2>2 DEF Clear
    <3> QED BY <1>2, <1>3, <2>1, <3>1, <3>2 DEF WaveFair
  <2>3. CASE AddRequests
    <3>1. DOMAIN req \subseteq DOMAIN req'
      BY <2>3 DEF AddRequests
    <3>2. phase' = "allocate" /\ waited' = waited /\ watched' = watched /\ diag' = diag
      BY <2>3 DEF AddRequests
    <3> QED BY <1>2, <1>3, <2>1, <3>1, <3>2 DEF WaveFair
  <2>4. CASE Pass
    BY <1>4, <2>4, PassKeepsFair DEF FairInv
  <2>5. CASE UNCHANGED vars
    BY <1>3, <2>1, <2>5 DEF WaveFair, vars
  <2> QED BY <2>2, <2>3, <2>4, <2>5 DEF Next
<1> QED
  BY <1>1, <1>2, <1>4 DEF FairInv, WaveFair

(* A wavefront keeps no request waiting for as many allocations as its     *)
(* square has diagonals, whatever else is asked for, if all requests have  *)
(* one priority: the diagonal it starts at, _pri, moves towards it each    *)
(* time, past the grants that kept it waiting and never past it.           *)
THEOREM WavefrontsAreFair == Spec => [](cfg.alloc \in Wavefronts => FairWait)
<1>1. Init => FairInv
  <2> SUFFICES ASSUME Init PROVE FairInv
    OBVIOUS
  <2>1. AllocInv
    BY InitAllocInv
  <2>2. cfg \in Configs /\ waited = 0 /\ diag = 0 /\ watched \in {<<0, 0>>, <<cfg.ins - 1, cfg.outs - 1>>}
    BY DEF Init
  <2>3. watched \in Ins \X Outs
    <3>1. 0 \in Ins /\ 0 \in Outs /\ cfg.ins - 1 \in Ins /\ cfg.outs - 1 \in Outs
      BY <2>2, ConfigTypes DEF Indices
    <3> QED BY <2>2, <3>1
  <2>4. Behind(watched, diag, Square) \in Nat /\ Behind(watched, diag, Square) < Square
    BY <2>2, <2>3, BehindType
  <2> QED BY <2>1, <2>2, <2>3, <2>4 DEF FairInv, WaveFair
<1>2. FairInv => (cfg.alloc \in Wavefronts => FairWait)
  <2> SUFFICES ASSUME FairInv, cfg.alloc \in Wavefronts PROVE FairWait
    OBVIOUS
  <2>1. cfg \in Configs /\ ScopeInv
    BY DEF FairInv, AllocInv, InScope, Wavefronts
  <2>2. diag \in Int /\ Square \in Nat
    BY <2>1, ConfigTypes DEF ScopeInv, Tables
  <2>3. waited \in Nat /\ watched \in Ins \X Outs /\ waited + Behind(watched, diag, Square) < Square
    BY DEF FairInv, WaveFair
  <2>4. Behind(watched, diag, Square) \in Nat
    BY <2>1, <2>2, <2>3, BehindType
  <2>5. WaitBound = Square
    BY DEF WaitBound, Wavefronts, Separable
  <2> QED BY <2>2, <2>3, <2>4, <2>5 DEF FairWait
<1> QED
  BY <1>1, <1>2, StepFairInv, PTL DEF Spec
=============================================================================

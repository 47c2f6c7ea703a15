----------------------------- MODULE RequestProofs -----------------------------
(***************************************************************************)
(* A request on its way to its handler, for every value of the constants:  *)
(* the input buffer holds exactly the bytes received and not consumed, the *)
(* parser finds each request and WsHandler each frame in them wherever the *)
(* stream is cut, a close that was announced is kept, the sliding window   *)
(* lets through no more than its limit and one request for each thread and *)
(* refuses only when it is full, and a token is judged by its signature,   *)
(* its expiry and the characters of its text, for texts of any length.     *)
(*                                                                         *)
(* The induction theorems of the library take a predicate; here it is a    *)
(* set, of naturals or of finite sets, and the principle follows from      *)
(* WFMin.  A function that is defined by recursion is a CHOOSE: such a     *)
(* function exists (RecursionExists), hence the chosen one satisfies its   *)
(* equation, and induction gives its values.                               *)
(***************************************************************************)
EXTENDS HttpStream, Admission, SequenceTheorems, FiniteSetTheorems, WellFoundedInduction, TLAPS

-------------------------------------------------------------------------------
(* Induction, with a set in the place of the predicate. *)

(* A non-empty set of naturals has a least element. *)
LEMMA LeastNat ==
    ASSUME NEW T, T \subseteq Nat, T # {}
    PROVE  \E x \in T : \A y \in T : x <= y
<1> DEFINE R == {p \in Nat \X Nat : p[1] < p[2]}
<1>1. IsWellFoundedOn(R, Nat)
  BY NatLessThanWellFounded, Zenon DEF OpToRel
<1>2. \E x \in T : \A y \in T : ~ (<<y, x>> \in R)
  BY <1>1, WFMin, Zenon
<1>3. PICK x \in T : \A y \in T : ~ (<<y, x>> \in R)
  BY <1>2
<1>4. ASSUME NEW y \in T PROVE x <= y
  <2>1. <<y, x>> \in Nat \X Nat
    OBVIOUS
  <2>2. ~(y < x)
    BY <1>3, <2>1
  <2> QED
    BY <2>2
<1> QED
  BY <1>4

(* A set that has 0 and with each natural the next one has them all. *)
LEMMA NatSetInduction ==
    ASSUME NEW W, 0 \in W, \A n \in Nat : n \in W => n + 1 \in W
    PROVE  \A n \in Nat : n \in W
<1> SUFFICES ASSUME Nat \ W # {} PROVE FALSE
  OBVIOUS
<1>1. PICK n \in Nat \ W : \A m \in Nat \ W : n <= m
  BY LeastNat
<1>2. n # 0 /\ n - 1 \in Nat /\ n - 1 \in W
  BY <1>1
<1> QED
  BY <1>1, <1>2

(* A set of subsets of U that has every one whose parts with one element   *)
(* less it has, has U.                                                     *)
LEMMA FiniteSetInduction ==
    ASSUME NEW U, IsFiniteSet(U), NEW W,
           \A s \in SUBSET U : (\A x \in s : s \ {x} \in W) => s \in W
    PROVE  U \in W
<1> DEFINE Good == {n \in Nat : \A s \in SUBSET U : Cardinality(s) = n => s \in W}
<1>0. \A s \in SUBSET U : IsFiniteSet(s) /\ Cardinality(s) \in Nat
  BY FS_Subset, FS_CardinalityType
<1>1. 0 \in Good
  <2>1. \A s \in SUBSET U : Cardinality(s) = 0 => s = {}
    BY <1>0, FS_EmptySet
  <2> QED
    BY <2>1
<1>2. ASSUME NEW n \in Nat, n \in Good PROVE n + 1 \in Good
  <2>1. ASSUME NEW s \in SUBSET U, Cardinality(s) = n + 1 PROVE s \in W
    <3>1. ASSUME NEW x \in s PROVE s \ {x} \in W
      <4>1. Cardinality(s \ {x}) = n
        BY <1>0, <2>1, FS_RemoveElement
      <4> QED
        BY <1>2, <4>1
    <3> QED
      BY <3>1
  <2> QED
    BY <2>1
<1> HIDE DEF Good
<1>3. \A n \in Nat : n \in Good
  BY <1>1, <1>2, NatSetInduction
<1> QED
  BY <1>0, <1>3 DEF Good

(* g is defined on 0..n by recursion, from a by the functions step[i]. *)
ByRecursion(g, n, T, a, step) ==
    g \in [0..n -> T] /\ g[0] = a /\ \A i \in 1..n : g[i] = step[i][g[i - 1]]

(* A function defined by recursion on 0..n exists. *)
LEMMA RecursionExists ==
    ASSUME NEW n \in Nat, NEW T, NEW a \in T, NEW step \in [1..n -> [T -> T]]
    PROVE  \E g : ByRecursion(g, n, T, a, step)
<1> DEFINE Eq(g, i) == g[i] = IF i = 0 THEN a ELSE step[i][g[i - 1]]
           Good == {k \in Nat : k <= n => \E g \in [0..n -> T] : \A i \in 0..k : Eq(g, i)}
<1>1. 0 \in Good
  <2> DEFINE g == [i \in 0..n |-> a]
  <2>1. g \in [0..n -> T] /\ \A i \in 0..0 : Eq(g, i)
    OBVIOUS
  <2> QED
    BY <2>1
<1>2. ASSUME NEW k \in Nat, k \in Good PROVE k + 1 \in Good
  <2> SUFFICES ASSUME k + 1 <= n PROVE \E g \in [0..n -> T] : \A i \in 0..(k + 1) : Eq(g, i)
    OBVIOUS
  <2>1. PICK g \in [0..n -> T] : \A i \in 0..k : Eq(g, i)
    BY <1>2
  <2> DEFINE x == step[k + 1][g[k]]
             h == [g EXCEPT ![k + 1] = x]
  <2>2. k + 1 \in 1..n /\ k \in 0..n
    OBVIOUS
  <2>3. x \in T
    BY <2>2
  <2> HIDE DEF x
  <2>4. h \in [0..n -> T] /\ h[k + 1] = x /\ \A i \in 0..n : i # k + 1 => h[i] = g[i]
    BY <2>2, <2>3
  <2> HIDE DEF h
  <2>5. ASSUME NEW i \in 0..(k + 1) PROVE Eq(h, i)
    <3>1. CASE i = k + 1
      <4>1. h[k] = g[k] /\ (k + 1) - 1 = k /\ k + 1 # 0
        BY <2>2, <2>4
      <4> QED
        BY <2>4, <3>1, <4>1 DEF x
    <3>2. CASE i # k + 1
      <4>1. i \in 0..k /\ i \in 0..n /\ (i # 0 => i - 1 \in 0..n /\ i - 1 # k + 1)
        BY <3>2
      <4>2. Eq(g, i)
        BY <2>1, <4>1
      <4> QED
        BY <2>4, <3>2, <4>1, <4>2
    <3> QED
      BY <3>1, <3>2
  <2> QED
    BY <2>4, <2>5
<1> HIDE DEF Good
<1>3. \A k \in Nat : k \in Good
  BY <1>1, <1>2, NatSetInduction
<1>4. PICK g \in [0..n -> T] : \A i \in 0..n : Eq(g, i)
  BY <1>3 DEF Good
<1>5. g[0] = a /\ \A i \in 1..n : g[i] = step[i][g[i - 1]]
  <2>1. 0 \in 0..n /\ \A i \in 1..n : i \in 0..n /\ i # 0
    OBVIOUS
  <2> QED
    BY <1>4, <2>1
<1> QED
  BY <1>5 DEF ByRecursion

(* Induction along a function on 0..n. *)
LEMMA Along ==
    ASSUME NEW n \in Nat, NEW T, 0 \in T, \A i \in 1..n : i - 1 \in T => i \in T
    PROVE  \A i \in 0..n : i \in T
<1> DEFINE Good == {k \in Nat : k <= n => k \in T}
<1>1. 0 \in Good
  OBVIOUS
<1>2. ASSUME NEW k \in Nat, k \in Good PROVE k + 1 \in Good
  <2>1. k + 1 <= n => k + 1 \in 1..n /\ (k + 1) - 1 = k /\ k \in T
    BY <1>2
  <2> QED
    BY <2>1
<1> HIDE DEF Good
<1>3. \A k \in Nat : k \in Good
  BY <1>1, <1>2, NatSetInduction
<1> QED
  BY <1>3 DEF Good

-------------------------------------------------------------------------------
(* Sums *)

(* The element a fold takes next, and the equation of the sums it builds. *)
Pick(s) == CHOOSE x \in s : TRUE
Sums(f, U, g) == g = [s \in SUBSET U |-> IF s = {} THEN 0 ELSE f[Pick(s)] + g[s \ {Pick(s)}]]

(* It is one of the set. *)
LEMMA PickIn == ASSUME NEW s, s # {} PROVE Pick(s) \in s
BY DEF Pick

(* The function by which SumFunctionOnSet is defined exists. *)
LEMMA SumsExists ==
    ASSUME NEW U, IsFiniteSet(U), NEW f, \A x \in U : f[x] \in Nat
    PROVE  \E g : Sums(f, U, g)
<1> DEFINE Eq(g, s) == g[s] = IF s = {} THEN 0 ELSE f[Pick(s)] + g[s \ {Pick(s)}]
           Good == {n \in Nat : \E g \in [SUBSET U -> Nat] :
                                    \A s \in SUBSET U : Cardinality(s) <= n => Eq(g, s)}
<1>0. \A s \in SUBSET U : IsFiniteSet(s) /\ Cardinality(s) \in Nat /\ (Cardinality(s) = 0 <=> s = {})
  BY FS_Subset, FS_CardinalityType, FS_EmptySet
<1>1. 0 \in Good
  <2> DEFINE g == [s \in SUBSET U |-> 0]
  <2>1. g \in [SUBSET U -> Nat] /\ \A s \in SUBSET U : Cardinality(s) <= 0 => Eq(g, s)
    BY <1>0
  <2> QED
    BY <2>1
<1>2. ASSUME NEW n \in Nat, n \in Good PROVE n + 1 \in Good
  <2>1. PICK g \in [SUBSET U -> Nat] : \A s \in SUBSET U : Cardinality(s) <= n => Eq(g, s)
    BY <1>2
  <2> DEFINE h == [s \in SUBSET U |-> IF s = {} THEN 0 ELSE f[Pick(s)] + g[s \ {Pick(s)}]]
  <2>2. \A s \in SUBSET U : s # {} => Pick(s) \in s /\ f[Pick(s)] \in Nat /\ s \ {Pick(s)} \in SUBSET U
    BY PickIn
  <2>3. h \in [SUBSET U -> Nat]
    BY <2>2
  <2>4. \A s \in SUBSET U : Cardinality(s) <= n => h[s] = g[s]
    BY <2>1
  <2>5. ASSUME NEW s \in SUBSET U, s # {}, Cardinality(s) <= n + 1
        PROVE  Cardinality(s \ {Pick(s)}) <= n
    BY <1>0, <2>2, <2>5, FS_RemoveElement
  <2>6. \A s \in SUBSET U : Cardinality(s) <= n + 1 => Eq(h, s)
    <3> SUFFICES ASSUME NEW s \in SUBSET U, Cardinality(s) <= n + 1 PROVE Eq(h, s)
      OBVIOUS
    <3>1. h[s] = IF s = {} THEN 0 ELSE f[Pick(s)] + g[s \ {Pick(s)}]
      OBVIOUS
    <3>2. s # {} => h[s \ {Pick(s)}] = g[s \ {Pick(s)}]
      BY <2>2, <2>4, <2>5
    <3> QED
      BY <3>1, <3>2
  <2> HIDE DEF h
  <2>7. \E e \in [SUBSET U -> Nat] : \A s \in SUBSET U : Cardinality(s) <= n + 1 => Eq(e, s)
    BY <2>3, <2>6, Zenon
  <2>8. n + 1 \in Nat
    OBVIOUS
  <2> QED
    BY <2>7, <2>8, Zenon
<1> HIDE DEF Good
<1>3. Cardinality(U) \in Good
  BY <1>0, <1>1, <1>2, NatSetInduction
<1>4. PICK g \in [SUBSET U -> Nat] : \A s \in SUBSET U : Cardinality(s) <= Cardinality(U) => Eq(g, s)
  BY <1>3 DEF Good
<1>5. \A s \in SUBSET U : Cardinality(s) <= Cardinality(U)
  BY FS_Subset
<1> QED
  BY <1>4, <1>5 DEF Sums

(* It is the same on every set that has the elements of s. *)
LEMMA SumsUnique ==
    ASSUME NEW U, IsFiniteSet(U), NEW V, NEW f, \A x \in U : f[x] \in Nat, U \subseteq V,
           NEW g, Sums(f, U, g), NEW h, Sums(f, V, h)
    PROVE  g[U] \in Nat /\ g[U] = h[U]
<1> DEFINE W == {s \in SUBSET U : g[s] \in Nat /\ g[s] = h[s]}
<1>1. ASSUME NEW s \in SUBSET U, \A x \in s : s \ {x} \in W PROVE s \in W
  <2>1. g[s] = (IF s = {} THEN 0 ELSE f[Pick(s)] + g[s \ {Pick(s)}])
    BY DEF Sums
  <2>2. h[s] = (IF s = {} THEN 0 ELSE f[Pick(s)] + h[s \ {Pick(s)}])
    BY DEF Sums
  <2>3. CASE s = {}
    BY <2>1, <2>2, <2>3
  <2>4. CASE s # {}
    <3>1. Pick(s) \in s
      BY <2>4, PickIn
    <3>2. s \ {Pick(s)} \in W /\ f[Pick(s)] \in Nat
      BY <1>1, <3>1
    <3> QED
      BY <2>1, <2>2, <2>4, <3>2
  <2> QED
    BY <2>3, <2>4
<1> HIDE DEF W
<1>2. U \in W
  BY <1>1, FiniteSetInduction
<1> QED
  BY <1>2 DEF W

(* SumFunctionOnSet is the last of those sums. *)
LEMMA SumIs ==
    ASSUME NEW U, IsFiniteSet(U), NEW f, \A x \in U : f[x] \in Nat
    PROVE  \E g : Sums(f, U, g) /\ SumFunctionOnSet(f, U) = g[U]
<1> DEFINE g == CHOOSE iter : Sums(f, U, iter)
<1>1. SumFunctionOnSet(f, U) = g[U]
  BY DEF SumFunctionOnSet, FoldFunctionOnSet, MapThenFoldSet, Sums, Pick
<1>2. Sums(f, U, g)
  BY SumsExists
<1> QED
  BY <1>1, <1>2

(* The equation of a sum. *)
LEMMA SumPick ==
    ASSUME NEW U, IsFiniteSet(U), NEW f, \A x \in U : f[x] \in Nat
    PROVE  /\ SumFunctionOnSet(f, U) \in Nat
           /\ U = {} => SumFunctionOnSet(f, U) = 0
           /\ U # {} => SumFunctionOnSet(f, U) = f[Pick(U)] + SumFunctionOnSet(f, U \ {Pick(U)})
<1>1. PICK g : Sums(f, U, g) /\ SumFunctionOnSet(f, U) = g[U]
  BY SumIs
<1>2. g[U] \in Nat
  BY <1>1, SumsUnique
<1>3. g[U] = IF U = {} THEN 0 ELSE f[Pick(U)] + g[U \ {Pick(U)}]
  BY <1>1 DEF Sums
<1>4. CASE U # {}
  <2> DEFINE V == U \ {Pick(U)}
  <2>1. IsFiniteSet(V) /\ V \subseteq U
    BY FS_RemoveElement
  <2>2. PICK h : Sums(f, V, h) /\ SumFunctionOnSet(f, V) = h[V]
    BY <2>1, SumIs
  <2>3. h[V] = g[V]
    BY <1>1, <2>1, <2>2, SumsUnique
  <2> QED
    BY <1>1, <1>2, <1>3, <1>4, <2>2, <2>3
<1> QED
  BY <1>1, <1>2, <1>3, <1>4

(* A sum does not depend on the order of its terms. *)
LEMMA SumRemove ==
    ASSUME NEW U, IsFiniteSet(U), NEW f, \A x \in U : f[x] \in Nat, NEW y \in U
    PROVE  SumFunctionOnSet(f, U) = f[y] + SumFunctionOnSet(f, U \ {y})
<1> DEFINE W == {s \in SUBSET U : \A x \in s :
                     SumFunctionOnSet(f, s) = f[x] + SumFunctionOnSet(f, s \ {x})}
<1>0. \A s \in SUBSET U : IsFiniteSet(s) /\ \A x \in s : f[x] \in Nat
  BY FS_Subset
<1>1. ASSUME NEW s \in SUBSET U, \A x \in s : s \ {x} \in W PROVE s \in W
  <2> SUFFICES ASSUME NEW x \in s
               PROVE  SumFunctionOnSet(f, s) = f[x] + SumFunctionOnSet(f, s \ {x})
    OBVIOUS
  <2> DEFINE p == Pick(s)
             r == s \ {p, x}
  <2>1. p \in s /\ f[p] \in Nat /\ f[x] \in Nat
    BY <1>0, PickIn
  <2>2. SumFunctionOnSet(f, s) = f[p] + SumFunctionOnSet(f, s \ {p})
    BY <1>0, SumPick
  <2>3. CASE p = x
    BY <2>2, <2>3
  <2>4. CASE p # x
    <3>1. s \ {p} \in W /\ s \ {x} \in W
      BY <1>1, <2>1
    <3>2. x \in s \ {p} /\ p \in s \ {x} /\ (s \ {p}) \ {x} = r /\ (s \ {x}) \ {p} = r
      BY <2>1, <2>4
    <3> HIDE DEF p, r
    <3>3. SumFunctionOnSet(f, s \ {p}) = f[x] + SumFunctionOnSet(f, (s \ {p}) \ {x})
      BY <3>1, <3>2
    <3>4. SumFunctionOnSet(f, s \ {x}) = f[p] + SumFunctionOnSet(f, (s \ {x}) \ {p})
      BY <3>1, <3>2
    <3>5. SumFunctionOnSet(f, r) \in Nat
      BY <1>0, SumPick, r \in SUBSET U DEF r
    <3>6. SumFunctionOnSet(f, s \ {p}) = f[x] + SumFunctionOnSet(f, r)
      BY <3>2, <3>3, Zenon
    <3>7. SumFunctionOnSet(f, s \ {x}) = f[p] + SumFunctionOnSet(f, r)
      BY <3>2, <3>4, Zenon
    <3> HIDE DEF W
    <3> QED
      BY <2>1, <2>2, <3>5, <3>6, <3>7
  <2> QED
    BY <2>3, <2>4
<1> HIDE DEF W
<1>2. U \in W
  BY <1>1, FiniteSetInduction
<1> QED
  BY <1>2 DEF W

(* Larger terms have a larger sum. *)
LEMMA SumMonotonic ==
    ASSUME NEW U, IsFiniteSet(U), NEW f, NEW g,
           \A x \in U : f[x] \in Nat /\ g[x] \in Nat /\ f[x] <= g[x]
    PROVE  SumFunctionOnSet(f, U) <= SumFunctionOnSet(g, U)
<1> DEFINE W == {s \in SUBSET U : SumFunctionOnSet(f, s) <= SumFunctionOnSet(g, s)}
<1>0. \A s \in SUBSET U : IsFiniteSet(s) /\ \A x \in s : f[x] \in Nat /\ g[x] \in Nat
  BY FS_Subset
<1>1. ASSUME NEW s \in SUBSET U, \A x \in s : s \ {x} \in W PROVE s \in W
  <2>1. CASE s = {}
    <3>1. SumFunctionOnSet(f, s) = 0 /\ SumFunctionOnSet(g, s) = 0
      BY <1>0, <2>1, SumPick
    <3> QED
      BY <3>1
  <2>2. CASE s # {}
    <3>1. PICK x \in s : TRUE
      BY <2>2
    <3>2. SumFunctionOnSet(f, s) = f[x] + SumFunctionOnSet(f, s \ {x})
      BY <1>0, SumRemove
    <3>3. SumFunctionOnSet(g, s) = g[x] + SumFunctionOnSet(g, s \ {x})
      BY <1>0, SumRemove
    <3>4. SumFunctionOnSet(f, s \ {x}) \in Nat /\ SumFunctionOnSet(g, s \ {x}) \in Nat
      <4>1. s \ {x} \in SUBSET U
        OBVIOUS
      <4> QED
        BY <1>0, <4>1, SumPick
    <3>5. SumFunctionOnSet(f, s \ {x}) <= SumFunctionOnSet(g, s \ {x})
      BY <1>1
    <3>6. f[x] \in Nat /\ g[x] \in Nat /\ f[x] <= g[x]
      OBVIOUS
    <3> HIDE DEF W
    <3>7. SumFunctionOnSet(f, s) <= SumFunctionOnSet(g, s)
      BY <3>2, <3>3, <3>4, <3>5, <3>6
    <3> QED
      BY <3>7 DEF W
  <2> QED
    BY <2>1, <2>2
<1> HIDE DEF W
<1>2. U \in W
  BY <1>1, FiniteSetInduction
<1> QED
  BY <1>2 DEF W

(* Equal terms have equal sums. *)
LEMMA SumAgree ==
    ASSUME NEW U, IsFiniteSet(U), NEW f, NEW g, \A x \in U : f[x] \in Nat /\ g[x] = f[x]
    PROVE  SumFunctionOnSet(g, U) = SumFunctionOnSet(f, U)
<1>1. SumFunctionOnSet(f, U) <= SumFunctionOnSet(g, U) /\ SumFunctionOnSet(g, U) <= SumFunctionOnSet(f, U)
  BY SumMonotonic
<1>2. SumFunctionOnSet(f, U) \in Nat /\ SumFunctionOnSet(g, U) \in Nat
  BY SumPick
<1> QED
  BY <1>1, <1>2

(* A sum of more terms is not smaller. *)
LEMMA SumSubset ==
    ASSUME NEW U, IsFiniteSet(U), NEW V \in SUBSET U, NEW f, \A x \in U : f[x] \in Nat
    PROVE  SumFunctionOnSet(f, V) <= SumFunctionOnSet(f, U)
<1> DEFINE W == {s \in SUBSET U : SumFunctionOnSet(f, s \cap V) <= SumFunctionOnSet(f, s)}
<1>0. \A s \in SUBSET U : IsFiniteSet(s) /\ SumFunctionOnSet(f, s) \in Nat
  BY FS_Subset, SumPick
<1>1. ASSUME NEW s \in SUBSET U, \A x \in s : s \ {x} \in W PROVE s \in W
  <2>1. CASE s \subseteq V
    <3>1. s \cap V = s
      BY <2>1
    <3> QED
      BY <1>0, <3>1
  <2>2. CASE ~(s \subseteq V)
    <3>1. PICK x \in s : x \notin V
      BY <2>2
    <3>2. SumFunctionOnSet(f, s) = f[x] + SumFunctionOnSet(f, s \ {x})
      BY <1>0, SumRemove
    <3>3. (s \ {x}) \cap V = s \cap V
      BY <3>1
    <3>4. SumFunctionOnSet(f, (s \ {x}) \cap V) <= SumFunctionOnSet(f, s \ {x})
      BY <1>1
    <3>5. s \ {x} \in SUBSET U /\ s \cap V \in SUBSET U /\ f[x] \in Nat
      OBVIOUS
    <3> HIDE DEF W
    <3>6. SumFunctionOnSet(f, s \cap V) <= SumFunctionOnSet(f, s)
      BY <1>0, <3>2, <3>3, <3>4, <3>5
    <3> QED
      BY <3>6 DEF W
  <2> QED
    BY <2>1, <2>2
<1> HIDE DEF W
<1>2. U \in W
  BY <1>1, FiniteSetInduction
<1>3. U \cap V = V
  OBVIOUS
<1> QED
  BY <1>2, <1>3 DEF W

(* One more of one term. *)
LEMMA SumIncrement ==
    ASSUME NEW U, IsFiniteSet(U), NEW f, NEW g, NEW y,
           \A x \in U : f[x] \in Nat /\ g[x] = IF x = y THEN f[x] + 1 ELSE f[x]
    PROVE  SumFunctionOnSet(g, U) = IF y \in U THEN SumFunctionOnSet(f, U) + 1 ELSE SumFunctionOnSet(f, U)
<1>1. CASE y \notin U
  BY <1>1, SumAgree
<1>2. CASE y \in U
  <2> DEFINE V == U \ {y}
  <2>1. IsFiniteSet(V)
    BY FS_RemoveElement
  <2>2. \A x \in V : f[x] \in Nat /\ g[x] = f[x]
    OBVIOUS
  <2>3. SumFunctionOnSet(g, V) = SumFunctionOnSet(f, V) /\ SumFunctionOnSet(f, V) \in Nat
    BY <2>1, <2>2, SumAgree, SumPick
  <2>4. SumFunctionOnSet(f, U) = f[y] + SumFunctionOnSet(f, V)
    BY <1>2, SumRemove
  <2>5. \A x \in U : g[x] \in Nat
    OBVIOUS
  <2>6. SumFunctionOnSet(g, U) = g[y] + SumFunctionOnSet(g, V)
    BY <1>2, <2>5, SumRemove
  <2>7. f[y] \in Nat /\ g[y] = f[y] + 1
    BY <1>2
  <2> HIDE DEF V
  <2> QED
    BY <1>2, <2>3, <2>4, <2>6, <2>7
<1> QED
  BY <1>1, <1>2

(* Terms that are zero do not count. *)
LEMMA SumSupport ==
    ASSUME NEW U, IsFiniteSet(U), NEW V \in SUBSET U, NEW f,
           \A x \in U : f[x] \in Nat, \A x \in U \ V : f[x] = 0
    PROVE  SumFunctionOnSet(f, U) = SumFunctionOnSet(f, V)
<1> DEFINE W == {s \in SUBSET U : SumFunctionOnSet(f, s \cap V) = SumFunctionOnSet(f, s)}
<1>0. \A s \in SUBSET U : IsFiniteSet(s) /\ SumFunctionOnSet(f, s) \in Nat
  BY FS_Subset, SumPick
<1>1. ASSUME NEW s \in SUBSET U, \A x \in s : s \ {x} \in W PROVE s \in W
  <2>1. CASE s \subseteq V
    <3>1. s \cap V = s
      BY <2>1
    <3> QED
      BY <3>1
  <2>2. CASE ~(s \subseteq V)
    <3>1. PICK x \in s : x \notin V
      BY <2>2
    <3>2. SumFunctionOnSet(f, s) = f[x] + SumFunctionOnSet(f, s \ {x})
      BY <1>0, SumRemove
    <3>3. (s \ {x}) \cap V = s \cap V
      BY <3>1
    <3>4. SumFunctionOnSet(f, (s \ {x}) \cap V) = SumFunctionOnSet(f, s \ {x})
      BY <1>1
    <3>5. s \ {x} \in SUBSET U /\ f[x] = 0
      BY <3>1
    <3> HIDE DEF W
    <3>6. SumFunctionOnSet(f, s) = SumFunctionOnSet(f, s \ {x})
      BY <1>0, <3>2, <3>5
    <3>7. SumFunctionOnSet(f, s \cap V) = SumFunctionOnSet(f, s)
      BY <3>3, <3>4, <3>6, Zenon
    <3> QED
      BY <3>7 DEF W
  <2> QED
    BY <2>1, <2>2
<1> HIDE DEF W
<1>2. U \in W
  BY <1>1, FiniteSetInduction
<1>3. U \cap V = V
  OBVIOUS
<1> QED
  BY <1>2, <1>3 DEF W

-------------------------------------------------------------------------------
(* Sequences *)

(* A function on 1..n is a sequence of length n. *)
LEMMA FcnIsSeq ==
    ASSUME NEW S, NEW n \in Nat, NEW f \in [1..n -> S]
    PROVE  f \in Seq(S) /\ Len(f) = n
<1>1. f \in Seq(S)
  BY SeqDef
<1>2. DOMAIN f = 1..Len(f) /\ Len(f) \in Nat /\ DOMAIN f = 1..n
  BY <1>1, LenProperties
<1> QED
  BY <1>1, <1>2

(* Concatenation. *)
Joined(s, t) == s \o t
(* It associates. *)
LEMMA JoinedAssociates ==
    \A s, t, u \in Seq(Byte) : Joined(Joined(s, t), u) = Joined(s, Joined(t, u))
<1> SUFFICES ASSUME NEW s \in Seq(Byte), NEW t \in Seq(Byte), NEW u \in Seq(Byte)
             PROVE  Joined(Joined(s, t), u) = Joined(s, Joined(t, u))
  OBVIOUS
<1>1. (s \o t) \o u = s \o (t \o u)
  BY ConcatAssociative
<1> QED
  BY <1>1, Zenon DEF Joined

(* The first k bytes. *)
Prefix(data, k) == [i \in 1..k |-> data[i]]

(* A sequence with one element more. *)
LEMMA AppendIs ==
    ASSUME NEW S, NEW s \in Seq(S), NEW e \in S, NEW t \in Seq(S),
           Len(t) = Len(s) + 1, \A i \in 1..Len(s) : t[i] = s[i], t[Len(s) + 1] = e
    PROVE  Append(s, e) = t
<1> DEFINE u == Append(s, e)
<1>1. u \in Seq(S) /\ Len(u) = Len(s) + 1 /\ (\A i \in 1..Len(s) : u[i] = s[i]) /\ u[Len(s) + 1] = e
  BY AppendProperties
<1>2. Len(s) \in Nat
  BY LenProperties
<1> HIDE DEF u
<1>3. \A i \in 1..Len(u) : i \in 1..Len(s) \/ i = Len(s) + 1
  BY <1>1, <1>2
<1>4. \A i \in 1..Len(u) : u[i] = t[i]
  BY <1>1, <1>3
<1>5. u = t
  BY <1>1, <1>4, SeqEqual
<1> QED
  BY <1>5 DEF u

(* Short sequences put together. *)
LEMMA Shorts ==
    ASSUME NEW S, NEW x \in S, NEW y \in S, NEW z \in S
    PROVE  /\ <<x>> \o <<>> \o <<>> = <<x>>
           /\ <<x>> \o <<y>> \o <<>> = <<x, y>>
           /\ <<x>> \o <<y>> \o <<z>> = <<x, y, z>>
<1>1. <<x>> \in Seq(S) /\ <<y>> \in Seq(S) /\ <<z>> \in Seq(S) /\ <<x, y>> \in Seq(S)
  OBVIOUS
<1>2. <<x>> \o <<>> = <<x>> /\ <<x, y>> \o <<>> = <<x, y>>
  BY <1>1, ConcatEmptySeq
<1>3. <<x>> \o <<y>> = <<x, y>>
  <2> DEFINE s == <<x>>
             t == <<x, y>>
  <2>1. s \in Seq(S) /\ Len(s) = 1 /\ s[1] = x /\ t \in Seq(S) /\ Len(t) = 2 /\ t[1] = x /\ t[2] = y
    OBVIOUS
  <2> HIDE DEF s, t
  <2>2. \A i \in 1..Len(s) : i = 1
    BY <2>1
  <2>3. Append(s, y) = t
    <3>1. Len(t) = Len(s) + 1 /\ (\A i \in 1..Len(s) : t[i] = s[i]) /\ t[Len(s) + 1] = y
      BY <2>1, <2>2
    <3>2. s \in Seq(S) /\ t \in Seq(S)
      BY <2>1
    <3> QED
      BY <3>1, <3>2, AppendIs
  <2> QED
    BY <1>1, <2>3, AppendIsConcat DEF s, t
<1>4. <<x, y>> \o <<z>> = <<x, y, z>>
  <2> DEFINE s == <<x, y>>
             t == <<x, y, z>>
  <2>1. /\ s \in Seq(S) /\ Len(s) = 2 /\ s[1] = x /\ s[2] = y
        /\ t \in Seq(S) /\ Len(t) = 3 /\ t[1] = x /\ t[2] = y /\ t[3] = z
    OBVIOUS
  <2> HIDE DEF s, t
  <2>2. \A i \in 1..Len(s) : i = 1 \/ i = 2
    BY <2>1
  <2>3. Append(s, z) = t
    <3>1. Len(t) = Len(s) + 1 /\ (\A i \in 1..Len(s) : t[i] = s[i]) /\ t[Len(s) + 1] = z
      BY <2>1, <2>2
    <3>2. s \in Seq(S) /\ t \in Seq(S)
      BY <2>1
    <3> QED
      BY <3>1, <3>2, AppendIs
  <2> QED
    BY <1>1, <2>3, AppendIsConcat DEF s, t
<1> QED
  BY <1>2, <1>3, <1>4

-------------------------------------------------------------------------------
(* Admission: the sliding window *)

(* The fields of a job. *)
JobFields == {"pc", "ip", "path", "name", "token", "stamp"}

(* What a thread keeps of its request: an address, and in eval a stamp     *)
(* that the clock has reached.                                             *)
GoodJob(j) ==
    /\ DOMAIN j = JobFields
    /\ j.pc # "idle" => j.ip \in Ip
    /\ j.pc = "eval" => j.stamp \in Time /\ j.stamp <= now

(* The types of what the limiter keeps. *)
AdmitType ==
    /\ now \in Time /\ faults \in Nat
    /\ zset \in [Ip -> [Time -> Nat]] /\ admitted \in [Ip -> [Time -> Nat]]
    /\ expiry \in [Ip -> Nat]
    /\ DOMAIN job = Thread /\ \A t \in Thread : GoodJob(job[t])

(* What the sorted set has was let through, by now, and its key is not     *)
(* dropped before it has left every window it is in.                       *)
Stored ==
    \A i \in Ip, s \in Time :
        /\ zset[i][s] <= admitted[i][s]
        /\ zset[i][s] > 0 => s <= now /\ s + Window <= expiry[i]

(* The stamps of the window that ends at to, and the threads that have read the clock by then. *)
Span(to) == {s \in Time : to - Window < s /\ s <= to}
Late(to) == {t \in Thread : job[t].pc = "eval" /\ job[t].stamp <= to}

(* Either the sorted set still has every member with a stamp in the        *)
(* window, and they are no more than the limit; or the window is over, and *)
(* only the threads that have a stamp in it can be let through.            *)
Whole(i, to) ==
    /\ \A s \in Span(to) : zset[i][s] = admitted[i][s]
    /\ InWindow(i, to - Window, to) <= Limit
Over(i, to) ==
    /\ to < now
    /\ InWindow(i, to - Window, to) + Cardinality(Late(to)) <= Limit + Cardinality(Thread)
Windows == \A i \in Ip, to \in Time : Whole(i, to) \/ Over(i, to)

(* The inductive invariant of the limiter. *)
AdmitInv == AdmitType /\ Stored /\ Windows

-------------------------------------------------------------------------------
(* The stamps are finitely many, and so are the threads. *)
LEMMA Finite ==
    /\ IsFiniteSet(Time) /\ \A to : IsFiniteSet(Span(to)) /\ Span(to) \in SUBSET Time
    /\ \A to : IsFiniteSet(Late(to)) /\ Cardinality(Late(to)) \in Nat /\ Cardinality(Late(to)) <= Cardinality(Thread)
    /\ Cardinality(Thread) \in Nat
<1>1. IsFiniteSet(Time)
  BY FS_Interval, AdmissionAssumption DEF Time
<1>2. \A to : Span(to) \in SUBSET Time /\ Late(to) \in SUBSET Thread
  BY DEF Span, Late
<1>3. IsFiniteSet(Thread)
  BY AdmissionAssumption
<1> QED
  BY <1>1, <1>2, <1>3, FS_Subset, FS_CardinalityType

(* InWindow is a sum over a span. *)
LEMMA InWindowSpan ==
    ASSUME AdmitType, NEW i \in Ip, NEW to \in Time
    PROVE  /\ InWindow(i, to - Window, to) = SumFunctionOnSet(admitted[i], Span(to))
           /\ InWindow(i, to - Window, to) \in Nat
<1>1. InWindow(i, to - Window, to) = SumFunctionOnSet(admitted[i], Span(to))
  BY DEF InWindow, Span
<1>2. \A s \in Span(to) : admitted[i][s] \in Nat
  BY DEF AdmitType, Span
<1> QED
  BY <1>1, <1>2, Finite, SumPick

(* What Recent leaves. *)
LEMMA RecentStamps ==
    ASSUME AdmitType, NEW i \in Ip, NEW ts \in Time
    PROVE  LET recent == Recent(zset[i], ts) IN
           /\ recent \in [Time -> Nat] /\ DOMAIN recent = Time
           /\ \A s \in Time : recent[s] = IF s <= ts - Window THEN 0 ELSE zset[i][s]
           /\ SumFunctionOnSet(recent, Time) \in Nat
           /\ Full(recent) <=> SumFunctionOnSet(recent, Time) >= Limit
<1> DEFINE recent == Recent(zset[i], ts)
<1>1. recent \in [Time -> Nat] /\ DOMAIN recent = Time
  BY DEF AdmitType, Recent
<1>2. \A s \in Time : recent[s] = IF s <= ts - Window THEN 0 ELSE zset[i][s]
  BY DEF Recent
<1>3. SumFunctionOnSet(recent, Time) \in Nat
  BY <1>1, Finite, SumPick
<1>4. Full(recent) <=> SumFunctionOnSet(recent, Time) >= Limit
  BY <1>1 DEF Full, SumFunction
<1> QED
  BY <1>1, <1>2, <1>3, <1>4

(* What a step of a thread does to the jobs. *)
LEMMA JobStep ==
    ASSUME AdmitType, NEW t \in Thread, NEW j, Become(t, j)
    PROVE  /\ DOMAIN job' = Thread /\ job'[t] = j
           /\ \A u \in Thread \ {t} : job'[u] = job[u]
BY DEF AdmitType, Become

(* It holds at the start. *)
LEMMA AdmitInitInv == AdmitInit => AdmitInv
<1> SUFFICES ASSUME AdmitInit PROVE AdmitInv
  OBVIOUS
<1> USE AdmissionAssumption
<1>1. AdmitType
  BY DEF AdmitInit, AdmitType, GoodJob, IdleJob, JobFields, Time, NoStamps
<1>2. Stored
  BY DEF AdmitInit, Stored, NoStamps, Time
<1>3. ASSUME NEW i \in Ip, NEW to \in Time PROVE Whole(i, to)
  <2>1. \A s \in Span(to) : zset[i][s] = 0 /\ admitted[i][s] = 0
    BY DEF AdmitInit, NoStamps, Span
  <2>2. SumFunctionOnSet(admitted[i], Span(to)) = SumFunctionOnSet(admitted[i], {})
    BY <2>1, Finite, SumSupport
  <2>3. SumFunctionOnSet(admitted[i], {}) = 0
    BY SumPick, FS_EmptySet
  <2> QED
    BY <1>1, <2>1, <2>2, <2>3, InWindowSpan DEF Whole
<1> QED
  BY <1>1, <1>2, <1>3 DEF AdmitInv, Windows

(* The steps that leave the limiter's state alone give no thread a stamp   *)
(* but the present one.                                                    *)
Calm ==
    /\ UNCHANGED <<now, zset, expiry, admitted>> /\ faults' \in Nat
    /\ DOMAIN job' = Thread /\ \A t \in Thread : GoodJob(job[t])' /\
           (job'[t] = job[t] \/ job'[t].pc # "eval" \/ job'[t].stamp = now)

(* The address that resolve_client_ip finds is one of a client. *)
LEMMA Resolved ==
    ASSUME NEW peer \in Ip, NEW forwarded \in {<<>>} \cup {<<i>> : i \in Ip \cup {None}}
    PROVE  resolve_client_ip(forwarded, peer) \in Ip
<1>1. CASE forwarded = <<>>
  BY <1>1 DEF resolve_client_ip
<1>2. ASSUME NEW i \in Ip \cup {None}, forwarded = <<i>> PROVE resolve_client_ip(forwarded, peer) \in Ip
  <2>1. Head(forwarded) = i
    BY <1>2
  <2> QED
    BY <2>1 DEF resolve_client_ip
<1> QED
  BY <1>1, <1>2

(* A thread that goes on outside the script changes nothing the window depends on. *)
LEMMA BecomeCalm ==
    ASSUME AdmitType, NEW t \in Thread, NEW j, Become(t, j),
           DOMAIN j = JobFields,
           j.pc # "idle" => j.ip \in Ip, j.pc = "eval" => j.stamp = now,
           UNCHANGED <<now, zset, expiry, admitted, faults>>
    PROVE  Calm
<1>1. /\ DOMAIN job' = Thread /\ job'[t] = j
      /\ \A u \in Thread \ {t} : job'[u] = job[u]
  BY JobStep
<1>2. now \in Time /\ now \in Int /\ faults \in Nat
  BY AdmissionAssumption DEF AdmitType, Time
<1>3. \A u \in Thread \ {t} : GoodJob(job[u])'
  BY <1>1 DEF AdmitType, GoodJob
<1>4. GoodJob(job[t])'
  BY <1>1, <1>2 DEF GoodJob
<1> QED
  BY <1>1, <1>2, <1>3, <1>4 DEF Calm

(* So a request that arrives, *)
LEMMA ArriveCalm ==
    ASSUME AdmitType, NEW t \in Thread, NEW path, NEW peer \in Ip, NEW name, NEW token,
           NEW forwarded \in {<<>>} \cup {<<i>> : i \in Ip \cup {None}},
           Arrive(t, path, forwarded, peer, name, token)
    PROVE  Calm
<1> DEFINE j == [IdleJob EXCEPT !.pc = IF is_exempt(path) THEN "authenticate" ELSE "allow",
                                !.ip = resolve_client_ip(forwarded, peer),
                                !.path = path, !.name = name, !.token = token]
<1>1. Become(t, j) /\ UNCHANGED <<now, zset, expiry, admitted, faults>>
  BY DEF Arrive
<1>2. /\ DOMAIN j = JobFields
      /\ j.ip \in Ip /\ j.pc # "eval"
  BY Resolved DEF IdleJob, JobFields
<1> QED
  BY <1>1, <1>2, BecomeCalm

(* a step of a thread, *)
LEMMA StepCalm ==
    ASSUME AdmitType, NEW t \in Thread,
           Allow(t) \/ EvalLost(t) \/ Authenticate(t) \/ Dispatch(t) \/ IssueToken(t)
    PROVE  Calm
<1>0. GoodJob(job[t])
  BY DEF AdmitType
<1>1. UNCHANGED <<now, zset, expiry, admitted, faults>> /\ job[t].pc # "idle"
  BY DEF Allow, EvalLost, Authenticate, Dispatch, IssueToken
<1>2. CASE Answer(t)
  <2>1. Become(t, IdleJob)
    BY <1>2 DEF Answer
  <2> QED
    BY <1>1, <2>1, BecomeCalm DEF IdleJob, JobFields
<1>3. ASSUME NEW l \in {"authenticate", "dispatch", "issue_token"}, Goto(t, l) PROVE Calm
  <2> DEFINE j == [job[t] EXCEPT !.pc = l]
  <2>1. Become(t, j)
    BY <1>3 DEF Goto
  <2>2. /\ DOMAIN j = JobFields
        /\ j.pc # "eval" /\ j.ip \in Ip
    BY <1>0, <1>1 DEF GoodJob, JobFields
  <2> QED
    BY <1>1, <2>1, <2>2, BecomeCalm
<1>4. CASE Become(t, [job[t] EXCEPT !.pc = "eval", !.stamp = now])
  <2> DEFINE j == [job[t] EXCEPT !.pc = "eval", !.stamp = now]
  <2>1. /\ DOMAIN j = JobFields
        /\ j.stamp = now /\ j.ip \in Ip
    BY <1>0, <1>1 DEF GoodJob, JobFields
  <2> QED
    BY <1>1, <1>4, <2>1, BecomeCalm
<1>5. CASE Become(t, [job[t] EXCEPT !.pc = "dispatch", !.name = verify(job[t].token)])
  <2> DEFINE j == [job[t] EXCEPT !.pc = "dispatch", !.name = verify(job[t].token)]
  <2>1. /\ DOMAIN j = JobFields
        /\ j.pc # "eval" /\ j.ip \in Ip
    BY <1>0, <1>1 DEF GoodJob, JobFields
  <2> QED
    BY <1>1, <1>5, <2>1, BecomeCalm
<1> QED
  BY <1>2, <1>3, <1>4, <1>5 DEF Allow, EvalLost, Authenticate, Dispatch, IssueToken

(* and a fault. *)
LEMMA FaultCalm == ASSUME AdmitType, LoseRedis \/ Restart PROVE Calm
<1>1. UNCHANGED <<now, zset, expiry, admitted>> /\ faults' \in Nat
  BY DEF LoseRedis, Restart, Fault, AdmitType
<1>2. CASE LoseRedis
  BY <1>1, <1>2 DEF LoseRedis, Calm, AdmitType, GoodJob
<1>3. CASE Restart
  BY <1>1, <1>3 DEF Restart, Calm, GoodJob, IdleJob, JobFields
<1> QED
  BY <1>2, <1>3

(* Fewer threads have a stamp in a window that is over. *)
LEMMA FewerLate ==
    ASSUME NEW to, Late(to)' \subseteq Late(to)
    PROVE  Cardinality(Late(to)') <= Cardinality(Late(to)) /\ Cardinality(Late(to)') \in Nat
<1>1. IsFiniteSet(Late(to))
  BY Finite
<1>2. IsFiniteSet(Late(to)')
  BY <1>1, FS_Subset
<1> QED
  BY <1>1, <1>2, FS_Subset, FS_CardinalityType

(* Such a step keeps the invariant. *)
LEMMA CalmKeeps == ASSUME AdmitInv, Calm PROVE AdmitInv'
<1>0. AdmitType /\ Stored /\ Windows
  BY DEF AdmitInv
<1>1. AdmitType'
  BY <1>0 DEF Calm, AdmitType
<1>2. Stored'
  BY <1>0 DEF Calm, Stored
<1>3. ASSUME NEW i \in Ip, NEW to \in Time PROVE Whole(i, to)' \/ Over(i, to)'
  <2>1. InWindow(i, to - Window, to)' = InWindow(i, to - Window, to)
    BY DEF Calm, InWindow
  <2>2. CASE Whole(i, to)
    BY <2>1, <2>2 DEF Calm, Whole, Span
  <2>3. CASE Over(i, to)
    <3>1. to < now /\ now \in Int /\ to \in Int
      BY <1>0, <2>3, AdmissionAssumption DEF Over, AdmitType, Time
    <3>2. Late(to)' \subseteq Late(to)
      BY <3>1 DEF Late, Calm
    <3>3. Cardinality(Late(to)') <= Cardinality(Late(to)) /\ Cardinality(Late(to)') \in Nat
      BY <3>2, FewerLate
    <3>4. InWindow(i, to - Window, to) \in Nat /\ Cardinality(Late(to)) \in Nat /\ Cardinality(Thread) \in Nat /\ Limit \in Nat
      BY <1>0, InWindowSpan, Finite, AdmissionAssumption
    <3>5. InWindow(i, to - Window, to)' + Cardinality(Late(to)') <= Limit + Cardinality(Thread)
      BY <2>1, <2>3, <3>3, <3>4 DEF Over
    <3>6. now' = now
      BY DEF Calm
    <3> QED
      BY <3>1, <3>5, <3>6 DEF Over
  <2> QED
    BY <1>0, <2>2, <2>3 DEF Windows
<1> QED
  BY <1>1, <1>2, <1>3 DEF AdmitInv, Windows

(* Time passes. *)
LEMMA TickKeeps == ASSUME AdmitInv, Tick PROVE AdmitInv'
<1>0. AdmitType /\ Stored /\ Windows
  BY DEF AdmitInv
<1> USE AdmissionAssumption
<1>1. /\ now \in Time /\ now' = now + 1 /\ now' \in Time /\ now \in Int
      /\ UNCHANGED <<admitted, expiry, job, faults>>
  BY <1>0 DEF Tick, AdmitType, Time
<1>2. \A i \in Ip : zset'[i] = IF expiry[i] < now' THEN NoStamps ELSE zset[i]
  BY DEF Tick
<1>3. AdmitType'
  <2>1. zset' \in [Ip -> [Time -> Nat]]
    <3>1. NoStamps \in [Time -> Nat]
      BY DEF NoStamps
    <3>2. \A i \in Ip : zset'[i] \in [Time -> Nat]
      BY <1>0, <1>2, <3>1 DEF AdmitType
    <3>3. zset' = [i \in Ip |-> zset'[i]]
      BY DEF Tick
    <3> QED
      BY <3>2, <3>3
  <2>2. ASSUME NEW t \in Thread PROVE GoodJob(job[t])'
    <3>1. GoodJob(job[t]) /\ job'[t] = job[t]
      BY <1>0, <1>1 DEF AdmitType
    <3> QED
      BY <1>1, <3>1 DEF GoodJob, Time
  <2> QED
    BY <1>0, <1>1, <2>1, <2>2 DEF AdmitType
<1>4. Stored'
  <2> SUFFICES ASSUME NEW i \in Ip, NEW s \in Time
               PROVE  /\ zset'[i][s] <= admitted'[i][s]
                      /\ zset'[i][s] > 0 => s <= now' /\ s + Window <= expiry'[i]
    BY DEF Stored
  <2>1. /\ zset[i][s] <= admitted[i][s]
        /\ zset[i][s] > 0 => s <= now /\ s + Window <= expiry[i]
    BY <1>0 DEF Stored
  <2>2. zset'[i][s] = zset[i][s] \/ zset'[i][s] = 0
    BY <1>2 DEF NoStamps
  <2>3. admitted[i][s] \in Nat /\ s \in Int
    BY <1>0 DEF AdmitType, Time
  <2> QED
    BY <1>1, <2>1, <2>2, <2>3
<1>5. ASSUME NEW i \in Ip, NEW to \in Time PROVE Whole(i, to)' \/ Over(i, to)'
  <2>1. InWindow(i, to - Window, to)' = InWindow(i, to - Window, to) /\ Late(to)' = Late(to) /\ to \in Int
    BY <1>1 DEF InWindow, Late, Time
  <2>2. InWindow(i, to - Window, to) \in Nat /\ Cardinality(Late(to)) \in Nat
        /\ Cardinality(Late(to)) <= Cardinality(Thread) /\ Cardinality(Thread) \in Nat /\ Limit \in Nat
    BY <1>0, InWindowSpan, Finite
  <2>3. CASE Over(i, to)
    BY <1>1, <2>1, <2>3 DEF Over
  <2>4. CASE Whole(i, to) /\ \E s \in Span(to) : zset'[i][s] # zset[i][s]
    <3>1. PICK s \in Span(to) : zset'[i][s] # zset[i][s]
      BY <2>4
    <3>2. s \in Time /\ s \in Int /\ to - Window < s /\ expiry[i] < now' /\ zset[i][s] # 0
      BY <1>2, <3>1 DEF Span, Time, NoStamps
    <3>3. zset[i][s] > 0 /\ s + Window <= expiry[i] /\ expiry[i] \in Int
      BY <1>0, <3>2 DEF AdmitType, Stored
    <3>4. to < now'
      BY <1>1, <2>1, <3>2, <3>3
    <3>5. InWindow(i, to - Window, to)' + Cardinality(Late(to)') <= Limit + Cardinality(Thread)
      BY <2>1, <2>2, <2>4 DEF Whole
    <3> QED
      BY <3>4, <3>5 DEF Over
  <2>5. CASE Whole(i, to) /\ \A s \in Span(to) : zset'[i][s] = zset[i][s]
    BY <1>1, <2>1, <2>5 DEF Whole, Span
  <2> QED
    BY <1>0, <2>3, <2>4, <2>5 DEF Windows
<1> QED
  BY <1>3, <1>4, <1>5 DEF AdmitInv, Windows

(* The script: what it does to the sorted set and to the jobs. *)
LEMMA EvalEffect ==
    ASSUME AdmitType, NEW t \in Thread, Eval(t)
    PROVE  LET i == job[t].ip
               ts == job[t].stamp
               recent == Recent(zset[i], ts) IN
           /\ i \in Ip /\ ts \in Time /\ ts <= now /\ UNCHANGED <<now, faults>>
           /\ DOMAIN job' = Thread /\ job'[t].pc # "eval" /\ GoodJob(job[t])'
           /\ \A u \in Thread \ {t} : job'[u] = job[u]
           /\ \/ /\ Full(recent) /\ zset' = [zset EXCEPT ![i] = recent]
                 /\ job'[t].pc = "idle" /\ UNCHANGED <<expiry, admitted>>
              \/ /\ ~Full(recent) /\ zset' = [zset EXCEPT ![i] = Added(recent, ts)]
                 /\ job'[t].pc # "idle"
                 /\ expiry' = [expiry EXCEPT ![i] = now + Window]
                 /\ admitted' = [admitted EXCEPT ![i][ts] = @ + 1]
<1> DEFINE i == job[t].ip
           ts == job[t].stamp
           recent == Recent(zset[i], ts)
           j == [job[t] EXCEPT !.pc = "authenticate", !.stamp = 0]
<1>1. GoodJob(job[t]) /\ job[t].pc = "eval" /\ UNCHANGED <<now, faults>>
  BY DEF AdmitType, Eval
<1>2. i \in Ip /\ ts \in Time /\ ts <= now
  BY <1>1 DEF GoodJob
<1>3. CASE /\ Full(recent) /\ zset' = [zset EXCEPT ![i] = recent]
           /\ Answer(t) /\ UNCHANGED <<expiry, admitted>>
  <2>1. /\ DOMAIN job' = Thread /\ job'[t] = IdleJob
        /\ \A u \in Thread \ {t} : job'[u] = job[u]
    BY <1>3, JobStep DEF Answer
  <2> HIDE DEF i, ts, recent, j
  <2>2. GoodJob(IdleJob)' /\ IdleJob.pc = "idle"
    BY DEF GoodJob, IdleJob, JobFields
  <2> QED
    BY <1>1, <1>2, <1>3, <2>1, <2>2 DEF i, ts, recent
<1>4. CASE /\ ~Full(recent) /\ zset' = [zset EXCEPT ![i] = Added(recent, ts)]
           /\ expiry' = [expiry EXCEPT ![i] = now + Window]
           /\ admitted' = [admitted EXCEPT ![i][ts] = @ + 1]
           /\ Become(t, j)
  <2>1. /\ DOMAIN job' = Thread /\ job'[t] = j
        /\ \A u \in Thread \ {t} : job'[u] = job[u]
    BY <1>4, JobStep
  <2>2. DOMAIN j = JobFields /\ j.pc = "authenticate" /\ j.ip \in Ip
    BY <1>1, <1>2 DEF GoodJob, JobFields
  <2> HIDE DEF i, ts, recent, j
  <2>3. GoodJob(job[t])'
    BY <2>1, <2>2 DEF GoodJob
  <2> QED
    BY <1>1, <1>2, <1>4, <2>1, <2>2, <2>3 DEF i, ts, recent
<1> QED
  BY <1>3, <1>4 DEF Eval

(* The script keeps the window: a request it lets through finds less than  *)
(* the limit in its window, and what it removes has left every window that *)
(* is not over.                                                            *)
LEMMA EvalKeeps == ASSUME AdmitInv, NEW t \in Thread, Eval(t) PROVE AdmitInv'
<1>0. AdmitType /\ Stored /\ Windows
  BY DEF AdmitInv
<1> USE AdmissionAssumption
<1> DEFINE i == job[t].ip
           ts == job[t].stamp
           recent == Recent(zset[i], ts)
           passed == ~Full(recent)
<1>1. /\ i \in Ip /\ ts \in Time /\ ts <= now /\ UNCHANGED <<now, faults>>
      /\ DOMAIN job' = Thread /\ job'[t].pc # "eval" /\ GoodJob(job[t])'
      /\ \A u \in Thread \ {t} : job'[u] = job[u]
  BY <1>0, EvalEffect
<1>2. \/ /\ ~passed /\ zset' = [zset EXCEPT ![i] = recent] /\ UNCHANGED <<expiry, admitted>>
      \/ /\ passed /\ zset' = [zset EXCEPT ![i] = Added(recent, ts)]
         /\ expiry' = [expiry EXCEPT ![i] = now + Window]
         /\ admitted' = [admitted EXCEPT ![i][ts] = @ + 1]
  BY <1>0, EvalEffect, ZenonT(60)
<1>3. /\ recent \in [Time -> Nat] /\ DOMAIN recent = Time
      /\ \A s \in Time : recent[s] = IF s <= ts - Window THEN 0 ELSE zset[i][s]
      /\ SumFunctionOnSet(recent, Time) \in Nat
      /\ ~passed <=> SumFunctionOnSet(recent, Time) >= Limit
  BY <1>0, <1>1, RecentStamps
<1>4. /\ zset \in [Ip -> [Time -> Nat]] /\ admitted \in [Ip -> [Time -> Nat]] /\ expiry \in [Ip -> Nat]
      /\ now \in Time /\ now \in Nat /\ ts \in Nat /\ Time \subseteq Int /\ Window \in Nat /\ Limit \in Nat
      /\ job[t].pc = "eval"
  <2>1. job[t].pc = "eval"
    BY DEF Eval
  <2> HIDE DEF i, ts, recent, passed
  <2>2. Time \subseteq Nat /\ Window \in Nat /\ Limit \in Nat
    BY DEF Time
  <2> QED
    BY <1>0, <1>1, <2>1, <2>2 DEF AdmitType
<1> HIDE DEF i, ts, recent, passed
<1>5. \A s \in Time : /\ zset'[i][s] = IF passed /\ s = ts THEN recent[s] + 1 ELSE recent[s]
                      /\ admitted'[i][s] = IF passed /\ s = ts THEN admitted[i][s] + 1 ELSE admitted[i][s]
  BY <1>1, <1>2, <1>3, <1>4, SMTT(60) DEF Added
<1>6. \A k \in Ip \ {i} : zset'[k] = zset[k] /\ admitted'[k] = admitted[k] /\ expiry'[k] = expiry[k]
  BY <1>1, <1>2, <1>4
<1>7. expiry'[i] = IF passed THEN now + Window ELSE expiry[i]
  BY <1>1, <1>2, <1>4
<1>8. AdmitType'
  <2>1. /\ zset' \in [Ip -> [Time -> Nat]] /\ admitted' \in [Ip -> [Time -> Nat]]
        /\ expiry' \in [Ip -> Nat]
    <3>1. Added(recent, ts) \in [Time -> Nat]
      BY <1>1, <1>3 DEF Added
    <3>2. now + Window \in Nat /\ [admitted[i] EXCEPT ![ts] = @ + 1] \in [Time -> Nat]
      BY <1>1, <1>4
    <3>3. zset' \in [Ip -> [Time -> Nat]]
      BY <1>1, <1>2, <1>3, <1>4, <3>1
    <3>4. admitted' \in [Ip -> [Time -> Nat]]
      BY <1>1, <1>2, <1>4, <3>2
    <3>5. expiry' \in [Ip -> Nat]
      BY <1>1, <1>2, <1>4, <3>2
    <3> QED
      BY <3>3, <3>4, <3>5
  <2>2. \A u \in Thread : GoodJob(job[u])'
    BY <1>0, <1>1 DEF AdmitType, GoodJob
  <2> QED
    BY <1>0, <1>1, <2>1, <2>2 DEF AdmitType
<1>9. Stored'
  <2> SUFFICES ASSUME NEW k \in Ip, NEW s \in Time
               PROVE  /\ zset'[k][s] <= admitted'[k][s]
                      /\ zset'[k][s] > 0 => s <= now' /\ s + Window <= expiry'[k]
    BY DEF Stored
  <2>1. /\ zset[k][s] <= admitted[k][s]
        /\ zset[k][s] > 0 => s <= now /\ s + Window <= expiry[k]
    BY <1>0 DEF Stored
  <2>2. zset[k][s] \in Nat /\ admitted[k][s] \in Nat /\ s \in Int /\ expiry[k] \in Int
    BY <1>4
  <2>3. CASE k # i
    BY <1>1, <1>6, <2>1, <2>3
  <2>4. CASE k = i
    <3> DEFINE z == zset[i][s]
               a == admitted[i][s]
               r == recent[s]
    <3>1. /\ zset'[i][s] = IF passed /\ s = ts THEN r + 1 ELSE r
          /\ admitted'[i][s] = IF passed /\ s = ts THEN a + 1 ELSE a
      BY <1>5
    <3>2. r \in Nat /\ (r = 0 \/ r = z)
      BY <1>3
    <3>3. z <= a /\ (z > 0 => s <= now /\ s + Window <= expiry[i]) /\ z \in Nat /\ a \in Nat /\ expiry[i] \in Int
      BY <2>1, <2>2, <2>4
    <3>4. now' = now /\ now \in Nat /\ ts \in Nat /\ ts <= now /\ Window \in Nat /\ s \in Int
      BY <1>1, <1>4, <2>2
    <3> HIDE DEF z, a, r
    <3>5. zset'[i][s] <= admitted'[i][s]
      BY <3>1, <3>2, <3>3
    <3>6. zset'[i][s] > 0 => s <= now /\ (s + Window <= expiry[i] \/ (s = ts /\ passed))
      BY <3>1, <3>2, <3>3, <3>4
    <3>7. zset'[i][s] > 0 => s <= now' /\ s + Window <= expiry'[i]
      BY <1>7, <3>3, <3>4, <3>6
    <3> QED
      BY <2>4, <3>5, <3>7
  <2> QED
    BY <2>3, <2>4
<1>10. ASSUME NEW k \in Ip, NEW to \in Time PROVE Whole(k, to)' \/ Over(k, to)'
  <2> DEFINE In == InWindow(k, to - Window, to)
  <2>1. /\ In = SumFunctionOnSet(admitted[k], Span(to)) /\ In \in Nat
        /\ In' = SumFunctionOnSet(admitted'[k], Span(to)) /\ In' \in Nat
    <3>1. In' = SumFunctionOnSet(admitted'[k], Span(to))
      BY DEF InWindow, Span
    <3>2. \A s \in Span(to) : admitted'[k][s] \in Nat
      BY <1>8 DEF AdmitType, Span
    <3> QED
      BY <1>0, <3>1, <3>2, InWindowSpan, Finite, SumPick
  <2> HIDE DEF In
  <2>2. IsFiniteSet(Span(to)) /\ Span(to) \subseteq Time
    BY Finite
  <2>3. In' = IF passed /\ k = i /\ ts \in Span(to) THEN In + 1 ELSE In
    <3>1. CASE passed /\ k = i
      <4>1. \A s \in Span(to) : admitted[k][s] \in Nat /\ admitted'[k][s] = IF s = ts THEN admitted[k][s] + 1 ELSE admitted[k][s]
        BY <1>4, <1>5, <2>2, <3>1
      <4>2. SumFunctionOnSet(admitted'[k], Span(to)) =
              IF ts \in Span(to) THEN SumFunctionOnSet(admitted[k], Span(to)) + 1
              ELSE SumFunctionOnSet(admitted[k], Span(to))
        <5> DEFINE f == admitted[k]
                   g == admitted'[k]
                   U == Span(to)
        <5>1. IsFiniteSet(U) /\ \A s \in U : f[s] \in Nat /\ g[s] = IF s = ts THEN f[s] + 1 ELSE f[s]
          BY <2>2, <4>1
        <5> HIDE DEF f, g, U
        <5>2. SumFunctionOnSet(g, U) = IF ts \in U THEN SumFunctionOnSet(f, U) + 1 ELSE SumFunctionOnSet(f, U)
          BY <5>1, SumIncrement
        <5> QED
          BY <5>2 DEF f, g, U
      <4> QED
        BY <2>1, <3>1, <4>2
    <3>2. CASE ~(passed /\ k = i)
      <4>1. \A s \in Span(to) : admitted[k][s] \in Nat /\ admitted'[k][s] = admitted[k][s]
        BY <1>4, <1>5, <1>6, <2>2, <3>2
      <4> QED
        BY <2>1, <2>2, <3>2, <4>1, SumAgree
    <3> QED
      BY <3>1, <3>2
  <2>4. Late(to)' = Late(to) \ {t} /\ (t \in Late(to) <=> ts <= to)
    BY <1>0, <1>1, <1>4, SMTT(60) DEF Late, ts
  <2>5. /\ IsFiniteSet(Late(to)) /\ Cardinality(Late(to)) \in Nat /\ Cardinality(Thread) \in Nat
        /\ Cardinality(Late(to)) <= Cardinality(Thread)
    BY Finite
  <2>6. Cardinality(Late(to)') = IF ts <= to THEN Cardinality(Late(to)) - 1 ELSE Cardinality(Late(to))
    BY <2>4, <2>5, FS_RemoveElement, ZenonT(60)
  <2>7. \A s \in Span(to) : s \in Int /\ to - Window < s /\ s <= to
    BY <1>4 DEF Span
  <2>8. to \in Int
    BY <1>4
  <2>9. CASE Over(k, to)
    <3>1. to < now /\ In + Cardinality(Late(to)) <= Limit + Cardinality(Thread)
      BY <2>9 DEF Over, In
    <3>2. In' + Cardinality(Late(to)') <= Limit + Cardinality(Thread)
      <4>1. Cardinality(Late(to)') \in Nat /\ (ts <= to => Cardinality(Late(to)') = Cardinality(Late(to)) - 1)
            /\ Cardinality(Late(to)') <= Cardinality(Late(to))
        BY <2>4, <2>5, <2>6, FewerLate
      <4>2. In' = In \/ (In' = In + 1 /\ ts <= to)
        BY <2>3, <2>7
      <4>3. Limit \in Nat
        BY <1>4
      <4> QED
        BY <2>1, <2>5, <3>1, <4>1, <4>2, <4>3
    <3> QED
      BY <1>1, <3>1, <3>2 DEF Over, In
  <2>10. CASE Whole(k, to) /\ to < ts
    <3>1. In <= Limit
      BY <2>10 DEF Whole, In
    <3>2. ts \notin Span(to)
      BY <1>4, <2>7, <2>8, <2>10
    <3>3. to < now'
      BY <1>1, <1>4, <2>8, <2>10
    <3>4. In' + Cardinality(Late(to)') <= Limit + Cardinality(Thread)
      BY <1>4, <2>1, <2>3, <2>5, <2>6, <2>8, <2>10, <3>1, <3>2
    <3> QED
      BY <3>3, <3>4 DEF Over, In
  <2>11. CASE Whole(k, to) /\ ts <= to
    <3>1. In <= Limit /\ \A s \in Span(to) : zset[k][s] = admitted[k][s]
      BY <2>11 DEF Whole, In
    <3>2. \A s \in Span(to) : ~(s <= ts - Window)
      BY <1>4, <2>7, <2>8, <2>11
    <3>3. \A s \in Span(to) : zset'[k][s] = admitted'[k][s]
      BY <1>3, <1>5, <1>6, <2>2, <3>1, <3>2
    <3>4. In' <= Limit
      <4>1. CASE passed /\ k = i
        <5>1. \A s \in Span(to) : admitted[k][s] \in Nat /\ recent[s] = admitted[k][s]
          BY <1>3, <1>4, <2>2, <3>1, <3>2, <4>1
        <5>2. SumFunctionOnSet(recent, Span(to)) = In
          BY <2>1, <2>2, <5>1, SumAgree
        <5>3. SumFunctionOnSet(recent, Span(to)) <= SumFunctionOnSet(recent, Time)
          <6>1. IsFiniteSet(Time) /\ \A s \in Time : recent[s] \in Nat
            BY <1>3, Finite
          <6> QED
            BY <2>2, <6>1, SumSubset
        <5>4. SumFunctionOnSet(recent, Time) < Limit
          BY <1>3, <1>4, <4>1
        <5> QED
          BY <1>3, <1>4, <2>1, <2>3, <5>2, <5>3, <5>4, SMTT(60)
      <4>2. CASE ~(passed /\ k = i)
        BY <2>3, <3>1, <4>2
      <4> QED
        BY <4>1, <4>2
    <3> QED
      BY <3>3, <3>4 DEF Whole, In, Span
  <2> QED
    BY <1>0, <1>4, <2>8, <2>9, <2>10, <2>11 DEF Windows
<1> QED
  BY <1>8, <1>9, <1>10 DEF AdmitInv, Windows

(* Every step keeps the invariant. *)
LEMMA AdmitNextInv == AdmitInv /\ [AdmitNext]_admitVars => AdmitInv'
<1> SUFFICES ASSUME AdmitInv, [AdmitNext]_admitVars PROVE AdmitInv'
  OBVIOUS
<1>0. AdmitType
  BY DEF AdmitInv
<1>1. ASSUME NEW t \in Thread, Step(t) PROVE AdmitInv'
  BY <1>0, <1>1, StepCalm, CalmKeeps, EvalKeeps DEF Step
<1>2. ASSUME NEW t \in Thread, Request(t) PROVE AdmitInv'
  BY <1>0, <1>2, ArriveCalm, CalmKeeps DEF Request
<1>3. CASE LoseRedis \/ Restart
  BY <1>0, <1>3, FaultCalm, CalmKeeps
<1>4. CASE UNCHANGED admitVars
  <2>1. Calm
    BY <1>0, <1>4 DEF admitVars, Calm, AdmitType, GoodJob
  <2> QED
    BY <2>1, CalmKeeps
<1> QED
  BY <1>1, <1>2, <1>3, <1>4, TickKeeps DEF AdmitNext

(* The inductive invariant of the limiter holds in every reachable state. *)
LEMMA AdmitInvHolds == AdmitSpec => []AdmitInv
BY AdmitInitInv, AdmitNextInv, PTL DEF AdmitSpec

(* WindowsBounded: for any limit, window and number of threads, no window  *)
(* lets more through than the limit and one request for each thread,       *)
(* whatever the order in which the stamps reach the script.                *)
THEOREM WindowsBounded == AdmitSpec => []WindowBound
<1>1. AdmitInv => WindowBound
  <2> SUFFICES ASSUME AdmitInv, NEW i \in Ip, NEW to \in Time
               PROVE  InWindow(i, to - Window, to) <= Limit + Cardinality(Thread)
    BY DEF WindowBound
  <2>1. InWindow(i, to - Window, to) \in Nat
    BY InWindowSpan DEF AdmitInv
  <2>2. Cardinality(Late(to)) \in Nat /\ Cardinality(Thread) \in Nat /\ Limit \in Nat
    BY Finite, AdmissionAssumption
  <2>3. Whole(i, to) \/ Over(i, to)
    BY DEF AdmitInv, Windows
  <2> QED
    BY <2>1, <2>2, <2>3 DEF Whole, Over
<1> QED
  BY AdmitInvHolds, <1>1, PTL

(* RefusalsEarned: while Redis answers, a request is refused only if as    *)
(* many as the limit were let through since the start of its window, for   *)
(* any limit, window and number of threads.                                *)
THEOREM RefusalsEarned == AdmitSpec => RefusedOnlyFull
<1> DEFINE Earned ==
        \A t \in Thread :
          (job[t].pc = "eval" /\ job'[t].pc = "idle" /\ link = "up" /\ faults' = faults) =>
              InWindow(job[t].ip, job[t].stamp - Window, now) >= Limit
<1>1. AdmitInv /\ [AdmitNext]_admitVars => [Earned]_admitVars
  <2> SUFFICES ASSUME AdmitInv, AdmitNext, NEW t \in Thread,
                      job[t].pc = "eval", job'[t].pc = "idle", link = "up", faults' = faults
               PROVE  InWindow(job[t].ip, job[t].stamp - Window, now) >= Limit
    OBVIOUS
  <2>0. AdmitType /\ Stored /\ faults \in Nat
    BY DEF AdmitInv, AdmitType
  <2>1. Eval(t)
    <3>1. ASSUME NEW u \in Thread, Step(u) \/ Request(u) PROVE u = t
      <4>1. PICK j : Become(u, j)
        BY <3>1 DEF Step, Request, Arrive, Allow, Eval, EvalLost, Authenticate, Dispatch, IssueToken, Answer, Goto
      <4> QED
        BY <2>0, <4>1, JobStep
    <3>2. ~Request(t) /\ ~Allow(t) /\ ~EvalLost(t) /\ ~Authenticate(t) /\ ~Dispatch(t) /\ ~IssueToken(t)
      BY DEF Request, Arrive, Allow, EvalLost, Authenticate, Dispatch, IssueToken
    <3>3. ~Tick /\ ~LoseRedis /\ ~Restart
      BY <2>0 DEF Tick, LoseRedis, Restart, Fault
    <3> QED
      BY <3>1, <3>2, <3>3 DEF AdmitNext, Step
  <2> DEFINE i == job[t].ip
             ts == job[t].stamp
             recent == Recent(zset[i], ts)
             span == {s \in Time : ts - Window < s /\ s <= now}
  <2>2. i \in Ip /\ ts \in Time /\ Full(recent)
    BY <2>0, <2>1, EvalEffect
  <2>3. /\ recent \in [Time -> Nat]
        /\ \A s \in Time : recent[s] = IF s <= ts - Window THEN 0 ELSE zset[i][s]
        /\ SumFunctionOnSet(recent, Time) \in Nat /\ SumFunctionOnSet(recent, Time) >= Limit
    BY <2>0, <2>2, RecentStamps
  <2>4. IsFiniteSet(Time) /\ span \in SUBSET Time /\ IsFiniteSet(span)
    BY Finite, FS_Subset
  <2>5. \A s \in Time : /\ zset[i][s] \in Nat /\ admitted[i][s] \in Nat /\ zset[i][s] <= admitted[i][s]
                        /\ zset[i][s] > 0 => s <= now
    BY <2>0, <2>2 DEF AdmitType, Stored
  <2>6. Time \subseteq Int /\ ts \in Int /\ Window \in Int /\ now \in Int /\ Limit \in Nat
    BY <2>0, <2>2, AdmissionAssumption DEF AdmitType, Time
  <2> HIDE DEF i, ts, recent
  <2>7. \A s \in Time \ span : recent[s] = 0
    BY <2>3, <2>5, <2>6
  <2>8. SumFunctionOnSet(recent, Time) = SumFunctionOnSet(recent, span)
    BY <2>3, <2>4, <2>7, SumSupport
  <2>9. \A s \in span : recent[s] \in Nat /\ admitted[i][s] \in Nat /\ recent[s] <= admitted[i][s]
    BY <2>3, <2>4, <2>5
  <2>10. SumFunctionOnSet(recent, span) <= SumFunctionOnSet(admitted[i], span)
    BY <2>4, <2>9, SumMonotonic
  <2>11. SumFunctionOnSet(admitted[i], span) \in Nat
    BY <2>4, <2>9, SumPick
  <2>12. InWindow(i, ts - Window, now) = SumFunctionOnSet(admitted[i], span)
    BY DEF InWindow
  <2> HIDE DEF span
  <2>13. InWindow(i, ts - Window, now) >= Limit
    BY <2>3, <2>6, <2>8, <2>10, <2>11, <2>12
  <2> QED
    BY <2>13 DEF i, ts
<1> QED
  BY <1>1, AdmitInvHolds, PTL DEF AdmitSpec, RefusedOnlyFull

-------------------------------------------------------------------------------
(* Base64 *)

(* The bytes a text is made of. *)
Octet == 0..255

(* The byte at i, or 0 behind the last one. *)
ByteAt(data, i) == IF i <= Len(data) THEN data[i] ELSE 0

(* It is a byte. *)
LEMMA ByteAtType ==
    ASSUME NEW data \in Seq(Octet), NEW i \in Nat \ {0}
    PROVE  ByteAt(data, i) \in Octet
<1>1. Len(data) \in Nat /\ (i <= Len(data) => i \in 1..Len(data)) /\ 0 \in Octet
  BY LenProperties DEF Octet
<1>2. \A k \in 1..Len(data) : data[k] \in Octet
  BY ElementOfSeq
<1> QED
  BY <1>1, <1>2 DEF ByteAt

(* Three bytes and the four sextets made of them. *)
LEMMA Sextets ==
    ASSUME NEW x \in Octet, NEW y \in Octet, NEW z \in Octet
    PROVE  /\ x \div 4 \in 0..63 /\ (x % 4) * 16 + (y \div 16) \in 0..63
           /\ (y % 16) * 4 + (z \div 64) \in 0..63 /\ z % 64 \in 0..63
           /\ (x \div 4) * 4 + (((x % 4) * 16 + (y \div 16)) \div 16) = x
           /\ (((x % 4) * 16 + (y \div 16)) % 16) * 16 + (((y % 16) * 4 + (z \div 64)) \div 4) = y
           /\ (((y % 16) * 4 + (z \div 64)) % 4) * 64 + (z % 64) = z
BY DEF Octet

(* The sextets of one group. *)
LEMMA SextetAt ==
    ASSUME NEW data \in Seq(Octet), NEW m \in Nat \ {0}
    PROVE  LET x == ByteAt(data, 3 * (m - 1) + 1)
               y == ByteAt(data, 3 * (m - 1) + 2)
               z == ByteAt(data, 3 * (m - 1) + 3)
           IN  /\ Sextet(data, 4 * (m - 1) + 1) = x \div 4
               /\ Sextet(data, 4 * (m - 1) + 2) = (x % 4) * 16 + (y \div 16)
               /\ Sextet(data, 4 * (m - 1) + 3) = (y % 16) * 4 + (z \div 64)
               /\ Sextet(data, 4 * (m - 1) + 4) = z % 64
<1> DEFINE x == ByteAt(data, 3 * (m - 1) + 1)
           y == ByteAt(data, 3 * (m - 1) + 2)
           z == ByteAt(data, 3 * (m - 1) + 3)
           s == << x \div 4, (x % 4) * 16 + (y \div 16), (y % 16) * 4 + (z \div 64), z % 64 >>
<1>1. ASSUME NEW j \in 1..4 PROVE Sextet(data, 4 * (m - 1) + j) = s[j]
  <2> DEFINE k == 4 * (m - 1) + j
             i == 3 * ((k - 1) \div 4)
             b(l) == IF i + l <= Len(data) THEN data[i + l] ELSE 0
             t == << b(1) \div 4, (b(1) % 4) * 16 + (b(2) \div 16), (b(2) % 16) * 4 + (b(3) \div 64), b(3) % 64 >>
  <2>1. (k - 1) \div 4 = m - 1 /\ ((k - 1) % 4) + 1 = j
    OBVIOUS
  <2>2. Sextet(data, k) = t[((k - 1) % 4) + 1]
    BY DEF Sextet
  <2>3. b(1) = x /\ b(2) = y /\ b(3) = z
    BY <2>1 DEF ByteAt
  <2> HIDE DEF b, x, y, z, k
  <2>4. t = s
    BY <2>3
  <2> QED
    BY <2>1, <2>2, <2>4 DEF k
<1>2. s[1] = x \div 4 /\ s[2] = (x % 4) * 16 + (y \div 16) /\ s[3] = (y % 16) * 4 + (z \div 64) /\ s[4] = z % 64
  OBVIOUS
<1>3. 1 \in 1..4 /\ 2 \in 1..4 /\ 3 \in 1..4 /\ 4 \in 1..4
  OBVIOUS
<1> HIDE DEF s, x, y, z
<1>4. /\ Sextet(data, 4 * (m - 1) + 1) = s[1] /\ Sextet(data, 4 * (m - 1) + 2) = s[2]
      /\ Sextet(data, 4 * (m - 1) + 3) = s[3] /\ Sextet(data, 4 * (m - 1) + 4) = s[4]
  BY <1>1, <1>3
<1>5. /\ Sextet(data, 4 * (m - 1) + 1) = x \div 4
      /\ Sextet(data, 4 * (m - 1) + 2) = (x % 4) * 16 + (y \div 16)
      /\ Sextet(data, 4 * (m - 1) + 3) = (y % 16) * 4 + (z \div 64)
      /\ Sextet(data, 4 * (m - 1) + 4) = z % 64
  BY <1>2, <1>4
<1> QED
  BY <1>5 DEF x, y, z

(* Every place has its group. *)
LEMMA GroupOf ==
    ASSUME NEW k \in Nat \ {0}
    PROVE  \E m \in Nat \ {0}, j \in 1..4 : k = 4 * (m - 1) + j
<1>1. ((k - 1) \div 4) + 1 \in Nat \ {0} /\ ((k - 1) % 4) + 1 \in 1..4
      /\ k = 4 * ((((k - 1) \div 4) + 1) - 1) + (((k - 1) % 4) + 1)
  OBVIOUS
<1> QED
  BY <1>1

(* Every index into std_table is in the table. *)
LEMMA SextetType ==
    ASSUME NEW data \in Seq(Octet), NEW k \in Nat \ {0}
    PROVE  Sextet(data, k) \in 0..63
<1>1. PICK m \in Nat \ {0}, j \in 1..4 : k = 4 * (m - 1) + j
  BY GroupOf
<1> DEFINE x == ByteAt(data, 3 * (m - 1) + 1)
           y == ByteAt(data, 3 * (m - 1) + 2)
           z == ByteAt(data, 3 * (m - 1) + 3)
<1>2. x \in Octet /\ y \in Octet /\ z \in Octet
  <2>1. 3 * (m - 1) + 1 \in Nat \ {0} /\ 3 * (m - 1) + 2 \in Nat \ {0} /\ 3 * (m - 1) + 3 \in Nat \ {0}
    OBVIOUS
  <2> QED
    BY <2>1, ByteAtType
<1>3. /\ Sextet(data, 4 * (m - 1) + 1) = x \div 4
      /\ Sextet(data, 4 * (m - 1) + 2) = (x % 4) * 16 + (y \div 16)
      /\ Sextet(data, 4 * (m - 1) + 3) = (y % 16) * 4 + (z \div 64)
      /\ Sextet(data, 4 * (m - 1) + 4) = z % 64
  BY SextetAt
<1> HIDE DEF x, y, z
<1>4. \A i \in {1, 2, 3, 4} : Sextet(data, 4 * (m - 1) + i) \in 0..63
  <2>1. /\ x \div 4 \in 0..63 /\ (x % 4) * 16 + (y \div 16) \in 0..63
        /\ (y % 16) * 4 + (z \div 64) \in 0..63 /\ z % 64 \in 0..63
    BY <1>2, Sextets
  <2>2. /\ Sextet(data, 4 * (m - 1) + 1) \in 0..63 /\ Sextet(data, 4 * (m - 1) + 2) \in 0..63
        /\ Sextet(data, 4 * (m - 1) + 3) \in 0..63 /\ Sextet(data, 4 * (m - 1) + 4) \in 0..63
    BY <1>3, <2>1
  <2> QED
    BY <2>2
<1>5. j \in {1, 2, 3, 4}
  OBVIOUS
<1> QED
  BY <1>1, <1>4, <1>5

(* The place of a group in the encoded text. *)
LEMMA Places ==
    ASSUME NEW n \in Nat
    PROVE  LET L == EncodedLen(n)
               Q == (n + 2) \div 3
           IN  /\ L \in Nat /\ Q \in Nat /\ (n = 0 <=> Q = 0) /\ 4 * Q - L = (4 - (L % 4)) % 4 /\ L <= 4 * Q
               /\ \A m \in 1..Q : /\ 3 * (m - 1) + 1 <= n
                                  /\ 4 * (m - 1) + 2 <= L
                                  /\ 4 * (m - 1) + 3 <= L <=> 3 * (m - 1) + 2 <= n
                                  /\ 4 * (m - 1) + 4 <= L <=> 3 * (m - 1) + 3 <= n
                                  /\ m < Q => 3 * (m - 1) + 3 <= n
               /\ \A m \in Nat \ {0}, j \in 1..4 : 4 * (m - 1) + j <= L => m <= Q
<1> DEFINE q == n \div 3
           r == n % 3
<1>1. q \in Nat /\ r \in 0..2 /\ n = 3 * q + r
  OBVIOUS
<1>2. EncodedLen(n) = 4 * q + (IF r = 0 THEN 0 ELSE r + 1)
  BY DEF EncodedLen
<1>3. (n + 2) \div 3 = IF r = 0 THEN q ELSE q + 1
  BY <1>1
<1> HIDE DEF q, r
<1>4. CASE r = 0
  BY <1>1, <1>2, <1>3, <1>4
<1>5. CASE r = 1
  BY <1>1, <1>2, <1>3, <1>5
<1>6. CASE r = 2
  BY <1>1, <1>2, <1>3, <1>6
<1> QED
  BY <1>1, <1>4, <1>5, <1>6

-------------------------------------------------------------------------------
(* The two alphabets. *)
LEMMA Alphabet ==
    \A c \in 0..63 : /\ UrlSafe(c) \in 0..70 /\ FromUrlSafe(UrlSafe(c)) = c
                     /\ UrlSafe(c) \in {Minus, Underscore} <=> ~Known(c)
                     /\ Known(c) => Dec(c) = c
                     /\ c # Pad
BY DEF UrlSafe, FromUrlSafe, Known, Dec, Plus, Slash, Minus, Underscore, Pad

(* The text base64url_decode works on: the standard alphabet, padded. *)
Padded(str) ==
    [k \in DOMAIN str |-> FromUrlSafe(str[k])] \o [j \in 1..((4 - (Len(str) % 4)) % 4) |-> Pad]

(* How many groups of three bytes there are, the last perhaps shorter. *)
Groups(data) == (Len(data) + 2) \div 3

(* The encoded text comes back as the sextets, with padding behind them. *)
LEMMA PaddedIs ==
    ASSUME NEW data \in Seq(Octet)
    PROVE  LET s == base64url_encode(data)
               L == EncodedLen(Len(data))
           IN  /\ Len(s) = L /\ DOMAIN s = 1..L /\ L \in Nat
               /\ \A k \in 1..L : s[k] = UrlSafe(Sextet(data, k))
               /\ Len(Padded(s)) = 4 * Groups(data) /\ Groups(data) \in Nat
               /\ \A k \in 1..(4 * Groups(data)) : Padded(s)[k] = IF k <= L THEN Sextet(data, k) ELSE Pad
<1> DEFINE s == base64url_encode(data)
           n == Len(data)
           L == EncodedLen(n)
           Q == Groups(data)
           p == (4 - (L % 4)) % 4
           C == 0..70
           text == [k \in 1..L |-> FromUrlSafe(s[k])]
           pad == [j \in 1..p |-> Pad]
<1>1. n \in Nat
  BY LenProperties
<1>2. L \in Nat /\ Q \in Nat /\ 4 * Q - L = p /\ L <= 4 * Q
  <2> HIDE DEF n
  <2> QED
    BY <1>1, Places DEF Groups, n
<1>3. \A k \in 1..L : k \in Nat \ {0}
  BY <1>2
<1>4. \A k \in 1..L : Sextet(data, k) \in 0..63
  BY <1>3, SextetType
<1> HIDE DEF L
<1>5. s = [k \in 1..L |-> UrlSafe(Sextet(data, k))]
  BY DEF base64url_encode, L
<1> HIDE DEF s
<1>6. s \in [1..L -> C] /\ \A k \in 1..L : s[k] = UrlSafe(Sextet(data, k))
  <2>1. \A k \in 1..L : UrlSafe(Sextet(data, k)) \in C
    BY <1>4, Alphabet
  <2> HIDE DEF C
  <2> QED
    BY <1>5, <2>1
<1>7. s \in Seq(C) /\ Len(s) = L /\ DOMAIN s = 1..L
  <2> HIDE DEF C
  <2> QED
    BY <1>2, <1>6, FcnIsSeq
<1>8. \A k \in 1..L : text[k] = Sextet(data, k)
  BY <1>4, <1>6, Alphabet
<1>9. text \in [1..L -> C] /\ pad \in [1..p -> C] /\ p \in Nat
  <2>1. Pad \in C /\ \A k \in 1..L : Sextet(data, k) \in C
    BY <1>4 DEF Pad
  <2>2. \A k \in 1..L : text[k] \in C
    BY <1>8, <2>1
  <2>3. p \in Nat
    BY <1>2
  <2> HIDE DEF C, p
  <2> QED
    BY <2>1, <2>2, <2>3
<1> HIDE DEF C
<1>10. text \in Seq(C) /\ Len(text) = L /\ pad \in Seq(C) /\ Len(pad) = p /\ \A j \in 1..p : pad[j] = Pad
  <2>1. \A j \in 1..p : pad[j] = Pad
    OBVIOUS
  <2> HIDE DEF text, pad, p
  <2> QED
    BY <1>2, <1>9, <2>1, FcnIsSeq
<1>11. Padded(s) = text \o pad
  BY <1>7 DEF Padded
<1> HIDE DEF text, pad, p, Q
<1>12. /\ Len(text \o pad) = Len(text) + Len(pad)
       /\ \A k \in 1..(Len(text) + Len(pad)) :
              (text \o pad)[k] = IF k <= Len(text) THEN text[k] ELSE pad[k - Len(text)]
  BY <1>10, ConcatProperties
<1>13. Len(text) + Len(pad) = 4 * Q
  BY <1>2, <1>9, <1>10
<1>14. \A k \in 1..(4 * Q) : (text \o pad)[k] = IF k <= L THEN Sextet(data, k) ELSE Pad
  <2> SUFFICES ASSUME NEW k \in 1..(4 * Q) PROVE (text \o pad)[k] = IF k <= L THEN Sextet(data, k) ELSE Pad
    OBVIOUS
  <2>1. (text \o pad)[k] = IF k <= L THEN text[k] ELSE pad[k - L]
    BY <1>10, <1>12, <1>13
  <2>2. (k <= L => k \in 1..L) /\ (~(k <= L) => k - L \in 1..p)
    BY <1>2
  <2> QED
    BY <1>8, <1>10, <2>1, <2>2
<1> QED
  BY <1>2, <1>6, <1>7, <1>11, <1>12, <1>13, <1>14 DEF s, L, Q, n

(* The groups of four as the loop sees them. *)
LEMMA BlockIs ==
    ASSUME NEW data \in Seq(Octet), NEW m \in 1..Groups(data)
    PROVE  LET x == ByteAt(data, 3 * (m - 1) + 1)
               y == ByteAt(data, 3 * (m - 1) + 2)
               z == ByteAt(data, 3 * (m - 1) + 3)
               b == Block(Padded(base64url_encode(data)), m)
           IN  /\ b[1] = x \div 4
               /\ b[2] = (x % 4) * 16 + (y \div 16)
               /\ b[3] = IF 3 * (m - 1) + 2 <= Len(data) THEN (y % 16) * 4 + (z \div 64) ELSE Pad
               /\ b[4] = IF 3 * (m - 1) + 3 <= Len(data) THEN z % 64 ELSE Pad
<1> DEFINE x == ByteAt(data, 3 * (m - 1) + 1)
           y == ByteAt(data, 3 * (m - 1) + 2)
           z == ByteAt(data, 3 * (m - 1) + 3)
           input == Padded(base64url_encode(data))
           b == Block(input, m)
           n == Len(data)
           L == EncodedLen(n)
           Q == Groups(data)
<1>1. n \in Nat /\ L \in Nat /\ Q \in Nat
  BY LenProperties, PaddedIs
<1>2. \A k \in 1..(4 * Q) : input[k] = IF k <= L THEN Sextet(data, k) ELSE Pad
  BY PaddedIs
<1>3. /\ 4 * (m - 1) + 2 <= L
      /\ 4 * (m - 1) + 3 <= L <=> 3 * (m - 1) + 2 <= n
      /\ 4 * (m - 1) + 4 <= L <=> 3 * (m - 1) + 3 <= n
  <2> HIDE DEF n
  <2> QED
    BY <1>1, Places DEF Groups, n
<1>4. /\ Sextet(data, 4 * (m - 1) + 1) = x \div 4
      /\ Sextet(data, 4 * (m - 1) + 2) = (x % 4) * 16 + (y \div 16)
      /\ Sextet(data, 4 * (m - 1) + 3) = (y % 16) * 4 + (z \div 64)
      /\ Sextet(data, 4 * (m - 1) + 4) = z % 64
  <2>1. m \in Nat \ {0}
    BY <1>1
  <2> QED
    BY <2>1, SextetAt
<1> HIDE DEF input, x, y, z, L, Q, n
<1>5. /\ b[1] = input[4 * (m - 1) + 1] /\ b[2] = input[4 * (m - 1) + 2]
      /\ b[3] = input[4 * (m - 1) + 3] /\ b[4] = input[4 * (m - 1) + 4]
  BY DEF Block
<1> HIDE DEF b
<1>6. m \in 1..Q
  BY DEF Q
<1>7. /\ 4 * (m - 1) + 1 \in 1..(4 * Q) /\ 4 * (m - 1) + 2 \in 1..(4 * Q)
      /\ 4 * (m - 1) + 3 \in 1..(4 * Q) /\ 4 * (m - 1) + 4 \in 1..(4 * Q)
      /\ 4 * (m - 1) + 1 <= L
  BY <1>1, <1>3, <1>6
<1>8. /\ b[1] = x \div 4
      /\ b[2] = (x % 4) * 16 + (y \div 16)
      /\ b[3] = IF 3 * (m - 1) + 2 <= n THEN (y % 16) * 4 + (z \div 64) ELSE Pad
      /\ b[4] = IF 3 * (m - 1) + 3 <= n THEN z % 64 ELSE Pad
  <2>1. b[1] = x \div 4
    BY <1>2, <1>4, <1>5, <1>7
  <2>2. b[2] = (x % 4) * 16 + (y \div 16)
    BY <1>2, <1>3, <1>4, <1>5, <1>7
  <2>3. b[3] = IF 3 * (m - 1) + 2 <= n THEN (y % 16) * 4 + (z \div 64) ELSE Pad
    BY <1>2, <1>3, <1>4, <1>5, <1>7
  <2>4. b[4] = IF 3 * (m - 1) + 3 <= n THEN z % 64 ELSE Pad
    BY <1>2, <1>3, <1>4, <1>5, <1>7
  <2> QED
    BY <2>1, <2>2, <2>3, <2>4
<1> QED
  BY <1>8 DEF b, input, x, y, z, n

(* The text has a '-' or a '_'. *)
Dashed(s) == \E k \in DOMAIN s : s[k] \in {Minus, Underscore}

(* The loop stops exactly if the text has a '-' or a '_'. *)
LEMMA DashedStops ==
    ASSUME NEW data \in Seq(Octet)
    PROVE  LET s == base64url_encode(data) IN
           Dashed(s) <=> \E m \in 1..Groups(data) : Illegal(Block(Padded(s), m))
<1> DEFINE s == base64url_encode(data)
           input == Padded(s)
           n == Len(data)
           L == EncodedLen(n)
           Q == Groups(data)
<1>1. n \in Nat /\ L \in Nat /\ Q \in Nat /\ DOMAIN s = 1..L /\ L <= 4 * Q
  <2>1. n \in Nat /\ L \in Nat /\ Q \in Nat /\ DOMAIN s = 1..L
    BY LenProperties, PaddedIs
  <2>2. L <= 4 * Q
    <3> HIDE DEF n
    <3> QED
      BY <2>1, Places DEF Groups, n
  <2> QED
    BY <2>1, <2>2
<1>2. \A k \in 1..(4 * Q) : input[k] = IF k <= L THEN Sextet(data, k) ELSE Pad
  BY PaddedIs
<1>3. \A k \in 1..L : s[k] = UrlSafe(Sextet(data, k)) /\ Sextet(data, k) \in 0..63
  <2>1. \A k \in 1..L : k \in Nat \ {0}
    BY <1>1
  <2> QED
    BY <2>1, PaddedIs, SextetType
<1>4. \A k \in 1..L : (s[k] \in {Minus, Underscore} <=> ~Known(input[k])) /\ input[k] # Pad
  <2> SUFFICES ASSUME NEW k \in 1..L PROVE (s[k] \in {Minus, Underscore} <=> ~Known(input[k])) /\ input[k] # Pad
    OBVIOUS
  <2>1. k \in 1..(4 * Q) /\ k <= L
    BY <1>1
  <2>2. input[k] = Sextet(data, k)
    BY <1>2, <2>1
  <2> QED
    BY <1>3, <2>2, Alphabet
<1>5. \A k \in 1..(4 * Q) : k \notin 1..L => input[k] = Pad
  BY <1>1, <1>2
<1>6. \A m \in Nat \ {0}, j \in 1..4 : 4 * (m - 1) + j <= L => m \in 1..Q
  <2> HIDE DEF n
  <2>1. \A m \in Nat \ {0}, j \in 1..4 : 4 * (m - 1) + j <= L => m <= (n + 2) \div 3
    BY <1>1, Places
  <2> QED
    BY <1>1, <2>1 DEF Groups, n
<1>7. \A m : LET b == Block(input, m) IN
             /\ b[1] = input[4 * (m - 1) + 1] /\ b[2] = input[4 * (m - 1) + 2]
             /\ b[3] = input[4 * (m - 1) + 3] /\ b[4] = input[4 * (m - 1) + 4]
  BY DEF Block
<1> HIDE DEF s, input, n, L, Q
<1>8. ASSUME Dashed(s) PROVE \E m \in 1..Q : Illegal(Block(input, m))
  <2>1. PICK k \in 1..L : s[k] \in {Minus, Underscore}
    BY <1>1, <1>8 DEF Dashed
  <2>2. k \in Nat \ {0}
    BY <1>1
  <2>3. PICK m \in Nat \ {0}, j \in 1..4 : k = 4 * (m - 1) + j
    BY <2>2, GroupOf
  <2>4. m \in 1..Q
    BY <1>1, <1>6, <2>3
  <2> DEFINE b == Block(input, m)
  <2>5. ~Known(input[k]) /\ input[k] # Pad
    BY <1>4, <2>1
  <2>6. Illegal(b)
    <3>1. CASE j = 1
      BY <1>7, <2>3, <2>5, <3>1 DEF Illegal
    <3>2. CASE j = 2
      BY <1>7, <2>3, <2>5, <3>2 DEF Illegal
    <3>3. CASE j = 3
      BY <1>7, <2>3, <2>5, <3>3 DEF Illegal
    <3>4. CASE j = 4
      <4>1. 4 * (m - 1) + 3 \in 1..L
        BY <1>1, <2>3, <3>4
      <4>2. b[3] # Pad /\ b[4] = input[k]
        BY <1>4, <1>7, <2>3, <3>4, <4>1
      <4> QED
        BY <2>5, <4>2 DEF Illegal
    <3> QED
      BY <3>1, <3>2, <3>3, <3>4
  <2> QED
    BY <2>4, <2>6
<1>9. ASSUME NEW m \in 1..Q, Illegal(Block(input, m)) PROVE Dashed(s)
  <2> DEFINE b == Block(input, m)
             k(j) == 4 * (m - 1) + j
  <2>1. k(1) \in 1..(4 * Q) /\ k(2) \in 1..(4 * Q) /\ k(3) \in 1..(4 * Q) /\ k(4) \in 1..(4 * Q)
    BY <1>1
  <2>2. k(1) \in 1..L /\ k(2) \in 1..L
    <3> HIDE DEF n
    <3>1. \A i \in 1..((n + 2) \div 3) : 4 * (i - 1) + 2 <= L
      BY <1>1, Places DEF L
    <3>2. 4 * (m - 1) + 2 <= L
      BY <3>1 DEF Q, Groups, n
    <3> QED
      BY <1>1, <3>2
  <2>3. \/ ~Known(b[1]) \/ ~Known(b[2]) \/ (b[3] # Pad /\ ~Known(b[3])) \/ (b[4] # Pad /\ ~Known(b[4]))
    BY <1>9 DEF Illegal
  <2>4. \E i \in 1..L : ~Known(input[i])
    BY <1>5, <1>7, <2>1, <2>2, <2>3
  <2> QED
    BY <1>1, <1>4, <2>4 DEF Dashed
<1> QED
  BY <1>8, <1>9 DEF s, input, Q

(* The bytes of a group. *)
LEMMA GroupBytes ==
    ASSUME NEW data \in Seq(Octet), NEW m \in 1..Groups(data),
           ~Illegal(Block(Padded(base64url_encode(data)), m))
    PROVE  LET i == 3 * (m - 1) IN
           BlockBytes(Block(Padded(base64url_encode(data)), m)) =
               <<data[i + 1]>> \o (IF i + 2 <= Len(data) THEN <<data[i + 2]>> ELSE <<>>)
                               \o (IF i + 3 <= Len(data) THEN <<data[i + 3]>> ELSE <<>>)
<1> DEFINE i == 3 * (m - 1)
           b == Block(Padded(base64url_encode(data)), m)
           n == Len(data)
           x == ByteAt(data, i + 1)
           y == ByteAt(data, i + 2)
           z == ByteAt(data, i + 3)
<1>1. n \in Nat /\ Groups(data) \in Nat
  BY LenProperties, PaddedIs
<1>2. i + 1 <= n
  <2> HIDE DEF n
  <2>1. \A l \in 1..((n + 2) \div 3) : 3 * (l - 1) + 1 <= n
    BY <1>1, Places
  <2> QED
    BY <2>1 DEF Groups, n
<1>3. i + 1 \in Nat \ {0} /\ i + 2 \in Nat \ {0} /\ i + 3 \in Nat \ {0}
  BY <1>1
<1>4. x \in Octet /\ y \in Octet /\ z \in Octet
  BY <1>3, ByteAtType
<1>5. /\ b[1] = x \div 4
      /\ b[2] = (x % 4) * 16 + (y \div 16)
      /\ b[3] = IF i + 2 <= n THEN (y % 16) * 4 + (z \div 64) ELSE Pad
      /\ b[4] = IF i + 3 <= n THEN z % 64 ELSE Pad
  BY BlockIs
<1>6. x = data[i + 1] /\ (i + 2 <= n => y = data[i + 2]) /\ (i + 3 <= n => z = data[i + 3])
  BY <1>2 DEF ByteAt
<1>7. (i + 3 <= n => i + 2 <= n) /\ i \in Nat
  BY <1>1
<1> HIDE DEF b, x, y, z, n, i
<1>8. /\ x \div 4 \in 0..63 /\ (x % 4) * 16 + (y \div 16) \in 0..63
      /\ (y % 16) * 4 + (z \div 64) \in 0..63 /\ z % 64 \in 0..63
      /\ (x \div 4) * 4 + (((x % 4) * 16 + (y \div 16)) \div 16) = x
      /\ (((x % 4) * 16 + (y \div 16)) % 16) * 16 + (((y % 16) * 4 + (z \div 64)) \div 4) = y
      /\ (((y % 16) * 4 + (z \div 64)) % 4) * 64 + (z % 64) = z
  BY <1>4, Sextets
<1>9. ~Illegal(b)
  BY DEF b
<1>10. Known(b[1]) /\ Known(b[2]) /\ (b[3] # Pad => Known(b[3]) /\ (b[4] # Pad => Known(b[4])))
  BY <1>9 DEF Illegal
<1>11. Dec(b[1]) = x \div 4 /\ Dec(b[2]) = (x % 4) * 16 + (y \div 16)
  BY <1>5, <1>8, <1>10, Alphabet
<1>12. i + 2 <= n => b[3] # Pad /\ Dec(b[3]) = (y % 16) * 4 + (z \div 64)
  BY <1>5, <1>8, <1>10, Alphabet
<1>13. i + 3 <= n => b[4] # Pad /\ Dec(b[4]) = z % 64
  BY <1>5, <1>7, <1>8, <1>10, <1>12, Alphabet, ZenonT(60)
<1>14. Dec(b[1]) * 4 + (Dec(b[2]) \div 16) = x
  BY <1>8, <1>11
<1>15. i + 2 <= n => (Dec(b[2]) % 16) * 16 + (Dec(b[3]) \div 4) = y
  BY <1>8, <1>11, <1>12
<1>16. i + 3 <= n => (Dec(b[3]) % 4) * 64 + Dec(b[4]) = z
  BY <1>7, <1>8, <1>12, <1>13
<1>17. (b[3] = Pad <=> ~(i + 2 <= n)) /\ (b[3] = Pad \/ b[4] = Pad <=> ~(i + 3 <= n))
  BY <1>5, <1>7, <1>12, <1>13
<1>18. BlockBytes(b) = <<x>> \o (IF i + 2 <= n THEN <<y>> ELSE <<>>) \o (IF i + 3 <= n THEN <<z>> ELSE <<>>)
  BY <1>14, <1>15, <1>16, <1>17 DEF BlockBytes
<1> QED
  BY <1>6, <1>18 DEF b, i, n

(* A group is the next bytes of the text, three or as many as there are. *)
LEMMA GroupIs ==
    ASSUME NEW data \in Seq(Octet), NEW m \in 1..Groups(data),
           ~Illegal(Block(Padded(base64url_encode(data)), m))
    PROVE  LET g == BlockBytes(Block(Padded(base64url_encode(data)), m))
               i == 3 * (m - 1)
               e == IF i + 3 <= Len(data) THEN i + 3 ELSE Len(data)
           IN  /\ g \in Seq(Octet) /\ Len(g) = e - i
               /\ \A j \in 1..(e - i) : g[j] = data[i + j]
<1> DEFINE g == BlockBytes(Block(Padded(base64url_encode(data)), m))
           i == 3 * (m - 1)
           n == Len(data)
           e == IF i + 3 <= n THEN i + 3 ELSE n
<1>1. n \in Nat /\ i \in Nat /\ i + 1 <= n
  <2>1. n \in Nat /\ Groups(data) \in Nat
    BY LenProperties, PaddedIs
  <2> HIDE DEF n
  <2>2. \A l \in 1..((n + 2) \div 3) : 3 * (l - 1) + 1 <= n
    BY <2>1, Places
  <2> QED
    BY <2>1, <2>2 DEF Groups, n
<1>2. \A k \in 1..n : data[k] \in Octet
  BY ElementOfSeq
<1>3. g = <<data[i + 1]>> \o (IF i + 2 <= n THEN <<data[i + 2]>> ELSE <<>>)
                          \o (IF i + 3 <= n THEN <<data[i + 3]>> ELSE <<>>)
  BY GroupBytes
<1> HIDE DEF g, n, i
<1> SUFFICES g \in Seq(Octet) /\ Len(g) = e - i /\ \A j \in 1..(e - i) : g[j] = data[i + j]
  BY DEF g, i, n
<1>4. data[i + 1] \in Octet /\ (i + 2 <= n => data[i + 2] \in Octet) /\ (i + 3 <= n => data[i + 3] \in Octet)
  <2>1. i + 1 \in 1..n /\ (i + 2 <= n => i + 2 \in 1..n) /\ (i + 3 <= n => i + 3 \in 1..n)
    BY <1>1
  <2> QED
    BY <1>2, <2>1
<1>5. CASE ~(i + 2 <= n)
  <2>1. g = <<data[i + 1]>> /\ n = i + 1 /\ e - i = 1
    <3>1. ~(i + 3 <= n) /\ n = i + 1
      BY <1>1, <1>5
    <3>2. g = <<data[i + 1]>> \o <<>> \o <<>>
      BY <1>3, <1>5, <3>1
    <3> QED
      BY <1>1, <1>4, <3>1, <3>2, Shorts
  <2> QED
    BY <1>4, <2>1
<1>6. CASE i + 2 <= n /\ ~(i + 3 <= n)
  <2>1. g = <<data[i + 1], data[i + 2]>> /\ n = i + 2 /\ e - i = 2
    <3>1. n = i + 2
      BY <1>1, <1>6
    <3>2. g = <<data[i + 1]>> \o <<data[i + 2]>> \o <<>>
      BY <1>3, <1>6
    <3> QED
      BY <1>1, <1>4, <1>6, <3>1, <3>2, Shorts
  <2> QED
    BY <1>4, <1>6, <2>1
<1>7. CASE i + 3 <= n
  <2>1. g = <<data[i + 1], data[i + 2], data[i + 3]>> /\ e - i = 3 /\ i + 2 <= n
    <3>1. i + 2 <= n /\ e - i = 3
      BY <1>1, <1>7
    <3>2. g = <<data[i + 1]>> \o <<data[i + 2]>> \o <<data[i + 3]>>
      BY <1>3, <1>7, <3>1
    <3> QED
      BY <1>1, <1>4, <1>7, <3>1, <3>2, Shorts
  <2>2. \A j \in 1..3 : j = 1 \/ j = 2 \/ j = 3
    OBVIOUS
  <2> QED
    BY <1>4, <1>7, <2>1, <2>2
<1> QED
  BY <1>5, <1>6, <1>7

(* A prefix, element by element. *)
LEMMA PrefixIs ==
    ASSUME NEW data \in Seq(Octet), NEW k \in 0..Len(data)
    PROVE  /\ Prefix(data, k) \in Seq(Octet) /\ Len(Prefix(data, k)) = k
           /\ \A i \in 1..k : Prefix(data, k)[i] = data[i]
<1>1. Len(data) \in Nat /\ \A i \in 1..Len(data) : data[i] \in Octet
  BY LenProperties, ElementOfSeq
<1>2. k \in Nat /\ \A i \in 1..k : i \in 1..Len(data)
  BY <1>1
<1>3. Prefix(data, k) \in [1..k -> Octet]
  BY <1>1, <1>2 DEF Prefix
<1> QED
  BY <1>2, <1>3, FcnIsSeq DEF Prefix

(* A prefix and the bytes behind it. *)
LEMMA PrefixGrows ==
    ASSUME NEW data \in Seq(Octet), NEW a \in 0..Len(data), NEW e \in a..Len(data),
           NEW g \in Seq(Octet), Len(g) = e - a, \A j \in 1..(e - a) : g[j] = data[a + j]
    PROVE  Prefix(data, a) \o g = Prefix(data, e)
<1> DEFINE p == Prefix(data, a)
           q == Prefix(data, e)
<1>1. Len(data) \in Nat /\ a \in Nat /\ e \in Nat /\ a <= e /\ e \in 0..Len(data)
  BY LenProperties
<1>2. /\ p \in Seq(Octet) /\ Len(p) = a /\ \A i \in 1..a : p[i] = data[i]
      /\ q \in Seq(Octet) /\ Len(q) = e /\ \A i \in 1..e : q[i] = data[i]
  BY <1>1, PrefixIs
<1> HIDE DEF p, q
<1>3. /\ p \o g \in Seq(Octet) /\ Len(p \o g) = Len(p) + Len(g)
      /\ \A i \in 1..(Len(p) + Len(g)) : (p \o g)[i] = IF i <= Len(p) THEN p[i] ELSE g[i - Len(p)]
  BY <1>2, ConcatProperties
<1>4. Len(p) + Len(g) = e
  BY <1>1, <1>2
<1>5. ASSUME NEW i \in 1..e PROVE (p \o g)[i] = q[i]
  <2>1. CASE i <= a
    <3>1. i \in 1..a
      BY <1>1, <2>1
    <3> QED
      BY <1>2, <1>3, <1>4, <2>1, <3>1
  <2>2. CASE ~(i <= a)
    <3>1. i - a \in 1..(e - a) /\ a + (i - a) = i
      BY <1>1, <2>2
    <3> QED
      BY <1>2, <1>3, <1>4, <2>2, <3>1
  <2> QED
    BY <2>1, <2>2
<1>6. p \o g = q
  BY <1>2, <1>3, <1>4, <1>5, SeqEqual
<1> QED
  BY <1>6 DEF p, q

(* Decoding what was encoded gives it back, or nothing at all. *)
LEMMA RoundTrip ==
    ASSUME NEW data \in Seq(Octet), NEW invalid
    PROVE  LET s == base64url_encode(data) IN
           base64url_decode(s, invalid) = IF Dashed(s) THEN invalid ELSE data
<1> DEFINE s == base64url_encode(data)
           n == Len(data)
           Q == Groups(data)
           input == Padded(s)
           seqs == [m \in 1..Q |-> BlockBytes(Block(input, m))]
           End(m) == IF 3 * m <= n THEN 3 * m ELSE n
<1>1. n \in Nat /\ Q \in Nat /\ Len(input) = 4 * Q
  BY LenProperties, PaddedIs
<1>2. Len(input) \div 4 = Q
  BY <1>1
<1>3. base64url_decode(s, invalid) =
          IF \E m \in 1..(Len(input) \div 4) : Illegal(Block(input, m)) THEN invalid
          ELSE FlattenSeq([m \in 1..(Len(input) \div 4) |-> BlockBytes(Block(input, m))])
  BY DEF base64url_decode, Padded
<1>4. base64url_decode(s, invalid) =
          IF \E m \in 1..Q : Illegal(Block(input, m)) THEN invalid ELSE FlattenSeq(seqs)
  BY <1>2, <1>3
<1>5. Dashed(s) <=> \E m \in 1..Q : Illegal(Block(input, m))
  BY DashedStops
<1>6. CASE Dashed(s)
  BY <1>4, <1>5, <1>6
<1>7. CASE ~Dashed(s)
  <2>1. \A m \in 1..Q : ~Illegal(Block(input, m))
    BY <1>5, <1>7
  <2>2. \A m \in 1..Q : LET g == seqs[m]
                             i == 3 * (m - 1)
                             e == IF i + 3 <= n THEN i + 3 ELSE n
                         IN  /\ g \in Seq(Octet) /\ Len(g) = e - i
                             /\ \A j \in 1..(e - i) : g[j] = data[i + j]
    BY <2>1, GroupIs
  <2>3. /\ n = 0 <=> Q = 0
        /\ \A m \in 1..Q : 3 * (m - 1) + 1 <= n /\ (m < Q => 3 * (m - 1) + 3 <= n)
        /\ Q = (n + 2) \div 3
    <3> HIDE DEF n
    <3> QED
      BY <1>1, Places DEF Groups, n
  <2>4. seqs \in [1..Q -> Seq(Octet)]
    BY <2>2
  <2> HIDE DEF seqs, input, s, n, Q
  <2>5. Len(seqs) = Q
    BY <1>1, <2>4, FcnIsSeq
  <2>6. FlattenSeq(seqs) = data
    <3>1. CASE Q = 0
      <4>1. FlattenSeq(seqs) = seqs
        BY <2>5, <3>1 DEF FlattenSeq
      <4>2. seqs \in Seq(Seq(Octet)) /\ Len(data) = 0
        BY <1>1, <2>3, <2>4, <3>1, FcnIsSeq DEF n
      <4>3. seqs = <<>> /\ data = <<>>
        BY <2>5, <3>1, <4>2, EmptySeq
      <4> QED
        BY <4>1, <4>3
    <3>2. CASE Q # 0
      <4> DEFINE Is(f) == f = [m \in 1..Q |-> IF m = 1 THEN seqs[m] ELSE f[m - 1] \o seqs[m]]
                 h == [m \in 1..Q |-> Prefix(data, End(m))]
                 f == CHOOSE f : Is(f)
      <4>1. FlattenSeq(seqs) = f[Q]
        BY <2>5, <3>2 DEF FlattenSeq
      <4>2. ASSUME NEW m \in 1..Q
            PROVE  /\ Prefix(data, 3 * (m - 1)) \o seqs[m] = Prefix(data, End(m))
                   /\ m # 1 => m - 1 \in 1..Q /\ End(m - 1) = 3 * (m - 1)
        <5> DEFINE a == 3 * (m - 1)
                   e == End(m)
                   g == seqs[m]
        <5>1. /\ g \in Seq(Octet) /\ Len(g) = (IF a + 3 <= n THEN a + 3 ELSE n) - a
              /\ \A j \in 1..((IF a + 3 <= n THEN a + 3 ELSE n) - a) : g[j] = data[a + j]
          BY <2>2
        <5>2. e = IF a + 3 <= n THEN a + 3 ELSE n
          BY <1>1
        <5>3. a \in 0..n /\ e \in a..n
          BY <1>1, <2>3, <5>2
        <5>4. m # 1 => m - 1 \in 1..Q /\ m - 1 < Q /\ 3 * ((m - 1) - 1) + 3 <= n
          <6> SUFFICES ASSUME m # 1 PROVE m - 1 \in 1..Q /\ m - 1 < Q /\ 3 * ((m - 1) - 1) + 3 <= n
            OBVIOUS
          <6>1. m - 1 \in 1..Q /\ m - 1 < Q
            BY <1>1
          <6> QED
            BY <2>3, <6>1
        <5>5. m # 1 => m - 1 \in 1..Q /\ End(m - 1) = 3 * (m - 1)
          BY <1>1, <5>4
        <5> HIDE DEF g, a, e
        <5>6. Prefix(data, a) \o g = Prefix(data, e)
          BY <5>1, <5>2, <5>3, PrefixGrows DEF n
        <5> QED
          BY <5>5, <5>6 DEF g, a, e
      <4>3. Prefix(data, 3 * (1 - 1)) = <<>> /\ \A m \in 1..Q : seqs[m] \in Seq(Octet)
        <5>1. 3 * (1 - 1) = 0 /\ 0 \in 0..n
          BY <1>1
        <5>2. Prefix(data, 0) \in Seq(Octet) /\ Len(Prefix(data, 0)) = 0
          BY <5>1, PrefixIs DEF n
        <5>3. Prefix(data, 0) = <<>>
          BY <5>2, EmptySeq
        <5> QED
          BY <2>4, <5>1, <5>3
      <4>4. 1 \in 1..Q /\ Q \in 1..Q
        BY <1>1, <3>2
      <4>5. seqs[1] = Prefix(data, End(1))
        <5>1. <<>> \o seqs[1] = seqs[1]
          BY <4>3, <4>4, ConcatEmptySeq
        <5>2. Prefix(data, 3 * (1 - 1)) \o seqs[1] = Prefix(data, End(1))
          BY <4>2, <4>4
        <5> QED
          BY <4>3, <5>1, <5>2
      <4> HIDE DEF End
      <4>6. ASSUME NEW m \in 1..Q
            PROVE  Prefix(data, End(m)) = IF m = 1 THEN seqs[m] ELSE h[m - 1] \o seqs[m]
        <5>1. CASE m = 1
          BY <4>5, <5>1
        <5>2. CASE m # 1
          <6>1. m - 1 \in 1..Q /\ End(m - 1) = 3 * (m - 1)
            BY <4>2, <5>2
          <6>2. h[m - 1] = Prefix(data, 3 * (m - 1))
            BY <6>1
          <6> QED
            BY <4>2, <5>2, <6>2
        <5> QED
          BY <5>1, <5>2
      <4>7. Is(h)
        BY <4>6
      <4>8. Is(f)
        BY <4>7
      <4> HIDE DEF f
      <4> DEFINE T == {k \in Nat : k + 1 <= Q => f[k + 1] = Prefix(data, End(k + 1))}
      <4>9. 0 \in T
        <5>1. f[1] = seqs[1]
          BY <4>4, <4>8
        <5> QED
          BY <4>5, <5>1
      <4>10. ASSUME NEW k \in Nat, k \in T PROVE k + 1 \in T
        <5> SUFFICES ASSUME (k + 1) + 1 <= Q PROVE f[(k + 1) + 1] = Prefix(data, End((k + 1) + 1))
          OBVIOUS
        <5>1. (k + 1) + 1 \in 1..Q /\ (k + 1) + 1 # 1 /\ ((k + 1) + 1) - 1 = k + 1 /\ k + 1 <= Q /\ k + 1 \in 1..Q
          BY <1>1
        <5>2. f[(k + 1) + 1] = f[k + 1] \o seqs[(k + 1) + 1]
          BY <4>8, <5>1
        <5>3. f[k + 1] = Prefix(data, End(k + 1))
          BY <4>10, <5>1
        <5>4. End(k + 1) = 3 * (((k + 1) + 1) - 1)
          BY <4>2, <5>1
        <5> QED
          BY <4>2, <5>1, <5>2, <5>3, <5>4
      <4> HIDE DEF T
      <4>11. Q - 1 \in Nat /\ Q - 1 \in T
        BY <1>1, <3>2, <4>9, <4>10, NatSetInduction
      <4>12. f[Q] = Prefix(data, End(Q))
        <5>1. (Q - 1) + 1 = Q /\ Q <= Q
          BY <1>1
        <5> QED
          BY <4>11, <5>1 DEF T
      <4>13. End(Q) = n
        BY <1>1, <2>3 DEF End
      <4>14. Prefix(data, n) = data
        <5>1. n \in 0..n
          BY <1>1
        <5>2. /\ Prefix(data, n) \in Seq(Octet) /\ Len(Prefix(data, n)) = n
              /\ \A i \in 1..n : Prefix(data, n)[i] = data[i]
          BY <5>1, PrefixIs DEF n
        <5> QED
          BY <5>2, SeqEqual DEF n
      <4> QED
        BY <4>1, <4>12, <4>13, <4>14
    <3> QED
      BY <3>1, <3>2
  <2> QED
    BY <1>4, <1>5, <1>7, <2>6 DEF s
<1> QED
  BY <1>6, <1>7

-------------------------------------------------------------------------------
(* Tokens *)

(* A token as generate makes them: for some user, and for Ttl. *)
GoodToken(token) ==
    /\ \E name \in Name : token.payload = base64url_encode(Payload(name))
    /\ token.iat \in Time /\ token.exp = token.iat + Ttl

(* Only requests for a private path have a token, and only register and    *)
(* login get to issue one, for the name they were given.                   *)
Carries(j) ==
    j.pc # "idle" =>
        /\ j.path \in Path
        /\ j.token # None => j.path = "private" /\ GoodToken(j.token)
        /\ j.path \in {"register", "login"} => j.name \in Name
        /\ j.pc = "issue_token" => j.path \in {"register", "login"}

(* Every token that is anywhere was made by generate. *)
TokenInv == (\A token \in tokens : GoodToken(token)) /\ \A t \in Thread : Carries(job[t])

(* A job that carries a good token, or none, may be taken up. *)
LEMMA TokenBecome ==
    ASSUME AdmitType, TokenInv, NEW t \in Thread, NEW j, Become(t, j), Carries(j), tokens' = tokens
    PROVE  TokenInv'
<1>1. /\ job'[t] = j /\ \A u \in Thread \ {t} : job'[u] = job[u]
  BY JobStep
<1>2. \A u \in Thread : Carries(job'[u])
  BY <1>1 DEF TokenInv
<1> QED
  BY <1>2 DEF TokenInv

(* A request that arrives carries a token the program has issued, or none. *)
LEMMA TokenArrive ==
    ASSUME AdmitType, TokenInv, NEW t \in Thread, NEW path \in Path, NEW peer, NEW name, NEW token, NEW forwarded,
           Arrive(t, path, forwarded, peer, name, token),
           token # None => path = "private" /\ GoodToken(token),
           path \in {"register", "login"} => name \in Name
    PROVE  TokenInv'
<1> DEFINE j == [IdleJob EXCEPT !.pc = IF is_exempt(path) THEN "authenticate" ELSE "allow",
                                !.ip = resolve_client_ip(forwarded, peer),
                                !.path = path, !.name = name, !.token = token]
<1>1. Become(t, j) /\ tokens' = tokens
  BY DEF Arrive
<1>2. j.pc \in {"authenticate", "allow"} /\ j.path = path /\ j.name = name /\ j.token = token
  BY DEF IdleJob
<1> HIDE DEF j
<1>3. Carries(j)
  BY <1>2 DEF Carries
<1> QED
  BY <1>1, <1>3, TokenBecome

(* So whatever a client asks for, *)
LEMMA TokenRequest ==
    ASSUME AdmitType, TokenInv, NEW t \in Thread, Request(t)
    PROVE  TokenInv'
<1>1. PICK peer \in Ip, forwarded \in {<<>>} \cup {<<i>> : i \in Ip \cup {None}} :
        \/ \E path \in {"static", "public"} : Arrive(t, path, forwarded, peer, None, None)
        \/ \E path \in {"register", "login"}, name \in Name : Arrive(t, path, forwarded, peer, name, None)
        \/ \E token \in tokens \cup {None} : Arrive(t, "private", forwarded, peer, None, token)
  BY DEF Request
<1>2. ASSUME NEW path \in {"static", "public"}, Arrive(t, path, forwarded, peer, None, None) PROVE TokenInv'
  <2>1. path \in Path /\ path \notin {"register", "login"}
    BY DEF Path
  <2> QED
    BY <1>2, <2>1, TokenArrive
<1>3. ASSUME NEW path \in {"register", "login"}, NEW name \in Name, Arrive(t, path, forwarded, peer, name, None)
      PROVE  TokenInv'
  <2>1. path \in Path
    BY DEF Path
  <2> QED
    BY <1>3, <2>1, TokenArrive
<1>4. ASSUME NEW token \in tokens \cup {None}, Arrive(t, "private", forwarded, peer, None, token) PROVE TokenInv'
  <2>1. "private" \in Path /\ "private" \notin {"register", "login"}
    BY DEF Path
  <2>2. token # None => GoodToken(token)
    BY DEF TokenInv
  <2> QED
    BY <1>4, <2>1, <2>2, TokenArrive
<1> QED
  BY <1>1, <1>2, <1>3, <1>4

(* whatever a thread does, *)
LEMMA TokenStep ==
    ASSUME AdmitType, TokenInv, NEW t \in Thread, Step(t)
    PROVE  TokenInv'
<1>0. GoodJob(job[t]) /\ Carries(job[t]) /\ job[t].pc # "idle"
  BY DEF AdmitType, TokenInv, Step, Allow, Eval, EvalLost, Authenticate, Dispatch, IssueToken
<1>1. Carries(IdleJob)
  BY DEF Carries, IdleJob
<1>2. ASSUME Answer(t), tokens' = tokens PROVE TokenInv'
  BY <1>1, <1>2, TokenBecome DEF Answer
<1>3. ASSUME NEW j, Become(t, j), tokens' = tokens, DOMAIN j = JobFields,
             j.path = job[t].path, j.token = job[t].token, j.name = job[t].name \/ j.path = "private",
             j.pc = "issue_token" => j.path \in {"register", "login"}
      PROVE  TokenInv'
  <2>1. Carries(j)
    BY <1>0, <1>3 DEF Carries
  <2> QED
    BY <1>3, <2>1, TokenBecome
<1>4. ASSUME NEW l, Goto(t, l), tokens' = tokens, l = "issue_token" => job[t].path \in {"register", "login"}
      PROVE  TokenInv'
  <2> DEFINE j == [job[t] EXCEPT !.pc = l]
  <2>1. Become(t, j)
    BY <1>4 DEF Goto
  <2>2. DOMAIN j = JobFields /\ j.path = job[t].path /\ j.token = job[t].token /\ j.name = job[t].name /\ j.pc = l
    BY <1>0 DEF GoodJob, JobFields
  <2> HIDE DEF j
  <2> QED
    BY <1>3, <1>4, <2>1, <2>2
<1>5. CASE Allow(t)
  <2> DEFINE j == [job[t] EXCEPT !.pc = "eval", !.stamp = now]
  <2>1. tokens' = tokens /\ (Goto(t, "authenticate") \/ Become(t, j))
    BY <1>5 DEF Allow
  <2>2. DOMAIN j = JobFields /\ j.path = job[t].path /\ j.token = job[t].token /\ j.name = job[t].name /\ j.pc = "eval"
    BY <1>0 DEF GoodJob, JobFields
  <2> HIDE DEF j
  <2> QED
    BY <1>3, <1>4, <2>1, <2>2
<1>6. CASE Eval(t)
  <2> DEFINE j == [job[t] EXCEPT !.pc = "authenticate", !.stamp = 0]
  <2>1. tokens' = tokens /\ (Answer(t) \/ Become(t, j))
    BY <1>6 DEF Eval
  <2>2. DOMAIN j = JobFields /\ j.path = job[t].path /\ j.token = job[t].token /\ j.name = job[t].name
        /\ j.pc = "authenticate"
    BY <1>0 DEF GoodJob, JobFields
  <2> HIDE DEF j
  <2> QED
    BY <1>2, <1>3, <2>1, <2>2
<1>7. CASE EvalLost(t)
  BY <1>2, <1>7 DEF EvalLost
<1>8. CASE Authenticate(t)
  <2> DEFINE j == [job[t] EXCEPT !.pc = "dispatch", !.name = verify(job[t].token)]
  <2>1. tokens' = tokens /\ (Goto(t, "dispatch") \/ Answer(t) \/ (job[t].path = "private" /\ Become(t, j)))
    BY <1>8 DEF Authenticate, is_whitelisted
  <2>2. DOMAIN j = JobFields /\ j.path = job[t].path /\ j.token = job[t].token /\ j.pc = "dispatch"
    BY <1>0 DEF GoodJob, JobFields
  <2> HIDE DEF j
  <2> QED
    BY <1>2, <1>3, <1>4, <2>1, <2>2
<1>9. CASE Dispatch(t)
  <2>1. tokens' = tokens /\ (Answer(t) \/ (Goto(t, "issue_token") /\ job[t].path \in {"register", "login"}))
    BY <1>9 DEF Dispatch
  <2> QED
    BY <1>2, <1>4, <2>1
<1>10. CASE IssueToken(t)
  <2> DEFINE token == generate(job[t].name)
  <2>1. tokens' = tokens \cup {token} /\ Become(t, IdleJob)
    BY <1>10 DEF IssueToken, Answer
  <2>2. job[t].name \in Name
    BY <1>0, <1>10 DEF IssueToken, Carries
  <2>3. now \in Time
    BY DEF AdmitType
  <2>4. GoodToken(token)
    <3>1. token.payload = base64url_encode(Payload(job[t].name)) /\ token.iat = now /\ token.exp = now + Ttl
      BY DEF generate
    <3> HIDE DEF token
    <3> QED
      BY <2>2, <2>3, <3>1 DEF GoodToken
  <2>5. job'[t] = IdleJob /\ \A u \in Thread \ {t} : job'[u] = job[u]
    BY <2>1, JobStep
  <2> HIDE DEF token
  <2>6. \A u \in Thread : Carries(job'[u])
    BY <1>1, <2>5 DEF TokenInv
  <2>7. \A x \in tokens' : GoodToken(x)
    BY <2>1, <2>4 DEF TokenInv
  <2> QED
    BY <2>6, <2>7 DEF TokenInv
<1> QED
  BY <1>5, <1>6, <1>7, <1>8, <1>9, <1>10 DEF Step

(* and with every step, tokens stay what generate made. *)
LEMMA TokenNext == ASSUME AdmitType, TokenInv, [AdmitNext]_admitVars PROVE TokenInv'
<1>1. ASSUME UNCHANGED <<tokens, job>> PROVE TokenInv'
  BY <1>1 DEF TokenInv
<1>2. CASE Tick \/ LoseRedis \/ UNCHANGED admitVars
  BY <1>1, <1>2 DEF Tick, LoseRedis, admitVars
<1>3. CASE Restart
  <2>1. Carries(IdleJob)
    BY DEF Carries, IdleJob
  <2>2. tokens' = tokens /\ \A t \in Thread : job'[t] = IdleJob
    BY <1>3 DEF Restart
  <2>3. \A t \in Thread : Carries(job'[t])
    BY <2>1, <2>2
  <2> QED
    BY <2>2, <2>3 DEF TokenInv
<1> QED
  BY <1>2, <1>3, TokenStep, TokenRequest DEF AdmitNext

(* What verify makes of a token. *)
LEMMA VerifyIs ==
    ASSUME AdmitType, NEW token, GoodToken(token)
    PROVE  /\ (token.signed = secret /\ now <= token.iat + Ttl /\ ~UrlText(token)) =>
                  /\ verify(token) # None
                  /\ token.payload = base64url_encode(Payload(verify(token)))
           /\ ~(token.signed = secret /\ now <= token.iat + Ttl /\ ~UrlText(token)) => verify(token) = None
<1>1. PICK name \in Name : token.payload = base64url_encode(Payload(name))
  BY DEF GoodToken
<1> DEFINE data == Payload(name)
           s == base64url_encode(data)
           end == <<34, 125>>
<1>2. name \in Seq(Octet) /\ end \in Seq(Octet) /\ Len(end) = 2
  BY AdmissionAssumption DEF Octet
<1>3. /\ data \in Seq(Octet) /\ Len(data) = Len(name) + 2 /\ Len(name) \in Nat
      /\ \A i \in 1..Len(name) : data[i] = name[i]
  <2>1. data = name \o end
    BY DEF Payload
  <2> HIDE DEF end, data
  <2>2. /\ name \o end \in Seq(Octet) /\ Len(name \o end) = Len(name) + Len(end)
        /\ \A i \in 1 .. Len(name) + Len(end) : (name \o end)[i] = IF i <= Len(name) THEN name[i] ELSE end[i - Len(name)]
    BY <1>2, ConcatProperties
  <2>3. Len(name) \in Nat
    BY <1>2, LenProperties
  <2>4. \A i \in 1..Len(name) : i \in 1 .. Len(name) + Len(end) /\ i <= Len(name)
    BY <1>2, <2>3
  <2> QED
    BY <1>2, <2>1, <2>2, <2>3, <2>4
<1>4. base64url_decode(s, None) = IF Dashed(s) THEN None ELSE data
  <2> HIDE DEF data
  <2> QED
    BY <1>3, RoundTrip
<1>5. Dashed(s) <=> UrlText(token)
  BY <1>1 DEF Dashed, UrlText
<1>6. data # None /\ name # None
  BY <1>2, <1>3, AdmissionAssumption DEF Octet
<1>7. token.exp < now <=> ~(now <= token.iat + Ttl)
  <2>1. token.iat \in Int /\ now \in Int /\ Ttl \in Int /\ token.exp = token.iat + Ttl
    BY AdmissionAssumption DEF GoodToken, AdmitType, Time
  <2> QED
    BY <2>1
<1>8. SubSeq(data, 1, Len(data) - 2) = name
  <2> DEFINE n == Len(name)
             p == SubSeq(data, 1, n)
  <2>1. n \in Nat /\ Len(data) - 2 = n
    BY <1>3
  <2>2. p = [i \in 1..n |-> data[i]]
    <3>1. n = (n - 1) + 1
      BY <2>1
    <3> HIDE DEF data, n
    <3> QED
      BY <2>1
  <2> HIDE DEF data
  <2>3. p \in [1..n -> Octet]
    <3>1. \A i \in 1..n : name[i] \in Octet
      BY <1>2, ElementOfSeq
    <3> QED
      BY <1>3, <2>2, <3>1
  <2>4. p \in Seq(Octet) /\ Len(p) = n
    BY <2>1, <2>3, FcnIsSeq
  <2>5. \A i \in 1..Len(p) : p[i] = name[i]
    BY <1>3, <2>2, <2>4
  <2> HIDE DEF p
  <2>6. p = name
    BY <1>2, <2>4, <2>5, SeqEqual
  <2> QED
    BY <2>1, <2>6 DEF p
<1> HIDE DEF data, s
<1>9. token.payload = s
  BY <1>1 DEF s, data
<1>10. verify(token) = IF token.signed # secret \/ base64url_decode(s, None) = None \/ token.exp < now THEN None
                       ELSE SubSeq(base64url_decode(s, None), 1, Len(base64url_decode(s, None)) - 2)
  BY <1>9 DEF verify, Expired
<1>11. CASE UrlText(token)
  BY <1>4, <1>5, <1>10, <1>11
<1>12. CASE ~UrlText(token)
  <2>1. verify(token) = IF token.signed # secret \/ token.exp < now THEN None ELSE name
    BY <1>4, <1>5, <1>6, <1>8, <1>10, <1>12
  <2> QED
    BY <1>6, <1>7, <1>9, <1>12, <2>1 DEF s, data
<1> QED
  BY <1>11, <1>12

(* A thread's job is changed by its own step, or by a restart. *)
LEMMA OwnStep ==
    ASSUME AdmitType, AdmitNext, NEW t \in Thread, job[t].pc = "authenticate", job'[t] # job[t], faults' = faults
    PROVE  Authenticate(t)
<1>1. ~Tick /\ ~LoseRedis
  BY DEF Tick, LoseRedis
<1>2. ~Restart
  BY DEF Restart, Fault, AdmitType
<1>3. ASSUME NEW u \in Thread, Step(u) \/ Request(u) PROVE \E j : Become(u, j)
  BY <1>3 DEF Step, Request, Allow, Eval, EvalLost, Authenticate, Dispatch, IssueToken, Arrive, Answer, Goto
<1>4. PICK u \in Thread : Step(u) \/ Request(u)
  BY <1>1, <1>2 DEF AdmitNext
<1>5. u = t
  BY <1>3, <1>4, JobStep
<1> QED
  BY <1>4, <1>5 DEF Step, Request, Allow, Eval, EvalLost, Dispatch, IssueToken, Arrive

(* authenticate on a token. *)
LEMMA TokenJudged ==
    ASSUME AdmitType, TokenInv, NEW t \in Thread, Authenticate(t), job[t].token # None
    PROVE  IF Valid(job[t].token) /\ ~UrlText(job[t].token) THEN LetsOwnUser(t) ELSE job'[t].pc = "idle"
<1> DEFINE token == job[t].token
           j == [job[t] EXCEPT !.pc = "dispatch", !.name = verify(token)]
           ok == token.signed = secret /\ now <= token.iat + Ttl /\ ~UrlText(token)
<1>1. job[t].pc = "authenticate" /\ GoodJob(job[t]) /\ Carries(job[t])
  BY DEF Authenticate, AdmitType, TokenInv
<1>2. job[t].path = "private" /\ GoodToken(token)
  BY <1>1 DEF Carries
<1>3. IF verify(token) = None THEN Become(t, IdleJob) ELSE Become(t, j)
  BY <1>2 DEF Authenticate, is_whitelisted, Answer
<1>4. j.pc = "dispatch" /\ j.name = verify(token)
  BY <1>1 DEF GoodJob, JobFields
<1> HIDE DEF j, token
<1>5. /\ ok => verify(token) # None /\ token.payload = base64url_encode(Payload(verify(token)))
      /\ ~ok => verify(token) = None
  BY <1>2, VerifyIs
<1>6. CASE ok
  <2>1. job'[t] = j
    BY <1>3, <1>5, <1>6, JobStep
  <2> QED
    BY <1>4, <1>5, <1>6, <2>1 DEF token, Valid, LetsOwnUser
<1>7. CASE ~ok
  <2>1. job'[t] = IdleJob
    BY <1>3, <1>5, <1>7, JobStep
  <2> QED
    BY <1>7, <2>1 DEF token, IdleJob, Valid
<1> QED
  BY <1>6, <1>7

(* TokensJudged (TokensExact): verify accepts only what was signed with    *)
(* the secret in force and has not expired, for its own user, and accepts  *)
(* all of it whose text has neither '-' nor '_'.                           *)
THEOREM TokensJudged == AdmitSpec => TokensExact
<1>1. AdmitInit => TokenInv
  <2> SUFFICES ASSUME AdmitInit PROVE TokenInv
    OBVIOUS
  <2>1. tokens = {} /\ \A t \in Thread : job[t] = IdleJob
    BY DEF AdmitInit
  <2>2. Carries(IdleJob)
    BY DEF Carries, IdleJob
  <2> QED
    BY <2>1, <2>2 DEF TokenInv
<1>2. TokenInv /\ AdmitInv /\ [AdmitNext]_admitVars => TokenInv'
  BY TokenNext DEF AdmitInv
<1> DEFINE A == \A t \in Thread : Judges(t) =>
         /\ Valid(job[t].token) /\ ~UrlText(job[t].token) => LetsOwnUser(t)
         /\ job'[t].pc = "idle" \/ (Valid(job[t].token) /\ LetsOwnUser(t))
<1>3. TokenInv /\ AdmitInv /\ [AdmitNext]_admitVars => [A]_admitVars
  <2> SUFFICES ASSUME TokenInv, AdmitInv, AdmitNext PROVE A
    OBVIOUS
  <2>0. AdmitType
    BY DEF AdmitInv
  <2> SUFFICES ASSUME NEW t \in Thread, Judges(t)
               PROVE  /\ Valid(job[t].token) /\ ~UrlText(job[t].token) => LetsOwnUser(t)
                      /\ job'[t].pc = "idle" \/ (Valid(job[t].token) /\ LetsOwnUser(t))
    OBVIOUS
  <2>1. Authenticate(t) /\ job[t].token # None
    BY <2>0, OwnStep DEF Judges
  <2> QED
    BY <2>0, <2>1, TokenJudged
<1>4. AdmitSpec => []AdmitInv
  BY AdmitInvHolds
<1>5. TokensExact <=> [][A]_admitVars
  BY DEF TokensExact
<1> HIDE DEF A
<1> QED
  BY <1>1, <1>2, <1>3, <1>4, <1>5, PTL DEF AdmitSpec

-------------------------------------------------------------------------------
(* The buffer *)

(* What BufferOK says, in numbers. *)
LEMMA BufferFacts ==
    ASSUME NEW b, BufferOK(b)
    PROVE  /\ b.buffer \in Seq(Byte) /\ Len(b.buffer) \in Nat /\ b.read_index \in Nat /\ b.write_index \in Nat
           /\ kCheapPrepend \in Nat /\ kCheapPrepend <= b.read_index /\ b.read_index <= b.write_index
           /\ b.write_index <= Len(b.buffer)
           /\ readable_bytes(b) \in Nat /\ writable_bytes(b) \in Nat
           /\ \A i \in 1..Len(b.buffer) : b.buffer[i] \in Byte
           /\ Readable(b) \in Seq(Byte) /\ Len(Readable(b)) = readable_bytes(b)
           /\ \A i \in 1..readable_bytes(b) : Readable(b)[i] = b.buffer[b.read_index + i]
<1>1. /\ b.buffer \in Seq(Byte) /\ Len(b.buffer) \in Nat /\ b.read_index \in Nat /\ b.write_index \in Nat
      /\ kCheapPrepend \in Nat /\ kCheapPrepend <= b.read_index /\ b.read_index <= b.write_index
      /\ b.write_index <= Len(b.buffer)
  BY BufferAssumption, LenProperties DEF BufferOK
<1>2. readable_bytes(b) \in Nat /\ writable_bytes(b) \in Nat
  BY <1>1 DEF readable_bytes, writable_bytes
<1>3. \A i \in 1..Len(b.buffer) : b.buffer[i] \in Byte
  BY <1>1, ElementOfSeq
<1>4. Readable(b) \in [1..readable_bytes(b) -> Byte]
  BY <1>1, <1>2, <1>3 DEF Readable, readable_bytes
<1>5. Readable(b) \in Seq(Byte) /\ Len(Readable(b)) = readable_bytes(b)
  BY <1>2, <1>4, FcnIsSeq
<1>6. \A i \in 1..readable_bytes(b) : Readable(b)[i] = b.buffer[b.read_index + i]
  BY DEF Readable
<1> QED
  BY <1>1, <1>2, <1>3, <1>5, <1>6

(* A buffer is good, and what is readable in it is data, if its cells      *)
(* between the indices are those of data.                                  *)
LEMMA BufferIs ==
    ASSUME NEW b \in [buffer : Seq(Byte), read_index : Nat, write_index : Nat], NEW data \in Seq(Byte),
           kCheapPrepend <= b.read_index, b.write_index = b.read_index + Len(data), b.write_index <= Len(b.buffer),
           \A i \in 1..Len(data) : b.buffer[b.read_index + i] = data[i]
    PROVE  BufferOK(b) /\ Readable(b) = data
<1>1. Len(data) \in Nat /\ b.read_index \in Nat
  BY LenProperties
<1>2. BufferOK(b)
  BY <1>1, BufferAssumption DEF BufferOK
<1>3. readable_bytes(b) = Len(data)
  BY <1>1 DEF readable_bytes
<1>4. Readable(b) \in Seq(Byte) /\ Len(Readable(b)) = Len(data)
      /\ \A i \in 1..Len(data) : Readable(b)[i] = b.buffer[b.read_index + i]
  BY <1>2, <1>3, BufferFacts
<1>5. Readable(b) = data
  BY <1>4, SeqEqual
<1> QED
  BY <1>2, <1>5

(* std::copy: the cells it writes, and the others. *)
LEMMA CopyCells ==
    ASSUME NEW cells \in Seq(Byte), NEW at \in Nat, NEW data \in Seq(Byte)
    PROVE  /\ CopyTo(cells, at, data) \in Seq(Byte) /\ Len(CopyTo(cells, at, data)) = Len(cells)
           /\ \A i \in 1..Len(cells) : CopyTo(cells, at, data)[i] =
                  IF at < i /\ i <= at + Len(data) THEN data[i - at] ELSE cells[i]
<1>1. Len(data) \in Nat /\ Len(cells) \in Nat
  BY LenProperties
<1>2. \A i \in 1..Len(cells) : at < i /\ i <= at + Len(data) => data[i - at] \in Byte
  <2> SUFFICES ASSUME NEW i \in 1..Len(cells), at < i, i <= at + Len(data) PROVE data[i - at] \in Byte
    OBVIOUS
  <2>1. i - at \in 1..Len(data)
    BY <1>1
  <2> QED
    BY <2>1, ElementOfSeq
<1>3. \A i \in 1..Len(cells) : cells[i] \in Byte
  BY ElementOfSeq
<1>4. CopyTo(cells, at, data) \in [1..Len(cells) -> Byte]
  BY <1>2, <1>3 DEF CopyTo
<1> QED
  BY <1>1, <1>4, FcnIsSeq DEF CopyTo

(* vector::resize keeps the cells there were. *)
LEMMA ResizeCells ==
    ASSUME NEW cells \in Seq(Byte), NEW n \in Nat
    PROVE  /\ Resize(cells, n) \in Seq(Byte) /\ Len(Resize(cells, n)) = n
           /\ \A i \in 1..n : Resize(cells, n)[i] = IF i <= Len(cells) THEN cells[i] ELSE Blank
<1>1. \A i \in 1..Len(cells) : cells[i] \in Byte
  BY ElementOfSeq
<1>2. Len(cells) \in Nat /\ Blank \in Byte
  BY LenProperties, BufferAssumption
<1>3. Resize(cells, n) \in [1..n -> Byte]
  BY <1>1, <1>2 DEF Resize
<1> QED
  BY <1>3, FcnIsSeq DEF Resize

(* make_space makes the room and keeps the bytes. *)
LEMMA MakeSpace ==
    ASSUME NEW b, BufferOK(b), NEW len \in Nat
    PROVE  /\ BufferOK(make_space(b, len)) /\ Readable(make_space(b, len)) = Readable(b)
           /\ writable_bytes(make_space(b, len)) >= len
<1> DEFINE r == b.read_index
           w == b.write_index
           d == Readable(b)
           m == Len(d)
           size == Len(b.buffer)
           c == make_space(b, len)
<1>0. /\ size \in Nat /\ r \in Nat /\ w \in Nat /\ m \in Nat /\ kCheapPrepend \in Nat
      /\ kCheapPrepend <= r /\ r <= w /\ w <= size /\ m = w - r /\ readable_bytes(b) = m
  BY BufferFacts DEF readable_bytes
<1>1. /\ b.buffer \in Seq(Byte) /\ d \in Seq(Byte)
      /\ \A i \in 1..m : d[i] = b.buffer[r + i]
  BY BufferFacts
<1>2. CASE ~HasRoom(b, len)
  <2> DEFINE n == w + len
             cells == Resize(b.buffer, n)
  <2>1. c = [b EXCEPT !.buffer = cells]
    BY <1>2 DEF make_space
  <2>2. n \in Nat
    BY <1>0
  <2>3. /\ cells \in Seq(Byte) /\ Len(cells) = n
        /\ \A i \in 1..n : cells[i] = IF i <= size THEN b.buffer[i] ELSE Blank
    BY <1>1, <2>2, ResizeCells
  <2> HIDE DEF cells, c, d, m, size
  <2>4. /\ c \in [buffer : Seq(Byte), read_index : Nat, write_index : Nat]
        /\ c.buffer = cells /\ c.read_index = r /\ c.write_index = w
    BY <2>1, <2>3 DEF BufferOK
  <2> HIDE DEF r, w
  <2>5. \A i \in 1..m : r + i \in 1..n /\ r + i <= size
    BY <1>0
  <2>6. \A i \in 1..m : cells[r + i] = d[i]
    BY <1>1, <2>3, <2>5
  <2>7. w = r + m /\ w <= n /\ n - w >= len
    BY <1>0
  <2>8. BufferOK(c) /\ Readable(c) = d
    BY <1>0, <1>1, <2>3, <2>4, <2>6, <2>7, BufferIs DEF m
  <2> QED
    BY <2>3, <2>4, <2>7, <2>8 DEF c, d, writable_bytes
<1>3. CASE HasRoom(b, len)
  <2> DEFINE cells == CopyTo(b.buffer, kCheapPrepend, d)
             p == kCheapPrepend
  <2>1. c = [buffer |-> cells, read_index |-> p, write_index |-> p + readable_bytes(b)]
    BY <1>3 DEF make_space
  <2>2. /\ cells \in Seq(Byte) /\ Len(cells) = size
        /\ \A i \in 1..size : cells[i] = IF p < i /\ i <= p + m THEN d[i - p] ELSE b.buffer[i]
    BY <1>0, <1>1, CopyCells
  <2>3. (size - w) + r >= len + p
    BY <1>3 DEF HasRoom, writable_bytes
  <2> HIDE DEF cells, c, d, m, size, r, w, p
  <2>4. /\ c \in [buffer : Seq(Byte), read_index : Nat, write_index : Nat]
        /\ c.buffer = cells /\ c.read_index = p /\ c.write_index = p + m
    BY <1>0, <2>1, <2>2 DEF p
  <2>5. \A i \in 1..m : p + i \in 1..size /\ p < p + i /\ p + i <= p + m /\ (p + i) - p = i
    BY <1>0 DEF p
  <2>6. \A i \in 1..m : cells[p + i] = d[i]
    BY <2>2, <2>5
  <2>7. p + m <= size /\ size - (p + m) >= len
    BY <1>0, <2>3 DEF p
  <2>8. BufferOK(c) /\ Readable(c) = d
    <3>1. \A i \in 1..Len(d) : c.buffer[c.read_index + i] = d[i]
      BY <2>4, <2>6 DEF m
    <3>2. kCheapPrepend <= c.read_index /\ c.write_index = c.read_index + Len(d) /\ c.write_index <= Len(c.buffer)
      BY <1>0, <2>2, <2>4, <2>7 DEF p, m
    <3> QED
      BY <1>1, <2>4, <3>1, <3>2, BufferIs
  <2> QED
    BY <2>2, <2>4, <2>7, <2>8 DEF c, d, writable_bytes
<1> QED
  BY <1>2, <1>3

(* ensure_writable_bytes makes the room, if there is too little. *)
LEMMA EnsureWritable ==
    ASSUME NEW b, BufferOK(b), NEW len \in Nat
    PROVE  LET c == ensure_writable_bytes(b, len) IN
           BufferOK(c) /\ Readable(c) = Readable(b) /\ writable_bytes(c) >= len
<1>1. writable_bytes(b) \in Nat
  BY BufferFacts
<1> QED
  BY <1>1, MakeSpace DEF ensure_writable_bytes

(* Bytes written into the room are readable behind the others. *)
LEMMA WrittenAppends ==
    ASSUME NEW b, BufferOK(b), NEW data \in Seq(Byte), Len(data) <= writable_bytes(b)
    PROVE  /\ BufferOK(Written(b, data)) /\ Readable(Written(b, data)) = Readable(b) \o data
           /\ writable_bytes(Written(b, data)) = writable_bytes(b) - Len(data)
<1> DEFINE r == b.read_index
           w == b.write_index
           d == Readable(b)
           m == Len(d)
           n == Len(data)
           size == Len(b.buffer)
           cells == CopyTo(b.buffer, w, data)
           all == d \o data
           c == Written(b, data)
<1>0. /\ size \in Nat /\ r \in Nat /\ w \in Nat /\ m \in Nat /\ n \in Nat /\ kCheapPrepend \in Nat
      /\ kCheapPrepend <= r /\ r <= w /\ w + n <= size /\ m = w - r
  BY BufferFacts, LenProperties DEF readable_bytes, writable_bytes
<1>1. /\ b.buffer \in Seq(Byte) /\ d \in Seq(Byte)
      /\ \A i \in 1..m : d[i] = b.buffer[r + i]
  BY BufferFacts
<1>2. /\ all \in Seq(Byte) /\ Len(all) = m + n
      /\ \A i \in 1..(m + n) : all[i] = IF i <= m THEN d[i] ELSE data[i - m]
  BY <1>1, ConcatProperties
<1>3. /\ cells \in Seq(Byte) /\ Len(cells) = size
      /\ \A i \in 1..size : cells[i] = IF w < i /\ i <= w + n THEN data[i - w] ELSE b.buffer[i]
  BY <1>0, <1>1, CopyCells
<1>4. c = [b EXCEPT !.buffer = cells, !.write_index = w + n]
  BY DEF Written
<1>5. w + n \in Nat
  BY <1>0
<1> HIDE DEF cells, d, c, m, n, size, all
<1>6. /\ c \in [buffer : Seq(Byte), read_index : Nat, write_index : Nat]
      /\ c.buffer = cells /\ c.read_index = r /\ c.write_index = w + n
  BY <1>3, <1>4, <1>5 DEF BufferOK
<1> HIDE DEF r, w
<1>7. \A i \in 1..(m + n) : cells[r + i] = all[i]
  <2> SUFFICES ASSUME NEW i \in 1..(m + n) PROVE cells[r + i] = all[i]
    OBVIOUS
  <2>1. CASE i <= m
    <3>1. r + i \in 1..size /\ ~(w < r + i) /\ i \in 1..m
      BY <1>0, <2>1
    <3> QED
      BY <1>1, <1>2, <1>3, <2>1, <3>1
  <2>2. CASE ~(i <= m)
    <3>1. r + i \in 1..size /\ w < r + i /\ r + i <= w + n /\ (r + i) - w = i - m
      BY <1>0, <2>2
    <3> QED
      BY <1>2, <1>3, <2>2, <3>1
  <2> QED
    BY <2>1, <2>2
<1>8. w + n = r + (m + n) /\ size - (w + n) = (size - w) - n
  BY <1>0
<1>9. BufferOK(c) /\ Readable(c) = all
  <2>1. \A i \in 1..Len(all) : c.buffer[c.read_index + i] = all[i]
    BY <1>2, <1>6, <1>7
  <2>2. kCheapPrepend <= c.read_index /\ c.write_index = c.read_index + Len(all) /\ c.write_index <= Len(c.buffer)
    BY <1>0, <1>2, <1>3, <1>6, <1>8
  <2> QED
    BY <1>2, <1>6, <2>1, <2>2, BufferIs
<1>10. writable_bytes(c) = (size - w) - n /\ writable_bytes(b) = size - w
  BY <1>3, <1>6, <1>8 DEF writable_bytes, size, w
<1> QED
  BY <1>9, <1>10 DEF c, d, all, n

(* append makes the room it needs. *)
LEMMA AppendAppends ==
    ASSUME NEW b, BufferOK(b), NEW data \in Seq(Byte)
    PROVE  BufferOK(append(b, data)) /\ Readable(append(b, data)) = Readable(b) \o data
<1>1. Len(data) \in Nat
  BY LenProperties
<1> DEFINE c == ensure_writable_bytes(b, Len(data))
<1>2. BufferOK(c) /\ Readable(c) = Readable(b) /\ writable_bytes(c) >= Len(data)
  BY <1>1, EnsureWritable
<1>3. writable_bytes(c) \in Nat
  BY <1>2, BufferFacts
<1> HIDE DEF c
<1>4. Len(data) <= writable_bytes(c)
  BY <1>1, <1>2, <1>3
<1>5. BufferOK(Written(c, data)) /\ Readable(Written(c, data)) = Readable(c) \o data
  BY <1>2, <1>4, WrittenAppends
<1> QED
  BY <1>2, <1>5 DEF append, c

(* One readv appends what it has read, also if part of it went to the      *)
(* second buffer.                                                          *)
LEMMA ReadAppends ==
    ASSUME NEW b, BufferOK(b), NEW data \in Seq(Byte)
    PROVE  BufferOK(read_from_fd(b, data)) /\ Readable(read_from_fd(b, data)) = Readable(b) \o data
<1> DEFINE w == writable_bytes(b)
           n == Len(data)
           first == [i \in 1..w |-> data[i]]
           rest == [i \in 1..(n - w) |-> data[w + i]]
<1>1. n \in Nat /\ w \in Nat /\ \A i \in 1..n : data[i] \in Byte
  BY BufferFacts, LenProperties, ElementOfSeq
<1>2. CASE n <= w
  BY <1>2, WrittenAppends DEF read_from_fd
<1>3. CASE ~(n <= w)
  <2>1. n - w \in Nat /\ (\A i \in 1..w : i \in 1..n) /\ \A i \in 1..(n - w) : w + i \in 1..n
    BY <1>1, <1>3
  <2>2. first \in [1..w -> Byte] /\ rest \in [1..(n - w) -> Byte]
    BY <1>1, <2>1
  <2>3. first \in Seq(Byte) /\ Len(first) = w /\ rest \in Seq(Byte) /\ Len(rest) = n - w
    BY <1>1, <2>1, <2>2, FcnIsSeq
  <2>4. first \o rest = data
    <3>1. /\ first \o rest \in Seq(Byte) /\ Len(first \o rest) = w + (n - w)
          /\ \A i \in 1..(w + (n - w)) : (first \o rest)[i] = IF i <= w THEN first[i] ELSE rest[i - w]
      <4> HIDE DEF first, rest, w, n
      <4>1. first \in Seq(Byte) /\ rest \in Seq(Byte)
        BY <2>3
      <4>2. /\ first \o rest \in Seq(Byte) /\ Len(first \o rest) = Len(first) + Len(rest)
            /\ \A i \in 1 .. Len(first) + Len(rest) :
                   (first \o rest)[i] = IF i <= Len(first) THEN first[i] ELSE rest[i - Len(first)]
        BY <4>1, ConcatProperties
      <4> QED
        BY <2>3, <4>2
    <3>2. w + (n - w) = n
      BY <1>1
    <3>3. ASSUME NEW i \in 1..n PROVE (first \o rest)[i] = data[i]
      <4>1. CASE i <= w
        BY <1>1, <3>1, <3>2, <4>1
      <4>2. CASE ~(i <= w)
        <5>1. i - w \in 1..(n - w) /\ w + (i - w) = i
          BY <1>1, <4>2
        <5> QED
          BY <3>1, <3>2, <4>2, <5>1
      <4> QED
        BY <4>1, <4>2
    <3> HIDE DEF first, rest, w
    <3> QED
      BY <3>1, <3>2, <3>3, SeqEqual
  <2> DEFINE c == Written(b, first)
  <2>5. BufferOK(c) /\ Readable(c) = Readable(b) \o first
    <3> HIDE DEF first
    <3> QED
      BY <1>1, <2>3, WrittenAppends
  <2>6. read_from_fd(b, data) = append(c, rest)
    BY <1>3 DEF read_from_fd
  <2>7. Readable(b) \in Seq(Byte)
    BY BufferFacts
  <2> HIDE DEF first, rest, c, w, n
  <2>8. BufferOK(append(c, rest)) /\ Readable(append(c, rest)) = (Readable(b) \o first) \o rest
    BY <2>3, <2>5, AppendAppends
  <2>9. (Readable(b) \o first) \o rest = Readable(b) \o data
    <3>1. Joined(Joined(Readable(b), first), rest) = Joined(Readable(b), Joined(first, rest))
      BY <2>3, <2>7, JoinedAssociates, Zenon
    <3>2. Joined(first, rest) = data
      BY <2>4, Zenon DEF Joined
    <3>3. Joined(Joined(Readable(b), first), rest) = Joined(Readable(b), data)
      BY <3>1, <3>2, Zenon
    <3> QED
      BY <3>3, Zenon DEF Joined
  <2> QED
    BY <2>6, <2>8, <2>9
<1> QED
  BY <1>2, <1>3

(* shrink moves the readable bytes to a smaller vector. *)
LEMMA ShrinkKeeps ==
    ASSUME NEW b, BufferOK(b)
    PROVE  BufferOK(shrink(b)) /\ Readable(shrink(b)) = Readable(b)
<1> DEFINE d == Readable(b)
           m == Len(d)
           p == kCheapPrepend
           size == p + m
           blank == [i \in 1..size |-> Blank]
           cells == CopyTo(blank, p, d)
           c == shrink(b)
<1>1. d \in Seq(Byte) /\ m \in Nat /\ p \in Nat /\ readable_bytes(b) = m /\ size \in Nat
  BY BufferFacts
<1>2. blank \in [1..size -> Byte]
  BY BufferAssumption
<1>3. blank \in Seq(Byte) /\ Len(blank) = size
  BY <1>1, <1>2, FcnIsSeq
<1>4. c = [buffer |-> cells, read_index |-> p, write_index |-> size]
  BY <1>1 DEF shrink
<1> HIDE DEF d, m, c, blank
<1>5. /\ cells \in Seq(Byte) /\ Len(cells) = size
      /\ \A i \in 1..size : cells[i] = IF p < i /\ i <= p + Len(d) THEN d[i - p] ELSE blank[i]
  BY <1>1, <1>3, CopyCells
<1> HIDE DEF cells
<1>6. \A i \in 1..m : p + i \in 1..size /\ p < p + i /\ p + i <= p + m /\ (p + i) - p = i
  BY <1>1
<1>7. \A i \in 1..m : cells[p + i] = d[i]
  BY <1>5, <1>6 DEF m
<1>8. /\ c \in [buffer : Seq(Byte), read_index : Nat, write_index : Nat]
      /\ c.buffer = cells /\ c.read_index = p /\ c.write_index = size
  BY <1>1, <1>4, <1>5
<1>9. \A i \in 1..Len(d) : c.buffer[c.read_index + i] = d[i]
  BY <1>7, <1>8 DEF m
<1>10. kCheapPrepend <= c.read_index /\ c.write_index = c.read_index + Len(d) /\ c.write_index <= Len(c.buffer)
  BY <1>1, <1>5, <1>8 DEF m
<1>11. BufferOK(c) /\ Readable(c) = d
  BY <1>1, <1>8, <1>9, <1>10, BufferIs
<1> QED
  BY <1>11 DEF c, d

(* retrieve takes n bytes from the front. *)
LEMMA RetrieveDrops ==
    ASSUME NEW b, BufferOK(b), NEW n \in 0..readable_bytes(b)
    PROVE  /\ BufferOK(retrieve(b, n))
           /\ Readable(retrieve(b, n)) = SubSeq(Readable(b), n + 1, Len(Readable(b)))
<1> DEFINE r == b.read_index
           w == b.write_index
           d == Readable(b)
           m == Len(d)
           rest == SubSeq(d, n + 1, m)
           c == [b EXCEPT !.read_index = r + n]
<1>1. /\ d \in Seq(Byte) /\ m \in Nat /\ readable_bytes(b) = m /\ m = w - r /\ r \in Nat /\ w \in Nat
      /\ n \in Nat /\ n <= m /\ kCheapPrepend <= r /\ kCheapPrepend \in Nat
      /\ w <= Len(b.buffer) /\ Len(b.buffer) \in Nat
  BY BufferFacts DEF readable_bytes
<1>2. \A i \in 1..m : d[i] = b.buffer[r + i]
  BY BufferFacts
<1>3. r + n \in Nat
  BY <1>1
<1>4. /\ c \in [buffer : Seq(Byte), read_index : Nat, write_index : Nat]
      /\ c.buffer = b.buffer /\ c.read_index = r + n /\ c.write_index = w
  BY <1>3 DEF BufferOK
<1>5. retrieve(b, n) = shrink_if_needed(c)
  BY <1>1 DEF retrieve
<1> HIDE DEF c, d, m, r, w
<1>6. /\ rest \in Seq(Byte) /\ Len(rest) = m - n /\ \A i \in 1..(m - n) : rest[i] = d[n + i]
  <2>1. n + 1 \in 1..(m + 1) /\ m \in n..m /\ n + 1 \in Int /\ m \in Int
    BY <1>1
  <2>2. \A i \in (n + 1)..m : i \in 1..m
    BY <1>1
  <2>3. \A i \in 1..m : d[i] \in Byte
    BY <1>1, ElementOfSeq DEF m
  <2>4. rest = [i \in 1..(m - n) |-> d[n + i]]
    BY <1>1, <2>1 DEF m
  <2>5. m - n \in Nat /\ \A i \in 1..(m - n) : n + i \in 1..m
    BY <1>1
  <2>6. rest \in [1..(m - n) -> Byte]
    BY <2>3, <2>4, <2>5
  <2> QED
    BY <2>4, <2>5, <2>6, FcnIsSeq
<1> HIDE DEF rest
<1>7. \A i \in 1..Len(rest) : c.buffer[c.read_index + i] = rest[i]
  <2> SUFFICES ASSUME NEW i \in 1..(m - n) PROVE b.buffer[(r + n) + i] = rest[i]
    BY <1>4, <1>6
  <2>1. n + i \in 1..m /\ (r + n) + i = r + (n + i)
    BY <1>1
  <2>2. d[n + i] = b.buffer[r + (n + i)]
    BY <1>2, <2>1
  <2> QED
    BY <1>6, <2>1, <2>2
<1>8. kCheapPrepend <= c.read_index /\ c.write_index = c.read_index + Len(rest) /\ c.write_index <= Len(c.buffer)
  BY <1>1, <1>4, <1>6
<1>9. BufferOK(c) /\ Readable(c) = rest
  BY <1>4, <1>6, <1>7, <1>8, BufferIs
<1>10. BufferOK(shrink_if_needed(c)) /\ Readable(shrink_if_needed(c)) = rest
  BY <1>9, ShrinkKeeps DEF shrink_if_needed
<1> QED
  BY <1>5, <1>10 DEF rest, d, m

(* A new buffer is empty. *)
LEMMA EmptyBufferOK == BufferOK(EmptyBuffer) /\ Readable(EmptyBuffer) = <<>>
<1> DEFINE p == kCheapPrepend
           size == p + InitialSize
           cells == [i \in 1..size |-> Blank]
           c == EmptyBuffer
<1>1. p \in Nat /\ size \in Nat /\ p <= size
  BY BufferAssumption
<1>2. cells \in [1..size -> Byte]
  BY BufferAssumption
<1>3. cells \in Seq(Byte) /\ Len(cells) = size
  BY <1>1, <1>2, FcnIsSeq
<1>4. c = [buffer |-> cells, read_index |-> p, write_index |-> p]
  BY DEF EmptyBuffer
<1> HIDE DEF cells, size, c
<1>5. /\ c \in [buffer : Seq(Byte), read_index : Nat, write_index : Nat]
      /\ c.buffer = cells /\ c.read_index = p /\ c.write_index = p
  BY <1>1, <1>3, <1>4
<1>6. <<>> \in Seq(Byte) /\ Len(<<>>) = 0
  OBVIOUS
<1>7. kCheapPrepend <= c.read_index /\ c.write_index = c.read_index + Len(<<>>) /\ c.write_index <= Len(c.buffer)
  BY <1>1, <1>3, <1>5, <1>6
<1>8. \A i \in 1..Len(<<>>) : c.buffer[c.read_index + i] = <<>>[i]
  BY <1>6
<1> QED
  BY <1>5, <1>6, <1>7, <1>8, BufferIs DEF c

(* The number a sequence of bytes stands for. *)
LEMMA BigEndianNat ==
    ASSUME NEW bytes \in Seq(Nat), Base \in Nat
    PROVE  BigEndian(bytes) \in Nat
<1> DEFINE n == Len(bytes)
           Is(g) == g = [i \in 0..n |-> IF i = 0 THEN 0 ELSE Base * g[i - 1] + bytes[i]]
           step == [i \in 1..n |-> [x \in Nat |-> Base * x + bytes[i]]]
           f == CHOOSE g : Is(g)
<1>1. n \in Nat /\ (\A i \in 1..n : bytes[i] \in Nat) /\ 0 \in Nat
  BY LenProperties, ElementOfSeq
<1>2. step \in [1..n -> [Nat -> Nat]]
  BY <1>1
<1>3. PICK g \in [0..n -> Nat] : g[0] = 0 /\ \A i \in 1..n : g[i] = step[i][g[i - 1]]
  <2>1. \E g : ByRecursion(g, n, Nat, 0, step)
    <3> HIDE DEF n, step
    <3> QED
      BY <1>1, <1>2, RecursionExists
  <2> QED
    BY <2>1 DEF ByRecursion
<1>4. Is(g)
  <2>1. \A i \in 1..n : i - 1 \in 0..n
    BY <1>1
  <2>2. \A i \in 1..n : g[i] = Base * g[i - 1] + bytes[i]
    BY <1>3, <2>1
  <2>3. \A i \in 0..n : i # 0 => i \in 1..n
    BY <1>1
  <2> HIDE DEF n
  <2> QED
    BY <1>3, <2>2, <2>3
<1>5. Is(f)
  BY <1>4
<1> HIDE DEF f
<1>6. f[0] = 0 /\ \A i \in 1..n : f[i] = Base * f[i - 1] + bytes[i]
  <2>1. 0 \in 0..n /\ \A i \in 1..n : i \in 0..n /\ i # 0
    BY <1>1
  <2> HIDE DEF n
  <2> QED
    BY <1>5, <2>1
<1> DEFINE T == {i \in Nat : f[i] \in Nat}
<1>7. \A i \in 0..n : i \in T
  <2>1. 0 \in T
    BY <1>6
  <2>2. ASSUME NEW i \in 1..n, i - 1 \in T PROVE i \in T
    <3>1. f[i - 1] \in Nat /\ bytes[i] \in Nat /\ i \in Nat /\ f[i] = Base * f[i - 1] + bytes[i]
      BY <1>1, <1>6, <2>2
    <3>2. \A x \in Nat, y \in Nat : Base * x + y \in Nat
      OBVIOUS
    <3>3. f[i] \in Nat
      BY <3>1, <3>2
    <3> QED
      BY <3>1, <3>3
  <2> HIDE DEF n, T
  <2> QED
    BY <1>1, <2>1, <2>2, Along
<1>8. BigEndian(bytes) = f[n]
  BY DEF BigEndian, f
<1> QED
  BY <1>1, <1>7, <1>8

-------------------------------------------------------------------------------
(* The input buffer holds the stream *)

(* A frame takes no more bytes than there are. *)
LEMMA DecodeUsed ==
    ASSUME NEW data \in Seq(Byte)
    PROVE  Decode(data).used \in 0..Len(data)
<1> DEFINE n == Len(data)
           b == data[2]
           masked == b \div (Short + 3) = 1
           len7 == b % (Short + 3)
           ext == Extended(len7)
           bytes == SubSeq(data, 3, 2 + ext)
           len == IF ext = 0 THEN len7 ELSE BigEndian(bytes)
           header == 2 + ext + (IF masked THEN 4 ELSE 0)
<1>1. n \in Nat /\ \A i \in 1..n : data[i] \in Nat
  BY LenProperties, ElementOfSeq, StreamAssumption
<1>2. CASE n < 2
  BY <1>1, <1>2 DEF Decode, Incomplete
<1>3. CASE ~(n < 2)
  <2>1. b \in Nat /\ Short + 3 \in Nat /\ Short + 3 > 0
    BY <1>1, <1>3, StreamAssumption
  <2>2. len7 \in Nat
    BY <2>1
  <2>3. ext \in {0, 2, 8}
    BY DEF Extended
  <2> HIDE DEF ext
  <2>4. CASE n < 2 + ext
    <3>1. Decode(data) = Incomplete
      BY <1>3, <2>4 DEF Decode, ext
    <3> QED
      BY <1>1, <3>1 DEF Incomplete
  <2>5. CASE ~(n < 2 + ext)
    <3>1. bytes \in Seq(Nat)
      <4>1. data \in Seq(Nat)
        <5>1. data \in [1..n -> Nat]
          BY <1>1, LenProperties
        <5> QED
          BY <1>1, <5>1, FcnIsSeq
      <4>2. 3 \in 1..(n + 1) /\ 2 + ext \in 2..n
        BY <1>1, <1>3, <2>3, <2>5
      <4>3. \A i \in 3..(2 + ext) : i \in 1..n
        BY <1>1, <2>3, <2>5
      <4> QED
        BY <1>1, <2>3, <4>1, <4>3, SubSeqProperties
    <3>2. BigEndian(bytes) \in Nat
      <4> HIDE DEF bytes
      <4> QED
        BY <3>1, BigEndianNat, StreamAssumption
    <3>3. len \in Nat /\ header \in Nat
      BY <2>2, <2>3, <3>2
    <3>4. Decode(data).used = IF n < header + len THEN 0 ELSE header + len
      <4>1. CASE n < header + len
        BY <1>3, <2>5, <4>1 DEF Decode, Incomplete, ext
      <4>2. CASE ~(n < header + len)
        BY <1>3, <2>5, <4>2 DEF Decode, Incomplete, ext
      <4> QED
        BY <4>1, <4>2
    <3> HIDE DEF header, len
    <3> QED
      BY <1>1, <3>3, <3>4
  <2> QED
    BY <2>4, <2>5
<1> QED
  BY <1>2, <1>3

(* The types of what is on its way to the buffer. *)
StreamType == wire \in Seq(Byte) /\ todo \in Seq(Messages)

(* The bytes on the wire and in the buffer. *)
LEMMA StreamInit == Init => StreamType /\ BufferExact
<1> SUFFICES ASSUME Init PROVE StreamType /\ BufferExact
  OBVIOUS
<1>1. wire \in Seq(Byte)
  BY DEF Init
<1>2. todo \in Seq(Messages)
  BY ScriptsAssumption DEF Init
<1>3. BufferExact
  BY EmptyBufferOK DEF Init, BufferExact
<1> QED
  BY <1>1, <1>2, <1>3 DEF StreamType

(* Every step keeps the buffer exact: a read appends, the end of a callback drops what was used. *)
LEMMA StreamStep ==
    ASSUME StreamType, BufferExact, [Next]_vars
    PROVE  StreamType' /\ BufferExact'
<1> DEFINE all == Readable(buf)
<1>0. BufferOK(buf) /\ all = queue /\ all \in Seq(Byte) /\ readable_bytes(buf) = Len(all) /\ Len(all) \in Nat
  BY BufferFacts DEF BufferExact
<1>1. CASE ClientSend
  <2>1. todo # <<>> /\ wire' = wire \o Bytes(Head(todo)) /\ todo' = Tail(todo) /\ UNCHANGED <<buf, queue>>
    BY <1>1 DEF ClientSend
  <2>2. Head(todo) \in Messages /\ Tail(todo) \in Seq(Messages)
    BY <2>1, HeadTailProperties DEF StreamType
  <2>3. Bytes(Head(todo)) \in Seq(Byte)
    BY <2>2, ScriptsAssumption
  <2>4. wire' \in Seq(Byte)
    BY <2>1, <2>3, ConcatProperties DEF StreamType
  <2> QED
    BY <2>1, <2>2, <2>4 DEF StreamType, BufferExact
<1>2. ASSUME NEW n \in 1..Len(wire), Read(n) PROVE StreamType' /\ BufferExact'
  <2> DEFINE data == SubSeq(wire, 1, n)
             rest == SubSeq(wire, n + 1, Len(wire))
  <2>1. buf' = read_from_fd(buf, data) /\ queue' = queue \o data /\ wire' = rest /\ todo' = todo
    BY <1>2 DEF Read
  <2>2. data \in Seq(Byte) /\ rest \in Seq(Byte)
    <3>1. Len(wire) \in Nat /\ wire \in Seq(Byte)
      BY LenProperties DEF StreamType
    <3>2. (\A i \in 1..n : i \in 1..Len(wire)) /\ \A i \in (n + 1)..Len(wire) : i \in 1..Len(wire)
      BY <3>1
    <3> QED
      BY <3>1, <3>2, SubSeqProperties
  <2> HIDE DEF data, rest
  <2>3. BufferOK(buf') /\ Readable(buf') = all \o data
    BY <1>0, <2>1, <2>2, ReadAppends
  <2> QED
    BY <1>0, <2>1, <2>2, <2>3 DEF StreamType, BufferExact
<1>3. ASSUME NEW n \in 0..Len(all), Retrieve(n), UNCHANGED <<wire, todo>> PROVE StreamType' /\ BufferExact'
  <2>1. buf' = retrieve(buf, n) /\ queue' = SubSeq(queue, n + 1, Len(queue))
    BY <1>3 DEF Retrieve
  <2>2. n \in 0..readable_bytes(buf)
    BY <1>0
  <2>3. BufferOK(retrieve(buf, n)) /\ Readable(retrieve(buf, n)) = SubSeq(all, n + 1, Len(all))
    BY <1>0, <2>2, RetrieveDrops
  <2>4. BufferExact'
    BY <1>0, <2>1, <2>3 DEF BufferExact
  <2> QED
    BY <1>3, <2>4 DEF StreamType
<1>4. CASE FeedEnd
  <2>1. fed = Len(all) /\ Retrieve(fed) /\ UNCHANGED <<wire, todo>>
    BY <1>0, <1>4 DEF FeedEnd
  <2>2. fed \in 0..Len(all)
    BY <1>0, <2>1
  <2> QED
    BY <1>3, <2>1, <2>2
<1>5. CASE WsFeed
  <2> DEFINE n == Decode(all).used
  <2>1. Retrieve(n) /\ UNCHANGED <<wire, todo>>
    BY <1>5 DEF WsFeed
  <2>2. n \in 0..Len(all)
    BY <1>0, DecodeUsed
  <2> HIDE DEF n
  <2> QED
    BY <1>3, <2>1, <2>2
<1>6. CASE Feed \/ Callback \/ HandleWrite \/ UNCHANGED vars
  <2>1. UNCHANGED <<wire, todo, buf, queue>>
    BY <1>6 DEF Feed, Callback, HandleWrite, vars
  <2> QED
    BY <2>1 DEF StreamType, BufferExact
<1> QED
  BY <1>1, <1>2, <1>4, <1>5, <1>6 DEF Next

(* BufferExact. *)
THEOREM BufferKeepsStream == Spec => []BufferExact
<1>1. Init => StreamType /\ BufferExact
  BY StreamInit
<1>2. (StreamType /\ BufferExact) /\ [Next]_vars => (StreamType /\ BufferExact)'
  BY StreamStep
<1> QED
  BY <1>1, <1>2, PTL DEF Spec

-------------------------------------------------------------------------------
(* What was announced *)

(* The item i announced a close that no later response took back. *)
Announced(s, i) ==
    s[i] = <<"response", FALSE>> /\ \A k \in DOMAIN s : k > i => s[k] # <<"response", TRUE>>

(* What was sent is a sequence; the connection has two states here. *)
ClosingType ==
    sent \in Seq({sent[i] : i \in DOMAIN sent}) /\ conn \in {"connected", "disconnected"} /\ stalled \in BOOLEAN

(* Appending to a sequence of anything. *)
LEMMA AppendAny ==
    ASSUME NEW s, s \in Seq({s[i] : i \in DOMAIN s}), NEW x
    PROVE  LET t == Append(s, x) IN
           /\ t \in Seq({t[i] : i \in DOMAIN t})
           /\ Len(s) \in Nat /\ DOMAIN s = 1..Len(s) /\ DOMAIN t = 1..(Len(s) + 1)
           /\ t[Len(s) + 1] = x /\ \A i \in 1..Len(s) : t[i] = s[i]
<1> DEFINE R == {s[i] : i \in DOMAIN s}
           Q == R \cup {x}
           t == Append(s, x)
           n == Len(s)
<1>1. s \in Seq(Q) /\ x \in Q /\ n \in Nat /\ DOMAIN s = 1..n
  <2>1. s \in [1..n -> R] /\ n \in Nat /\ DOMAIN s = 1..n
    BY LenProperties
  <2>2. s \in [1..n -> Q]
    BY <2>1
  <2> QED
    BY <2>1, <2>2, FcnIsSeq
<1> HIDE DEF Q, R
<1>2. t \in Seq(Q) /\ Len(t) = n + 1 /\ t[n + 1] = x /\ \A i \in 1..n : t[i] = s[i]
  BY <1>1, AppendProperties
<1> HIDE DEF t
<1>3. DOMAIN t = 1..(n + 1) /\ n + 1 \in Nat
  BY <1>1, <1>2, LenProperties
<1>4. t \in [1..(n + 1) -> {t[i] : i \in DOMAIN t}]
  BY <1>2, <1>3
<1>5. t \in Seq({t[i] : i \in DOMAIN t})
  BY <1>3, <1>4, FcnIsSeq
<1> QED
  BY <1>1, <1>2, <1>3, <1>5 DEF t

(* What was announced before and after one more item is sent. *)
LEMMA AnnouncedStep ==
    ASSUME NEW s, s \in Seq({s[i] : i \in DOMAIN s}), NEW x, x # <<"response", FALSE>>,
           NEW i \in DOMAIN Append(s, x), Announced(Append(s, x), i)
    PROVE  i \in DOMAIN s /\ Announced(s, i) /\ x # <<"response", TRUE>>
<1> DEFINE t == Append(s, x)
           n == Len(s)
<1>1. /\ n \in Nat /\ DOMAIN s = 1..n /\ DOMAIN t = 1..(n + 1)
      /\ t[n + 1] = x /\ \A k \in 1..n : t[k] = s[k]
  BY AppendAny
<1>2. Announced(t, i) /\ i \in 1..(n + 1)
  BY <1>1
<1> HIDE DEF t, n
<1>3. i # n + 1
  BY <1>1, <1>2 DEF Announced
<1>4. i \in 1..n /\ n + 1 \in 1..(n + 1) /\ n + 1 > i /\ \A k \in 1..n : k \in 1..(n + 1)
  BY <1>1, <1>2, <1>3
<1>5. x # <<"response", TRUE>>
  BY <1>1, <1>2, <1>4 DEF Announced
<1>6. Announced(s, i)
  BY <1>1, <1>2, <1>4 DEF Announced
<1> QED
  BY <1>1, <1>4, <1>5, <1>6

(* What a send may do: close the connection, or leave a rest, or write     *)
(* everything without a close.                                             *)
LEMMA SendsOutcome ==
    ASSUME ClosingType, NEW item, NEW cb, Sends(item, cb)
    PROVE  /\ ClosingType'
           /\ \/ conn' = "disconnected"
              \/ conn = "connected" /\ sent' = Append(sent, item) /\ stalled' = TRUE
              \/ conn = "connected" /\ sent' = Append(sent, item) /\ stalled = FALSE /\ cb # "close"
<1>1. sent' \in {sent, Append(sent, item)} /\ conn' \in {"connected", "disconnected"} /\ stalled' \in BOOLEAN
  BY DEF Sends, ClosingType
<1>2. ClosingType'
  <2>1. CASE sent' = sent
    BY <1>1, <2>1 DEF ClosingType
  <2>2. CASE sent' = Append(sent, item)
    BY <1>1, <2>2, AppendAny DEF ClosingType
  <2> QED
    BY <1>1, <2>1, <2>2
<1>3. \/ conn' = "disconnected"
      \/ conn = "connected" /\ sent' = Append(sent, item) /\ stalled' = TRUE
      \/ conn = "connected" /\ sent' = Append(sent, item) /\ stalled = FALSE /\ cb # "close"
  <2>1. CASE conn # "connected"
    BY <2>1 DEF Sends, ClosingType
  <2>2. CASE conn = "connected" /\ stalled = TRUE
    BY <2>2 DEF Sends, ClosingType
  <2>3. CASE conn = "connected" /\ stalled = FALSE
    BY <2>3 DEF Sends, ClosingType
  <2> QED
    BY <2>1, <2>2, <2>3 DEF ClosingType
<1> QED
  BY <1>2, <1>3

(* An item that is no response keeps what holds. *)
LEMMA OtherItem ==
    ASSUME ClosingType, ClosingHolds, NEW item, item # <<"response", FALSE>>, NEW cb, Sends(item, cb), wcc' = wcc
    PROVE  ClosingType' /\ ClosingHolds'
<1>1. ClosingType'
  BY SendsOutcome
<1>2. ClosingHolds'
  <2> SUFFICES ASSUME NEW i \in DOMAIN sent', Announced(sent', i), conn' # "disconnected"
               PROVE  stalled' /\ wcc' = "close"
    BY DEF ClosingHolds, Announced
  <2>1. conn = "connected" /\ sent' = Append(sent, item) /\ (stalled' = TRUE \/ stalled = FALSE)
    BY SendsOutcome
  <2>2. i \in DOMAIN sent /\ Announced(sent, i)
    BY <2>1, AnnouncedStep DEF ClosingType
  <2>3. stalled /\ wcc = "close"
    BY <2>1, <2>2 DEF ClosingHolds, Announced
  <2> QED
    BY <2>1, <2>3
<1> QED
  BY <1>1, <1>2

(* A response keeps it too. *)
LEMMA ResponseSent ==
    ASSUME ClosingType, ClosingHolds, NEW keep \in BOOLEAN, SendResponse(keep)
    PROVE  ClosingType' /\ ClosingHolds'
<1> DEFINE item == <<"response", keep>>
           cb == WhenWritten(keep)
<1>1. Sends(item, cb) /\ wcc' = cb
  BY DEF SendResponse
<1>2. ClosingType'
  BY <1>1, SendsOutcome
<1>3. ClosingHolds'
  <2> SUFFICES ASSUME NEW i \in DOMAIN sent', Announced(sent', i), conn' # "disconnected"
               PROVE  stalled' /\ wcc' = "close"
    BY DEF ClosingHolds, Announced
  <2>1. conn = "connected" /\ sent' = Append(sent, item) /\ (stalled' = TRUE \/ cb # "close")
    BY <1>1, SendsOutcome
  <2>2. CASE keep = TRUE
    <3>1. item = <<"response", TRUE>> /\ item # <<"response", FALSE>>
      BY <2>2
    <3> QED
      BY <2>1, <3>1, AnnouncedStep DEF ClosingType
  <2>3. CASE keep = FALSE
    <3>1. cb = "close"
      BY <2>3 DEF WhenWritten
    <3> QED
      BY <1>1, <2>1, <3>1
  <2> QED
    BY <2>2, <2>3
<1> QED
  BY <1>2, <1>3

(* Every step keeps what was announced. *)
LEMMA ClosingStep ==
    ASSUME ClosingType, ClosingHolds, [Next]_vars
    PROVE  ClosingType' /\ ClosingHolds'
<1>0. UNCHANGED <<conn, stalled, sent, wcc>> => ClosingType' /\ ClosingHolds'
  <2> SUFFICES ASSUME conn' = conn, stalled' = stalled, sent' = sent, wcc' = wcc PROVE ClosingType' /\ ClosingHolds'
    OBVIOUS
  <2>1. ClosingType'
    BY DEF ClosingType
  <2>2. ClosingHolds'
    BY DEF ClosingHolds
  <2> QED
    BY <2>1, <2>2
<1>1. CASE Callback
  <2>1. CASE Sends(<<"101">>, wcc) /\ UNCHANGED wcc
    <3>1. <<"101">> # <<"response", FALSE>>
      OBVIOUS
    <3> QED
      BY <2>1, <3>1, OtherItem
  <2>2. ASSUME NEW keep \in BOOLEAN, SendResponse(keep) PROVE ClosingType' /\ ClosingHolds'
    BY <2>2, ResponseSent
  <2> DEFINE keep == WantsKeepAlive(parser) /\ count < MaxKeepAlive
  <2>3. keep \in BOOLEAN
    BY DEF WantsKeepAlive
  <2>4. \/ Sends(<<"101">>, wcc) /\ UNCHANGED wcc
        \/ SendResponse(FALSE)
        \/ SendResponse(keep)
    BY <1>1 DEF Callback
  <2> HIDE DEF keep
  <2> QED
    BY <2>1, <2>2, <2>3, <2>4
<1>2. CASE WsFeed
  <2> DEFINE d == Decode(Readable(buf))
             a == Encode(Pong, d.frame.payload)
             b == Encode(Closing, <<>>)
  <2>1. wcc' = wcc
    BY <1>2 DEF WsFeed
  <2>2. \/ UNCHANGED <<conn, stalled, sent>>
        \/ Sends(<<"frame", a>>, wcc)
        \/ Sends(<<"frame", b>>, wcc)
    BY <1>2 DEF WsFeed
  <2> HIDE DEF a, b
  <2>3. ASSUME NEW x, Sends(<<"frame", x>>, wcc) PROVE ClosingType' /\ ClosingHolds'
    <3>1. <<"frame", x>> # <<"response", FALSE>>
      OBVIOUS
    <3> QED
      BY <2>1, <2>3, <3>1, OtherItem
  <2> QED
    BY <1>0, <2>1, <2>2, <2>3
<1>3. CASE HandleWrite
  <2>1. sent' = sent /\ wcc' = wcc /\ conn' \in {"connected", "disconnected"} /\ stalled' \in BOOLEAN /\ conn = "connected"
    BY <1>3 DEF HandleWrite, ClosingType
  <2>2. ClosingType'
    BY <2>1 DEF ClosingType
  <2>3. conn' = "disconnected" \/ wcc # "close"
    BY <1>3 DEF HandleWrite
  <2>4. ClosingHolds'
    BY <2>1, <2>3 DEF ClosingHolds
  <2> QED
    BY <2>2, <2>4
<1>4. CASE ClientSend \/ Feed \/ FeedEnd \/ UNCHANGED vars \/ \E n \in 1..Len(wire) : Read(n)
  BY <1>0, <1>4 DEF ClientSend, Feed, FeedEnd, Read, vars
<1> QED
  BY <1>1, <1>2, <1>3, <1>4 DEF Next

(* Nothing is announced at the start. *)
LEMMA ClosingInit == Init => ClosingType /\ ClosingHolds
<1> SUFFICES ASSUME Init PROVE ClosingType /\ ClosingHolds
  OBVIOUS
<1>1. sent = <<>> /\ conn = "connected" /\ stalled = FALSE
  BY DEF Init
<1>2. DOMAIN sent = {}
  BY <1>1
<1>3. ClosingHolds
  BY <1>2 DEF ClosingHolds
<1>4. ClosingType
  <2>1. \A S : <<>> \in Seq(S)
    BY EmptySeq
  <2>2. sent \in Seq({sent[i] : i \in DOMAIN sent})
    BY <1>1, <2>1
  <2> QED
    BY <1>1, <2>2 DEF ClosingType
<1> QED
  BY <1>3, <1>4

(* ClosingHolds. *)
THEOREM CloseAnnounced == Spec => []ClosingHolds
<1>1. Init => ClosingType /\ ClosingHolds
  BY ClosingInit
<1>2. (ClosingType /\ ClosingHolds) /\ [Next]_vars => (ClosingType /\ ClosingHolds)'
  BY ClosingStep
<1> QED
  BY <1>1, <1>2, PTL DEF Spec

-------------------------------------------------------------------------------
(* The steps of the parser *)

(* The states of the parser that ParseChar has a case for, and what its fields hold. *)
States == {"kStart", "kMethod", "kBeforePath", "kPath", "kQuery", "kVersionH", "kVersionT1", "kVersionSlash",
           "kVersionMajor", "kVersionMinor", "kAfterVersion", "kHeaderLF", "kHeaderFieldStart", "kHeaderField",
           "kHeaderBeforeValue", "kHeaderValue", "kHeaderValueLF", "kBody"}
Parsers == [state : States, path : Seq(Byte), query : Seq(Byte), field : Seq(Byte), value : Seq(Byte),
            headers : Seq(Seq(Byte) \X Seq(Byte)), length : Int, body : Seq(Byte),
            complete : BOOLEAN, used : Nat]

(* The parser with another value in one of its fields, with one header more, and at the end of the headers. *)
With(p, f, v) == [p EXCEPT ![f] = v]
WithHeader(p, next) == With(With(p, "headers", Append(p.headers, <<p.field, p.value>>)), "state", next)
Bodied(p) ==
    LET n == Number(GetHeader(p.headers, <<76>>)) IN
    IF n > 0 THEN With(With(With(p, "state", "kBody"), "length", n), "body", <<>>)
    ELSE With(p, "complete", TRUE)

(* ParseChar, state by state. *)
LEMMA ParseLine ==
    ASSUME NEW p \in Parsers, NEW c \in Byte
    PROVE  /\ p.state = "kStart" /\ c \in Space => ParseChar(p, c) = p
           /\ p.state = "kStart" /\ c \notin Space => ParseChar(p, c) = With(p, "state", "kMethod")
           /\ p.state = "kMethod" /\ c = 32 => ParseChar(p, c) = With(p, "state", "kBeforePath")
           /\ p.state = "kMethod" /\ c # 32 => ParseChar(p, c) = p
           /\ p.state = "kVersionH" /\ c = 72 => ParseChar(p, c) = With(p, "state", "kVersionT1")
           /\ p.state = "kVersionH" /\ c # 72 => ParseChar(p, c) = p
           /\ p.state = "kVersionT1" /\ c = 84 => ParseChar(p, c) = With(p, "state", "kVersionSlash")
           /\ p.state = "kVersionT1" /\ c # 84 => ParseChar(p, c) = p
           /\ p.state = "kVersionSlash" /\ c = 47 => ParseChar(p, c) = With(p, "state", "kVersionMajor")
           /\ p.state = "kVersionSlash" /\ c # 47 => ParseChar(p, c) = p
           /\ p.state = "kVersionMajor" /\ c = 46 => ParseChar(p, c) = With(p, "state", "kVersionMinor")
           /\ p.state = "kVersionMajor" /\ c # 46 => ParseChar(p, c) = p
           /\ p.state = "kVersionMinor" /\ c = CR => ParseChar(p, c) = With(p, "state", "kAfterVersion")
           /\ p.state = "kVersionMinor" /\ c = LF => ParseChar(p, c) = With(p, "state", "kHeaderLF")
           /\ p.state = "kVersionMinor" /\ c \notin {CR, LF} => ParseChar(p, c) = p
           /\ p.state = "kAfterVersion" /\ c = LF => ParseChar(p, c) = With(p, "state", "kHeaderLF")
           /\ p.state = "kAfterVersion" /\ c # LF => ParseChar(p, c) = p
<1>1. ASSUME p.state = "kStart", c \in Space PROVE ParseChar(p, c) = p
  BY <1>1 DEF ParseChar, With
<1>2. ASSUME p.state = "kStart", c \notin Space PROVE ParseChar(p, c) = With(p, "state", "kMethod")
  BY <1>2 DEF ParseChar, With
<1>3. ASSUME p.state = "kMethod", c = 32 PROVE ParseChar(p, c) = With(p, "state", "kBeforePath")
  BY <1>3 DEF ParseChar, With
<1>4. ASSUME p.state = "kMethod", c # 32 PROVE ParseChar(p, c) = p
  BY <1>4 DEF ParseChar, With
<1>5. ASSUME p.state = "kVersionH", c = 72 PROVE ParseChar(p, c) = With(p, "state", "kVersionT1")
  BY <1>5 DEF ParseChar, With
<1>6. ASSUME p.state = "kVersionH", c # 72 PROVE ParseChar(p, c) = p
  BY <1>6 DEF ParseChar, With
<1>7. ASSUME p.state = "kVersionT1", c = 84 PROVE ParseChar(p, c) = With(p, "state", "kVersionSlash")
  BY <1>7 DEF ParseChar, With
<1>8. ASSUME p.state = "kVersionT1", c # 84 PROVE ParseChar(p, c) = p
  BY <1>8 DEF ParseChar, With
<1>9. ASSUME p.state = "kVersionSlash", c = 47 PROVE ParseChar(p, c) = With(p, "state", "kVersionMajor")
  BY <1>9 DEF ParseChar, With
<1>10. ASSUME p.state = "kVersionSlash", c # 47 PROVE ParseChar(p, c) = p
  BY <1>10 DEF ParseChar, With
<1>11. ASSUME p.state = "kVersionMajor", c = 46 PROVE ParseChar(p, c) = With(p, "state", "kVersionMinor")
  BY <1>11 DEF ParseChar, With
<1>12. ASSUME p.state = "kVersionMajor", c # 46 PROVE ParseChar(p, c) = p
  BY <1>12 DEF ParseChar, With
<1>13. ASSUME p.state = "kVersionMinor", c = CR PROVE ParseChar(p, c) = With(p, "state", "kAfterVersion")
  BY <1>13 DEF ParseChar, With, CR, LF
<1>14. ASSUME p.state = "kVersionMinor", c = LF PROVE ParseChar(p, c) = With(p, "state", "kHeaderLF")
  BY <1>14 DEF ParseChar, With, CR, LF
<1>15. ASSUME p.state = "kVersionMinor", c \notin {CR, LF} PROVE ParseChar(p, c) = p
  BY <1>15 DEF ParseChar, With, CR, LF
<1>16. ASSUME p.state = "kAfterVersion", c = LF PROVE ParseChar(p, c) = With(p, "state", "kHeaderLF")
  BY <1>16 DEF ParseChar, With, CR, LF
<1>17. ASSUME p.state = "kAfterVersion", c # LF PROVE ParseChar(p, c) = p
  BY <1>17 DEF ParseChar, With, CR, LF
<1> QED
  BY <1>1, <1>2, <1>3, <1>4, <1>5, <1>6, <1>7, <1>8, <1>9, <1>10, <1>11, <1>12, <1>13, <1>14, <1>15, <1>16, <1>17

(* The target, *)
LEMMA ParseTarget ==
    ASSUME NEW p \in Parsers, NEW c \in Byte
    PROVE  /\ p.state = "kBeforePath" /\ c = 32 => ParseChar(p, c) = p
           /\ p.state = "kBeforePath" /\ c # 32 => ParseChar(p, c) = With(With(p, "path", <<c>>), "state", "kPath")
           /\ p.state = "kPath" /\ c = 63 => ParseChar(p, c) = With(p, "state", "kQuery")
           /\ p.state = "kPath" /\ c = 32 => ParseChar(p, c) = With(p, "state", "kVersionH")
           /\ p.state = "kPath" /\ c \notin {32, 63} => ParseChar(p, c) = With(p, "path", Append(p.path, c))
           /\ p.state = "kQuery" /\ c = 32 => ParseChar(p, c) = With(p, "state", "kVersionH")
           /\ p.state = "kQuery" /\ c # 32 => ParseChar(p, c) = With(p, "query", Append(p.query, c))
<1>1. ASSUME p.state = "kBeforePath", c = 32 PROVE ParseChar(p, c) = p
  BY <1>1 DEF ParseChar, With
<1>2. ASSUME p.state = "kBeforePath", c # 32 PROVE ParseChar(p, c) = With(With(p, "path", <<c>>), "state", "kPath")
  BY <1>2 DEF ParseChar, With
<1>3. ASSUME p.state = "kPath", c = 63 PROVE ParseChar(p, c) = With(p, "state", "kQuery")
  BY <1>3 DEF ParseChar, With
<1>4. ASSUME p.state = "kPath", c = 32 PROVE ParseChar(p, c) = With(p, "state", "kVersionH")
  BY <1>4 DEF ParseChar, With
<1>5. ASSUME p.state = "kPath", c \notin {32, 63} PROVE ParseChar(p, c) = With(p, "path", Append(p.path, c))
  BY <1>5 DEF ParseChar, With
<1>6. ASSUME p.state = "kQuery", c = 32 PROVE ParseChar(p, c) = With(p, "state", "kVersionH")
  BY <1>6 DEF ParseChar, With
<1>7. ASSUME p.state = "kQuery", c # 32 PROVE ParseChar(p, c) = With(p, "query", Append(p.query, c))
  BY <1>7 DEF ParseChar, With
<1> QED
  BY <1>1, <1>2, <1>3, <1>4, <1>5, <1>6, <1>7

(* the name of a header, *)
LEMMA ParseName ==
    ASSUME NEW p \in Parsers, NEW c \in Byte
    PROVE  /\ p.state = "kHeaderLF" /\ c = CR => ParseChar(p, c) = With(p, "state", "kHeaderFieldStart")
           /\ p.state = "kHeaderLF" /\ c = LF => ParseChar(p, c) = Bodied(p)
           /\ p.state = "kHeaderLF" /\ c \notin {CR, LF} => ParseChar(p, c) = With(With(p, "field", <<c>>), "state", "kHeaderField")
           /\ p.state = "kHeaderFieldStart" /\ c = LF => ParseChar(p, c) = Bodied(p)
           /\ p.state = "kHeaderFieldStart" /\ c # LF => ParseChar(p, c) = With(With(p, "field", <<c>>), "state", "kHeaderField")
           /\ p.state = "kHeaderField" /\ c = 58 => ParseChar(p, c) = With(p, "state", "kHeaderBeforeValue")
           /\ p.state = "kHeaderField" /\ c # 58 => ParseChar(p, c) = With(p, "field", Append(p.field, c))
<1>1. ASSUME p.state = "kHeaderLF", c = CR PROVE ParseChar(p, c) = With(p, "state", "kHeaderFieldStart")
  BY <1>1 DEF ParseChar, With, CR, LF
<1>2. ASSUME p.state = "kHeaderLF", c = LF PROVE ParseChar(p, c) = Bodied(p)
  <2>1. ParseChar(p, c) = TransitionToBody(p)
    BY <1>2 DEF ParseChar, CR, LF
  <2>2. TransitionToBody(p) = Bodied(p)
    BY DEF TransitionToBody, Bodied, With
  <2> QED
    BY <2>1, <2>2
<1>3. ASSUME p.state = "kHeaderLF", c \notin {CR, LF} PROVE ParseChar(p, c) = With(With(p, "field", <<c>>), "state", "kHeaderField")
  BY <1>3 DEF ParseChar, With, CR, LF
<1>4. ASSUME p.state = "kHeaderFieldStart", c = LF PROVE ParseChar(p, c) = Bodied(p)
  BY <1>4 DEF ParseChar, With, Bodied, TransitionToBody, CR, LF
<1>5. ASSUME p.state = "kHeaderFieldStart", c # LF PROVE ParseChar(p, c) = With(With(p, "field", <<c>>), "state", "kHeaderField")
  BY <1>5 DEF ParseChar, With, CR, LF
<1>6. ASSUME p.state = "kHeaderField", c = 58 PROVE ParseChar(p, c) = With(p, "state", "kHeaderBeforeValue")
  BY <1>6 DEF ParseChar, With
<1>7. ASSUME p.state = "kHeaderField", c # 58 PROVE ParseChar(p, c) = With(p, "field", Append(p.field, c))
  BY <1>7 DEF ParseChar, With
<1> QED
  BY <1>1, <1>2, <1>3, <1>4, <1>5, <1>6, <1>7

(* its value, *)
LEMMA ParseValue ==
    ASSUME NEW p \in Parsers, NEW c \in Byte
    PROVE  /\ p.state = "kHeaderBeforeValue" /\ c = 32 => ParseChar(p, c) = p
           /\ p.state = "kHeaderBeforeValue" /\ c # 32 => ParseChar(p, c) = With(With(p, "value", <<c>>), "state", "kHeaderValue")
           /\ p.state = "kHeaderValue" /\ c = CR => ParseChar(p, c) = WithHeader(p, "kHeaderValueLF")
           /\ p.state = "kHeaderValue" /\ c = LF => ParseChar(p, c) = WithHeader(p, "kHeaderLF")
           /\ p.state = "kHeaderValue" /\ c \notin {CR, LF} => ParseChar(p, c) = With(p, "value", Append(p.value, c))
           /\ p.state = "kHeaderValueLF" /\ c = LF => ParseChar(p, c) = With(p, "state", "kHeaderLF")
           /\ p.state = "kHeaderValueLF" /\ c # LF => ParseChar(p, c) = p
<1>1. ASSUME p.state = "kHeaderBeforeValue", c = 32 PROVE ParseChar(p, c) = p
  BY <1>1 DEF ParseChar, With
<1>2. ASSUME p.state = "kHeaderBeforeValue", c # 32 PROVE ParseChar(p, c) = With(With(p, "value", <<c>>), "state", "kHeaderValue")
  BY <1>2 DEF ParseChar, With
<1>3. ASSUME p.state = "kHeaderValue", c = CR PROVE ParseChar(p, c) = WithHeader(p, "kHeaderValueLF")
  <2>1. ParseChar(p, c) = AddHeader(p, "kHeaderValueLF")
    BY <1>3 DEF ParseChar, CR, LF
  <2>2. AddHeader(p, "kHeaderValueLF") = WithHeader(p, "kHeaderValueLF")
    BY DEF With, WithHeader, AddHeader
  <2> QED
    BY <2>1, <2>2
<1>4. ASSUME p.state = "kHeaderValue", c = LF PROVE ParseChar(p, c) = WithHeader(p, "kHeaderLF")
  <2>1. ParseChar(p, c) = AddHeader(p, "kHeaderLF")
    BY <1>4 DEF ParseChar, CR, LF
  <2>2. AddHeader(p, "kHeaderLF") = WithHeader(p, "kHeaderLF")
    BY DEF With, WithHeader, AddHeader
  <2> QED
    BY <2>1, <2>2
<1>5. ASSUME p.state = "kHeaderValue", c \notin {CR, LF} PROVE ParseChar(p, c) = With(p, "value", Append(p.value, c))
  BY <1>5 DEF ParseChar, With, CR, LF
<1>6. ASSUME p.state = "kHeaderValueLF", c = LF PROVE ParseChar(p, c) = With(p, "state", "kHeaderLF")
  BY <1>6 DEF ParseChar, With, CR, LF
<1>7. ASSUME p.state = "kHeaderValueLF", c # LF PROVE ParseChar(p, c) = p
  BY <1>7 DEF ParseChar, With, CR, LF
<1> QED
  BY <1>1, <1>2, <1>3, <1>4, <1>5, <1>6, <1>7

(* and the body. *)
LEMMA ParseBody ==
    ASSUME NEW p \in Parsers, NEW c \in Byte, p.state = "kBody"
    PROVE  LET q == With(p, "body", Append(p.body, c)) IN ParseChar(p, c) = With(q, "complete", BodyDone(q))
BY DEF ParseChar, With

(* The elements of a sequence of bytes. *)
LEMMA ByteSeq ==
    ASSUME NEW s \in Seq(Byte)
    PROVE  Len(s) \in Nat /\ DOMAIN s = 1..Len(s) /\ \A i \in 1..Len(s) : s[i] \in Byte /\ s[i] \in Nat
<1>1. Len(s) \in Nat /\ DOMAIN s = 1..Len(s) /\ \A i \in 1..Len(s) : s[i] \in Byte
  BY LenProperties, ElementOfSeq
<1> QED
  BY <1>1, StreamAssumption

(* A non-empty set of indices has a last one. *)
LEMMA LastIndex ==
    ASSUME NEW n \in Nat, NEW at, at \subseteq 1..n, at # {}
    PROVE  (CHOOSE i \in at : \A k \in at : k <= i) \in at
<1> DEFINE T == {n - i : i \in at}
<1>1. T \subseteq Nat /\ T # {}
  <2>1. \A i \in at : n - i \in Nat
    OBVIOUS
  <2> QED
    BY <2>1
<1>2. PICK x \in T : \A y \in T : x <= y
  <2> HIDE DEF T
  <2> QED
    BY <1>1, LeastNat
<1>3. PICK i \in at : x = n - i
  BY <1>2
<1>4. \A k \in at : k <= i
  <2> SUFFICES ASSUME NEW k \in at PROVE k <= i
    OBVIOUS
  <2>1. n - i <= n - k
    BY <1>2, <1>3
  <2>2. k \in 1..n /\ i \in 1..n
    OBVIOUS
  <2> QED
    BY <2>1, <2>2
<1> QED
  BY <1>4

(* GetHeader gives the value of a header there is, or nothing. *)
LEMMA GetHeaderIs ==
    ASSUME NEW headers \in Seq(Seq(Byte) \X Seq(Byte)), NEW name
    PROVE  \/ GetHeader(headers, name) = <<>>
           \/ \E i \in 1..Len(headers) : GetHeader(headers, name) = headers[i][2]
<1> DEFINE at == {i \in DOMAIN headers : headers[i][1] = name}
           last == CHOOSE i \in at : \A k \in at : k <= i
<1>1. Len(headers) \in Nat /\ DOMAIN headers = 1..Len(headers) /\ at \subseteq 1..Len(headers)
  BY LenProperties
<1>2. CASE at = {}
  BY <1>2 DEF GetHeader
<1>3. CASE at # {}
  <2>1. last \in at
    <3> HIDE DEF at
    <3> QED
      BY <1>1, <1>3, LastIndex
  <2>2. GetHeader(headers, name) = headers[last][2]
    BY <1>3 DEF GetHeader
  <2> QED
    BY <1>1, <2>1, <2>2
<1> QED
  BY <1>2, <1>3

(* A header is a string of bytes. *)
LEMMA GetHeaderType ==
    ASSUME NEW headers \in Seq(Seq(Byte) \X Seq(Byte)), NEW name
    PROVE  GetHeader(headers, name) \in Seq(Byte)
<1>1. \A i \in 1..Len(headers) : headers[i] \in Seq(Byte) \X Seq(Byte)
  BY ElementOfSeq
<1>2. \A i \in 1..Len(headers) : headers[i][2] \in Seq(Byte)
  BY <1>1
<1>3. <<>> \in Seq(Byte)
  OBVIOUS
<1> QED
  BY <1>2, <1>3, GetHeaderIs

(* What stoull returns is a number. *)
LEMMA NumberInt ==
    ASSUME NEW digits \in Seq(Byte)
    PROVE  Number(digits) \in Int
<1> DEFINE n == Len(digits)
           Is(g) == g = [i \in 0..n |-> IF i = 0 THEN 0 ELSE 10 * g[i - 1] + (digits[i] - 48)]
           step == [i \in 1..n |-> [x \in Int |-> 10 * x + (digits[i] - 48)]]
           f == CHOOSE g : Is(g)
<1>1. n \in Nat /\ (\A i \in 1..n : digits[i] \in Nat) /\ 0 \in Int
  BY ByteSeq
<1>2. step \in [1..n -> [Int -> Int]]
  BY <1>1
<1>3. PICK g \in [0..n -> Int] : g[0] = 0 /\ \A i \in 1..n : g[i] = step[i][g[i - 1]]
  <2>1. \E g : ByRecursion(g, n, Int, 0, step)
    <3> HIDE DEF n, step
    <3> QED
      BY <1>1, <1>2, RecursionExists
  <2> QED
    BY <2>1 DEF ByRecursion
<1>4. Is(g)
  <2>1. \A i \in 1..n : i - 1 \in 0..n
    BY <1>1
  <2>2. \A i \in 1..n : g[i] = 10 * g[i - 1] + (digits[i] - 48)
    BY <1>3, <2>1
  <2>3. \A i \in 0..n : i # 0 => i \in 1..n
    BY <1>1
  <2> HIDE DEF n
  <2> QED
    BY <1>3, <2>2, <2>3
<1>5. Is(f)
  BY <1>4
<1> HIDE DEF f
<1>6. f[0] = 0 /\ \A i \in 1..n : f[i] = 10 * f[i - 1] + (digits[i] - 48)
  <2>1. 0 \in 0..n /\ \A i \in 1..n : i \in 0..n /\ i # 0
    BY <1>1
  <2> HIDE DEF n
  <2> QED
    BY <1>5, <2>1
<1> DEFINE T == {i \in Nat : f[i] \in Int}
<1>7. \A i \in 0..n : i \in T
  <2>1. 0 \in T
    BY <1>6
  <2>2. ASSUME NEW i \in 1..n, i - 1 \in T PROVE i \in T
    BY <1>1, <1>6, <2>2
  <2> HIDE DEF n, T
  <2> QED
    BY <1>1, <2>1, <2>2, Along
<1>8. Number(digits) = f[n]
  BY DEF Number, f
<1> QED
  BY <1>1, <1>7, <1>8

(* With changes the one field. *)
ParserFields == {"state", "path", "query", "field", "value", "headers", "length", "body", "complete", "used"}
(* Setting a field, as a function. *)
LEMMA WithIs ==
    ASSUME NEW p \in Parsers, NEW f, NEW v
    PROVE  \A g \in ParserFields : With(p, f, v)[g] = IF g = f THEN v ELSE p[g]
<1>1. DOMAIN p = ParserFields
  BY DEF Parsers, ParserFields
<1> QED
  BY <1>1 DEF With

(* A parser whose field is set to a value of its type is a parser. *)
LEMMA WithType ==
    ASSUME NEW p \in Parsers
    PROVE  /\ \A s \in States : With(p, "state", s) \in Parsers
           /\ \A s \in Seq(Byte) : /\ With(p, "path", s) \in Parsers
                                   /\ With(p, "query", s) \in Parsers
                                   /\ With(p, "field", s) \in Parsers
                                   /\ With(p, "value", s) \in Parsers
                                   /\ With(p, "body", s) \in Parsers
           /\ \A s \in Seq(Seq(Byte) \X Seq(Byte)) : With(p, "headers", s) \in Parsers
           /\ \A n \in Int : With(p, "length", n) \in Parsers
           /\ \A b \in BOOLEAN : With(p, "complete", b) \in Parsers
           /\ \A n \in Nat : With(p, "used", n) \in Parsers
<1>1. \A s \in States : With(p, "state", s) \in Parsers
  BY DEF Parsers, With
<1>2. \A s \in Seq(Byte) : With(p, "path", s) \in Parsers /\ With(p, "query", s) \in Parsers
  BY DEF Parsers, With
<1>3. \A s \in Seq(Byte) : With(p, "field", s) \in Parsers /\ With(p, "value", s) \in Parsers
  BY DEF Parsers, With
<1>4. \A s \in Seq(Byte) : With(p, "body", s) \in Parsers
  BY DEF Parsers, With
<1>5. \A s \in Seq(Seq(Byte) \X Seq(Byte)) : With(p, "headers", s) \in Parsers
  BY DEF Parsers, With
<1>6. \A n \in Int : With(p, "length", n) \in Parsers
  BY DEF Parsers, With
<1>7. \A b \in BOOLEAN : With(p, "complete", b) \in Parsers
  BY DEF Parsers, With
<1>8. \A n \in Nat : With(p, "used", n) \in Parsers
  BY DEF Parsers, With
<1> QED
  BY <1>1, <1>2, <1>3, <1>4, <1>5, <1>6, <1>7, <1>8

(* A byte keeps the parser's types. *)
LEMMA ParseType ==
    ASSUME NEW p \in Parsers, NEW c \in Byte
    PROVE  ParseChar(p, c) \in Parsers
<1>1. p.state \in States /\ p.path \in Seq(Byte) /\ p.query \in Seq(Byte) /\ p.field \in Seq(Byte)
      /\ p.value \in Seq(Byte) /\ p.headers \in Seq(Seq(Byte) \X Seq(Byte)) /\ p.body \in Seq(Byte)
  BY DEF Parsers
<1>2. <<c>> \in Seq(Byte) /\ <<>> \in Seq(Byte)
  OBVIOUS
<1>3. \A s \in Seq(Byte) : Append(s, c) \in Seq(Byte)
  OBVIOUS
<1>4. \A s \in States : With(p, "state", s) \in Parsers
  BY WithType
<1>5. \A s \in Seq(Byte) : /\ With(p, "path", s) \in Parsers /\ With(p, "query", s) \in Parsers
                           /\ With(p, "field", s) \in Parsers /\ With(p, "value", s) \in Parsers
                           /\ With(p, "body", s) \in Parsers
  BY WithType
<1>6. \A s \in States : /\ With(With(p, "path", <<c>>), "state", s) \in Parsers
                        /\ With(With(p, "field", <<c>>), "state", s) \in Parsers
                        /\ With(With(p, "value", <<c>>), "state", s) \in Parsers
  BY <1>2, <1>5, WithType
<1>7. Bodied(p) \in Parsers
  <2> DEFINE n == Number(GetHeader(p.headers, <<76>>))
             r == With(p, "state", "kBody")
             t == With(r, "length", n)
             u == With(t, "body", <<>>)
  <2>1. n \in Int
    BY <1>1, GetHeaderType, NumberInt
  <2>2. Bodied(p) = IF n > 0 THEN u ELSE With(p, "complete", TRUE)
    BY DEF Bodied
  <2> HIDE DEF n
  <2>3. With(p, "complete", TRUE) \in Parsers
    BY WithType
  <2>4. r \in Parsers
    BY <1>4 DEF States
  <2>5. t \in Parsers
    <3> HIDE DEF r
    <3> QED
      BY <2>1, <2>4, WithType
  <2>6. u \in Parsers
    <3> HIDE DEF t
    <3> QED
      BY <1>2, <2>5, WithType
  <2> QED
    BY <2>2, <2>3, <2>6
<1>8. \A s \in States : WithHeader(p, s) \in Parsers
  <2> DEFINE h == Append(p.headers, <<p.field, p.value>>)
  <2>1. h \in Seq(Seq(Byte) \X Seq(Byte))
    BY <1>1
  <2> HIDE DEF h
  <2>2. With(p, "headers", h) \in Parsers
    BY <2>1, WithType
  <2>3. \A s \in States : With(With(p, "headers", h), "state", s) \in Parsers
    BY <2>2, WithType
  <2> QED
    BY <2>3 DEF WithHeader, h
<1>9. ASSUME p.state = "kBody" PROVE ParseChar(p, c) \in Parsers
  <2> DEFINE r == With(p, "body", Append(p.body, c))
  <2>1. ParseChar(p, c) = With(r, "complete", BodyDone(r))
    BY <1>9, ParseBody
  <2>2. r \in Parsers
    BY <1>1, <1>3, <1>5
  <2>3. BodyDone(r) \in BOOLEAN
    BY DEF BodyDone
  <2> HIDE DEF r
  <2> QED
    BY <2>1, <2>2, <2>3, WithType
<1>10. {"kMethod", "kBeforePath", "kPath", "kQuery", "kVersionH", "kVersionT1", "kVersionSlash", "kVersionMajor",
        "kVersionMinor", "kAfterVersion", "kHeaderLF", "kHeaderFieldStart", "kHeaderField", "kHeaderBeforeValue",
        "kHeaderValue", "kHeaderValueLF"} \subseteq States
  BY DEF States
<1>11. CASE p.state = "kStart"
  <2>1. /\ c \in Space => ParseChar(p, c) = p
        /\ c \notin Space => ParseChar(p, c) = With(p, "state", "kMethod")
    BY <1>11, ParseLine
  <2>2. With(p, "state", "kMethod") \in Parsers
    BY <1>4, <1>10
  <2> QED
    BY <2>1, <2>2
<1>12. CASE p.state = "kMethod"
  <2>1. /\ c = 32 => ParseChar(p, c) = With(p, "state", "kBeforePath")
        /\ c # 32 => ParseChar(p, c) = p
    BY <1>12, ParseLine
  <2>2. With(p, "state", "kBeforePath") \in Parsers
    BY <1>4, <1>10
  <2> QED
    BY <2>1, <2>2
<1>13. CASE p.state = "kVersionH"
  <2>1. /\ c = 72 => ParseChar(p, c) = With(p, "state", "kVersionT1")
        /\ c # 72 => ParseChar(p, c) = p
    BY <1>13, ParseLine
  <2>2. With(p, "state", "kVersionT1") \in Parsers
    BY <1>4, <1>10
  <2> QED
    BY <2>1, <2>2
<1>14. CASE p.state = "kVersionT1"
  <2>1. /\ c = 84 => ParseChar(p, c) = With(p, "state", "kVersionSlash")
        /\ c # 84 => ParseChar(p, c) = p
    BY <1>14, ParseLine
  <2>2. With(p, "state", "kVersionSlash") \in Parsers
    BY <1>4, <1>10
  <2> QED
    BY <2>1, <2>2
<1>15. CASE p.state = "kVersionSlash"
  <2>1. /\ c = 47 => ParseChar(p, c) = With(p, "state", "kVersionMajor")
        /\ c # 47 => ParseChar(p, c) = p
    BY <1>15, ParseLine
  <2>2. With(p, "state", "kVersionMajor") \in Parsers
    BY <1>4, <1>10
  <2> QED
    BY <2>1, <2>2
<1>16. CASE p.state = "kVersionMajor"
  <2>1. /\ c = 46 => ParseChar(p, c) = With(p, "state", "kVersionMinor")
        /\ c # 46 => ParseChar(p, c) = p
    BY <1>16, ParseLine
  <2>2. With(p, "state", "kVersionMinor") \in Parsers
    BY <1>4, <1>10
  <2> QED
    BY <2>1, <2>2
<1>17. CASE p.state = "kVersionMinor"
  <2>1. /\ c = CR => ParseChar(p, c) = With(p, "state", "kAfterVersion")
        /\ c = LF => ParseChar(p, c) = With(p, "state", "kHeaderLF")
        /\ c \notin {CR, LF} => ParseChar(p, c) = p
    BY <1>17, ParseLine
  <2>2. With(p, "state", "kAfterVersion") \in Parsers /\ With(p, "state", "kHeaderLF") \in Parsers
    BY <1>4, <1>10
  <2> QED
    BY <2>1, <2>2
<1>18. CASE p.state = "kAfterVersion"
  <2>1. /\ c = LF => ParseChar(p, c) = With(p, "state", "kHeaderLF")
        /\ c # LF => ParseChar(p, c) = p
    BY <1>18, ParseLine
  <2>2. With(p, "state", "kHeaderLF") \in Parsers
    BY <1>4, <1>10
  <2> QED
    BY <2>1, <2>2
<1>19. CASE p.state = "kBeforePath"
  <2>1. /\ c = 32 => ParseChar(p, c) = p
        /\ c # 32 => ParseChar(p, c) = With(With(p, "path", <<c>>), "state", "kPath")
    BY <1>19, ParseTarget
  <2>2. With(With(p, "path", <<c>>), "state", "kPath") \in Parsers
    BY <1>6, <1>10
  <2> QED
    BY <2>1, <2>2
<1>20. CASE p.state = "kPath"
  <2>1. /\ c = 63 => ParseChar(p, c) = With(p, "state", "kQuery")
        /\ c = 32 => ParseChar(p, c) = With(p, "state", "kVersionH")
        /\ c \notin {32, 63} => ParseChar(p, c) = With(p, "path", Append(p.path, c))
    BY <1>20, ParseTarget
  <2>2. With(p, "state", "kQuery") \in Parsers /\ With(p, "state", "kVersionH") \in Parsers /\ With(p, "path", Append(p.path, c)) \in Parsers
    BY <1>1, <1>3, <1>4, <1>5, <1>10
  <2> QED
    BY <2>1, <2>2
<1>21. CASE p.state = "kQuery"
  <2>1. /\ c = 32 => ParseChar(p, c) = With(p, "state", "kVersionH")
        /\ c # 32 => ParseChar(p, c) = With(p, "query", Append(p.query, c))
    BY <1>21, ParseTarget
  <2>2. With(p, "state", "kVersionH") \in Parsers /\ With(p, "query", Append(p.query, c)) \in Parsers
    BY <1>1, <1>3, <1>4, <1>5, <1>10
  <2> QED
    BY <2>1, <2>2
<1>22. CASE p.state = "kHeaderLF"
  <2>1. /\ c = CR => ParseChar(p, c) = With(p, "state", "kHeaderFieldStart")
        /\ c = LF => ParseChar(p, c) = Bodied(p)
        /\ c \notin {CR, LF} => ParseChar(p, c) = With(With(p, "field", <<c>>), "state", "kHeaderField")
    BY <1>22, ParseName
  <2>2. With(p, "state", "kHeaderFieldStart") \in Parsers /\ Bodied(p) \in Parsers /\ With(With(p, "field", <<c>>), "state", "kHeaderField") \in Parsers
    BY <1>4, <1>6, <1>7, <1>10
  <2> QED
    BY <2>1, <2>2
<1>23. CASE p.state = "kHeaderFieldStart"
  <2>1. /\ c = LF => ParseChar(p, c) = Bodied(p)
        /\ c # LF => ParseChar(p, c) = With(With(p, "field", <<c>>), "state", "kHeaderField")
    BY <1>23, ParseName
  <2>2. Bodied(p) \in Parsers /\ With(With(p, "field", <<c>>), "state", "kHeaderField") \in Parsers
    BY <1>6, <1>7, <1>10
  <2> QED
    BY <2>1, <2>2
<1>24. CASE p.state = "kHeaderField"
  <2>1. /\ c = 58 => ParseChar(p, c) = With(p, "state", "kHeaderBeforeValue")
        /\ c # 58 => ParseChar(p, c) = With(p, "field", Append(p.field, c))
    BY <1>24, ParseName
  <2>2. With(p, "state", "kHeaderBeforeValue") \in Parsers /\ With(p, "field", Append(p.field, c)) \in Parsers
    BY <1>1, <1>3, <1>4, <1>5, <1>10
  <2> QED
    BY <2>1, <2>2
<1>25. CASE p.state = "kHeaderBeforeValue"
  <2>1. /\ c = 32 => ParseChar(p, c) = p
        /\ c # 32 => ParseChar(p, c) = With(With(p, "value", <<c>>), "state", "kHeaderValue")
    BY <1>25, ParseValue
  <2>2. With(With(p, "value", <<c>>), "state", "kHeaderValue") \in Parsers
    BY <1>6, <1>10
  <2> QED
    BY <2>1, <2>2
<1>26. CASE p.state = "kHeaderValue"
  <2>1. /\ c = CR => ParseChar(p, c) = WithHeader(p, "kHeaderValueLF")
        /\ c = LF => ParseChar(p, c) = WithHeader(p, "kHeaderLF")
        /\ c \notin {CR, LF} => ParseChar(p, c) = With(p, "value", Append(p.value, c))
    BY <1>26, ParseValue
  <2>2. WithHeader(p, "kHeaderValueLF") \in Parsers /\ WithHeader(p, "kHeaderLF") \in Parsers /\ With(p, "value", Append(p.value, c)) \in Parsers
    BY <1>1, <1>3, <1>5, <1>8, <1>10
  <2> QED
    BY <2>1, <2>2
<1>27. CASE p.state = "kHeaderValueLF"
  <2>1. /\ c = LF => ParseChar(p, c) = With(p, "state", "kHeaderLF")
        /\ c # LF => ParseChar(p, c) = p
    BY <1>27, ParseValue
  <2>2. With(p, "state", "kHeaderLF") \in Parsers
    BY <1>4, <1>10
  <2> QED
    BY <2>1, <2>2
<1> QED
  BY <1>1, <1>9, <1>11, <1>12, <1>13, <1>14, <1>15, <1>16, <1>17, <1>18, <1>19, <1>20, <1>21, <1>22, <1>23, <1>24, <1>25, <1>26, <1>27 DEF States

-------------------------------------------------------------------------------
(* The bytes of a request *)

(* The bytes u are in c, behind the first at. *)
Placed(c, at, u) ==
    /\ c \in Seq(Nat) /\ u \in Seq(Nat) /\ at \in Nat /\ at + Len(u) <= Len(c)
    /\ \A x \in 1..Len(u) : c[at + x] = u[x]

(* What has a place in a part of c has one in c. *)
LEMMA PlacedWithin ==
    ASSUME NEW c, NEW s, NEW u, NEW at, NEW k, Placed(c, at, s), Placed(s, k, u)
    PROVE  Placed(c, at + k, u)
<1>1. c \in Seq(Nat) /\ s \in Seq(Nat) /\ u \in Seq(Nat) /\ at \in Nat /\ k \in Nat
      /\ at + Len(s) <= Len(c) /\ k + Len(u) <= Len(s)
  BY DEF Placed
<1>2. Len(c) \in Nat /\ Len(s) \in Nat /\ Len(u) \in Nat
  BY <1>1, LenProperties
<1>3. at + k \in Nat /\ (at + k) + Len(u) <= Len(c)
  BY <1>1, <1>2
<1>4. ASSUME NEW x \in 1..Len(u) PROVE c[(at + k) + x] = u[x]
  <2>1. k + x \in 1..Len(s) /\ (at + k) + x = at + (k + x)
    BY <1>1, <1>2
  <2>2. c[at + (k + x)] = s[k + x]
    BY <2>1 DEF Placed
  <2>3. s[k + x] = u[x]
    BY DEF Placed
  <2> QED
    BY <2>1, <2>2, <2>3
<1> QED
  BY <1>1, <1>3, <1>4 DEF Placed

(* The places of a concatenation. *)
LEMMA JoinedPlaces ==
    ASSUME NEW s \in Seq(Nat), NEW t \in Seq(Nat)
    PROVE  /\ Joined(s, t) \in Seq(Nat) /\ Len(Joined(s, t)) = Len(s) + Len(t)
           /\ Len(s) \in Nat /\ Len(t) \in Nat
           /\ Placed(Joined(s, t), 0, s) /\ Placed(Joined(s, t), Len(s), t)
<1> DEFINE c == Joined(s, t)
<1>1. Len(s) \in Nat /\ Len(t) \in Nat
  BY LenProperties
<1>2. c \in Seq(Nat) /\ Len(c) = Len(s) + Len(t)
      /\ \A i \in 1..(Len(s) + Len(t)) : c[i] = IF i <= Len(s) THEN s[i] ELSE t[i - Len(s)]
  BY ConcatProperties DEF Joined
<1> HIDE DEF c
<1>3. \A j \in 1..Len(s) : 0 + j \in 1..(Len(s) + Len(t)) /\ 0 + j <= Len(s) /\ 0 + j = j
  BY <1>1
<1>4. \A j \in 1..Len(t) : Len(s) + j \in 1..(Len(s) + Len(t)) /\ ~(Len(s) + j <= Len(s)) /\ (Len(s) + j) - Len(s) = j
  BY <1>1
<1>5. \A j \in 1..Len(s) : c[0 + j] = s[j]
  BY <1>2, <1>3
<1>6. \A j \in 1..Len(t) : c[Len(s) + j] = t[j]
  BY <1>2, <1>4
<1>7. 0 \in Nat /\ 0 + Len(s) <= Len(c) /\ Len(s) + Len(t) <= Len(c)
  BY <1>1, <1>2
<1>8. Placed(c, 0, s)
  BY <1>2, <1>5, <1>7 DEF Placed
<1>9. Placed(c, Len(s), t)
  BY <1>1, <1>2, <1>6, <1>7 DEF Placed
<1> QED
  BY <1>1, <1>2, <1>8, <1>9 DEF c

(* What is appended moves nothing. *)
LEMMA JoinedKeeps ==
    ASSUME NEW s \in Seq(Nat), NEW t \in Seq(Nat), NEW k, NEW u, Placed(s, k, u)
    PROVE  Placed(Joined(s, t), k, u)
<1>1. Placed(Joined(s, t), 0 + k, u)
  BY JoinedPlaces, PlacedWithin
<1>2. k \in Nat
  BY DEF Placed
<1> QED
  BY <1>1, <1>2

(* A sequence has a place in itself. *)
LEMMA PlacedSelf == ASSUME NEW c \in Seq(Nat) PROVE Placed(c, 0, c)
<1>1. Len(c) \in Nat
  BY LenProperties
<1>2. 0 \in Nat /\ 0 + Len(c) <= Len(c) /\ \A x \in 1..Len(c) : 0 + x = x
  BY <1>1
<1> QED
  BY <1>2 DEF Placed

(* Bytes are numbers. *)
LEMMA ByteNat == ASSUME NEW s \in Seq(Byte) PROVE s \in Seq(Nat)
<1>1. Len(s) \in Nat /\ s \in [1..Len(s) -> Nat]
  <2>1. Len(s) \in Nat /\ s \in [1..Len(s) -> Byte]
    BY LenProperties
  <2> QED
    BY <2>1, StreamAssumption
<1> QED
  BY <1>1, FcnIsSeq

(* The end of a line. *)
LEMMA LineIs ==
    ASSUME NEW m
    PROVE  /\ Line(m) \in Seq(Nat) /\ Len(Line(m)) \in {1, 2}
           /\ m.crlf => Len(Line(m)) = 2 /\ Line(m)[1] = 13 /\ Line(m)[2] = 10
           /\ ~m.crlf => Len(Line(m)) = 1 /\ Line(m)[1] = 10
<1>1. CASE m.crlf
  BY <1>1 DEF Line, CR, LF
<1>2. CASE ~m.crlf
  BY <1>2 DEF Line, CR, LF
<1> QED
  BY <1>1, <1>2

(* The first i header lines of a request, and how many bytes they take. *)
HeaderLines(m) ==
    LET upTo[i \in 0..Len(m.headers)] ==
            IF i = 0 THEN <<>>
            ELSE upTo[i - 1] \o m.headers[i][1] \o <<58, 32>> \o m.headers[i][2] \o Line(m)
    IN upTo
Mark(m, i) == Len(HeaderLines(m)[i])

(* Of a request as clients write them. *)
LEMMA HeadersIn ==
    ASSUME NEW m, WellFormed(m)
    PROVE  /\ Len(m.headers) \in Nat /\ DOMAIN m.headers = 1..Len(m.headers)
           /\ \A i \in 1..Len(m.headers) :
                  /\ m.headers[i][1] \in Seq(Nat) /\ m.headers[i][2] \in Seq(Nat)
                  /\ m.headers[i][1] \in Seq(Byte) /\ m.headers[i][2] \in Seq(Byte)
                  /\ m.headers[i] = <<m.headers[i][1], m.headers[i][2]>>
<1>1. m.headers \in Seq(Seq(Byte) \X Seq(Byte))
  BY DEF WellFormed
<1>2. Len(m.headers) \in Nat /\ DOMAIN m.headers = 1..Len(m.headers)
      /\ \A i \in 1..Len(m.headers) : m.headers[i] \in Seq(Byte) \X Seq(Byte)
  BY <1>1, LenProperties, ElementOfSeq
<1>3. \A i \in 1..Len(m.headers) :
          /\ m.headers[i][1] \in Seq(Byte) /\ m.headers[i][2] \in Seq(Byte)
          /\ m.headers[i] = <<m.headers[i][1], m.headers[i][2]>>
  BY <1>2
<1> QED
  BY <1>2, <1>3, ByteNat

(* The lines of the headers, one behind the other. *)
LEMMA HeaderLinesAre ==
    ASSUME NEW m, WellFormed(m)
    PROVE  /\ HeaderLines(m)[0] = <<>>
           /\ \A i \in 1..Len(m.headers) :
                  HeaderLines(m)[i] =
                      HeaderLines(m)[i - 1] \o m.headers[i][1] \o <<58, 32>> \o m.headers[i][2] \o Line(m)
           /\ \A i \in 0..Len(m.headers) : HeaderLines(m)[i] \in Seq(Nat)
           /\ HeaderBytes(m) = HeaderLines(m)[Len(m.headers)]
<1> DEFINE n == Len(m.headers)
           line(x, i) == x \o m.headers[i][1] \o <<58, 32>> \o m.headers[i][2] \o Line(m)
           Is(g) == g = [i \in 0..n |-> IF i = 0 THEN <<>> ELSE line(g[i - 1], i)]
           step == [i \in 1..n |-> [x \in Seq(Nat) |-> line(x, i)]]
           f == CHOOSE g : Is(g)
<1>1. n \in Nat /\ <<>> \in Seq(Nat)
  BY HeadersIn
<1>2. \A i \in 1..n, x \in Seq(Nat) : line(x, i) \in Seq(Nat)
  <2> SUFFICES ASSUME NEW i \in 1..n, NEW x \in Seq(Nat) PROVE line(x, i) \in Seq(Nat)
    OBVIOUS
  <2>1. m.headers[i][1] \in Seq(Nat) /\ m.headers[i][2] \in Seq(Nat) /\ Line(m) \in Seq(Nat)
    BY HeadersIn, LineIs
  <2>2. <<58, 32>> \in Seq(Nat)
    OBVIOUS
  <2>3. \A s, t \in Seq(Nat) : s \o t \in Seq(Nat)
    BY ConcatProperties
  <2> QED
    BY <2>1, <2>2, <2>3
<1> HIDE DEF line
<1>3. step \in [1..n -> [Seq(Nat) -> Seq(Nat)]]
  BY <1>2
<1>4. PICK g \in [0..n -> Seq(Nat)] : g[0] = <<>> /\ \A i \in 1..n : g[i] = step[i][g[i - 1]]
  <2>1. \E g : ByRecursion(g, n, Seq(Nat), <<>>, step)
    <3> HIDE DEF n, step
    <3> QED
      BY <1>1, <1>3, RecursionExists
  <2> QED
    BY <2>1 DEF ByRecursion
<1>5. Is(g)
  <2>1. \A i \in 1..n : i - 1 \in 0..n
    BY <1>1
  <2>2. \A i \in 1..n : g[i] = line(g[i - 1], i)
    BY <1>4, <2>1
  <2>3. \A i \in 0..n : i # 0 => i \in 1..n
    BY <1>1
  <2> HIDE DEF n
  <2> QED
    BY <1>4, <2>2, <2>3
<1>6. Is(f)
  BY <1>5
<1>7. f = HeaderLines(m)
  BY Zenon DEF HeaderLines, f, Is, line, n
<1> HIDE DEF f
<1>8. f[0] = <<>> /\ \A i \in 1..n : f[i] = line(f[i - 1], i)
  <2>1. 0 \in 0..n /\ \A i \in 1..n : i \in 0..n /\ i # 0
    BY <1>1
  <2> HIDE DEF n
  <2> QED
    BY <1>6, <2>1
<1> DEFINE T == {i \in Nat : f[i] \in Seq(Nat)}
<1>9. \A i \in 0..n : i \in T
  <2>1. 0 \in T
    BY <1>8
  <2>2. ASSUME NEW i \in 1..n, i - 1 \in T PROVE i \in T
    <3>1. i \in Nat /\ f[i - 1] \in Seq(Nat) /\ f[i] = line(f[i - 1], i)
      BY <1>1, <1>8, <2>2
    <3> QED
      BY <1>2, <3>1
  <2> HIDE DEF n, T
  <2> QED
    BY <1>1, <2>1, <2>2, Along
<1>10. HeaderBytes(m) = HeaderLines(m)[n]
  BY Zenon DEF HeaderBytes, HeaderLines, n
<1> QED
  BY <1>7, <1>8, <1>9, <1>10 DEF line

(* The name and the value of header i, and where they begin. *)
NameOf(m, i) == m.headers[i][1]
ValueOf(m, i) == m.headers[i][2]
ValueMark(m, i) == Mark(m, i - 1) + Len(NameOf(m, i)) + 2
EndMark(m, i) == ValueMark(m, i) + Len(ValueOf(m, i))

(* The bytes of the line of header i, behind those of the lines before it. *)
LEMMA LineAt ==
    ASSUME NEW m, WellFormed(m), NEW i \in 1..Len(m.headers)
    PROVE  /\ Mark(m, i - 1) \in Nat /\ Len(NameOf(m, i)) \in Nat /\ Len(ValueOf(m, i)) \in Nat
           /\ Mark(m, i) = EndMark(m, i) + Len(Line(m))
           /\ Placed(HeaderLines(m)[i], 0, HeaderLines(m)[i - 1])
           /\ Placed(HeaderLines(m)[i], Mark(m, i - 1), NameOf(m, i))
           /\ Placed(HeaderLines(m)[i], Mark(m, i - 1) + Len(NameOf(m, i)), <<58, 32>>)
           /\ Placed(HeaderLines(m)[i], ValueMark(m, i), ValueOf(m, i))
           /\ Placed(HeaderLines(m)[i], EndMark(m, i), Line(m))
<1> DEFINE f == HeaderLines(m)
           name == NameOf(m, i)
           value == ValueOf(m, i)
           a == Mark(m, i - 1)
           nl == Len(name)
           vl == Len(value)
           el == Len(Line(m))
<1>0. name = m.headers[i][1] /\ value = m.headers[i][2]
  BY DEF NameOf, ValueOf
<1> HIDE DEF f, name, value
<1> DEFINE end == Line(m)
           sep == <<58, 32>>
           c0 == f[i - 1]
           c1 == Joined(c0, name)
           c2 == Joined(c1, sep)
           c3 == Joined(c2, value)
           c4 == Joined(c3, end)
<1>1. name \in Seq(Nat) /\ value \in Seq(Nat) /\ end \in Seq(Nat) /\ Len(m.headers) \in Nat
  BY <1>0, HeadersIn, LineIs
<1>2. i - 1 \in 0..Len(m.headers)
  BY <1>1
<1>3. c0 \in Seq(Nat) /\ f[i] = c4
  BY <1>0, <1>2, HeaderLinesAre DEF Joined, f
<1>4. sep \in Seq(Nat) /\ Len(sep) = 2
  OBVIOUS
<1>5. a = Len(c0) /\ el = Len(end) /\ Mark(m, i) = Len(c4)
  BY <1>3 DEF Mark, f
<1> HIDE DEF sep, end, c0, c1, c2, c3, c4, a, nl, vl, el
<1>6. c1 \in Seq(Nat) /\ Len(c1) = a + nl /\ a \in Nat /\ nl \in Nat /\ Placed(c1, 0, c0) /\ Placed(c1, a, name)
  BY <1>1, <1>3, <1>5, JoinedPlaces DEF c1, nl
<1>7. c2 \in Seq(Nat) /\ Len(c2) = a + nl + 2
      /\ Placed(c2, 0, c0) /\ Placed(c2, a, name) /\ Placed(c2, a + nl, sep)
  BY <1>4, <1>6, JoinedPlaces, JoinedKeeps DEF c2
<1>8. c3 \in Seq(Nat) /\ Len(c3) = a + nl + 2 + vl /\ vl \in Nat
      /\ Placed(c3, 0, c0) /\ Placed(c3, a, name) /\ Placed(c3, a + nl, sep) /\ Placed(c3, a + nl + 2, value)
  <2>1. c3 \in Seq(Nat) /\ Len(c3) = Len(c2) + vl /\ vl \in Nat /\ Placed(c3, Len(c2), value)
    BY <1>1, <1>7, JoinedPlaces DEF c3, vl
  <2>2. Placed(c3, 0, c0) /\ Placed(c3, a, name) /\ Placed(c3, a + nl, sep)
    BY <1>1, <1>7, JoinedKeeps DEF c3
  <2> QED
    BY <1>7, <2>1, <2>2
<1>9. Len(c4) = a + nl + 2 + vl + el /\ el \in Nat
      /\ Placed(c4, 0, c0) /\ Placed(c4, a, name) /\ Placed(c4, a + nl, sep)
      /\ Placed(c4, a + nl + 2, value) /\ Placed(c4, a + nl + 2 + vl, end)
  <2>1. c4 \in Seq(Nat) /\ Len(c4) = Len(c3) + Len(end) /\ Len(end) \in Nat /\ Placed(c4, Len(c3), end)
    BY <1>1, <1>8, JoinedPlaces DEF c4
  <2>2. Placed(c4, 0, c0) /\ Placed(c4, a, name) /\ Placed(c4, a + nl, sep) /\ Placed(c4, a + nl + 2, value)
    BY <1>1, <1>8, JoinedKeeps DEF c4
  <2> QED
    BY <1>5, <1>8, <2>1, <2>2
<1>10. ValueMark(m, i) = a + nl + 2 /\ EndMark(m, i) = a + nl + 2 + vl
  BY DEF ValueMark, EndMark, a, nl, vl, name, value
<1>11. Placed(f[i], 0, f[i - 1]) /\ Placed(f[i], a, name) /\ Placed(f[i], a + nl, sep)
       /\ Placed(f[i], ValueMark(m, i), value) /\ Placed(f[i], EndMark(m, i), end)
  BY <1>3, <1>9, <1>10 DEF c0
<1>12. Mark(m, i) = EndMark(m, i) + el
  BY <1>3, <1>5, <1>9, <1>10
<1> QED
  BY <1>6, <1>8, <1>11, <1>12 DEF end, sep, a, nl, vl, el, f, name, value

(* Each of the header lines has its place in all of them. *)
LEMMA LineStays ==
    ASSUME NEW m, WellFormed(m), NEW i \in 0..Len(m.headers)
    PROVE  /\ Mark(m, i) \in Nat /\ Mark(m, 0) = 0 /\ Mark(m, i) <= Mark(m, Len(m.headers))
           /\ Len(HeaderBytes(m)) = Mark(m, Len(m.headers))
           /\ Placed(HeaderBytes(m), 0, HeaderLines(m)[i])
<1> DEFINE n == Len(m.headers)
           f == HeaderLines(m)
           T == {k \in Nat : i <= k => Mark(m, i) <= Mark(m, k) /\ Placed(f[k], 0, f[i])}
<1>1. n \in Nat /\ f[0] = <<>> /\ (\A k \in 0..n : f[k] \in Seq(Nat)) /\ HeaderBytes(m) = f[n]
  BY HeadersIn, HeaderLinesAre
<1> HIDE DEF f
<1>2. Mark(m, 0) = 0 /\ \A k \in 0..n : Mark(m, k) \in Nat /\ Len(f[k]) = Mark(m, k)
  <2>1. \A k \in 0..n : Len(f[k]) \in Nat
    BY <1>1, LenProperties
  <2> QED
    BY <1>1, <2>1 DEF Mark, f
<1> HIDE DEF n
<1>3. i \in 0..n /\ i \in Nat
  BY <1>1 DEF n
<1>4. 0 \in T
  <2>1. CASE i = 0
    <3>1. Placed(f[0], 0, f[0])
      BY <1>1, <1>3, PlacedSelf
    <3> QED
      BY <1>2, <2>1, <3>1
  <2>2. CASE i # 0
    BY <1>3, <2>2
  <2> QED
    BY <2>1, <2>2
<1>5. ASSUME NEW k \in 1..n, k - 1 \in T PROVE k \in T
  <2>1. k \in Nat /\ k \in 0..n /\ k - 1 \in 0..n
    BY <1>1
  <2>2. Mark(m, k - 1) \in Nat /\ Mark(m, k) \in Nat /\ Mark(m, i) \in Nat
        /\ Len(f[k - 1]) = Mark(m, k - 1) /\ Len(f[i]) = Mark(m, i)
    BY <1>2, <1>3, <2>1
  <2>3. Mark(m, k - 1) <= Mark(m, k) /\ Placed(f[k], 0, f[k - 1])
    <3>1. k \in 1..Len(m.headers)
      BY DEF n
    <3>2. Placed(f[k], 0, f[k - 1])
      BY <3>1, LineAt DEF f
    <3>3. Len(f[k - 1]) <= Len(f[k])
      BY <2>2, <3>2 DEF Placed
    <3> QED
      BY <1>2, <2>1, <3>2, <3>3
  <2>4. CASE i <= k - 1
    <3>1. Mark(m, i) <= Mark(m, k - 1) /\ Placed(f[k - 1], 0, f[i])
      BY <1>5, <2>4
    <3>2. Placed(f[k], 0 + 0, f[i])
      BY <2>3, <3>1, PlacedWithin
    <3>3. Placed(f[k], 0, f[i])
      BY <3>2
    <3> QED
      BY <2>1, <2>2, <2>3, <3>1, <3>3
  <2>5. CASE i = k
    <3>1. Placed(f[k], 0, f[i])
      BY <1>1, <2>1, <2>5, PlacedSelf
    <3> QED
      BY <2>1, <2>2, <2>5, <3>1
  <2>6. CASE i > k
    BY <1>3, <2>1, <2>6
  <2> QED
    BY <1>3, <2>1, <2>4, <2>5, <2>6
<1>6. \A k \in 0..n : k \in T
  <2> HIDE DEF T
  <2> QED
    BY <1>1, <1>4, <1>5, Along
<1>7. n \in T /\ i <= n /\ n \in 0..n
  BY <1>1, <1>3, <1>6
<1>8. Len(HeaderBytes(m)) = Mark(m, n)
  BY <1>1, <1>2, <1>7
<1> QED
  BY <1>1, <1>2, <1>3, <1>7, <1>8 DEF n, f

(* Where the target ends, where the headers begin, and the parts of a header. *)
TargetEnd(m) == IF m.query THEN 5 ELSE 3
HeadsAt(m) == TargetEnd(m) + 7 + Len(Line(m))
NameAt(m, i) == HeadsAt(m) + Mark(m, i - 1)
ValueAt(m, i) == NameAt(m, i) + Len(NameOf(m, i)) + 2
EndAt(m, i) == ValueAt(m, i) + Len(ValueOf(m, i))
LastLine(m) == HeadsAt(m) + Mark(m, Len(m.headers))
BodyAt(m) == LastLine(m) + Len(Line(m))

(* The parts of a request and their places. *)
LEMMA Layout ==
    ASSUME NEW m, WellFormed(m)
    PROVE  /\ Bytes(m) \in Seq(Nat) /\ HeadsAt(m) \in Nat /\ LastLine(m) \in Nat /\ BodyAt(m) \in Nat
           /\ Len(m.body) \in Nat /\ Len(Bytes(m)) = BodyAt(m) + Len(m.body)
           /\ Placed(Bytes(m), 0, <<71, 32, 47>>)
           /\ m.query => Placed(Bytes(m), 3, <<63, 113>>)
           /\ Placed(Bytes(m), TargetEnd(m), <<32, 72, 84, 47, 49, 46, 49>>)
           /\ Placed(Bytes(m), TargetEnd(m) + 7, Line(m))
           /\ Placed(Bytes(m), HeadsAt(m), HeaderBytes(m))
           /\ Placed(Bytes(m), LastLine(m), Line(m))
           /\ Placed(Bytes(m), BodyAt(m), m.body)
<1> DEFINE s1 == <<71, 32, 47>>
           s2 == IF m.query THEN <<63, 113>> ELSE <<>>
           s3 == <<32, 72, 84, 47, 49, 46, 49>>
           end == Line(m)
           hs == HeaderBytes(m)
           body == m.body
           e == TargetEnd(m)
           c1 == Joined(s1, s2)
           c2 == Joined(c1, s3)
           c3 == Joined(c2, end)
           c4 == Joined(c3, hs)
           c5 == Joined(c4, end)
           c6 == Joined(c5, body)
<1>1. Bytes(m) = c6
  BY Zenon DEF WellFormed, Bytes, Joined
<1>2. s1 \in Seq(Nat) /\ Len(s1) = 3 /\ s3 \in Seq(Nat) /\ Len(s3) = 7
  OBVIOUS
<1>3. s2 \in Seq(Nat) /\ 3 + Len(s2) = e /\ e \in Nat
  BY DEF TargetEnd
<1>4. end \in Seq(Nat) /\ Len(end) \in Nat
  BY LineIs
<1>5. hs \in Seq(Nat) /\ Len(hs) = Mark(m, Len(m.headers))
  <2>1. Len(m.headers) \in 0..Len(m.headers)
    BY HeadersIn
  <2> QED
    BY <2>1, HeaderLinesAre DEF Mark
<1>6. body \in Seq(Nat)
  BY ByteNat DEF WellFormed
<1>7. m.query => s2 = <<63, 113>>
  OBVIOUS
<1> HIDE DEF s1, s2, s3, end, hs, body, e, c1, c2, c3, c4, c5, c6
<1>8. c1 \in Seq(Nat) /\ Len(c1) = e /\ Placed(c1, 0, s1) /\ Placed(c1, 3, s2)
  BY <1>2, <1>3, JoinedPlaces DEF c1
<1>9. c2 \in Seq(Nat) /\ Len(c2) = e + 7 /\ Placed(c2, 0, s1) /\ Placed(c2, 3, s2) /\ Placed(c2, e, s3)
  <2>1. c2 \in Seq(Nat) /\ Len(c2) = Len(c1) + Len(s3) /\ Placed(c2, Len(c1), s3)
    BY <1>2, <1>8, JoinedPlaces DEF c2
  <2>2. Placed(c2, 0, s1) /\ Placed(c2, 3, s2)
    BY <1>2, <1>8, JoinedKeeps DEF c2
  <2> QED
    BY <1>2, <1>8, <2>1, <2>2
<1>10. c3 \in Seq(Nat) /\ Len(c3) = HeadsAt(m) /\ HeadsAt(m) \in Nat
       /\ Placed(c3, 0, s1) /\ Placed(c3, 3, s2) /\ Placed(c3, e, s3) /\ Placed(c3, e + 7, end)
  <2>1. c3 \in Seq(Nat) /\ Len(c3) = Len(c2) + Len(end) /\ Placed(c3, Len(c2), end)
    BY <1>4, <1>9, JoinedPlaces DEF c3
  <2>2. Placed(c3, 0, s1) /\ Placed(c3, 3, s2) /\ Placed(c3, e, s3)
    BY <1>4, <1>9, JoinedKeeps DEF c3
  <2>3. HeadsAt(m) = e + 7 + Len(end)
    BY DEF HeadsAt, e, end
  <2> QED
    BY <1>3, <1>4, <1>9, <2>1, <2>2, <2>3
<1>11. c4 \in Seq(Nat) /\ Len(c4) = LastLine(m) /\ LastLine(m) \in Nat
       /\ Placed(c4, 0, s1) /\ Placed(c4, 3, s2) /\ Placed(c4, e, s3) /\ Placed(c4, e + 7, end)
       /\ Placed(c4, HeadsAt(m), hs)
  <2>1. c4 \in Seq(Nat) /\ Len(c4) = Len(c3) + Len(hs) /\ Len(hs) \in Nat /\ Placed(c4, Len(c3), hs)
    BY <1>5, <1>10, JoinedPlaces DEF c4
  <2>2. Placed(c4, 0, s1) /\ Placed(c4, 3, s2) /\ Placed(c4, e, s3) /\ Placed(c4, e + 7, end)
    BY <1>5, <1>10, JoinedKeeps DEF c4
  <2>3. LastLine(m) = HeadsAt(m) + Len(hs)
    BY <1>5 DEF LastLine
  <2> QED
    BY <1>10, <2>1, <2>2, <2>3
<1>12. c5 \in Seq(Nat) /\ Len(c5) = BodyAt(m) /\ BodyAt(m) \in Nat
       /\ Placed(c5, 0, s1) /\ Placed(c5, 3, s2) /\ Placed(c5, e, s3) /\ Placed(c5, e + 7, end)
       /\ Placed(c5, HeadsAt(m), hs) /\ Placed(c5, LastLine(m), end)
  <2>1. c5 \in Seq(Nat) /\ Len(c5) = Len(c4) + Len(end) /\ Placed(c5, Len(c4), end)
    BY <1>4, <1>11, JoinedPlaces DEF c5
  <2>2. Placed(c5, 0, s1) /\ Placed(c5, 3, s2) /\ Placed(c5, e, s3) /\ Placed(c5, e + 7, end)
        /\ Placed(c5, HeadsAt(m), hs)
    BY <1>4, <1>11, JoinedKeeps DEF c5
  <2>3. BodyAt(m) = LastLine(m) + Len(end)
    BY DEF BodyAt, end
  <2> QED
    BY <1>4, <1>11, <2>1, <2>2, <2>3
<1>13. c6 \in Seq(Nat) /\ Len(c6) = Len(c5) + Len(body) /\ Len(body) \in Nat /\ Placed(c6, Len(c5), body)
  BY <1>6, <1>12, JoinedPlaces DEF c6
<1>14. Placed(c6, 0, s1) /\ Placed(c6, 3, s2) /\ Placed(c6, e, s3) /\ Placed(c6, e + 7, end)
       /\ Placed(c6, HeadsAt(m), hs) /\ Placed(c6, LastLine(m), end)
  BY <1>6, <1>12, JoinedKeeps DEF c6
<1> QED
  BY <1>1, <1>7, <1>10, <1>11, <1>12, <1>13, <1>14 DEF s1, s3, end, hs, body, e

(* The parts of header i. *)
LEMMA HeaderAt ==
    ASSUME NEW m, WellFormed(m), NEW i \in 1..Len(m.headers)
    PROVE  /\ NameAt(m, i) \in Nat /\ ValueAt(m, i) \in Nat /\ EndAt(m, i) \in Nat
           /\ Len(NameOf(m, i)) \in Nat /\ Len(ValueOf(m, i)) \in Nat
           /\ NameAt(m, i + 1) = EndAt(m, i) + Len(Line(m))
           /\ Placed(Bytes(m), NameAt(m, i), NameOf(m, i))
           /\ Placed(Bytes(m), NameAt(m, i) + Len(NameOf(m, i)), <<58, 32>>)
           /\ Placed(Bytes(m), ValueAt(m, i), ValueOf(m, i))
           /\ Placed(Bytes(m), EndAt(m, i), Line(m))
<1> DEFINE b == Bytes(m)
           h == HeadsAt(m)
           l == HeaderLines(m)[i]
           k == Mark(m, i - 1)
           nl == Len(NameOf(m, i))
           vl == Len(ValueOf(m, i))
           el == Len(Line(m))
<1>1. h \in Nat /\ Placed(b, h, HeaderBytes(m))
  BY Layout
<1>2. Placed(HeaderBytes(m), 0, l)
  <2>1. i \in 0..Len(m.headers)
    BY HeadersIn
  <2> QED
    BY <2>1, LineStays
<1>3. k \in Nat /\ nl \in Nat /\ vl \in Nat /\ el \in Nat
  <2>1. k \in Nat /\ nl \in Nat /\ vl \in Nat
    BY LineAt
  <2>2. el \in Nat
    BY LineIs
  <2> QED
    BY <2>1, <2>2
<1>4. Placed(l, k, NameOf(m, i)) /\ Placed(l, k + nl, <<58, 32>>)
      /\ Placed(l, ValueMark(m, i), ValueOf(m, i)) /\ Placed(l, EndMark(m, i), Line(m))
      /\ Mark(m, i) = EndMark(m, i) + el
  BY LineAt
<1>5. ValueMark(m, i) = k + nl + 2 /\ EndMark(m, i) = k + nl + 2 + vl
  BY DEF ValueMark, EndMark
<1>6. NameAt(m, i) = h + k /\ ValueAt(m, i) = h + k + nl + 2 /\ EndAt(m, i) = h + k + nl + 2 + vl
  BY DEF NameAt, ValueAt, EndAt
<1>7. NameAt(m, i + 1) = h + Mark(m, i)
  <2>1. (i + 1) - 1 = i
    BY HeadersIn
  <2> QED
    BY <2>1 DEF NameAt
<1> HIDE DEF b, h, l, k, nl, vl, el
<1>8. Placed(b, h + 0, l)
  BY <1>1, <1>2, PlacedWithin
<1>9. Placed(b, h, l)
  BY <1>1, <1>8
<1>10. Placed(b, h + k, NameOf(m, i)) /\ Placed(b, h + (k + nl), <<58, 32>>)
       /\ Placed(b, h + ValueMark(m, i), ValueOf(m, i)) /\ Placed(b, h + EndMark(m, i), Line(m))
  BY <1>4, <1>9, PlacedWithin
<1>11. h + (k + nl) = (h + k) + nl /\ h + ValueMark(m, i) = h + k + nl + 2 /\ h + EndMark(m, i) = h + k + nl + 2 + vl
  BY <1>1, <1>3, <1>5
<1>12. Placed(b, NameAt(m, i), NameOf(m, i)) /\ Placed(b, NameAt(m, i) + nl, <<58, 32>>)
       /\ Placed(b, ValueAt(m, i), ValueOf(m, i)) /\ Placed(b, EndAt(m, i), Line(m))
  BY <1>6, <1>10, <1>11
<1>13. NameAt(m, i + 1) = EndAt(m, i) + el
  BY <1>1, <1>3, <1>4, <1>5, <1>6, <1>7
<1>14. NameAt(m, i) \in Nat /\ ValueAt(m, i) \in Nat /\ EndAt(m, i) \in Nat
  BY <1>1, <1>3, <1>6
<1> QED
  BY <1>3, <1>12, <1>13, <1>14 DEF b, nl, vl, el

(* A prefix of any sequence, and how it grows. *)
LEMMA PrefixStep ==
    ASSUME NEW S, NEW s \in Seq(S)
    PROVE  /\ Prefix(s, 0) = <<>> /\ Prefix(s, Len(s)) = s
           /\ \A k \in 0..Len(s) : Prefix(s, k) \in Seq(S) /\ Len(Prefix(s, k)) = k
           /\ \A k \in 1..Len(s) : Append(Prefix(s, k - 1), s[k]) = Prefix(s, k)
           /\ Len(s) \in Nat /\ (1 <= Len(s) => Prefix(s, 1) = <<s[1]>>)
<1>1. Len(s) \in Nat /\ s \in [1..Len(s) -> S]
  BY LenProperties
<1>2. \A k \in 0..Len(s) : Prefix(s, k) \in Seq(S) /\ Len(Prefix(s, k)) = k
      /\ \A i \in 1..k : Prefix(s, k)[i] = s[i]
  <2> SUFFICES ASSUME NEW k \in 0..Len(s)
               PROVE  Prefix(s, k) \in Seq(S) /\ Len(Prefix(s, k)) = k /\ \A i \in 1..k : Prefix(s, k)[i] = s[i]
    OBVIOUS
  <2>1. k \in Nat /\ \A i \in 1..k : i \in 1..Len(s)
    BY <1>1
  <2>2. Prefix(s, k) \in [1..k -> S] /\ \A i \in 1..k : Prefix(s, k)[i] = s[i]
    BY <1>1, <2>1 DEF Prefix
  <2> QED
    BY <2>1, <2>2, FcnIsSeq
<1>3. Prefix(s, 0) = <<>>
  <2>1. 0 \in 0..Len(s)
    BY <1>1
  <2> QED
    BY <1>2, <2>1, EmptySeq
<1>4. Prefix(s, Len(s)) = s
  BY <1>1 DEF Prefix
<1>5. ASSUME NEW k \in 1..Len(s) PROVE Append(Prefix(s, k - 1), s[k]) = Prefix(s, k)
  <2>1. k - 1 \in 0..Len(s) /\ k \in 0..Len(s) /\ k = (k - 1) + 1 /\ \A i \in 1..(k - 1) : i \in 1..k
    BY <1>1
  <2>2. Prefix(s, k - 1) \in Seq(S) /\ Len(Prefix(s, k - 1)) = k - 1
        /\ Prefix(s, k) \in Seq(S) /\ Len(Prefix(s, k)) = (k - 1) + 1
    BY <1>2, <2>1
  <2>3. \A i \in 1..(k - 1) : Prefix(s, k)[i] = Prefix(s, k - 1)[i]
    BY <1>2, <2>1
  <2>4. s[k] \in S /\ Prefix(s, k)[(k - 1) + 1] = s[k]
    BY <1>1, <1>2, <2>1
  <2> QED
    BY <2>2, <2>3, <2>4, AppendIs
<1>6. ASSUME 1 <= Len(s) PROVE Prefix(s, 1) = <<s[1]>>
  <2>1. 1 \in 1..Len(s) /\ 1 - 1 = 0
    BY <1>1, <1>6
  <2>2. Append(Prefix(s, 0), s[1]) = Prefix(s, 1)
    BY <1>5, <2>1
  <2>3. Append(<<>>, s[1]) = <<s[1]>>
    OBVIOUS
  <2> QED
    BY <1>3, <2>2, <2>3
<1> QED
  BY <1>1, <1>2, <1>3, <1>4, <1>5, <1>6

(* The same, one element on. *)
LEMMA PrefixNext ==
    ASSUME NEW S, NEW s \in Seq(S), NEW k \in Nat, k < Len(s)
    PROVE  /\ Append(Prefix(s, k), s[k + 1]) = Prefix(s, k + 1)
           /\ Prefix(s, k) \in Seq(S) /\ Len(Prefix(s, k)) = k
           /\ Prefix(s, k + 1) \in Seq(S) /\ Len(Prefix(s, k + 1)) = k + 1
<1>1. Len(s) \in Nat
  BY LenProperties
<1>2. k + 1 \in 1..Len(s) /\ k + 1 \in 0..Len(s) /\ k \in 0..Len(s) /\ (k + 1) - 1 = k
  BY <1>1
<1>3. Append(Prefix(s, (k + 1) - 1), s[k + 1]) = Prefix(s, k + 1)
  BY <1>2, PrefixStep
<1>4. \A j \in 0..Len(s) : Prefix(s, j) \in Seq(S) /\ Len(Prefix(s, j)) = j
  BY PrefixStep
<1> QED
  BY <1>2, <1>3, <1>4

(* What the parser makes of an empty value, and of the headers of m. *)
Taken(value) == IF value = <<>> THEN <<CR>> ELSE value
TakenHeaders(m) == [i \in 1..Len(m.headers) |-> <<NameOf(m, i), Taken(ValueOf(m, i))>>]

(* They are headers. *)
LEMMA TakenIs ==
    ASSUME NEW m, WellFormed(m), m.crlf => CR \in Byte
    PROVE  /\ TakenHeaders(m) \in Seq(Seq(Byte) \X Seq(Byte)) /\ Len(TakenHeaders(m)) = Len(m.headers)
           /\ \A i \in 1..Len(m.headers) :
                  TakenHeaders(m)[i] = <<NameOf(m, i), Taken(ValueOf(m, i))>>
           /\ DOMAIN TakenHeaders(m) = 1..Len(m.headers)
<1>1. Len(m.headers) \in Nat
  BY HeadersIn
<1>2. \A i \in 1..Len(m.headers) : NameOf(m, i) \in Seq(Byte) /\ ValueOf(m, i) \in Seq(Byte)
  BY HeadersIn DEF NameOf, ValueOf
<1>3. ASSUME NEW i \in 1..Len(m.headers) PROVE Taken(ValueOf(m, i)) \in Seq(Byte)
  <2>1. CASE ValueOf(m, i) = <<>>
    <3>1. i \in DOMAIN m.headers
      BY HeadersIn
    <3>2. CR \in Byte
      BY <2>1, <3>1 DEF WellFormed, ValueOf
    <3> QED
      BY <2>1, <3>2 DEF Taken
  <2>2. CASE ValueOf(m, i) # <<>>
    BY <1>2, <2>2 DEF Taken
  <2> QED
    BY <2>1, <2>2
<1>4. TakenHeaders(m) \in [1..Len(m.headers) -> Seq(Byte) \X Seq(Byte)]
  BY <1>2, <1>3 DEF TakenHeaders
<1>5. \A i \in 1..Len(m.headers) : TakenHeaders(m)[i] = <<NameOf(m, i), Taken(ValueOf(m, i))>>
  BY DEF TakenHeaders
<1> QED
  BY <1>1, <1>4, <1>5, FcnIsSeq

(* The last of several headers of one name counts, before and after. *)
LEMMA TakenHeader ==
    ASSUME NEW m, WellFormed(m), m.crlf => CR \in Byte, NEW name
    PROVE  /\ \/ GetHeader(TakenHeaders(m), name) = GetHeader(m.headers, name)
              \/ /\ GetHeader(m.headers, name) = <<>>
                 /\ \E i \in 1..Len(m.headers) : NameOf(m, i) = name /\ ValueOf(m, i) = <<>>
           /\ (\A i \in 1..Len(m.headers) : NameOf(m, i) # name) => GetHeader(m.headers, name) = <<>>
<1> DEFINE n == Len(m.headers)
           at == {i \in 1..n : NameOf(m, i) = name}
           last == CHOOSE i \in at : \A k \in at : k <= i
<1>1. n \in Nat /\ DOMAIN m.headers = 1..n
  BY HeadersIn
<1>2. {i \in DOMAIN m.headers : m.headers[i][1] = name} = at
  BY <1>1 DEF NameOf
<1>3. {i \in DOMAIN TakenHeaders(m) : TakenHeaders(m)[i][1] = name} = at
  BY TakenIs
<1>4. at = {} => GetHeader(m.headers, name) = <<>> /\ GetHeader(TakenHeaders(m), name) = <<>>
  BY <1>2, <1>3 DEF GetHeader
<1>5. at # {} => GetHeader(m.headers, name) = m.headers[last][2]
  BY <1>2, Zenon DEF GetHeader
<1>6. at # {} => GetHeader(TakenHeaders(m), name) = TakenHeaders(m)[last][2]
  BY <1>3, Zenon DEF GetHeader
<1>7. at # {} => last \in at
  BY <1>1, LastIndex
<1> HIDE DEF last
<1>8. CASE at # {}
  <2>1. last \in 1..n /\ NameOf(m, last) = name
    BY <1>7, <1>8
  <2>2. GetHeader(m.headers, name) = ValueOf(m, last)
    BY <1>5, <1>8 DEF ValueOf
  <2>3. TakenHeaders(m)[last] = <<NameOf(m, last), Taken(ValueOf(m, last))>>
    BY <2>1, TakenIs
  <2>4. GetHeader(TakenHeaders(m), name) = Taken(ValueOf(m, last))
    BY <1>6, <1>8, <2>3
  <2>5. CASE ValueOf(m, last) = <<>>
    BY <2>1, <2>2, <2>5
  <2>6. CASE ValueOf(m, last) # <<>>
    BY <2>1, <2>2, <2>4, <2>6 DEF Taken
  <2> QED
    BY <2>5, <2>6
<1> QED
  BY <1>4, <1>8

(* The length of the body is what the parser reads. *)
LEMMA TakenLength ==
    ASSUME NEW m, WellFormed(m), m.crlf => CR \in Byte
    PROVE  Number(GetHeader(TakenHeaders(m), <<76>>)) = Len(m.body)
<1>1. Number(GetHeader(m.headers, <<76>>)) = Len(m.body)
  BY DEF WellFormed
<1>2. \A i \in 1..Len(m.headers) : ~(NameOf(m, i) = <<76>> /\ ValueOf(m, i) = <<>>)
  <2>1. \A i \in DOMAIN m.headers : m.headers[i][2] = <<>> => m.headers[i][1] # <<76>>
    BY DEF WellFormed
  <2> QED
    BY <2>1, HeadersIn DEF NameOf, ValueOf
<1>3. GetHeader(TakenHeaders(m), <<76>>) = GetHeader(m.headers, <<76>>)
  BY <1>2, TakenHeader
<1> QED
  BY <1>1, <1>3

(* A field that is set has the value, and the others keep theirs. *)
LEMMA SetState ==
    ASSUME NEW p \in Parsers, NEW v \in States
    PROVE  LET q == With(p, "state", v) IN
           /\ q \in Parsers /\ q.state = v
           /\ q.path = p.path /\ q.query = p.query /\ q.field = p.field /\ q.value = p.value /\ q.headers = p.headers
           /\ q.length = p.length /\ q.body = p.body /\ q.complete = p.complete /\ q.used = p.used
<1> DEFINE q == With(p, "state", v)
<1>1. q \in Parsers
  BY WithType
<1>2. q.state = v
  BY DEF With, Parsers
<1>3. q.path = p.path /\ q.query = p.query /\ q.field = p.field /\ q.value = p.value /\ q.headers = p.headers
      /\ q.length = p.length /\ q.body = p.body /\ q.complete = p.complete /\ q.used = p.used
  BY DEF With, Parsers
<1> QED
  BY <1>1, <1>2, <1>3

(* The path, *)
LEMMA SetPath ==
    ASSUME NEW p \in Parsers, NEW v \in Seq(Byte)
    PROVE  LET q == With(p, "path", v) IN
           /\ q \in Parsers /\ q.path = v
           /\ q.state = p.state /\ q.query = p.query /\ q.field = p.field /\ q.value = p.value /\ q.headers = p.headers
           /\ q.length = p.length /\ q.body = p.body /\ q.complete = p.complete /\ q.used = p.used
<1> DEFINE q == With(p, "path", v)
<1>1. q \in Parsers
  BY WithType
<1>2. q.path = v
  BY DEF With, Parsers
<1>3. q.state = p.state /\ q.query = p.query /\ q.field = p.field /\ q.value = p.value /\ q.headers = p.headers
      /\ q.length = p.length /\ q.body = p.body /\ q.complete = p.complete /\ q.used = p.used
  BY DEF With, Parsers
<1> QED
  BY <1>1, <1>2, <1>3

(* the query, *)
LEMMA SetQuery ==
    ASSUME NEW p \in Parsers, NEW v \in Seq(Byte)
    PROVE  LET q == With(p, "query", v) IN
           /\ q \in Parsers /\ q.query = v
           /\ q.state = p.state /\ q.path = p.path /\ q.field = p.field /\ q.value = p.value /\ q.headers = p.headers
           /\ q.length = p.length /\ q.body = p.body /\ q.complete = p.complete /\ q.used = p.used
<1> DEFINE q == With(p, "query", v)
<1>1. q \in Parsers
  BY WithType
<1>2. q.query = v
  BY DEF With, Parsers
<1>3. q.state = p.state /\ q.path = p.path /\ q.field = p.field /\ q.value = p.value /\ q.headers = p.headers
      /\ q.length = p.length /\ q.body = p.body /\ q.complete = p.complete /\ q.used = p.used
  BY DEF With, Parsers
<1> QED
  BY <1>1, <1>2, <1>3

(* the name of the header that is read, *)
LEMMA SetField ==
    ASSUME NEW p \in Parsers, NEW v \in Seq(Byte)
    PROVE  LET q == With(p, "field", v) IN
           /\ q \in Parsers /\ q.field = v
           /\ q.state = p.state /\ q.path = p.path /\ q.query = p.query /\ q.value = p.value /\ q.headers = p.headers
           /\ q.length = p.length /\ q.body = p.body /\ q.complete = p.complete /\ q.used = p.used
<1> DEFINE q == With(p, "field", v)
<1>1. q \in Parsers
  BY WithType
<1>2. q.field = v
  BY DEF With, Parsers
<1>3. q.state = p.state /\ q.path = p.path /\ q.query = p.query /\ q.value = p.value /\ q.headers = p.headers
      /\ q.length = p.length /\ q.body = p.body /\ q.complete = p.complete /\ q.used = p.used
  BY DEF With, Parsers
<1> QED
  BY <1>1, <1>2, <1>3

(* its value, *)
LEMMA SetValue ==
    ASSUME NEW p \in Parsers, NEW v \in Seq(Byte)
    PROVE  LET q == With(p, "value", v) IN
           /\ q \in Parsers /\ q.value = v
           /\ q.state = p.state /\ q.path = p.path /\ q.query = p.query /\ q.field = p.field /\ q.headers = p.headers
           /\ q.length = p.length /\ q.body = p.body /\ q.complete = p.complete /\ q.used = p.used
<1> DEFINE q == With(p, "value", v)
<1>1. q \in Parsers
  BY WithType
<1>2. q.value = v
  BY DEF With, Parsers
<1>3. q.state = p.state /\ q.path = p.path /\ q.query = p.query /\ q.field = p.field /\ q.headers = p.headers
      /\ q.length = p.length /\ q.body = p.body /\ q.complete = p.complete /\ q.used = p.used
  BY DEF With, Parsers
<1> QED
  BY <1>1, <1>2, <1>3

(* the headers, *)
LEMMA SetHeaders ==
    ASSUME NEW p \in Parsers, NEW v \in Seq(Seq(Byte) \X Seq(Byte))
    PROVE  LET q == With(p, "headers", v) IN
           /\ q \in Parsers /\ q.headers = v
           /\ q.state = p.state /\ q.path = p.path /\ q.query = p.query /\ q.field = p.field /\ q.value = p.value
           /\ q.length = p.length /\ q.body = p.body /\ q.complete = p.complete /\ q.used = p.used
<1> DEFINE q == With(p, "headers", v)
<1>1. q \in Parsers
  BY WithType
<1>2. q.headers = v
  BY DEF With, Parsers
<1>3. q.state = p.state /\ q.path = p.path /\ q.query = p.query /\ q.field = p.field /\ q.value = p.value
      /\ q.length = p.length /\ q.body = p.body /\ q.complete = p.complete /\ q.used = p.used
  BY DEF With, Parsers
<1> QED
  BY <1>1, <1>2, <1>3

(* the length of the body, *)
LEMMA SetLength ==
    ASSUME NEW p \in Parsers, NEW v \in Int
    PROVE  LET q == With(p, "length", v) IN
           /\ q \in Parsers /\ q.length = v
           /\ q.state = p.state /\ q.path = p.path /\ q.query = p.query /\ q.field = p.field /\ q.value = p.value
           /\ q.headers = p.headers /\ q.body = p.body /\ q.complete = p.complete /\ q.used = p.used
<1> DEFINE q == With(p, "length", v)
<1>1. q \in Parsers
  BY WithType
<1>2. q.length = v
  BY DEF With, Parsers
<1>3. q.state = p.state /\ q.path = p.path /\ q.query = p.query /\ q.field = p.field /\ q.value = p.value
      /\ q.headers = p.headers /\ q.body = p.body /\ q.complete = p.complete /\ q.used = p.used
  BY DEF With, Parsers
<1> QED
  BY <1>1, <1>2, <1>3

(* the body, *)
LEMMA SetBody ==
    ASSUME NEW p \in Parsers, NEW v \in Seq(Byte)
    PROVE  LET q == With(p, "body", v) IN
           /\ q \in Parsers /\ q.body = v
           /\ q.state = p.state /\ q.path = p.path /\ q.query = p.query /\ q.field = p.field /\ q.value = p.value
           /\ q.headers = p.headers /\ q.length = p.length /\ q.complete = p.complete /\ q.used = p.used
<1> DEFINE q == With(p, "body", v)
<1>1. q \in Parsers
  BY WithType
<1>2. q.body = v
  BY DEF With, Parsers
<1>3. q.state = p.state /\ q.path = p.path /\ q.query = p.query /\ q.field = p.field /\ q.value = p.value
      /\ q.headers = p.headers /\ q.length = p.length /\ q.complete = p.complete /\ q.used = p.used
  BY DEF With, Parsers
<1> QED
  BY <1>1, <1>2, <1>3

(* the end of the request, *)
LEMMA SetComplete ==
    ASSUME NEW p \in Parsers, NEW v \in BOOLEAN
    PROVE  LET q == With(p, "complete", v) IN
           /\ q \in Parsers /\ q.complete = v
           /\ q.state = p.state /\ q.path = p.path /\ q.query = p.query /\ q.field = p.field /\ q.value = p.value
           /\ q.headers = p.headers /\ q.length = p.length /\ q.body = p.body /\ q.used = p.used
<1> DEFINE q == With(p, "complete", v)
<1>1. q \in Parsers
  BY WithType
<1>2. q.complete = v
  BY DEF With, Parsers
<1>3. q.state = p.state /\ q.path = p.path /\ q.query = p.query /\ q.field = p.field /\ q.value = p.value
      /\ q.headers = p.headers /\ q.length = p.length /\ q.body = p.body /\ q.used = p.used
  BY DEF With, Parsers
<1> QED
  BY <1>1, <1>2, <1>3

(* and the number of bytes taken. *)
LEMMA SetUsed ==
    ASSUME NEW p \in Parsers, NEW v \in Nat
    PROVE  LET q == With(p, "used", v) IN
           /\ q \in Parsers /\ q.used = v
           /\ q.state = p.state /\ q.path = p.path /\ q.query = p.query /\ q.field = p.field /\ q.value = p.value
           /\ q.headers = p.headers /\ q.length = p.length /\ q.body = p.body /\ q.complete = p.complete
<1> DEFINE q == With(p, "used", v)
<1>1. q \in Parsers
  BY WithType
<1>2. q.used = v
  BY DEF With, Parsers
<1>3. q.state = p.state /\ q.path = p.path /\ q.query = p.query /\ q.field = p.field /\ q.value = p.value
      /\ q.headers = p.headers /\ q.length = p.length /\ q.body = p.body /\ q.complete = p.complete
  BY DEF With, Parsers
<1> QED
  BY <1>1, <1>2, <1>3

-------------------------------------------------------------------------------
(* Where the parser is in a request *)

(* A request that has been read up to header j. *)
Query(m) == IF m.query THEN <<113>> ELSE <<>>
Reads(p, m, j) ==
    /\ p \in Parsers /\ p.complete = FALSE /\ p.path = <<47>> /\ p.query = Query(m)
    /\ p.headers = Prefix(TakenHeaders(m), j) /\ p.body = <<>>

(* The parser behind the first k bytes of m: in the target, ... *)
AtTarget(p, m, k) ==
    /\ p \in Parsers /\ p.complete = FALSE /\ p.headers = <<>> /\ p.body = <<>>
    /\ \/ k = 0 /\ p.state = "kStart" /\ p.path = <<>> /\ p.query = <<>>
       \/ k = 1 /\ p.state = "kMethod" /\ p.path = <<>> /\ p.query = <<>>
       \/ k = 2 /\ p.state = "kBeforePath" /\ p.path = <<>> /\ p.query = <<>>
       \/ k = 3 /\ p.state = "kPath" /\ p.path = <<47>> /\ p.query = <<>>
       \/ m.query /\ k = 4 /\ p.state = "kQuery" /\ p.path = <<47>> /\ p.query = <<>>
       \/ m.query /\ k = 5 /\ p.state = "kQuery" /\ p.path = <<47>> /\ p.query = <<113>>

(* ... in the version, ... *)
AtVersion(p, m, k) ==
    /\ Reads(p, m, 0)
    /\ \/ k = TargetEnd(m) + 1 /\ p.state = "kVersionH"
       \/ k = TargetEnd(m) + 2 /\ p.state = "kVersionT1"
       \/ k = TargetEnd(m) + 3 /\ p.state = "kVersionSlash"
       \/ k \in {TargetEnd(m) + 4, TargetEnd(m) + 5} /\ p.state = "kVersionMajor"
       \/ k \in {TargetEnd(m) + 6, TargetEnd(m) + 7} /\ p.state = "kVersionMinor"
       \/ m.crlf /\ k = TargetEnd(m) + 8 /\ p.state = "kAfterVersion"

(* ... before, in and behind the name of header i, in its value, which may be empty, behind it, ... *)
AtStart(p, m, k, i) == Reads(p, m, i - 1) /\ k = NameAt(m, i) /\ p.state = "kHeaderLF"
AtName(p, m, k, i) ==
    /\ Reads(p, m, i - 1) /\ p.state = "kHeaderField"
    /\ \E x \in 1..Len(NameOf(m, i)) : k = NameAt(m, i) + x /\ p.field = Prefix(NameOf(m, i), x)
AtColon(p, m, k, i) ==
    /\ Reads(p, m, i - 1) /\ p.state = "kHeaderBeforeValue"
    /\ p.field = NameOf(m, i) /\ k \in {ValueAt(m, i) - 1, ValueAt(m, i)}
AtValue(p, m, k, i) ==
    /\ Reads(p, m, i - 1) /\ p.state = "kHeaderValue" /\ p.field = NameOf(m, i)
    /\ \E x \in 1..Len(ValueOf(m, i)) : k = ValueAt(m, i) + x /\ p.value = Prefix(ValueOf(m, i), x)
AtNothing(p, m, k, i) ==
    /\ Reads(p, m, i - 1) /\ p.state = "kHeaderValue" /\ p.field = NameOf(m, i)
    /\ ValueOf(m, i) = <<>> /\ k = EndAt(m, i) + 1 /\ p.value = <<CR>>
AtEnd(p, m, k, i) ==
    Reads(p, m, i) /\ p.state = "kHeaderValueLF" /\ m.crlf /\ k = EndAt(m, i) + 1

(* ... in the line that ends the headers, and in the body. *)
AtLast(p, m, k) ==
    Reads(p, m, Len(m.headers)) /\ p.state = "kHeaderFieldStart" /\ m.crlf /\ k = LastLine(m) + 1
AtBody(p, m, k) ==
    /\ p \in Parsers /\ p.complete = FALSE /\ p.path = <<47>> /\ p.query = Query(m)
    /\ p.headers = TakenHeaders(m) /\ p.state = "kBody" /\ p.length = Len(m.body)
    /\ \E x \in 0..Len(m.body) : x < Len(m.body) /\ k = BodyAt(m) + x /\ p.body = Prefix(m.body, x)

AtHeader(p, m, k, i) ==
    \/ AtName(p, m, k, i) \/ AtColon(p, m, k, i) \/ AtValue(p, m, k, i)
    \/ AtNothing(p, m, k, i) \/ AtEnd(p, m, k, i)
At(p, m, k) ==
    \/ AtTarget(p, m, k) \/ AtVersion(p, m, k) \/ AtLast(p, m, k) \/ AtBody(p, m, k)
    \/ \E i \in 1..(Len(m.headers) + 1) : AtStart(p, m, k, i)
    \/ \E i \in 1..Len(m.headers) : AtHeader(p, m, k, i)

(* The parser has all of m. *)
Parsed(p, m) ==
    /\ p \in Parsers /\ p.complete = TRUE /\ p.path = <<47>> /\ p.query = Query(m)
    /\ p.headers = TakenHeaders(m) /\ p.body = m.body
Goes(q, m, k) ==
    \/ k = Len(Bytes(m)) /\ Parsed(q, m)
    \/ q \in Parsers /\ q.complete = FALSE /\ k < Len(Bytes(m)) /\ At(q, m, k)

(* A byte that has its place. *)
LEMMA PlacedByte ==
    ASSUME NEW c, NEW at, NEW u, Placed(c, at, u)
    PROVE  /\ at \in Nat /\ Len(c) \in Nat /\ Len(u) \in Nat /\ at + Len(u) <= Len(c)
           /\ \A x \in 1..Len(u) : c[at + x] = u[x]
<1>1. c \in Seq(Nat) /\ u \in Seq(Nat) /\ at \in Nat /\ at + Len(u) <= Len(c)
      /\ \A x \in 1..Len(u) : c[at + x] = u[x]
  BY DEF Placed
<1> QED
  BY <1>1, LenProperties

(* The bytes at the end of a line. *)
LEMMA LineBytes ==
    ASSUME NEW m, NEW c, NEW at, Placed(c, at, Line(m))
    PROVE  /\ m.crlf => c[at + 1] = 13 /\ c[at + 2] = 10 /\ Len(Line(m)) = 2
           /\ ~m.crlf => c[at + 1] = 10 /\ Len(Line(m)) = 1
           /\ at \in Nat /\ Len(c) \in Nat /\ at + Len(Line(m)) <= Len(c)
<1>1. at \in Nat /\ Len(c) \in Nat /\ at + Len(Line(m)) <= Len(c) /\ \A x \in 1..Len(Line(m)) : c[at + x] = Line(m)[x]
  BY PlacedByte
<1>2. CASE m.crlf
  <2>1. Len(Line(m)) = 2 /\ Line(m)[1] = 13 /\ Line(m)[2] = 10
    BY <1>2, LineIs
  <2>2. 1 \in 1..Len(Line(m)) /\ 2 \in 1..Len(Line(m))
    BY <2>1
  <2> QED
    BY <1>1, <1>2, <2>1, <2>2
<1>3. CASE ~m.crlf
  <2>1. Len(Line(m)) = 1 /\ Line(m)[1] = 10
    BY <1>3, LineIs
  <2>2. 1 \in 1..Len(Line(m))
    BY <2>1
  <2> QED
    BY <1>1, <1>3, <2>1, <2>2
<1> QED
  BY <1>2, <1>3

(* The first bytes of a request. *)
LEMMA FirstBytes ==
    ASSUME NEW m, WellFormed(m)
    PROVE  LET b == Bytes(m)
               e == TargetEnd(m)
           IN  /\ b[1] = 71 /\ b[2] = 32 /\ b[3] = 47 /\ (m.query => b[4] = 63 /\ b[5] = 113 /\ e = 5)
               /\ (~m.query => e = 3) /\ e \in {3, 5}
               /\ b[e + 1] = 32 /\ b[e + 2] = 72 /\ b[e + 3] = 84 /\ b[e + 4] = 47 /\ b[e + 5] = 49
               /\ b[e + 6] = 46 /\ b[e + 7] = 49
               /\ m.crlf => b[e + 8] = 13 /\ b[e + 9] = 10 /\ HeadsAt(m) = e + 9
               /\ ~m.crlf => b[e + 8] = 10 /\ HeadsAt(m) = e + 8
               /\ HeadsAt(m) \in Nat /\ Len(b) \in Nat /\ HeadsAt(m) < Len(b)
<1> DEFINE b == Bytes(m)
           e == TargetEnd(m)
<1>1. e \in {3, 5} /\ (m.query => e = 5) /\ (~m.query => e = 3)
  BY DEF TargetEnd
<1>2. Placed(b, 0, <<71, 32, 47>>) /\ (m.query => Placed(b, 3, <<63, 113>>))
      /\ Placed(b, e, <<32, 72, 84, 47, 49, 46, 49>>) /\ Placed(b, e + 7, Line(m))
      /\ HeadsAt(m) \in Nat /\ Placed(b, LastLine(m), Line(m)) /\ b \in Seq(Nat)
      /\ Placed(b, HeadsAt(m), HeaderBytes(m))
  BY Layout
<1>3. HeadsAt(m) = e + 7 + Len(Line(m))
  BY DEF HeadsAt
<1> HIDE DEF b, e
<1>4. b[1] = 71 /\ b[2] = 32 /\ b[3] = 47
  <2> DEFINE u == <<71, 32, 47>>
  <2>1. Placed(b, 0, u)
    BY <1>2
  <2>2. Len(u) = 3 /\ u[1] = 71 /\ u[2] = 32 /\ u[3] = 47
    OBVIOUS
  <2> HIDE DEF u
  <2>3. \A x \in 1..Len(u) : b[0 + x] = u[x]
    BY <2>1, PlacedByte
  <2> QED
    BY <2>2, <2>3
<1>5. m.query => b[4] = 63 /\ b[5] = 113
  <2> DEFINE u == <<63, 113>>
  <2>1. m.query => Placed(b, 3, u)
    BY <1>2
  <2>2. Len(u) = 2 /\ u[1] = 63 /\ u[2] = 113
    OBVIOUS
  <2> HIDE DEF u
  <2>3. m.query => \A x \in 1..Len(u) : b[3 + x] = u[x]
    BY <2>1, PlacedByte
  <2> QED
    BY <2>2, <2>3
<1>6. b[e + 1] = 32 /\ b[e + 2] = 72 /\ b[e + 3] = 84 /\ b[e + 4] = 47 /\ b[e + 5] = 49
      /\ b[e + 6] = 46 /\ b[e + 7] = 49
  <2> DEFINE u == <<32, 72, 84, 47, 49, 46, 49>>
  <2>1. Placed(b, e, u)
    BY <1>2
  <2>2. Len(u) = 7 /\ u[1] = 32 /\ u[2] = 72 /\ u[3] = 84 /\ u[4] = 47 /\ u[5] = 49 /\ u[6] = 46 /\ u[7] = 49
    OBVIOUS
  <2> HIDE DEF u
  <2>3. \A x \in 1..Len(u) : b[e + x] = u[x]
    BY <2>1, PlacedByte
  <2> QED
    BY <2>2, <2>3
<1>7. /\ m.crlf => b[e + 8] = 13 /\ b[e + 9] = 10 /\ HeadsAt(m) = e + 9
      /\ ~m.crlf => b[e + 8] = 10 /\ HeadsAt(m) = e + 8
  <2>1. /\ m.crlf => b[e + 7 + 1] = 13 /\ b[e + 7 + 2] = 10 /\ Len(Line(m)) = 2
        /\ ~m.crlf => b[e + 7 + 1] = 10 /\ Len(Line(m)) = 1
    BY <1>2, LineBytes
  <2>2. e + 7 + 1 = e + 8 /\ e + 7 + 2 = e + 9
    BY <1>1
  <2> QED
    BY <1>3, <2>1, <2>2
<1>8. Len(b) \in Nat /\ HeadsAt(m) < Len(b)
  <2>1. Len(Line(m)) \in {1, 2}
    BY LineIs
  <2>2. LastLine(m) + Len(Line(m)) <= Len(b) /\ LastLine(m) \in Nat /\ Len(b) \in Nat
    BY <1>2, PlacedByte
  <2>3. LastLine(m) = HeadsAt(m) + Mark(m, Len(m.headers)) /\ Mark(m, Len(m.headers)) \in Nat
    <3>1. Len(m.headers) \in 0..Len(m.headers)
      BY HeadersIn
    <3> QED
      BY <3>1, LineStays DEF LastLine
  <2>4. HeadsAt(m) \in Nat
    BY <1>2
  <2>5. \A l \in {1, 2}, x \in Nat, h \in Nat, k \in Nat, y \in Nat : x + l <= y /\ x = h + k => h < y
    OBVIOUS
  <2> QED
    BY <2>1, <2>2, <2>3, <2>4, <2>5
<1> QED
  BY <1>1, <1>2, <1>4, <1>5, <1>6, <1>7, <1>8 DEF b, e

(* The next byte. *)
LEMMA NextByte ==
    ASSUME NEW m \in Messages, NEW k \in Nat, k < Len(Bytes(m))
    PROVE  /\ Bytes(m)[k + 1] \in Byte /\ k + 1 \in Nat /\ k + 1 <= Len(Bytes(m)) /\ Len(Bytes(m)) \in Nat
<1>1. Bytes(m) \in Seq(Byte)
  BY ScriptsAssumption
<1>2. Len(Bytes(m)) \in Nat
  BY <1>1, LenProperties
<1>3. k + 1 \in 1..Len(Bytes(m))
  BY <1>2
<1> QED
  BY <1>1, <1>2, <1>3, ElementOfSeq

(* The parser goes on within the request. *)
LEMMA GoesOn ==
    ASSUME NEW m, NEW q, NEW k, q \in Parsers, q.complete = FALSE, k < Len(Bytes(m)), At(q, m, k)
    PROVE  Goes(q, m, k)
BY DEF Goes

(* From the first byte to the space behind the target, *)
LEMMA TargetStep ==
    ASSUME NEW m \in Messages, WellFormed(m), NEW p, NEW k, AtTarget(p, m, k)
    PROVE  Goes(ParseChar(p, Bytes(m)[k + 1]), m, k + 1)
<1> DEFINE b == Bytes(m)
           e == TargetEnd(m)
           c == b[k + 1]
           q == ParseChar(p, c)
<1>1. p \in Parsers /\ p.complete = FALSE /\ p.headers = <<>> /\ p.body = <<>>
  BY DEF AtTarget
<1>2. b[1] = 71 /\ b[2] = 32 /\ b[3] = 47 /\ (m.query => b[4] = 63 /\ b[5] = 113 /\ e = 5)
      /\ (~m.query => e = 3) /\ e \in {3, 5} /\ b[e + 1] = 32 /\ Len(b) \in Nat /\ e + 8 < Len(b)
  <2>1. HeadsAt(m) \in {e + 8, e + 9} /\ e \in {3, 5} /\ HeadsAt(m) < Len(b) /\ Len(b) \in Nat
    BY FirstBytes
  <2>2. e + 8 < Len(b)
    BY <2>1
  <2> QED
    BY <2>1, <2>2, FirstBytes
<1>3. k \in {0, 1, 2, 3, 4, 5} /\ (k \in {4, 5} => m.query)
  BY DEF AtTarget
<1>4. k \in Nat /\ k < Len(b) /\ k + 1 < Len(b)
  BY <1>2, <1>3
<1>5. c \in Byte
  BY <1>4, NextByte
<1>6. 71 \notin Space
  BY DEF Space
<1>7. Reads(q, m, 0) <=> q \in Parsers /\ q.complete = FALSE /\ q.path = <<47>> /\ q.query = Query(m)
                         /\ q.headers = <<>> /\ q.body = <<>>
  <2>1. Prefix(TakenHeaders(m), 0) = <<>>
    <3>1. \A g : [i \in 1..0 |-> g[i]] = <<>>
      OBVIOUS
    <3> QED
      BY <3>1 DEF Prefix
  <2> QED
    BY <2>1 DEF Reads
<1> HIDE DEF b, c, q
<1>8. q \in Parsers /\ q.complete = FALSE /\ (AtTarget(q, m, k + 1) \/ AtVersion(q, m, k + 1))
  <2>1. CASE k = 0
    <3>1. c = 71 /\ p.state = "kStart" /\ p.path = <<>> /\ p.query = <<>>
      BY <1>2, <2>1 DEF AtTarget, c
    <3>2. q = With(p, "state", "kMethod")
      BY <1>1, <1>5, <1>6, <3>1, ParseLine DEF q
    <3>3. "kMethod" \in States
      BY DEF States
    <3> QED
      BY <1>1, <2>1, <3>1, <3>2, <3>3, SetState DEF AtTarget
  <2>2. CASE k = 1
    <3>1. c = 32 /\ p.state = "kMethod" /\ p.path = <<>> /\ p.query = <<>>
      BY <1>2, <2>2 DEF AtTarget, c
    <3>2. q = With(p, "state", "kBeforePath")
      BY <1>1, <1>5, <3>1, ParseLine DEF q
    <3>3. "kBeforePath" \in States
      BY DEF States
    <3> QED
      BY <1>1, <2>2, <3>1, <3>2, <3>3, SetState DEF AtTarget
  <2>3. CASE k = 2
    <3>1. c = 47 /\ p.state = "kBeforePath" /\ p.path = <<>> /\ p.query = <<>>
      BY <1>2, <2>3 DEF AtTarget, c
    <3> DEFINE r == With(p, "path", <<c>>)
    <3>2. q = With(r, "state", "kPath")
      BY <1>1, <1>5, <3>1, ParseTarget DEF q
    <3>3. "kPath" \in States /\ <<c>> \in Seq(Byte) /\ <<c>> = <<47>>
      BY <1>5, <3>1 DEF States
    <3>4. r \in Parsers /\ r.path = <<c>> /\ r.query = p.query /\ r.headers = p.headers /\ r.body = p.body
          /\ r.complete = p.complete
      BY <1>1, <3>3, SetPath
    <3> HIDE DEF r
    <3> QED
      BY <1>1, <2>3, <3>1, <3>2, <3>3, <3>4, SetState DEF AtTarget
  <2>4. CASE k = 3 /\ m.query
    <3>1. c = 63 /\ p.state = "kPath" /\ p.path = <<47>> /\ p.query = <<>>
      BY <1>2, <2>4 DEF AtTarget, c
    <3>2. q = With(p, "state", "kQuery")
      BY <1>1, <1>5, <3>1, ParseTarget DEF q
    <3>3. "kQuery" \in States
      BY DEF States
    <3> QED
      BY <1>1, <2>4, <3>1, <3>2, <3>3, SetState DEF AtTarget
  <2>5. CASE k = 4
    <3>1. c = 113 /\ p.state = "kQuery" /\ p.path = <<47>> /\ p.query = <<>> /\ m.query
      BY <1>2, <1>3, <2>5 DEF AtTarget, c
    <3>2. c # 32 /\ p.state = "kQuery"
      BY <3>1
    <3>3. q = With(p, "query", Append(p.query, c))
      BY <1>1, <1>5, <3>2, ParseTarget DEF q
    <3>4. Append(p.query, c) = <<113>> /\ <<113>> \in Seq(Byte)
      BY <1>5, <3>1
    <3>5. q = With(p, "query", <<113>>)
      BY <3>3, <3>4
    <3>6. q \in Parsers /\ q.query = <<113>> /\ q.path = p.path /\ q.headers = p.headers /\ q.body = p.body
          /\ q.complete = p.complete /\ q.state = p.state
      BY <1>1, <3>4, <3>5, SetQuery
    <3> QED
      BY <1>1, <2>5, <3>1, <3>6 DEF AtTarget
  <2>6. CASE (k = 3 /\ ~m.query) \/ k = 5
    <3>1. k = e /\ c = 32 /\ p.state \in {"kPath", "kQuery"} /\ p.path = <<47>> /\ p.query = Query(m)
      BY <1>2, <1>3, <2>6 DEF AtTarget, c, Query
    <3>2. q = With(p, "state", "kVersionH")
      BY <1>1, <1>5, <3>1, ParseTarget DEF q
    <3>3. "kVersionH" \in States
      BY DEF States
    <3>4. q \in Parsers /\ q.complete = FALSE /\ q.path = <<47>> /\ q.query = Query(m)
                         /\ q.headers = <<>> /\ q.body = <<>> /\ q.state = "kVersionH"
      BY <1>1, <3>1, <3>2, <3>3, SetState
    <3> QED
      BY <1>7, <3>1, <3>4 DEF AtVersion, e
  <2> QED
    BY <1>3, <2>1, <2>2, <2>3, <2>4, <2>5, <2>6
<1> QED
  BY <1>4, <1>8, GoesOn DEF At, q, c, b

(* What is read stays read while the state, the name or the value changes. *)
LEMMA ReadsIn == ASSUME NEW m, NEW p, NEW j, Reads(p, m, j) PROVE p \in Parsers /\ p.complete = FALSE
BY DEF Reads

(* A request is read up to the same header in another state, *)
LEMMA ReadsState ==
    ASSUME NEW m, NEW p, NEW j, Reads(p, m, j), NEW s \in States
    PROVE  /\ Reads(With(p, "state", s), m, j) /\ With(p, "state", s).state = s
           /\ With(p, "state", s).field = p.field /\ With(p, "state", s).value = p.value
BY ReadsIn, SetState DEF Reads

(* with another name, *)
LEMMA ReadsField ==
    ASSUME NEW m, NEW p, NEW j, Reads(p, m, j), NEW s \in Seq(Byte)
    PROVE  /\ Reads(With(p, "field", s), m, j) /\ With(p, "field", s).state = p.state
           /\ With(p, "field", s).field = s
BY ReadsIn, SetField DEF Reads

(* and with another value to come. *)
LEMMA ReadsValue ==
    ASSUME NEW m, NEW p, NEW j, Reads(p, m, j), NEW s \in Seq(Byte)
    PROVE  /\ Reads(With(p, "value", s), m, j) /\ With(p, "value", s).state = p.state
           /\ With(p, "value", s).field = p.field /\ With(p, "value", s).value = s
BY ReadsIn, SetValue DEF Reads

(* from there to the first header, *)
LEMMA VersionStep ==
    ASSUME NEW m \in Messages, WellFormed(m), NEW p, NEW k, AtVersion(p, m, k)
    PROVE  Goes(ParseChar(p, Bytes(m)[k + 1]), m, k + 1)
<1> DEFINE b == Bytes(m)
           e == TargetEnd(m)
           c == b[k + 1]
           q == ParseChar(p, c)
<1>1. Reads(p, m, 0) /\ p \in Parsers /\ p.complete = FALSE
  BY ReadsIn DEF AtVersion
<1>2. b[e + 2] = 72 /\ b[e + 3] = 84 /\ b[e + 4] = 47 /\ b[e + 5] = 49
      /\ b[e + 6] = 46 /\ b[e + 7] = 49
  BY FirstBytes
<1>3. /\ m.crlf => b[e + 8] = 13 /\ b[e + 9] = 10 /\ HeadsAt(m) = e + 9
      /\ ~m.crlf => b[e + 8] = 10 /\ HeadsAt(m) = e + 8
      /\ HeadsAt(m) < Len(b) /\ Len(b) \in Nat /\ e \in Nat
  BY FirstBytes
<1>4. \/ k = e + 1 /\ p.state = "kVersionH"
      \/ k = e + 2 /\ p.state = "kVersionT1"
      \/ k = e + 3 /\ p.state = "kVersionSlash"
      \/ k = e + 4 /\ p.state = "kVersionMajor"
      \/ k = e + 5 /\ p.state = "kVersionMajor"
      \/ k = e + 6 /\ p.state = "kVersionMinor"
      \/ k = e + 7 /\ p.state = "kVersionMinor"
      \/ m.crlf /\ k = e + 8 /\ p.state = "kAfterVersion"
  BY DEF AtVersion
<1> HIDE DEF b, e
<1>5. k \in Nat /\ k + 1 < Len(b) /\ k < Len(b)
  <2>1. HeadsAt(m) \in {e + 8, e + 9} /\ (m.crlf => HeadsAt(m) = e + 9)
    BY <1>3
  <2>2. k \in Nat /\ k + 1 <= HeadsAt(m)
    BY <1>3, <1>4, <2>1
  <2> QED
    BY <1>3, <2>1, <2>2
<1>6. c \in Byte
  BY <1>5, NextByte DEF b
<1> HIDE DEF c, q
<1>7. "kVersionT1" \in States /\ "kVersionSlash" \in States /\ "kVersionMajor" \in States
      /\ "kVersionMinor" \in States /\ "kAfterVersion" \in States /\ "kHeaderLF" \in States
  BY DEF States
<1>8. NameAt(m, 1) = HeadsAt(m) /\ Len(m.headers) \in Nat /\ 1 \in 1..(Len(m.headers) + 1) /\ 1 - 1 = 0
  <2>1. Mark(m, 0) = 0 /\ Len(m.headers) \in Nat
    <3>1. 0 \in 0..Len(m.headers)
      BY HeadersIn
    <3> QED
      BY <3>1, LineStays, HeadersIn
  <2>2. HeadsAt(m) \in Nat /\ 1 - 1 = 0
    BY <1>3
  <2> QED
    BY <2>1, <2>2 DEF NameAt
<1>9. Reads(q, m, 0) /\ (AtVersion(q, m, k + 1) \/ AtStart(q, m, k + 1, 1))
  <2>1. CASE k = e + 1 /\ p.state = "kVersionH"
    <3>1. c = 72 /\ k + 1 = e + 2
      BY <1>2, <1>3, <2>1 DEF c
    <3>2. q = With(p, "state", "kVersionT1")
      BY <1>1, <1>6, <2>1, <3>1, ParseLine DEF q
    <3> QED
      BY <1>1, <1>7, <3>1, <3>2, ReadsState DEF AtVersion, e
  <2>2. CASE k = e + 2 /\ p.state = "kVersionT1"
    <3>1. c = 84 /\ k + 1 = e + 3
      BY <1>2, <1>3, <2>2 DEF c
    <3>2. q = With(p, "state", "kVersionSlash")
      BY <1>1, <1>6, <2>2, <3>1, ParseLine DEF q
    <3> QED
      BY <1>1, <1>7, <3>1, <3>2, ReadsState DEF AtVersion, e
  <2>3. CASE k = e + 3 /\ p.state = "kVersionSlash"
    <3>1. c = 47 /\ k + 1 = e + 4
      BY <1>2, <1>3, <2>3 DEF c
    <3>2. q = With(p, "state", "kVersionMajor")
      BY <1>1, <1>6, <2>3, <3>1, ParseLine DEF q
    <3> QED
      BY <1>1, <1>7, <3>1, <3>2, ReadsState DEF AtVersion, e
  <2>4. CASE k = e + 4 /\ p.state = "kVersionMajor"
    <3>1. c # 46 /\ k + 1 = e + 5
      BY <1>2, <1>3, <2>4 DEF c
    <3>2. q = p
      BY <1>1, <1>6, <2>4, <3>1, ParseLine DEF q
    <3> QED
      BY <1>1, <2>4, <3>1, <3>2 DEF AtVersion, e
  <2>5. CASE k = e + 5 /\ p.state = "kVersionMajor"
    <3>1. c = 46 /\ k + 1 = e + 6
      BY <1>2, <1>3, <2>5 DEF c
    <3>2. q = With(p, "state", "kVersionMinor")
      BY <1>1, <1>6, <2>5, <3>1, ParseLine DEF q
    <3> QED
      BY <1>1, <1>7, <3>1, <3>2, ReadsState DEF AtVersion, e
  <2>6. CASE k = e + 6 /\ p.state = "kVersionMinor"
    <3>1. c \notin {CR, LF} /\ k + 1 = e + 7
      BY <1>2, <1>3, <2>6 DEF c, CR, LF
    <3>2. q = p
      BY <1>1, <1>6, <2>6, <3>1, ParseLine DEF q
    <3> QED
      BY <1>1, <2>6, <3>1, <3>2 DEF AtVersion, e
  <2>7. CASE k = e + 7 /\ p.state = "kVersionMinor" /\ m.crlf
    <3>1. c = CR /\ k + 1 = e + 8
      BY <1>2, <1>3, <2>7 DEF c, CR
    <3>2. q = With(p, "state", "kAfterVersion")
      BY <1>1, <1>6, <2>7, <3>1, ParseLine DEF q
    <3>3. Reads(q, m, 0) /\ q.state = "kAfterVersion"
      BY <1>1, <1>7, <3>2, ReadsState
    <3> QED
      BY <2>7, <3>1, <3>3 DEF AtVersion, e
  <2>8. CASE \/ k = e + 7 /\ p.state = "kVersionMinor" /\ ~m.crlf
             \/ m.crlf /\ k = e + 8 /\ p.state = "kAfterVersion"
    <3>1. c = LF /\ k + 1 = HeadsAt(m)
      BY <1>2, <1>3, <2>8 DEF c, LF
    <3>2. q = With(p, "state", "kHeaderLF")
      BY <1>1, <1>6, <2>8, <3>1, ParseLine DEF q
    <3>3. Reads(q, m, 0) /\ q.state = "kHeaderLF"
      BY <1>1, <1>7, <3>2, ReadsState
    <3> QED
      BY <1>8, <3>1, <3>3 DEF AtStart
  <2> QED
    BY <1>4, <2>1, <2>2, <2>3, <2>4, <2>5, <2>6, <2>7, <2>8
<1>10. q \in Parsers /\ q.complete = FALSE
  BY <1>9, ReadsIn
<1>11. At(q, m, k + 1)
  BY <1>8, <1>9 DEF At
<1> QED
  BY <1>5, <1>10, <1>11, GoesOn DEF q, c, b

(* A header as clients write it. *)
LEMMA HeaderClean ==
    ASSUME NEW m, WellFormed(m), NEW i \in 1..Len(m.headers)
    PROVE  /\ NameOf(m, i) \in Seq(Byte) /\ ValueOf(m, i) \in Seq(Byte)
           /\ Len(NameOf(m, i)) \in Nat /\ 1 <= Len(NameOf(m, i)) /\ Len(ValueOf(m, i)) \in Nat
           /\ \A x \in 1..Len(NameOf(m, i)) :
                  NameOf(m, i)[x] \in Byte /\ NameOf(m, i)[x] \notin {CR, LF} /\ NameOf(m, i)[x] # 58
           /\ ValueOf(m, i) # <<>> => 1 <= Len(ValueOf(m, i)) /\ ValueOf(m, i)[1] # 32
           /\ \A x \in 1..Len(ValueOf(m, i)) : ValueOf(m, i)[x] \in Byte /\ ValueOf(m, i)[x] \notin {CR, LF}
           /\ ValueOf(m, i) = <<>> => m.crlf /\ Len(ValueOf(m, i)) = 0
<1> DEFINE h == m.headers[i]
<1>1. NameOf(m, i) = h[1] /\ ValueOf(m, i) = h[2]
  BY DEF NameOf, ValueOf
<1>2. h[1] \in Seq(Byte) /\ h[2] \in Seq(Byte) /\ i \in DOMAIN m.headers
  BY HeadersIn
<1>3. /\ h[1] # <<>> /\ \A x \in DOMAIN h[1] : h[1][x] \notin {CR, LF, 58}
      /\ h[2] # <<>> => h[2][1] # 32 /\ \A x \in DOMAIN h[2] : h[2][x] \notin {CR, LF}
      /\ h[2] = <<>> => m.crlf
  BY <1>2 DEF WellFormed
<1> HIDE DEF h
<1>4. \A s \in Seq(Byte) : /\ Len(s) \in Nat /\ DOMAIN s = 1..Len(s) /\ (s # <<>> => 1 <= Len(s))
                           /\ (s = <<>> => Len(s) = 0) /\ \A x \in 1..Len(s) : s[x] \in Byte
  BY LenProperties, EmptySeq, ElementOfSeq
<1>5. Len(h[1]) \in Nat /\ 1 <= Len(h[1]) /\ DOMAIN h[1] = 1..Len(h[1]) /\ \A x \in 1..Len(h[1]) : h[1][x] \in Byte
  BY <1>2, <1>3, <1>4
<1>6. Len(h[2]) \in Nat /\ DOMAIN h[2] = 1..Len(h[2]) /\ (\A x \in 1..Len(h[2]) : h[2][x] \in Byte)
      /\ (h[2] # <<>> => 1 <= Len(h[2])) /\ (h[2] = <<>> => Len(h[2]) = 0)
  BY <1>2, <1>4
<1>7. \A x \in 1..Len(h[1]) : h[1][x] \in Byte /\ h[1][x] \notin {CR, LF} /\ h[1][x] # 58
  BY <1>3, <1>5
<1>8. \A x \in 1..Len(h[2]) : h[2][x] \in Byte /\ h[2][x] \notin {CR, LF}
  <2>1. CASE h[2] = <<>>
    BY <1>6, <2>1
  <2>2. CASE h[2] # <<>>
    BY <1>3, <1>6, <2>2
  <2> QED
    BY <2>1, <2>2
<1> QED
  BY <1>1, <1>2, <1>3, <1>5, <1>6, <1>7, <1>8

(* CR is a byte where lines end in it. *)
LEMMA LineByte == ASSUME NEW m \in Messages, WellFormed(m), m.crlf PROVE CR \in Byte
<1>1. Bytes(m)[TargetEnd(m) + 8] = CR /\ TargetEnd(m) + 8 \in 1..Len(Bytes(m))
  <2>1. Bytes(m)[TargetEnd(m) + 8] = CR /\ HeadsAt(m) = TargetEnd(m) + 9 /\ TargetEnd(m) \in {3, 5}
        /\ HeadsAt(m) < Len(Bytes(m)) /\ Len(Bytes(m)) \in Nat
    BY FirstBytes DEF CR
  <2> QED
    BY <2>1
<1>2. Bytes(m) \in Seq(Byte)
  BY ScriptsAssumption
<1> QED
  BY <1>1, <1>2, ElementOfSeq

(* A header is complete. *)
LEMMA ReadsHeader ==
    ASSUME NEW m \in Messages, WellFormed(m), NEW i \in 1..Len(m.headers), NEW p, Reads(p, m, i - 1),
           p.field = NameOf(m, i), p.value = Taken(ValueOf(m, i)), NEW s \in States
    PROVE  Reads(WithHeader(p, s), m, i) /\ WithHeader(p, s).state = s
<1> DEFINE H == TakenHeaders(m)
           t == Append(p.headers, <<p.field, p.value>>)
           r == With(p, "headers", t)
<1>1. H \in Seq(Seq(Byte) \X Seq(Byte)) /\ Len(H) = Len(m.headers) /\ H[i] = <<p.field, p.value>>
  BY LineByte, TakenIs
<1> HIDE DEF H
<1>2. p.headers = Prefix(H, i - 1)
  BY DEF Reads, H
<1>3. t = Prefix(H, i) /\ Prefix(H, i) \in Seq(Seq(Byte) \X Seq(Byte))
  <2>1. i \in 1..Len(H) /\ i \in 0..Len(H)
    BY <1>1, HeadersIn
  <2> QED
    BY <1>1, <1>2, <2>1, PrefixStep
<1> HIDE DEF t
<1>4. p \in Parsers /\ p.complete = FALSE /\ p.path = <<47>> /\ p.query = Query(m) /\ p.body = <<>>
  BY DEF Reads
<1>5. r \in Parsers /\ r.complete = FALSE /\ r.path = <<47>> /\ r.query = Query(m) /\ r.body = <<>> /\ r.headers = t
  BY <1>3, <1>4, SetHeaders
<1>6. Reads(r, m, i)
  BY <1>3, <1>5 DEF Reads, H
<1>7. WithHeader(p, s) = With(r, "state", s)
  BY DEF WithHeader, t
<1> HIDE DEF r
<1> QED
  BY <1>6, <1>7, ReadsState

(* The places of header i among the bytes. *)
LEMMA HeaderBounds ==
    ASSUME NEW m, WellFormed(m), NEW i \in 1..Len(m.headers)
    PROVE  /\ NameAt(m, i) \in Nat /\ ValueAt(m, i) \in Nat /\ EndAt(m, i) \in Nat /\ Len(Bytes(m)) \in Nat
           /\ ValueAt(m, i) = NameAt(m, i) + Len(NameOf(m, i)) + 2
           /\ EndAt(m, i) = ValueAt(m, i) + Len(ValueOf(m, i))
           /\ EndAt(m, i) + 1 < Len(Bytes(m)) /\ (m.crlf => EndAt(m, i) + 2 < Len(Bytes(m)))
           /\ m.crlf => NameAt(m, i + 1) = EndAt(m, i) + 2
           /\ ~m.crlf => NameAt(m, i + 1) = EndAt(m, i) + 1
           /\ i + 1 \in 1..(Len(m.headers) + 1) /\ (i + 1) - 1 = i
<1> DEFINE n == Len(m.headers)
           el == Len(Line(m))
<1>1. NameAt(m, i) \in Nat /\ ValueAt(m, i) \in Nat /\ EndAt(m, i) \in Nat /\ NameAt(m, i + 1) = EndAt(m, i) + el
  BY HeaderAt
<1>2. ValueAt(m, i) = NameAt(m, i) + Len(NameOf(m, i)) + 2 /\ EndAt(m, i) = ValueAt(m, i) + Len(ValueOf(m, i))
  BY DEF ValueAt, EndAt
<1>3. n \in Nat /\ i + 1 \in 1..(n + 1) /\ (i + 1) - 1 = i
  BY HeadersIn
<1>4. el \in {1, 2} /\ (m.crlf => el = 2) /\ (~m.crlf => el = 1)
  BY LineIs
<1>5. NameAt(m, i + 1) = HeadsAt(m) + Mark(m, i)
  BY <1>3 DEF NameAt
<1>6. Mark(m, i) \in Nat /\ Mark(m, n) \in Nat /\ Mark(m, i) <= Mark(m, n)
  <2>1. i \in 0..n /\ n \in 0..n
    BY <1>3
  <2> QED
    BY <2>1, LineStays
<1>7. LastLine(m) = HeadsAt(m) + Mark(m, n) /\ HeadsAt(m) \in Nat /\ Len(Bytes(m)) \in Nat
      /\ LastLine(m) + el <= Len(Bytes(m))
  <2>1. LastLine(m) = HeadsAt(m) + Mark(m, n)
    BY DEF LastLine
  <2>2. HeadsAt(m) \in Nat /\ Placed(Bytes(m), LastLine(m), Line(m))
    BY Layout
  <2> QED
    BY <2>1, <2>2, PlacedByte
<1> HIDE DEF n, el
<1>8. EndAt(m, i) + el < Len(Bytes(m))
  <2>1. \A h, x, y, b \in Nat, l \in {1, 2} : x <= y /\ (h + y) + l <= b => h + x < b
    OBVIOUS
  <2>2. HeadsAt(m) + Mark(m, i) < Len(Bytes(m))
    BY <1>4, <1>6, <1>7, <2>1
  <2> QED
    BY <1>1, <1>5, <2>2
<1>9. EndAt(m, i) + 1 < Len(Bytes(m)) /\ (m.crlf => EndAt(m, i) + 2 < Len(Bytes(m)))
  <2>1. \A e, b \in Nat, l \in {1, 2} : e + l < b => e + 1 < b
    OBVIOUS
  <2> QED
    BY <1>1, <1>4, <1>7, <1>8, <2>1
<1>10. (m.crlf => NameAt(m, i + 1) = EndAt(m, i) + 2) /\ (~m.crlf => NameAt(m, i + 1) = EndAt(m, i) + 1)
  BY <1>1, <1>4
<1> QED
  BY <1>1, <1>2, <1>3, <1>7, <1>9, <1>10 DEF n

(* through each header: into its name, *)
LEMMA StartStep ==
    ASSUME NEW m \in Messages, WellFormed(m), NEW i \in 1..Len(m.headers), NEW p, NEW k, AtStart(p, m, k, i)
    PROVE  Goes(ParseChar(p, Bytes(m)[k + 1]), m, k + 1)
<1> DEFINE b == Bytes(m)
           name == NameOf(m, i)
           c == b[k + 1]
           q == ParseChar(p, c)
<1>1. Reads(p, m, i - 1) /\ p \in Parsers /\ p.state = "kHeaderLF" /\ k = NameAt(m, i)
  BY ReadsIn DEF AtStart
<1>2. name \in Seq(Byte) /\ Len(name) \in Nat /\ 1 <= Len(name) /\ name[1] \in Byte /\ name[1] \notin {CR, LF}
  BY HeaderClean
<1>3. k \in Nat /\ k + 1 < Len(b) /\ k < Len(b)
  <2>1. k \in Nat /\ k + Len(name) + 2 + Len(ValueOf(m, i)) + 1 < Len(b) /\ Len(ValueOf(m, i)) \in Nat /\ Len(b) \in Nat
    BY <1>1, HeaderBounds, HeaderClean
  <2> QED
    BY <1>2, <2>1
<1>4. c = name[1]
  <2>1. \A x \in 1..Len(name) : b[NameAt(m, i) + x] = name[x]
    BY HeaderAt, PlacedByte
  <2> QED
    BY <1>1, <1>2, <2>1
<1>5. c \in Byte
  BY <1>2, <1>4
<1> DEFINE r == With(p, "field", <<c>>)
<1> HIDE DEF b, c, q, r, name
<1>6. q = With(r, "state", "kHeaderField")
  BY <1>1, <1>2, <1>4, <1>5, ParseName DEF q, r
<1>7. <<c>> = Prefix(name, 1) /\ <<c>> \in Seq(Byte)
  BY <1>2, <1>4, <1>5, PrefixStep
<1>8. Reads(r, m, i - 1) /\ r.field = <<c>>
  BY <1>1, <1>7, ReadsField DEF r
<1>9. Reads(q, m, i - 1) /\ q.state = "kHeaderField" /\ q.field = Prefix(name, 1)
  <2>1. "kHeaderField" \in States
    BY DEF States
  <2> QED
    BY <1>6, <1>7, <1>8, <2>1, ReadsState
<1>10. AtName(q, m, k + 1, i)
  <2>1. 1 \in 1..Len(name) /\ k + 1 = NameAt(m, i) + 1
    BY <1>1, <1>2
  <2> QED
    BY <1>9, <2>1 DEF AtName, name
<1>11. At(q, m, k + 1) /\ q \in Parsers /\ q.complete = FALSE
  BY <1>9, <1>10, ReadsIn DEF At, AtHeader
<1> QED
  BY <1>3, <1>11, GoesOn DEF q, c, b

(* along it and behind it, *)
LEMMA NameStep ==
    ASSUME NEW m \in Messages, WellFormed(m), NEW i \in 1..Len(m.headers), NEW p, NEW k, AtName(p, m, k, i)
    PROVE  Goes(ParseChar(p, Bytes(m)[k + 1]), m, k + 1)
<1> DEFINE b == Bytes(m)
           name == NameOf(m, i)
           nl == Len(name)
           c == b[k + 1]
           q == ParseChar(p, c)
<1>1. Reads(p, m, i - 1) /\ p \in Parsers /\ p.state = "kHeaderField"
  BY ReadsIn DEF AtName
<1>2. PICK x \in 1..nl : k = NameAt(m, i) + x /\ p.field = Prefix(name, x)
  BY DEF AtName
<1>3. name \in Seq(Byte) /\ nl \in Nat /\ \A y \in 1..nl : name[y] \in Byte /\ name[y] # 58
  BY HeaderClean
<1>4. NameAt(m, i) \in Nat /\ ValueAt(m, i) = NameAt(m, i) + nl + 2
  BY HeaderBounds
<1>5. k \in Nat /\ k + 1 < Len(b) /\ k < Len(b)
  <2>1. NameAt(m, i) + nl + 2 + Len(ValueOf(m, i)) + 1 < Len(b) /\ Len(ValueOf(m, i)) \in Nat /\ Len(b) \in Nat
    BY HeaderBounds, HeaderClean
  <2>2. x \in Nat /\ x <= nl
    BY <1>3
  <2> HIDE DEF nl, b
  <2> QED
    BY <1>2, <1>3, <1>4, <2>1, <2>2
<1>6. c \in Byte
  BY <1>5, NextByte
<1> HIDE DEF b, c, q, name
<1>7. ASSUME x < nl PROVE q \in Parsers /\ q.complete = FALSE /\ AtHeader(q, m, k + 1, i)
  <2>1. x + 1 \in 1..nl /\ k + 1 = NameAt(m, i) + (x + 1) /\ (x + 1) - 1 = x
    BY <1>2, <1>3, <1>4, <1>7
  <2>2. c = name[x + 1]
    <3>1. \A y \in 1..nl : b[NameAt(m, i) + y] = name[y]
      BY HeaderAt, PlacedByte DEF b, name
    <3> QED
      BY <2>1, <3>1 DEF c
  <2>3. c # 58
    BY <1>3, <2>1, <2>2
  <2>4. q = With(p, "field", Append(p.field, c))
    BY <1>1, <1>6, <2>3, ParseName DEF q
  <2>5. Append(p.field, c) = Prefix(name, x + 1) /\ Prefix(name, x + 1) \in Seq(Byte)
    <3>1. Append(Prefix(name, x), name[x + 1]) = Prefix(name, x + 1) /\ Prefix(name, x + 1) \in Seq(Byte)
      BY <1>3, <1>7, PrefixNext
    <3> QED
      BY <1>2, <2>2, <3>1
  <2>6. q = With(p, "field", Prefix(name, x + 1))
    BY <2>4, <2>5
  <2>7. Reads(q, m, i - 1) /\ q.state = "kHeaderField" /\ q.field = Prefix(name, x + 1)
    BY <1>1, <2>5, <2>6, ReadsField
  <2>8. AtName(q, m, k + 1, i)
    BY <2>1, <2>7 DEF AtName, name
  <2> QED
    BY <2>7, <2>8, ReadsIn DEF AtHeader
<1>8. ASSUME x = nl PROVE q \in Parsers /\ q.complete = FALSE /\ AtHeader(q, m, k + 1, i)
  <2>1. k = NameAt(m, i) + nl /\ k + 1 = NameAt(m, i) + nl + 1 /\ (k + 1) + 1 = ValueAt(m, i)
    BY <1>2, <1>3, <1>4, <1>8
  <2>2. c = 58
    <3> DEFINE u == <<58, 32>>
    <3>1. Placed(b, NameAt(m, i) + nl, u)
      BY HeaderAt DEF b, name
    <3>2. Len(u) = 2 /\ u[1] = 58
      OBVIOUS
    <3> HIDE DEF u
    <3>3. \A y \in 1..Len(u) : b[(NameAt(m, i) + nl) + y] = u[y]
      BY <3>1, PlacedByte
    <3> QED
      BY <2>1, <3>2, <3>3 DEF c
  <2>3. q = With(p, "state", "kHeaderBeforeValue")
    BY <1>1, <1>6, <2>2, ParseName DEF q
  <2>4. "kHeaderBeforeValue" \in States
    BY DEF States
  <2>5. Reads(q, m, i - 1) /\ q.state = "kHeaderBeforeValue" /\ q.field = p.field
    BY <1>1, <2>3, <2>4, ReadsState
  <2>6. p.field = name
    BY <1>2, <1>3, <1>8, PrefixStep
  <2>7. AtColon(q, m, k + 1, i)
    BY <2>1, <2>5, <2>6 DEF AtColon, name
  <2> QED
    BY <2>5, <2>7, ReadsIn DEF AtHeader
<1>9. q \in Parsers /\ q.complete = FALSE /\ AtHeader(q, m, k + 1, i)
  <2>1. x < nl \/ x = nl
    BY <1>3
  <2> QED
    BY <1>7, <1>8, <2>1
<1>10. At(q, m, k + 1)
  BY <1>9 DEF At
<1> QED
  BY <1>5, <1>9, <1>10, GoesOn DEF q, c, b

(* into its value, *)
LEMMA ColonStep ==
    ASSUME NEW m \in Messages, WellFormed(m), NEW i \in 1..Len(m.headers), NEW p, NEW k, AtColon(p, m, k, i)
    PROVE  Goes(ParseChar(p, Bytes(m)[k + 1]), m, k + 1)
<1> DEFINE b == Bytes(m)
           value == ValueOf(m, i)
           nl == Len(NameOf(m, i))
           vl == Len(value)
           c == b[k + 1]
           q == ParseChar(p, c)
<1>1. Reads(p, m, i - 1) /\ p \in Parsers /\ p.state = "kHeaderBeforeValue" /\ p.field = NameOf(m, i)
      /\ k \in {ValueAt(m, i) - 1, ValueAt(m, i)} /\ p.complete = FALSE
  BY ReadsIn DEF AtColon
<1>2. value \in Seq(Byte) /\ vl \in Nat /\ nl \in Nat /\ 1 <= nl
      /\ (value # <<>> => 1 <= vl /\ value[1] # 32) /\ (value = <<>> => m.crlf /\ vl = 0)
  BY HeaderClean
<1>3. NameAt(m, i) \in Nat /\ ValueAt(m, i) = NameAt(m, i) + nl + 2 /\ EndAt(m, i) = ValueAt(m, i) + vl
      /\ EndAt(m, i) + 1 < Len(b) /\ Len(b) \in Nat
  BY HeaderBounds
<1> HIDE DEF nl, vl, b, value
<1>4. k \in Nat /\ k + 1 < Len(b) /\ k < Len(b)
  <2>1. CASE k = ValueAt(m, i)
    BY <1>2, <1>3, <2>1
  <2>2. CASE k = ValueAt(m, i) - 1
    <3>1. k = NameAt(m, i) + nl + 1
      BY <1>1, <1>2, <1>3, <2>2
    <3> QED
      BY <1>2, <1>3, <3>1
  <2> QED
    BY <1>1, <2>1, <2>2
<1>5. c \in Byte
  BY <1>4, NextByte DEF b
<1> HIDE DEF c, q
<1>6. ASSUME k = ValueAt(m, i) - 1 PROVE q \in Parsers /\ q.complete = FALSE /\ AtHeader(q, m, k + 1, i)
  <2>1. k + 1 = (NameAt(m, i) + nl) + 2
    BY <1>2, <1>3, <1>6
  <2>4. k + 1 = ValueAt(m, i)
    BY <1>2, <1>3, <1>6
  <2>2. c = 32
    <3> DEFINE u == <<58, 32>>
    <3>1. Placed(b, NameAt(m, i) + nl, u)
      BY HeaderAt DEF b, nl
    <3>2. Len(u) = 2 /\ u[2] = 32
      OBVIOUS
    <3> HIDE DEF u
    <3>3. \A y \in 1..Len(u) : b[(NameAt(m, i) + nl) + y] = u[y]
      BY <3>1, PlacedByte
    <3> QED
      BY <2>1, <3>2, <3>3 DEF c
  <2>3. q = p
    BY <1>1, <1>5, <2>2, ParseValue DEF q
  <2> QED
    BY <1>1, <2>3, <2>4 DEF AtHeader, AtColon
<1>7. ASSUME k = ValueAt(m, i) PROVE q \in Parsers /\ q.complete = FALSE /\ AtHeader(q, m, k + 1, i)
  <2> DEFINE v == <<c>>
             r == With(p, "value", v)
  <2>1. c # 32 => q = With(r, "state", "kHeaderValue")
    BY <1>1, <1>5, ParseValue DEF q
  <2>2. Reads(r, m, i - 1) /\ r.field = NameOf(m, i) /\ r.value = <<c>>
    <3>1. v \in Seq(Byte)
      BY <1>5
    <3>2. v = <<c>>
      OBVIOUS
    <3> HIDE DEF v
    <3>3. Reads(p, m, i - 1) /\ p.field = NameOf(m, i)
      BY <1>1
    <3>4. Reads(r, m, i - 1) /\ r.field = p.field /\ r.value = v
      BY <3>1, <3>3, ReadsValue
    <3> QED
      BY <3>2, <3>3, <3>4
  <2> HIDE DEF r
  <2>3. c # 32 => Reads(q, m, i - 1) /\ q.state = "kHeaderValue" /\ q.field = NameOf(m, i) /\ q.value = <<c>>
    <3>1. "kHeaderValue" \in States
      BY DEF States
    <3> QED
      BY <2>1, <2>2, <3>1, ReadsState
  <2>4. CASE value # <<>>
    <3>1. c = value[1] /\ 1 \in 1..vl
      <4>1. \A y \in 1..vl : b[ValueAt(m, i) + y] = value[y]
        BY HeaderAt, PlacedByte DEF b, value, vl
      <4> QED
        BY <1>2, <1>7, <2>4, <4>1 DEF c
    <3>2. c # 32
      BY <1>2, <2>4, <3>1
    <3>3. q.value = Prefix(value, 1)
      BY <1>2, <2>3, <2>4, <3>1, <3>2, PrefixStep DEF vl
    <3>4. AtValue(q, m, k + 1, i)
      BY <1>7, <2>3, <3>1, <3>2, <3>3 DEF AtValue, value, vl
    <3> QED
      BY <2>3, <3>2, <3>4, ReadsIn DEF AtHeader
  <2>5. CASE value = <<>>
    <3>1. m.crlf /\ EndAt(m, i) = k
      BY <1>2, <1>3, <1>4, <1>7, <2>5
    <3>2. c = CR
      <4>1. Placed(b, EndAt(m, i), Line(m))
        BY HeaderAt DEF b
      <4>2. b[EndAt(m, i) + 1] = 13
        BY <3>1, <4>1, LineBytes
      <4> QED
        BY <3>1, <4>2 DEF c, CR
    <3>3. c # 32
      BY <3>2 DEF CR
    <3>4. AtNothing(q, m, k + 1, i)
      BY <2>3, <2>5, <3>1, <3>2, <3>3 DEF AtNothing, value
    <3> QED
      BY <2>3, <3>3, <3>4, ReadsIn DEF AtHeader
  <2> QED
    BY <2>4, <2>5
<1>8. q \in Parsers /\ q.complete = FALSE /\ AtHeader(q, m, k + 1, i)
  BY <1>1, <1>6, <1>7
<1>9. At(q, m, k + 1)
  BY <1>8 DEF At
<1> QED
  BY <1>4, <1>8, <1>9, GoesOn DEF q, c, b

(* along it and to the next line, *)
LEMMA ValueStep ==
    ASSUME NEW m \in Messages, WellFormed(m), NEW i \in 1..Len(m.headers), NEW p, NEW k, AtValue(p, m, k, i)
    PROVE  Goes(ParseChar(p, Bytes(m)[k + 1]), m, k + 1)
<1> DEFINE b == Bytes(m)
           value == ValueOf(m, i)
           vl == Len(value)
           c == b[k + 1]
           q == ParseChar(p, c)
<1>1. Reads(p, m, i - 1) /\ p \in Parsers /\ p.state = "kHeaderValue" /\ p.field = NameOf(m, i)
  BY ReadsIn DEF AtValue
<1>2. PICK x \in 1..vl : k = ValueAt(m, i) + x /\ p.value = Prefix(value, x)
  BY DEF AtValue
<1>3. value \in Seq(Byte) /\ vl \in Nat /\ \A y \in 1..vl : value[y] \in Byte /\ value[y] \notin {CR, LF}
  BY HeaderClean
<1>4. ValueAt(m, i) \in Nat /\ EndAt(m, i) = ValueAt(m, i) + vl /\ EndAt(m, i) + 1 < Len(b) /\ Len(b) \in Nat
  BY HeaderBounds
<1>5. x \in Nat /\ x <= vl /\ (x < vl \/ x = vl) /\ vl # 0
  BY <1>3
<1> HIDE DEF b, value, vl
<1>6. k \in Nat /\ k + 1 < Len(b) /\ k < Len(b)
  BY <1>2, <1>3, <1>4, <1>5
<1>7. c \in Byte
  BY <1>6, NextByte DEF b
<1> HIDE DEF c, q
<1>8. ASSUME x < vl PROVE q \in Parsers /\ q.complete = FALSE /\ At(q, m, k + 1)
  <2>1. x + 1 \in 1..vl /\ k + 1 = ValueAt(m, i) + (x + 1)
    BY <1>2, <1>3, <1>4, <1>5, <1>8
  <2>2. c = value[x + 1]
    <3>1. \A y \in 1..vl : b[ValueAt(m, i) + y] = value[y]
      BY HeaderAt, PlacedByte DEF b, value, vl
    <3> QED
      BY <2>1, <3>1 DEF c
  <2>3. c \notin {CR, LF}
    BY <1>3, <2>1, <2>2
  <2>4. q = With(p, "value", Append(p.value, c))
    BY <1>1, <1>7, <2>3, ParseValue DEF q
  <2>5. Append(p.value, c) = Prefix(value, x + 1) /\ Prefix(value, x + 1) \in Seq(Byte)
    <3>1. Append(Prefix(value, x), value[x + 1]) = Prefix(value, x + 1) /\ Prefix(value, x + 1) \in Seq(Byte)
      BY <1>3, <1>5, <1>8, PrefixNext DEF vl
    <3> QED
      BY <1>2, <2>2, <3>1
  <2>6. q = With(p, "value", Prefix(value, x + 1))
    BY <2>4, <2>5
  <2>7. Reads(q, m, i - 1) /\ q.state = p.state /\ q.field = p.field /\ q.value = Prefix(value, x + 1)
    BY <1>1, <2>5, <2>6, ReadsValue
  <2>8. AtValue(q, m, k + 1, i)
    BY <1>1, <2>1, <2>7 DEF AtValue, value, vl
  <2> QED
    BY <2>7, <2>8, ReadsIn DEF AtHeader, At
<1>9. ASSUME x = vl PROVE q \in Parsers /\ q.complete = FALSE /\ At(q, m, k + 1)
  <2>1. k = EndAt(m, i)
    BY <1>2, <1>4, <1>9
  <2>2. p.value = Taken(ValueOf(m, i))
    <3>1. Prefix(value, vl) = value /\ (value = <<>> => vl = 0)
      BY <1>3, PrefixStep, HeaderClean DEF value, vl
    <3> QED
      BY <1>2, <1>5, <1>9, <3>1 DEF Taken, value
  <2>3. (m.crlf => c = CR /\ NameAt(m, i + 1) = EndAt(m, i) + 2) /\ (~m.crlf => c = LF /\ NameAt(m, i + 1) = k + 1)
        /\ i + 1 \in 1..(Len(m.headers) + 1) /\ (i + 1) - 1 = i
    <3>1. Placed(b, EndAt(m, i), Line(m))
      BY HeaderAt DEF b
    <3>2. (m.crlf => b[EndAt(m, i) + 1] = 13) /\ (~m.crlf => b[EndAt(m, i) + 1] = 10)
      BY <3>1, LineBytes
    <3> QED
      BY <2>1, <3>2, HeaderBounds DEF c, CR, LF
  <2>4. "kHeaderValueLF" \in States /\ "kHeaderLF" \in States
    BY DEF States
  <2>5. CASE m.crlf
    <3>1. q = WithHeader(p, "kHeaderValueLF")
      BY <1>1, <1>7, <2>3, <2>5, ParseValue DEF q
    <3>2. Reads(q, m, i) /\ q.state = "kHeaderValueLF"
      BY <1>1, <2>2, <2>4, <3>1, ReadsHeader
    <3>3. AtEnd(q, m, k + 1, i)
      BY <2>1, <2>5, <3>2 DEF AtEnd
    <3> QED
      BY <3>2, <3>3, ReadsIn DEF AtHeader, At
  <2>6. CASE ~m.crlf
    <3>1. q = WithHeader(p, "kHeaderLF")
      BY <1>1, <1>7, <2>3, <2>6, ParseValue DEF q
    <3>2. Reads(q, m, i) /\ q.state = "kHeaderLF"
      BY <1>1, <2>2, <2>4, <3>1, ReadsHeader
    <3>3. AtStart(q, m, k + 1, i + 1)
      BY <2>3, <2>6, <3>2 DEF AtStart
    <3> QED
      BY <2>3, <3>2, <3>3, ReadsIn DEF At
  <2> QED
    BY <2>5, <2>6
<1>10. q \in Parsers /\ q.complete = FALSE /\ At(q, m, k + 1)
  BY <1>5, <1>8, <1>9
<1> QED
  BY <1>6, <1>10, GoesOn DEF q, c, b

(* also where there was no value. *)
LEMMA EndStep ==
    ASSUME NEW m \in Messages, WellFormed(m), NEW i \in 1..Len(m.headers), NEW p, NEW k,
           AtNothing(p, m, k, i) \/ AtEnd(p, m, k, i)
    PROVE  Goes(ParseChar(p, Bytes(m)[k + 1]), m, k + 1)
<1> DEFINE b == Bytes(m)
           c == b[k + 1]
           q == ParseChar(p, c)
<1>1. k = EndAt(m, i) + 1 /\ p \in Parsers
  BY ReadsIn DEF AtNothing, AtEnd
<1>2. m.crlf
  BY HeaderClean DEF AtNothing, AtEnd
<1>3. EndAt(m, i) \in Nat /\ Len(b) \in Nat /\ EndAt(m, i) + 2 < Len(b) /\ NameAt(m, i + 1) = EndAt(m, i) + 2
      /\ i + 1 \in 1..(Len(m.headers) + 1) /\ (i + 1) - 1 = i
  BY <1>2, HeaderBounds
<1>4. b[EndAt(m, i) + 2] = 10
  <2>1. Placed(b, EndAt(m, i), Line(m))
    BY HeaderAt
  <2> QED
    BY <1>2, <2>1, LineBytes
<1> HIDE DEF b
<1>5. k \in Nat /\ k + 1 = EndAt(m, i) + 2 /\ k + 1 < Len(b) /\ k < Len(b)
  BY <1>1, <1>3
<1>6. c = LF /\ c \in Byte
  <2>1. c = LF
    BY <1>4, <1>5 DEF LF
  <2> QED
    BY <1>5, <2>1, NextByte DEF b
<1> HIDE DEF c, q
<1>7. "kHeaderLF" \in States
  BY DEF States
<1>8. Reads(q, m, i) /\ q.state = "kHeaderLF"
  <2>1. CASE AtNothing(p, m, k, i)
    <3>1. Reads(p, m, i - 1) /\ p.state = "kHeaderValue" /\ p.field = NameOf(m, i) /\ p.value = Taken(ValueOf(m, i))
      BY <2>1 DEF AtNothing, Taken
    <3>2. q = WithHeader(p, "kHeaderLF")
      BY <1>1, <1>6, <3>1, ParseValue DEF q
    <3> QED
      BY <1>7, <3>1, <3>2, ReadsHeader
  <2>2. CASE AtEnd(p, m, k, i)
    <3>1. Reads(p, m, i) /\ p.state = "kHeaderValueLF"
      BY <2>2 DEF AtEnd
    <3>2. q = With(p, "state", "kHeaderLF")
      BY <1>1, <1>6, <3>1, ParseValue DEF q
    <3> QED
      BY <1>7, <3>1, <3>2, ReadsState
  <2> QED
    BY <2>1, <2>2
<1>9. AtStart(q, m, k + 1, i + 1)
  BY <1>3, <1>5, <1>8 DEF AtStart
<1>10. At(q, m, k + 1) /\ q \in Parsers /\ q.complete = FALSE
  BY <1>3, <1>8, <1>9, ReadsIn DEF At
<1> QED
  BY <1>5, <1>10, GoesOn DEF q, c, b

(* The headers are complete: a body follows, or the request is. *)
LEMMA BodiedStep ==
    ASSUME NEW m \in Messages, WellFormed(m), NEW p, Reads(p, m, Len(m.headers)), NEW k, k = BodyAt(m)
    PROVE  Goes(Bodied(p), m, k)
<1> DEFINE H == TakenHeaders(m)
           n == Len(m.body)
           b == Bytes(m)
<1>1. p \in Parsers /\ p.complete = FALSE /\ p.path = <<47>> /\ p.query = Query(m) /\ p.body = <<>>
  BY DEF Reads
<1>2. p.headers = H
  <2>1. H \in Seq(Seq(Byte) \X Seq(Byte)) /\ Len(H) = Len(m.headers)
    BY LineByte, TakenIs
  <2>2. Prefix(H, Len(H)) = H
    BY <2>1, PrefixStep
  <2>3. p.headers = Prefix(H, Len(m.headers))
    BY DEF Reads
  <2> QED
    BY <2>1, <2>2, <2>3
<1>3. Number(GetHeader(p.headers, <<76>>)) = n
  BY <1>2, LineByte, TakenLength
<1>4. n \in Nat /\ BodyAt(m) \in Nat /\ Len(b) = BodyAt(m) + n
  BY Layout
<1> HIDE DEF H
<1>5. CASE n > 0
  <2> DEFINE q1 == With(p, "state", "kBody")
             q2 == With(q1, "length", n)
             q3 == With(q2, "body", <<>>)
  <2>1. Bodied(p) = q3
    BY <1>3, <1>5 DEF Bodied
  <2>2. "kBody" \in States /\ n \in Int /\ <<>> \in Seq(Byte)
    BY <1>4 DEF States
  <2>3. q1 \in Parsers /\ q1.state = "kBody" /\ q1.complete = FALSE /\ q1.path = <<47>> /\ q1.query = Query(m)
        /\ q1.headers = H
    BY <1>1, <1>2, <2>2, SetState
  <2> HIDE DEF q1, n
  <2>4. q2 \in Parsers /\ q2.state = "kBody" /\ q2.complete = FALSE /\ q2.path = <<47>> /\ q2.query = Query(m)
        /\ q2.headers = H /\ q2.length = n
    BY <2>2, <2>3, SetLength
  <2> HIDE DEF q2
  <2>5. q3 \in Parsers /\ q3.state = "kBody" /\ q3.complete = FALSE /\ q3.path = <<47>> /\ q3.query = Query(m)
        /\ q3.headers = H /\ q3.length = n /\ q3.body = <<>>
    BY <2>2, <2>4, SetBody
  <2> HIDE DEF q3
  <2>6. <<>> = Prefix(m.body, 0)
    <3>1. m.body \in Seq(Byte)
      BY DEF WellFormed
    <3> QED
      BY <3>1, PrefixStep
  <2>7. 0 \in 0..n /\ 0 < n /\ k = BodyAt(m) + 0 /\ k < Len(b)
    BY <1>4, <1>5
  <2>8. AtBody(q3, m, k)
    BY <2>5, <2>6, <2>7 DEF AtBody, H, n
  <2> QED
    BY <2>1, <2>5, <2>7, <2>8, GoesOn DEF At
<1>6. CASE ~(n > 0)
  <2> DEFINE q == With(p, "complete", TRUE)
  <2>1. Bodied(p) = q
    BY <1>3, <1>6 DEF Bodied
  <2>2. q \in Parsers /\ q.complete = TRUE /\ q.path = <<47>> /\ q.query = Query(m) /\ q.headers = H /\ q.body = <<>>
    <3>1. TRUE \in BOOLEAN
      OBVIOUS
    <3> QED
      BY <1>1, <1>2, <3>1, SetComplete
  <2>3. k = Len(b) /\ n = 0
    BY <1>4, <1>6
  <2>4. m.body = <<>>
    <3>1. m.body \in Seq(Byte)
      BY DEF WellFormed
    <3> QED
      BY <2>3, <3>1, EmptySeq
  <2> HIDE DEF q
  <2> QED
    BY <2>1, <2>2, <2>3, <2>4 DEF Goes, Parsed, H
<1> QED
  BY <1>5, <1>6

(* The line that ends the headers, *)
LEMMA LastStep ==
    ASSUME NEW m \in Messages, WellFormed(m), NEW p, NEW k,
           AtStart(p, m, k, Len(m.headers) + 1) \/ AtLast(p, m, k)
    PROVE  Goes(ParseChar(p, Bytes(m)[k + 1]), m, k + 1)
<1> DEFINE b == Bytes(m)
           n == Len(m.headers)
           c == b[k + 1]
           q == ParseChar(p, c)
<1>1. n \in Nat /\ (n + 1) - 1 = n
  BY HeadersIn
<1>2. NameAt(m, n + 1) = LastLine(m)
  BY <1>1 DEF NameAt, LastLine
<1>3. Reads(p, m, n) /\ p \in Parsers
  <2>1. CASE AtLast(p, m, k)
    BY <2>1, ReadsIn DEF AtLast
  <2>2. CASE AtStart(p, m, k, n + 1)
    BY <1>1, <2>2, ReadsIn DEF AtStart
  <2> QED
    BY <2>1, <2>2
<1>4. /\ m.crlf => b[LastLine(m) + 1] = 13 /\ b[LastLine(m) + 2] = 10 /\ BodyAt(m) = LastLine(m) + 2
      /\ ~m.crlf => b[LastLine(m) + 1] = 10 /\ BodyAt(m) = LastLine(m) + 1
      /\ LastLine(m) \in Nat /\ Len(b) \in Nat /\ BodyAt(m) <= Len(b)
  <2>1. Placed(b, LastLine(m), Line(m))
    BY Layout
  <2>2. BodyAt(m) = LastLine(m) + Len(Line(m))
    BY DEF BodyAt
  <2> QED
    BY <2>1, <2>2, LineBytes
<1> HIDE DEF b, n
<1>5. ASSUME AtStart(p, m, k, n + 1), m.crlf PROVE Goes(q, m, k + 1)
  <2>1. k = LastLine(m) /\ p.state = "kHeaderLF"
    BY <1>2, <1>5 DEF AtStart
  <2>2. k \in Nat /\ k + 1 < Len(b) /\ k < Len(b) /\ c = CR
    BY <1>4, <1>5, <2>1 DEF CR
  <2>3. c \in Byte
    BY <2>2, NextByte DEF b
  <2> HIDE DEF c
  <2>4. q = With(p, "state", "kHeaderFieldStart")
    BY <1>3, <2>1, <2>2, <2>3, ParseName
  <2>5. "kHeaderFieldStart" \in States
    BY DEF States
  <2> HIDE DEF q
  <2>6. Reads(q, m, n) /\ q.state = "kHeaderFieldStart"
    BY <1>3, <2>4, <2>5, ReadsState
  <2>7. AtLast(q, m, k + 1)
    BY <1>5, <2>1, <2>6 DEF AtLast, n
  <2> QED
    BY <2>2, <2>6, <2>7, ReadsIn, GoesOn DEF At, b
<1>6. ASSUME AtLast(p, m, k) \/ (AtStart(p, m, k, n + 1) /\ ~m.crlf) PROVE Goes(q, m, k + 1)
  <2>1. k + 1 = BodyAt(m) /\ c = LF /\ k \in Nat /\ k < Len(b)
    <3>1. CASE AtLast(p, m, k)
      <4>1. k = LastLine(m) + 1 /\ m.crlf
        BY <3>1 DEF AtLast
      <4>2. k + 1 = LastLine(m) + 2 /\ k \in Nat
        BY <1>4, <4>1
      <4> QED
        BY <1>4, <4>1, <4>2 DEF LF
    <3>2. CASE AtStart(p, m, k, n + 1) /\ ~m.crlf
      <4>1. k = LastLine(m)
        BY <1>2, <3>2 DEF AtStart
      <4> QED
        BY <1>4, <3>2, <4>1 DEF LF
    <3> QED
      BY <1>6, <3>1, <3>2
  <2>2. p.state \in {"kHeaderLF", "kHeaderFieldStart"}
    BY <1>6 DEF AtLast, AtStart
  <2>3. c \in Byte
    BY <2>1, NextByte DEF b
  <2> HIDE DEF c
  <2>4. q = Bodied(p)
    BY <1>3, <2>1, <2>2, <2>3, ParseName
  <2> QED
    BY <1>3, <2>1, <2>4, BodiedStep DEF n
<1> QED
  BY <1>5, <1>6 DEF q, c, b, n

(* and the body. *)
LEMMA BodyStep ==
    ASSUME NEW m \in Messages, WellFormed(m), NEW p, NEW k, AtBody(p, m, k)
    PROVE  Goes(ParseChar(p, Bytes(m)[k + 1]), m, k + 1)
<1> DEFINE b == Bytes(m)
           n == Len(m.body)
           c == b[k + 1]
           q == ParseChar(p, c)
<1>1. p \in Parsers /\ p.complete = FALSE /\ p.path = <<47>> /\ p.query = Query(m)
      /\ p.headers = TakenHeaders(m) /\ p.state = "kBody" /\ p.length = n
  BY DEF AtBody
<1>2. PICK x \in 0..n : x < n /\ k = BodyAt(m) + x /\ p.body = Prefix(m.body, x)
  BY DEF AtBody
<1>3. m.body \in Seq(Byte) /\ n \in Nat /\ BodyAt(m) \in Nat /\ Len(b) = BodyAt(m) + n /\ x \in Nat
  <2>1. m.body \in Seq(Byte)
    BY DEF WellFormed
  <2>2. n \in Nat /\ BodyAt(m) \in Nat /\ Len(b) = BodyAt(m) + n
    BY Layout
  <2> QED
    BY <2>1, <2>2
<1>4. c = m.body[x + 1] /\ k + 1 = BodyAt(m) + (x + 1) /\ x + 1 \in 1..n
  <2>1. k + 1 = BodyAt(m) + (x + 1) /\ x + 1 \in 1..n
    BY <1>2, <1>3
  <2>2. \A y \in 1..n : b[BodyAt(m) + y] = m.body[y]
    <3>1. Placed(b, BodyAt(m), m.body)
      BY Layout
    <3> QED
      BY <3>1, PlacedByte
  <2> QED
    BY <2>1, <2>2
<1>5. k \in Nat /\ k < Len(b) /\ c \in Byte
  <2>1. k \in Nat /\ k < Len(b)
    BY <1>2, <1>3
  <2> QED
    BY <2>1, NextByte
<1> DEFINE t == Append(p.body, c)
           r == With(p, "body", t)
           done == Len(t) >= n
<1>6. t = Prefix(m.body, x + 1) /\ t \in Seq(Byte) /\ Len(t) = x + 1
  <2>1. Append(Prefix(m.body, x), m.body[x + 1]) = Prefix(m.body, x + 1)
        /\ Prefix(m.body, x + 1) \in Seq(Byte) /\ Len(Prefix(m.body, x + 1)) = x + 1
    BY <1>2, <1>3, PrefixNext
  <2> HIDE DEF c
  <2> QED
    BY <1>2, <1>4, <2>1
<1> HIDE DEF b, c, n, t
<1>7. r \in Parsers /\ r.complete = FALSE /\ r.path = <<47>> /\ r.query = Query(m) /\ r.headers = TakenHeaders(m)
      /\ r.state = "kBody" /\ r.length = n /\ r.body = t
  BY <1>1, <1>6, SetBody
<1>8. q = With(r, "complete", BodyDone(r))
  BY <1>1, <1>5, ParseBody DEF t
<1> HIDE DEF r, q
<1>9. BodyDone(r) = done
  BY <1>7 DEF BodyDone
<1>10. CASE x + 1 = n
  <2>1. done = TRUE
    BY <1>3, <1>6, <1>10
  <2>2. q = With(r, "complete", TRUE) /\ TRUE \in BOOLEAN
    BY <1>8, <1>9, <2>1
  <2>3. q \in Parsers /\ q.complete = TRUE /\ q.path = <<47>> /\ q.query = Query(m) /\ q.headers = TakenHeaders(m)
        /\ q.body = t
    BY <1>7, <2>2, SetComplete
  <2>4. t = m.body
    BY <1>3, <1>6, <1>10, PrefixStep DEF n
  <2>5. k + 1 = Len(b)
    BY <1>3, <1>4, <1>10
  <2> QED
    BY <2>3, <2>4, <2>5 DEF Goes, Parsed, q, c, b
<1>11. CASE x + 1 # n
  <2>1. x + 1 < n /\ x + 1 \in 0..n
    BY <1>2, <1>3, <1>11
  <2>2. done = FALSE
    BY <1>3, <1>6, <2>1
  <2>3. q = With(r, "complete", FALSE) /\ FALSE \in BOOLEAN
    BY <1>8, <1>9, <2>2
  <2>4. q \in Parsers /\ q.complete = FALSE /\ q.path = <<47>> /\ q.query = Query(m) /\ q.headers = TakenHeaders(m)
        /\ q.body = t /\ q.state = "kBody" /\ q.length = n
    BY <1>7, <2>3, SetComplete
  <2>5. AtBody(q, m, k + 1)
    BY <1>4, <1>6, <2>1, <2>4 DEF AtBody, n
  <2>6. k + 1 < Len(b)
    BY <1>3, <1>4, <2>1
  <2> QED
    BY <2>4, <2>5, <2>6, GoesOn DEF At, q, c, b
<1> QED
  BY <1>10, <1>11

(* A byte of the request brings the parser one place on. *)
LEMMA ParseStep ==
    ASSUME NEW m \in Messages, WellFormed(m), NEW p, NEW k, At(p, m, k)
    PROVE  Goes(ParseChar(p, Bytes(m)[k + 1]), m, k + 1)
<1>1. CASE \E i \in 1..(Len(m.headers) + 1) : AtStart(p, m, k, i)
  <2>1. PICK i \in 1..(Len(m.headers) + 1) : AtStart(p, m, k, i)
    BY <1>1
  <2>2. CASE i \in 1..Len(m.headers)
    BY <2>1, <2>2, StartStep
  <2>3. CASE i \notin 1..Len(m.headers)
    <3>1. i = Len(m.headers) + 1
      BY <2>3, HeadersIn
    <3> QED
      BY <2>1, <3>1, LastStep
  <2> QED
    BY <2>2, <2>3
<1>2. CASE \E i \in 1..Len(m.headers) : AtHeader(p, m, k, i)
  <2>1. PICK i \in 1..Len(m.headers) : AtHeader(p, m, k, i)
    BY <1>2
  <2> QED
    BY <2>1, NameStep, ColonStep, ValueStep, EndStep DEF AtHeader
<1> QED
  BY <1>1, <1>2, TargetStep, VersionStep, LastStep, BodyStep DEF At

-------------------------------------------------------------------------------
(* A feed *)

(* The parser after each byte of a feed. *)
FeedStep(q, c, i) == IF q.complete THEN q ELSE With(ParseChar(q, c), "used", i)
Run(f, p, bytes) ==
    /\ f \in [0..Len(bytes) -> Parsers] /\ f[0] = With(p, "used", 0)
    /\ \A i \in 1..Len(bytes) : f[i] = FeedStep(f[i - 1], bytes[i], i)
    /\ ParseUpTo(p, bytes) = f[Len(bytes)]

(* Each of them is a parser. *)
LEMMA FeedStepType ==
    ASSUME NEW q \in Parsers, NEW c \in Byte, NEW i \in Nat
    PROVE  FeedStep(q, c, i) \in Parsers
<1>1. ParseChar(q, c) \in Parsers
  BY ParseType
<1>2. With(ParseChar(q, c), "used", i) \in Parsers
  BY <1>1, SetUsed
<1> QED
  BY <1>2 DEF FeedStep

(* feed is such a run. *)
LEMMA RunExists ==
    ASSUME NEW p \in Parsers, NEW bytes \in Seq(Byte)
    PROVE  \E f : Run(f, p, bytes)
<1> DEFINE n == Len(bytes)
           a == With(p, "used", 0)
           Is(g) == g = [i \in 0..n |-> IF i = 0 THEN a ELSE FeedStep(g[i - 1], bytes[i], i)]
           step == [i \in 1..n |-> [q \in Parsers |-> FeedStep(q, bytes[i], i)]]
           f == CHOOSE g : Is(g)
<1>1. n \in Nat /\ \A i \in 1..n : bytes[i] \in Byte /\ i \in Nat
  BY ByteSeq
<1>2. a \in Parsers
  BY SetUsed
<1>3. step \in [1..n -> [Parsers -> Parsers]]
  BY <1>1, FeedStepType
<1>4. PICK g \in [0..n -> Parsers] : g[0] = a /\ \A i \in 1..n : g[i] = step[i][g[i - 1]]
  <2>1. \E g : ByRecursion(g, n, Parsers, a, step)
    <3> HIDE DEF n, step, a
    <3> QED
      BY <1>1, <1>2, <1>3, RecursionExists
  <2> QED
    BY <2>1 DEF ByRecursion
<1> HIDE DEF a
<1>5. Is(g)
  <2>1. \A i \in 1..n : i - 1 \in 0..n
    BY <1>1
  <2>2. \A i \in 1..n : g[i] = FeedStep(g[i - 1], bytes[i], i)
    BY <1>4, <2>1
  <2>3. \A i \in 0..n : i # 0 => i \in 1..n
    BY <1>1
  <2> HIDE DEF n
  <2> QED
    BY <1>4, <2>2, <2>3
<1>6. Is(f)
  BY <1>5
<1>7. ParseUpTo(p, bytes) = f[n]
  BY Zenon DEF ParseUpTo, FeedStep, With, f, Is, n, a
<1> HIDE DEF f
<1>8. f[0] = a /\ \A i \in 1..n : f[i] = FeedStep(f[i - 1], bytes[i], i)
  <2>1. 0 \in 0..n /\ \A i \in 1..n : i \in 0..n /\ i # 0
    BY <1>1
  <2> HIDE DEF n
  <2> QED
    BY <1>6, <2>1
<1> DEFINE T == {i \in Nat : f[i] \in Parsers}
<1>9. \A i \in 0..n : i \in T
  <2>1. 0 \in T
    BY <1>2, <1>8
  <2>2. ASSUME NEW i \in 1..n, i - 1 \in T PROVE i \in T
    <3>1. i \in Nat /\ f[i - 1] \in Parsers /\ f[i] = FeedStep(f[i - 1], bytes[i], i) /\ bytes[i] \in Byte
      BY <1>1, <1>8, <2>2
    <3> QED
      BY <3>1, FeedStepType
  <2> HIDE DEF n, T
  <2> QED
    BY <1>1, <2>1, <2>2, Along
<1>10. f \in [0..n -> Parsers]
  BY <1>6, <1>9
<1> QED
  BY <1>7, <1>8, <1>10 DEF Run, a
(* How many bytes a feed takes is no part of where the parser is. *)
LEMMA GoesUsed ==
    ASSUME NEW m, NEW q, NEW k, Goes(q, m, k), NEW n \in Nat
    PROVE  Goes(With(q, "used", n), m, k) /\ q \in Parsers
<1> DEFINE r == With(q, "used", n)
<1>1. q \in Parsers
  BY DEF Goes, Parsed
<1>2. r \in Parsers /\ r.state = q.state /\ r.path = q.path /\ r.query = q.query /\ r.field = q.field
      /\ r.value = q.value /\ r.headers = q.headers /\ r.length = q.length /\ r.body = q.body
      /\ r.complete = q.complete
  BY <1>1, SetUsed
<1> HIDE DEF r
<1>3. \A j : Reads(q, m, j) => Reads(r, m, j)
  BY <1>2 DEF Reads
<1>4. (AtTarget(q, m, k) => AtTarget(r, m, k)) /\ (AtVersion(q, m, k) => AtVersion(r, m, k))
  BY <1>2, <1>3 DEF AtTarget, AtVersion
<1>5. (AtLast(q, m, k) => AtLast(r, m, k)) /\ (AtBody(q, m, k) => AtBody(r, m, k))
  BY <1>2, <1>3 DEF AtLast, AtBody
<1>6. \A i : AtStart(q, m, k, i) => AtStart(r, m, k, i)
  BY <1>2, <1>3 DEF AtStart
<1>7. \A i : AtHeader(q, m, k, i) => AtHeader(r, m, k, i)
  <2> SUFFICES ASSUME NEW i, AtHeader(q, m, k, i) PROVE AtHeader(r, m, k, i)
    OBVIOUS
  <2>1. AtName(q, m, k, i) => AtName(r, m, k, i)
    BY <1>2, <1>3 DEF AtName
  <2>2. AtColon(q, m, k, i) => AtColon(r, m, k, i)
    BY <1>2, <1>3 DEF AtColon
  <2>3. AtValue(q, m, k, i) => AtValue(r, m, k, i)
    BY <1>2, <1>3 DEF AtValue
  <2>4. AtNothing(q, m, k, i) => AtNothing(r, m, k, i)
    BY <1>2, <1>3 DEF AtNothing
  <2>5. AtEnd(q, m, k, i) => AtEnd(r, m, k, i)
    BY <1>2, <1>3 DEF AtEnd
  <2> QED
    BY <2>1, <2>2, <2>3, <2>4, <2>5 DEF AtHeader
<1>8. At(q, m, k) => At(r, m, k)
  BY <1>4, <1>5, <1>6, <1>7 DEF At
<1>9. Parsed(q, m) => Parsed(r, m)
  BY <1>2 DEF Parsed
<1> QED
  BY <1>1, <1>2, <1>8, <1>9 DEF Goes, r

(* Whatever it is fed, the parser takes no more than there is. *)
LEMMA FeedType ==
    ASSUME NEW p \in Parsers, NEW bytes \in Seq(Byte)
    PROVE  ParseUpTo(p, bytes) \in Parsers /\ ParseUpTo(p, bytes).used \in 0..Len(bytes)
<1> DEFINE n == Len(bytes)
<1>1. PICK f : Run(f, p, bytes)
  BY RunExists
<1>2. n \in Nat
  BY ByteSeq
<1>3. f \in [0..n -> Parsers] /\ f[0] = With(p, "used", 0) /\ ParseUpTo(p, bytes) = f[n]
      /\ \A i \in 1..n : f[i] = FeedStep(f[i - 1], bytes[i], i)
  BY <1>1 DEF Run
<1> DEFINE T == {i \in Nat : i <= n => f[i].used \in 0..i}
<1>4. 0 \in T
  <2>1. f[0].used = 0
    BY <1>3, SetUsed
  <2> QED
    BY <2>1
<1>5. ASSUME NEW i \in 1..n, i - 1 \in T PROVE i \in T
  <2> HIDE DEF n
  <2>1. i \in Nat /\ i - 1 \in 0..n /\ i - 1 \in Nat /\ i \in 0..n
    BY <1>2
  <2>2. f[i - 1].used \in 0..(i - 1) /\ f[i - 1] \in Parsers /\ f[i] = FeedStep(f[i - 1], bytes[i], i)
    BY <1>3, <1>5, <2>1
  <2>3. bytes[i] \in Byte
    BY ByteSeq DEF n
  <2>4. With(ParseChar(f[i - 1], bytes[i]), "used", i).used = i
    BY <2>1, <2>2, <2>3, ParseType, SetUsed
  <2>5. f[i].used = i \/ f[i].used \in 0..(i - 1)
    BY <2>2, <2>4 DEF FeedStep
  <2>6. f[i].used \in 0..i
    BY <2>1, <2>5
  <2> QED
    BY <2>1, <2>6
<1>6. n \in T
  <2>1. \A i \in 0..n : i \in T
    <3> HIDE DEF n, T
    <3> QED
      BY <1>2, <1>4, <1>5, Along
  <2> QED
    BY <1>2, <2>1
<1>7. n \in 0..n
  BY <1>2
<1> QED
  BY <1>3, <1>6, <1>7

(* feed takes the parser through a request, to its end or to the end of the bytes. *)
LEMMA FeedGoes ==
    ASSUME NEW m \in Messages, WellFormed(m), NEW p, NEW k \in Nat, Goes(p, m, k), p.complete = FALSE,
           NEW bytes \in Seq(Byte), \A j \in 1..Len(bytes) : k + j <= Len(Bytes(m)) => bytes[j] = Bytes(m)[k + j]
    PROVE  Goes(ParseUpTo(p, bytes), m, k + ParseUpTo(p, bytes).used)
<1> DEFINE n == Len(bytes)
           b == Bytes(m)
           Good(q, i) == /\ Goes(q, m, k + q.used) /\ (q.complete = FALSE => q.used = i)
<1>1. p \in Parsers
  BY DEF Goes, Parsed
<1>2. PICK f : Run(f, p, bytes)
  BY <1>1, RunExists
<1>3. n \in Nat
  BY ByteSeq
<1>4. f \in [0..n -> Parsers] /\ f[0] = With(p, "used", 0) /\ ParseUpTo(p, bytes) = f[n]
      /\ \A i \in 1..n : f[i] = FeedStep(f[i - 1], bytes[i], i)
  BY <1>2 DEF Run
<1> DEFINE T == {i \in Nat : i <= n => Good(f[i], i)}
<1>5. 0 \in T
  <2>1. f[0].used = 0
    BY <1>1, <1>4, SetUsed
  <2>2. Goes(f[0], m, k)
    BY <1>4, GoesUsed
  <2>3. k + 0 = k
    OBVIOUS
  <2> QED
    BY <2>1, <2>2, <2>3
<1> HIDE DEF n, b
<1>6. ASSUME NEW i \in 1..n, i - 1 \in T PROVE i \in T
  <2> DEFINE q == f[i - 1]
             c == bytes[i]
             r == ParseChar(q, c)
  <2>1. i \in Nat /\ i - 1 \in 0..n /\ i - 1 \in Nat /\ i - 1 <= n
    BY <1>3
  <2>2. Good(q, i - 1) /\ q \in Parsers /\ f[i] = FeedStep(q, c, i)
    BY <1>4, <1>6, <2>1
  <2> HIDE DEF q
  <2>3. CASE q.complete = FALSE
    <3>1. f[i] = With(r, "used", i)
      BY <2>2, <2>3 DEF FeedStep
    <3>2. q.used = i - 1 /\ Goes(q, m, k + (i - 1))
      BY <2>2, <2>3
    <3>3. At(q, m, k + (i - 1)) /\ k + (i - 1) < Len(b)
      BY <2>3, <3>2 DEF Goes, Parsed, b
    <3>4. (k + (i - 1)) + 1 = k + i /\ k + i <= Len(b)
      <4>1. Len(b) \in Nat
        BY FirstBytes DEF b
      <4> QED
        BY <2>1, <3>3, <4>1
    <3>5. c = b[k + i]
      BY <3>4 DEF n, b
    <3>6. Goes(ParseChar(q, b[(k + (i - 1)) + 1]), m, (k + (i - 1)) + 1)
      BY <3>3, ParseStep DEF b
    <3>7. Goes(r, m, k + i)
      BY <3>4, <3>5, <3>6
    <3> HIDE DEF r
    <3>8. Goes(f[i], m, k + i) /\ r \in Parsers
      BY <2>1, <3>1, <3>7, GoesUsed
    <3>9. f[i].used = i
      BY <2>1, <3>1, <3>8, SetUsed
    <3> QED
      BY <2>1, <3>8, <3>9
  <2>4. CASE q.complete # FALSE
    <3>1. q.complete = TRUE
      BY <2>2, <2>4 DEF Parsers
    <3>2. f[i] = q
      BY <2>2, <3>1 DEF FeedStep
    <3> QED
      BY <2>1, <2>2, <3>1, <3>2
  <2> QED
    BY <2>3, <2>4
<1>7. n \in T
  <2>1. \A i \in 0..n : i \in T
    <3> HIDE DEF T
    <3> QED
      BY <1>3, <1>5, <1>6, Along
  <2> QED
    BY <1>3, <2>1
<1>8. Good(f[n], n)
  BY <1>3, <1>7
<1> QED
  BY <1>4, <1>8

-------------------------------------------------------------------------------
(* The requests of a stream *)

(* Where each message of a script ends. *)
EndsOf(s) == LET upTo[i \in 0..Len(s)] == IF i = 0 THEN 0 ELSE upTo[i - 1] + Len(Bytes(s[i])) IN upTo

(* They are numbers, each the one before it and the length of a message. *)
LEMMA EndsAre ==
    ASSUME NEW s \in Seq(Messages)
    PROVE  /\ Len(s) \in Nat /\ DOMAIN s = 1..Len(s) /\ EndsOf(s)[0] = 0
           /\ \A i \in 0..Len(s) : EndsOf(s)[i] \in Nat
           /\ \A i \in 1..Len(s) : /\ EndsOf(s)[i] = EndsOf(s)[i - 1] + Len(Bytes(s[i]))
                                   /\ s[i] \in Messages /\ Bytes(s[i]) \in Seq(Byte) /\ Len(Bytes(s[i])) \in Nat
<1> DEFINE n == Len(s)
           len(i) == Len(Bytes(s[i]))
           Is(g) == g = [i \in 0..n |-> IF i = 0 THEN 0 ELSE g[i - 1] + len(i)]
           step == [i \in 1..n |-> [x \in Nat |-> x + len(i)]]
           f == CHOOSE g : Is(g)
<1>1. n \in Nat /\ DOMAIN s = 1..n /\ \A i \in 1..n : s[i] \in Messages
  BY LenProperties, ElementOfSeq
<1>2. \A i \in 1..n : Bytes(s[i]) \in Seq(Byte) /\ len(i) \in Nat
  <2>1. \A i \in 1..n : Bytes(s[i]) \in Seq(Byte)
    BY <1>1, ScriptsAssumption
  <2> QED
    BY <2>1, LenProperties
<1> HIDE DEF len
<1>3. step \in [1..n -> [Nat -> Nat]]
  <2>1. \A i \in 1..n, x \in Nat : x + len(i) \in Nat
    BY <1>2
  <2> QED
    BY <2>1
<1>4. PICK g \in [0..n -> Nat] : g[0] = 0 /\ \A i \in 1..n : g[i] = step[i][g[i - 1]]
  <2>1. \E g : ByRecursion(g, n, Nat, 0, step)
    <3> HIDE DEF n, step
    <3> QED
      BY <1>1, <1>3, RecursionExists
  <2> QED
    BY <2>1 DEF ByRecursion
<1>5. Is(g)
  <2>1. \A i \in 1..n : i - 1 \in 0..n
    BY <1>1
  <2>2. \A i \in 1..n : g[i] = g[i - 1] + len(i)
    BY <1>4, <2>1
  <2>3. \A i \in 0..n : i # 0 => i \in 1..n
    BY <1>1
  <2> HIDE DEF n
  <2> QED
    BY <1>4, <2>2, <2>3
<1>6. Is(f)
  BY <1>5
<1>7. f = EndsOf(s)
  BY Zenon DEF EndsOf, f, Is, len, n
<1> HIDE DEF f
<1>8. f[0] = 0 /\ \A i \in 1..n : f[i] = f[i - 1] + len(i)
  <2>1. 0 \in 0..n /\ \A i \in 1..n : i \in 0..n /\ i # 0
    BY <1>1
  <2> HIDE DEF n
  <2> QED
    BY <1>6, <2>1
<1> DEFINE T == {i \in Nat : f[i] \in Nat}
<1>9. \A i \in 0..n : i \in T
  <2>1. 0 \in T
    BY <1>8
  <2>2. ASSUME NEW i \in 1..n, i - 1 \in T PROVE i \in T
    <3>1. i \in Nat /\ f[i - 1] \in Nat /\ f[i] = f[i - 1] + len(i) /\ len(i) \in Nat
      BY <1>1, <1>2, <1>8, <2>2
    <3> QED
      BY <3>1
  <2> HIDE DEF n, T
  <2> QED
    BY <1>1, <2>1, <2>2, Along
<1>10. \A i \in 0..n : f[i] \in Nat
  BY <1>9
<1> HIDE DEF T
<1> QED
  BY <1>1, <1>2, <1>7, <1>8, <1>10 DEF len

(* They come in order. *)
LEMMA EndsGrow ==
    ASSUME NEW s \in Seq(Messages), NEW i \in 0..Len(s), NEW k \in 0..Len(s), i <= k
    PROVE  EndsOf(s)[i] <= EndsOf(s)[k]
<1> DEFINE f == EndsOf(s)
           n == Len(s)
           T == {x \in Nat : i <= x => f[i] <= f[x]}
<1>1. n \in Nat /\ f[0] = 0 /\ (\A x \in 0..n : f[x] \in Nat)
      /\ \A x \in 1..n : f[x] = f[x - 1] + Len(Bytes(s[x])) /\ Len(Bytes(s[x])) \in Nat
  BY EndsAre
<1>2. i \in 0..n /\ i \in Nat /\ k \in 0..n
  BY <1>1
<1> HIDE DEF f, n
<1>3. 0 \in T
  BY <1>1, <1>2
<1>4. ASSUME NEW x \in 1..n, x - 1 \in T PROVE x \in T
  <2>1. x \in Nat /\ x \in 0..n /\ x - 1 \in 0..n
    BY <1>1
  <2>2. f[x - 1] \in Nat /\ f[x] \in Nat /\ f[i] \in Nat /\ f[x - 1] <= f[x]
    BY <1>1, <1>2, <2>1
  <2>3. CASE i <= x - 1
    <3>1. f[i] <= f[x - 1]
      BY <1>4, <2>3
    <3> QED
      BY <2>1, <2>2, <3>1
  <2>4. CASE i = x
    BY <2>1, <2>2, <2>4
  <2>5. CASE i > x
    BY <1>2, <2>1, <2>5
  <2> QED
    BY <1>2, <2>1, <2>3, <2>4, <2>5
<1>5. \A x \in 0..n : x \in T
  <2> HIDE DEF T
  <2> QED
    BY <1>1, <1>3, <1>4, Along
<1>6. k \in T
  BY <1>2, <1>5
<1> QED
  BY <1>6 DEF f

(* The bytes of the script that are behind the first at. *)
Stretch(s, at, u) ==
    \A x \in 1..Len(u), i \in 1..Len(s) :
        EndsOf(s)[i - 1] < at + x /\ at + x <= EndsOf(s)[i] => u[x] = Bytes(s[i])[(at + x) - EndsOf(s)[i - 1]]

(* A stretch may be cut and joined. *)
LEMMA StretchCut ==
    ASSUME NEW s, NEW at \in Nat, NEW u \in Seq(Byte), Stretch(s, at, u), NEW n \in 0..Len(u)
    PROVE  /\ SubSeq(u, 1, n) \in Seq(Byte) /\ Len(SubSeq(u, 1, n)) = n
           /\ SubSeq(u, n + 1, Len(u)) \in Seq(Byte) /\ Len(SubSeq(u, n + 1, Len(u))) = Len(u) - n
           /\ Stretch(s, at, SubSeq(u, 1, n)) /\ Stretch(s, at + n, SubSeq(u, n + 1, Len(u)))
           /\ \A j \in 1..(Len(u) - n) : SubSeq(u, n + 1, Len(u))[j] = u[n + j]
<1> DEFINE v == SubSeq(u, 1, n)
           w == SubSeq(u, n + 1, Len(u))
           l == Len(u)
<1>1. l \in Nat /\ n \in Nat /\ n <= l
  BY LenProperties
<1>2. v \in Seq(Byte) /\ Len(v) = n /\ \A j \in 1..n : v[j] = u[j]
  <2>1. 1 \in 1..(l + 1) /\ n \in 0..l
    BY <1>1
  <2> QED
    BY <1>1, SubSeqProperties
<1>3. w \in Seq(Byte) /\ Len(w) = l - n /\ \A j \in 1..(l - n) : w[j] = u[n + j]
  BY <1>1, SubSeqProperties
<1> HIDE DEF v, w, l
<1>4. Stretch(s, at, v)
  <2>1. \A x \in 1..n : x \in 1..l
    BY <1>1
  <2> QED
    BY <1>2, <2>1 DEF Stretch, l
<1>5. Stretch(s, at + n, w)
  <2>1. \A x \in 1..(l - n) : n + x \in 1..l /\ (at + n) + x = at + (n + x)
    BY <1>1
  <2> SUFFICES ASSUME NEW x \in 1..(l - n), NEW i \in 1..Len(s),
                      EndsOf(s)[i - 1] < (at + n) + x, (at + n) + x <= EndsOf(s)[i]
               PROVE  w[x] = Bytes(s[i])[((at + n) + x) - EndsOf(s)[i - 1]]
    BY <1>3 DEF Stretch
  <2>2. u[n + x] = Bytes(s[i])[(at + (n + x)) - EndsOf(s)[i - 1]]
    BY <2>1 DEF Stretch, l
  <2> QED
    BY <1>3, <2>1, <2>2
<1> QED
  BY <1>2, <1>3, <1>4, <1>5 DEF v, w, l

(* Two stretches, one behind the other, are one. *)
LEMMA StretchJoin ==
    ASSUME NEW s, NEW at \in Nat, NEW u \in Seq(Byte), NEW v \in Seq(Byte),
           Stretch(s, at, u), Stretch(s, at + Len(u), v)
    PROVE  u \o v \in Seq(Byte) /\ Len(u \o v) = Len(u) + Len(v) /\ Stretch(s, at, u \o v)
<1> DEFINE w == u \o v
           l == Len(u)
<1>1. l \in Nat /\ Len(v) \in Nat
  BY LenProperties
<1>2. w \in Seq(Byte) /\ Len(w) = l + Len(v)
      /\ \A i \in 1..(l + Len(v)) : w[i] = IF i <= l THEN u[i] ELSE v[i - l]
  BY ConcatProperties
<1> HIDE DEF w, l
<1>3. ASSUME NEW x \in 1..(l + Len(v)), NEW i \in 1..Len(s),
             EndsOf(s)[i - 1] < at + x, at + x <= EndsOf(s)[i]
      PROVE  w[x] = Bytes(s[i])[(at + x) - EndsOf(s)[i - 1]]
  <2>1. CASE x <= l
    <3>1. w[x] = u[x] /\ x \in 1..l
      BY <1>1, <1>2, <2>1
    <3> QED
      BY <1>3, <3>1 DEF Stretch, l
  <2>2. CASE ~(x <= l)
    <3>1. w[x] = v[x - l] /\ x - l \in 1..Len(v) /\ (at + l) + (x - l) = at + x
      BY <1>1, <1>2, <2>2
    <3>2. v[x - l] = Bytes(s[i])[((at + l) + (x - l)) - EndsOf(s)[i - 1]]
      BY <1>3, <3>1 DEF Stretch, l
    <3> QED
      BY <3>1, <3>2
  <2> QED
    BY <2>1, <2>2
<1>4. Stretch(s, at, w)
  BY <1>2, <1>3 DEF Stretch
<1> QED
  BY <1>2, <1>4 DEF w, l

(* The next message. *)
LEMMA StretchMessage ==
    ASSUME NEW s \in Seq(Messages), NEW d \in 1..Len(s)
    PROVE  Stretch(s, EndsOf(s)[d - 1], Bytes(s[d]))
<1> DEFINE f == EndsOf(s)
           n == Len(s)
<1>1. n \in Nat /\ (\A x \in 0..n : f[x] \in Nat) /\ \A x \in 1..n : f[x] = f[x - 1] + Len(Bytes(s[x])) /\ Len(Bytes(s[x])) \in Nat
  BY EndsAre
<1>2. d \in 1..n
  OBVIOUS
<1> SUFFICES ASSUME NEW x \in 1..Len(Bytes(s[d])), NEW i \in 1..n,
                    f[i - 1] < f[d - 1] + x, f[d - 1] + x <= f[i]
             PROVE  Bytes(s[d])[x] = Bytes(s[i])[(f[d - 1] + x) - f[i - 1]]
  BY DEF Stretch
<1>3. \A a, c \in 0..n : a <= c => f[a] <= f[c]
  BY EndsGrow
<1> HIDE DEF f, n
<1>4. d \in 0..n /\ d - 1 \in 0..n /\ i \in 0..n /\ i - 1 \in 0..n /\ i \in Int /\ d \in Int
  BY <1>1, <1>2
<1>5. f[d] = f[d - 1] + Len(Bytes(s[d])) /\ Len(Bytes(s[d])) \in Nat /\ f[d] \in Nat /\ f[d - 1] \in Nat
      /\ f[i] \in Nat /\ f[i - 1] \in Nat
  BY <1>1, <1>2, <1>4
<1>6. ~(i <= d - 1)
  <2>1. i <= d - 1 => f[i] <= f[d - 1]
    BY <1>3, <1>4
  <2> QED
    BY <1>5, <2>1
<1>7. ~(d <= i - 1)
  <2>1. d <= i - 1 => f[d] <= f[i - 1]
    BY <1>3, <1>4
  <2> QED
    BY <1>5, <2>1
<1>8. i = d
  BY <1>4, <1>6, <1>7
<1>9. (f[d - 1] + x) - f[d - 1] = x
  BY <1>5
<1> QED
  BY <1>8, <1>9

(* The message i and those before it are requests the parser is to find. *)
Due(s, i) ==
    i \in DOMAIN s /\ \A k \in 1..i : WellFormed(s[k]) /\ (k < i => ~Upgrades(s[k]))

(* So are those before it. *)
LEMMA DueBefore ==
    ASSUME NEW s \in Seq(Messages), NEW i, Due(s, i), NEW k \in 1..i
    PROVE  Due(s, k) /\ k \in 1..Len(s) /\ i \in 1..Len(s) /\ s[k] \in Messages /\ WellFormed(s[k])
           /\ (k < i => ~Upgrades(s[k]))
<1>1. Len(s) \in Nat /\ DOMAIN s = 1..Len(s)
  BY LenProperties
<1>2. i \in 1..Len(s) /\ \A x \in 1..i : WellFormed(s[x]) /\ (x < i => ~Upgrades(s[x]))
  BY <1>1 DEF Due
<1>3. k \in 1..Len(s) /\ \A x \in 1..k : x \in 1..i /\ (x < k => x < i)
  BY <1>1, <1>2
<1>4. Due(s, k)
  BY <1>1, <1>2, <1>3 DEF Due
<1>5. s[k] \in Messages
  BY <1>3, ElementOfSeq
<1> QED
  BY <1>2, <1>3, <1>4, <1>5

(* A parser that has all of a request hands over that request. *)
HandedOver(p) == [path |-> p.path, query |-> p.query, headers |-> p.headers, body |-> p.body]
(* It is the request the client sent, and an upgrade only if the client asked for one. *)
LEMMA ParsedIs ==
    ASSUME NEW m \in Messages, WellFormed(m), NEW p, Parsed(p, m)
    PROVE  SameRequest(HandedOver(p), m) /\ (~Upgrades(m) => ~IsUpgrade(p))
<1> DEFINE r == HandedOver(p)
<1>1. r.path = <<47>> /\ r.query = Query(m) /\ r.body = m.body /\ r.headers = TakenHeaders(m) /\ p.headers = TakenHeaders(m)
  BY DEF Parsed, HandedOver
<1>2. m.crlf => CR \in Byte
  BY LineByte
<1> HIDE DEF r
<1>3. ASSUME NEW name, GetHeader(m.headers, name) # <<>>
      PROVE  GetHeader(r.headers, name) = GetHeader(m.headers, name)
  BY <1>1, <1>2, <1>3, TakenHeader
<1>4. SameRequest(r, m)
  <2> SUFFICES ASSUME NEW h \in {m.headers[i] : i \in DOMAIN m.headers}, GetHeader(m.headers, h[1]) # <<>>
               PROVE  GetHeader(r.headers, h[1]) = GetHeader(m.headers, h[1])
    BY <1>1 DEF SameRequest, Query
  <2> QED
    BY <1>3
<1>5. ASSUME ~Upgrades(m) PROVE GetHeader(p.headers, <<85>>) = <<>>
  <2> DEFINE name == <<85>>
  <2>1. \A i \in 1..Len(m.headers) : NameOf(m, i) # name
    BY <1>5, HeadersIn DEF Upgrades, NameOf
  <2> HIDE DEF name
  <2>2. GetHeader(m.headers, name) = <<>>
    BY <1>2, <2>1, TakenHeader
  <2>3. GetHeader(TakenHeaders(m), name) = GetHeader(m.headers, name)
    BY <1>2, <2>1, TakenHeader
  <2> QED
    BY <1>1, <2>2, <2>3 DEF name
<1> QED
  BY <1>4, <1>5 DEF r, IsUpgrade

(* A new parser is before the first byte of any request. *)
LEMMA FreshGoes ==
    ASSUME NEW m, WellFormed(m)
    PROVE  Fresh \in Parsers /\ Goes(Fresh, m, 0)
<1>1. Fresh \in Parsers
  BY DEF Fresh, Parsers, States
<1>2. AtTarget(Fresh, m, 0)
  BY <1>1 DEF AtTarget, Fresh
<1>3. 0 < Len(Bytes(m))
  BY FirstBytes
<1> QED
  BY <1>1, <1>2, <1>3 DEF Goes, At, Fresh

(* What the parser was fed of the stream: where it stands in its request, ... *)
Stands(s, r, c, rd, p, f) ==
    Due(s, r + 1) => /\ c = "http" /\ rd # "ws" /\ EndsOf(s)[r] <= f
                     /\ Goes(p, s[r + 1], f - EndsOf(s)[r])
(* ... and which requests it has handed over. *)
Heard(s, rs, f) ==
    \A i \in 1..Len(rs) : Due(s, i) => EndsOf(s)[i] <= f /\ SameRequest(rs[i], s[i])

(* The messages t are the last ones of s. *)
Ending(s, t) == Len(t) <= Len(s) /\ \A j \in 1..Len(t) : t[j] = s[(Len(s) - Len(t)) + j]

(* A parser that was fed the first f bytes of the stream is at the end of m, which ends at g, or before it. *)
Reaches(p, m, f, g) ==
    /\ p.complete = TRUE => Parsed(p, m) /\ f = g
    /\ p.complete = FALSE => f < g

(* A parser in its request is fed up to where it stands. *)
LEMMA StandsAt ==
    ASSUME NEW s \in Seq(Messages), NEW r \in Nat, NEW c, NEW rd, NEW p, NEW f \in Nat,
           Stands(s, r, c, rd, p, f), Due(s, r + 1)
    PROVE  /\ s[r + 1] \in Messages /\ WellFormed(s[r + 1]) /\ r + 1 \in 1..Len(s) /\ r \in 0..Len(s)
           /\ EndsOf(s)[r] \in Nat /\ EndsOf(s)[r + 1] \in Nat /\ EndsOf(s)[r] <= f
           /\ EndsOf(s)[r + 1] = EndsOf(s)[r] + Len(Bytes(s[r + 1])) /\ Len(Bytes(s[r + 1])) \in Nat
           /\ p \in Parsers /\ Goes(p, s[r + 1], f - EndsOf(s)[r])
           /\ Reaches(p, s[r + 1], f, EndsOf(s)[r + 1])
<1> DEFINE i == r + 1
           m == s[i]
           e == EndsOf(s)[r]
           g == EndsOf(s)[i]
           n == Len(Bytes(m))
<1>1. i \in 1..Len(s) /\ m \in Messages /\ WellFormed(m)
  <2>1. i \in 1..i
    OBVIOUS
  <2> QED
    BY <2>1, DueBefore
<1>2. Len(s) \in Nat /\ r \in 0..Len(s) /\ i \in 0..Len(s) /\ i - 1 = r
  <2>1. Len(s) \in Nat
    BY LenProperties
  <2> QED
    BY <1>1, <2>1
<1>3. e \in Nat /\ g \in Nat /\ n \in Nat /\ g = e + n
  BY <1>1, <1>2, EndsAre
<1>4. e <= f /\ Goes(p, m, f - e)
  BY DEF Stands
<1> HIDE DEF m, e, g, n
<1>5. p \in Parsers /\ (p.complete = TRUE => Parsed(p, m) /\ f - e = n) /\ (p.complete = FALSE => f - e < n)
  BY <1>4 DEF Goes, Parsed, n
<1>6. (f - e = n => f = g) /\ (f - e < n => f < g)
  BY <1>3
<1>7. Reaches(p, m, f, g)
  BY <1>5, <1>6 DEF Reaches
<1> QED
  BY <1>1, <1>2, <1>3, <1>4, <1>5, <1>7 DEF m, e, g, n

(* The stream from the client to the parser. *)
FramingType ==
    /\ script \in Seq(Messages) /\ parser \in Parsers /\ consumed \in Nat /\ fed \in Nat /\ fed <= Len(queue)
    /\ requests \in Seq({requests[i] : i \in DOMAIN requests})
InOrder ==
    /\ Ending(script, todo)
    /\ consumed + Len(queue) + Len(wire) = EndsOf(script)[Len(script) - Len(todo)]
    /\ Stretch(script, consumed, queue) /\ Stretch(script, consumed + Len(queue), wire)
Framing ==
    /\ FramingType /\ InOrder
    /\ Heard(script, requests, Fed) /\ Stands(script, Len(requests), ctx, reading, parser, Fed)
FramingInv == StreamType /\ BufferExact /\ Framing

(* At the start nothing was sent. *)
LEMMA FramingInit == Init => FramingInv
<1> SUFFICES ASSUME Init PROVE FramingInv
  OBVIOUS
<1>1. StreamType /\ BufferExact
  BY StreamInit
<1>2. script \in Seq(Messages) /\ todo = script /\ Len(script) \in Nat
  <2>1. script \in Seq(Messages)
    BY ScriptsAssumption DEF Init
  <2> QED
    BY <2>1, LenProperties DEF Init
<1>3. queue = <<>> /\ wire = <<>> /\ requests = <<>> /\ Len(queue) = 0 /\ Len(wire) = 0 /\ Len(requests) = 0
      /\ consumed = 0 /\ fed = 0 /\ ctx = "http" /\ reading = "no" /\ parser = Fresh /\ Fed = 0
  BY DEF Init, Fed
<1>4. FramingType
  <2>1. Fresh \in Parsers
    BY DEF Fresh, Parsers, States
  <2> QED
    BY <1>2, <1>3, <2>1 DEF FramingType
<1>5. InOrder
  <2>1. Ending(script, todo)
    <3>1. \A j \in 1..Len(script) : (Len(script) - Len(script)) + j = j
      BY <1>2
    <3> QED
      BY <1>2, <3>1 DEF Ending
  <2>2. EndsOf(script)[0] = 0 /\ Len(script) - Len(todo) = 0
    BY <1>2, EndsAre
  <2>3. Stretch(script, consumed, queue) /\ Stretch(script, consumed + Len(queue), wire)
    BY <1>3 DEF Stretch
  <2> QED
    BY <1>3, <2>1, <2>2, <2>3 DEF InOrder
<1>6. Heard(script, requests, Fed)
  BY <1>3 DEF Heard
<1>7. Stands(script, Len(requests), ctx, reading, parser, Fed)
  <2> SUFFICES ASSUME Due(script, 1) PROVE EndsOf(script)[0] = 0 /\ Goes(Fresh, script[1], 0)
    BY <1>3 DEF Stands
  <2>1. WellFormed(script[1])
    BY <1>2, DueBefore
  <2> QED
    BY <1>2, <2>1, FreshGoes, EndsAre
<1> QED
  BY <1>1, <1>4, <1>5, <1>6, <1>7 DEF FramingInv, Framing

(* What was heard was heard, whatever is fed behind it. *)
LEMMA HeardStays ==
    ASSUME NEW s \in Seq(Messages), NEW rs, Len(rs) \in Nat, NEW f \in Nat, NEW g \in Nat, f <= g, Heard(s, rs, f)
    PROVE  Heard(s, rs, g)
<1> SUFFICES ASSUME NEW i \in 1..Len(rs), Due(s, i) PROVE EndsOf(s)[i] <= g /\ SameRequest(rs[i], s[i])
  BY DEF Heard
<1>1. EndsOf(s)[i] <= f /\ SameRequest(rs[i], s[i])
  BY DEF Heard
<1>2. i \in 0..Len(s)
  <2>1. i \in 1..i
    OBVIOUS
  <2>2. i \in 1..Len(s) /\ Len(s) \in Nat
    BY <2>1, DueBefore, LenProperties
  <2> QED
    BY <2>2
<1>3. EndsOf(s)[i] \in Nat
  BY <1>2, EndsAre
<1> QED
  BY <1>1, <1>3

(* What the invariant says of the numbers. *)
LEMMA FramingFacts ==
    ASSUME FramingInv
    PROVE  /\ queue \in Seq(Byte) /\ Len(queue) \in Nat /\ Readable(buf) = queue /\ readable_bytes(buf) = Len(queue)
           /\ wire \in Seq(Byte) /\ Len(wire) \in Nat /\ Len(script) \in Nat /\ Len(todo) \in Nat
           /\ Len(requests) \in Nat /\ Fed \in Nat /\ consumed <= Fed
           /\ (reading = "http" => Fed = consumed + fed) /\ (reading # "http" => Fed = consumed)
<1>1. BufferExact /\ StreamType /\ FramingType
  BY DEF FramingInv, Framing
<1>2. queue \in Seq(Byte) /\ Len(queue) \in Nat /\ Readable(buf) = queue /\ readable_bytes(buf) = Len(queue)
  BY <1>1, BufferFacts DEF BufferExact
<1>3. wire \in Seq(Byte) /\ Len(wire) \in Nat /\ Len(script) \in Nat /\ Len(todo) \in Nat /\ Len(requests) \in Nat
  BY <1>1, LenProperties DEF StreamType, FramingType
<1>4. consumed \in Nat /\ fed \in Nat
  BY <1>1 DEF FramingType
<1> QED
  BY <1>2, <1>3, <1>4 DEF Fed

(* The client sends the next message of its script. *)
LEMMA SendFraming == ASSUME FramingInv, ClientSend PROVE Framing'
<1> DEFINE n == Len(script)
           t == Len(todo)
           d == (n - t) + 1
           b == Bytes(script[d])
<1>1. todo # <<>> /\ wire' = wire \o Bytes(Head(todo)) /\ todo' = Tail(todo)
      /\ UNCHANGED <<script, parser, consumed, fed, queue, requests, ctx, reading>>
  BY DEF ClientSend
<1>2. FramingType /\ InOrder /\ Heard(script, requests, Fed) /\ Stands(script, Len(requests), ctx, reading, parser, Fed)
  BY DEF FramingInv, Framing
<1>3. n \in Nat /\ t \in Nat /\ queue \in Seq(Byte) /\ Len(queue) \in Nat /\ wire \in Seq(Byte) /\ Len(wire) \in Nat
      /\ todo \in Seq(Messages) /\ consumed \in Nat /\ script \in Seq(Messages)
  BY FramingFacts DEF FramingInv, Framing, FramingType, StreamType
<1>4. Fed' = Fed
  BY <1>1 DEF Fed
<1>5. FramingType'
  BY <1>1, <1>2 DEF FramingType
<1>6. t <= n /\ \A j \in 1..t : todo[j] = script[(n - t) + j]
  BY <1>2 DEF InOrder, Ending
<1>7. Head(todo) = todo[1] /\ Len(todo') = t - 1 /\ t >= 1 /\ \A j \in 1..(t - 1) : todo'[j] = todo[j + 1]
  <2>1. t # 0
    BY <1>1, <1>3, EmptySeq
  <2>2. Head(todo) = todo[1] /\ Len(Tail(todo)) = t - 1 /\ \A j \in 1..(t - 1) : Tail(todo)[j] = todo[j + 1]
    BY <1>1, <1>3, HeadTailProperties
  <2> QED
    BY <1>1, <1>3, <2>1, <2>2
<1> HIDE DEF n, t
<1>8. d \in 1..n /\ d - 1 = n - t /\ n - (t - 1) = d /\ Head(todo) = script[d]
  BY <1>3, <1>6, <1>7
<1>9. Ending(script, Tail(todo))
  <2>1. \A j \in 1..(t - 1) : j + 1 \in 1..t /\ (n - t) + (j + 1) = (n - (t - 1)) + j
    BY <1>3, <1>7
  <2>2. \A j \in 1..(t - 1) : todo'[j] = script[(n - (t - 1)) + j]
    BY <1>6, <1>7, <2>1
  <2>3. t - 1 <= n
    BY <1>3, <1>6
  <2> QED
    BY <1>1, <1>7, <2>2, <2>3 DEF Ending, n
<1>10. b \in Seq(Byte) /\ Len(b) \in Nat /\ EndsOf(script)[d] = EndsOf(script)[d - 1] + Len(b)
  BY <1>3, <1>8, EndsAre DEF n
<1>11. Stretch(script, EndsOf(script)[d - 1], b)
  BY <1>3, <1>8, StretchMessage DEF n
<1>12. consumed + Len(queue) + Len(wire) = EndsOf(script)[d - 1]
  BY <1>2, <1>8 DEF InOrder, n, t
<1> HIDE DEF b
<1>13. wire' = wire \o b
  BY <1>1, <1>8 DEF b
<1>14. Len(wire') = Len(wire) + Len(b) /\ Stretch(script, consumed + Len(queue), wire')
  <2> DEFINE at == consumed + Len(queue)
  <2>1. at \in Nat /\ at + Len(wire) = EndsOf(script)[d - 1] /\ Stretch(script, at, wire)
    BY <1>2, <1>3, <1>12 DEF InOrder
  <2> HIDE DEF at
  <2>2. Stretch(script, at + Len(wire), b)
    BY <1>11, <2>1
  <2>3. Len(wire \o b) = Len(wire) + Len(b) /\ Stretch(script, at, wire \o b)
    BY <1>3, <1>10, <2>1, <2>2, StretchJoin
  <2> QED
    BY <1>13, <2>3 DEF at
<1>15. consumed + Len(queue) + Len(wire') = EndsOf(script)[d]
  BY <1>3, <1>10, <1>12, <1>14
<1>16. Len(script) - Len(todo') = d
  BY <1>7, <1>8 DEF n
<1>17. InOrder'
  BY <1>1, <1>2, <1>9, <1>14, <1>15, <1>16 DEF InOrder
<1> QED
  BY <1>1, <1>2, <1>4, <1>5, <1>17 DEF Framing

(* A read takes bytes from the wire into the buffer. *)
LEMMA ReadFraming == ASSUME FramingInv, NEW n \in 1..Len(wire), Read(n) PROVE Framing'
<1> DEFINE data == SubSeq(wire, 1, n)
           rest == SubSeq(wire, n + 1, Len(wire))
<1>1. queue' = queue \o data /\ wire' = rest /\ reading = "no" /\ reading' = ctx /\ fed' = 0
      /\ UNCHANGED <<script, todo, parser, consumed, requests, ctx>>
  BY DEF Read
<1>2. FramingType /\ InOrder /\ Heard(script, requests, Fed) /\ Stands(script, Len(requests), ctx, reading, parser, Fed)
  BY DEF FramingInv, Framing
<1>3. queue \in Seq(Byte) /\ Len(queue) \in Nat /\ wire \in Seq(Byte) /\ Len(wire) \in Nat /\ consumed \in Nat
      /\ Stretch(script, consumed, queue) /\ Stretch(script, consumed + Len(queue), wire) /\ n \in 0..Len(wire) /\ n \in Nat
  BY <1>2, FramingFacts DEF FramingType, InOrder
<1>4. Fed = consumed /\ Fed' = consumed
  BY <1>1, <1>3 DEF Fed
<1>5. data \in Seq(Byte) /\ Len(data) = n /\ Len(rest) = Len(wire) - n
      /\ Stretch(script, consumed + Len(queue), data) /\ Stretch(script, (consumed + Len(queue)) + n, rest)
  <2> DEFINE at == consumed + Len(queue)
  <2>1. at \in Nat /\ Stretch(script, at, wire)
    BY <1>3
  <2> HIDE DEF at
  <2>2. data \in Seq(Byte) /\ Len(data) = n /\ Len(rest) = Len(wire) - n /\ Stretch(script, at, data) /\ Stretch(script, at + n, rest)
    BY <1>3, <2>1, StretchCut
  <2> QED
    BY <2>2 DEF at
<1> HIDE DEF data, rest
<1>6. Len(queue') = Len(queue) + n /\ Stretch(script, consumed, queue')
  <2>1. Len(queue \o data) = Len(queue) + Len(data) /\ Stretch(script, consumed, queue \o data)
    BY <1>3, <1>5, StretchJoin
  <2> QED
    BY <1>1, <1>5, <2>1
<1>7. consumed + Len(queue') = (consumed + Len(queue)) + n
      /\ consumed + Len(queue') + Len(wire') = consumed + Len(queue) + Len(wire) /\ Len(queue') \in Nat
  BY <1>1, <1>3, <1>5, <1>6
<1>8. InOrder'
  BY <1>1, <1>2, <1>5, <1>6, <1>7 DEF InOrder
<1>9. FramingType'
  BY <1>1, <1>2, <1>7 DEF FramingType
<1>10. Stands(script, Len(requests), ctx, reading', parser, consumed)
  BY <1>1, <1>2, <1>4 DEF Stands
<1> QED
  BY <1>1, <1>2, <1>4, <1>8, <1>9, <1>10 DEF Framing

(* What is left of the bytes in the buffer. *)
LEMMA RestLaid ==
    ASSUME FramingInv, NEW n \in 0..Len(queue)
    PROVE  LET rest == SubSeq(queue, n + 1, Len(queue)) IN
           rest \in Seq(Byte) /\ Len(rest) = Len(queue) - n /\ Stretch(script, consumed + n, rest)
<1>1. queue \in Seq(Byte) /\ consumed \in Nat /\ Stretch(script, consumed, queue)
  BY FramingFacts DEF FramingInv, Framing, FramingType, InOrder
<1> QED
  BY <1>1, StretchCut

(* What a callback has used is dropped at its end. *)
LEMMA DropFraming ==
    ASSUME FramingInv, NEW n \in 0..Len(queue), Retrieve(n), reading = "ws" \/ (reading = "http" /\ n = fed),
           UNCHANGED <<wire, todo, script, parser, requests, ctx>>
    PROVE  Framing'
<1>1. queue' = SubSeq(queue, n + 1, Len(queue)) /\ consumed' = consumed + n /\ reading' = "no" /\ fed' = 0
  BY DEF Retrieve
<1>2. FramingType /\ InOrder /\ Heard(script, requests, Fed) /\ Stands(script, Len(requests), ctx, reading, parser, Fed)
  BY DEF FramingInv, Framing
<1>3. queue \in Seq(Byte) /\ Len(queue) \in Nat /\ wire \in Seq(Byte) /\ Len(wire) \in Nat /\ consumed \in Nat
      /\ Stretch(script, consumed, queue) /\ n \in Nat /\ Len(requests) \in Nat /\ Fed \in Nat /\ script \in Seq(Messages)
  BY <1>2, FramingFacts DEF FramingType, InOrder
<1>4. Len(queue') = Len(queue) - n /\ Stretch(script, consumed', queue')
  <2>1. Len(SubSeq(queue, n + 1, Len(queue))) = Len(queue) - n /\ Stretch(script, consumed + n, SubSeq(queue, n + 1, Len(queue)))
    BY RestLaid
  <2> QED
    BY <1>1, <2>1
<1>5. consumed' + Len(queue') = consumed + Len(queue) /\ consumed' \in Nat /\ Len(queue') \in Nat
  <2>1. \A c, l \in Nat : n <= l => (c + n) + (l - n) = c + l /\ c + n \in Nat /\ l - n \in Nat
    BY <1>3
  <2>2. n <= Len(queue)
    BY <1>3
  <2>3. \A x : x = Len(queue) - n => (consumed + n) + x = consumed + Len(queue) /\ consumed + n \in Nat /\ x \in Nat
    BY <1>3, <2>1, <2>2
  <2> QED
    BY <1>1, <1>4, <2>3
<1>6. InOrder'
  BY <1>2, <1>4, <1>5 DEF InOrder
<1>7. FramingType'
  BY <1>1, <1>2, <1>5 DEF FramingType
<1>8. Fed' = consumed + n /\ Fed' \in Nat
  BY <1>1, <1>3 DEF Fed
<1>9. CASE reading = "ws"
  <2>1. Fed <= Fed'
    BY <1>3, <1>8, <1>9, FramingFacts
  <2>2. Heard(script, requests, Fed')
    BY <1>2, <1>3, <1>8, <2>1, HeardStays
  <2>3. ~Due(script, Len(requests) + 1)
    BY <1>2, <1>9 DEF Stands
  <2>4. Stands(script, Len(requests), ctx, reading', parser, Fed')
    BY <2>3 DEF Stands
  <2> QED
    BY <1>6, <1>7, <2>2, <2>4 DEF Framing
<1>10. CASE reading = "http" /\ n = fed
  <2>1. Fed' = Fed
    BY <1>8, <1>10, FramingFacts
  <2>2. Stands(script, Len(requests), ctx, reading', parser, Fed)
    BY <1>1, <1>2 DEF Stands
  <2> QED
    BY <1>2, <1>6, <1>7, <2>1, <2>2 DEF Framing
<1> QED
  BY <1>9, <1>10

(* The parser takes the bytes of its request from the stream. *)
LEMMA FeedStands ==
    ASSUME NEW s \in Seq(Messages), NEW r \in Nat, NEW c, NEW rd, NEW p, NEW f \in Nat,
           Stands(s, r, c, rd, p, f), Due(s, r + 1), p.complete = FALSE,
           NEW bytes \in Seq(Byte), Stretch(s, f, bytes)
    PROVE  LET u == ParseUpTo(p, bytes).used IN
           u \in Nat /\ Goes(ParseUpTo(p, bytes), s[r + 1], (f + u) - EndsOf(s)[r]) /\ EndsOf(s)[r] <= f + u
<1> DEFINE m == s[r + 1]
           e == EndsOf(s)[r]
           g == EndsOf(s)[r + 1]
           n == Len(Bytes(m))
           k == f - e
           u == ParseUpTo(p, bytes).used
<1>1. m \in Messages /\ WellFormed(m) /\ r + 1 \in 1..Len(s) /\ e \in Nat /\ g \in Nat /\ e <= f
      /\ g = e + n /\ n \in Nat /\ p \in Parsers /\ Goes(p, m, k)
  BY StandsAt
<1>2. k \in Nat /\ f = e + k
  BY <1>1
<1>3. (r + 1) - 1 = r
  OBVIOUS
<1>4. \A x \in 1..Len(bytes) : e < f + x /\ f + x <= g => bytes[x] = Bytes(m)[(f + x) - e]
  BY <1>1, <1>3 DEF Stretch
<1> HIDE DEF m, e, g, n, k
<1>5. Len(bytes) \in Nat
  BY LenProperties
<1>6. \A x \in 1..Len(bytes) : k + x <= n => e < f + x /\ f + x <= g /\ (f + x) - e = k + x
  BY <1>1, <1>2, <1>5
<1>7. \A x \in 1..Len(bytes) : k + x <= n => bytes[x] = Bytes(m)[k + x]
  BY <1>4, <1>6
<1>8. Goes(ParseUpTo(p, bytes), m, k + u)
  BY <1>1, <1>2, <1>7, FeedGoes DEF n
<1>9. u \in Nat
  <2>1. u \in 0..Len(bytes)
    BY <1>1, FeedType
  <2> QED
    BY <1>5, <2>1
<1> HIDE DEF u
<1>10. (f + u) - e = k + u /\ e <= f + u
  BY <1>1, <1>2, <1>9
<1> QED
  BY <1>8, <1>9, <1>10 DEF m, e, u

(* feed keeps the framing. *)
LEMMA FeedFraming == ASSUME FramingInv, Feed PROVE Framing'
<1> DEFINE bytes == SubSeq(queue, fed + 1, Len(queue))
           p == ParseUpTo(parser, bytes)
           r == Len(requests)
<1>1. reading = "http" /\ ~parser.complete /\ parser' = p /\ fed' = fed + p.used
      /\ UNCHANGED <<wire, todo, script, queue, consumed, requests, ctx, reading>>
  BY FramingFacts DEF Feed
<1>2. FramingType /\ InOrder /\ Heard(script, requests, Fed) /\ Stands(script, r, ctx, reading, parser, Fed)
  BY DEF FramingInv, Framing
<1>3. Len(queue) \in Nat /\ consumed \in Nat /\ fed \in 0..Len(queue) /\ fed \in Nat /\ r \in Nat /\ Fed \in Nat
      /\ script \in Seq(Messages) /\ Fed = consumed + fed /\ parser \in Parsers
  BY <1>1, <1>2, FramingFacts DEF FramingType
<1>4. bytes \in Seq(Byte) /\ Len(bytes) = Len(queue) - fed /\ Stretch(script, Fed, bytes)
  BY <1>3, RestLaid
<1> HIDE DEF bytes
<1>5. p \in Parsers /\ p.used \in 0..Len(bytes)
  BY <1>3, <1>4, FeedType
<1>6. parser.complete = FALSE
  BY <1>1, <1>3 DEF Parsers
<1>7. Due(script, r + 1) => Goes(p, script[r + 1], (Fed + p.used) - EndsOf(script)[r]) /\ EndsOf(script)[r] <= Fed + p.used
  <2> HIDE DEF r
  <2> QED
    BY <1>2, <1>3, <1>4, <1>6, FeedStands
<1> DEFINE u == p.used
<1>8. u \in 0..(Len(queue) - fed) /\ fed' = fed + u
  BY <1>1, <1>4, <1>5
<1>9. Fed' = consumed + fed'
  BY <1>1 DEF Fed
<1> HIDE DEF p, u
<1>10. u \in Nat /\ fed + u \in Nat /\ fed + u <= Len(queue) /\ consumed + (fed + u) = (consumed + fed) + u
       /\ consumed + fed <= (consumed + fed) + u
  BY <1>3, <1>8
<1>11. Fed' = Fed + u /\ Fed <= Fed' /\ Fed' \in Nat
  BY <1>3, <1>8, <1>9, <1>10
<1>12. FramingType'
  BY <1>1, <1>2, <1>5, <1>8, <1>10 DEF FramingType
<1>13. InOrder'
  BY <1>1, <1>2 DEF InOrder
<1>14. Heard(script, requests, Fed')
  BY <1>2, <1>3, <1>11, HeardStays DEF r
<1>15. Stands(script, r, ctx, reading, p, Fed')
  BY <1>2, <1>7, <1>11 DEF Stands, u
<1> QED
  BY <1>1, <1>12, <1>13, <1>14, <1>15 DEF Framing, r

(* Where the parser of the connection is in its request. *)
LEMMA StandsNow ==
    ASSUME FramingInv, Due(script, Len(requests) + 1)
    PROVE  LET i == Len(requests) + 1 IN
           /\ script[i] \in Messages /\ WellFormed(script[i]) /\ EndsOf(script)[i] \in Nat
           /\ parser.complete = TRUE => Parsed(parser, script[i]) /\ Fed = EndsOf(script)[i]
           /\ parser.complete = FALSE => Fed < EndsOf(script)[i]
<1> DEFINE r == Len(requests)
           s == script
           f == Fed
           p == parser
<1>1. Stands(s, r, ctx, reading, p, f) /\ r \in Nat /\ s \in Seq(Messages) /\ f \in Nat /\ Due(s, r + 1)
  BY FramingFacts DEF FramingInv, Framing, FramingType
<1> HIDE DEF r, s, f, p
<1>2. s[r + 1] \in Messages /\ WellFormed(s[r + 1]) /\ EndsOf(s)[r + 1] \in Nat
  BY <1>1, StandsAt
<1>3. Reaches(p, s[r + 1], f, EndsOf(s)[r + 1])
  BY <1>1, StandsAt
<1> QED
  BY <1>2, <1>3 DEF r, s, f, p, Reaches

(* The callback gets the request, and a new parser starts behind it. *)
LEMMA CallbackFraming == ASSUME FramingInv, Callback PROVE Framing'
<1> DEFINE r == Len(requests)
           h == HandedOver(parser)
           rs == Append(requests, h)
<1>1. reading = "http" /\ parser.complete /\ requests' = rs /\ parser' = Fresh
      /\ (~IsUpgrade(parser) => ctx' = ctx)
      /\ UNCHANGED <<wire, todo, script, queue, consumed, fed, reading>>
  BY DEF Callback, HandedOver
<1>2. FramingType /\ InOrder /\ Heard(script, requests, Fed) /\ Stands(script, r, ctx, reading, parser, Fed)
  BY DEF FramingInv, Framing
<1>3. r \in Nat /\ Fed \in Nat /\ script \in Seq(Messages) /\ parser \in Parsers
      /\ requests \in Seq({requests[i] : i \in DOMAIN requests})
  BY <1>2, FramingFacts DEF FramingType
<1> HIDE DEF h
<1>4. rs \in Seq({rs[i] : i \in DOMAIN rs}) /\ DOMAIN rs = 1..(r + 1) /\ rs[r + 1] = h /\ \A i \in 1..r : rs[i] = requests[i]
  BY <1>3, AppendAny
<1>5. Len(rs) = r + 1
  BY <1>3, <1>4, LenProperties
<1> HIDE DEF rs
<1>6. Fed' = Fed
  BY <1>1 DEF Fed
<1>7. Fresh \in Parsers
  BY DEF Fresh, Parsers, States
<1>8. FramingType'
  BY <1>1, <1>2, <1>4, <1>7 DEF FramingType
<1>9. InOrder'
  BY <1>1, <1>2 DEF InOrder
<1>10. parser.complete = TRUE
  BY <1>1, <1>3 DEF Parsers
<1>11. ASSUME Due(script, r + 1)
       PROVE  Fed = EndsOf(script)[r + 1] /\ SameRequest(h, script[r + 1]) /\ ctx = "http"
              /\ (~Upgrades(script[r + 1]) => ~IsUpgrade(parser)) /\ EndsOf(script)[r + 1] \in Nat
  <2>1. Fed = EndsOf(script)[r + 1] /\ Parsed(parser, script[r + 1]) /\ script[r + 1] \in Messages
        /\ WellFormed(script[r + 1]) /\ EndsOf(script)[r + 1] \in Nat
    BY <1>10, <1>11, StandsNow
  <2>2. ctx = "http"
    BY <1>2, <1>11 DEF Stands
  <2> QED
    BY <2>1, <2>2, ParsedIs DEF h
<1>12. Heard(script, rs, Fed)
  <2> SUFFICES ASSUME NEW i \in 1..(r + 1), Due(script, i)
               PROVE  EndsOf(script)[i] <= Fed /\ SameRequest(rs[i], script[i])
    BY <1>5 DEF Heard
  <2>1. CASE i \in 1..r
    BY <1>2, <1>4, <2>1 DEF Heard
  <2>2. CASE i = r + 1
    <3>1. Fed = EndsOf(script)[i] /\ SameRequest(rs[i], script[i]) /\ Fed \in Nat
      BY <1>3, <1>4, <1>11, <2>2
    <3> QED
      BY <3>1
  <2> QED
    BY <1>3, <2>1, <2>2
<1>13. Stands(script, r + 1, ctx', reading, Fresh, Fed)
  <2> SUFFICES ASSUME Due(script, (r + 1) + 1)
               PROVE  ctx' = "http" /\ EndsOf(script)[r + 1] <= Fed
                      /\ Goes(Fresh, script[(r + 1) + 1], Fed - EndsOf(script)[r + 1])
    BY <1>1 DEF Stands
  <2> HIDE DEF r
  <2>1. r + 1 \in 1..((r + 1) + 1) /\ (r + 1) + 1 \in 1..((r + 1) + 1) /\ r + 1 < (r + 1) + 1
    BY <1>3
  <2>2. Due(script, r + 1) /\ ~Upgrades(script[r + 1])
    BY <1>3, <2>1, DueBefore
  <2>3. WellFormed(script[(r + 1) + 1])
    BY <1>3, <2>1, DueBefore
  <2>4. Fed = EndsOf(script)[r + 1] /\ ctx' = "http"
    BY <1>1, <1>11, <2>2
  <2>5. Fed - EndsOf(script)[r + 1] = 0 /\ EndsOf(script)[r + 1] <= Fed
    BY <1>3, <2>4
  <2> QED
    BY <2>3, <2>4, <2>5, FreshGoes
<1> QED
  BY <1>1, <1>5, <1>6, <1>8, <1>9, <1>12, <1>13 DEF Framing

(* Every step keeps the framing. *)
LEMMA FramingStep == FramingInv /\ [Next]_vars => FramingInv'
<1> SUFFICES ASSUME FramingInv, [Next]_vars PROVE FramingInv'
  OBVIOUS
<1>1. StreamType' /\ BufferExact'
  BY StreamStep DEF FramingInv
<1>2. CASE ClientSend
  BY <1>1, <1>2, SendFraming DEF FramingInv
<1>3. ASSUME NEW n \in 1..Len(wire), Read(n) PROVE FramingInv'
  BY <1>1, <1>3, ReadFraming DEF FramingInv
<1>4. CASE Feed
  BY <1>1, <1>4, FeedFraming DEF FramingInv
<1>5. CASE FeedEnd
  <2>1. reading = "http" /\ Retrieve(fed) /\ UNCHANGED <<wire, todo, script, parser, requests, ctx>>
    BY <1>5 DEF FeedEnd
  <2>2. fed \in 0..Len(queue)
    BY FramingFacts DEF FramingInv, Framing, FramingType
  <2>3. Framing'
    BY <2>1, <2>2, DropFraming
  <2> QED
    BY <1>1, <2>3 DEF FramingInv
<1>6. CASE Callback
  BY <1>1, <1>6, CallbackFraming DEF FramingInv
<1>7. CASE WsFeed
  <2> DEFINE n == Decode(queue).used
  <2>1. reading = "ws" /\ Retrieve(n) /\ UNCHANGED <<wire, todo, script, parser, requests, ctx>>
    BY <1>7, FramingFacts DEF WsFeed
  <2>2. n \in 0..Len(queue)
    BY FramingFacts, DecodeUsed
  <2> HIDE DEF n
  <2>3. Framing'
    BY <2>1, <2>2, DropFraming
  <2> QED
    BY <1>1, <2>3 DEF FramingInv
<1>8. CASE HandleWrite \/ UNCHANGED vars
  <2>1. UNCHANGED <<wire, todo, script, queue, consumed, fed, reading, parser, requests, ctx>>
    BY <1>8 DEF HandleWrite, vars
  <2>2. FramingType' /\ InOrder' /\ Fed' = Fed
    BY <2>1 DEF FramingInv, Framing, FramingType, InOrder, Fed
  <2>3. Heard(script, requests, Fed) /\ Stands(script, Len(requests), ctx, reading, parser, Fed)
    BY DEF FramingInv, Framing
  <2> QED
    BY <1>1, <2>1, <2>2, <2>3 DEF FramingInv, Framing
<1> QED
  BY <1>2, <1>3, <1>4, <1>5, <1>6, <1>7, <1>8 DEF Next

(* A request has been handed over, or waits for the callback, exactly when *)
(* its last byte was fed.                                                  *)
LEMMA Framed == FramingInv => RequestsFramed
<1> DEFINE r == Len(requests)
           done == r + (IF parser.complete THEN 1 ELSE 0)
           E == EndsOf(script)
<1> SUFFICES ASSUME FramingInv, NEW i \in DOMAIN script, Plain(i)
             PROVE  (done >= i <=> Ends[i] <= Fed) /\ (r >= i => SameRequest(requests[i], script[i]))
  BY DEF RequestsFramed
<1>1. Ends = E
  BY Zenon DEF Ends, EndsOf
<1>2. Heard(script, requests, Fed) /\ Stands(script, r, ctx, reading, parser, Fed)
  BY DEF FramingInv, Framing
<1>3. r \in Nat /\ Fed \in Nat /\ script \in Seq(Messages) /\ parser \in Parsers /\ Len(script) \in Nat
  BY FramingFacts DEF FramingInv, Framing, FramingType
<1>4. i \in 1..Len(script) /\ Due(script, i) /\ i \in Nat
  <2>1. i \in 1..Len(script)
    BY <1>3, LenProperties
  <2> QED
    BY <2>1 DEF Due, Plain
<1>5. parser.complete \in BOOLEAN
  BY <1>3 DEF Parsers
<1> HIDE DEF r
<1>6. \A k \in 1..i : Due(script, k)
  BY <1>3, <1>4, DueBefore
<1>7. \A k \in 1..i : E[k] <= E[i] /\ E[k] \in Nat
  <2>1. \A k \in 1..i : k \in 0..Len(script) /\ k <= i
    BY <1>3, <1>4
  <2>2. i \in 0..Len(script)
    BY <1>4
  <2> QED
    BY <1>3, <2>1, <2>2, EndsGrow, EndsAre
<1>8. CASE i <= r
  <2>1. i \in 1..r
    BY <1>3, <1>4, <1>8
  <2>2. E[i] <= Fed /\ SameRequest(requests[i], script[i])
    BY <1>2, <1>4, <2>1 DEF Heard, r
  <2>3. done >= i
    BY <1>3, <1>4, <1>8
  <2> QED
    BY <1>1, <2>2, <2>3
<1>9. CASE ~(i <= r)
  <2>1. r + 1 \in 1..i /\ ~(r >= i)
    BY <1>3, <1>4, <1>9
  <2>2. Due(script, r + 1)
    BY <1>6, <2>1
  <2>3. /\ parser.complete = TRUE => Fed = E[r + 1]
        /\ parser.complete = FALSE => Fed < E[r + 1]
    BY <2>2, StandsNow DEF r
  <2>4. CASE parser.complete = FALSE
    <3>1. ~(done >= i)
      BY <1>3, <1>4, <1>9, <2>4
    <3>2. Fed < E[r + 1] /\ E[r + 1] <= E[i] /\ E[r + 1] \in Nat /\ E[i] \in Nat
      <4>1. i \in 1..i
        BY <1>4
      <4> QED
        BY <1>7, <2>1, <2>3, <2>4, <4>1
    <3>3. ~(E[i] <= Fed)
      <4> HIDE DEF E
      <4> QED
        BY <1>3, <3>2
    <3> QED
      BY <1>1, <2>1, <3>1, <3>3
  <2>5. CASE parser.complete = TRUE /\ i = r + 1
    <3>1. done >= i
      BY <1>3, <2>5
    <3>2. E[i] <= Fed
      BY <1>3, <2>3, <2>5
    <3> QED
      BY <1>1, <2>1, <3>1, <3>2
  <2>6. CASE parser.complete = TRUE /\ i # r + 1
    <3>1. ~(done >= i) /\ r + 2 \in 1..i /\ r + 2 \in 1..Len(script) /\ (r + 2) - 1 = r + 1
      BY <1>3, <1>4, <1>9, <2>6
    <3>2. Due(script, r + 2)
      BY <1>6, <3>1
    <3>3. E[r + 2] = E[r + 1] + Len(Bytes(script[r + 2]))
      BY <1>3, <3>1, EndsAre
    <3>4. Len(Bytes(script[r + 2])) \in Nat /\ 0 < Len(Bytes(script[r + 2]))
      <4>1. WellFormed(script[r + 2])
        BY <3>1, <3>2 DEF Due
      <4>2. HeadsAt(script[r + 2]) \in Nat /\ Len(Bytes(script[r + 2])) \in Nat /\ HeadsAt(script[r + 2]) < Len(Bytes(script[r + 2]))
        BY <4>1, FirstBytes
      <4> QED
        BY <4>2
    <3>5. E[r + 2] <= E[i] /\ E[i] \in Nat /\ E[r + 1] \in Nat /\ E[r + 2] \in Nat /\ Fed = E[r + 1]
      <4>1. i \in 1..i
        BY <1>4
      <4> QED
        BY <1>7, <2>1, <2>3, <2>6, <3>1, <4>1
    <3>6. ~(E[i] <= Fed)
      <4> HIDE DEF E
      <4> QED
        BY <3>3, <3>4, <3>5
    <3> QED
      BY <1>1, <2>1, <3>1, <3>6
  <2> QED
    BY <1>5, <2>4, <2>5, <2>6
<1> QED
  BY <1>8, <1>9

(* RequestsFramed: wherever TCP cuts the stream, the callback gets each    *)
(* request once its last byte was fed, in order and as the client sent it  *)
(* (HttpParser::feed, reset between pipelined requests).                   *)
THEOREM RequestsKept == Spec => []RequestsFramed
<1>1. FramingInv => RequestsFramed
  BY Framed
<1>2. Init => FramingInv
  BY FramingInit
<1>3. FramingInv /\ [Next]_vars => FramingInv'
  BY FramingStep
<1> QED
  BY <1>1, <1>2, <1>3, PTL DEF Spec

-------------------------------------------------------------------------------
(* Masks and lengths *)

(* The bits of a byte. *)
LEMMA BitsOf ==
    ASSUME NEW a \in 0..255
    PROVE  /\ Bit(a, 0) \in {0, 1} /\ Bit(a, 1) \in {0, 1} /\ Bit(a, 2) \in {0, 1} /\ Bit(a, 3) \in {0, 1}
           /\ Bit(a, 4) \in {0, 1} /\ Bit(a, 5) \in {0, 1} /\ Bit(a, 6) \in {0, 1} /\ Bit(a, 7) \in {0, 1}
           /\ a = Bit(a, 0) + 2 * Bit(a, 1) + 4 * Bit(a, 2) + 8 * Bit(a, 3) + 16 * Bit(a, 4)
                  + 32 * Bit(a, 5) + 64 * Bit(a, 6) + 128 * Bit(a, 7)
<1>1. 2 ^ 0 = 1 /\ 2 ^ 1 = 2 /\ 2 ^ 2 = 4 /\ 2 ^ 3 = 8 /\ 2 ^ 4 = 16 /\ 2 ^ 5 = 32 /\ 2 ^ 6 = 64 /\ 2 ^ 7 = 128
  OBVIOUS
<1>2. Bit(a, 0) = (a \div 1) % 2 /\ Bit(a, 1) = (a \div 2) % 2 /\ Bit(a, 2) = (a \div 4) % 2 /\ Bit(a, 3) = (a \div 8) % 2
      /\ Bit(a, 4) = (a \div 16) % 2 /\ Bit(a, 5) = (a \div 32) % 2 /\ Bit(a, 6) = (a \div 64) % 2 /\ Bit(a, 7) = (a \div 128) % 2
  BY <1>1 DEF Bit
<1>3. a = 2 * (a \div 2) + ((a \div 1) % 2) /\ a \div 2 = 2 * (a \div 4) + ((a \div 2) % 2)
      /\ a \div 4 = 2 * (a \div 8) + ((a \div 4) % 2) /\ a \div 8 = 2 * (a \div 16) + ((a \div 8) % 2)
  OBVIOUS
<1>4. a \div 16 = 2 * (a \div 32) + ((a \div 16) % 2) /\ a \div 32 = 2 * (a \div 64) + ((a \div 32) % 2)
      /\ a \div 64 = 2 * (a \div 128) + ((a \div 64) % 2) /\ a \div 128 = (a \div 128) % 2
  OBVIOUS
<1>5. \A x \in Nat : x % 2 \in {0, 1}
  OBVIOUS
<1>6. a \div 1 \in Nat /\ a \div 2 \in Nat /\ a \div 4 \in Nat /\ a \div 8 \in Nat /\ a \div 16 \in Nat
      /\ a \div 32 \in Nat /\ a \div 64 \in Nat /\ a \div 128 \in Nat
  OBVIOUS
<1>7. /\ Bit(a, 0) \in {0, 1} /\ Bit(a, 1) \in {0, 1} /\ Bit(a, 2) \in {0, 1} /\ Bit(a, 3) \in {0, 1}
      /\ Bit(a, 4) \in {0, 1} /\ Bit(a, 5) \in {0, 1} /\ Bit(a, 6) \in {0, 1} /\ Bit(a, 7) \in {0, 1}
  BY <1>2, <1>5, <1>6
<1>8. a = Bit(a, 0) + 2 * Bit(a, 1) + 4 * Bit(a, 2) + 8 * Bit(a, 3) + 16 * Bit(a, 4)
              + 32 * Bit(a, 5) + 64 * Bit(a, 6) + 128 * Bit(a, 7)
  BY <1>2, <1>3, <1>4
<1> QED
  BY <1>7, <1>8

(* A byte is made of its bits. *)
LEMMA BitsMake ==
    ASSUME NEW b0 \in {0, 1}, NEW b1 \in {0, 1}, NEW b2 \in {0, 1}, NEW b3 \in {0, 1},
           NEW b4 \in {0, 1}, NEW b5 \in {0, 1}, NEW b6 \in {0, 1}, NEW b7 \in {0, 1}
    PROVE  LET x == b0 + 2 * b1 + 4 * b2 + 8 * b3 + 16 * b4 + 32 * b5 + 64 * b6 + 128 * b7 IN
           /\ x \in 0..255
           /\ Bit(x, 0) = b0 /\ Bit(x, 1) = b1 /\ Bit(x, 2) = b2 /\ Bit(x, 3) = b3
           /\ Bit(x, 4) = b4 /\ Bit(x, 5) = b5 /\ Bit(x, 6) = b6 /\ Bit(x, 7) = b7
<1> DEFINE x == b0 + 2 * b1 + 4 * b2 + 8 * b3 + 16 * b4 + 32 * b5 + 64 * b6 + 128 * b7
<1>1. 2 ^ 0 = 1 /\ 2 ^ 1 = 2 /\ 2 ^ 2 = 4 /\ 2 ^ 3 = 8 /\ 2 ^ 4 = 16 /\ 2 ^ 5 = 32 /\ 2 ^ 6 = 64 /\ 2 ^ 7 = 128
  OBVIOUS
<1>2. x \in 0..255
  OBVIOUS
<1>3. (x \div 1) % 2 = b0 /\ (x \div 2) % 2 = b1 /\ (x \div 4) % 2 = b2 /\ (x \div 8) % 2 = b3
      /\ (x \div 16) % 2 = b4 /\ (x \div 32) % 2 = b5 /\ (x \div 64) % 2 = b6 /\ (x \div 128) % 2 = b7
  OBVIOUS
<1> HIDE DEF x
<1>4. Bit(x, 0) = b0 /\ Bit(x, 1) = b1 /\ Bit(x, 2) = b2 /\ Bit(x, 3) = b3
      /\ Bit(x, 4) = b4 /\ Bit(x, 5) = b5 /\ Bit(x, 6) = b6 /\ Bit(x, 7) = b7
  BY <1>1, <1>3 DEF Bit
<1> QED
  BY <1>2, <1>4 DEF x

(* Xor adds bit by bit. *)
LEMMA XorIs ==
    ASSUME NEW a \in 0..255, NEW b \in 0..255
    PROVE  LET d(k) == (Bit(a, k) + Bit(b, k)) % 2 IN
           Xor(a, b) = d(0) + 2 * d(1) + 4 * d(2) + 8 * d(3) + 16 * d(4) + 32 * d(5) + 64 * d(6) + 128 * d(7)
<1> DEFINE d(k) == (Bit(a, k) + Bit(b, k)) % 2
           low == [k \in 0..8 |->
                     IF k = 0 THEN 0
                     ELSE IF k = 1 THEN d(0)
                     ELSE IF k = 2 THEN d(0) + d(1) * 2
                     ELSE IF k = 3 THEN d(0) + d(1) * 2 + d(2) * 4
                     ELSE IF k = 4 THEN d(0) + d(1) * 2 + d(2) * 4 + d(3) * 8
                     ELSE IF k = 5 THEN d(0) + d(1) * 2 + d(2) * 4 + d(3) * 8 + d(4) * 16
                     ELSE IF k = 6 THEN d(0) + d(1) * 2 + d(2) * 4 + d(3) * 8 + d(4) * 16 + d(5) * 32
                     ELSE IF k = 7 THEN d(0) + d(1) * 2 + d(2) * 4 + d(3) * 8 + d(4) * 16 + d(5) * 32 + d(6) * 64
                     ELSE d(0) + d(1) * 2 + d(2) * 4 + d(3) * 8 + d(4) * 16 + d(5) * 32 + d(6) * 64 + d(7) * 128]
           Is(g) == g = [k \in 0..8 |-> IF k = 0 THEN 0 ELSE g[k - 1] + ((Bit(a, k - 1) + Bit(b, k - 1)) % 2) * 2 ^ (k - 1)]
           f == CHOOSE g : Is(g)
<1>1. d(0) \in {0, 1} /\ d(1) \in {0, 1} /\ d(2) \in {0, 1} /\ d(3) \in {0, 1}
      /\ d(4) \in {0, 1} /\ d(5) \in {0, 1} /\ d(6) \in {0, 1} /\ d(7) \in {0, 1}
  BY BitsOf
<1>2. 2 ^ 0 = 1 /\ 2 ^ 1 = 2 /\ 2 ^ 2 = 4 /\ 2 ^ 3 = 8 /\ 2 ^ 4 = 16 /\ 2 ^ 5 = 32 /\ 2 ^ 6 = 64 /\ 2 ^ 7 = 128
  OBVIOUS
<1>3. Xor(a, b) = f[8]
  BY Zenon DEF Xor
<1> HIDE DEF d
<1>4. \A k \in 0..8 : k # 0 => low[k] = low[k - 1] + d(k - 1) * 2 ^ (k - 1)
  <2>1. \A k \in 0..8 : \/ k = 0 \/ (k = 1 /\ k - 1 = 0) \/ (k = 2 /\ k - 1 = 1) \/ (k = 3 /\ k - 1 = 2)
                         \/ (k = 4 /\ k - 1 = 3) \/ (k = 5 /\ k - 1 = 4) \/ (k = 6 /\ k - 1 = 5)
                         \/ (k = 7 /\ k - 1 = 6) \/ (k = 8 /\ k - 1 = 7)
    OBVIOUS
  <2>2. low[1] = low[0] + d(0) * 2 ^ 0 /\ low[2] = low[1] + d(1) * 2 ^ 1 /\ low[3] = low[2] + d(2) * 2 ^ 2
        /\ low[4] = low[3] + d(3) * 2 ^ 3 /\ low[5] = low[4] + d(4) * 2 ^ 4 /\ low[6] = low[5] + d(5) * 2 ^ 5
        /\ low[7] = low[6] + d(6) * 2 ^ 6 /\ low[8] = low[7] + d(7) * 2 ^ 7
    BY <1>1, <1>2
  <2> HIDE DEF low
  <2> SUFFICES ASSUME NEW k \in 0..8, k # 0 PROVE low[k] = low[k - 1] + d(k - 1) * 2 ^ (k - 1)
    OBVIOUS
  <2>3. CASE k = 1 /\ k - 1 = 0
    BY <2>2, <2>3
  <2>4. CASE k = 2 /\ k - 1 = 1
    BY <2>2, <2>4
  <2>5. CASE k = 3 /\ k - 1 = 2
    BY <2>2, <2>5
  <2>6. CASE k = 4 /\ k - 1 = 3
    BY <2>2, <2>6
  <2>7. CASE k = 5 /\ k - 1 = 4
    BY <2>2, <2>7
  <2>8. CASE k = 6 /\ k - 1 = 5
    BY <2>2, <2>8
  <2>9. CASE k = 7 /\ k - 1 = 6
    BY <2>2, <2>9
  <2>10. CASE k = 8 /\ k - 1 = 7
    BY <2>2, <2>10
  <2> QED
    BY <2>1, <2>3, <2>4, <2>5, <2>6, <2>7, <2>8, <2>9, <2>10
<1>5. Is(low)
  <2>1. low[0] = 0 /\ low = [k \in 0..8 |-> low[k]]
    OBVIOUS
  <2> HIDE DEF low
  <2> QED
    BY <1>4, <2>1 DEF d
<1>6. Is(f)
  <2> HIDE DEF low, Is
  <2> QED
    BY <1>5 DEF f
<1> HIDE DEF f
<1>7. f[0] = 0 /\ \A k \in 0..8 : k # 0 => f[k] = f[k - 1] + d(k - 1) * 2 ^ (k - 1)
  BY <1>6 DEF d
<1>8. f[1] = f[0] + d(0) * 2 ^ 0 /\ f[2] = f[1] + d(1) * 2 ^ 1 /\ f[3] = f[2] + d(2) * 2 ^ 2
      /\ f[4] = f[3] + d(3) * 2 ^ 3 /\ f[5] = f[4] + d(4) * 2 ^ 4 /\ f[6] = f[5] + d(5) * 2 ^ 5
      /\ f[7] = f[6] + d(6) * 2 ^ 6 /\ f[8] = f[7] + d(7) * 2 ^ 7
  BY <1>7
<1>9. f[8] = d(0) + 2 * d(1) + 4 * d(2) + 8 * d(3) + 16 * d(4) + 32 * d(5) + 64 * d(6) + 128 * d(7)
  BY <1>1, <1>2, <1>7, <1>8
<1> QED
  BY <1>3, <1>9 DEF d

(* Masking a byte twice with the same key gives it back. *)
LEMMA XorTwice ==
    ASSUME NEW a \in 0..255, NEW b \in 0..255
    PROVE  Xor(a, b) \in 0..255 /\ Xor(Xor(a, b), b) = a
<1> DEFINE d(k) == (Bit(a, k) + Bit(b, k)) % 2
           x == Xor(a, b)
           e(k) == (Bit(x, k) + Bit(b, k)) % 2
<1>1. x = d(0) + 2 * d(1) + 4 * d(2) + 8 * d(3) + 16 * d(4) + 32 * d(5) + 64 * d(6) + 128 * d(7)
  BY XorIs
<1>2. d(0) \in {0, 1} /\ d(1) \in {0, 1} /\ d(2) \in {0, 1} /\ d(3) \in {0, 1}
      /\ d(4) \in {0, 1} /\ d(5) \in {0, 1} /\ d(6) \in {0, 1} /\ d(7) \in {0, 1}
  BY BitsOf
<1>3. x \in 0..255 /\ Bit(x, 0) = d(0) /\ Bit(x, 1) = d(1) /\ Bit(x, 2) = d(2) /\ Bit(x, 3) = d(3)
      /\ Bit(x, 4) = d(4) /\ Bit(x, 5) = d(5) /\ Bit(x, 6) = d(6) /\ Bit(x, 7) = d(7)
  <2> HIDE DEF d, x
  <2> QED
    BY <1>1, <1>2, BitsMake
<1>4. \A p, q \in {0, 1} : (((p + q) % 2) + q) % 2 = p
  OBVIOUS
<1>5. e(0) = Bit(a, 0) /\ e(1) = Bit(a, 1) /\ e(2) = Bit(a, 2) /\ e(3) = Bit(a, 3)
      /\ e(4) = Bit(a, 4) /\ e(5) = Bit(a, 5) /\ e(6) = Bit(a, 6) /\ e(7) = Bit(a, 7)
  BY <1>3, <1>4, BitsOf
<1>6. Xor(x, b) = e(0) + 2 * e(1) + 4 * e(2) + 8 * e(3) + 16 * e(4) + 32 * e(5) + 64 * e(6) + 128 * e(7)
  <2> HIDE DEF x
  <2> QED
    BY <1>3, XorIs
<1>7. Xor(x, b) = a
  BY <1>5, <1>6, BitsOf
<1> QED
  BY <1>3, <1>7

(* A length, shifted byte by byte. *)
LEMMA ShiftIs ==
    ASSUME NEW len \in Nat
    PROVE  /\ Shift(len)[0] = len
           /\ \A i \in 1..8 : Shift(len)[i] = Shift(len)[i - 1] \div Base
           /\ \A i \in 0..8 : Shift(len)[i] \in Nat
<1> DEFINE Is(g) == g = [i \in 0..8 |-> IF i = 0 THEN len ELSE g[i - 1] \div Base]
           step == [i \in 1..8 |-> [x \in Nat |-> x \div Base]]
           f == CHOOSE g : Is(g)
<1>1. \A x \in Nat : x \div Base \in Nat
  BY StreamAssumption
<1>2. step \in [1..8 -> [Nat -> Nat]]
  BY <1>1
<1>3. PICK g \in [0..8 -> Nat] : g[0] = len /\ \A i \in 1..8 : g[i] = step[i][g[i - 1]]
  <2>1. \E g : ByRecursion(g, 8, Nat, len, step)
    <3> HIDE DEF step
    <3> QED
      BY <1>2, RecursionExists
  <2> QED
    BY <2>1 DEF ByRecursion
<1>4. \A i \in 0..8 : i # 0 => i \in 1..8 /\ i - 1 \in 0..8
  OBVIOUS
<1>5. \A i \in 0..8 : i # 0 => g[i] = g[i - 1] \div Base
  BY <1>3, <1>4
<1>6. Is(g)
  BY <1>3, <1>5
<1>7. Is(f)
  BY <1>6
<1> HIDE DEF f
<1>8. f[0] = len /\ \A i \in 1..8 : f[i] = f[i - 1] \div Base
  <2>1. 0 \in 0..8 /\ \A i \in 1..8 : i \in 0..8 /\ i # 0
    OBVIOUS
  <2> QED
    BY <1>7, <2>1
<1> DEFINE T == {i \in Nat : f[i] \in Nat}
<1>9. \A i \in 0..8 : i \in T
  <2>1. 0 \in T
    BY <1>8
  <2>2. ASSUME NEW i \in 1..8, i - 1 \in T PROVE i \in T
    <3>1. i \in Nat /\ f[i - 1] \in Nat /\ f[i] = f[i - 1] \div Base
      BY <1>8, <2>2
    <3> QED
      BY <1>1, <3>1
  <2> HIDE DEF T
  <2> QED
    BY <2>1, <2>2, Along
<1>10. f = Shift(len)
  BY Zenon DEF Shift, f
<1> QED
  BY <1>8, <1>9, <1>10

(* A length that fits into n bytes is the number they stand for. *)
LEMMA BigEndianOf ==
    ASSUME NEW len \in Nat, NEW n \in 0..8, Shift(len)[n] = 0, NEW bytes \in Seq(Nat), Len(bytes) = n,
           \A i \in 1..n : bytes[i] = Shift(len)[n - i] % Base
    PROVE  BigEndian(bytes) = len
<1> DEFINE s == Shift(len)
           Is(g) == g = [i \in 0..n |-> IF i = 0 THEN 0 ELSE Base * g[i - 1] + bytes[i]]
           h == [i \in 0..n |-> s[n - i]]
           f == CHOOSE g : Is(g)
<1>0. n \in Nat
  OBVIOUS
<1>1. s[0] = len /\ (\A i \in 1..8 : s[i] = s[i - 1] \div Base) /\ \A i \in 0..8 : s[i] \in Nat
  BY ShiftIs
<1>2. s[n] = 0 /\ \A i \in 1..n : bytes[i] = s[n - i] % Base
  OBVIOUS
<1> HIDE DEF s
<1>3. \A x \in Nat : x = Base * (x \div Base) + (x % Base)
  BY StreamAssumption
<1>4. ASSUME NEW i \in 1..n PROVE s[n - i] = Base * s[n - (i - 1)] + bytes[i]
  <2> DEFINE x == s[n - i]
  <2>1. n - i \in 0..8 /\ n - (i - 1) \in 1..8 /\ (n - (i - 1)) - 1 = n - i
    OBVIOUS
  <2>2. x \in Nat /\ bytes[i] = x % Base /\ s[n - (i - 1)] = x \div Base
    BY <1>1, <1>2, <2>1
  <2> QED
    BY <1>3, <2>2
<1>5. Is(h)
  <2>1. \A i \in 0..n : i # 0 => i \in 1..n /\ i - 1 \in 0..n
    OBVIOUS
  <2>2. h[0] = 0
    BY <1>2
  <2>3. \A i \in 0..n : i # 0 => h[i] = Base * h[i - 1] + bytes[i]
    BY <1>4, <2>1
  <2>4. h = [i \in 0..n |-> h[i]]
    OBVIOUS
  <2> HIDE DEF h
  <2> QED
    BY <2>2, <2>3, <2>4
<1>6. Is(f)
  <2> HIDE DEF h
  <2> QED
    BY <1>5
<1>7. BigEndian(bytes) = f[n]
  BY Zenon DEF BigEndian, f
<1> HIDE DEF f
<1>8. f[0] = 0 /\ \A i \in 1..n : f[i] = Base * f[i - 1] + bytes[i]
  <2>1. 0 \in 0..n /\ \A i \in 1..n : i \in 0..n /\ i # 0
    OBVIOUS
  <2> QED
    BY <1>6, <2>1
<1> DEFINE T == {i \in Nat : i <= n => f[i] = s[n - i]}
<1>9. \A i \in 0..n : i \in T
  <2>1. 0 \in T
    BY <1>2, <1>8
  <2>2. ASSUME NEW i \in 1..n, i - 1 \in T PROVE i \in T
    <3>1. f[i - 1] = s[n - (i - 1)] /\ i \in Nat
      BY <2>2
    <3>2. f[i] = s[n - i]
      BY <1>4, <1>8, <3>1
    <3> QED
      BY <3>1, <3>2
  <2> HIDE DEF T
  <2> QED
    BY <1>0, <2>1, <2>2, Along
<1>10. f[n] = s[0]
  <2>1. n \in T /\ n - n = 0
    BY <1>9
  <2> QED
    BY <2>1
<1> QED
  BY <1>1, <1>7, <1>10

-------------------------------------------------------------------------------
(* The codec *)

(* The 7 bits of a length, and the bytes that extend them. *)
Len7(len) == IF len <= Short THEN len ELSE IF len < Base * Base THEN Short + 1 ELSE Short + 2
ExtOf(len) == IF len <= Short THEN 0 ELSE IF len < Base * Base THEN 2 ELSE 8

(* The length fits into them. *)
LEMMA LengthForm ==
    ASSUME NEW len \in Nat, Shift(len)[8] = 0
    PROVE  /\ Len7(len) \in Nat /\ Len7(len) < Short + 3 /\ ExtOf(len) \in {0, 2, 8} /\ ExtOf(len) \in 0..8
           /\ Extended(Len7(len)) = ExtOf(len)
           /\ ExtOf(len) = 0 => Len7(len) = len
           /\ ExtOf(len) # 0 => Shift(len)[ExtOf(len)] = 0
<1>1. Short \in Nat /\ Base \in Nat \ {0}
  BY StreamAssumption
<1>2. Len7(len) \in Nat /\ Len7(len) < Short + 3 /\ ExtOf(len) \in {0, 2, 8} /\ ExtOf(len) \in 0..8
      /\ (ExtOf(len) = 0 => Len7(len) = len)
  BY <1>1 DEF Len7, ExtOf
<1>3. Extended(Len7(len)) = ExtOf(len)
  BY <1>1 DEF Len7, ExtOf, Extended
<1>4. ASSUME len < Base * Base PROVE Shift(len)[2] = 0
  <2>1. Shift(len)[0] = len /\ Shift(len)[1] = Shift(len)[0] \div Base /\ Shift(len)[2] = Shift(len)[1] \div Base
    <3>1. 1 \in 1..8 /\ 2 \in 1..8 /\ 1 - 1 = 0 /\ 2 - 1 = 1
      OBVIOUS
    <3>2. \A i \in 1..8 : Shift(len)[i] = Shift(len)[i - 1] \div Base
      BY ShiftIs
    <3>3. Shift(len)[0] = len
      BY ShiftIs
    <3> QED
      BY <3>1, <3>2, <3>3
  <2>2. len \div Base < Base /\ len \div Base \in Nat
    BY <1>1, <1>4
  <2>3. \A x \in Nat : x < Base => x \div Base = 0
    BY <1>1
  <2> QED
    BY <2>1, <2>2, <2>3
<1>5. ExtOf(len) # 0 => Shift(len)[ExtOf(len)] = 0
  BY <1>4 DEF ExtOf
<1> QED
  BY <1>2, <1>3, <1>5

(* The bytes b are those of a frame, masked or not. *)
HeadOf(len, masked) == 2 + ExtOf(len) + (IF masked THEN 4 ELSE 0)
Encodes(b, op, masked, payload) ==
    LET len == Len(payload)
        ext == ExtOf(len)
        h == HeadOf(len, masked)
    IN  /\ b \in Seq(Nat) /\ Len(b) = h + len /\ b[1] = 128 + op
        /\ b[2] = Len7(len) + (IF masked THEN Short + 3 ELSE 0)
        /\ \A i \in 1..ext : b[2 + i] = Shift(len)[ext - i] % Base
        /\ masked => \A i \in 1..4 : b[(2 + ext) + i] = Key[i]
        /\ masked => \A i \in 1..len : b[h + i] = Xor(payload[i], Key[((i - 1) % 4) + 1])
        /\ ~masked => \A i \in 1..len : b[h + i] = payload[i]

(* The bytes of an extended length. *)
LEMMA ToBytesIs ==
    ASSUME NEW len \in Nat, NEW n \in 0..8
    PROVE  /\ ToBytes(len, n) \in Seq(Nat) /\ Len(ToBytes(len, n)) = n
           /\ \A i \in 1..n : ToBytes(len, n)[i] = Shift(len)[n - i] % Base
<1>1. n \in Nat /\ \A i \in 1..n : n - i \in 0..8
  OBVIOUS
<1>2. \A x \in Nat : x % Base \in Nat
  BY StreamAssumption
<1>3. \A i \in 0..8 : Shift(len)[i] \in Nat
  BY ShiftIs
<1>4. \A i \in 1..n : Shift(len)[n - i] % Base \in Nat
  BY <1>1, <1>2, <1>3
<1>5. ToBytes(len, n) \in [1..n -> Nat]
  BY <1>4 DEF ToBytes
<1> QED
  BY <1>1, <1>5, FcnIsSeq DEF ToBytes

(* The second byte of a frame and the extended length behind it. *)
LengthBytes(len) ==
    IF len <= Short THEN <<len>>
    ELSE IF len < Base * Base THEN <<Short + 1>> \o ToBytes(len, 2)
    ELSE <<Short + 2>> \o ToBytes(len, 8)
(* The bytes of w behind the first at are those of a length, the last n of them. *)
Digits(w, at, len, n) == \A i \in 1..n : w[at + i] = Shift(len)[n - i] % Base
(* They follow a byte that stands for their number. *)
Prefixed(k, len, n) == <<k>> \o ToBytes(len, n)
Form(w, k, len, n) == w \in Seq(Nat) /\ Len(w) = 1 + n /\ w[1] = k /\ Digits(w, 1, len, n)
(* So it is laid out. *)
LEMMA PrefixedBytes ==
    ASSUME NEW len \in Nat, NEW n \in 0..8, NEW k \in Nat
    PROVE  Form(Prefixed(k, len, n), k, len, n)
<1> DEFINE w == Prefixed(k, len, n)
           u == <<k>>
           v == ToBytes(len, n)
<1>1. u \in Seq(Nat) /\ Len(u) = 1 /\ u[1] = k /\ n \in Nat
  OBVIOUS
<1>2. v \in Seq(Nat) /\ Len(v) = n /\ \A i \in 1..n : v[i] = Shift(len)[n - i] % Base
  BY ToBytesIs
<1>3. w = u \o v
  BY DEF Prefixed
<1> HIDE DEF u, v, w
<1>4. u \o v \in Seq(Nat) /\ Len(u \o v) = Len(u) + Len(v)
      /\ \A i \in 1..(Len(u) + Len(v)) : (u \o v)[i] = IF i <= Len(u) THEN u[i] ELSE v[i - Len(u)]
  BY <1>1, <1>2, ConcatProperties
<1>5. w \in Seq(Nat) /\ Len(w) = 1 + n /\ \A i \in 1..(1 + n) : w[i] = IF i <= 1 THEN u[i] ELSE v[i - 1]
  BY <1>1, <1>2, <1>3, <1>4
<1>6. 1 \in 1..(1 + n) /\ \A i \in 1..n : 1 + i \in 1..(1 + n) /\ ~(1 + i <= 1) /\ (1 + i) - 1 = i
  BY <1>1
<1>7. w[1] = k /\ \A i \in 1..n : w[1 + i] = v[i]
  BY <1>1, <1>5, <1>6
<1> QED
  BY <1>2, <1>5, <1>7 DEF Digits, Form, w

(* The three forms of a length. *)
LEMMA LengthBytesAre ==
    ASSUME NEW len \in Nat
    PROVE  /\ LengthBytes(len) \in Seq(Nat) /\ Len(LengthBytes(len)) = 1 + ExtOf(len)
           /\ LengthBytes(len)[1] = Len7(len)
           /\ Digits(LengthBytes(len), 1, len, ExtOf(len))
<1>1. Short \in Nat /\ Base \in Nat \ {0}
  BY StreamAssumption
<1> DEFINE w == LengthBytes(len)
<1>3. CASE len <= Short
  <2>1. LengthBytes(len) = <<len>> /\ ExtOf(len) = 0 /\ Len7(len) = len
    BY <1>3 DEF LengthBytes, ExtOf, Len7
  <2> QED
    BY <2>1 DEF Digits
<1>4. CASE ~(len <= Short) /\ len < Base * Base
  <2>1. w = <<Short + 1>> \o ToBytes(len, 2) /\ ExtOf(len) = 2 /\ Len7(len) = Short + 1
    BY <1>4 DEF LengthBytes, ExtOf, Len7
  <2>2. 2 \in 0..8 /\ Short + 1 \in Nat
    BY <1>1
  <2> HIDE DEF w
  <2>3. w \in Seq(Nat) /\ Len(w) = 1 + 2 /\ w[1] = Short + 1 /\ Digits(w, 1, len, 2)
    <3> DEFINE n == 2
               k == Short + 1
    <3>1. n \in 0..8 /\ n \in Nat /\ k \in Nat /\ w = Prefixed(k, len, n)
      BY <2>1, <2>2 DEF Prefixed
    <3> HIDE DEF n, k
    <3>2. w \in Seq(Nat) /\ Len(w) = 1 + n /\ w[1] = k /\ Digits(w, 1, len, n)
      <4>1. Form(Prefixed(k, len, n), k, len, n)
        BY <3>1, PrefixedBytes
      <4> QED
        BY <3>1, <4>1 DEF Form
    <3> QED
      BY <3>2 DEF n, k
  <2> QED
    BY <2>1, <2>3 DEF w
<1>5. CASE ~(len <= Short) /\ ~(len < Base * Base)
  <2>1. w = <<Short + 2>> \o ToBytes(len, 8) /\ ExtOf(len) = 8 /\ Len7(len) = Short + 2
    BY <1>5 DEF LengthBytes, ExtOf, Len7
  <2>2. 8 \in 0..8 /\ Short + 2 \in Nat
    BY <1>1
  <2> HIDE DEF w
  <2>3. w \in Seq(Nat) /\ Len(w) = 1 + 8 /\ w[1] = Short + 2 /\ Digits(w, 1, len, 8)
    <3> DEFINE n == 8
               k == Short + 2
    <3>1. n \in 0..8 /\ n \in Nat /\ k \in Nat /\ w = Prefixed(k, len, n)
      BY <2>1, <2>2 DEF Prefixed
    <3> HIDE DEF n, k
    <3>2. w \in Seq(Nat) /\ Len(w) = 1 + n /\ w[1] = k /\ Digits(w, 1, len, n)
      <4>1. Form(Prefixed(k, len, n), k, len, n)
        BY <3>1, PrefixedBytes
      <4> QED
        BY <3>1, <4>1 DEF Form
    <3> QED
      BY <3>2 DEF n, k
  <2> QED
    BY <2>1, <2>3 DEF w
<1> QED
  BY <1>3, <1>4, <1>5

(* encode, without a mask. *)
LEMMA EncodeIs ==
    ASSUME NEW op \in 0..15, NEW payload \in Seq(0..255)
    PROVE  Encodes(Encode(op, payload), op, FALSE, payload) /\ Len(payload) \in Nat
<1> DEFINE len == Len(payload)
           ext == ExtOf(len)
           u == <<128 + op>>
           v == LengthBytes(len)
           b == (u \o v) \o payload
           uv == u \o v
<1>1. len \in Nat /\ payload \in Seq(Nat) /\ ext \in Nat
  <2>1. len \in Nat /\ payload \in [1..len -> 0..255]
    BY LenProperties
  <2>2. payload \in [1..len -> Nat]
    <3>1. DOMAIN payload = 1..len /\ \A i \in 1..len : payload[i] \in 0..255
      BY <2>1
    <3>2. \A x \in 0..255 : x \in Nat
      OBVIOUS
    <3> HIDE DEF len
    <3>3. \A i \in 1..len : payload[i] \in Nat
      BY <3>1, <3>2
    <3> QED
      BY <2>1, <3>3
  <2> QED
    BY <2>1, <2>2, FcnIsSeq DEF ExtOf
<1>2. Encode(op, payload) = b
  BY DEF Encode, LengthBytes
<1>3. u \in Seq(Nat) /\ Len(u) = 1 /\ u[1] = 128 + op
  OBVIOUS
<1>4. v \in Seq(Nat) /\ Len(v) = 1 + ext /\ v[1] = Len7(len) /\ \A i \in 1..ext : v[1 + i] = Shift(len)[ext - i] % Base
  BY <1>1, LengthBytesAre DEF Digits
<1> HIDE DEF u, v, ext, len
<1>5. uv \in Seq(Nat) /\ Len(uv) = 2 + ext /\ uv[1] = 128 + op /\ uv[2] = Len7(len)
      /\ \A i \in 1..ext : uv[2 + i] = Shift(len)[ext - i] % Base
  <2>1. uv \in Seq(Nat) /\ Len(uv) = Len(u) + Len(v)
        /\ \A i \in 1..(Len(u) + Len(v)) : uv[i] = IF i <= Len(u) THEN u[i] ELSE v[i - Len(u)]
    BY <1>3, <1>4, ConcatProperties
  <2> HIDE DEF uv
  <2>2. uv[1] = u[1] /\ uv[2] = v[1] /\ \A i \in 1..ext : uv[2 + i] = v[1 + i]
    <3>1. 1 \in 1..(2 + ext) /\ 2 \in 1..(2 + ext) /\ 1 <= 1 /\ ~(2 <= 1) /\ 2 - 1 = 1
          /\ \A i \in 1..ext : 2 + i \in 1..(2 + ext) /\ ~(2 + i <= 1) /\ (2 + i) - 1 = 1 + i
      BY <1>1
    <3>2. \A i \in 1..(2 + ext) : uv[i] = IF i <= 1 THEN u[i] ELSE v[i - 1]
      BY <1>1, <1>3, <1>4, <2>1
    <3> QED
      BY <3>1, <3>2
  <2> QED
    BY <1>1, <1>3, <1>4, <2>1, <2>2
<1> HIDE DEF uv
<1>6. b \in Seq(Nat) /\ Len(b) = (2 + ext) + len
      /\ \A i \in 1..((2 + ext) + len) : b[i] = IF i <= 2 + ext THEN uv[i] ELSE payload[i - (2 + ext)]
  <2> HIDE DEF b
  <2>1. b = uv \o payload
    BY Zenon DEF b, uv
  <2>2. uv \o payload \in Seq(Nat) /\ Len(uv \o payload) = Len(uv) + Len(payload)
        /\ \A i \in 1..(Len(uv) + Len(payload)) :
              (uv \o payload)[i] = IF i <= Len(uv) THEN uv[i] ELSE payload[i - Len(uv)]
    BY <1>1, <1>5, ConcatProperties
  <2> QED
    BY <1>5, <2>1, <2>2 DEF len
<1> HIDE DEF b
<1>7. b[1] = uv[1] /\ b[2] = uv[2] /\ \A i \in 1..ext : b[2 + i] = uv[2 + i]
  <2>1. 1 \in 1..((2 + ext) + len) /\ 2 \in 1..((2 + ext) + len) /\ 1 <= 2 + ext /\ 2 <= 2 + ext
        /\ \A i \in 1..ext : 2 + i \in 1..((2 + ext) + len) /\ 2 + i <= 2 + ext
    BY <1>1
  <2> QED
    BY <1>6, <2>1
<1>8. \A i \in 1..len : b[(2 + ext) + i] = payload[i]
  <2>1. \A i \in 1..len : (2 + ext) + i \in 1..((2 + ext) + len) /\ ~((2 + ext) + i <= 2 + ext) /\ ((2 + ext) + i) - (2 + ext) = i
    BY <1>1
  <2> QED
    BY <1>6, <2>1
<1>9. HeadOf(len, FALSE) = 2 + ext
  BY <1>1 DEF HeadOf, ext
<1>10. Len7(len) + 0 = Len7(len)
  BY <1>1, StreamAssumption DEF Len7
<1> QED
  BY <1>1, <1>2, <1>5, <1>6, <1>7, <1>8, <1>9, <1>10 DEF Encodes, len, ext

(* The three parts of a sequence. *)
Parts(w, u, v, x) ==
    /\ w \in Seq(Nat) /\ Len(w) = (Len(u) + Len(v)) + Len(x)
    /\ \A i \in 1..Len(u) : w[i] = u[i]
    /\ \A i \in 1..Len(v) : w[Len(u) + i] = v[i]
    /\ \A i \in 1..Len(x) : w[(Len(u) + Len(v)) + i] = x[i]
(* Two joins make them. *)
LEMMA PartsOf ==
    ASSUME NEW u \in Seq(Nat), NEW v \in Seq(Nat), NEW x \in Seq(Nat)
    PROVE  Parts((u \o v) \o x, u, v, x)
<1> DEFINE uv == u \o v
           w == uv \o x
           a == Len(u)
           c == Len(v)
           e == Len(x)
<1>1. a \in Nat /\ c \in Nat /\ e \in Nat
  BY LenProperties
<1>2. uv \in Seq(Nat) /\ Len(uv) = a + c
      /\ \A i \in 1..(a + c) : uv[i] = IF i <= a THEN u[i] ELSE v[i - a]
  BY ConcatProperties
<1> HIDE DEF uv
<1>3. w \in Seq(Nat) /\ Len(w) = Len(uv) + e
      /\ \A i \in 1..(Len(uv) + e) : w[i] = IF i <= Len(uv) THEN uv[i] ELSE x[i - Len(uv)]
  <2>1. uv \in Seq(Nat)
    BY <1>2
  <2> QED
    BY <2>1, ConcatProperties
<1> HIDE DEF w, a, c, e
<1>4. Len(w) = (a + c) + e /\ \A i \in 1..((a + c) + e) : w[i] = IF i <= a + c THEN uv[i] ELSE x[i - (a + c)]
  BY <1>2, <1>3
<1>5. \A i \in 1..a : i \in 1..(a + c) /\ i \in 1..((a + c) + e) /\ i <= a /\ i <= a + c
  BY <1>1
<1>6. \A i \in 1..c : a + i \in 1..(a + c) /\ a + i \in 1..((a + c) + e) /\ ~(a + i <= a) /\ a + i <= a + c /\ (a + i) - a = i
  BY <1>1
<1>7. \A i \in 1..e : (a + c) + i \in 1..((a + c) + e) /\ ~((a + c) + i <= a + c) /\ ((a + c) + i) - (a + c) = i
  BY <1>1
<1>8. \A i \in 1..a : w[i] = u[i]
  BY <1>2, <1>4, <1>5
<1>9. \A i \in 1..c : w[a + i] = v[i]
  BY <1>2, <1>4, <1>6
<1>10. \A i \in 1..e : w[(a + c) + i] = x[i]
  BY <1>4, <1>7
<1> QED
  BY <1>3, <1>4, <1>8, <1>9, <1>10 DEF Parts, w, uv, a, c, e

(* The key of a mask. *)
LEMMA KeyIs == /\ Key \in Seq(Nat) /\ Len(Key) = 4
               /\ \A i \in Nat : ((i % 4) + 1) \in 1..4 /\ Key[(i % 4) + 1] \in 0..255
<1>1. \A i \in Nat : ((i % 4) + 1) \in 1..4
  OBVIOUS
<1>2. Key \in Seq(Nat) /\ Len(Key) = 4 /\ Key[1] \in 0..255 /\ Key[2] \in 0..255 /\ Key[3] \in 0..255 /\ Key[4] \in 0..255
  BY DEF Key
<1>3. \A i \in 1..4 : Key[i] \in 0..255
  <2>1. \A i \in 1..4 : i = 1 \/ i = 2 \/ i = 3 \/ i = 4
    OBVIOUS
  <2> QED
    BY <1>2, <2>1
<1> QED
  BY <1>1, <1>2, <1>3

(* What a client sends for a frame. *)
LEMMA FrameBytes ==
    ASSUME NEW m, GoodFrame(m)
    PROVE  Encodes(Bytes(m), m.opcode, m.masked, m.payload)
<1> DEFINE op == m.opcode
           payload == m.payload
           head == Encode(op, payload)
           len == Len(payload)
           ext == ExtOf(len)
           hd == Len(head) - len
<1>1. m.kind = "frame" /\ op \in 0..15 /\ m.masked \in BOOLEAN /\ payload \in Seq(0..255)
  BY DEF GoodFrame
<1>2. Encodes(head, op, FALSE, payload) /\ len \in Nat
  BY <1>1, EncodeIs
<1>3. CASE m.masked = FALSE
  <2>1. Bytes(m) = head
    BY <1>1, <1>3 DEF Bytes
  <2> QED
    BY <1>2, <1>3, <2>1
<1>4. CASE m.masked = TRUE
  <2> DEFINE u == [i \in 1..hd |-> IF i = 2 THEN head[2] + Short + 3 ELSE head[i]]
             x == [i \in 1..len |-> Xor(payload[i], Key[((i - 1) % 4) + 1])]
             w == (u \o Key) \o x
  <2>1. Bytes(m) = w
    BY <1>1, <1>4 DEF Bytes
  <2>2. ext \in 0..8 /\ ext \in Nat /\ Short \in Nat
    <3>1. ext \in {0, 2, 8}
      BY DEF ExtOf
    <3> QED
      BY <3>1, StreamAssumption
  <2> HIDE DEF head, len, ext, op, payload
  <2>3. head \in Seq(Nat) /\ Len(head) = (2 + ext) + len /\ head[1] = 128 + op /\ head[2] = Len7(len)
        /\ \A i \in 1..ext : head[2 + i] = Shift(len)[ext - i] % Base
    <3>1. HeadOf(len, FALSE) = 2 + ext
      BY <2>2 DEF HeadOf, ext
    <3>2. Len7(len) + 0 = Len7(len)
      BY <1>2, StreamAssumption DEF Len7
    <3> QED
      BY <1>2, <3>1, <3>2 DEF Encodes, len, ext
  <2>4. hd = 2 + ext /\ hd \in Nat /\ \A i \in 1..hd : i \in 1..Len(head)
    BY <1>2, <2>2, <2>3
  <2> HIDE DEF hd
  <2>5. u \in Seq(Nat) /\ Len(u) = hd
    <3>1. \A i \in 1..hd : head[i] \in Nat
      BY <2>3, <2>4, ElementOfSeq
    <3>2. head[2] + Short + 3 \in Nat
      BY <2>2, <2>3, <2>4, <3>1
    <3>3. u \in [1..hd -> Nat]
      BY <3>1, <3>2
    <3> QED
      BY <2>4, <3>3, FcnIsSeq
  <2>6. x \in Seq(Nat) /\ Len(x) = len
    <3>1. \A i \in 1..len : payload[i] \in 0..255
      BY <1>1, ElementOfSeq DEF len
    <3>2. \A i \in 1..len : i - 1 \in Nat
      BY <1>2
    <3>3. \A i \in 1..len : Key[((i - 1) % 4) + 1] \in 0..255
      BY <3>2, KeyIs
    <3>4. \A i \in 1..len : Xor(payload[i], Key[((i - 1) % 4) + 1]) \in 0..255
      BY <3>1, <3>3, XorTwice
    <3>5. \A i \in 0..255 : i \in Nat
      OBVIOUS
    <3>6. x \in [1..len -> Nat]
      BY <3>4, <3>5
    <3> QED
      BY <1>2, <3>6, FcnIsSeq
  <2>7. /\ u[1] = head[1] /\ u[2] = (head[2] + Short) + 3 /\ \A i \in 1..ext : u[2 + i] = head[2 + i]
    <3>1. 1 \in 1..hd /\ 2 \in 1..hd /\ \A i \in 1..ext : 2 + i \in 1..hd /\ 2 + i # 2
      BY <2>2, <2>4
    <3> QED
      BY <3>1
  <2>8. \A i \in 1..len : x[i] = Xor(payload[i], Key[((i - 1) % 4) + 1])
    OBVIOUS
  <2>9. Key \in Seq(Nat) /\ Len(Key) = 4
    BY KeyIs
  <2> HIDE DEF u, x, w
  <2>10. Parts(w, u, Key, x)
    <3>1. w = (u \o Key) \o x
      BY DEF w
    <3> HIDE DEF w
    <3>2. Parts((u \o Key) \o x, u, Key, x)
      BY <2>5, <2>6, <2>9, PartsOf
    <3> QED
      BY <3>1, <3>2
  <2>11. /\ w \in Seq(Nat) /\ Len(w) = (hd + 4) + len
         /\ \A i \in 1..hd : w[i] = u[i]
         /\ \A i \in 1..4 : w[hd + i] = Key[i]
         /\ \A i \in 1..len : w[(hd + 4) + i] = x[i]
    BY <2>5, <2>6, <2>9, <2>10 DEF Parts
  <2>12. HeadOf(len, TRUE) = (2 + ext) + 4 /\ HeadOf(len, TRUE) = hd + 4
    BY <2>2, <2>4 DEF HeadOf, ext
  <2>13. w[1] = 128 + op /\ w[2] = Len7(len) + (Short + 3) /\ \A i \in 1..ext : w[2 + i] = Shift(len)[ext - i] % Base
    <3>1. 1 \in 1..hd /\ 2 \in 1..hd /\ \A i \in 1..ext : 2 + i \in 1..hd
      BY <2>2, <2>4
    <3>2. (Len7(len) + Short) + 3 = Len7(len) + (Short + 3)
      BY <1>2, StreamAssumption DEF Len7
    <3> QED
      BY <2>3, <2>7, <2>11, <3>1, <3>2
  <2>14. Encodes(w, op, TRUE, payload)
    BY <2>4, <2>8, <2>11, <2>12, <2>13 DEF Encodes, len, ext
  <2> QED
    BY <1>4, <2>1, <2>14 DEF op, payload
<1> QED
  BY <1>1, <1>3, <1>4

(* The data begins with the bytes b, as far as it goes. *)
Begins(data, b) == \A i \in 1..Len(b) : i <= Len(data) => data[i] = b[i]
(* The frame that decode gives back. *)
FrameOf(op, payload) == [fin |-> 1, opcode |-> op, payload |-> payload]

(* The FIN bit and the opcode in the first byte. *)
LEMMA FirstByte ==
    ASSUME NEW op \in 0..15
    PROVE  (128 + op) \div 128 = 1 /\ (128 + op) % 16 = op
<1>1. op \in Nat /\ op < 16 /\ op < 128 /\ 128 + op = 128 * 1 + op /\ 128 + op = 16 * 8 + op
  OBVIOUS
<1>2. (128 * 1 + op) \div 128 = 1
  OBVIOUS
<1>3. (16 * 8 + op) % 16 = op
  OBVIOUS
<1> QED
  BY <1>1, <1>2, <1>3

(* The two halves of the second byte. *)
LEMMA SecondByte ==
    ASSUME NEW q \in Nat \ {0}, NEW l \in Nat, l < q
    PROVE  /\ l \div q = 0 /\ l % q = l /\ (l + q) \div q = 1 /\ (l + q) % q = l
<1>1. l = q * 0 + l /\ l + q = q * 1 + l
  OBVIOUS
<1> QED
  BY <1>1

(* The bytes of a part of the data. *)
LEMMA CutOf ==
    ASSUME NEW data \in Seq(Nat), NEW a \in Nat, NEW n \in Nat, a + n <= Len(data)
    PROVE  LET w == SubSeq(data, a + 1, a + n) IN
           w \in Seq(Nat) /\ Len(w) = n /\ \A i \in 1..n : w[i] = data[a + i]
<1> DEFINE w == SubSeq(data, a + 1, a + n)
           l == Len(data)
<1>1. l \in Nat /\ \A i \in (a + 1)..(a + n) : i \in 1..l
  <2>1. l \in Nat
    BY LenProperties
  <2> QED
    BY <2>1
<1>2. \A i \in (a + 1)..(a + n) : data[i] \in Nat
  BY <1>1, ElementOfSeq
<1>3. a + 1 \in Int /\ a + n \in Int /\ (a + n) - (a + 1) + 1 = n
  OBVIOUS
<1>4. w \in Seq(Nat) /\ Len(w) = (IF a + 1 <= a + n THEN (a + n) - (a + 1) + 1 ELSE 0)
      /\ \A i \in 1..((a + n) - (a + 1) + 1) : w[i] = data[(a + 1) + i - 1]
  <2> DEFINE c == a + 1
             d == a + n
  <2>1. c \in Int /\ d \in Int /\ \A i \in c..d : data[i] \in Nat
    BY <1>2, <1>3
  <2> HIDE DEF c, d
  <2>2. SubSeq(data, c, d) \in Seq(Nat) /\ Len(SubSeq(data, c, d)) = (IF c <= d THEN d - c + 1 ELSE 0)
        /\ \A i \in 1..(d - c + 1) : SubSeq(data, c, d)[i] = data[c + i - 1]
    BY <2>1, SubSeqProperties
  <2> QED
    BY <2>2 DEF c, d
<1> HIDE DEF w
<1>5. Len(w) = n
  BY <1>4
<1>6. \A i \in 1..n : (a + 1) + i - 1 = a + i
  OBVIOUS
<1> QED
  BY <1>3, <1>4, <1>5, <1>6 DEF w

(* decode gives back the frame, once all its bytes are there. *)
LEMMA DecodeIs ==
    ASSUME NEW op \in 0..15, NEW masked \in BOOLEAN, NEW payload \in Seq(0..255), Shift(Len(payload))[8] = 0,
           NEW b, Encodes(b, op, masked, payload), NEW data \in Seq(Nat), Begins(data, b)
    PROVE  /\ Len(data) < Len(b) => Decode(data) = Incomplete
           /\ ~(Len(data) < Len(b)) => Decode(data) = [used |-> Len(b), frame |-> FrameOf(op, payload)]
<1> DEFINE len == Len(payload)
           ext == ExtOf(len)
           h == HeadOf(len, masked)
           n == Len(data)
           q == Short + 3
           dm == data[2] \div q = 1
           dl7 == data[2] % q
           dext == Extended(dl7)
           dlen == IF dext = 0 THEN dl7 ELSE BigEndian(SubSeq(data, 3, 2 + dext))
           dh == 2 + dext + (IF dm THEN 4 ELSE 0)
           raw == SubSeq(data, dh + 1, dh + dlen)
           key == SubSeq(data, dh - 3, dh)
           pay == IF dm THEN [i \in 1..dlen |-> Xor(raw[i], key[MaskAt(i)])] ELSE raw
           whole == [used |-> dh + dlen, frame |-> [fin |-> data[1] \div 128, opcode |-> data[1] % 16, payload |-> pay]]
<1>1. n \in Nat /\ len \in Nat /\ q \in Nat \ {0} /\ Short \in Nat
  BY LenProperties, StreamAssumption
<1>2. Decode(data) = IF n < 2 THEN Incomplete ELSE IF n < 2 + dext THEN Incomplete
                     ELSE IF n < dh + dlen THEN Incomplete ELSE whole
  BY DEF Decode
<1>3. /\ Len7(len) \in Nat /\ Len7(len) < q /\ ext \in {0, 2, 8} /\ ext \in 0..8
      /\ Extended(Len7(len)) = ext /\ (ext = 0 => Len7(len) = len) /\ (ext # 0 => Shift(len)[ext] = 0)
  BY <1>1, LengthForm
<1>4. /\ Len(b) = h + len /\ b[1] = 128 + op /\ b[2] = Len7(len) + (IF masked THEN q ELSE 0)
      /\ \A i \in 1..ext : b[2 + i] = Shift(len)[ext - i] % Base
      /\ masked => \A i \in 1..4 : b[(2 + ext) + i] = Key[i]
      /\ masked => \A i \in 1..len : b[h + i] = Xor(payload[i], Key[((i - 1) % 4) + 1])
      /\ ~masked => \A i \in 1..len : b[h + i] = payload[i]
  BY DEF Encodes
<1>5. \A i \in 1..Len(b) : i <= n => data[i] = b[i]
  BY DEF Begins
<1>6. ext \in Nat /\ h \in Nat /\ h = 2 + ext + (IF masked THEN 4 ELSE 0) /\ h >= 2 + ext /\ Len(b) \in Nat
      /\ (masked = TRUE => h = (2 + ext) + 4)
  <2>1. ext \in Nat
    BY <1>3
  <2>2. h = 2 + ext + (IF masked THEN 4 ELSE 0)
    BY DEF HeadOf
  <2> HIDE DEF h, ext, len
  <2> QED
    BY <1>1, <1>4, <2>1, <2>2
<1> HIDE DEF len, ext, h, n, q, dm, dl7, dext, dlen, dh, raw, key, pay
<1>7. CASE n < 2
  <2>1. n < Len(b)
    BY <1>1, <1>4, <1>6, <1>7
  <2> QED
    BY <1>2, <1>7, <2>1 DEF n
<1>8. CASE ~(n < 2)
  <2>1. 1 \in 1..Len(b) /\ 2 \in 1..Len(b) /\ 1 <= n /\ 2 <= n
    BY <1>1, <1>4, <1>6, <1>8
  <2>2. data[1] = 128 + op /\ data[2] = Len7(len) + (IF masked THEN q ELSE 0)
    BY <1>4, <1>5, <2>1
  <2>3. (dm <=> masked = TRUE) /\ dl7 = Len7(len)
    <3>1. /\ Len7(len) \div q = 0 /\ Len7(len) % q = Len7(len)
          /\ (Len7(len) + q) \div q = 1 /\ (Len7(len) + q) % q = Len7(len)
      <4> DEFINE l == Len7(len)
      <4> HIDE DEF l
      <4> QED
        BY <1>1, <1>3, SecondByte DEF l
    <3>2. CASE masked = TRUE
      BY <2>2, <3>1, <3>2 DEF dm, dl7
    <3>3. CASE masked = FALSE
      <4>1. data[2] = Len7(len)
        BY <1>3, <2>2, <3>3
      <4> QED
        BY <3>1, <3>3, <4>1 DEF dm, dl7
    <3> QED
      BY <3>2, <3>3
  <2>4. dext = ext
    BY <1>3, <2>3 DEF dext
  <2>5. dh = h
    BY <1>6, <2>3, <2>4 DEF dh
  <2>6. CASE n < 2 + ext
    <3>1. n < Len(b)
      BY <1>1, <1>4, <1>6, <2>6
    <3> QED
      BY <1>2, <1>8, <2>4, <2>6, <3>1 DEF n
  <2>7. CASE ~(n < 2 + ext)
    <3>1. dlen = len
      <4>1. CASE ext = 0
        BY <1>3, <2>3, <2>4, <4>1 DEF dlen
      <4>2. CASE ext # 0
        <5> DEFINE w == SubSeq(data, 2 + 1, 2 + ext)
        <5>1. w \in Seq(Nat) /\ Len(w) = ext /\ \A i \in 1..ext : w[i] = data[2 + i]
          <6>1. 2 \in Nat /\ 2 + ext <= Len(data)
            BY <1>1, <1>6, <2>7 DEF n
          <6> QED
            BY <1>6, <6>1, CutOf
        <5>2. dlen = BigEndian(w)
          BY <2>4, <4>2 DEF dlen
        <5> HIDE DEF w
        <5>3. \A i \in 1..ext : w[i] = Shift(len)[ext - i] % Base
          <6>1. \A i \in 1..ext : 2 + i \in 1..Len(b) /\ 2 + i <= n
            BY <1>1, <1>4, <1>6, <2>7
          <6> QED
            BY <1>4, <1>5, <5>1, <6>1
        <5>4. BigEndian(w) = len
          BY <1>1, <1>3, <4>2, <5>1, <5>3, BigEndianOf
        <5> QED
          BY <5>2, <5>4
      <4> QED
        BY <4>1, <4>2
    <3>2. dh + dlen = Len(b)
      BY <1>4, <2>5, <3>1
    <3>3. CASE n < Len(b)
      BY <1>2, <1>8, <2>4, <2>7, <3>2, <3>3 DEF n
    <3>4. CASE ~(n < Len(b))
      <4>1. Decode(data) = whole
        BY <1>2, <1>8, <2>4, <2>7, <3>2, <3>4
      <4>2. data[1] \div 128 = 1 /\ data[1] % 16 = op
        <5>1. (128 + op) \div 128 = 1 /\ (128 + op) % 16 = op
          BY FirstByte
        <5> QED
          BY <2>2, <5>1
      <4>3. raw \in Seq(Nat) /\ Len(raw) = len /\ \A i \in 1..len : raw[i] = data[h + i]
        <5>1. raw = SubSeq(data, h + 1, h + len)
          BY <2>5, <3>1 DEF raw
        <5>2. h + len <= Len(data)
          BY <1>1, <1>4, <1>6, <3>4 DEF n
        <5>3. h \in Nat /\ len \in Nat
          BY <1>1, <1>6
        <5>4. /\ SubSeq(data, h + 1, h + len) \in Seq(Nat) /\ Len(SubSeq(data, h + 1, h + len)) = len
              /\ \A i \in 1..len : SubSeq(data, h + 1, h + len)[i] = data[h + i]
          BY <5>2, <5>3, CutOf
        <5> QED
          BY <5>1, <5>4
      <4>4. \A i \in 1..len : raw[i] = b[h + i]
        <5>1. \A i \in 1..len : h + i \in 1..Len(b) /\ h + i <= n
          BY <1>1, <1>4, <1>6, <3>4
        <5> QED
          BY <1>5, <4>3, <5>1
      <4>5. payload \in [1..len -> 0..255] /\ payload = [i \in 1..len |-> payload[i]] /\ \A i \in 1..len : payload[i] \in 0..255
        <5>1. payload \in [1..len -> 0..255]
          BY LenProperties DEF len
        <5> QED
          BY <5>1
      <4>6. pay = payload
        <5>1. CASE masked = FALSE
          <6>1. pay = raw
            BY <2>3, <5>1 DEF pay
          <6>2. \A i \in 1..len : raw[i] = payload[i]
            BY <1>4, <4>4, <5>1
          <6>3. raw \in [1..len -> Nat]
            BY <4>3, LenProperties
          <6>4. raw = [i \in 1..len |-> raw[i]]
            BY <6>3
          <6> QED
            BY <4>5, <6>1, <6>2, <6>4
        <5>2. CASE masked = TRUE
          <6>1. pay = [i \in 1..len |-> Xor(raw[i], key[MaskAt(i)])]
            BY <2>3, <3>1, <5>2 DEF pay
          <6>2. \A j \in 1..4 : key[j] = Key[j]
            <7> DEFINE a == 2 + ext
            <7>1. a \in Nat /\ h = a + 4 /\ h - 3 = a + 1 /\ a + 4 <= n /\ \A j \in 1..4 : a + j \in 1..Len(b) /\ a + j <= n
              BY <1>1, <1>4, <1>6, <3>4, <5>2
            <7>2. key = SubSeq(data, a + 1, a + 4)
              BY <2>5, <7>1 DEF key
            <7> HIDE DEF a
            <7>3. \A j \in 1..4 : SubSeq(data, a + 1, a + 4)[j] = data[a + j]
              <8> DEFINE f == 4
              <8>1. f \in Nat /\ a + f <= Len(data)
                BY <7>1 DEF n
              <8> HIDE DEF f
              <8>2. \A j \in 1..f : SubSeq(data, a + 1, a + f)[j] = data[a + j]
                BY <7>1, <8>1, CutOf
              <8> QED
                BY <8>2 DEF f
            <7>4. \A j \in 1..4 : data[a + j] = b[a + j]
              BY <1>5, <7>1
            <7> QED
              BY <1>4, <5>2, <7>2, <7>3, <7>4 DEF a
          <6>3. \A i \in 1..len : Xor(raw[i], key[MaskAt(i)]) = payload[i]
            <7> SUFFICES ASSUME NEW i \in 1..len PROVE Xor(raw[i], key[MaskAt(i)]) = payload[i]
              OBVIOUS
            <7>1. i - 1 \in Nat
              BY <1>1
            <7>2. ((i - 1) % 4) + 1 \in 1..4 /\ Key[((i - 1) % 4) + 1] \in 0..255
              BY <7>1, KeyIs
            <7> DEFINE k == Key[((i - 1) % 4) + 1]
            <7>3. key[MaskAt(i)] = k
              BY <6>2, <7>2 DEF MaskAt
            <7>4. raw[i] = Xor(payload[i], k)
              BY <1>4, <4>4, <5>2
            <7> HIDE DEF k
            <7>5. Xor(Xor(payload[i], k), k) = payload[i]
              BY <4>5, <7>2, XorTwice DEF k
            <7> QED
              BY <7>3, <7>4, <7>5
          <6> QED
            BY <4>5, <6>1, <6>3
        <5> QED
          BY <5>1, <5>2
      <4> QED
        BY <3>2, <3>4, <4>1, <4>2, <4>6 DEF FrameOf, n
    <3> QED
      BY <3>3, <3>4
  <2> QED
    BY <2>6, <2>7
<1> QED
  BY <1>7, <1>8

-------------------------------------------------------------------------------
(* Frames and their answers *)

(* The elements at the places, up to each place. *)
OnlyTo(s, places) ==
    LET upTo[i \in 0..Len(s)] ==
            IF i = 0 THEN <<>> ELSE IF i \in places THEN Append(upTo[i - 1], s[i]) ELSE upTo[i - 1]
    IN upTo
(* The next of them. *)
Chosen(f, s, places, i) == IF i \in places THEN Append(f[i - 1], s[i]) ELSE f[i - 1]

(* They are the last of these. *)
LEMMA OnlyIs ==
    ASSUME NEW S, NEW s \in Seq(S), NEW places
    PROVE  /\ Only(s, places) = OnlyTo(s, places)[Len(s)] /\ OnlyTo(s, places)[0] = <<>>
           /\ \A i \in 1..Len(s) : OnlyTo(s, places)[i] = Chosen(OnlyTo(s, places), s, places, i)
           /\ \A i \in 0..Len(s) : OnlyTo(s, places)[i] \in Seq(S)
<1> DEFINE n == Len(s)
           Q == Seq(S)
           Is(g) == g = [i \in 0..n |-> IF i = 0 THEN <<>> ELSE IF i \in places THEN Append(g[i - 1], s[i]) ELSE g[i - 1]]
           step == [i \in 1..n |-> [x \in Q |-> IF i \in places THEN Append(x, s[i]) ELSE x]]
           f == CHOOSE g : Is(g)
<1>1. n \in Nat /\ \A i \in 1..n : s[i] \in S
  BY LenProperties, ElementOfSeq
<1>2. <<>> \in Q /\ \A x \in Q, i \in 1..n : Append(x, s[i]) \in Q
  BY <1>1, AppendProperties
<1> HIDE DEF Q
<1>3. step \in [1..n -> [Q -> Q]]
  <2>1. \A i \in 1..n, x \in Q : (IF i \in places THEN Append(x, s[i]) ELSE x) \in Q
    BY <1>2
  <2> QED
    BY <2>1
<1>4. PICK g \in [0..n -> Q] : g[0] = <<>> /\ \A i \in 1..n : g[i] = step[i][g[i - 1]]
  <2> DEFINE start == <<>>
  <2>1. start \in Q
    BY <1>2
  <2>2. \E g : ByRecursion(g, n, Q, start, step)
    <3> HIDE DEF n, step, start
    <3> QED
      BY <1>1, <1>3, <2>1, RecursionExists
  <2> QED
    BY <2>2 DEF ByRecursion
<1>5. Is(g)
  <2>1. \A i \in 1..n : i - 1 \in 0..n
    BY <1>1
  <2>2. \A i \in 1..n : g[i] = IF i \in places THEN Append(g[i - 1], s[i]) ELSE g[i - 1]
    BY <1>4, <2>1
  <2>3. \A i \in 0..n : i # 0 => i \in 1..n
    BY <1>1
  <2> HIDE DEF n
  <2> QED
    BY <1>4, <2>2, <2>3
<1>6. Is(f)
  BY <1>5
<1>7. f = OnlyTo(s, places) /\ Only(s, places) = f[n]
  BY Zenon DEF OnlyTo, Only, f, Is, n
<1> HIDE DEF f
<1>8. f[0] = <<>> /\ \A i \in 1..n : f[i] = Chosen(f, s, places, i)
  <2>1. 0 \in 0..n /\ \A i \in 1..n : i \in 0..n /\ i # 0
    BY <1>1
  <2> HIDE DEF n
  <2> QED
    BY <1>6, <2>1 DEF Chosen
<1> DEFINE T == {i \in Nat : f[i] \in Q}
<1>9. \A i \in 0..n : i \in T
  <2>1. 0 \in T
    BY <1>2, <1>8
  <2>2. ASSUME NEW i \in 1..n, i - 1 \in T PROVE i \in T
    <3>1. i \in Nat /\ f[i - 1] \in Q /\ f[i] = Chosen(f, s, places, i)
      BY <1>1, <1>8, <2>2
    <3> QED
      BY <1>2, <3>1 DEF Chosen
  <2> HIDE DEF n, T
  <2> QED
    BY <1>1, <2>1, <2>2, Along
<1>10. \A i \in 0..n : f[i] \in Q
  BY <1>9
<1> HIDE DEF T
<1> QED
  BY <1>7, <1>8, <1>10 DEF Q

(* One element more. *)
LEMMA OnlyAppend ==
    ASSUME NEW S, NEW s \in Seq(S), NEW x \in S, NEW P, NEW Q, \A i \in 1..Len(s) : i \in Q <=> i \in P
    PROVE  /\ Only(s, P) \in Seq(S)
           /\ Len(s) + 1 \in Q => Only(Append(s, x), Q) = Append(Only(s, P), x)
           /\ Len(s) + 1 \notin Q => Only(Append(s, x), Q) = Only(s, P)
<1> DEFINE n == Len(s)
           t == Append(s, x)
           f == OnlyTo(s, P)
           g == OnlyTo(t, Q)
           T == {i \in Nat : f[i] = g[i]}
<1>1. n \in Nat /\ t \in Seq(S) /\ Len(t) = n + 1 /\ t[n + 1] = x /\ \A i \in 1..n : t[i] = s[i]
  BY LenProperties, AppendProperties
<1>2. Only(s, P) = f[n] /\ f[0] = <<>> /\ (\A i \in 1..n : f[i] = Chosen(f, s, P, i)) /\ \A i \in 0..n : f[i] \in Seq(S)
  BY OnlyIs
<1> HIDE DEF t
<1>3. Only(t, Q) = g[Len(t)] /\ g[0] = <<>> /\ (\A i \in 1..Len(t) : g[i] = Chosen(g, t, Q, i))
  BY <1>1, OnlyIs
<1>4. Only(t, Q) = g[n + 1] /\ (\A i \in 1..(n + 1) : g[i] = Chosen(g, t, Q, i))
  BY <1>1, <1>3
<1> HIDE DEF f, g
<1>5. 0 \in T
  BY <1>2, <1>3
<1>6. ASSUME NEW i \in 1..n, i - 1 \in T PROVE i \in T
  <2>1. i \in Nat /\ i \in 1..(n + 1) /\ f[i - 1] = g[i - 1]
    BY <1>1, <1>6
  <2>2. f[i] = Chosen(f, s, P, i) /\ g[i] = Chosen(g, t, Q, i) /\ t[i] = s[i] /\ (i \in Q <=> i \in P)
    BY <1>1, <1>2, <1>4, <2>1
  <2>3. f[i] = g[i]
    BY <2>1, <2>2 DEF Chosen
  <2> QED
    BY <2>1, <2>3
<1>7. \A i \in 0..n : i \in T
  <2> HIDE DEF n, T
  <2> QED
    BY <1>1, <1>5, <1>6, Along
<1>8. f[n] = g[n] /\ f[n] \in Seq(S)
  <2>1. n \in 0..n
    BY <1>1
  <2> QED
    BY <1>2, <1>7, <2>1
<1>9. g[n + 1] = IF n + 1 \in Q THEN Append(g[n], x) ELSE g[n]
  <2>1. n + 1 \in 1..(n + 1) /\ (n + 1) - 1 = n
    BY <1>1
  <2> QED
    BY <1>1, <1>4, <2>1 DEF Chosen
<1> QED
  BY <1>2, <1>4, <1>8, <1>9 DEF t

(* The frames sent and the frames to answer, when there is one item more. *)
FramesIn(s) == Only(s, {i \in DOMAIN s : s[i][1] = "frame"})
AskingIn(s) == Only(s, {i \in DOMAIN s : s[i].opcode \in {Ping, Closing}})
(* A sequence, whatever its elements are. *)
Itself(s) == s \in Seq({s[i] : i \in DOMAIN s})

(* A sequence of anything is a sequence of its elements, *)
LEMMA InSeq ==
    ASSUME NEW S, NEW s \in Seq(S)
    PROVE  Itself(s)
<1>1. Len(s) \in Nat /\ s \in [1..Len(s) -> S] /\ DOMAIN s = 1..Len(s)
  BY LenProperties
<1>2. s \in [1..Len(s) -> {s[i] : i \in DOMAIN s}]
  BY <1>1
<1> QED
  BY <1>1, <1>2, FcnIsSeq DEF Itself

(* and another element may join them. *)
LEMMA ItselfIn ==
    ASSUME NEW s, Itself(s), NEW x
    PROVE  \E S : s \in Seq(S) /\ x \in S
<1> DEFINE R == {s[i] : i \in DOMAIN s}
           Q == R \cup {x}
<1>1. s \in [1..Len(s) -> R] /\ Len(s) \in Nat
  BY LenProperties DEF Itself
<1>2. s \in [1..Len(s) -> Q]
  BY <1>1
<1>3. s \in Seq(Q) /\ x \in Q
  <2>1. x \in Q
    OBVIOUS
  <2> HIDE DEF Q
  <2> QED
    BY <1>1, <1>2, <2>1, FcnIsSeq
<1> QED
  BY <1>3

(* The frames sent, *)
LEMMA FramesInAppend ==
    ASSUME NEW s, Itself(s), NEW x
    PROVE  /\ Itself(FramesIn(s))
           /\ x[1] = "frame" => FramesIn(Append(s, x)) = Append(FramesIn(s), x)
           /\ x[1] # "frame" => FramesIn(Append(s, x)) = FramesIn(s)
<1> DEFINE t == Append(s, x)
           P == {i \in DOMAIN s : s[i][1] = "frame"}
           Q == {i \in DOMAIN t : t[i][1] = "frame"}
           n == Len(s)
<1>1. PICK S : s \in Seq(S) /\ x \in S
  BY ItselfIn
<1>2. n \in Nat /\ DOMAIN s = 1..n /\ DOMAIN t = 1..(n + 1) /\ t[n + 1] = x /\ \A i \in 1..n : t[i] = s[i]
  BY AppendAny DEF Itself
<1>3. FramesIn(s) = Only(s, P) /\ FramesIn(t) = Only(t, Q)
  BY DEF FramesIn
<1> HIDE DEF t
<1>4. \A i \in 1..n : i \in Q <=> i \in P
  <2>1. \A i \in 1..n : i \in 1..(n + 1)
    BY <1>2
  <2> QED
    BY <1>2, <2>1
<1>5. n + 1 \in Q <=> x[1] = "frame"
  BY <1>2
<1> HIDE DEF P, Q
<1>6. /\ Only(s, P) \in Seq(S)
      /\ n + 1 \in Q => Only(Append(s, x), Q) = Append(Only(s, P), x)
      /\ n + 1 \notin Q => Only(Append(s, x), Q) = Only(s, P)
  BY <1>1, <1>4, OnlyAppend
<1>7. Itself(Only(s, P))
  BY <1>6, InSeq
<1> QED
  BY <1>3, <1>5, <1>6, <1>7 DEF t

(* and the frames to answer. *)
LEMMA AskingInAppend ==
    ASSUME NEW s, Itself(s), NEW x
    PROVE  /\ Itself(AskingIn(s))
           /\ x.opcode \in {Ping, Closing} => AskingIn(Append(s, x)) = Append(AskingIn(s), x)
           /\ x.opcode \notin {Ping, Closing} => AskingIn(Append(s, x)) = AskingIn(s)
<1> DEFINE t == Append(s, x)
           P == {i \in DOMAIN s : s[i].opcode \in {Ping, Closing}}
           Q == {i \in DOMAIN t : t[i].opcode \in {Ping, Closing}}
           n == Len(s)
<1>1. PICK S : s \in Seq(S) /\ x \in S
  BY ItselfIn
<1>2. n \in Nat /\ DOMAIN s = 1..n /\ DOMAIN t = 1..(n + 1) /\ t[n + 1] = x /\ \A i \in 1..n : t[i] = s[i]
  BY AppendAny DEF Itself
<1>3. AskingIn(s) = Only(s, P) /\ AskingIn(t) = Only(t, Q)
  BY DEF AskingIn
<1> HIDE DEF t
<1>4. \A i \in 1..n : i \in Q <=> i \in P
  <2>1. \A i \in 1..n : i \in 1..(n + 1)
    BY <1>2
  <2> QED
    BY <1>2, <2>1
<1>5. n + 1 \in Q <=> x.opcode \in {Ping, Closing}
  <2>1. n + 1 \in 1..(n + 1)
    BY <1>2
  <2> QED
    BY <1>2, <2>1
<1> HIDE DEF P, Q
<1>6. /\ Only(s, P) \in Seq(S)
      /\ n + 1 \in Q => Only(Append(s, x), Q) = Append(Only(s, P), x)
      /\ n + 1 \notin Q => Only(Append(s, x), Q) = Only(s, P)
  BY <1>1, <1>4, OnlyAppend
<1>7. Itself(Only(s, P))
  BY <1>6, InSeq
<1> QED
  BY <1>3, <1>5, <1>6, <1>7 DEF t

(* A script of u requests, the last of which may ask for the upgrade, and frames. *)
Mixed(s, u) ==
    /\ u \in 0..Len(s) /\ \A k \in 1..u : WellFormed(s[k]) /\ (k < u => ~Upgrades(s[k]))
    /\ \A k \in (u + 1)..Len(s) : GoodFrame(s[k])

(* A frame that answers f. *)
Answers(x, f) == Decode(x[2]) = [used |-> Len(x[2]), frame |-> ReplyTo(f)]
(* The frames a, sent on a connection in state c, answer the frames k. *)
Matched(a, k, c) ==
    /\ Itself(a) /\ Itself(k) /\ Len(a) <= Len(k) /\ (c = "connected" => Len(a) = Len(k))
    /\ \A i \in 1..Len(a) : Answers(a[i], k[i])

(* The server has taken all u requests, and no byte behind them, ... *)
Served(u) ==
    /\ Len(requests) <= u
    /\ Len(requests) = u => /\ EndsOf(script)[u] <= Fed /\ parser.complete = FALSE
                            /\ reading = "http" => fed = Len(queue) /\ Fed = EndsOf(script)[u]
(* ... before it has the connection's frames, ... *)
Upgraded(u) ==
    /\ ctx \in {"http", "ws"} /\ ((\E i \in DOMAIN sent : sent[i] = <<"101">>) => ctx = "ws")
    /\ ctx = "http" => frames = <<>> /\ reading # "ws" /\ Len(script) - Len(todo) <= u
    /\ ctx = "ws" => /\ Len(requests) = u /\ (reading = "http" => frames = <<>>)
                     /\ reading # "http" => consumed = EndsOf(script)[u + Len(frames)]
(* ... which it handles in order, ... *)
Handled(s, fs, u) ==
    /\ Itself(fs) /\ Len(fs) <= Len(s) - u /\ \A i \in 1..Len(fs) : fs[i] = Carried(s[u + i])
(* ... and answers. *)
Answered == Matched(FramesIn(sent), AskingIn(frames), conn)
SocketOn(u) == Served(u) /\ Upgraded(u) /\ Handled(script, frames, u) /\ Answered
SocketInv == \A u \in 0..Len(script) : Mixed(script, u) => SocketOn(u)
SocketsInv == FramingInv /\ ClosingType /\ ClosingHolds /\ SocketInv

(* Nothing chosen of nothing. *)
LEMMA OnlyEmpty ==
    /\ FramesIn(<<>>) = <<>> /\ AskingIn(<<>>) = <<>> /\ Itself(<<>>) /\ Len(<<>>) = 0
<1> DEFINE e == <<>>
<1>1. e \in Seq(Nat) /\ Len(e) = 0
  OBVIOUS
<1> HIDE DEF e
<1>2. \A P : Only(e, P) = OnlyTo(e, P)[Len(e)] /\ OnlyTo(e, P)[0] = <<>>
  BY <1>1, OnlyIs
<1>3. \A P : Only(e, P) = <<>>
  BY <1>1, <1>2
<1>4. Itself(e)
  BY <1>1, InSeq
<1> QED
  BY <1>1, <1>3, <1>4 DEF e, FramesIn, AskingIn

(* The script at the start. *)
LEMMA SocketInit == Init => SocketsInv
<1> SUFFICES ASSUME Init PROVE SocketsInv
  OBVIOUS
<1>1. FramingInv /\ ClosingType /\ ClosingHolds
  <2>1. ClosingType /\ ClosingHolds
    BY ClosingInit
  <2> QED
    BY <2>1, FramingInit
<1>2. queue = <<>> /\ requests = <<>> /\ sent = <<>> /\ frames = <<>> /\ consumed = 0 /\ ctx = "http" /\ reading = "no"
      /\ parser = Fresh /\ Fed = 0 /\ todo = script
  BY DEF Init, Fed
<1>3. script \in Seq(Messages) /\ Len(script) \in Nat /\ EndsOf(script)[0] = 0
  <2>1. script \in Seq(Messages)
    BY <1>1 DEF FramingInv, Framing, FramingType
  <2> QED
    BY <2>1, EndsAre
<1>4. ASSUME NEW u \in 0..Len(script), Mixed(script, u) PROVE SocketOn(u)
  <2>1. Served(u)
    <3>1. Len(requests) = 0 /\ parser.complete = FALSE /\ reading # "http"
      BY <1>2 DEF Fresh
    <3>2. 0 <= u /\ u \in Nat
      BY <1>3
    <3> QED
      BY <1>2, <1>3, <3>1, <3>2 DEF Served
  <2>2. Upgraded(u)
    <3>1. Len(script) - Len(todo) <= u
      BY <1>2, <1>3
    <3>2. DOMAIN sent = {}
      BY <1>2
    <3> QED
      BY <1>2, <3>1, <3>2 DEF Upgraded
  <2>3. Handled(script, frames, u)
    <3>1. Itself(frames) /\ Len(frames) = 0
      BY <1>2, OnlyEmpty
    <3> QED
      BY <1>3, <3>1 DEF Handled
  <2>4. Answered
    <3>1. FramesIn(sent) = <<>> /\ AskingIn(frames) = <<>> /\ Itself(<<>>) /\ Len(<<>>) = 0
      BY <1>2, OnlyEmpty
    <3> QED
      BY <3>1 DEF Matched, Answered
  <2> QED
    BY <2>1, <2>2, <2>3, <2>4 DEF SocketOn
<1> QED
  BY <1>1, <1>4 DEF SocketsInv, SocketInv

(* What the invariant says of the numbers. *)
LEMMA SocketFacts ==
    ASSUME SocketsInv, NEW u \in 0..Len(script), Mixed(script, u)
    PROVE  /\ script \in Seq(Messages) /\ u \in Nat /\ SocketOn(u) /\ FramingInv /\ EndsOf(script)[u] \in Nat
           /\ \A d \in 0..Len(script) : EndsOf(script)[d] \in Nat /\ (d <= u => EndsOf(script)[d] <= EndsOf(script)[u])
<1>1. script \in Seq(Messages) /\ Len(script) \in Nat /\ SocketOn(u) /\ FramingInv
  BY FramingFacts DEF SocketsInv, SocketInv, FramingInv, Framing, FramingType
<1>2. \A d \in 0..Len(script) : EndsOf(script)[d] \in Nat
  BY <1>1, EndsAre
<1>3. \A d \in 0..Len(script) : d <= u => EndsOf(script)[d] <= EndsOf(script)[u]
  BY <1>1, EndsGrow
<1> QED
  BY <1>1, <1>2, <1>3

(* As long as no upgrade was answered, the bytes end with the last request. *)
LEMMA NothingBehind ==
    ASSUME SocketsInv, NEW u \in 0..Len(script), Mixed(script, u), ctx = "http", EndsOf(script)[u] <= Fed
    PROVE  Fed = EndsOf(script)[u] /\ Len(wire) = 0 /\ (reading = "http" => fed = Len(queue)) /\ (reading # "http" => Len(queue) = 0)
<1> DEFINE d == Len(script) - Len(todo)
           g == EndsOf(script)[u]
           e == EndsOf(script)[d]
<1>1. Upgraded(u) /\ FramingType /\ InOrder /\ g \in Nat
      /\ \A x \in 0..Len(script) : EndsOf(script)[x] \in Nat /\ (x <= u => EndsOf(script)[x] <= g)
  BY SocketFacts DEF SocketOn, FramingInv, Framing
<1>2. Len(queue) \in Nat /\ Len(wire) \in Nat /\ consumed \in Nat /\ fed \in Nat /\ fed <= Len(queue) /\ Len(todo) \in Nat
      /\ Len(script) \in Nat /\ (reading = "http" => Fed = consumed + fed) /\ (reading # "http" => Fed = consumed)
  BY <1>1, FramingFacts DEF FramingType, SocketsInv
<1>3. d <= u /\ d \in 0..Len(script)
  <2>1. Len(todo) <= Len(script)
    BY <1>1 DEF InOrder, Ending
  <2> QED
    BY <1>1, <1>2, <2>1 DEF Upgraded
<1>4. e <= g /\ e \in Nat
  BY <1>1, <1>3
<1>5. (consumed + Len(queue)) + Len(wire) = e
  BY <1>1 DEF InOrder
<1> HIDE DEF d, g, e
<1>6. g <= Fed
  BY DEF g
<1>7. CASE reading = "http"
  BY <1>1, <1>2, <1>4, <1>5, <1>6, <1>7 DEF g
<1>8. CASE reading # "http"
  BY <1>1, <1>2, <1>4, <1>5, <1>6, <1>8 DEF g
<1> QED
  BY <1>7, <1>8

(* The parts of the invariant that an action leaves alone. *)
LEMMA SameServed ==
    ASSUME NEW u, Served(u), UNCHANGED <<requests, script, consumed, fed, reading, parser, queue>>
    PROVE  Served(u)'
<1>1. Fed' = Fed
  BY DEF Fed
<1> QED
  BY <1>1 DEF Served
(* The frames and their answers. *)
LEMMA SameFrames ==
    ASSUME NEW u, SocketOn(u), UNCHANGED <<script, frames, sent, conn>>
    PROVE  Handled(script, frames, u)' /\ Answered'
<1>1. Handled(script, frames, u) /\ Answered
  BY DEF SocketOn
<1>2. script' = script /\ frames' = frames /\ sent' = sent /\ conn' = conn
  OBVIOUS
<1>3. Handled(script, frames, u)'
  BY <1>1, <1>2
<1>4. Answered'
  BY <1>1, <1>2 DEF Answered
<1> QED
  BY <1>3, <1>4

(* The client waits for the 101 before it sends a frame. *)
LEMMA SendSocket ==
    ASSUME SocketsInv, NEW u \in 0..Len(script), Mixed(script, u), ClientSend
    PROVE  SocketOn(u)'
<1> DEFINE n == Len(script)
           t == Len(todo)
           d == (n - t) + 1
<1>1. SocketOn(u) /\ Served(u) /\ Upgraded(u) /\ u \in Nat
  BY SocketFacts DEF SocketOn
<1>2. todo # <<>> /\ todo' = Tail(todo) /\ (Head(todo).kind = "frame" => \E i \in DOMAIN sent : sent[i] = <<"101">>)
      /\ UNCHANGED <<reading, fed, ctx, parser, conn, script, queue, consumed, requests, frames, sent>>
  BY DEF ClientSend
<1>3. n \in Nat /\ t \in Nat /\ todo \in Seq(Messages) /\ Ending(script, todo)
  BY FramingFacts DEF SocketsInv, FramingInv, Framing, StreamType, InOrder
<1>4. t # 0 /\ Head(todo) = todo[1] /\ Len(Tail(todo)) = t - 1
  BY <1>2, <1>3, EmptySeq, HeadTailProperties
<1>5. t <= n /\ todo[1] = script[d] /\ d \in 1..n /\ n - (t - 1) = d
  <2>1. 1 \in 1..t
    BY <1>3, <1>4
  <2>2. t <= n /\ todo[1] = script[(n - t) + 1]
    BY <1>3, <2>1 DEF Ending, n, t
  <2> HIDE DEF n, t
  <2> QED
    BY <1>3, <1>4, <2>2
<1>6. ctx = "http" => d <= u
  <2> SUFFICES ASSUME ctx = "http", ~(d <= u) PROVE FALSE
    OBVIOUS
  <2>1. d \in (u + 1)..n
    BY <1>1, <1>3, <1>5
  <2>2. GoodFrame(script[d])
    BY <2>1 DEF Mixed
  <2>3. Head(todo).kind = "frame"
    BY <1>4, <1>5, <2>2 DEF GoodFrame
  <2> QED
    BY <1>1, <1>2, <2>3 DEF Upgraded
<1>7. Len(script) - Len(todo') = d
  BY <1>2, <1>4, <1>5
<1> HIDE DEF d, n, t
<1>8. Upgraded(u)'
  BY <1>1, <1>2, <1>6, <1>7 DEF Upgraded
<1>9. Served(u)'
  BY <1>1, <1>2, SameServed
<1>10. Handled(script, frames, u)' /\ Answered'
  BY <1>1, <1>2, SameFrames
<1> QED
  BY <1>8, <1>9, <1>10 DEF SocketOn

(* Behind the last request there is nothing to read before the upgrade. *)
LEMMA ReadSocket ==
    ASSUME SocketsInv, NEW u \in 0..Len(script), Mixed(script, u), NEW n \in 1..Len(wire), Read(n)
    PROVE  SocketOn(u)'
<1>1. SocketOn(u) /\ Served(u) /\ Upgraded(u) /\ u \in Nat
  BY SocketFacts DEF SocketOn
<1>2. reading = "no" /\ reading' = ctx /\ fed' = 0
      /\ UNCHANGED <<todo, ctx, parser, conn, script, consumed, requests, frames, sent>>
  BY DEF Read
<1>3. Fed = consumed /\ Fed' = consumed
  <2>1. consumed \in Nat
    BY DEF SocketsInv, FramingInv, Framing, FramingType
  <2> QED
    BY <1>2, <2>1 DEF Fed
<1>4. ~(ctx = "http" /\ Len(requests) = u)
  <2> SUFFICES ASSUME ctx = "http", Len(requests) = u PROVE FALSE
    OBVIOUS
  <2>1. EndsOf(script)[u] <= Fed
    BY <1>1 DEF Served
  <2>2. Len(wire) = 0
    BY <2>1, NothingBehind
  <2> QED
    BY <2>2
<1>5. Served(u)'
  BY <1>1, <1>2, <1>3, <1>4 DEF Served
<1>6. Upgraded(u)'
  BY <1>1, <1>2 DEF Upgraded
<1>7. Handled(script, frames, u)' /\ Answered'
  BY <1>1, <1>2, SameFrames
<1> QED
  BY <1>5, <1>6, <1>7 DEF SocketOn

(* The parser is fed nothing but requests. *)
LEMMA FeedSocket ==
    ASSUME SocketsInv, NEW u \in 0..Len(script), Mixed(script, u), Feed
    PROVE  SocketOn(u)'
<1>1. SocketOn(u) /\ Served(u) /\ Upgraded(u) /\ u \in Nat
  BY SocketFacts DEF SocketOn
<1>2. reading = "http" /\ fed < readable_bytes(buf)
      /\ UNCHANGED <<todo, reading, ctx, queue, conn, script, consumed, requests, frames, sent>>
  BY DEF Feed
<1>3. Len(requests) # u
  <2> SUFFICES ASSUME Len(requests) = u PROVE FALSE
    OBVIOUS
  <2>1. fed = Len(queue) /\ readable_bytes(buf) = Len(queue) /\ Len(queue) \in Nat
    BY <1>1, <1>2, FramingFacts DEF Served, SocketsInv
  <2> QED
    BY <1>2, <2>1
<1>4. Served(u)'
  BY <1>1, <1>2, <1>3 DEF Served
<1>5. Upgraded(u)'
  BY <1>1, <1>2 DEF Upgraded
<1>6. Handled(script, frames, u)' /\ Answered'
  BY <1>1, <1>2, SameFrames
<1> QED
  BY <1>4, <1>5, <1>6 DEF SocketOn

(* The callback that has upgraded ends at the end of the last request. *)
LEMMA FeedEndSocket ==
    ASSUME SocketsInv, NEW u \in 0..Len(script), Mixed(script, u), FeedEnd
    PROVE  SocketOn(u)'
<1>1. SocketOn(u) /\ Served(u) /\ Upgraded(u) /\ u \in Nat
  BY SocketFacts DEF SocketOn
<1>2. reading = "http" /\ reading' = "no" /\ consumed' = consumed + fed
      /\ UNCHANGED <<todo, ctx, parser, conn, script, requests, frames, sent>>
  BY DEF FeedEnd, Retrieve
<1>3. Fed = consumed + fed /\ consumed \in Nat /\ fed \in Nat
  BY <1>2, FramingFacts DEF SocketsInv, FramingInv, Framing, FramingType
<1>4. Fed' = Fed
  BY <1>2, <1>3 DEF Fed
<1>5. Served(u)'
  BY <1>1, <1>2, <1>4 DEF Served
<1>6. Upgraded(u)'
  <2>1. ctx = "ws" => frames = <<>> /\ consumed' = EndsOf(script)[u]
    BY <1>1, <1>2, <1>3 DEF Upgraded, Served
  <2>2. ctx = "ws" => consumed' = EndsOf(script)[u + Len(frames)]
    <3>1. Len(<<>>) = 0 /\ u + 0 = u
      BY <1>1
    <3> QED
      BY <2>1, <3>1
  <2> QED
    BY <1>1, <1>2, <2>2 DEF Upgraded
<1>7. Handled(script, frames, u)' /\ Answered'
  BY <1>1, <1>2, SameFrames
<1> QED
  BY <1>5, <1>6, <1>7 DEF SocketOn

(* A send that carries no frame. *)
LEMMA OtherAnswered ==
    ASSUME ClosingType, Answered, NEW item, item[1] # "frame", NEW cb, Sends(item, cb), UNCHANGED frames
    PROVE  Answered' /\ \/ sent' = sent
                        \/ sent' = Append(sent, item)
<1>1. sent' = sent \/ sent' = Append(sent, item)
  BY DEF Sends
<1>2. conn' = "connected" => conn = "connected"
  BY DEF Sends, ClosingType
<1>3. FramesIn(sent') = FramesIn(sent)
  <2>1. Itself(sent)
    BY DEF ClosingType, Itself
  <2>2. FramesIn(Append(sent, item)) = FramesIn(sent)
    BY <2>1, FramesInAppend
  <2> QED
    BY <1>1, <2>2
<1>4. Matched(FramesIn(sent), AskingIn(frames), conn')
  BY <1>2 DEF Answered, Matched
<1>5. Answered'
  BY <1>3, <1>4 DEF Answered
<1> QED
  BY <1>1, <1>5

(* A sequence of anything, one longer. *)
LEMMA AppendLen ==
    ASSUME NEW s, Itself(s), NEW x
    PROVE  Len(s) \in Nat /\ Len(Append(s, x)) = Len(s) + 1 /\ Itself(Append(s, x))
           /\ Append(s, x)[Len(s) + 1] = x /\ \A i \in 1..Len(s) : Append(s, x)[i] = s[i]
<1>1. PICK S : s \in Seq(S) /\ x \in S
  BY ItselfIn
<1>2. Len(s) \in Nat /\ Append(s, x) \in Seq(S) /\ Len(Append(s, x)) = Len(s) + 1
      /\ Append(s, x)[Len(s) + 1] = x /\ \A i \in 1..Len(s) : Append(s, x)[i] = s[i]
  BY <1>1, AppendProperties, LenProperties
<1> QED
  BY <1>2, InSeq

(* No other item is a 101. *)
LEMMA Switching ==
    ASSUME NEW s, Itself(s), NEW x, x # <<"101">>, \E i \in DOMAIN Append(s, x) : Append(s, x)[i] = <<"101">>
    PROVE  \E i \in DOMAIN s : s[i] = <<"101">>
<1> DEFINE t == Append(s, x)
           n == Len(s)
<1>1. n \in Nat /\ DOMAIN s = 1..n /\ DOMAIN t = 1..(n + 1) /\ t[n + 1] = x /\ \A i \in 1..n : t[i] = s[i]
  BY AppendAny DEF Itself
<1>2. PICK i \in DOMAIN t : t[i] = <<"101">>
  OBVIOUS
<1> HIDE DEF t, n
<1>3. i \in 1..n
  <2>1. i \in 1..(n + 1) /\ t[i] # t[n + 1]
    BY <1>1, <1>2
  <2>2. i # n + 1
    BY <2>1
  <2> QED
    BY <1>1, <2>1, <2>2
<1> QED
  BY <1>1, <1>2, <1>3

(* The callback of the last request may upgrade, no other does. *)
LEMMA CallbackSocket ==
    ASSUME SocketsInv, NEW u \in 0..Len(script), Mixed(script, u), Callback
    PROVE  SocketOn(u)'
<1> DEFINE r == Len(requests)
           h == HandedOver(parser)
           i == r + 1
<1>1. SocketOn(u) /\ Served(u) /\ Upgraded(u) /\ u \in Nat /\ Handled(script, frames, u) /\ Answered /\ FramingInv
      /\ ClosingType /\ EndsOf(script)[u] \in Nat
  BY SocketFacts DEF SocketOn, SocketsInv
<1>2. reading = "http" /\ parser.complete /\ requests' = Append(requests, h) /\ parser' = Fresh
      /\ UNCHANGED <<todo, script, queue, consumed, fed, reading, frames>>
  BY DEF Callback, HandedOver
<1>3. r \in Nat /\ script \in Seq(Messages) /\ parser.complete = TRUE /\ Fed \in Nat /\ Len(script) \in Nat
      /\ Itself(requests) /\ Itself(sent)
  BY <1>1, <1>2, FramingFacts DEF FramingInv, Framing, FramingType, Parsers, Itself, ClosingType
<1>4. Len(requests') = i
  <2> HIDE DEF h
  <2>1. Len(Append(requests, h)) = r + 1
    BY <1>3, AppendLen
  <2> QED
    BY <1>2, <2>1
<1>5. r # u /\ r < u
  <2>1. r # u
    BY <1>1, <1>3 DEF Served
  <2>2. r <= u
    BY <1>1 DEF Served
  <2> HIDE DEF r
  <2> QED
    BY <1>1, <1>3, <2>1, <2>2
<1>6. ctx = "http"
  BY <1>1, <1>5 DEF Upgraded
<1>7. i \in 1..u /\ u \in 0..Len(script) /\ i \in 1..Len(script)
  <2> HIDE DEF r
  <2> QED
    BY <1>1, <1>3, <1>5
<1>8. Due(script, i)
  <2>1. DOMAIN script = 1..Len(script)
    BY <1>3, LenProperties
  <2>2. \A k \in 1..i : k \in 1..u /\ (k < i => k < u)
    <3> HIDE DEF i
    <3> QED
      BY <1>1, <1>7
  <2> QED
    BY <1>7, <2>1, <2>2 DEF Due, Mixed
<1>9. Fed = EndsOf(script)[i] /\ Parsed(parser, script[i]) /\ script[i] \in Messages /\ WellFormed(script[i])
  BY <1>1, <1>3, <1>8, StandsNow
<1>10. i < u => ~IsUpgrade(parser)
  <2>1. i < u => ~Upgrades(script[i])
    BY <1>7 DEF Mixed
  <2> QED
    BY <1>9, <2>1, ParsedIs
<1>11. Fed' = Fed
  BY <1>2 DEF Fed
<1> HIDE DEF h
<1>12. Served(u)'
  <2>1. i <= u
    <3> HIDE DEF i
    <3> QED
      BY <1>1, <1>7
  <2>2. ASSUME i = u
        PROVE  EndsOf(script)[u] <= Fed /\ fed = Len(queue) /\ Fed = EndsOf(script)[u]
    <3>1. Fed = EndsOf(script)[u] /\ EndsOf(script)[u] <= Fed
      BY <1>1, <1>9, <2>2
    <3> QED
      BY <1>2, <1>6, <3>1, NothingBehind
  <2>3. Fresh.complete = FALSE
    BY DEF Fresh
  <2> HIDE DEF i
  <2> QED
    BY <1>2, <1>4, <1>11, <2>1, <2>2, <2>3 DEF Served
<1>13. \/ IsUpgrade(parser) /\ Sends(<<"101">>, wcc) /\ ctx' = "ws"
       \/ ctx' = ctx /\ \E keep, cb : Sends(<<"response", keep>>, cb)
  BY DEF Callback, SendResponse
<1>14. Handled(script, frames, u)'
  BY <1>1, <1>2
<1>15. CASE IsUpgrade(parser) /\ Sends(<<"101">>, wcc) /\ ctx' = "ws"
  <2> DEFINE item == <<"101">>
  <2>1. item[1] # "frame" /\ Sends(item, wcc)
    BY <1>15
  <2> HIDE DEF item
  <2>2. Answered'
    BY <1>1, <1>2, <2>1, OtherAnswered
  <2>3. i = u
    <3> HIDE DEF i
    <3> QED
      BY <1>1, <1>7, <1>10, <1>15
  <2>4. Upgraded(u)'
    BY <1>1, <1>2, <1>4, <1>6, <1>15, <2>3 DEF Upgraded
  <2> QED
    BY <1>12, <1>14, <2>2, <2>4 DEF SocketOn
<1>16. ASSUME ctx' = ctx, NEW keep, NEW cb, Sends(<<"response", keep>>, cb) PROVE SocketOn(u)'
  <2> DEFINE item == <<"response", keep>>
  <2>1. item[1] # "frame" /\ item # <<"101">> /\ Sends(item, cb)
    BY <1>16
  <2> HIDE DEF item
  <2>2. Answered' /\ (sent' = sent \/ sent' = Append(sent, item))
    BY <1>1, <1>2, <2>1, OtherAnswered
  <2>3. ~\E k \in DOMAIN sent : sent[k] = <<"101">>
    BY <1>1, <1>6 DEF Upgraded
  <2>4. ~\E k \in DOMAIN sent' : sent'[k] = <<"101">>
    <3>1. CASE sent' = sent
      BY <2>3, <3>1
    <3>2. CASE sent' = Append(sent, item)
      BY <1>3, <2>1, <2>3, <3>2, Switching
    <3> QED
      BY <2>2, <3>1, <3>2
  <2>5. Upgraded(u)'
    BY <1>1, <1>2, <1>6, <1>16, <2>4 DEF Upgraded
  <2> QED
    BY <1>12, <1>14, <2>2, <2>5 DEF SocketOn
<1> QED
  BY <1>13, <1>15, <1>16

(* The next frame is at the front of the buffer, or its beginning. *)
LEMMA NextFrame ==
    ASSUME SocketsInv, NEW u \in 0..Len(script), Mixed(script, u), reading = "ws"
    PROVE  LET v == u + Len(frames) IN
           \/ Decode(queue) = Incomplete
           \/ \E m : /\ v + 1 \in (u + 1)..Len(script) /\ m = script[v + 1] /\ GoodFrame(m)
                     /\ Decode(queue) = [used |-> Len(Bytes(m)), frame |-> Carried(m)]
                     /\ Len(Bytes(m)) \in Nat /\ Len(Bytes(m)) # 0
                     /\ EndsOf(script)[v + 1] = consumed + Len(Bytes(m))
<1> DEFINE l == Len(frames)
           v == u + l
           n == Len(script)
           E == EndsOf(script)
<1>1. SocketOn(u) /\ Upgraded(u) /\ u \in Nat /\ Handled(script, frames, u) /\ FramingInv /\ script \in Seq(Messages)
      /\ \A d \in 0..n : E[d] \in Nat
  BY SocketFacts DEF SocketOn
<1>2. l \in Nat /\ n \in Nat /\ l <= n - u
  <2>1. l \in Nat
    BY <1>1, LenProperties DEF Handled, Itself
  <2> QED
    BY <1>1, <2>1, FramingFacts DEF Handled
<1>3. v \in 0..n /\ v \in Nat
  <2> HIDE DEF l, n
  <2> QED
    BY <1>1, <1>2
<1>4. consumed = E[v]
  BY <1>1 DEF Upgraded
<1>5. queue \in Seq(Byte) /\ Len(queue) \in Nat /\ Len(wire) \in Nat /\ Len(todo) \in Nat /\ InOrder
  BY <1>1, FramingFacts DEF FramingInv, Framing
<1> HIDE DEF v, l, n, E
<1>6. CASE v = n
  <2> DEFINE d == n - Len(todo)
  <2>1. consumed + Len(queue) + Len(wire) = E[d] /\ Len(todo) <= n
    BY <1>5 DEF InOrder, Ending, E, n
  <2>2. d \in 0..n /\ n \in 0..n /\ d <= n
    BY <1>2, <1>5, <2>1
  <2>3. E[d] <= E[n]
    BY <1>1, <2>2, EndsGrow DEF E, n
  <2>4. E[d] \in Nat /\ E[n] \in Nat
    BY <1>1, <2>2
  <2> HIDE DEF d
  <2>5. Len(queue) = 0
    BY <1>4, <1>5, <1>6, <2>1, <2>3, <2>4
  <2>6. Decode(queue) = Incomplete
    BY <2>5 DEF Decode
  <2> QED
    BY <2>6
<1>7. CASE v # n
  <2> DEFINE i == v + 1
             m == script[i]
             b == Bytes(m)
  <2>1. i \in (u + 1)..n /\ i \in 1..n /\ i - 1 = v
    BY <1>1, <1>2, <1>3, <1>7 DEF v
  <2>2. GoodFrame(m)
    BY <2>1 DEF Mixed, n
  <2>3. b \in Seq(Byte) /\ Len(b) \in Nat /\ E[i] = E[v] + Len(b) /\ E[v] \in Nat /\ E[i] \in Nat
    BY <1>1, <1>3, <2>1, EndsAre DEF E, n
  <2>4. Encodes(b, m.opcode, m.masked, m.payload)
    BY <2>2, FrameBytes
  <2> HIDE DEF b, m
  <2>5. Begins(queue, b)
    <3> SUFFICES ASSUME NEW x \in 1..Len(b), x <= Len(queue) PROVE queue[x] = b[x]
      BY DEF Begins
    <3>1. x \in 1..Len(queue) /\ E[i - 1] < consumed + x /\ consumed + x <= E[i] /\ (consumed + x) - E[i - 1] = x
      BY <1>4, <1>5, <2>1, <2>3
    <3>2. queue[x] = b[(consumed + x) - E[i - 1]]
      BY <1>5, <2>1, <3>1 DEF InOrder, Stretch, E, n, b, m
    <3> QED
      BY <3>1, <3>2
  <2>6. queue \in Seq(Nat)
    <3>1. queue \in [1..Len(queue) -> Byte]
      BY <1>5, LenProperties
    <3>2. queue \in [1..Len(queue) -> Nat]
      BY <3>1, StreamAssumption
    <3> QED
      BY <1>5, <3>2, FcnIsSeq
  <2>7. m.opcode \in 0..15 /\ m.masked \in BOOLEAN /\ m.payload \in Seq(0..255) /\ Shift(Len(m.payload))[8] = 0
    BY <2>2 DEF GoodFrame
  <2>8. CASE Len(queue) < Len(b)
    <3>1. Decode(queue) = Incomplete
      BY <2>4, <2>5, <2>6, <2>7, <2>8, DecodeIs
    <3> QED
      BY <3>1
  <2>9. CASE ~(Len(queue) < Len(b))
    <3>1. Decode(queue) = [used |-> Len(b), frame |-> FrameOf(m.opcode, m.payload)]
      <4> DEFINE op == m.opcode
                 masked == m.masked
                 payload == m.payload
      <4>1. op \in 0..15 /\ masked \in BOOLEAN /\ payload \in Seq(0..255) /\ Shift(Len(payload))[8] = 0
            /\ Encodes(b, op, masked, payload)
        BY <2>4, <2>7
      <4> HIDE DEF op, masked, payload
      <4>2. Decode(queue) = [used |-> Len(b), frame |-> FrameOf(op, payload)]
        BY <2>5, <2>6, <2>9, <4>1, DecodeIs
      <4> QED
        BY <4>2 DEF op, payload
    <3>2. FrameOf(m.opcode, m.payload) = Carried(m)
      BY DEF FrameOf, Carried
    <3>3. Len(b) # 0
      <4>1. Len(m.payload) \in Nat
        BY <2>7, LenProperties
      <4>2. HeadOf(Len(m.payload), m.masked) \in Nat /\ HeadOf(Len(m.payload), m.masked) >= 2
        BY DEF HeadOf, ExtOf
      <4>3. Len(b) = HeadOf(Len(m.payload), m.masked) + Len(m.payload)
        BY <2>4 DEF Encodes
      <4> QED
        BY <4>1, <4>2, <4>3
    <3>4. E[i] = consumed + Len(b)
      BY <1>4, <2>3
    <3>5. i \in (u + 1)..Len(script) /\ m = script[i] /\ GoodFrame(m)
          /\ Decode(queue) = [used |-> Len(Bytes(m)), frame |-> Carried(m)]
          /\ Len(Bytes(m)) \in Nat /\ Len(Bytes(m)) # 0 /\ EndsOf(script)[i] = consumed + Len(Bytes(m))
      BY <2>1, <2>2, <2>3, <3>1, <3>2, <3>3, <3>4 DEF E, n, b, m
    <3> QED
      BY <3>5 DEF v, l
  <2> QED
    BY <2>8, <2>9
<1> QED
  BY <1>6, <1>7

(* What encode makes, decode gives back. *)
LEMMA EncodeDecode ==
    ASSUME NEW op \in 0..15, NEW payload \in Seq(0..255), Shift(Len(payload))[8] = 0
    PROVE  Decode(Encode(op, payload)) = [used |-> Len(Encode(op, payload)), frame |-> FrameOf(op, payload)]
<1> DEFINE b == Encode(op, payload)
           plain == FALSE
<1>1. Encodes(b, op, FALSE, payload)
  BY EncodeIs
<1> HIDE DEF b
<1>2. b \in Seq(Nat)
  BY <1>1 DEF Encodes
<1>3. Begins(b, b) /\ ~(Len(b) < Len(b))
  <2>1. Len(b) \in Nat
    BY <1>2, LenProperties
  <2> QED
    BY <2>1 DEF Begins
<1>4. plain \in BOOLEAN /\ Encodes(b, op, plain, payload)
  BY <1>1
<1> HIDE DEF plain
<1>5. Decode(b) = [used |-> Len(b), frame |-> FrameOf(op, payload)]
  BY <1>2, <1>3, <1>4, DecodeIs
<1> QED
  BY <1>5 DEF b

(* A payload of no bytes has a length of no bits. *)
LEMMA ShiftNothing == Shift(0)[8] = 0
<1> DEFINE z == 0
           f == Shift(z)
<1>1. z \in Nat
  OBVIOUS
<1> HIDE DEF z
<1>2. f[0] = z /\ \A i \in 1..8 : f[i] = f[i - 1] \div Base
  BY <1>1, ShiftIs
<1>3. 0 \div Base = 0
  BY StreamAssumption
<1> HIDE DEF f
<1>4. f[0] = 0
  BY <1>2 DEF z
<1>5. f[1] = f[0] \div Base /\ f[2] = f[1] \div Base /\ f[3] = f[2] \div Base /\ f[4] = f[3] \div Base
      /\ f[5] = f[4] \div Base /\ f[6] = f[5] \div Base /\ f[7] = f[6] \div Base /\ f[8] = f[7] \div Base
  BY <1>2
<1>6. f[8] = 0
  BY <1>3, <1>4, <1>5
<1> QED
  BY <1>6 DEF f, z

(* The frame the server sends answers the one it got. *)
LEMMA ReplyAnswers ==
    ASSUME NEW m, GoodFrame(m)
    PROVE  /\ m.opcode = Ping => Answers(<<"frame", Encode(Pong, m.payload)>>, Carried(m))
           /\ m.opcode = Closing => Answers(<<"frame", Encode(Closing, <<>>)>>, Carried(m))
<1>1. m.payload \in Seq(0..255) /\ Shift(Len(m.payload))[8] = 0
  BY DEF GoodFrame
<1>2. Carried(m).opcode = m.opcode /\ Carried(m).payload = m.payload
  BY DEF Carried
<1>3. ASSUME m.opcode = Ping PROVE Answers(<<"frame", Encode(Pong, m.payload)>>, Carried(m))
  <2> DEFINE b == Encode(Pong, m.payload)
  <2>1. Pong \in 0..15
    BY DEF Pong
  <2>2. Decode(b) = [used |-> Len(b), frame |-> FrameOf(Pong, m.payload)]
    BY <1>1, <2>1, EncodeDecode
  <2> HIDE DEF b
  <2>3. ReplyTo(Carried(m)) = FrameOf(Pong, m.payload)
    BY <1>2, <1>3 DEF ReplyTo, FrameOf
  <2>4. Answers(<<"frame", b>>, Carried(m))
    BY <2>2, <2>3 DEF Answers
  <2> QED
    BY <2>4 DEF b
<1>4. ASSUME m.opcode = Closing PROVE Answers(<<"frame", Encode(Closing, <<>>)>>, Carried(m))
  <2> DEFINE e == <<>>
             b == Encode(Closing, e)
  <2>1. Closing \in 0..15 /\ e \in Seq(0..255) /\ Len(e) = 0 /\ Closing # Ping
    BY DEF Closing, Ping
  <2> HIDE DEF e
  <2>2. Shift(Len(e))[8] = 0
    BY <2>1, ShiftNothing
  <2>3. Decode(b) = [used |-> Len(b), frame |-> FrameOf(Closing, e)]
    BY <2>1, <2>2, EncodeDecode
  <2> HIDE DEF b
  <2>4. ReplyTo(Carried(m)) = FrameOf(Closing, e)
    BY <1>2, <1>4, <2>1 DEF ReplyTo, FrameOf, e
  <2>5. Answers(<<"frame", b>>, Carried(m))
    BY <2>3, <2>4 DEF Answers
  <2> QED
    BY <2>5 DEF b, e
<1> QED
  BY <1>3, <1>4

(* One frame more to answer, and its answer if the connection takes it. *)
LEMMA MatchedMore ==
    ASSUME NEW a, NEW k, NEW c, Matched(a, k, c), NEW f, NEW x
    PROVE  /\ \A d : d # "connected" => Matched(a, Append(k, f), d)
           /\ c = "connected" /\ Answers(x, f) => \A d : Matched(Append(a, x), Append(k, f), d)
<1> DEFINE p == Len(a)
           q == Len(k)
           a2 == Append(a, x)
           k2 == Append(k, f)
<1>1. Itself(a) /\ Itself(k) /\ p <= q /\ (c = "connected" => p = q) /\ \A i \in 1..p : Answers(a[i], k[i])
  BY DEF Matched
<1>2. p \in Nat /\ Len(a2) = p + 1 /\ Itself(a2) /\ a2[p + 1] = x /\ \A i \in 1..p : a2[i] = a[i]
  BY <1>1, AppendLen
<1>3. q \in Nat /\ Len(k2) = q + 1 /\ Itself(k2) /\ k2[q + 1] = f /\ \A i \in 1..q : k2[i] = k[i]
  BY <1>1, AppendLen
<1> HIDE DEF a2, k2
<1>4. \A d : d # "connected" => Matched(a, k2, d)
  <2>1. \A i \in 1..p : i \in 1..q
    BY <1>1, <1>2, <1>3
  <2>2. p <= q + 1
    BY <1>1, <1>2, <1>3
  <2>3. \A i \in 1..p : Answers(a[i], k2[i])
    BY <1>1, <1>3, <2>1
  <2> QED
    BY <1>1, <1>3, <2>2, <2>3 DEF Matched
<1>5. ASSUME c = "connected", Answers(x, f), NEW d PROVE Matched(a2, k2, d)
  <2>1. p = q
    BY <1>1, <1>5
  <2>2. \A i \in 1..(p + 1) : i \in 1..p \/ i = p + 1
    BY <1>2
  <2>3. \A i \in 1..(p + 1) : Answers(a2[i], k2[i])
    BY <1>1, <1>2, <1>3, <1>5, <2>1, <2>2
  <2>4. p + 1 <= q + 1
    BY <1>2, <2>1
  <2> QED
    BY <1>2, <1>3, <2>1, <2>3, <2>4 DEF Matched
<1> QED
  BY <1>4, <1>5 DEF a2, k2

(* A frame that asks for an answer gets it, unless the connection is lost. *)
LEMMA FrameAnswered ==
    ASSUME ClosingType, Answered, Itself(frames), NEW f, frames' = Append(frames, f), f.opcode \in {Ping, Closing},
           NEW b, Answers(<<"frame", b>>, f), NEW cb, Sends(<<"frame", b>>, cb)
    PROVE  Answered' /\ (sent' = sent \/ sent' = Append(sent, <<"frame", b>>))
<1> DEFINE x == <<"frame", b>>
           a == FramesIn(sent)
           k == AskingIn(frames)
<1>1. Itself(sent)
  BY DEF ClosingType, Itself
<1>2. x[1] = "frame" /\ Answers(x, f) /\ Sends(x, cb)
  OBVIOUS
<1> HIDE DEF x
<1>3. \/ conn' # "connected" /\ sent' = sent
      \/ conn = "connected" /\ sent' = Append(sent, x)
  BY <1>2 DEF Sends, ClosingType
<1>4. FramesIn(Append(sent, x)) = Append(a, x)
  BY <1>1, <1>2, FramesInAppend
<1>5. AskingIn(frames') = Append(k, f)
  BY AskingInAppend
<1>6. Matched(a, k, conn)
  BY DEF Answered
<1> HIDE DEF a, k
<1>7. CASE conn' # "connected" /\ sent' = sent
  <2>1. Matched(a, Append(k, f), conn')
    BY <1>6, <1>7, MatchedMore
  <2> QED
    BY <1>5, <1>7, <2>1 DEF Answered, a
<1>8. CASE conn = "connected" /\ sent' = Append(sent, x)
  <2>1. Matched(Append(a, x), Append(k, f), conn')
    BY <1>2, <1>6, <1>8, MatchedMore
  <2> QED
    BY <1>4, <1>5, <1>8, <2>1 DEF Answered, x
<1> QED
  BY <1>3, <1>7, <1>8 DEF x

(* WsHandler takes the next frame, if it is there. *)
LEMMA WsFeedSocket ==
    ASSUME SocketsInv, NEW u \in 0..Len(script), Mixed(script, u), WsFeed
    PROVE  SocketOn(u)'
<1> DEFINE d == Decode(queue)
           l == Len(frames)
           v == u + l
<1>1. SocketOn(u) /\ Served(u) /\ Upgraded(u) /\ u \in Nat /\ Handled(script, frames, u) /\ Answered /\ FramingInv
      /\ ClosingType /\ EndsOf(script)[u] \in Nat /\ script \in Seq(Messages)
  BY SocketFacts DEF SocketOn, SocketsInv
<1>2. /\ reading = "ws" /\ reading' = "no" /\ consumed' = consumed + d.used
      /\ UNCHANGED <<todo, ctx, parser, script, requests>>
      /\ d.used = 0 => UNCHANGED <<conn, stalled, sent, frames>>
      /\ d.used # 0 => /\ frames' = Append(frames, d.frame)
                       /\ d.frame.opcode = Ping => Sends(<<"frame", Encode(Pong, d.frame.payload)>>, wcc)
                       /\ d.frame.opcode = Closing => Sends(<<"frame", Encode(Closing, <<>>)>>, wcc)
                       /\ d.frame.opcode \notin {Ping, Closing} => UNCHANGED <<conn, stalled, sent>>
  <2>1. Readable(buf) = queue /\ Ping # Closing
    BY <1>1, FramingFacts DEF Ping, Closing
  <2> QED
    BY <2>1 DEF WsFeed, Retrieve
<1>3. ctx = "ws" /\ consumed = EndsOf(script)[v] /\ Len(requests) = u /\ parser.complete = FALSE
      /\ EndsOf(script)[u] <= Fed
  BY <1>1, <1>2 DEF Upgraded, Served
<1>4. consumed \in Nat /\ Fed = consumed /\ l \in Nat /\ Len(script) \in Nat /\ Itself(frames) /\ l <= Len(script) - u
  <2>1. l \in Nat
    BY <1>1, LenProperties DEF Handled, Itself
  <2> QED
    BY <1>1, <1>2, <2>1, FramingFacts DEF FramingInv, Framing, FramingType, Handled
<1>5. ASSUME NEW n \in Nat, consumed' = consumed + n PROVE Served(u)'
  <2>1. Fed' = consumed + n
    BY <1>2, <1>4, <1>5 DEF Fed
  <2>2. EndsOf(script)[u] <= Fed'
    BY <1>1, <1>3, <1>4, <2>1
  <2>3. Len(requests) <= u
    BY <1>1 DEF Served
  <2> QED
    BY <1>2, <1>3, <2>2, <2>3 DEF Served
<1> HIDE DEF d
<1>6. CASE d = Incomplete
  <2>1. d.used = 0
    BY <1>6 DEF Incomplete
  <2>2. UNCHANGED <<conn, sent, frames, script>> /\ consumed' = consumed
    BY <1>2, <1>4, <2>1
  <2>3. Handled(script, frames, u)' /\ Answered'
    BY <1>1, <2>2, SameFrames
  <2>4. Served(u)'
    BY <1>2, <1>5, <2>1
  <2>5. Upgraded(u)'
    BY <1>1, <1>2, <1>3, <2>2 DEF Upgraded
  <2> QED
    BY <2>3, <2>4, <2>5 DEF SocketOn
<1>7. ASSUME NEW m, v + 1 \in (u + 1)..Len(script), m = script[v + 1], GoodFrame(m),
             d = [used |-> Len(Bytes(m)), frame |-> Carried(m)], Len(Bytes(m)) \in Nat, Len(Bytes(m)) # 0,
             EndsOf(script)[v + 1] = consumed + Len(Bytes(m))
      PROVE  SocketOn(u)'
  <2> DEFINE f == Carried(m)
             i == l + 1
             fs == Append(frames, f)
  <2>1. d.used = Len(Bytes(m)) /\ d.frame = f /\ f.opcode = m.opcode /\ f.payload = m.payload
    BY <1>7 DEF Carried
  <2> HIDE DEF f
  <2>2. Len(fs) = i /\ Itself(fs) /\ fs[i] = f /\ \A k \in 1..l : fs[k] = frames[k]
    BY <1>4, AppendLen
  <2>3. frames' = fs /\ consumed' = EndsOf(script)[v + 1]
    BY <1>2, <1>7, <2>1
  <2> HIDE DEF fs
  <2>4. v + 1 = u + i
    BY <1>1, <1>4
  <2>5. i <= Len(script) - u
    <3> HIDE DEF l
    <3> QED
      BY <1>1, <1>4, <1>7
  <2>6. Handled(script, fs, u)
    <3>1. \A k \in 1..l : frames[k] = Carried(script[u + k])
      BY <1>1 DEF Handled
    <3>2. f = Carried(script[u + i])
      BY <1>7, <2>4 DEF f
    <3>3. \A k \in 1..i : k \in 1..l \/ k = i
      BY <1>4
    <3>4. \A k \in 1..i : fs[k] = Carried(script[u + k])
      BY <2>2, <3>1, <3>2, <3>3
    <3> HIDE DEF i
    <3> QED
      BY <2>2, <2>5, <3>4 DEF Handled
  <2>7. Handled(script, frames, u)'
    BY <1>2, <2>3, <2>6
  <2>8. Served(u)'
    BY <1>2, <1>5, <1>7, <2>1
  <2>9. Answered' /\ \/ sent' = sent
                     \/ \E b : sent' = Append(sent, <<"frame", b>>)
    <3>1. d.used # 0 /\ frames' = Append(frames, f)
      BY <1>7, <2>1, <2>3 DEF fs
    <3>2. CASE m.opcode = Ping
      <4> DEFINE b == Encode(Pong, m.payload)
      <4>1. Sends(<<"frame", b>>, wcc)
        BY <1>2, <2>1, <3>1, <3>2
      <4>2. Answers(<<"frame", b>>, f)
        BY <1>7, <3>2, ReplyAnswers DEF f
      <4>3. f.opcode \in {Ping, Closing}
        BY <2>1, <3>2
      <4> HIDE DEF b
      <4>4. Answered' /\ (sent' = sent \/ sent' = Append(sent, <<"frame", b>>))
        BY <1>1, <1>4, <3>1, <4>1, <4>2, <4>3, FrameAnswered
      <4> QED
        BY <4>4
    <3>3. CASE m.opcode = Closing
      <4> DEFINE b == Encode(Closing, <<>>)
      <4>1. Sends(<<"frame", b>>, wcc)
        BY <1>2, <2>1, <3>1, <3>3
      <4>2. Answers(<<"frame", b>>, f)
        BY <1>7, <3>3, ReplyAnswers DEF f
      <4>3. f.opcode \in {Ping, Closing}
        BY <2>1, <3>3
      <4> HIDE DEF b
      <4>4. Answered' /\ (sent' = sent \/ sent' = Append(sent, <<"frame", b>>))
        BY <1>1, <1>4, <3>1, <4>1, <4>2, <4>3, FrameAnswered
      <4> QED
        BY <4>4
    <3>4. CASE m.opcode \notin {Ping, Closing}
      <4>1. UNCHANGED <<conn, sent>>
        BY <1>2, <2>1, <3>1, <3>4
      <4>2. AskingIn(Append(frames, f)) = AskingIn(frames)
        BY <1>4, <2>1, <3>4, AskingInAppend
      <4>3. Answered'
        BY <1>1, <3>1, <4>1, <4>2 DEF Answered
      <4> QED
        BY <4>1, <4>3
    <3> QED
      BY <3>2, <3>3, <3>4
  <2>10. Upgraded(u)'
    <3>1. consumed' = EndsOf(script)[u + Len(frames')]
      BY <2>2, <2>3, <2>4
    <3> HIDE DEF i
    <3> QED
      BY <1>2, <1>3, <3>1 DEF Upgraded
  <2> QED
    BY <2>7, <2>8, <2>9, <2>10 DEF SocketOn
<1>8. \/ d = Incomplete
      \/ \E m : /\ v + 1 \in (u + 1)..Len(script) /\ m = script[v + 1] /\ GoodFrame(m)
                /\ d = [used |-> Len(Bytes(m)), frame |-> Carried(m)]
                /\ Len(Bytes(m)) \in Nat /\ Len(Bytes(m)) # 0
                /\ EndsOf(script)[v + 1] = consumed + Len(Bytes(m))
  BY <1>2, NextFrame DEF d
<1> QED
  BY <1>6, <1>7, <1>8

(* Every step keeps what holds of the frames. *)
LEMMA SocketStep == SocketsInv /\ [Next]_vars => SocketsInv'
<1> SUFFICES ASSUME SocketsInv, [Next]_vars PROVE SocketsInv'
  OBVIOUS
<1>1. FramingInv'
  BY FramingStep DEF SocketsInv
<1>2. ClosingType' /\ ClosingHolds'
  BY ClosingStep DEF SocketsInv
<1>3. script' = script
  BY DEF Next, ClientSend, Read, Feed, FeedEnd, Callback, WsFeed, HandleWrite, vars
<1>4. ASSUME NEW u \in 0..Len(script), Mixed(script, u) PROVE SocketOn(u)'
  <2>1. CASE ClientSend
    BY <1>4, <2>1, SendSocket
  <2>2. ASSUME NEW n \in 1..Len(wire), Read(n) PROVE SocketOn(u)'
    BY <1>4, <2>2, ReadSocket
  <2>3. CASE Feed
    BY <1>4, <2>3, FeedSocket
  <2>4. CASE FeedEnd
    BY <1>4, <2>4, FeedEndSocket
  <2>5. CASE Callback
    BY <1>4, <2>5, CallbackSocket
  <2>6. CASE WsFeed
    BY <1>4, <2>6, WsFeedSocket
  <2>7. CASE HandleWrite \/ UNCHANGED vars
    <3>1. UNCHANGED <<todo, reading, fed, ctx, parser, script, queue, consumed, requests, frames, sent>>
          /\ (conn' = "connected" => conn = "connected")
      BY <2>7 DEF HandleWrite, vars
    <3>2. Served(u) /\ Upgraded(u) /\ Handled(script, frames, u) /\ Answered
      BY <1>4, SocketFacts DEF SocketOn
    <3>3. Served(u)'
      BY <3>1, <3>2, SameServed
    <3>4. Upgraded(u)' /\ Handled(script, frames, u)'
      BY <3>1, <3>2 DEF Upgraded
    <3>5. Answered'
      <4>1. Matched(FramesIn(sent), AskingIn(frames), conn')
        BY <3>1, <3>2 DEF Answered, Matched
      <4> QED
        BY <3>1, <4>1 DEF Answered
    <3> QED
      BY <3>3, <3>4, <3>5 DEF SocketOn
  <2> QED
    BY <2>1, <2>2, <2>3, <2>4, <2>5, <2>6, <2>7 DEF Next
<1>5. SocketInv'
  BY <1>3, <1>4 DEF SocketInv
<1> QED
  BY <1>1, <1>2, <1>5 DEF SocketsInv

(* What the frames are and how they were answered follows. *)
LEMMA FramesFollow == SocketsInv => FramesExact
<1> SUFFICES ASSUME SocketsInv, NEW u \in 0..Len(script), Plain(u), \A k \in (u + 1)..Len(script) : GoodFrame(script[k])
             PROVE  /\ Len(frames) <= Len(script) - u
                    /\ \A i \in DOMAIN frames : frames[i] = Carried(script[u + i])
                    /\ frames # <<>> => consumed = Ends[u + Len(frames)]
                    /\ Len(Replies) <= Len(Asking) /\ (conn = "connected" => Len(Replies) = Len(Asking))
                    /\ \A i \in DOMAIN Replies :
                          Decode(Replies[i][2]) = [used |-> Len(Replies[i][2]), frame |-> ReplyTo(Asking[i])]
  BY DEF FramesExact
<1>1. Mixed(script, u)
  BY DEF Mixed, Plain
<1>2. Upgraded(u) /\ Handled(script, frames, u) /\ Answered
  BY <1>1, SocketFacts DEF SocketOn
<1>3. Ends = EndsOf(script)
  BY Zenon DEF Ends, EndsOf
<1>4. FramesIn(sent) = Replies /\ AskingIn(frames) = Asking
  BY DEF FramesIn, AskingIn, Replies, Asking
<1>5. DOMAIN frames = 1..Len(frames)
  BY <1>2, LenProperties DEF Handled, Itself
<1>6. frames # <<>> => consumed = Ends[u + Len(frames)]
  BY <1>2, <1>3 DEF Upgraded
<1>7. Matched(Replies, Asking, conn)
  BY <1>2, <1>4 DEF Answered
<1>8. DOMAIN Replies = 1..Len(Replies)
  BY <1>7, LenProperties DEF Matched, Itself
<1>9. \A i \in DOMAIN Replies : Answers(Replies[i], Asking[i])
  BY <1>7, <1>8 DEF Matched
<1>10. \A i \in DOMAIN Replies : Decode(Replies[i][2]) = [used |-> Len(Replies[i][2]), frame |-> ReplyTo(Asking[i])]
  BY <1>9 DEF Answers
<1>11. Len(Replies) <= Len(Asking) /\ (conn = "connected" => Len(Replies) = Len(Asking))
  BY <1>7 DEF Matched
<1>12. Len(frames) <= Len(script) - u /\ \A i \in DOMAIN frames : frames[i] = Carried(script[u + i])
  BY <1>2, <1>5 DEF Handled
<1> QED
  BY <1>6, <1>10, <1>11, <1>12

(* FramesExact: however the stream is cut, WsHandler takes the frames the  *)
(* client sent behind its upgrade, one by one and unmasked, and answers    *)
(* each ping and close with a frame that decodes to what it should.        *)
THEOREM FramesKept == Spec => []FramesExact
<1>1. SocketsInv => FramesExact
  BY FramesFollow
<1>2. Init => SocketsInv
  BY SocketInit
<1>3. SocketsInv /\ [Next]_vars => SocketsInv'
  BY SocketStep
<1> QED
  BY <1>1, <1>2, <1>3, PTL DEF Spec

===============================================================================

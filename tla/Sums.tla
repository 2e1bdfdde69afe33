-------------------------------- MODULE Sums ---------------------------------
(***************************************************************************)
(* Facts about SumFunctionOnSet, the fold with which the modules add up    *)
(* shares and balances: it is what one expects of a sum over a finite set. *)
(*                                                                         *)
(* The fold is a recursive function over the subsets of the set, so first  *)
(* such a function has to exist.  Inductions go over finite sets by taking *)
(* a smallest counterexample.                                              *)
(***************************************************************************)
EXTENDS Integers, FiniteSets, Functions, FiniteSetTheorems, TLAPS

Pick(s) == CHOOSE x \in s : TRUE

\* g is the recursive function of the fold over the subsets of S.
Adds(g, f, S) ==
  g = [s \in SUBSET S |-> IF s = {} THEN 0 ELSE f[Pick(s)] + g[s \ {Pick(s)}]]

\* A set of finite sets that is not empty has a smallest member.
LEMMA SmallestSet ==
  ASSUME NEW S, IsFiniteSet(S), NEW T, T \subseteq SUBSET S, T # {}
  PROVE  \E s \in T : IsFiniteSet(s) /\ \A r \in T : r \subseteq s => r = s
<1>1. FiniteSubsetsOf(S) = SUBSET S
  BY FS_FiniteSubsetsOfFinite
<1>2. IsWellFoundedOn(StrictSubsetOrdering(S), SUBSET S)
  BY <1>1, FS_StrictSubsetOrderingWellFounded
<1>3. PICK s \in T : \A r \in T : ~(<<r, s>> \in StrictSubsetOrdering(S))
  BY <1>2, WFMin
<1>4. \A r \in T : r \subseteq s => r = s
  BY <1>3 DEF StrictSubsetOrdering
<1>5. IsFiniteSet(s)
  BY FS_Subset
<1> QED
  BY <1>4, <1>5

LEMMA Picked == ASSUME NEW s, s # {} PROVE Pick(s) \in s
BY DEF Pick

LEMMA AddsAt ==
  ASSUME NEW g, NEW f, NEW S, Adds(g, f, S), NEW s \in SUBSET S
  PROVE  g[s] = IF s = {} THEN 0 ELSE f[Pick(s)] + g[s \ {Pick(s)}]
<1>1. g = [r \in SUBSET S |-> IF r = {} THEN 0 ELSE f[Pick(r)] + g[r \ {Pick(r)}]]
  BY DEF Adds
<1> QED
  BY <1>1

\* Two such functions agree where both are defined.
LEMMA AddsAgree ==
  ASSUME NEW f, NEW g, NEW h, NEW S, NEW R, IsFiniteSet(S), Adds(g, f, S), Adds(h, f, R),
         NEW s \in (SUBSET S) \cap (SUBSET R)
  PROVE  g[s] = h[s]
<1> SUFFICES ASSUME g[s] # h[s] PROVE FALSE
  OBVIOUS
<1> DEFINE T == {r \in SUBSET S : r \in SUBSET R /\ g[r] # h[r]}
<1>0. s \in SUBSET S /\ s \in SUBSET R
  OBVIOUS
<1>1. s \in T
  BY <1>0
<1>11. T \subseteq SUBSET S /\ T # {}
  BY <1>1
<1>2. PICK r \in T : \A q \in T : q \subseteq r => q = r
  <2> HIDE DEF T
  <2> QED
    BY <1>11, SmallestSet
<1>3. r # {}
  BY AddsAt
<1>4. Pick(r) \in r
  BY <1>3, Picked
<1>5. r \ {Pick(r)} \notin T
  BY <1>2, <1>4
<1>6. g[r \ {Pick(r)}] = h[r \ {Pick(r)}]
  BY <1>5
<1>7. g[r] = f[Pick(r)] + g[r \ {Pick(r)}] /\ h[r] = f[Pick(r)] + h[r \ {Pick(r)}]
  BY <1>3, AddsAt
<1> QED
  BY <1>6, <1>7

\* Over a finite set there is one.
LEMMA AddsExists ==
  ASSUME NEW f, NEW S, IsFiniteSet(S)
  PROVE  \E g : Adds(g, f, S)
<1> SUFFICES ASSUME ~ \E g : Adds(g, f, S) PROVE FALSE
  OBVIOUS
<1> DEFINE T == {r \in SUBSET S : ~ \E g : Adds(g, f, r)}
<1>1. S \in T /\ T \subseteq SUBSET S
  OBVIOUS
<1>2. PICK r \in T : IsFiniteSet(r) /\ \A q \in T : q \subseteq r => q = r
  <2> HIDE DEF T
  <2> QED
    BY <1>1, SmallestSet
<1> DEFINE fold(q) == CHOOSE g : Adds(g, f, q)
           h == [q \in SUBSET r |-> IF q = {} THEN 0
                                    ELSE f[Pick(q)] + fold(q \ {Pick(q)})[q \ {Pick(q)}]]
<1>3. ASSUME NEW q \in SUBSET r, q # r PROVE Adds(fold(q), f, q)
  <2>1. \E g : Adds(g, f, q)
    BY <1>2, <1>3
  <2> QED
    BY <2>1
<1>4. ASSUME NEW q \in SUBSET r, q # {}
      PROVE  fold(q \ {Pick(q)})[q \ {Pick(q)}] = h[q \ {Pick(q)}]
  <2> DEFINE p == q \ {Pick(q)}
  <2>1. p \in SUBSET r /\ p # r
    BY <1>4, Picked
  <2>2. IsFiniteSet(p)
    BY <1>2, <2>1, FS_Subset
  <2>3. Adds(fold(p), f, p)
    BY <1>3, <2>1
  <2>4. fold(p)[p] = IF p = {} THEN 0 ELSE f[Pick(p)] + fold(p)[p \ {Pick(p)}]
    <3> HIDE DEF fold, p
    <3> QED
      BY <2>3, AddsAt
  <2>5. CASE p = {}
    BY <2>1, <2>4, <2>5
  <2>6. CASE p # {}
    <3> DEFINE o == p \ {Pick(p)}
               big == fold(p)
               small == fold(o)
    <3>1. o \in SUBSET r /\ o # r /\ o \in SUBSET p
      BY <2>1, <2>6, Picked
    <3>2. Adds(fold(o), f, o)
      BY <1>3, <3>1
    <3>3. fold(p)[o] = fold(o)[o]
      <4>1. Adds(big, f, p) /\ Adds(small, f, o) /\ o \in (SUBSET p) \cap (SUBSET o)
        BY <2>3, <3>1, <3>2
      <4> HIDE DEF big, small, fold, p, o
      <4>2. big[o] = small[o]
        BY <2>2, <4>1, AddsAgree
      <4> QED
        BY <4>2 DEF big, small
    <3> QED
      BY <2>1, <2>4, <2>6, <3>3
  <2> QED
    BY <2>5, <2>6
<1>5. h = [q \in SUBSET r |-> IF q = {} THEN 0 ELSE f[Pick(q)] + h[q \ {Pick(q)}]]
  <2> HIDE DEF fold
  <2> QED
    BY <1>4
<1>6. Adds(h, f, r)
  BY <1>5 DEF Adds
<1> QED
  BY <1>2, <1>6

LEMMA SumIsFold ==
  ASSUME NEW f, NEW S
  PROVE  SumFunctionOnSet(f, S) = (CHOOSE g : Adds(g, f, S))[S]
BY DEF SumFunctionOnSet, FoldFunctionOnSet, MapThenFoldSet, Adds, Pick

LEMMA SumEmpty == ASSUME NEW f PROVE SumFunctionOnSet(f, {}) = 0
<1>1. PICK g : Adds(g, f, {})
  BY FS_EmptySet, AddsExists
<1> DEFINE h == CHOOSE k : Adds(k, f, {})
<1>2. Adds(h, f, {})
  BY <1>1
<1>3. SumFunctionOnSet(f, {}) = h[{}]
  BY SumIsFold
<1> HIDE DEF h
<1>4. h[{}] = 0
  BY <1>2, AddsAt
<1> QED
  BY <1>3, <1>4

LEMMA SumPicked ==
  ASSUME NEW f, NEW S, IsFiniteSet(S), S # {}
  PROVE  SumFunctionOnSet(f, S) = f[Pick(S)] + SumFunctionOnSet(f, S \ {Pick(S)})
<1> DEFINE R == S \ {Pick(S)}
           g == CHOOSE k : Adds(k, f, S)
           h == CHOOSE k : Adds(k, f, R)
<1>1. IsFiniteSet(R)
  BY FS_Subset
<1>2. Adds(g, f, S)
  BY AddsExists
<1>3. Adds(h, f, R)
  <2> HIDE DEF R
  <2> QED
    BY <1>1, AddsExists
<1>4. SumFunctionOnSet(f, S) = g[S]
  BY SumIsFold
<1>5. SumFunctionOnSet(f, R) = h[R]
  <2> HIDE DEF R
  <2> QED
    BY SumIsFold
<1> HIDE DEF g, h
<1>6. g[S] = f[Pick(S)] + g[R]
  BY <1>2, AddsAt
<1>7. R \in (SUBSET S) \cap (SUBSET R)
  OBVIOUS
<1> HIDE DEF R
<1>8. g[R] = h[R]
  BY <1>2, <1>3, <1>7, AddsAgree
<1> QED
  BY <1>4, <1>5, <1>6, <1>8 DEF R

\* Induction over a finite set: G is the set of the subsets for which the claim
\* has been shown.
LEMMA SetInduction ==
  ASSUME NEW S, IsFiniteSet(S), NEW G, {} \in G,
         \A r \in SUBSET S : r # {} /\ r \ {Pick(r)} \in G => r \in G
  PROVE  S \in G
<1> SUFFICES ASSUME S \notin G PROVE FALSE
  OBVIOUS
<1> DEFINE T == {r \in SUBSET S : r \notin G}
<1>1. S \in T
  OBVIOUS
<1>2. T \subseteq SUBSET S /\ T # {}
  BY <1>1
<1>3. PICK r \in T : \A q \in T : q \subseteq r => q = r
  <2> HIDE DEF T
  <2> QED
    BY <1>2, SmallestSet
<1>4. r # {}
  OBVIOUS
<1>5. Pick(r) \in r
  BY <1>4, Picked
<1>6. r \ {Pick(r)} \in G
  BY <1>3, <1>5
<1> QED
  BY <1>4, <1>6

LEMMA SumInt ==
  ASSUME NEW S, IsFiniteSet(S), NEW f, \A x \in S : f[x] \in Int
  PROVE  SumFunctionOnSet(f, S) \in Int
<1> DEFINE G == {r \in SUBSET S : SumFunctionOnSet(f, r) \in Int}
<1>1. {} \in G
  BY SumEmpty
<1>2. ASSUME NEW r \in SUBSET S, r # {}, r \ {Pick(r)} \in G PROVE r \in G
  <2>1. Pick(r) \in r /\ IsFiniteSet(r)
    BY <1>2, Picked, FS_Subset
  <2>2. SumFunctionOnSet(f, r) = f[Pick(r)] + SumFunctionOnSet(f, r \ {Pick(r)})
    BY <1>2, <2>1, SumPicked
  <2> QED
    BY <1>2, <2>1, <2>2
<1>3. S \in G
  <2> HIDE DEF G
  <2> QED
    BY <1>1, <1>2, SetInduction
<1> QED
  BY <1>3

LEMMA SumNat ==
  ASSUME NEW S, IsFiniteSet(S), NEW f, \A x \in S : f[x] \in Nat
  PROVE  SumFunctionOnSet(f, S) \in Nat
<1> DEFINE G == {r \in SUBSET S : SumFunctionOnSet(f, r) \in Nat}
<1>1. {} \in G
  BY SumEmpty
<1>2. ASSUME NEW r \in SUBSET S, r # {}, r \ {Pick(r)} \in G PROVE r \in G
  <2>1. Pick(r) \in r /\ IsFiniteSet(r)
    BY <1>2, Picked, FS_Subset
  <2>2. SumFunctionOnSet(f, r) = f[Pick(r)] + SumFunctionOnSet(f, r \ {Pick(r)})
    BY <1>2, <2>1, SumPicked
  <2> QED
    BY <1>2, <2>1, <2>2
<1>3. S \in G
  <2> HIDE DEF G
  <2> QED
    BY <1>1, <1>2, SetInduction
<1> QED
  BY <1>3

\* Sums of functions that are related point by point are related likewise.
LEMMA SumSame ==
  ASSUME NEW S, IsFiniteSet(S), NEW f, NEW g, \A x \in S : f[x] = g[x]
  PROVE  SumFunctionOnSet(f, S) = SumFunctionOnSet(g, S)
<1> DEFINE G == {r \in SUBSET S : SumFunctionOnSet(f, r) = SumFunctionOnSet(g, r)}
<1>1. {} \in G
  BY SumEmpty
<1>2. ASSUME NEW r \in SUBSET S, r # {}, r \ {Pick(r)} \in G PROVE r \in G
  <2>1. Pick(r) \in r /\ IsFiniteSet(r)
    BY <1>2, Picked, FS_Subset
  <2>2. /\ SumFunctionOnSet(f, r) = f[Pick(r)] + SumFunctionOnSet(f, r \ {Pick(r)})
        /\ SumFunctionOnSet(g, r) = g[Pick(r)] + SumFunctionOnSet(g, r \ {Pick(r)})
    BY <1>2, <2>1, SumPicked
  <2> QED
    BY <1>2, <2>1, <2>2
<1>3. S \in G
  <2> HIDE DEF G
  <2> QED
    BY <1>1, <1>2, SetInduction
<1> QED
  BY <1>3

LEMMA SumLeq ==
  ASSUME NEW S, IsFiniteSet(S), NEW f, NEW g,
         \A x \in S : f[x] \in Int /\ g[x] \in Int /\ f[x] <= g[x]
  PROVE  SumFunctionOnSet(f, S) <= SumFunctionOnSet(g, S)
<1> DEFINE G == {r \in SUBSET S : SumFunctionOnSet(f, r) <= SumFunctionOnSet(g, r)}
<1>1. {} \in G
  BY SumEmpty
<1>2. ASSUME NEW r \in SUBSET S, r # {}, r \ {Pick(r)} \in G PROVE r \in G
  <2>1. Pick(r) \in r /\ IsFiniteSet(r) /\ IsFiniteSet(r \ {Pick(r)})
    BY <1>2, Picked, FS_Subset
  <2>2. /\ SumFunctionOnSet(f, r) = f[Pick(r)] + SumFunctionOnSet(f, r \ {Pick(r)})
        /\ SumFunctionOnSet(g, r) = g[Pick(r)] + SumFunctionOnSet(g, r \ {Pick(r)})
    BY <1>2, <2>1, SumPicked
  <2>3. SumFunctionOnSet(f, r \ {Pick(r)}) \in Int /\ SumFunctionOnSet(g, r \ {Pick(r)}) \in Int
    BY <2>1, SumInt
  <2> QED
    BY <1>2, <2>1, <2>2, <2>3
<1>3. S \in G
  <2> HIDE DEF G
  <2> QED
    BY <1>1, <1>2, SetInduction
<1> QED
  BY <1>3

\* A sum of sums of two functions.
LEMMA SumPlus ==
  ASSUME NEW S, IsFiniteSet(S), NEW f, NEW g, NEW h,
         \A x \in S : f[x] \in Int /\ g[x] \in Int /\ h[x] = f[x] + g[x]
  PROVE  SumFunctionOnSet(h, S) = SumFunctionOnSet(f, S) + SumFunctionOnSet(g, S)
<1> DEFINE G == {r \in SUBSET S : SumFunctionOnSet(h, r) = SumFunctionOnSet(f, r) + SumFunctionOnSet(g, r)}
<1>1. {} \in G
  BY SumEmpty
<1>2. ASSUME NEW r \in SUBSET S, r # {}, r \ {Pick(r)} \in G PROVE r \in G
  <2>1. Pick(r) \in r /\ IsFiniteSet(r) /\ IsFiniteSet(r \ {Pick(r)})
    BY <1>2, Picked, FS_Subset
  <2>2. /\ SumFunctionOnSet(f, r) = f[Pick(r)] + SumFunctionOnSet(f, r \ {Pick(r)})
        /\ SumFunctionOnSet(g, r) = g[Pick(r)] + SumFunctionOnSet(g, r \ {Pick(r)})
        /\ SumFunctionOnSet(h, r) = h[Pick(r)] + SumFunctionOnSet(h, r \ {Pick(r)})
    BY <1>2, <2>1, SumPicked
  <2>3. SumFunctionOnSet(f, r \ {Pick(r)}) \in Int /\ SumFunctionOnSet(g, r \ {Pick(r)}) \in Int
    BY <2>1, SumInt
  <2> QED
    BY <1>2, <2>1, <2>2, <2>3
<1>3. S \in G
  <2> HIDE DEF G
  <2> QED
    BY <1>1, <1>2, SetInduction
<1> QED
  BY <1>3

\* A factor common to all terms.
LEMMA SumTimes ==
  ASSUME NEW S, IsFiniteSet(S), NEW c \in Int, NEW f, NEW h,
         \A x \in S : f[x] \in Int /\ h[x] = c * f[x]
  PROVE  SumFunctionOnSet(h, S) = c * SumFunctionOnSet(f, S)
<1> DEFINE G == {r \in SUBSET S : SumFunctionOnSet(h, r) = c * SumFunctionOnSet(f, r)}
<1>1. {} \in G
  BY SumEmpty
<1>2. ASSUME NEW r \in SUBSET S, r # {}, r \ {Pick(r)} \in G PROVE r \in G
  <2>1. Pick(r) \in r /\ IsFiniteSet(r) /\ IsFiniteSet(r \ {Pick(r)})
    BY <1>2, Picked, FS_Subset
  <2>2. /\ SumFunctionOnSet(f, r) = f[Pick(r)] + SumFunctionOnSet(f, r \ {Pick(r)})
        /\ SumFunctionOnSet(h, r) = h[Pick(r)] + SumFunctionOnSet(h, r \ {Pick(r)})
    BY <1>2, <2>1, SumPicked
  <2>3. SumFunctionOnSet(f, r \ {Pick(r)}) \in Int
    BY <2>1, SumInt
  <2>4. \A a, b \in Int : c * (a + b) = c * a + c * b
    OBVIOUS
  <2>5. c * (f[Pick(r)] + SumFunctionOnSet(f, r \ {Pick(r)})) = c * f[Pick(r)] + c * SumFunctionOnSet(f, r \ {Pick(r)})
    BY <2>1, <2>3, <2>4
  <2> QED
    BY <1>2, <2>1, <2>2, <2>5
<1>3. S \in G
  <2> HIDE DEF G
  <2> QED
    BY <1>1, <1>2, SetInduction
<1> QED
  BY <1>3


\* Any member may be taken out of a sum, not just the one that is picked.
LEMMA SumRemove ==
  ASSUME NEW S, IsFiniteSet(S), NEW f, \A x \in S : f[x] \in Int, NEW y \in S
  PROVE  SumFunctionOnSet(f, S) = f[y] + SumFunctionOnSet(f, S \ {y})
<1> DEFINE Good(r) == \A x \in r : SumFunctionOnSet(f, r) = f[x] + SumFunctionOnSet(f, r \ {x})
           T == {r \in SUBSET S : ~Good(r)}
<1> SUFFICES ASSUME ~Good(S) PROVE FALSE
  OBVIOUS
<1>1. S \in T
  <2> HIDE DEF Good
  <2> QED
    OBVIOUS
<1>2. T \subseteq SUBSET S /\ T # {}
  BY <1>1
<1>3. PICK r \in T : \A q \in T : q \subseteq r => q = r
  <2> HIDE DEF T
  <2> QED
    BY <1>2, SmallestSet
<1>4. ASSUME NEW q \in SUBSET r, q # r PROVE Good(q)
  <2> HIDE DEF Good
  <2> QED
    BY <1>3, <1>4
<1>5. ~Good(r)
  <2> HIDE DEF Good
  <2> QED
    OBVIOUS
<1>6. PICK x \in r : SumFunctionOnSet(f, r) # f[x] + SumFunctionOnSet(f, r \ {x})
  BY <1>5
<1> DEFINE p == Pick(r)
<1>7. r # {} /\ IsFiniteSet(r)
  BY <1>6, FS_Subset
<1>8. p \in r
  BY <1>7, Picked
<1>9. SumFunctionOnSet(f, r) = f[p] + SumFunctionOnSet(f, r \ {p})
  BY <1>7, SumPicked
<1> HIDE DEF p
<1>10. x # p
  BY <1>6, <1>9
<1>11. SumFunctionOnSet(f, r \ {p}) = f[x] + SumFunctionOnSet(f, (r \ {p}) \ {x})
  <2>1. Good(r \ {p})
    BY <1>4, <1>8
  <2> QED
    BY <2>1, <1>10
<1>12. SumFunctionOnSet(f, r \ {x}) = f[p] + SumFunctionOnSet(f, (r \ {x}) \ {p})
  <2>1. Good(r \ {x})
    BY <1>4
  <2> QED
    BY <2>1, <1>8, <1>10
<1>13. (r \ {p}) \ {x} = (r \ {x}) \ {p}
  OBVIOUS
<1>14. SumFunctionOnSet(f, (r \ {p}) \ {x}) \in Int /\ f[x] \in Int /\ f[p] \in Int
  <2>1. IsFiniteSet((r \ {p}) \ {x})
    BY <1>7, FS_Subset
  <2>2. \A z \in (r \ {p}) \ {x} : f[z] \in Int
    OBVIOUS
  <2>3. SumFunctionOnSet(f, (r \ {p}) \ {x}) \in Int
    BY <2>1, <2>2, SumInt
  <2> QED
    BY <2>3, <1>8
<1> DEFINE rest == SumFunctionOnSet(f, (r \ {p}) \ {x})
<1>15. SumFunctionOnSet(f, r) = f[p] + (f[x] + rest) /\ SumFunctionOnSet(f, r \ {x}) = f[p] + rest
  BY <1>9, <1>11, <1>12, <1>13
<1> HIDE DEF rest, Good
<1> QED
  BY <1>6, <1>14, <1>15 DEF rest

\* A sum over a part of U is a sum over U of a function that is zero elsewhere:
\* sums over different sets are compared point by point.
LEMMA SumMasked ==
  ASSUME NEW U, IsFiniteSet(U), NEW S \in SUBSET U, NEW f, \A x \in S : f[x] \in Int, NEW h,
         \A x \in U : h[x] = IF x \in S THEN f[x] ELSE 0
  PROVE  SumFunctionOnSet(f, S) = SumFunctionOnSet(h, U)
<1> DEFINE G == {r \in SUBSET U : SumFunctionOnSet(f, r \cap S) = SumFunctionOnSet(h, r)}
<1>1. {} \in G
  BY SumEmpty
<1>2. ASSUME NEW r \in SUBSET U, r # {}, r \ {Pick(r)} \in G PROVE r \in G
  <2> DEFINE p == Pick(r)
  <2>1. p \in r /\ IsFiniteSet(r)
    BY <1>2, Picked, FS_Subset
  <2>2. SumFunctionOnSet(h, r) = h[p] + SumFunctionOnSet(h, r \ {p})
    BY <1>2, <2>1, SumPicked
  <2>3. SumFunctionOnSet(f, (r \ {p}) \cap S) = SumFunctionOnSet(h, r \ {p})
    BY <1>2
  <2> HIDE DEF p
  <2>4. CASE p \in S
    <3>1. IsFiniteSet(r \cap S) /\ p \in r \cap S
      BY <2>1, <2>4, FS_Subset
    <3>2. SumFunctionOnSet(f, r \cap S) = f[p] + SumFunctionOnSet(f, (r \cap S) \ {p})
      BY <3>1, SumRemove
    <3>3. (r \cap S) \ {p} = (r \ {p}) \cap S
      OBVIOUS
    <3>4. h[p] = f[p]
      BY <2>4
    <3> QED
      BY <2>2, <2>3, <3>2, <3>3, <3>4
  <2>5. CASE p \notin S
    <3>1. r \cap S = (r \ {p}) \cap S
      BY <2>5
    <3>2. h[p] = 0
      BY <2>1, <2>5
    <3>3. SumFunctionOnSet(f, (r \ {p}) \cap S) \in Int
      <4>1. IsFiniteSet((r \ {p}) \cap S)
        BY <2>1, FS_Subset
      <4>2. \A x \in (r \ {p}) \cap S : f[x] \in Int
        OBVIOUS
      <4> QED
        BY <4>1, <4>2, SumInt
    <3>4. SumFunctionOnSet(h, r) = SumFunctionOnSet(f, (r \ {p}) \cap S)
      BY <2>2, <2>3, <3>2, <3>3
    <3>5. SumFunctionOnSet(h, r) = SumFunctionOnSet(f, r \cap S)
      BY <3>1, <3>4
    <3> QED
      BY <3>5
  <2> QED
    BY <2>4, <2>5
<1>3. U \in G
  <2> HIDE DEF G
  <2> QED
    BY <1>1, <1>2, SetInduction
<1>4. U \cap S = S
  OBVIOUS
<1> QED
  BY <1>3, <1>4

Places(b, S) == {b[x] : x \in S}

\* A sum over S of what f holds at the places b gives is the sum of f over those
\* places, when b gives no place twice.
LEMMA SumRelabel ==
  ASSUME NEW S, IsFiniteSet(S), NEW f, NEW g, NEW b,
         \A x, y \in S : b[x] = b[y] => x = y,
         \A x \in S : f[b[x]] \in Int /\ g[x] = f[b[x]]
  PROVE  SumFunctionOnSet(g, S) = SumFunctionOnSet(f, Places(b, S))
<1> DEFINE At(r) == Places(b, r)
           G == {r \in SUBSET S : IsFiniteSet(At(r)) /\ SumFunctionOnSet(g, r) = SumFunctionOnSet(f, At(r))}
<1>1. {} \in G
  <2>1. At({}) = {}
    BY DEF Places
  <2> HIDE DEF At
  <2> QED
    BY <2>1, SumEmpty, FS_EmptySet
<1>2. ASSUME NEW r \in SUBSET S, r # {}, r \ {Pick(r)} \in G PROVE r \in G
  <2> DEFINE y == Pick(r)
             q == r \ {y}
  <2>1. y \in r /\ y \in S
    BY <1>2, Picked
  <2>2. At(r) = At(q) \cup {b[y]} /\ At(r) \ {b[y]} = At(q) /\ b[y] \in At(r)
    BY <2>1 DEF Places
  <2>3. IsFiniteSet(r) /\ IsFiniteSet(At(q))
    BY <1>2, FS_Subset
  <2>4. \A z \in At(r) : f[z] \in Int
    BY DEF Places
  <2>5. SumFunctionOnSet(g, r) = g[y] + SumFunctionOnSet(g, q)
    BY <2>3, <1>2, SumPicked
  <2>6. SumFunctionOnSet(g, q) = SumFunctionOnSet(f, At(q))
    BY <1>2
  <2>7. g[y] = f[b[y]]
    BY <2>1
  <2> HIDE DEF At, y, q
  <2>8. IsFiniteSet(At(r))
    BY <2>2, <2>3, FS_AddElement
  <2>9. SumFunctionOnSet(f, At(r)) = f[b[y]] + SumFunctionOnSet(f, At(r) \ {b[y]})
    BY <2>2, <2>4, <2>8, SumRemove
  <2>10. SumFunctionOnSet(g, r) = SumFunctionOnSet(f, At(r))
    BY <2>2, <2>5, <2>6, <2>7, <2>9
  <2> QED
    BY <2>8, <2>10
<1>3. S \in G
  <2> HIDE DEF G
  <2> QED
    BY <1>1, <1>2, SetInduction
<1> QED
  BY <1>3

\* A sum of ones counts.
LEMMA SumOfOnes ==
  ASSUME NEW S, IsFiniteSet(S), NEW f, \A x \in S : f[x] = 1
  PROVE  SumFunctionOnSet(f, S) = Cardinality(S)
<1> DEFINE G == {r \in SUBSET S : SumFunctionOnSet(f, r) = Cardinality(r)}
<1>1. {} \in G
  BY SumEmpty, FS_EmptySet
<1>2. ASSUME NEW r \in SUBSET S, r # {}, r \ {Pick(r)} \in G PROVE r \in G
  <2>1. Pick(r) \in r /\ IsFiniteSet(r)
    BY <1>2, Picked, FS_Subset
  <2>2. SumFunctionOnSet(f, r) = f[Pick(r)] + SumFunctionOnSet(f, r \ {Pick(r)})
    BY <1>2, <2>1, SumPicked
  <2>3. Cardinality(r) \in Nat /\ Cardinality(r \ {Pick(r)}) = Cardinality(r) - 1
    BY <2>1, FS_RemoveElement, FS_CardinalityType
  <2> QED
    BY <1>2, <2>1, <2>2, <2>3
<1>3. S \in G
  <2> HIDE DEF G
  <2> QED
    BY <1>1, <1>2, SetInduction
<1> QED
  BY <1>3

\* Every member of a set of naturals that adds up is at most the sum.
LEMMA SumAtLeast ==
  ASSUME NEW S, IsFiniteSet(S), NEW f, \A x \in S : f[x] \in Nat, NEW y \in S
  PROVE  f[y] <= SumFunctionOnSet(f, S)
<1>1. IsFiniteSet(S \ {y})
  BY FS_Subset
<1>2. SumFunctionOnSet(f, S \ {y}) \in Nat
  BY <1>1, SumNat
<1>3. SumFunctionOnSet(f, S) = f[y] + SumFunctionOnSet(f, S \ {y})
  BY SumRemove
<1> QED
  BY <1>2, <1>3

\* A set splits into a part and the rest, and so does a sum over it.
LEMMA SumSplit ==
  ASSUME NEW S, IsFiniteSet(S), NEW T \in SUBSET S, NEW f, \A x \in S : f[x] \in Int
  PROVE  SumFunctionOnSet(f, S) = SumFunctionOnSet(f, T) + SumFunctionOnSet(f, S \ T)
<1> DEFINE R == S \ T
           h == [x \in S |-> IF x \in T THEN f[x] ELSE 0]
           k == [x \in S |-> IF x \in R THEN f[x] ELSE 0]
<1>1. R \in SUBSET S /\ \A x \in S : x \in R <=> x \notin T
  OBVIOUS
<1>2. \A x \in S : h[x] = (IF x \in T THEN f[x] ELSE 0) /\ k[x] = IF x \in R THEN f[x] ELSE 0
  OBVIOUS
<1> HIDE DEF R, h, k
<1>3. SumFunctionOnSet(f, T) = SumFunctionOnSet(h, S)
  BY <1>2, SumMasked
<1>4. SumFunctionOnSet(f, R) = SumFunctionOnSet(k, S)
  BY <1>1, <1>2, SumMasked
<1>5. \A x \in S : h[x] \in Int /\ k[x] \in Int /\ f[x] = h[x] + k[x]
  BY <1>1, <1>2
<1>6. SumFunctionOnSet(f, S) = SumFunctionOnSet(h, S) + SumFunctionOnSet(k, S)
  BY <1>5, SumPlus
<1> QED
  BY <1>3, <1>4, <1>6 DEF R

\* A change of one member changes the sum by as much.
LEMMA SumChange ==
  ASSUME NEW S, IsFiniteSet(S), NEW f, \A x \in S : f[x] \in Int, NEW g, NEW y \in S,
         g[y] \in Int, \A x \in S : x # y => g[x] = f[x]
  PROVE  SumFunctionOnSet(g, S) = SumFunctionOnSet(f, S) + g[y] - f[y]
<1>1. IsFiniteSet(S \ {y})
  BY FS_Subset
<1>2. SumFunctionOnSet(f, S \ {y}) = SumFunctionOnSet(g, S \ {y})
  BY <1>1, SumSame
<1>3. SumFunctionOnSet(f, S) = f[y] + SumFunctionOnSet(f, S \ {y})
  BY SumRemove
<1>4. SumFunctionOnSet(g, S) = g[y] + SumFunctionOnSet(g, S \ {y})
  <2>1. \A x \in S : g[x] \in Int
    OBVIOUS
  <2> QED
    BY <2>1, SumRemove
<1>5. SumFunctionOnSet(f, S \ {y}) \in Int
  BY <1>1, SumInt
<1> QED
  BY <1>2, <1>3, <1>4, <1>5

\* A sum of equal numbers.
LEMMA SumOfEqual ==
  ASSUME NEW S, IsFiniteSet(S), NEW c \in Int, NEW f, \A x \in S : f[x] = c
  PROVE  SumFunctionOnSet(f, S) = c * Cardinality(S)
<1> DEFINE one == [x \in S |-> 1]
<1>1. \A x \in S : one[x] = 1
  OBVIOUS
<1> HIDE DEF one
<1>2. SumFunctionOnSet(one, S) = Cardinality(S)
  BY <1>1, SumOfOnes
<1>3. SumFunctionOnSet(f, S) = c * SumFunctionOnSet(one, S)
  <2>1. \A x \in S : one[x] \in Int /\ f[x] = c * one[x]
    BY <1>1
  <2> QED
    BY <2>1, SumTimes
<1> QED
  BY <1>2, <1>3
=============================================================================

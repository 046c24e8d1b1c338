-------------------------------- MODULE Sums --------------------------------
(***************************************************************************)
(* Lemmas: the least of a set; the sum that SumFunctionOnSet computes, for *)
(* any function to the integers and any finite set; and the ranks that an  *)
(* order gives the members of a finite set.  Induction is by a least       *)
(* counterexample, since the induction theorems of the library take an     *)
(* operator as a parameter.                                                *)
(***************************************************************************)
EXTENDS Functions, FiniteSetTheorems, WellFoundedInduction, TLAPS

-----------------------------------------------------------------------------
(* The least *)

LEMMA Least ==
  ASSUME NEW S, S \subseteq Nat, S # {}
  PROVE  \E m \in S : \A n \in S : m <= n
<1>1. PICK m \in S : \A n \in S : <<n, m>> \notin OpToRel(<, Nat)
  BY WFMin, NatLessThanWellFounded
<1>2. \A n \in S : ~ (n < m)
  BY <1>1 DEF OpToRel
<1>. QED
  BY <1>2

\* Of finite sets, one has no proper subset among them.
LEMMA Minimal ==
  ASSUME NEW S, IsFiniteSet(S), NEW C, C \subseteq SUBSET S, C # {}
  PROVE  \E s \in C : \A r \in C : r \subseteq s => r = s
<1>. DEFINE N == {n \in Nat : \E s \in C : n = Cardinality(s)}
<1>1. \A s \in C : IsFiniteSet(s) /\ Cardinality(s) \in Nat
  BY FS_Subset, FS_CardinalityType
<1>2. PICK m \in N : \A n \in N : m <= n
  <2>1. N \subseteq Nat /\ N # {}
    BY <1>1
  <2>. HIDE DEF N
  <2>. QED
    BY <2>1, Least
<1>3. PICK s \in C : m = Cardinality(s)
  OBVIOUS
<1>4. ASSUME NEW r \in C, r \subseteq s PROVE r = s
  <2>1. Cardinality(r) \in N /\ Cardinality(r) \in Nat /\ Cardinality(s) \in Nat
    BY <1>1
  <2>2. Cardinality(s) <= Cardinality(r)
    BY <1>2, <1>3, <2>1
  <2>3. Cardinality(r) <= Cardinality(s) /\ (Cardinality(s) = Cardinality(r) => s = r)
    BY <1>1, <1>4, FS_Subset
  <2>. QED
    BY <2>1, <2>2, <2>3
<1>. QED
  BY <1>4

-----------------------------------------------------------------------------
(* The recursive function behind the sum *)

Pick(s) == CHOOSE x \in s : TRUE

Unfolds(g, f, D) ==
  g = [s \in D |-> IF s = {} THEN 0 ELSE f[Pick(s)] + g[s \ {Pick(s)}]]

Solves(g, f, S) == Unfolds(g, f, SUBSET S)

LEMMA Picks == ASSUME NEW s, s # {} PROVE Pick(s) \in s
BY DEF Pick

LEMMA SumIs ==
  ASSUME NEW f, NEW S
  PROVE  SumFunctionOnSet(f, S) = (CHOOSE g : Solves(g, f, S))[S]
BY DEF SumFunctionOnSet, FoldFunctionOnSet, MapThenFoldSet, Solves, Unfolds, Pick

\* There is such a function: it is built up from the small subsets to the large.
LEMMA Solution ==
  ASSUME NEW f, NEW S, IsFiniteSet(S)
  PROVE  \E g : Solves(g, f, S)
<1>. DEFINE D(n) == {s \in SUBSET S : Cardinality(s) <= n}
            Bad == {n \in Nat : ~ \E g : Unfolds(g, f, D(n))}
<1>1. \A s \in SUBSET S : IsFiniteSet(s) /\ Cardinality(s) \in Nat
  BY FS_Subset, FS_CardinalityType
<1>2. \E g : Unfolds(g, f, D(0))
  <2>1. \A s \in D(0) : s = {}
    BY <1>1, FS_EmptySet
  <2>2. Unfolds([s \in D(0) |-> 0], f, D(0))
    BY <2>1 DEF Unfolds
  <2>. QED
    BY <2>2
<1>3. ASSUME NEW n \in Nat, NEW g, Unfolds(g, f, D(n)) PROVE \E h : Unfolds(h, f, D(n + 1))
  <2>. DEFINE h == [s \in D(n + 1) |->
                      IF s = {} THEN 0 ELSE f[Pick(s)] + g[s \ {Pick(s)}]]
  <2>1. ASSUME NEW s \in D(n + 1), s # {}
        PROVE  h[s \ {Pick(s)}] = g[s \ {Pick(s)}]
    <3>. DEFINE r == s \ {Pick(s)}
    <3>1. Cardinality(r) = Cardinality(s) - 1 /\ Cardinality(s) <= n + 1
      BY <1>1, <2>1, Picks, FS_RemoveElement
    <3>2. r \in D(n) /\ r \in D(n + 1)
      BY <1>1, <3>1
    <3>3. g[r] = IF r = {} THEN 0 ELSE f[Pick(r)] + g[r \ {Pick(r)}]
      <4>. HIDE DEF r
      <4>. QED
        BY <1>3, <3>2 DEF Unfolds
    <3>. QED
      BY <3>2, <3>3
  <2>2. Unfolds(h, f, D(n + 1))
    <3>1. \A s \in D(n + 1) :
            h[s] = IF s = {} THEN 0 ELSE f[Pick(s)] + h[s \ {Pick(s)}]
      BY <2>1
    <3>2. h = [s \in D(n + 1) |-> h[s]]
      OBVIOUS
    <3>. HIDE DEF h, D
    <3>. QED
      BY <3>1, <3>2 DEF Unfolds
  <2>. QED
    BY <2>2
<1>4. Bad = {}
  <2>. SUFFICES ASSUME Bad # {} PROVE FALSE
    OBVIOUS
  <2>1. PICK m \in Bad : \A n \in Bad : m <= n
    <3>1. Bad \subseteq Nat
      OBVIOUS
    <3>. HIDE DEF Bad
    <3>. QED
      BY <3>1, Least
  <2>2. m \in Nat /\ m # 0 /\ ~ \E g : Unfolds(g, f, D(m))
    <3>. HIDE DEF D
    <3>. QED
      BY <1>2
  <2>3. m - 1 \in Nat /\ m - 1 \notin Bad /\ (m - 1) + 1 = m
    <3>. HIDE DEF Bad
    <3>. QED
      BY <2>1, <2>2
  <2>. HIDE DEF D
  <2>. QED
    BY <1>3, <2>2, <2>3
<1>5. D(Cardinality(S)) = SUBSET S /\ Cardinality(S) \in Nat
  BY FS_Subset, FS_CardinalityType
<1>. HIDE DEF D
<1>. QED
  BY <1>4, <1>5 DEF Solves

LEMMA Agree ==
  ASSUME NEW f, NEW h, NEW S, IsFiniteSet(S), NEW T, T \subseteq S, \A x \in T : f[x] = h[x],
         NEW u, Solves(u, f, S), NEW v, Solves(v, h, T)
  PROVE  u[T] = v[T]
<1>. DEFINE Bad == {s \in SUBSET T : u[s] # v[s]}
<1>. SUFFICES ASSUME Bad # {} PROVE FALSE
  OBVIOUS
<1>1. PICK s \in Bad : \A r \in Bad : r \subseteq s => r = s
  <2>1. IsFiniteSet(T) /\ Bad \subseteq SUBSET T
    BY FS_Subset
  <2>. HIDE DEF Bad
  <2>. QED
    BY <2>1, Minimal
<1>2. /\ u[s] = IF s = {} THEN 0 ELSE f[Pick(s)] + u[s \ {Pick(s)}]
      /\ v[s] = IF s = {} THEN 0 ELSE h[Pick(s)] + v[s \ {Pick(s)}]
  <2>1. s \in SUBSET S /\ s \in SUBSET T
    OBVIOUS
  <2>. HIDE DEF Bad
  <2>. QED
    BY <2>1 DEF Solves, Unfolds
<1>3. s # {} => Pick(s) \in s
  BY Picks
<1>4. s # {} => u[s \ {Pick(s)}] = v[s \ {Pick(s)}] /\ f[Pick(s)] = h[Pick(s)]
  BY <1>1, <1>3
<1>. QED
  BY <1>2, <1>4

-----------------------------------------------------------------------------
(* The sum *)

LEMMA SumUnfolds ==
  ASSUME NEW f, NEW S, IsFiniteSet(S)
  PROVE  \E g : Solves(g, f, S) /\ SumFunctionOnSet(f, S) = g[S]
<1>1. Solves(CHOOSE g : Solves(g, f, S), f, S)
  BY Solution
<1>. QED
  BY <1>1, SumIs

\* The sum depends on nothing but the values at the members.
LEMMA SumSame ==
  ASSUME NEW f, NEW h, NEW S, IsFiniteSet(S), \A x \in S : f[x] = h[x]
  PROVE  SumFunctionOnSet(f, S) = SumFunctionOnSet(h, S)
<1>1. PICK u : Solves(u, f, S) /\ SumFunctionOnSet(f, S) = u[S]
  BY SumUnfolds
<1>2. PICK v : Solves(v, h, S) /\ SumFunctionOnSet(h, S) = v[S]
  BY SumUnfolds
<1>3. u[S] = v[S]
  <2>1. S \subseteq S
    OBVIOUS
  <2>. QED
    BY <1>1, <1>2, <2>1, Agree
<1>. QED
  BY <1>1, <1>2, <1>3

LEMMA SumEmpty == ASSUME NEW f PROVE SumFunctionOnSet(f, {}) = 0
<1>1. PICK u : Solves(u, f, {}) /\ SumFunctionOnSet(f, {}) = u[{}]
  BY SumUnfolds, FS_EmptySet
<1>2. {} \in SUBSET {}
  OBVIOUS
<1>. QED
  BY <1>1, <1>2 DEF Solves, Unfolds

LEMMA SumPick ==
  ASSUME NEW f, NEW S, IsFiniteSet(S), S # {}
  PROVE  SumFunctionOnSet(f, S) = f[Pick(S)] + SumFunctionOnSet(f, S \ {Pick(S)})
<1>. DEFINE T == S \ {Pick(S)}
<1>1. PICK u : Solves(u, f, S) /\ SumFunctionOnSet(f, S) = u[S]
  BY SumUnfolds
<1>2. IsFiniteSet(T) /\ T \subseteq S /\ S \in SUBSET S
  BY FS_Subset
<1>3. PICK v : Solves(v, f, T) /\ SumFunctionOnSet(f, T) = v[T]
  <2>. HIDE DEF T
  <2>. QED
    BY <1>2, SumUnfolds
<1>4. u[T] = v[T]
  <2>. HIDE DEF T
  <2>1. \A x \in T : f[x] = f[x]
    OBVIOUS
  <2>. QED
    BY <1>1, <1>2, <1>3, <2>1, Agree
<1>5. u[S] = f[Pick(S)] + u[T]
  BY <1>1, <1>2 DEF Solves, Unfolds
<1>. QED
  BY <1>1, <1>3, <1>4, <1>5

LEMMA SumInt ==
  ASSUME NEW f, NEW S, IsFiniteSet(S), \A x \in S : f[x] \in Int
  PROVE  SumFunctionOnSet(f, S) \in Int
<1>. DEFINE Bad == {s \in SUBSET S : SumFunctionOnSet(f, s) \notin Int}
<1>. SUFFICES ASSUME Bad # {} PROVE FALSE
  OBVIOUS
<1>1. PICK s \in Bad : \A r \in Bad : r \subseteq s => r = s
  <2>1. Bad \subseteq SUBSET S
    OBVIOUS
  <2>. HIDE DEF Bad
  <2>. QED
    BY <2>1, Minimal
<1>2. s # {} /\ IsFiniteSet(s) /\ s \subseteq S
  <2>1. SumFunctionOnSet(f, {}) \in Int
    BY SumEmpty
  <2>. QED
    BY <2>1, FS_Subset
<1>3. Pick(s) \in s /\ s \ {Pick(s)} \notin Bad
  BY <1>1, <1>2, Picks
<1>4. SumFunctionOnSet(f, s \ {Pick(s)}) \in Int /\ f[Pick(s)] \in Int
  BY <1>2, <1>3
<1>. QED
  BY <1>2, <1>4, SumPick

\* Any member may be taken out first.
LEMMA SumRemove ==
  ASSUME NEW f, NEW S, IsFiniteSet(S), \A x \in S : f[x] \in Int, NEW y \in S
  PROVE  SumFunctionOnSet(f, S) = f[y] + SumFunctionOnSet(f, S \ {y})
<1>. DEFINE Bad == {s \in SUBSET S : \E x \in s :
                      SumFunctionOnSet(f, s) # f[x] + SumFunctionOnSet(f, s \ {x})}
<1>. SUFFICES ASSUME Bad # {} PROVE FALSE
  OBVIOUS
<1>1. PICK s \in Bad : \A r \in Bad : r \subseteq s => r = s
  <2>1. Bad \subseteq SUBSET S
    OBVIOUS
  <2>. HIDE DEF Bad
  <2>. QED
    BY <2>1, Minimal
<1>2. PICK x \in s : SumFunctionOnSet(f, s) # f[x] + SumFunctionOnSet(f, s \ {x})
  OBVIOUS
<1>3. PICK p : p = Pick(s)
  OBVIOUS
<1>4. /\ p \in s /\ IsFiniteSet(s) /\ s \in SUBSET S
      /\ SumFunctionOnSet(f, s) = f[p] + SumFunctionOnSet(f, s \ {p})
  BY <1>3, SumPick, Picks, FS_Subset
<1>5. p # x
  BY <1>2, <1>4
<1>6. ASSUME NEW a \in s, NEW b \in s, a # b
      PROVE  SumFunctionOnSet(f, s \ {a}) = f[b] + SumFunctionOnSet(f, s \ {a, b})
  <2>1. s \ {a} \notin Bad /\ s \ {a} \in SUBSET S /\ b \in s \ {a}
    BY <1>1, <1>6
  <2>2. (s \ {a}) \ {b} = s \ {a, b}
    OBVIOUS
  <2>. QED
    BY <2>1, <2>2
<1>7. f[p] \in Int /\ f[x] \in Int /\ SumFunctionOnSet(f, s \ {p, x}) \in Int
  <2>1. IsFiniteSet(s \ {p, x}) /\ s \ {p, x} \in SUBSET S
    BY <1>4, FS_Subset
  <2>. QED
    BY <1>4, <2>1, SumInt
<1>8. /\ SumFunctionOnSet(f, s \ {p}) = f[x] + SumFunctionOnSet(f, s \ {p, x})
      /\ SumFunctionOnSet(f, s \ {x}) = f[p] + SumFunctionOnSet(f, s \ {p, x})
  <2>1. {p, x} = {x, p}
    OBVIOUS
  <2>. QED
    BY <1>4, <1>5, <1>6, <2>1
<1>. QED
  BY <1>2, <1>4, <1>7, <1>8

\* Two members may be taken out first.
LEMMA SumRemoveTwo ==
  ASSUME NEW S, IsFiniteSet(S), NEW f, \A z \in S : f[z] \in Int,
         NEW x \in S, NEW y \in S, x # y
  PROVE  /\ SumFunctionOnSet(f, S) = f[x] + (f[y] + SumFunctionOnSet(f, S \ {x, y}))
         /\ SumFunctionOnSet(f, S \ {x, y}) \in Int
<1>1. IsFiniteSet(S \ {x}) /\ IsFiniteSet(S \ {x, y}) /\ (S \ {x}) \ {y} = S \ {x, y}
  BY FS_Subset
<1>2. SumFunctionOnSet(f, S) = f[x] + SumFunctionOnSet(f, S \ {x})
  BY SumRemove
<1>3. SumFunctionOnSet(f, S \ {x}) = f[y] + SumFunctionOnSet(f, (S \ {x}) \ {y})
  <2>1. y \in S \ {x} /\ \A z \in S \ {x} : f[z] \in Int
    OBVIOUS
  <2>. QED
    BY <1>1, <2>1, SumRemove
<1>4. SumFunctionOnSet(f, S \ {x, y}) \in Int
  BY <1>1, SumInt
<1>. QED
  BY <1>1, <1>2, <1>3, <1>4

LEMMA SumAdd ==
  ASSUME NEW f, NEW S, IsFiniteSet(S), NEW y, y \notin S, \A x \in S \cup {y} : f[x] \in Int
  PROVE  SumFunctionOnSet(f, S \cup {y}) = f[y] + SumFunctionOnSet(f, S)
<1>1. IsFiniteSet(S \cup {y}) /\ (S \cup {y}) \ {y} = S
  BY FS_AddElement
<1>. QED
  BY <1>1, SumRemove

LEMMA SumUnion ==
  ASSUME NEW f, NEW S, NEW T, IsFiniteSet(S), IsFiniteSet(T), S \cap T = {},
         \A x \in S \cup T : f[x] \in Int
  PROVE  SumFunctionOnSet(f, S \cup T) = SumFunctionOnSet(f, S) + SumFunctionOnSet(f, T)
<1>. DEFINE Bad == {s \in SUBSET T :
                      SumFunctionOnSet(f, S \cup s) # SumFunctionOnSet(f, S) + SumFunctionOnSet(f, s)}
<1>. SUFFICES ASSUME Bad # {} PROVE FALSE
  OBVIOUS
<1>1. PICK s \in Bad : \A r \in Bad : r \subseteq s => r = s
  <2>1. Bad \subseteq SUBSET T
    OBVIOUS
  <2>. HIDE DEF Bad
  <2>. QED
    BY <2>1, Minimal
<1>2. IsFiniteSet(s) /\ s \in SUBSET T /\ IsFiniteSet(S \cup s)
  BY FS_Subset, FS_Union
<1>3. SumFunctionOnSet(f, S) \in Int
  BY SumInt
<1>4. s # {}
  BY <1>3, SumEmpty
<1>5. PICK x \in s : TRUE
  BY <1>4
<1>6. SumFunctionOnSet(f, S \cup (s \ {x})) = SumFunctionOnSet(f, S) + SumFunctionOnSet(f, s \ {x})
  <2>1. s \ {x} \notin Bad
    BY <1>1, <1>5
  <2>. QED
    BY <1>2, <2>1
<1>7. SumFunctionOnSet(f, s) = f[x] + SumFunctionOnSet(f, s \ {x})
  BY <1>2, SumRemove
<1>8. SumFunctionOnSet(f, S \cup s) = f[x] + SumFunctionOnSet(f, S \cup (s \ {x}))
  <2>1. (S \cup s) \ {x} = S \cup (s \ {x}) /\ x \in S \cup s
    BY <1>2
  <2>. QED
    BY <1>2, <2>1, SumRemove
<1>9. f[x] \in Int /\ SumFunctionOnSet(f, s \ {x}) \in Int
  <2>1. IsFiniteSet(s \ {x}) /\ s \ {x} \subseteq T
    BY <1>2, FS_Subset
  <2>. QED
    BY <1>2, <2>1, SumInt
<1>. QED
  BY <1>3, <1>6, <1>7, <1>8, <1>9

LEMMA SumNat ==
  ASSUME NEW f, NEW S, IsFiniteSet(S), \A x \in S : f[x] \in Nat
  PROVE  SumFunctionOnSet(f, S) \in Nat
<1>. DEFINE Bad == {s \in SUBSET S : SumFunctionOnSet(f, s) \notin Nat}
<1>. SUFFICES ASSUME Bad # {} PROVE FALSE
  OBVIOUS
<1>1. PICK s \in Bad : \A r \in Bad : r \subseteq s => r = s
  <2>1. Bad \subseteq SUBSET S
    OBVIOUS
  <2>. HIDE DEF Bad
  <2>. QED
    BY <2>1, Minimal
<1>2. s # {} /\ IsFiniteSet(s) /\ s \subseteq S
  <2>1. SumFunctionOnSet(f, {}) \in Nat
    BY SumEmpty
  <2>. QED
    BY <2>1, FS_Subset
<1>3. Pick(s) \in s /\ s \ {Pick(s)} \notin Bad
  BY <1>1, <1>2, Picks
<1>4. SumFunctionOnSet(f, s \ {Pick(s)}) \in Nat /\ f[Pick(s)] \in Nat
  BY <1>2, <1>3
<1>. QED
  BY <1>2, <1>4, SumPick

\* Of amounts, fewer never add up to more.
LEMMA SumMonotone ==
  ASSUME NEW f, NEW g, NEW S, IsFiniteSet(S), NEW T, T \subseteq S,
         \A x \in S : f[x] \in Nat, \A x \in T : g[x] = f[x]
  PROVE  /\ SumFunctionOnSet(g, T) \in Nat /\ SumFunctionOnSet(f, S) \in Nat
         /\ SumFunctionOnSet(g, T) <= SumFunctionOnSet(f, S)
<1>1. IsFiniteSet(T) /\ IsFiniteSet(S \ T) /\ T \cap (S \ T) = {} /\ T \cup (S \ T) = S
  BY FS_Subset
<1>2. SumFunctionOnSet(g, T) = SumFunctionOnSet(f, T)
  BY <1>1, SumSame
<1>3. SumFunctionOnSet(f, T) \in Nat /\ SumFunctionOnSet(f, S \ T) \in Nat
  <2>1. (\A x \in T : f[x] \in Nat) /\ (\A x \in S \ T : f[x] \in Nat)
    OBVIOUS
  <2>. QED
    BY <1>1, <2>1, SumNat
<1>4. SumFunctionOnSet(f, S) = SumFunctionOnSet(f, T) + SumFunctionOnSet(f, S \ T)
  <2>1. \A x \in T \cup (S \ T) : f[x] \in Int
    OBVIOUS
  <2>2. SumFunctionOnSet(f, T \cup (S \ T))
          = SumFunctionOnSet(f, T) + SumFunctionOnSet(f, S \ T)
    BY <1>1, <2>1, SumUnion
  <2>. QED
    BY <1>1, <2>2
<1>. QED
  BY <1>2, <1>3, <1>4

\* Induction on finite sets: of the sets for which something fails, one loses a member
\* and it holds.
LEMMA Descent ==
  ASSUME NEW S, IsFiniteSet(S), NEW C, C \subseteq SUBSET S, C # {}, {} \notin C
  PROVE  \E s \in C : IsFiniteSet(s) /\ \E x \in s : s \ {x} \notin C
<1>1. PICK s \in C : \A r \in C : r \subseteq s => r = s
  BY Minimal
<1>2. PICK x \in s : TRUE
  BY <1>1
<1>3. s \ {x} \notin C
  BY <1>1, <1>2
<1>4. IsFiniteSet(s)
  BY FS_Subset
<1>. QED
  BY <1>3, <1>4

LEMMA SumPlus ==
  ASSUME NEW S, IsFiniteSet(S), NEW f, NEW g, NEW h,
         \A x \in S : f[x] \in Int /\ g[x] \in Int /\ h[x] = f[x] + g[x]
  PROVE  SumFunctionOnSet(h, S) = SumFunctionOnSet(f, S) + SumFunctionOnSet(g, S)
<1>. DEFINE Bad == {s \in SUBSET S :
                      SumFunctionOnSet(h, s) # SumFunctionOnSet(f, s) + SumFunctionOnSet(g, s)}
<1>. SUFFICES ASSUME Bad # {} PROVE FALSE
  OBVIOUS
<1>1. PICK s \in Bad : IsFiniteSet(s) /\ \E x \in s : s \ {x} \notin Bad
  <2>1. Bad \subseteq SUBSET S /\ {} \notin Bad
    BY SumEmpty
  <2>. HIDE DEF Bad
  <2>. QED
    BY <2>1, Descent
<1>2. PICK x \in s : s \ {x} \notin Bad
  BY <1>1
<1>3. s \subseteq S /\ x \in S /\ \A z \in s : f[z] \in Int /\ g[z] \in Int /\ h[z] \in Int
  OBVIOUS
<1>4. /\ SumFunctionOnSet(f, s) = f[x] + SumFunctionOnSet(f, s \ {x})
      /\ SumFunctionOnSet(g, s) = g[x] + SumFunctionOnSet(g, s \ {x})
      /\ SumFunctionOnSet(h, s) = h[x] + SumFunctionOnSet(h, s \ {x})
  BY <1>1, <1>3, SumRemove
<1>5. SumFunctionOnSet(f, s \ {x}) \in Int /\ SumFunctionOnSet(g, s \ {x}) \in Int
  BY <1>1, <1>3, SumInt, FS_Subset
<1>6. SumFunctionOnSet(h, s \ {x})
        = SumFunctionOnSet(f, s \ {x}) + SumFunctionOnSet(g, s \ {x})
  BY <1>2, <1>3
<1>. QED
  BY <1>3, <1>4, <1>5, <1>6

LEMMA SumTimes ==
  ASSUME NEW S, IsFiniteSet(S), NEW f, NEW h, NEW c \in Int,
         \A x \in S : f[x] \in Int /\ h[x] = c * f[x]
  PROVE  SumFunctionOnSet(h, S) = c * SumFunctionOnSet(f, S)
<1>. DEFINE Bad == {s \in SUBSET S : SumFunctionOnSet(h, s) # c * SumFunctionOnSet(f, s)}
<1>. SUFFICES ASSUME Bad # {} PROVE FALSE
  OBVIOUS
<1>1. PICK s \in Bad : IsFiniteSet(s) /\ \E x \in s : s \ {x} \notin Bad
  <2>1. Bad \subseteq SUBSET S /\ {} \notin Bad
    BY SumEmpty
  <2>. HIDE DEF Bad
  <2>. QED
    BY <2>1, Descent
<1>2. PICK x \in s : s \ {x} \notin Bad
  BY <1>1
<1>3. /\ s \subseteq S /\ x \in S /\ \A z \in s : f[z] \in Int /\ h[z] \in Int
      /\ f[x] \in Int /\ h[x] = c * f[x]
  OBVIOUS
<1>4. /\ SumFunctionOnSet(f, s) = f[x] + SumFunctionOnSet(f, s \ {x})
      /\ SumFunctionOnSet(h, s) = h[x] + SumFunctionOnSet(h, s \ {x})
  BY <1>1, <1>3, SumRemove
<1>5. SumFunctionOnSet(f, s \ {x}) \in Int
  BY <1>1, <1>3, SumInt, FS_Subset
<1>6. SumFunctionOnSet(h, s \ {x}) = c * SumFunctionOnSet(f, s \ {x})
  BY <1>2, <1>3
<1>7. \A a, b \in Int : c * (a + b) = c * a + c * b
  OBVIOUS
<1>. QED
  BY <1>3, <1>4, <1>5, <1>6, <1>7

LEMMA SumConst ==
  ASSUME NEW S, IsFiniteSet(S), NEW h, NEW c \in Int, \A x \in S : h[x] = c
  PROVE  SumFunctionOnSet(h, S) = c * Cardinality(S)
<1>. DEFINE Bad == {s \in SUBSET S : SumFunctionOnSet(h, s) # c * Cardinality(s)}
<1>. SUFFICES ASSUME Bad # {} PROVE FALSE
  OBVIOUS
<1>1. PICK s \in Bad : IsFiniteSet(s) /\ \E x \in s : s \ {x} \notin Bad
  <2>1. Bad \subseteq SUBSET S /\ {} \notin Bad
    BY SumEmpty, FS_EmptySet
  <2>. HIDE DEF Bad
  <2>. QED
    BY <2>1, Descent
<1>2. PICK x \in s : s \ {x} \notin Bad
  BY <1>1
<1>3. s \subseteq S /\ h[x] = c /\ \A z \in s : h[z] \in Int
  OBVIOUS
<1>4. SumFunctionOnSet(h, s) = c + SumFunctionOnSet(h, s \ {x})
  BY <1>1, <1>3, SumRemove
<1>5. SumFunctionOnSet(h, s \ {x}) = c * Cardinality(s \ {x})
  BY <1>2, <1>3
<1>6. /\ Cardinality(s \ {x}) = Cardinality(s) - 1 /\ Cardinality(s) \in Int
  BY <1>1, FS_RemoveElement, FS_CardinalityType
<1>7. \A n \in Int : c + c * (n - 1) = c * n
  OBVIOUS
<1>. QED
  BY <1>4, <1>5, <1>6, <1>7

LEMMA SumAtMost ==
  ASSUME NEW S, IsFiniteSet(S), NEW f, NEW g,
         \A x \in S : f[x] \in Int /\ g[x] \in Int /\ f[x] <= g[x]
  PROVE  SumFunctionOnSet(f, S) <= SumFunctionOnSet(g, S)
<1>. DEFINE d == [x \in S |-> g[x] - f[x]]
<1>1. \A x \in S : f[x] \in Int /\ d[x] \in Int /\ d[x] \in Nat /\ g[x] = f[x] + d[x]
  OBVIOUS
<1>. HIDE DEF d
<1>2. SumFunctionOnSet(g, S) = SumFunctionOnSet(f, S) + SumFunctionOnSet(d, S)
  BY <1>1, SumPlus
<1>3. SumFunctionOnSet(d, S) \in Nat /\ SumFunctionOnSet(f, S) \in Int
  BY <1>1, SumNat, SumInt
<1>. QED
  BY <1>2, <1>3

\* The sum of an indicator counts.
LEMMA SumCount ==
  ASSUME NEW S, IsFiniteSet(S), NEW A, A \subseteq S, NEW h,
         \A x \in S : h[x] = IF x \in A THEN 1 ELSE 0
  PROVE  SumFunctionOnSet(h, S) = Cardinality(A)
<1>1. IsFiniteSet(A) /\ IsFiniteSet(S \ A) /\ A \cap (S \ A) = {} /\ A \cup (S \ A) = S
  BY FS_Subset
<1>2. (\A x \in A : h[x] = 1) /\ (\A x \in S \ A : h[x] = 0)
  OBVIOUS
<1>3. SumFunctionOnSet(h, A) = 1 * Cardinality(A)
  BY <1>1, <1>2, SumConst
<1>4. SumFunctionOnSet(h, S \ A) = 0 * Cardinality(S \ A)
  BY <1>1, <1>2, SumConst
<1>5. SumFunctionOnSet(h, A \cup (S \ A)) = SumFunctionOnSet(h, A) + SumFunctionOnSet(h, S \ A)
  <2>1. \A x \in A \cup (S \ A) : h[x] \in Int
    BY <1>2
  <2>. QED
    BY <1>1, <2>1, SumUnion
<1>6. Cardinality(A) \in Int /\ Cardinality(S \ A) \in Int
  BY <1>1, FS_CardinalityType
<1>7. SumFunctionOnSet(h, S) = SumFunctionOnSet(h, A) + SumFunctionOnSet(h, S \ A)
  BY <1>1, <1>5
<1>8. 1 * Cardinality(A) = Cardinality(A) /\ 0 * Cardinality(S \ A) = 0
  BY <1>6
<1>. QED
  BY <1>3, <1>4, <1>6, <1>7, <1>8

\* The first of a sequence and the rest.
LEMMA SumTail ==
  ASSUME NEW n \in Nat, NEW f, \A i \in 1 .. n + 1 : f[i] \in Int,
         NEW g, \A i \in 1 .. n : g[i] = f[i + 1]
  PROVE  SumFunctionOnSet(f, 1 .. n + 1) = f[1] + SumFunctionOnSet(g, 1 .. n)
<1>. DEFINE Bad == {m \in 0 .. n :
                      SumFunctionOnSet(f, 1 .. m + 1) # f[1] + SumFunctionOnSet(g, 1 .. m)}
<1>. SUFFICES ASSUME Bad # {} PROVE FALSE
  BY DEF Bad
<1>1. PICK m \in Bad : \A k \in Bad : m <= k
  <2>1. Bad \subseteq Nat
    OBVIOUS
  <2>. HIDE DEF Bad
  <2>. QED
    BY <2>1, Least
<1>2. /\ m \in Nat /\ m <= n /\ f[1] \in Int /\ f[m + 1] \in Int
      /\ SumFunctionOnSet(f, 1 .. m + 1) # f[1] + SumFunctionOnSet(g, 1 .. m)
  OBVIOUS
<1>3. SumFunctionOnSet(f, 1 .. m + 1) = f[m + 1] + SumFunctionOnSet(f, 1 .. m)
  <2>1. 1 .. m + 1 = (1 .. m) \cup {m + 1} /\ m + 1 \notin 1 .. m
    BY <1>2
  <2>2. IsFiniteSet(1 .. m)
    BY <1>2, FS_Interval
  <2>3. \A i \in (1 .. m) \cup {m + 1} : f[i] \in Int
    BY <1>2
  <2>4. SumFunctionOnSet(f, (1 .. m) \cup {m + 1}) = f[m + 1] + SumFunctionOnSet(f, 1 .. m)
    BY <2>1, <2>2, <2>3, SumAdd
  <2>. QED
    BY <2>1, <2>4
<1>4. CASE m = 0
  <2>1. 1 .. m = {}
    BY <1>4
  <2>. HIDE DEF Bad
  <2>. QED
    BY <1>2, <1>3, <1>4, <2>1, SumEmpty
<1>5. CASE m # 0
  <2>1. PICK k \in Nat : m = k + 1 /\ k \notin Bad /\ k \in 0 .. n
    <3>1. m - 1 \in Nat /\ m = (m - 1) + 1 /\ m - 1 \in 0 .. n
      BY <1>2, <1>5
    <3>2. m - 1 \notin Bad
      <4>. HIDE DEF Bad
      <4>. QED
        BY <1>1, <1>2, <3>1
    <3>. QED
      BY <3>1, <3>2
  <2>2. SumFunctionOnSet(f, 1 .. m) = f[1] + SumFunctionOnSet(g, 1 .. k)
    BY <2>1
  <2>3. SumFunctionOnSet(g, 1 .. m) = g[m] + SumFunctionOnSet(g, 1 .. k)
    <3>1. 1 .. m = (1 .. k) \cup {m} /\ m \notin 1 .. k
      BY <1>2, <2>1
    <3>2. IsFiniteSet(1 .. k)
      BY <2>1, FS_Interval
    <3>3. \A i \in (1 .. k) \cup {m} : g[i] \in Int
      BY <1>2, <2>1
    <3>4. SumFunctionOnSet(g, (1 .. k) \cup {m}) = g[m] + SumFunctionOnSet(g, 1 .. k)
      BY <3>1, <3>2, <3>3, SumAdd
    <3>. QED
      BY <3>1, <3>4
  <2>4. g[m] = f[m + 1]
    BY <1>2, <1>5
  <2>5. SumFunctionOnSet(g, 1 .. k) \in Int
    <3>1. IsFiniteSet(1 .. k)
      BY <2>1, FS_Interval
    <3>2. \A i \in 1 .. k : g[i] \in Int
      BY <1>2, <2>1
    <3>. QED
      BY <3>1, <3>2, SumInt
  <2>. HIDE DEF Bad
  <2>. QED
    BY <1>2, <1>3, <2>2, <2>3, <2>4, <2>5
<1>. QED
  BY <1>4, <1>5

-----------------------------------------------------------------------------
(* Ranks *)

\* R orders D strictly and wholly.
Orders(R, D) ==
  /\ \A i \in D : <<i, i>> \notin R
  /\ \A i, j, k \in D : <<i, j>> \in R /\ <<j, k>> \in R => <<i, k>> \in R
  /\ \A i, j \in D : i # j => <<i, j>> \in R \/ <<j, i>> \in R

Rank(R, D, i) == Cardinality({j \in D : <<j, i>> \in R})

LEMMA RankType ==
  ASSUME NEW D, IsFiniteSet(D), NEW R, Orders(R, D), NEW i \in D
  PROVE  Rank(R, D, i) \in 0 .. Cardinality(D) - 1
<1>. DEFINE B == {j \in D : <<j, i>> \in R}
<1>1. B \in SUBSET (D \ {i}) /\ IsFiniteSet(D \ {i})
  BY FS_RemoveElement DEF Orders
<1>2. Cardinality(B) \in Nat /\ Cardinality(D) \in Nat /\ Cardinality(B) <= Cardinality(D) - 1
  <2>. HIDE DEF B
  <2>. QED
    BY <1>1, FS_Subset, FS_CardinalityType, FS_RemoveElement
<1>. QED
  BY <1>2 DEF Rank

LEMMA RankAscends ==
  ASSUME NEW D, IsFiniteSet(D), NEW R, Orders(R, D), NEW i \in D, NEW j \in D, <<i, j>> \in R
  PROVE  Rank(R, D, i) < Rank(R, D, j)
<1>. DEFINE A == {k \in D : <<k, i>> \in R}
            B == {k \in D : <<k, j>> \in R}
<1>1. A \in SUBSET B /\ i \in B /\ i \notin A /\ IsFiniteSet(B)
  BY FS_Subset DEF Orders
<1>2. Cardinality(A) < Cardinality(B)
  <2>. HIDE DEF A, B
  <2>1. A # B
    BY <1>1
  <2>2. /\ Cardinality(A) \in Nat /\ Cardinality(B) \in Nat /\ Cardinality(A) <= Cardinality(B)
        /\ Cardinality(B) = Cardinality(A) => B = A
    BY <1>1, FS_Subset, FS_CardinalityType
  <2>. QED
    BY <2>1, <2>2
<1>. QED
  BY <1>2 DEF Rank

\* Each rank is had by exactly one.
LEMMA RankBijection ==
  ASSUME NEW D, IsFiniteSet(D), NEW R, Orders(R, D)
  PROVE  [i \in D |-> Rank(R, D, i)] \in Bijection(D, 0 .. Cardinality(D) - 1)
<1>. DEFINE f == [i \in D |-> Rank(R, D, i)]
            T == 0 .. Cardinality(D) - 1
<1>1. Cardinality(D) \in Nat /\ f \in [D -> T]
  BY RankType, FS_CardinalityType
<1>2. ASSUME NEW i \in D, NEW j \in D, i # j PROVE f[i] # f[j]
  <2>1. f[i] \in Int /\ f[j] \in Int
    BY <1>1
  <2>2. <<i, j>> \in R \/ <<j, i>> \in R
    BY <1>2 DEF Orders
  <2>3. f[i] < f[j] \/ f[j] < f[i]
    BY <2>2, RankAscends
  <2>. QED
    BY <2>1, <2>3
<1>3. f \in Injection(D, T)
  BY <1>1, <1>2 DEF Injection, IsInjective
<1>4. IsFiniteSet(T) /\ Cardinality(T) = Cardinality(D)
  BY <1>1, FS_Interval
<1>. HIDE DEF f, T
<1>5. f \in Surjection(D, T)
  BY <1>3, <1>4, FS_Injection
<1>. QED
  BY <1>3, <1>5 DEF Bijection, f, T

\* As many are ranked below n.
LEMMA RankBelow ==
  ASSUME NEW D, IsFiniteSet(D), NEW R, Orders(R, D), NEW n \in 0 .. Cardinality(D)
  PROVE  Cardinality({i \in D : Rank(R, D, i) < n}) = n
<1>. DEFINE f == [i \in D |-> Rank(R, D, i)]
            T == 0 .. Cardinality(D) - 1
            A == {i \in D : Rank(R, D, i) < n}
            g == [i \in A |-> f[i]]
<1>1. Cardinality(D) \in Nat
  BY FS_CardinalityType
<1>2. f \in [D -> T] /\ (\A i, j \in D : f[i] = f[j] => i = j) /\ \A t \in T : \E i \in D : f[i] = t
  <2>1. f \in Bijection(D, T)
    BY RankBijection
  <2>. HIDE DEF f, T
  <2>. QED
    BY <2>1 DEF Bijection, Injection, Surjection, IsInjective
<1>3. g \in Bijection(A, 0 .. n - 1)
  <2>1. g \in [A -> 0 .. n - 1]
    BY <1>1, <1>2
  <2>2. \A i, j \in A : g[i] = g[j] => i = j
    BY <1>2
  <2>3. \A t \in 0 .. n - 1 : \E i \in A : g[i] = t
    <3>. SUFFICES ASSUME NEW t \in 0 .. n - 1 PROVE \E i \in A : g[i] = t
      OBVIOUS
    <3>1. PICK i \in D : f[i] = t
      BY <1>1, <1>2
    <3>2. i \in A
      BY <3>1
    <3>. QED
      BY <3>1, <3>2
  <2>. HIDE DEF g, A
  <2>. QED
    BY <2>1, <2>2, <2>3 DEF Bijection, Injection, Surjection, IsInjective
<1>4. IsFiniteSet(A) /\ IsFiniteSet(0 .. n - 1) /\ Cardinality(0 .. n - 1) = n
  <2>1. A \in SUBSET D
    OBVIOUS
  <2>2. n \in Nat /\ n - 1 \in Int /\ 0 \in Int
    BY <1>1
  <2>3. /\ IsFiniteSet(0 .. n - 1)
        /\ Cardinality(0 .. n - 1) = IF 0 > n - 1 THEN 0 ELSE n - 1 - 0 + 1
    BY <2>2, FS_Interval
  <2>. HIDE DEF A
  <2>. QED
    BY <2>1, <2>2, <2>3, FS_Subset
<1>5. Cardinality(0 .. n - 1) = Cardinality(A)
  <2>. HIDE DEF g, A
  <2>1. ExistsBijection(A, 0 .. n - 1)
    BY <1>3 DEF ExistsBijection
  <2>. QED
    BY <1>4, <2>1, FS_Bijection
<1>. QED
  BY <1>4, <1>5
=============================================================================

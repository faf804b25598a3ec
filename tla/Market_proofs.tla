---------------------------- MODULE Market_proofs ----------------------------
(***************************************************************************)
(* Proofs about Market for any accounts, prices, balances and number of    *)
(* orders.                                                                 *)
(***************************************************************************)
EXTENDS Market, NaturalsInduction, WellFoundedInduction, FiniteSetTheorems, SequenceTheorems, TLAPS

-----------------------------------------------------------------------------
(* A set of naturals that is not empty has a least element.                *)

LEMMA LeastExists ==
    ASSUME NEW S \in SUBSET Nat, S # {}
    PROVE  \E j \in S : \A k \in S : j <= k
<1>1. PICK j \in S : \A k \in S : ~(<<k, j>> \in OpToRel(<, Nat))
  BY NatLessThanWellFounded, WFMin
<1>2. ASSUME NEW k \in S PROVE j <= k
  <2>1. <<k, j>> \in OpToRel(<, Nat) <=> k < j
    BY DEF OpToRel
  <2>2. ~(k < j)
    BY <1>1, <2>1
  <2>3. j \in Nat /\ k \in Nat
    OBVIOUS
  <2> QED BY <2>2, <2>3
<1> QED BY <1>2

-----------------------------------------------------------------------------
(* Induction over the subsets of a finite set, with the property as a set. *)

LEMMA SubsetInduction ==
    ASSUME NEW S, IsFiniteSet(S), NEW G,
           {} \in G,
           \A s \in SUBSET S : s # {} /\ (\A x \in s : s \ {x} \in G) => s \in G
    PROVE  \A s \in SUBSET S : s \in G
<1> DEFINE Bad == {Cardinality(s) : s \in {t \in SUBSET S : t \notin G}}
<1> SUFFICES ASSUME NEW s0 \in SUBSET S, s0 \notin G PROVE FALSE
  OBVIOUS
<1>1. \A s \in SUBSET S : IsFiniteSet(s) /\ Cardinality(s) \in Nat
  BY FS_Subset, FS_CardinalityType
<1>2. Bad \in SUBSET Nat /\ Bad # {}
  BY <1>1
<1>3. PICK n \in Bad : \A k \in Bad : n <= k
  BY <1>2, LeastExists
<1>4. PICK s \in SUBSET S : s \notin G /\ n = Cardinality(s)
  OBVIOUS
<1>5. ASSUME NEW x \in s PROVE s \ {x} \in G
  <2>1. Cardinality(s \ {x}) = Cardinality(s) - 1
    BY <1>1, FS_RemoveElement
  <2>2. n \in Nat /\ ~(n <= Cardinality(s \ {x}))
    BY <1>1, <1>4, <2>1
  <2>3. s \ {x} \in SUBSET S
    OBVIOUS
  <2>4. s \ {x} \notin G => Cardinality(s \ {x}) \in Bad
    BY <2>3
  <2> QED BY <1>3, <2>2, <2>4
<1> QED BY <1>4, <1>5

-----------------------------------------------------------------------------
(* A fold exists: op takes an element and what the others gave, c chooses  *)
(* the element.                                                            *)

FoldEq(h, S, c, base, op) ==
    \A s \in SUBSET S : h[s] = IF s = {} THEN base ELSE op[<<c[s], h[s \ {c[s]}]>>]

LEMMA FoldExists ==
    ASSUME NEW S, IsFiniteSet(S), NEW c, \A s \in SUBSET S : s # {} => c[s] \in s,
           NEW base, NEW op
    PROVE  \E h : DOMAIN h = SUBSET S /\ h = [s \in SUBSET S |-> h[s]] /\ FoldEq(h, S, c, base, op)
<1> DEFINE Val(h, s) == IF s = {} THEN base ELSE op[<<c[s], h[s \ {c[s]}]>>]
           Sub(n) == {s \in SUBSET S : Cardinality(s) <= n}
           Good(n, h) == h = [s \in Sub(n) |-> Val(h, s)]
           Bad == {n \in Nat : ~\E h : Good(n, h)}
<1>1. \A s \in SUBSET S : IsFiniteSet(s) /\ Cardinality(s) \in Nat /\ Cardinality(s) <= Cardinality(S)
  BY FS_Subset, FS_CardinalityType
<1>2. ASSUME NEW s \in SUBSET S, s # {}
      PROVE  s \ {c[s]} \in SUBSET S /\ Cardinality(s \ {c[s]}) = Cardinality(s) - 1
  BY <1>1, <1>2, FS_RemoveElement
<1>3. ASSUME Bad # {} PROVE FALSE
  <2>1. Bad \in SUBSET Nat
    OBVIOUS
  <2>2. PICK n \in Bad : \A k \in Bad : n <= k
    BY <1>3, <2>1, LeastExists
  <2>3. n \in Nat /\ ~\E h : Good(n, h)
    OBVIOUS
  <2>4. CASE n = 0
    <3> DEFINE h == [s \in Sub(0) |-> base]
    <3>1. ASSUME NEW s \in Sub(0) PROVE s = {}
      BY <1>1, FS_EmptySet
    <3>2. h = [s \in Sub(0) |-> Val(h, s)]
      BY <3>1, Zenon
    <3> QED BY <2>3, <2>4, <3>2
  <2>5. CASE n # 0
    <3>1. n - 1 \in Nat /\ ~(n <= n - 1)
      BY <2>3, <2>5
    <3>2. PICK g : Good(n - 1, g)
      BY <2>2, <3>1
    <3> DEFINE h == [s \in Sub(n) |-> Val(g, s)]
    <3>3. ASSUME NEW s \in Sub(n), s # {} PROVE h[s \ {c[s]}] = g[s \ {c[s]}]
      <4>1. s \ {c[s]} \in Sub(n - 1) /\ s \ {c[s]} \in Sub(n)
        <5>1. s \in SUBSET S /\ Cardinality(s) \in Nat /\ Cardinality(s) <= n
          BY <1>1
        <5>2. s \ {c[s]} \in SUBSET S /\ Cardinality(s \ {c[s]}) = Cardinality(s) - 1
          BY <1>2, <3>3, <5>1
        <5> QED BY <2>3, <5>1, <5>2
      <4>2. g[s \ {c[s]}] = Val(g, s \ {c[s]})
        BY <3>2, <4>1, Zenon
      <4>3. h[s \ {c[s]}] = Val(g, s \ {c[s]})
        BY <4>1, Zenon
      <4> QED BY <4>2, <4>3
    <3>4. \A s \in Sub(n) : h[s] = Val(g, s)
      BY Zenon
    <3>5. h = [s \in Sub(n) |-> h[s]]
      BY Zenon
    <3> HIDE DEF h, Sub
    <3>6. \A s \in Sub(n) : h[s] = Val(h, s)
      BY <3>3, <3>4, Zenon
    <3>7. h = [s \in Sub(n) |-> Val(h, s)]
      BY <3>5, <3>6, Zenon
    <3> QED BY <2>3, <3>7
  <2> QED BY <2>4, <2>5
<1>4. PICK m \in Nat : m = Cardinality(S)
  BY FS_CardinalityType
<1>5. PICK h : Good(m, h)
  <2>1. m \notin Bad
    BY <1>3
  <2> HIDE DEF Good
  <2> QED BY <2>1
<1>6. Sub(m) = SUBSET S
  BY <1>1, <1>4
<1>7. h = [s \in SUBSET S |-> Val(h, s)]
  BY <1>5, <1>6, Zenon
<1>8. \A s \in SUBSET S : h[s] = Val(h, s)
  BY <1>7, Zenon
<1>9. DOMAIN h = SUBSET S /\ h = [s \in SUBSET S |-> h[s]]
  BY <1>7, <1>8, Zenon
<1> QED BY <1>8, <1>9, Zenon DEF FoldEq

-----------------------------------------------------------------------------
(* Sums.                                                                   *)

AnyOf(s) == CHOOSE x \in s : TRUE

IsSum(h, f, S) ==
    h = [s \in SUBSET S |-> IF s = {} THEN 0 ELSE f[AnyOf(s)] + h[s \ {AnyOf(s)}]]

Ints(f, S) == \A x \in S : f[x] \in Int

LEMMA SumExists ==
    ASSUME NEW f, NEW S, IsFiniteSet(S), Ints(f, S)
    PROVE  \E h \in [SUBSET S -> Int] : IsSum(h, f, S)
<1> DEFINE c  == [s \in SUBSET S |-> AnyOf(s)]
           op == [p \in S \X Int |-> f[p[1]] + p[2]]
<1>1. \A s \in SUBSET S : s # {} => AnyOf(s) \in s /\ c[s] = AnyOf(s)
  BY DEF AnyOf
<1>2. \A x \in S, n \in Int : op[<<x, n>>] = f[x] + n
  OBVIOUS
<1> HIDE DEF c, op
<1>3. PICK h : h = [s \in SUBSET S |-> h[s]] /\ FoldEq(h, S, c, 0, op)
  <2>1. \A s \in SUBSET S : s # {} => c[s] \in s
    BY <1>1
  <2> QED BY <2>1, FoldExists, Zenon
<1> DEFINE G == {s \in SUBSET S : h[s] \in Int}
<1>4. {} \in G
  <2>1. h[{}] = 0
    BY <1>3 DEF FoldEq
  <2> QED BY <2>1
<1>5. ASSUME NEW s \in SUBSET S, s # {}, \A x \in s : s \ {x} \in G
      PROVE  s \in G /\ h[s] = f[AnyOf(s)] + h[s \ {AnyOf(s)}]
  <2>1. AnyOf(s) \in s /\ AnyOf(s) \in S /\ h[s \ {AnyOf(s)}] \in Int
    BY <1>1, <1>5
  <2>2. h[s] = op[<<AnyOf(s), h[s \ {AnyOf(s)}]>>]
    BY <1>1, <1>3, <1>5 DEF FoldEq
  <2>3. h[s] = f[AnyOf(s)] + h[s \ {AnyOf(s)}]
    BY <1>2, <2>1, <2>2
  <2> QED BY <2>1, <2>3 DEF Ints
<1>6. \A s \in SUBSET S : s \in G
  <2>1. \A s \in SUBSET S : s # {} /\ (\A x \in s : s \ {x} \in G) => s \in G
    BY <1>5
  <2> HIDE DEF G
  <2> QED BY <1>4, <2>1, SubsetInduction, Zenon
<1>7. h \in [SUBSET S -> Int]
  BY <1>3, <1>6
<1>8. \A s \in SUBSET S : h[s] = IF s = {} THEN 0 ELSE f[AnyOf(s)] + h[s \ {AnyOf(s)}]
  <2> SUFFICES ASSUME NEW s \in SUBSET S
               PROVE  h[s] = IF s = {} THEN 0 ELSE f[AnyOf(s)] + h[s \ {AnyOf(s)}]
    OBVIOUS
  <2>1. CASE s = {}
    BY <1>3, <2>1 DEF FoldEq
  <2>2. CASE s # {}
    <3>1. \A x \in s : s \ {x} \in G
      BY <1>6
    <3> QED BY <1>5, <2>2, <3>1
  <2> QED BY <2>1, <2>2
<1>9. IsSum(h, f, S)
  BY <1>3, <1>8, Zenon DEF IsSum
<1> QED BY <1>7, <1>9

\* The sum over a set in terms of the fold over one that contains it.
LEMMA SumIs ==
    ASSUME NEW f, NEW S, IsFiniteSet(S), Ints(f, S)
    PROVE  \E h : IsSum(h, f, S) /\ SumFunctionOnSet(f, S) = h[S]
<1> DEFINE h == CHOOSE h : IsSum(h, f, S)
<1>1. IsSum(h, f, S)
  BY SumExists
<1>2. SumFunctionOnSet(f, S) = h[S]
  BY DEF SumFunctionOnSet, FoldFunctionOnSet, MapThenFoldSet, IsSum, AnyOf
<1> QED BY <1>1, <1>2

LEMMA SumUnique ==
    ASSUME NEW f, NEW S, IsFiniteSet(S), Ints(f, S), NEW T \in SUBSET S,
           NEW g, IsSum(g, f, T), NEW h, IsSum(h, f, S)
    PROVE  g[T] = h[T] /\ h[T] \in Int
<1>1. IsFiniteSet(T)
  BY FS_Subset
<1>2. \A s \in SUBSET T : g[s] = IF s = {} THEN 0 ELSE f[AnyOf(s)] + g[s \ {AnyOf(s)}]
  BY Zenon DEF IsSum
<1>3. \A s \in SUBSET S : h[s] = IF s = {} THEN 0 ELSE f[AnyOf(s)] + h[s \ {AnyOf(s)}]
  BY Zenon DEF IsSum
<1> DEFINE G == {s \in SUBSET T : g[s] = h[s] /\ h[s] \in Int}
<1>4. {} \in G
  BY <1>2, <1>3
<1>5. ASSUME NEW s \in SUBSET T, s # {}, \A x \in s : s \ {x} \in G
      PROVE  s \in G
  <2>1. AnyOf(s) \in s /\ s \in SUBSET S
    BY <1>5 DEF AnyOf
  <2>2. g[s \ {AnyOf(s)}] = h[s \ {AnyOf(s)}] /\ h[s \ {AnyOf(s)}] \in Int
    BY <1>5, <2>1
  <2>3. f[AnyOf(s)] \in Int
    BY <2>1 DEF Ints
  <2>4. g[s] = f[AnyOf(s)] + g[s \ {AnyOf(s)}]
    BY <1>2, <1>5, Zenon
  <2>5. h[s] = f[AnyOf(s)] + h[s \ {AnyOf(s)}]
    BY <1>3, <1>5, <2>1, Zenon
  <2> QED BY <2>2, <2>3, <2>4, <2>5
<1>6. \A s \in SUBSET T : s \in G
  <2>1. \A s \in SUBSET T : s # {} /\ (\A x \in s : s \ {x} \in G) => s \in G
    BY <1>5
  <2> HIDE DEF G
  <2> QED BY <1>1, <1>4, <2>1, SubsetInduction, Zenon
<1> QED BY <1>6

\* All sums over the subsets of S at once.
LEMMA SumsOf ==
    ASSUME NEW f, NEW S, IsFiniteSet(S), Ints(f, S)
    PROVE  /\ SumFunctionOnSet(f, {}) = 0
           /\ \A s \in SUBSET S : SumFunctionOnSet(f, s) \in Int
           /\ \A s \in SUBSET S : s # {} =>
                 /\ AnyOf(s) \in s
                 /\ SumFunctionOnSet(f, s) = f[AnyOf(s)] + SumFunctionOnSet(f, s \ {AnyOf(s)})
<1>1. PICK h : IsSum(h, f, S)
  BY SumExists
<1>2. ASSUME NEW s \in SUBSET S PROVE SumFunctionOnSet(f, s) = h[s] /\ h[s] \in Int
  <2>1. IsFiniteSet(s) /\ Ints(f, s)
    BY FS_Subset DEF Ints
  <2>2. PICK g : IsSum(g, f, s) /\ SumFunctionOnSet(f, s) = g[s]
    BY <2>1, SumIs
  <2> QED BY <1>1, <2>2, SumUnique
<1>3. \A s \in SUBSET S : h[s] = IF s = {} THEN 0 ELSE f[AnyOf(s)] + h[s \ {AnyOf(s)}]
  BY <1>1, Zenon DEF IsSum
<1>4. ASSUME NEW s \in SUBSET S, s # {}
      PROVE  /\ AnyOf(s) \in s
             /\ SumFunctionOnSet(f, s) = f[AnyOf(s)] + SumFunctionOnSet(f, s \ {AnyOf(s)})
  <2>1. AnyOf(s) \in s
    BY <1>4 DEF AnyOf
  <2>2. s \ {AnyOf(s)} \in SUBSET S
    OBVIOUS
  <2> QED BY <1>2, <1>3, <1>4, <2>1, <2>2
<1>5. SumFunctionOnSet(f, {}) = 0
  BY <1>2, <1>3
<1> QED BY <1>2, <1>4, <1>5

LEMMA SumType ==
    ASSUME NEW f, NEW S, IsFiniteSet(S), Ints(f, S)
    PROVE  SumFunctionOnSet(f, S) \in Int
BY SumsOf

\* The order does not matter: any element may be taken out.
LEMMA SumPick ==
    ASSUME NEW f, NEW S, IsFiniteSet(S), Ints(f, S), NEW x \in S
    PROVE  SumFunctionOnSet(f, S) = f[x] + SumFunctionOnSet(f, S \ {x})
<1> DEFINE Sum(s) == SumFunctionOnSet(f, s)
           G == {s \in SUBSET S : \A y \in s : Sum(s) = f[y] + Sum(s \ {y})}
<1>1. /\ \A s \in SUBSET S : Sum(s) \in Int
      /\ \A s \in SUBSET S : s # {} => AnyOf(s) \in s /\ Sum(s) = f[AnyOf(s)] + Sum(s \ {AnyOf(s)})
  BY SumsOf
<1> HIDE DEF Sum
<1>2. {} \in G
  OBVIOUS
<1>3. ASSUME NEW s \in SUBSET S, s # {}, \A z \in s : s \ {z} \in G, NEW y \in s
      PROVE  Sum(s) = f[y] + Sum(s \ {y})
  <2> DEFINE a == AnyOf(s)
  <2>1. a \in s /\ Sum(s) = f[a] + Sum(s \ {a})
    BY <1>1, <1>3
  <2> HIDE DEF a
  <2>2. CASE y = a
    BY <2>1, <2>2
  <2>3. CASE y # a
    <3>1. Sum(s \ {a}) = f[y] + Sum((s \ {a}) \ {y})
      BY <1>3, <2>1, <2>3
    <3>2. Sum(s \ {y}) = f[a] + Sum((s \ {y}) \ {a})
      BY <1>3, <2>1, <2>3
    <3>3. (s \ {a}) \ {y} = (s \ {y}) \ {a}
      OBVIOUS
    <3>4. PICK u \in Int : u = Sum((s \ {y}) \ {a})
      BY <1>1
    <3>5. f[a] \in Int /\ f[y] \in Int
      BY <2>1 DEF Ints
    <3>6. Sum(s) = f[a] + (f[y] + u) /\ Sum(s \ {y}) = f[a] + u
      BY <2>1, <3>1, <3>2, <3>3, <3>4
    <3> QED BY <3>5, <3>6
  <2> QED BY <2>2, <2>3
<1>4. \A s \in SUBSET S : s \in G
  <2>1. \A s \in SUBSET S : s # {} /\ (\A z \in s : s \ {z} \in G) => s \in G
    BY <1>3
  <2> HIDE DEF G
  <2> QED BY <1>2, <2>1, SubsetInduction, Zenon
<1>5. Sum(S) = f[x] + Sum(S \ {x})
  BY <1>4
<1> QED BY <1>5 DEF Sum

\* Sums of functions that agree.
LEMMA SumSame ==
    ASSUME NEW S, IsFiniteSet(S), NEW f, Ints(f, S), NEW g, \A x \in S : g[x] = f[x]
    PROVE  SumFunctionOnSet(g, S) = SumFunctionOnSet(f, S)
<1> DEFINE F(s) == SumFunctionOnSet(f, s)
           H(s) == SumFunctionOnSet(g, s)
           G == {s \in SUBSET S : H(s) = F(s)}
<1>1. Ints(g, S)
  BY DEF Ints
<1>2. {} \in G
  BY <1>1, SumsOf
<1>3. \A s \in SUBSET S : s # {} /\ (\A x \in s : s \ {x} \in G) => s \in G
  <2> SUFFICES ASSUME NEW s \in SUBSET S, s # {}, \A x \in s : s \ {x} \in G PROVE H(s) = F(s)
    OBVIOUS
  <2>1. AnyOf(s) \in s /\ F(s) = f[AnyOf(s)] + F(s \ {AnyOf(s)})
    BY SumsOf
  <2>2. H(s) = g[AnyOf(s)] + H(s \ {AnyOf(s)})
    BY <1>1, SumsOf
  <2> HIDE DEF F, H
  <2>3. H(s \ {AnyOf(s)}) = F(s \ {AnyOf(s)}) /\ g[AnyOf(s)] = f[AnyOf(s)]
    BY <2>1
  <2> QED BY <2>1, <2>2, <2>3
<1> HIDE DEF G
<1>4. \A s \in SUBSET S : s \in G
  BY <1>2, <1>3, SubsetInduction, Zenon
<1> QED BY <1>4 DEF G

LEMMA SumConstant ==
    ASSUME NEW S, IsFiniteSet(S), NEW c \in Nat, NEW f, \A x \in S : f[x] = c
    PROVE  SumFunctionOnSet(f, S) = c * Cardinality(S)
<1> DEFINE F(s) == SumFunctionOnSet(f, s)
           G == {s \in SUBSET S : F(s) = c * Cardinality(s)}
<1>1. Ints(f, S)
  BY DEF Ints
<1>2. {} \in G
  <2>1. F({}) = 0 /\ Cardinality({}) = 0
    BY <1>1, SumsOf, FS_EmptySet
  <2> HIDE DEF F
  <2> QED BY <2>1
<1>3. \A s \in SUBSET S : s # {} /\ (\A x \in s : s \ {x} \in G) => s \in G
  <2> SUFFICES ASSUME NEW s \in SUBSET S, s # {}, \A x \in s : s \ {x} \in G
               PROVE  F(s) = c * Cardinality(s)
    OBVIOUS
  <2>1. AnyOf(s) \in s /\ F(s) = f[AnyOf(s)] + F(s \ {AnyOf(s)})
    BY <1>1, SumsOf
  <2>2. IsFiniteSet(s) /\ Cardinality(s) \in Nat
    BY FS_Subset, FS_CardinalityType
  <2>3. Cardinality(s \ {AnyOf(s)}) = Cardinality(s) - 1
    BY <2>1, <2>2, FS_RemoveElement
  <2> HIDE DEF F
  <2>4. F(s \ {AnyOf(s)}) = c * (Cardinality(s) - 1) /\ f[AnyOf(s)] = c
    BY <2>1, <2>3
  <2>5. PICK m \in Nat : m = Cardinality(s)
    BY <2>2
  <2>6. c * (m - 1) = c * m - c
    OBVIOUS
  <2> QED BY <2>1, <2>4, <2>5, <2>6
<1> HIDE DEF G
<1>4. \A s \in SUBSET S : s \in G
  BY <1>2, <1>3, SubsetInduction, Zenon
<1> QED BY <1>4 DEF G

\* The same values under other names.
LEMMA SumRenamed ==
    ASSUME NEW S, IsFiniteSet(S), NEW f, Ints(f, S), NEW T, IsFiniteSet(T),
           NEW r \in [S -> T], \A x, y \in S : r[x] = r[y] => x = y,
           NEW g, \A x \in S : g[r[x]] = f[x]
    PROVE  SumFunctionOnSet(g, {r[x] : x \in S}) = SumFunctionOnSet(f, S)
<1> DEFINE Im(s) == {r[x] : x \in s}
           F(s) == SumFunctionOnSet(f, s)
           H(s) == SumFunctionOnSet(g, s)
           G == {s \in SUBSET S : H(Im(s)) = F(s)}
<1>1. ASSUME NEW s \in SUBSET S PROVE IsFiniteSet(Im(s)) /\ Ints(g, Im(s)) /\ IsFiniteSet(s) /\ Ints(f, s)
  <2>1. IsFiniteSet(s)
    BY FS_Subset
  <2>2. Im(s) \in SUBSET T
    OBVIOUS
  <2>3. IsFiniteSet(Im(s))
    BY <2>2, FS_Subset
  <2> QED BY <2>1, <2>3 DEF Ints
<1>2. {} \in G
  <2>1. Im({}) = {}
    OBVIOUS
  <2>2. F({}) = 0 /\ H({}) = 0
    BY <1>1, <2>1, SumsOf
  <2> QED BY <2>1, <2>2
<1>3. \A s \in SUBSET S : s # {} /\ (\A x \in s : s \ {x} \in G) => s \in G
  <2> SUFFICES ASSUME NEW s \in SUBSET S, s # {}, \A x \in s : s \ {x} \in G
               PROVE  H(Im(s)) = F(s)
    OBVIOUS
  <2>1. PICK x \in s : TRUE
    OBVIOUS
  <2>2. F(s) = f[x] + F(s \ {x})
    <3>1. IsFiniteSet(s) /\ Ints(f, s)
      BY <1>1
    <3> QED BY <3>1, SumPick
  <2>3. r[x] \in Im(s) /\ Im(s) \ {r[x]} = Im(s \ {x})
    OBVIOUS
  <2>4. H(Im(s)) = g[r[x]] + H(Im(s) \ {r[x]})
    <3>1. IsFiniteSet(Im(s)) /\ Ints(g, Im(s))
      BY <1>1
    <3> HIDE DEF Im
    <3> QED BY <2>3, <3>1, SumPick
  <2> HIDE DEF F, H, Im
  <2>5. H(Im(s \ {x})) = F(s \ {x})
    BY <2>1
  <2> QED BY <2>2, <2>3, <2>4, <2>5
<1> HIDE DEF G
<1>4. \A s \in SUBSET S : s \in G
  BY <1>2, <1>3, SubsetInduction, Zenon
<1>5. S \in G
  BY <1>4
<1> QED BY <1>5 DEF G

\* One value changes by d.
Differs(f, g, S, a, d) ==
    /\ IsFiniteSet(S) /\ Ints(f, S) /\ a \in S /\ d \in Int
    /\ g[a] = f[a] + d /\ \A x \in S \ {a} : g[x] = f[x]

LEMMA SumChange ==
    ASSUME NEW S, NEW f, NEW a, NEW d, NEW g, Differs(f, g, S, a, d)
    PROVE  SumFunctionOnSet(g, S) = SumFunctionOnSet(f, S) + d
<1>0. /\ IsFiniteSet(S) /\ Ints(f, S) /\ a \in S /\ d \in Int
      /\ g[a] = f[a] + d /\ \A x \in S \ {a} : g[x] = f[x]
  BY DEF Differs
<1>1. Ints(g, S) /\ f[a] \in Int
  BY <1>0 DEF Ints
<1>2. IsFiniteSet(S \ {a}) /\ Ints(f, S \ {a})
  BY <1>0, FS_RemoveElement DEF Ints
<1>3. SumFunctionOnSet(g, S \ {a}) = SumFunctionOnSet(f, S \ {a})
  BY <1>0, <1>2, SumSame
<1>4. SumFunctionOnSet(g, S) = g[a] + SumFunctionOnSet(g, S \ {a})
  BY <1>0, <1>1, SumPick
<1>5. SumFunctionOnSet(f, S) = f[a] + SumFunctionOnSet(f, S \ {a})
  BY <1>0, SumPick
<1>6. SumFunctionOnSet(f, S \ {a}) \in Int
  BY <1>2, SumType
<1> QED BY <1>0, <1>1, <1>3, <1>4, <1>5, <1>6

-----------------------------------------------------------------------------
(* Products and quotients.                                                 *)

LEMMA ProductGrows ==
    ASSUME NEW c \in Nat, NEW x \in Nat, NEW y \in Nat, x <= y
    PROVE  c * x <= c * y
<1>1. PICK d \in Nat : y = x + d
  OBVIOUS
<1>2. c * d >= 0 /\ c * (x + d) = c * x + c * d
  OBVIOUS
<1>3. c * x \in Nat /\ c * d \in Nat
  OBVIOUS
<1> QED BY <1>1, <1>2, <1>3

LEMMA ProductCancels ==
    ASSUME NEW c \in Nat \ {0}, NEW x \in Nat, NEW y \in Nat, c * x <= c * y
    PROVE  x <= y
<1> SUFFICES ASSUME y < x PROVE FALSE
  OBVIOUS
<1>1. c * (y + 1) <= c * x
  BY ProductGrows
<1>2. c * (y + 1) = c * y + c
  OBVIOUS
<1>3. c * x \in Nat /\ c * y \in Nat
  OBVIOUS
<1> QED BY <1>1, <1>2, <1>3

LEMMA Quotient ==
    ASSUME NEW n \in Nat, NEW d \in Nat \ {0}
    PROVE  /\ n \div d \in Nat
           /\ d * (n \div d) <= n
           /\ \A c \in Nat : d * c <= n => c <= n \div d
<1>1. PICK q \in Int : q = n \div d
  OBVIOUS
<1>2. d * q <= n /\ n < d * q + d
  BY <1>1, SMTT(30)
<1>3. q \in Nat
  <2> SUFFICES ASSUME q < 0 PROVE FALSE
    OBVIOUS
  <2>1. PICK m \in Nat : q = - m - 1
    <3>1. - q - 1 \in Nat /\ q = - (- q - 1) - 1
      OBVIOUS
    <3> QED BY <3>1
  <2>2. d * q = - (d * m) - d /\ d * m \in Nat
    BY <2>1
  <2> QED BY <1>2, <2>2
<1>4. ASSUME NEW c \in Nat, d * c <= n PROVE c <= q
  <2> SUFFICES ASSUME q < c PROVE FALSE
    BY <1>3
  <2>1. d * (q + 1) <= d * c
    BY <1>3, ProductGrows
  <2>2. d * (q + 1) = d * q + d /\ d * q \in Nat /\ d * c \in Nat
    BY <1>3
  <2> QED BY <1>2, <1>4, <2>1, <2>2
<1> QED BY <1>1, <1>2, <1>3, <1>4

Positive == Nat \ {0}

\* Who trades at b for q, b / q being no less than y / x, the limit x for y of
\* the other one: what rounding down leaves to either.
LEMMA QuotientsOfTrade ==
    ASSUME NEW b \in Positive, NEW q \in Positive, NEW x \in Positive, NEW y \in Positive,
           q * y <= b * x,
           NEW sold \in Positive, NEW offered \in Positive
    PROVE  /\ (sold * y) \div x <= (sold * b) \div q
           /\ (((sold * b) \div q) * q) \div b <= sold
           /\ sold <= (offered * q) \div b => (sold * b) \div q <= offered
           /\ (((offered * q) \div b) * y) \div x <= offered
<1> USE DEF Positive
<1> DEFINE m == (sold * y) \div x
           o == (sold * b) \div q
           v == (offered * q) \div b
           w == (o * q) \div b
           z == (v * y) \div x
<1>1. m \in Nat /\ x * m <= sold * y
  BY Quotient
<1>2. o \in Nat /\ q * o <= sold * b /\ \A c \in Nat : q * c <= sold * b => c <= o
  <2>1. sold * b \in Nat
    OBVIOUS
  <2> QED BY <2>1, Quotient
<1>3. v \in Nat /\ b * v <= offered * q
  BY Quotient
<1> HIDE DEF m, o, v
<1>4. w \in Nat /\ b * w <= o * q
  <2>1. o * q \in Nat
    BY <1>2
  <2> QED BY <2>1, Quotient
<1>5. z \in Nat /\ x * z <= v * y
  <2>1. v * y \in Nat
    BY <1>3
  <2> QED BY <2>1, Quotient
<1> HIDE DEF w, z
<1>6. m <= o
  <2>1. q * (x * m) <= q * (sold * y)
    BY <1>1, ProductGrows
  <2>2. sold * (q * y) <= sold * (b * x)
    BY ProductGrows
  <2>3. q * (sold * y) = sold * (q * y) /\ sold * (b * x) = x * (sold * b) /\ q * (x * m) = x * (q * m)
    BY <1>1
  <2>4. x * (q * m) <= x * (sold * b)
    <3>1. q * (sold * y) \in Nat /\ sold * (b * x) \in Nat /\ q * (x * m) \in Nat
      BY <1>1
    <3> QED BY <2>1, <2>2, <2>3, <3>1
  <2>5. q * m \in Nat /\ sold * b \in Nat
    BY <1>1
  <2>6. q * m <= sold * b
    BY <2>4, <2>5, ProductCancels
  <2> QED BY <1>1, <1>2, <2>6
<1>7. w <= sold
  <2>1. b * w <= b * sold
    <3>1. b * w \in Nat /\ o * q \in Nat /\ o * q = q * o /\ sold * b = b * sold /\ b * sold \in Nat
      BY <1>2, <1>4
    <3> QED BY <1>2, <1>4, <3>1
  <2> QED BY <1>4, <2>1, ProductCancels
<1>8. ASSUME sold <= v PROVE o <= offered
  <2>1. b * sold <= b * v
    BY <1>3, <1>8, ProductGrows
  <2>2. q * o <= q * offered
    <3>1. /\ b * sold \in Nat /\ b * v \in Nat /\ offered * q = q * offered /\ q * offered \in Nat
          /\ sold * b = b * sold /\ q * o \in Nat
      BY <1>2, <1>3
    <3> QED BY <1>2, <1>3, <2>1, <3>1
  <2> QED BY <1>2, <2>2, ProductCancels
<1>9. z <= offered
  <2>1. b * (x * z) <= b * (v * y)
    <3>1. x * z \in Nat /\ v * y \in Nat
      BY <1>3, <1>5
    <3> QED BY <1>5, <3>1, ProductGrows
  <2>2. y * (b * v) <= y * (offered * q)
    <3>1. b * v \in Nat /\ offered * q \in Nat
      BY <1>3
    <3> QED BY <1>3, <3>1, ProductGrows
  <2>3. offered * (q * y) <= offered * (b * x)
    BY ProductGrows
  <2>4. /\ b * (v * y) = y * (b * v) /\ y * (offered * q) = offered * (q * y)
        /\ offered * (b * x) = (b * x) * offered /\ b * (x * z) = (b * x) * z
    BY <1>3, <1>5
  <2>5. (b * x) * z <= (b * x) * offered
    <3>1. b * (x * z) \in Nat /\ b * (v * y) \in Nat /\ y * (offered * q) \in Nat /\ offered * (b * x) \in Nat
      BY <1>3, <1>5
    <3> QED BY <2>1, <2>2, <2>3, <2>4, <3>1
  <2>6. b * x \in Nat \ {0}
    OBVIOUS
  <2> QED BY <1>5, <2>5, <2>6, ProductCancels
<1> QED BY <1>6, <1>7, <1>8, <1>9 DEF m, o, v, w, z

-----------------------------------------------------------------------------
(* The order of prices and of the candidates.                              *)

Rates == Positive \X Positive

LEMMA RatesAre ==
    ASSUME NEW p \in Rates
    PROVE  p[1] \in Nat /\ p[2] \in Nat /\ p[1] > 0 /\ p[2] > 0
BY DEF Rates, Positive

LEMMA PricesAreRates == Prices \subseteq Rates
BY MarketAssumption DEF Rates, Positive

LEMMA AtLeastIsOrder ==
    ASSUME NEW p \in Rates, NEW q \in Rates
    PROVE  /\ AtLeast(p, q) <=> ~Better(q, p)
           /\ AtLeast(p, q) \/ AtLeast(q, p)
           /\ AtLeast(p, Inverted(q)) <=> q[2] * p[2] <= p[1] * q[1]
           /\ AtLeast(p, Inverted(q)) <=> AtLeast(q, Inverted(p))
<1>1. p[1] * q[2] \in Nat /\ q[1] * p[2] \in Nat
  BY RatesAre
<1>2. p[1] * q[1] = q[1] * p[1] /\ p[2] * q[2] = q[2] * p[2] /\ p[1] * q[1] \in Nat /\ p[2] * q[2] \in Nat
  BY RatesAre
<1> QED BY <1>1, <1>2 DEF AtLeast, Better, Inverted

LEMMA AtLeastTransitive ==
    ASSUME NEW p \in Rates, NEW q \in Rates, NEW r \in Rates, AtLeast(p, q), AtLeast(q, r)
    PROVE  AtLeast(p, r)
<1> DEFINE p1 == p[1]  p2 == p[2]  q1 == q[1]  q2 == q[2]  r1 == r[1]  r2 == r[2]
<1>1. p1 \in Nat /\ p2 \in Nat /\ q1 \in Nat /\ q2 \in Nat \ {0} /\ r1 \in Nat /\ r2 \in Nat
  BY RatesAre
<1>2. q1 * p2 <= p1 * q2 /\ r1 * q2 <= q1 * r2
  BY <1>1 DEF AtLeast
<1>3. (r1 * p2 <= p1 * r2) => AtLeast(p, r)
  BY <1>1 DEF AtLeast
<1> HIDE DEF p1, p2, q1, q2, r1, r2
<1>4. p2 * (r1 * q2) <= p2 * (q1 * r2)
  <2>1. r1 * q2 \in Nat /\ q1 * r2 \in Nat
    BY <1>1
  <2> QED BY <1>1, <1>2, <2>1, ProductGrows
<1>5. r2 * (q1 * p2) <= r2 * (p1 * q2)
  <2>1. q1 * p2 \in Nat /\ p1 * q2 \in Nat
    BY <1>1
  <2> QED BY <1>1, <1>2, <2>1, ProductGrows
<1>6. q2 * (r1 * p2) <= q2 * (p1 * r2)
  <2>1. p2 * (r1 * q2) = q2 * (r1 * p2) /\ p2 * (q1 * r2) = r2 * (q1 * p2) /\ r2 * (p1 * q2) = q2 * (p1 * r2)
    BY <1>1
  <2>2. q2 * (r1 * p2) \in Nat /\ r2 * (q1 * p2) \in Nat /\ q2 * (p1 * r2) \in Nat
    BY <1>1
  <2> QED BY <1>4, <1>5, <2>1, <2>2
<1>7. r1 * p2 \in Nat /\ p1 * r2 \in Nat
  BY <1>1
<1> QED BY <1>1, <1>3, <1>6, <1>7, ProductCancels

\* Orders whose prices are rates.
Rated(orders) == \A i \in DOMAIN orders : i \in Nat /\ orders[i].price \in Rates

LEMMA BeforeIsTotal ==
    ASSUME NEW orders, Rated(orders), NEW i \in DOMAIN orders, NEW k \in DOMAIN orders
    PROVE  /\ i # k => Before(orders, i, k) \/ Before(orders, k, i)
           /\ ~(Before(orders, i, k) /\ Before(orders, k, i))
           /\ Before(orders, i, k) => AtLeast(orders[i].price, orders[k].price)
<1>1. i \in Nat /\ k \in Nat /\ orders[i].price \in Rates /\ orders[k].price \in Rates
  BY DEF Rated
<1> DEFINE p == orders[i].price  q == orders[k].price
<1>2. (AtLeast(p, q) <=> ~Better(q, p)) /\ (AtLeast(q, p) <=> ~Better(p, q)) /\ (AtLeast(p, q) \/ AtLeast(q, p))
  BY <1>1, AtLeastIsOrder
<1> HIDE DEF AtLeast, Better
<1> QED BY <1>1, <1>2 DEF Before

LEMMA BeforeTransitive ==
    ASSUME NEW orders, Rated(orders), NEW i \in DOMAIN orders, NEW j \in DOMAIN orders,
           NEW k \in DOMAIN orders, Before(orders, i, j), Before(orders, j, k)
    PROVE  Before(orders, i, k)
<1> DEFINE p == orders[i].price  q == orders[j].price  r == orders[k].price
<1>1. i \in Nat /\ j \in Nat /\ k \in Nat /\ p \in Rates /\ q \in Rates /\ r \in Rates
  BY DEF Rated
<1>2. AtLeast(p, q) /\ AtLeast(q, r)
  BY BeforeIsTotal
<1> HIDE DEF p, q, r
<1>3. AtLeast(p, r)
  BY <1>1, <1>2, AtLeastTransitive
<1>4. CASE Better(p, r)
  BY <1>4 DEF Before, p, r
<1>5. CASE ~Better(p, r)
  <2>1. AtLeast(r, p)
    BY <1>1, <1>5, AtLeastIsOrder
  <2>2. AtLeast(r, q) /\ AtLeast(q, p)
    BY <1>1, <1>2, <2>1, AtLeastTransitive
  <2>3. ~Better(q, r) /\ ~Better(p, q) /\ ~Better(r, p)
    BY <1>1, <1>3, <2>2, AtLeastIsOrder
  <2>4. i < j /\ j < k
    BY <2>3 DEF Before, p, q, r
  <2> QED BY <1>1, <2>3, <2>4 DEF Before, p, r
<1> QED BY <1>4, <1>5

\* The last of some orders.
Latest(orders, S) == CHOOSE k \in S : \A i \in S \ {k} : Before(orders, i, k)

LEMMA LatestIsLast ==
    ASSUME NEW orders, Rated(orders), NEW S \in SUBSET DOMAIN orders, IsFiniteSet(S), S # {}
    PROVE  /\ Latest(orders, S) \in S
           /\ \A i \in S \ {Latest(orders, S)} : Before(orders, i, Latest(orders, S))
<1> DEFINE Ends(s, k) == k \in s /\ \A i \in s \ {k} : Before(orders, i, k)
           G == {s \in SUBSET S : s = {} \/ \E k \in s : Ends(s, k)}
<1>1. {} \in G
  OBVIOUS
<1>2. ASSUME NEW s \in SUBSET S, s # {}, \A x \in s : s \ {x} \in G
      PROVE  \E k \in s : Ends(s, k)
  <2>1. PICK x \in s : TRUE
    BY <1>2
  <2>2. CASE s \ {x} = {}
    <3>1. Ends(s, x)
      BY <2>2
    <3> QED BY <3>1
  <2>3. CASE s \ {x} # {}
    <3>1. PICK k \in s \ {x} : Ends(s \ {x}, k)
      <4>1. s \ {x} \in G
        BY <1>2
      <4> QED BY <2>3, <4>1
    <3>2. x \in DOMAIN orders /\ k \in DOMAIN orders /\ k # x
      OBVIOUS
    <3>3. CASE Before(orders, x, k)
      <4>1. Ends(s, k)
        BY <3>1, <3>3
      <4> QED BY <4>1
    <3>4. CASE Before(orders, k, x)
      <4>1. ASSUME NEW i \in s \ {x} PROVE Before(orders, i, x)
        <5>1. i \in DOMAIN orders
          OBVIOUS
        <5>2. CASE i = k
          BY <3>4, <5>2
        <5>3. CASE i # k
          <6>1. Before(orders, i, k)
            BY <3>1, <5>3
          <6> QED BY <3>2, <3>4, <5>1, <6>1, BeforeTransitive
        <5> QED BY <5>2, <5>3
      <4>2. Ends(s, x)
        BY <4>1
      <4> QED BY <4>2
    <3>5. Before(orders, x, k) \/ Before(orders, k, x)
      BY <3>2, BeforeIsTotal
    <3> QED BY <3>3, <3>4, <3>5
  <2> QED BY <2>2, <2>3
<1>3. \A s \in SUBSET S : s \in G
  <2>1. \A s \in SUBSET S : s # {} /\ (\A x \in s : s \ {x} \in G) => s \in G
    BY <1>2
  <2> HIDE DEF G
  <2> QED BY <1>1, <2>1, SubsetInduction, Zenon
<1>4. \E k \in S : \A i \in S \ {k} : Before(orders, i, k)
  <2>1. S \in G
    BY <1>3
  <2> QED BY <2>1
<1> QED BY <1>4, Zenon DEF Latest

-----------------------------------------------------------------------------
(* Filling an order.                                                       *)

Orders == [seller : Accounts, sells : Assets, forSale : Positive, price : Prices]
Balances == [Accounts -> [Assets -> Nat]]
Trades == [limit : Prices, sells : Assets, old : Nat, newPays : Nat, oldPays : Nat]

\* The states of a trade between n orders.
Trading(n) == [left : [1 .. n -> Nat], balance : Balances, fills : Seq(Trades), ok : BOOLEAN]

\* What there is of an asset in balances, and in what is left of orders.
Held(bal, c) == SumFunctionOnSet([a \in Accounts |-> bal[a][c]], Accounts)
Part(orders, left, c) == [i \in 1 .. Len(orders) |-> IF orders[i].sells = c THEN left[i] ELSE 0]
Offered(orders, left, c) == SumFunctionOnSet(Part(orders, left, c), 1 .. Len(orders))

LEMMA OtherAsset ==
    ASSUME NEW c \in Assets
    PROVE  Other(c) \in Assets /\ Other(c) # c /\ \A d \in Assets : d = c \/ d = Other(c)
<1>1. \E d \in Assets : d # c
  BY DEF Assets
<1>2. Other(c) \in Assets /\ Other(c) # c
  BY <1>1 DEF Other
<1> QED BY <1>2 DEF Assets

LEMMA OrderFields ==
    ASSUME NEW orders \in Seq(Orders), NEW i \in 1 .. Len(orders)
    PROVE  /\ orders[i] \in Orders
           /\ orders[i].seller \in Accounts /\ orders[i].sells \in Assets
           /\ orders[i].forSale \in Positive
           /\ orders[i].price \in Prices /\ orders[i].price \in Rates
<1>1. orders[i] \in Orders
  <2> HIDE DEF Orders
  <2> QED OBVIOUS
<1> QED BY <1>1, PricesAreRates DEF Orders

LEMMA HeldType ==
    ASSUME NEW bal \in Balances, NEW c \in Assets
    PROVE  /\ Held(bal, c) \in Int
           /\ Ints([a \in Accounts |-> bal[a][c]], Accounts)
<1>1. Ints([a \in Accounts |-> bal[a][c]], Accounts)
  BY DEF Ints, Balances
<1> QED BY <1>1, SumType, MarketAssumption DEF Held

LEMMA OfferedType ==
    ASSUME NEW orders \in Seq(Orders), NEW left \in [1 .. Len(orders) -> Nat], NEW c
    PROVE  /\ Offered(orders, left, c) \in Int
           /\ Ints(Part(orders, left, c), 1 .. Len(orders))
           /\ IsFiniteSet(1 .. Len(orders))
<1>1. Ints(Part(orders, left, c), 1 .. Len(orders))
  BY DEF Ints, Part
<1>2. IsFiniteSet(1 .. Len(orders))
  <2>1. Len(orders) \in Int /\ 1 \in Int
    OBVIOUS
  <2> QED BY <2>1, FS_Interval
<1> QED BY <1>1, <1>2, SumType DEF Offered

LEMMA HeldChange ==
    ASSUME NEW b1 \in Balances, NEW b2 \in Balances, NEW c \in Assets, NEW a \in Accounts,
           NEW d \in Int, b2[a][c] = b1[a][c] + d, \A x \in Accounts \ {a} : b2[x][c] = b1[x][c]
    PROVE  Held(b2, c) = Held(b1, c) + d
<1> DEFINE f == [x \in Accounts |-> b1[x][c]]
           g == [x \in Accounts |-> b2[x][c]]
<1>1. Ints(f, Accounts)
  BY HeldType
<1>2. g[a] = f[a] + d /\ \A x \in Accounts \ {a} : g[x] = f[x]
  OBVIOUS
<1> HIDE DEF f, g
<1>3. SumFunctionOnSet(g, Accounts) = SumFunctionOnSet(f, Accounts) + d
  <2>1. Differs(f, g, Accounts, a, d)
    BY <1>1, <1>2, MarketAssumption DEF Differs
  <2> QED BY <2>1, SumChange
<1> QED BY <1>3 DEF Held, f, g

Touched(orders, l1, l2, i) ==
    /\ orders \in Seq(Orders) /\ i \in 1 .. Len(orders)
    /\ l1 \in [1 .. Len(orders) -> Nat] /\ l2 \in [1 .. Len(orders) -> Nat]
    /\ \A x \in 1 .. Len(orders) : x # i => l2[x] = l1[x]

LEMMA OfferedChange ==
    ASSUME NEW orders, NEW l1, NEW l2, NEW i, NEW c, Touched(orders, l1, l2, i)
    PROVE  Offered(orders, l2, c) =
               Offered(orders, l1, c) + (IF orders[i].sells = c THEN l2[i] - l1[i] ELSE 0)
<1> DEFINE f == Part(orders, l1, c)
           g == Part(orders, l2, c)
           S == 1 .. Len(orders)
<1>1. /\ orders \in Seq(Orders) /\ i \in S /\ l1 \in [S -> Nat] /\ l2 \in [S -> Nat]
      /\ \A x \in S : x # i => l2[x] = l1[x]
  BY DEF Touched
<1>2. PICK d \in Int : d = IF orders[i].sells = c THEN l2[i] - l1[i] ELSE 0
  BY <1>1
<1>3. Ints(f, S) /\ IsFiniteSet(S)
  BY <1>1, OfferedType
<1>4. g[i] = f[i] + d /\ \A x \in S \ {i} : g[x] = f[x]
  BY <1>1, <1>2 DEF Part
<1> HIDE DEF f, g, S
<1>5. Differs(f, g, S, i, d)
  BY <1>1, <1>3, <1>4 DEF Differs
<1>6. SumFunctionOnSet(g, S) = SumFunctionOnSet(f, S) + d
  BY <1>5, SumChange
<1> QED BY <1>2, <1>6 DEF Offered, f, g, S

\* What filling an order changes: it is gone or worth something, and what it
\* paid and received is all that moved.
LEMMA FillOrderOK ==
    ASSUME NEW orders \in Seq(Orders), NEW s \in Trading(Len(orders)),
           NEW i \in 1 .. Len(orders), NEW pays \in Nat, NEW receives \in Nat, pays <= s.left[i]
    PROVE  LET t == FillOrder(orders, s, i, pays, receives)
               o == orders[i]
           IN  /\ t \in Trading(Len(orders))
               /\ t.fills = s.fills /\ t.ok = s.ok
               /\ \A j \in 1 .. Len(orders) : j # i => t.left[j] = s.left[j]
               /\ t.left[i] > 0 => ToQuote(t.left[i], o.price) > 0 /\ t.left[i] = s.left[i] - pays
               /\ pays = s.left[i] => t.left[i] = 0
               /\ \A c \in Assets :
                    Held(t.balance, c) + Offered(orders, t.left, c) =
                        Held(s.balance, c) + Offered(orders, s.left, c)
                            + (IF c = o.sells THEN - pays ELSE receives)
<1> DEFINE n    == Len(orders)
           o    == orders[i]
           b    == s.balance
           l    == s.left
           rest == l[i] - pays
           gone == ToQuote(rest, o.price) = 0
           paid == [b EXCEPT ![o.seller][Other(o.sells)] = @ + receives]
           b2   == IF gone THEN [paid EXCEPT ![o.seller][o.sells] = @ + rest] ELSE paid
           l2   == [l EXCEPT ![i] = IF gone THEN 0 ELSE rest]
           t    == FillOrder(orders, s, i, pays, receives)
<1>1. o.seller \in Accounts /\ o.sells \in Assets /\ o.price \in Rates
  BY OrderFields
<1>2. l \in [1 .. n -> Nat] /\ b \in Balances /\ s.fills \in Seq(Trades) /\ s.ok \in BOOLEAN /\ n \in Nat
  BY DEF Trading
<1>3. rest \in Nat
  BY <1>2
<1>4. /\ DOMAIN s = {"left", "balance", "fills", "ok"}
      /\ s = [left |-> l, balance |-> b, fills |-> s.fills, ok |-> s.ok]
  BY DEF Trading
<1>5. t = [left |-> l2, balance |-> b2, fills |-> s.fills, ok |-> s.ok /\ rest >= 0]
  <2>1. t = [s EXCEPT !.left = l2, !.balance = b2, !.ok = s.ok /\ rest >= 0]
    BY DEF FillOrder
  <2> HIDE DEF l2, b2, t, rest
  <2> QED BY <1>4, <2>1
<1>6. t.left = l2 /\ t.balance = b2 /\ t.fills = s.fills /\ t.ok = s.ok
  <2> HIDE DEF t, l2, b2
  <2>1. t.left = l2 /\ t.balance = b2 /\ t.fills = s.fills /\ t.ok = (s.ok /\ rest >= 0)
    BY <1>5
  <2>2. rest >= 0
    BY <1>3
  <2> QED BY <1>2, <2>1, <2>2
<1>7. /\ Other(o.sells) \in Assets /\ Other(o.sells) # o.sells
      /\ \A d \in Assets : d = o.sells \/ d = Other(o.sells)
  BY <1>1, OtherAsset
<1> DEFINE x == o.seller
           c1 == o.sells
           c2 == Other(o.sells)
<1>8. /\ paid \in Balances
      /\ paid[x][c2] = b[x][c2] + receives /\ paid[x][c1] = b[x][c1]
      /\ \A y \in Accounts \ {x} : paid[y] = b[y]
  <2> HIDE DEF x, c1, c2, b
  <2>1. paid = [b EXCEPT ![x] = [b[x] EXCEPT ![c2] = b[x][c2] + receives]]
    BY DEF x, c1, c2, b
  <2>2. x \in Accounts /\ c1 \in Assets /\ c2 \in Assets /\ c1 # c2
    BY <1>1, <1>7 DEF x, c1, c2
  <2> HIDE DEF paid
  <2> QED BY <1>2, <2>1, <2>2 DEF Balances
<1>9. /\ b2 \in Balances
      /\ b2[x][c2] = b[x][c2] + receives
      /\ b2[x][c1] = b[x][c1] + (IF gone THEN rest ELSE 0)
      /\ \A y \in Accounts \ {x} : b2[y] = b[y]
  <2> HIDE DEF x, c1, c2, b, paid, gone, rest
  <2>1. b2 = IF gone THEN [paid EXCEPT ![x] = [paid[x] EXCEPT ![c1] = paid[x][c1] + rest]] ELSE paid
    BY DEF x, c1
  <2>2. x \in Accounts /\ c1 \in Assets /\ c2 \in Assets /\ c1 # c2
    BY <1>1, <1>7 DEF x, c1, c2
  <2> HIDE DEF b2
  <2>3. b[x][c1] \in Nat
    BY <1>2, <2>2 DEF Balances
  <2>4. CASE gone
    BY <1>2, <1>3, <1>8, <2>1, <2>2, <2>3, <2>4 DEF Balances
  <2>5. CASE ~gone
    <3>1. b2 = paid
      BY <2>1, <2>5
    <3>2. b2[x][c1] = b[x][c1] + 0
      BY <1>8, <2>3, <3>1
    <3> QED BY <1>8, <2>5, <3>1, <3>2
  <2> QED BY <2>4, <2>5
<1>10. /\ l2 \in [1 .. n -> Nat]
       /\ \A j \in 1 .. n : j # i => l2[j] = l[j]
       /\ l2[i] = IF gone THEN 0 ELSE rest
  <2> HIDE DEF gone, rest
  <2> QED BY <1>2, <1>3
<1>11. t \in Trading(n)
  <2> HIDE DEF t, l2, b2, n
  <2>1. (s.ok /\ rest >= 0) \in BOOLEAN
    OBVIOUS
  <2> HIDE DEF rest
  <2> QED BY <1>2, <1>5, <1>9, <1>10, <2>1 DEF Trading
<1>12. rest >= 0 => ToQuote(rest, o.price) \in Nat
  <2>1. o.price[1] \in Nat \ {0} /\ o.price[2] \in Nat
    BY <1>1, RatesAre
  <2> HIDE DEF rest, o
  <2>2. rest * o.price[2] \in Nat
    BY <1>3, <2>1
  <2> QED BY <2>1, <2>2, Quotient DEF ToQuote
<1>13. l2[i] > 0 => ToQuote(l2[i], o.price) > 0 /\ l2[i] = l[i] - pays
  <2> SUFFICES ASSUME l2[i] > 0 PROVE ToQuote(l2[i], o.price) > 0 /\ l2[i] = l[i] - pays
    OBVIOUS
  <2>1. ~gone /\ l2[i] = rest
    <3> HIDE DEF gone, l2, rest
    <3> QED BY <1>10
  <2>2. ToQuote(rest, o.price) # 0 /\ ToQuote(rest, o.price) \in Nat
    BY <1>3, <1>12, <2>1
  <2> HIDE DEF l2
  <2> QED BY <2>1, <2>2
<1>14. pays = l[i] => l2[i] = 0
  <2> SUFFICES ASSUME pays = l[i] PROVE l2[i] = 0
    OBVIOUS
  <2>1. rest = 0
    BY <1>2
  <2> HIDE DEF gone, rest, l2
  <2> QED BY <1>10, <2>1
<1>15. ASSUME NEW c \in Assets
       PROVE  Held(b2, c) + Offered(orders, l2, c) =
                  Held(b, c) + Offered(orders, l, c) + (IF c = o.sells THEN - pays ELSE receives)
  <2> HIDE DEF b2, l2, gone, b, l, paid
  <2>1. /\ Held(b, c) \in Int /\ Offered(orders, l, c) \in Int
    BY <1>2, HeldType, OfferedType
  <2>2. Offered(orders, l2, c) = Offered(orders, l, c) + (IF o.sells = c THEN l2[i] - l[i] ELSE 0)
    <3>1. Touched(orders, l, l2, i)
      BY <1>2, <1>10 DEF Touched
    <3> QED BY <3>1, OfferedChange
  <2>3. l2[i] \in Nat /\ l[i] \in Nat /\ rest = l[i] - pays
    BY <1>2, <1>10
  <2>4. CASE c = o.sells
    <3>1. Held(b2, c) = Held(b, c) + (IF gone THEN rest ELSE 0)
      <4>1. (IF gone THEN rest ELSE 0) \in Int
        BY <1>3
      <4> QED BY <1>1, <1>2, <1>9, <2>4, <4>1, HeldChange
    <3>2. l2[i] = (IF gone THEN 0 ELSE rest)
      BY <1>10
    <3>3. l2[i] - l[i] + (IF gone THEN rest ELSE 0) = - pays
      BY <2>3, <3>2
    <3>4. PICK e \in Int : e = IF gone THEN rest ELSE 0
      BY <1>3
    <3>5. /\ Held(b2, c) = Held(b, c) + e /\ l2[i] - l[i] + e = - pays
          /\ Offered(orders, l2, c) = Offered(orders, l, c) + (l2[i] - l[i])
      BY <2>2, <2>4, <3>1, <3>3, <3>4
    <3> HIDE DEF rest, o
    <3>6. PICK x1 \in Int, x2 \in Int, x3 \in Int, x4 \in Int :
              x1 = Held(b, c) /\ x2 = Offered(orders, l, c) /\ x3 = l2[i] /\ x4 = l[i]
      BY <2>1, <2>3
    <3>7. Held(b2, c) = x1 + e /\ Offered(orders, l2, c) = x2 + (x3 - x4) /\ x3 - x4 + e = - pays
      BY <3>5, <3>6
    <3>8. (x1 + e) + (x2 + (x3 - x4)) = x1 + x2 + (- pays)
      BY <3>4, <3>7
    <3> QED BY <2>4, <3>6, <3>7, <3>8
  <2>5. CASE c # o.sells
    <3>1. c = c2
      BY <1>7, <2>5
    <3>2. Held(b2, c) = Held(b, c) + receives
      BY <1>1, <1>2, <1>9, <3>1, HeldChange
    <3> QED BY <2>1, <2>2, <2>5, <3>2
  <2> QED BY <2>4, <2>5
<1> QED
  <2> HIDE DEF b2, l2, t
  <2> QED BY <1>6, <1>10, <1>11, <1>13, <1>14, <1>15 DEF t

-----------------------------------------------------------------------------
(* Matching the new order.                                                 *)

LEMMA TermsOK ==
    ASSUME NEW sold \in Positive, NEW offered \in Positive, NEW price \in Rates, NEW limit \in Rates,
           AtLeast(price, Inverted(limit)),
           ToQuote(offered, price) > 0, ToQuote(sold, limit) > 0
    PROVE  LET t == Terms(sold, offered, price)
           IN  /\ t.newPays \in Nat /\ t.newPays > 0 /\ t.newPays <= sold
               /\ t.oldPays \in Nat /\ t.oldPays > 0 /\ t.oldPays <= offered
               /\ t.newPays = sold \/ t.oldPays = offered
               /\ t.oldPays >= ToQuote(t.newPays, limit)
               /\ t.newPays >= ToQuote(t.oldPays, price)
<1> DEFINE b == price[1]  q == price[2]  x == limit[1]  y == limit[2]
           m == (sold * y) \div x
           o == (sold * b) \div q
           v == (offered * q) \div b
           w == (o * q) \div b
           z == (v * y) \div x
<1>1. b \in Positive /\ q \in Positive /\ x \in Positive /\ y \in Positive
  BY RatesAre DEF Positive
<1>2. q * y <= b * x
  <2>1. y * q <= b * x
    BY AtLeastIsOrder
  <2>2. y * q = q * y
    BY <1>1 DEF Positive
  <2> QED BY <2>1, <2>2
<1>3. /\ ToQuote(sold, limit) = m /\ ToBase(sold, price) = o /\ ToQuote(offered, price) = v
      /\ ToQuote(o, price) = w /\ ToQuote(v, limit) = z
  BY DEF ToQuote, ToBase
<1> HIDE DEF b, q, x, y
<1>4. m <= o /\ w <= sold /\ (sold <= v => o <= offered) /\ z <= offered
  BY <1>1, <1>2, QuotientsOfTrade
<1>5. m \in Nat /\ o \in Nat /\ v \in Nat
  <2>1. sold * y \in Nat /\ sold * b \in Nat /\ offered * q \in Nat
    BY <1>1 DEF Positive
  <2> QED BY <1>1, <2>1, Quotient DEF Positive
<1>6. w \in Nat /\ z \in Nat
  <2> HIDE DEF m, o, v
  <2>1. o * q \in Nat /\ v * y \in Nat
    BY <1>1, <1>5 DEF Positive
  <2> QED BY <1>1, <2>1, Quotient DEF Positive
<1> HIDE DEF m, o, v, w, z
<1>7. Terms(sold, offered, price) =
         IF sold <= v THEN [newPays |-> sold, oldPays |-> o] ELSE [newPays |-> v, oldPays |-> offered]
  BY <1>3 DEF Terms
<1>8. CASE sold <= v
  BY <1>3, <1>4, <1>5, <1>6, <1>7, <1>8 DEF Positive
<1>9. CASE ~(sold <= v)
  BY <1>3, <1>4, <1>5, <1>6, <1>7, <1>9 DEF Positive
<1> QED BY <1>8, <1>9

\* A book with a new order at its end.
WellFormed(orders) ==
    /\ orders \in Seq(Orders) /\ Len(orders) > 0
    /\ \A i \in 1 .. Len(orders) : ToQuote(orders[i].forSale, orders[i].price) > 0

\* A trade that is fair among the candidates of T, the j-th.
FairTrade(orders, T, trades, j) ==
    LET f == trades[j]
    IN  /\ f.old \in T /\ f.sells = orders[Len(orders)].sells
        /\ f.newPays > 0 /\ f.oldPays > 0
        /\ f.oldPays >= ToQuote(f.newPays, f.limit)
        /\ f.newPays >= ToQuote(f.oldPays, orders[f.old].price)
        /\ \A k \in T : Before(orders, k, f.old) => \E i \in 1 .. j - 1 : trades[i].old = k

\* What holds when the candidates of T had their turn.
Worthy(orders, s) ==
    \A i \in 1 .. Len(orders) : s.left[i] > 0 => ToQuote(s.left[i], orders[i].price) > 0
Untouched(orders, T, s) ==
    \A i \in 1 .. Len(orders) - 1 : i \notin T => s.left[i] = orders[i].forSale
Cleared(orders, T, s) ==
    s.left[Len(orders)] > 0 =>
        \A k \in T : s.left[k] = 0 /\ \E j \in DOMAIN s.fills : s.fills[j].old = k
Balanced(orders, bal, s) ==
    \A c \in Assets :
        Held(s.balance, c) + Offered(orders, s.left, c) =
            Held(bal, c) + Offered(orders, Start(orders, bal).left, c)
Fair(orders, T, s) == \A j \in DOMAIN s.fills : FairTrade(orders, T, s.fills, j)

Sound(orders, bal, T, s) ==
    /\ s \in Trading(Len(orders)) /\ s.ok
    /\ Worthy(orders, s)
    /\ Untouched(orders, T, s)
    /\ Cleared(orders, T, s)
    /\ Balanced(orders, bal, s)
    /\ Fair(orders, T, s)

LEMMA StartSound ==
    ASSUME NEW orders, WellFormed(orders), NEW bal \in Balances
    PROVE  Sound(orders, bal, {}, Start(orders, bal))
<1> DEFINE s == Start(orders, bal)
<1>1. orders \in Seq(Orders)
  BY DEF WellFormed
<1>2. DOMAIN orders = 1 .. Len(orders)
  <2> HIDE DEF Orders
  <2> QED BY <1>1
<1>3. /\ s.left = [i \in 1 .. Len(orders) |-> orders[i].forSale] /\ s.balance = bal
      /\ s.fills = <<>> /\ s.ok = TRUE
  BY <1>2 DEF Start
<1>4. \A i \in 1 .. Len(orders) : orders[i].forSale \in Nat
  BY <1>1, OrderFields DEF Positive
<1>5. s \in Trading(Len(orders))
  <2>1. s.left \in [1 .. Len(orders) -> Nat]
    BY <1>3, <1>4
  <2>2. <<>> \in Seq(Trades)
    OBVIOUS
  <2>3. PICK l \in [1 .. Len(orders) -> Nat] :
            s = [left |-> l, balance |-> bal, fills |-> <<>>, ok |-> TRUE]
    BY <2>1 DEF Start
  <2> HIDE DEF s
  <2> QED BY <2>2, <2>3 DEF Trading
<1>6. Worthy(orders, s)
  BY <1>3 DEF Worthy, WellFormed
<1>7. Untouched(orders, {}, s)
  <2>1. Len(orders) \in Nat
    BY <1>1
  <2> QED BY <1>3, <2>1 DEF Untouched
<1>8. Cleared(orders, {}, s)
  BY DEF Cleared
<1>9. Balanced(orders, bal, s)
  BY <1>3 DEF Balanced
<1>10. Fair(orders, {}, s)
  BY <1>3 DEF Fair
<1> HIDE DEF s
<1> QED BY <1>3, <1>5, <1>6, <1>7, <1>8, <1>9, <1>10 DEF Sound, s

\* The next candidate, whom all the others of T come before.
LEMMA MatchSound ==
    ASSUME NEW orders, WellFormed(orders), NEW bal \in Balances,
           NEW T \in SUBSET Candidates(orders), NEW k \in T,
           \A i \in T \ {k} : Before(orders, i, k),
           NEW s, Sound(orders, bal, T \ {k}, s), s.left[Len(orders)] > 0
    PROVE  Sound(orders, bal, T, Match(orders, s, k))
<1> DEFINE n  == Len(orders)
           t  == Terms(s.left[n], s.left[k], orders[k].price)
           u  == FillOrder(orders, s, n, t.newPays, t.oldPays)
           v  == FillOrder(orders, u, k, t.oldPays, t.newPays)
           f  == [limit |-> orders[n].price, sells |-> orders[n].sells, old |-> k,
                  newPays |-> t.newPays, oldPays |-> t.oldPays]
           r  == Match(orders, s, k)
<1>1. /\ orders \in Seq(Orders) /\ n \in Nat /\ n > 0 /\ n \in 1 .. n
      /\ \A i \in 1 .. n : ToQuote(orders[i].forSale, orders[i].price) > 0
  <2> HIDE DEF Orders
  <2>1. orders \in Seq(Orders) /\ n > 0
    BY DEF WellFormed
  <2>2. n \in Nat
    BY <2>1
  <2> QED BY <2>1, <2>2 DEF WellFormed
<1>2. /\ k \in 1 .. n - 1 /\ k \in 1 .. n /\ k # n
      /\ orders[k].sells # orders[n].sells
      /\ AtLeast(orders[k].price, Inverted(orders[n].price))
  BY <1>1 DEF Candidates
<1>3. /\ s \in Trading(n) /\ s.ok /\ Worthy(orders, s) /\ Untouched(orders, T \ {k}, s)
      /\ Cleared(orders, T \ {k}, s) /\ Balanced(orders, bal, s) /\ Fair(orders, T \ {k}, s)
  BY DEF Sound
<1>4. s.left \in [1 .. n -> Nat] /\ s.fills \in Seq(Trades)
  BY <1>3 DEF Trading
<1>5. s.left[n] \in Positive /\ s.left[k] \in Positive /\ s.left[k] = orders[k].forSale
  <2>1. s.left[n] \in Nat
    BY <1>1, <1>4
  <2>2. s.left[k] = orders[k].forSale
    BY <1>2, <1>3 DEF Untouched
  <2>3. orders[k].forSale \in Positive
    BY <1>1, <1>2, OrderFields
  <2> QED BY <2>1, <2>2, <2>3 DEF Positive
<1>6. orders[k].price \in Rates /\ orders[n].price \in Rates
  BY <1>1, <1>2, OrderFields
<1>7. ToQuote(s.left[k], orders[k].price) > 0 /\ ToQuote(s.left[n], orders[n].price) > 0
  BY <1>1, <1>2, <1>3, <1>5 DEF Worthy
<1>8. /\ t.newPays \in Nat /\ t.newPays > 0 /\ t.newPays <= s.left[n]
      /\ t.oldPays \in Nat /\ t.oldPays > 0 /\ t.oldPays <= s.left[k]
      /\ t.newPays = s.left[n] \/ t.oldPays = s.left[k]
      /\ t.oldPays >= ToQuote(t.newPays, orders[n].price)
      /\ t.newPays >= ToQuote(t.oldPays, orders[k].price)
  BY <1>2, <1>5, <1>6, <1>7, TermsOK
<1> HIDE DEF t, n
<1>9. /\ u \in Trading(n) /\ u.fills = s.fills /\ u.ok = s.ok
      /\ \A j \in 1 .. n : j # n => u.left[j] = s.left[j]
      /\ u.left[n] > 0 => ToQuote(u.left[n], orders[n].price) > 0
      /\ t.newPays = s.left[n] => u.left[n] = 0
      /\ \A c \in Assets :
            Held(u.balance, c) + Offered(orders, u.left, c) =
                Held(s.balance, c) + Offered(orders, s.left, c)
                    + (IF c = orders[n].sells THEN - t.newPays ELSE t.oldPays)
  <2>1. s \in Trading(Len(orders)) /\ n \in 1 .. Len(orders)
    BY <1>1, <1>3 DEF n
  <2> QED BY <1>1, <1>8, <2>1, FillOrderOK DEF n
<1> HIDE DEF u
<1>10. u.left \in [1 .. n -> Nat] /\ u.left[k] = s.left[k]
  BY <1>2, <1>9 DEF Trading
<1>11. /\ v \in Trading(n) /\ v.fills = u.fills /\ v.ok = u.ok
       /\ \A j \in 1 .. n : j # k => v.left[j] = u.left[j]
       /\ v.left[k] > 0 => ToQuote(v.left[k], orders[k].price) > 0
       /\ t.oldPays = u.left[k] => v.left[k] = 0
       /\ \A c \in Assets :
            Held(v.balance, c) + Offered(orders, v.left, c) =
                Held(u.balance, c) + Offered(orders, u.left, c)
                    + (IF c = orders[k].sells THEN - t.oldPays ELSE t.newPays)
  <2>1. u \in Trading(Len(orders)) /\ k \in 1 .. Len(orders) /\ t.oldPays <= u.left[k]
    BY <1>2, <1>8, <1>9, <1>10 DEF n
  <2>2. orders \in Seq(Orders) /\ t.oldPays \in Nat /\ t.newPays \in Nat
    BY <1>1, <1>8
  <2> HIDE DEF v
  <2>3. /\ v \in Trading(Len(orders)) /\ v.fills = u.fills /\ v.ok = u.ok
        /\ \A j \in 1 .. Len(orders) : j # k => v.left[j] = u.left[j]
        /\ v.left[k] > 0 => ToQuote(v.left[k], orders[k].price) > 0
        /\ t.oldPays = u.left[k] => v.left[k] = 0
    BY <2>1, <2>2, FillOrderOK DEF v
  <2>4. ASSUME NEW c \in Assets
        PROVE  Held(v.balance, c) + Offered(orders, v.left, c) =
                   Held(u.balance, c) + Offered(orders, u.left, c)
                       + (IF c = orders[k].sells THEN - t.oldPays ELSE t.newPays)
    BY <2>1, <2>2, FillOrderOK DEF v
  <2> QED BY <2>3, <2>4 DEF n
<1> HIDE DEF v
<1> DEFINE good == /\ v.ok
                   /\ s.left[n] > 0 /\ s.left[k] > 0
                   /\ t.newPays = s.left[n] \/ t.oldPays = s.left[k]
                   /\ v.left[n] = 0 \/ v.left[k] = 0
<1>12. r = [v EXCEPT !.fills = Append(v.fills, f), !.ok = good]
  BY DEF Match, v, u, t, n
<1>13. good = TRUE
  BY <1>1, <1>2, <1>3, <1>5, <1>8, <1>9, <1>10, <1>11 DEF Positive
<1>14. f \in Trades
  BY <1>1, <1>2, <1>8, OrderFields DEF Trades, n
<1> HIDE DEF good
<1>15. /\ r.left = v.left /\ r.balance = v.balance /\ r.fills = Append(s.fills, f) /\ r.ok = TRUE
       /\ r \in Trading(n)
  <2>1. Append(s.fills, f) \in Seq(Trades)
    BY <1>4, <1>14
  <2> HIDE DEF f, r
  <2> QED BY <1>9, <1>11, <1>12, <1>13, <2>1 DEF Trading
<1> HIDE DEF r
<1>16. Worthy(orders, r)
  <2> SUFFICES ASSUME NEW i \in 1 .. n, r.left[i] > 0
               PROVE  ToQuote(r.left[i], orders[i].price) > 0
    BY DEF Worthy, n
  <2>1. CASE i = k
    BY <1>11, <1>15, <2>1
  <2>2. CASE i = n
    BY <1>2, <1>9, <1>11, <1>15, <2>2
  <2>3. CASE i # k /\ i # n
    BY <1>3, <1>9, <1>11, <1>15, <2>3 DEF Worthy, n
  <2> QED BY <2>1, <2>2, <2>3
<1>17. Untouched(orders, T, r)
  <2> SUFFICES ASSUME NEW i \in 1 .. n - 1, i \notin T PROVE r.left[i] = orders[i].forSale
    BY DEF Untouched, n
  <2>1. i # k /\ i # n /\ i \in 1 .. n
    BY <1>1
  <2>2. s.left[i] = orders[i].forSale
    BY <1>3 DEF Untouched, n
  <2> QED BY <1>9, <1>11, <1>15, <2>1, <2>2
<1>18. /\ Len(r.fills) = Len(s.fills) + 1 /\ Len(s.fills) \in Nat
       /\ DOMAIN s.fills = 1 .. Len(s.fills) /\ DOMAIN r.fills = 1 .. Len(s.fills) + 1
       /\ r.fills[Len(s.fills) + 1] = f
       /\ \A j \in DOMAIN s.fills : j \in DOMAIN r.fills /\ r.fills[j] = s.fills[j]
  <2> HIDE DEF f
  <2> QED BY <1>4, <1>14, <1>15
<1>19. Cleared(orders, T, r)
  <2> SUFFICES ASSUME r.left[n] > 0, NEW i \in T
               PROVE  r.left[i] = 0 /\ \E j \in DOMAIN r.fills : r.fills[j].old = i
    BY DEF Cleared, n
  <2>1. CASE i = k
    <3>1. v.left[n] # 0
      BY <1>15
    <3>2. r.left[k] = 0
      BY <1>13, <1>15, <3>1 DEF good
    <3>3. Len(s.fills) + 1 \in DOMAIN r.fills /\ r.fills[Len(s.fills) + 1].old = k
      BY <1>18
    <3> QED BY <2>1, <3>2, <3>3
  <2>2. CASE i # k
    <3>1. s.left[i] = 0 /\ \E j \in DOMAIN s.fills : s.fills[j].old = i
      BY <1>3, <2>2 DEF Cleared, n
    <3>2. i \in 1 .. n /\ i # n
      BY <1>1 DEF Candidates, n
    <3>3. r.left[i] = 0
      BY <1>9, <1>11, <1>15, <2>2, <3>1, <3>2
    <3> QED BY <1>18, <3>1, <3>3
  <2> QED BY <2>1, <2>2
<1>20. Balanced(orders, bal, r)
  <2> SUFFICES ASSUME NEW c \in Assets
               PROVE  Held(v.balance, c) + Offered(orders, v.left, c) =
                          Held(bal, c) + Offered(orders, Start(orders, bal).left, c)
    BY <1>15 DEF Balanced
  <2> DEFINE X == Held(s.balance, c) + Offered(orders, s.left, c)
             Y == Held(u.balance, c) + Offered(orders, u.left, c)
             Z == Held(v.balance, c) + Offered(orders, v.left, c)
  <2>1. X = Held(bal, c) + Offered(orders, Start(orders, bal).left, c)
    BY <1>3 DEF Balanced
  <2>2. Y = X + (IF c = orders[n].sells THEN - t.newPays ELSE t.oldPays)
    BY <1>9
  <2>3. Z = Y + (IF c = orders[k].sells THEN - t.oldPays ELSE t.newPays)
    BY <1>11
  <2>4. X \in Int
    <3>1. s.balance \in Balances /\ s.left \in [1 .. Len(orders) -> Nat]
      BY <1>3, <1>4 DEF Trading, n
    <3>2. Held(s.balance, c) \in Int /\ Offered(orders, s.left, c) \in Int
      BY <1>1, <3>1, HeldType, OfferedType
    <3> QED BY <3>2
  <2>5. c = orders[n].sells <=> c # orders[k].sells
    <3>1. orders[n].sells \in Assets /\ orders[k].sells \in Assets
      BY <1>1, <1>2, OrderFields DEF n
    <3> QED BY <1>2, <3>1 DEF Assets
  <2> HIDE DEF X, Y, Z
  <2>6. Z = X
    BY <1>8, <2>2, <2>3, <2>4, <2>5
  <2> QED BY <2>1, <2>6 DEF Z
<1>21. Fair(orders, T, r)
  <2> SUFFICES ASSUME NEW j \in DOMAIN r.fills PROVE FairTrade(orders, T, r.fills, j)
    BY DEF Fair
  <2>1. CASE j = Len(s.fills) + 1
    <3>1. r.fills[j] = f
      BY <1>18, <2>1
    <3>2. ASSUME NEW i \in T, Before(orders, i, k) PROVE \E m \in 1 .. j - 1 : r.fills[m].old = i
      <4>1. i # k
        <5>1. Rated(orders) /\ k \in DOMAIN orders
          <6>1. DOMAIN orders = 1 .. n
            BY <1>1 DEF n
          <6>2. \A d \in 1 .. n : orders[d].price \in Rates
            BY <1>1, OrderFields DEF n
          <6> QED BY <1>2, <6>1, <6>2 DEF Rated
        <5> QED BY <3>2, <5>1, BeforeIsTotal
      <4>2. PICK m \in DOMAIN s.fills : s.fills[m].old = i
        BY <1>3, <4>1 DEF Cleared
      <4>3. m \in 1 .. j - 1 /\ r.fills[m] = s.fills[m]
        BY <1>18, <2>1
      <4> QED BY <4>2, <4>3
    <3>3. /\ f.old = k /\ f.sells = orders[n].sells /\ f.limit = orders[n].price
          /\ f.newPays = t.newPays /\ f.oldPays = t.oldPays
      OBVIOUS
    <3> HIDE DEF f
    <3> QED BY <1>8, <3>1, <3>2, <3>3 DEF FairTrade, n
  <2>2. CASE j \in DOMAIN s.fills
    <3>1. FairTrade(orders, T \ {k}, s.fills, j) /\ r.fills[j] = s.fills[j]
      BY <1>3, <1>18, <2>2 DEF Fair
    <3>2. \A i \in 1 .. j - 1 : r.fills[i] = s.fills[i]
      <4>1. j \in 1 .. Len(s.fills)
        BY <1>18, <2>2
      <4>2. \A i \in 1 .. j - 1 : i \in 1 .. Len(s.fills)
        BY <1>18, <4>1
      <4> QED BY <1>18, <4>2
    <3>3. s.fills[j].old \in T \ {k}
      BY <3>1 DEF FairTrade
    <3>4. ~Before(orders, k, s.fills[j].old)
      <4>1. DOMAIN orders = 1 .. n /\ \A d \in 1 .. n : orders[d].price \in Rates
        <5>1. DOMAIN orders = 1 .. n
          BY <1>1 DEF n
        <5> QED BY <1>1, <5>1, OrderFields DEF n
      <4>2. Rated(orders) /\ k \in DOMAIN orders /\ s.fills[j].old \in DOMAIN orders
        <5>1. T \in SUBSET (1 .. n)
          BY <1>1 DEF Candidates, n
        <5> QED BY <1>2, <3>3, <4>1, <5>1 DEF Rated
      <4>3. Before(orders, s.fills[j].old, k)
        BY <3>3
      <4> QED BY <4>2, <4>3, BeforeIsTotal
    <3> QED BY <3>1, <3>2, <3>4 DEF FairTrade
  <2> QED BY <1>18, <2>1, <2>2
<1> QED BY <1>15, <1>16, <1>17, <1>19, <1>20, <1>21 DEF Sound, r, n

LEMMA CandidatesAre ==
    ASSUME NEW orders, WellFormed(orders)
    PROVE  /\ IsFiniteSet(Candidates(orders)) /\ Rated(orders)
           /\ DOMAIN orders = 1 .. Len(orders) /\ Len(orders) \in Nat \ {0}
           /\ Candidates(orders) \in SUBSET (1 .. Len(orders) - 1)
           /\ Candidates(orders) \in SUBSET DOMAIN orders
<1>1. orders \in Seq(Orders) /\ Len(orders) \in Nat /\ Len(orders) > 0
  <2> HIDE DEF Orders
  <2> QED BY DEF WellFormed
<1>2. DOMAIN orders = 1 .. Len(orders)
  BY <1>1
<1>3. Candidates(orders) \in SUBSET (1 .. Len(orders) - 1)
  BY DEF Candidates
<1>4. Candidates(orders) \in SUBSET (1 .. Len(orders))
  BY <1>1, <1>3
<1>5. IsFiniteSet(Candidates(orders))
  <2>1. IsFiniteSet(1 .. Len(orders))
    BY <1>1, FS_Interval
  <2> QED BY <1>4, <2>1, FS_Subset
<1>6. Rated(orders)
  BY <1>1, <1>2, OrderFields DEF Rated
<1> QED BY <1>1, <1>2, <1>3, <1>4, <1>5, <1>6

LEMMA LatestCandidate ==
    ASSUME NEW orders, WellFormed(orders), NEW T \in SUBSET Candidates(orders), T # {}
    PROVE  /\ Latest(orders, T) \in T
           /\ \A i \in T \ {Latest(orders, T)} : Before(orders, i, Latest(orders, T))
<1>1. IsFiniteSet(T) /\ T \in SUBSET DOMAIN orders /\ Rated(orders)
  BY CandidatesAre, FS_Subset
<1> QED BY <1>1, LatestIsLast

\* Once the new order is gone the rest of the candidates is left alone.
LEMMA MatchNextSound ==
    ASSUME NEW orders, WellFormed(orders), NEW bal \in Balances,
           NEW T \in SUBSET Candidates(orders), T # {},
           NEW s, Sound(orders, bal, T \ {Latest(orders, T)}, s)
    PROVE  Sound(orders, bal, T, MatchNext(orders, s, Latest(orders, T)))
<1> DEFINE k == Latest(orders, T)
<1>1. k \in T /\ \A i \in T \ {k} : Before(orders, i, k)
  BY LatestCandidate
<1> HIDE DEF k
<1>2. Sound(orders, bal, T \ {k}, s)
  BY DEF k
<1>3. s.left[Len(orders)] \in Nat
  BY <1>2, CandidatesAre DEF Sound, Trading
<1>4. CASE s.left[Len(orders)] > 0
  <2>1. MatchNext(orders, s, k) = Match(orders, s, k)
    BY <1>3, <1>4 DEF MatchNext
  <2>2. Sound(orders, bal, T, Match(orders, s, k))
    BY <1>1, <1>2, <1>4, MatchSound
  <2> QED BY <2>1, <2>2 DEF k
<1>5. CASE s.left[Len(orders)] = 0
  <2>1. MatchNext(orders, s, k) = s
    BY <1>5 DEF MatchNext
  <2>2. Untouched(orders, T, s)
    BY <1>2 DEF Sound, Untouched
  <2>3. Cleared(orders, T, s)
    BY <1>5 DEF Cleared
  <2>4. Fair(orders, T, s)
    <3> SUFFICES ASSUME NEW j \in DOMAIN s.fills PROVE FairTrade(orders, T, s.fills, j)
      BY DEF Fair
    <3>1. FairTrade(orders, T \ {k}, s.fills, j)
      BY <1>2 DEF Sound, Fair
    <3>2. s.fills[j].old \in T \ {k}
      BY <3>1 DEF FairTrade
    <3>3. ~Before(orders, k, s.fills[j].old)
      <4>1. Rated(orders) /\ k \in DOMAIN orders /\ s.fills[j].old \in DOMAIN orders
        BY <1>1, <3>2, CandidatesAre
      <4>2. Before(orders, s.fills[j].old, k)
        BY <1>1, <3>2
      <4> QED BY <4>1, <4>2, BeforeIsTotal
    <3> QED BY <3>1, <3>3 DEF FairTrade
  <2>5. Sound(orders, bal, T, s)
    BY <1>2, <2>2, <2>3, <2>4 DEF Sound
  <2> QED BY <2>1, <2>5 DEF k
<1> QED BY <1>3, <1>4, <1>5

\* The states of the trade by the candidates that had their turn.
IsTrade(h, orders, bal) ==
    h = [T \in SUBSET Candidates(orders) |->
           IF T = {} THEN Start(orders, bal)
           ELSE MatchNext(orders, h[T \ {Latest(orders, T)}], Latest(orders, T))]

LEMMA TradeInduction ==
    ASSUME NEW orders, WellFormed(orders), NEW bal \in Balances, NEW h,
           h[{}] = Start(orders, bal),
           \A T \in SUBSET Candidates(orders) :
              T # {} /\ Sound(orders, bal, T \ {Latest(orders, T)}, h[T \ {Latest(orders, T)}]) =>
                 h[T] = MatchNext(orders, h[T \ {Latest(orders, T)}], Latest(orders, T))
    PROVE  \A T \in SUBSET Candidates(orders) : Sound(orders, bal, T, h[T])
<1> DEFINE C == Candidates(orders)
           G == {T \in SUBSET C : Sound(orders, bal, T, h[T])}
<1>1. {} \in G
  BY StartSound
<1>2. ASSUME NEW T \in SUBSET C, T # {}, \A x \in T : T \ {x} \in G
      PROVE  Sound(orders, bal, T, h[T])
  <2> DEFINE k == Latest(orders, T)
  <2>1. k \in T
    BY <1>2, LatestCandidate
  <2>2. Sound(orders, bal, T \ {k}, h[T \ {k}])
    <3> HIDE DEF k
    <3> QED BY <1>2, <2>1
  <2>3. h[T] = MatchNext(orders, h[T \ {k}], k)
    BY <1>2, <2>2
  <2>4. Sound(orders, bal, T, MatchNext(orders, h[T \ {k}], k))
    BY <1>2, <2>2, MatchNextSound
  <2> QED BY <2>3, <2>4
<1>3. \A T \in SUBSET C : T \in G
  <2>1. \A T \in SUBSET C : T # {} /\ (\A x \in T : T \ {x} \in G) => T \in G
    BY <1>2
  <2>2. IsFiniteSet(C)
    BY CandidatesAre
  <2> HIDE DEF G, C
  <2> QED BY <1>1, <2>1, <2>2, SubsetInduction, Zenon
<1> QED BY <1>3

LEMMA TradeExists ==
    ASSUME NEW orders, WellFormed(orders), NEW bal \in Balances
    PROVE  \E h : IsTrade(h, orders, bal)
<1> DEFINE C == Candidates(orders)
           St == Trading(Len(orders))
           c == [T \in SUBSET C |-> Latest(orders, T)]
           op == [p \in C \X St |-> MatchNext(orders, p[2], p[1])]
<1>1. IsFiniteSet(C)
  BY CandidatesAre
<1>2. \A T \in SUBSET C : T # {} => c[T] = Latest(orders, T) /\ Latest(orders, T) \in T
  BY LatestCandidate
<1>3. \A k \in C, s \in St : op[<<k, s>>] = MatchNext(orders, s, k)
  OBVIOUS
<1> HIDE DEF c, op
<1>4. PICK h : h = [T \in SUBSET C |-> h[T]] /\ FoldEq(h, C, c, Start(orders, bal), op)
  <2>1. \A T \in SUBSET C : T # {} => c[T] \in T
    BY <1>2
  <2> HIDE DEF C
  <2> QED BY <1>1, <2>1, FoldExists, Zenon
<1>5. h[{}] = Start(orders, bal)
  BY <1>4 DEF FoldEq
<1>6. ASSUME NEW T \in SUBSET C, T # {}, h[T \ {Latest(orders, T)}] \in St
      PROVE  h[T] = MatchNext(orders, h[T \ {Latest(orders, T)}], Latest(orders, T))
  <2> DEFINE k == Latest(orders, T)
  <2>1. k \in T /\ c[T] = k /\ k \in C
    BY <1>2, <1>6
  <2> HIDE DEF k
  <2>2. h[T] = op[<<k, h[T \ {k}]>>]
    BY <1>4, <1>6, <2>1 DEF FoldEq
  <2>3. h[T \ {k}] \in St
    BY <1>6 DEF k
  <2>4. h[T] = MatchNext(orders, h[T \ {k}], k)
    BY <1>3, <2>1, <2>2, <2>3
  <2> QED BY <2>4 DEF k
<1>7. \A T \in SUBSET C : Sound(orders, bal, T, h[T])
  <2>1. \A T \in SUBSET C :
           T # {} /\ Sound(orders, bal, T \ {Latest(orders, T)}, h[T \ {Latest(orders, T)}]) =>
              h[T] = MatchNext(orders, h[T \ {Latest(orders, T)}], Latest(orders, T))
    BY <1>6 DEF Sound
  <2> QED BY <1>5, <2>1, TradeInduction
<1>8. \A T \in SUBSET C :
         h[T] = IF T = {} THEN Start(orders, bal)
                ELSE MatchNext(orders, h[T \ {Latest(orders, T)}], Latest(orders, T))
  <2> SUFFICES ASSUME NEW T \in SUBSET C, T # {}
               PROVE  h[T] = MatchNext(orders, h[T \ {Latest(orders, T)}], Latest(orders, T))
    BY <1>5
  <2>1. T \ {Latest(orders, T)} \in SUBSET C
    OBVIOUS
  <2>2. h[T \ {Latest(orders, T)}] \in St
    BY <1>7, <2>1 DEF Sound
  <2> QED BY <1>6, <2>2
<1>9. IsTrade(h, orders, bal)
  BY <1>4, <1>8, Zenon DEF IsTrade, C
<1> QED BY <1>9

LEMMA ApplyOrderSound ==
    ASSUME NEW orders, WellFormed(orders), NEW bal \in Balances
    PROVE  Sound(orders, bal, Candidates(orders), ApplyOrder(orders, bal))
<1> DEFINE h == CHOOSE h : IsTrade(h, orders, bal)
<1>1. ApplyOrder(orders, bal) = h[Candidates(orders)]
  BY DEF ApplyOrder, MapThenFoldSet, IsTrade, Latest
<1>2. IsTrade(h, orders, bal)
  BY TradeExists
<1> HIDE DEF h
<1>3. \A T \in SUBSET Candidates(orders) :
         h[T] = IF T = {} THEN Start(orders, bal)
                ELSE MatchNext(orders, h[T \ {Latest(orders, T)}], Latest(orders, T))
  BY <1>2, Zenon DEF IsTrade
<1>4. h[{}] = Start(orders, bal)
  BY <1>3
<1>5. \A T \in SUBSET Candidates(orders) : Sound(orders, bal, T, h[T])
  BY <1>3, <1>4, TradeInduction
<1> QED BY <1>1, <1>5

-----------------------------------------------------------------------------
(* What is left in the book.                                               *)

LEMMA CountingUp ==
    ASSUME NEW n \in Nat, NEW G, 0 \in G, \A i \in 1 .. n : i - 1 \in G => i \in G
    PROVE  \A i \in 0 .. n : i \in G
<1> DEFINE Bad == {i \in 0 .. n : i \notin G}
<1> SUFFICES ASSUME Bad # {} PROVE FALSE
  OBVIOUS
<1>1. Bad \in SUBSET Nat
  OBVIOUS
<1>2. PICK m \in Bad : \A k \in Bad : m <= k
  BY <1>1, LeastExists
<1>3. m \in 1 .. n /\ m - 1 \in 0 .. n /\ ~(m <= m - 1)
  OBVIOUS
<1>4. m - 1 \in G
  BY <1>2, <1>3
<1> QED BY <1>3, <1>4

IsChain(h, n, base, op) == h = [i \in 0 .. n |-> IF i = 0 THEN base ELSE op[<<i, h[i - 1]>>]]

LEMMA ChainExists ==
    ASSUME NEW n \in Nat, NEW base, NEW op
    PROVE  \E h : IsChain(h, n, base, op)
<1> USE DEF IsChain
<1> DEFINE Is(m, h) == IsChain(h, m, base, op)
           G == {m \in 0 .. n : \E h : Is(m, h)}
<1>1. 0 \in G
  <2> DEFINE h == [i \in 0 .. 0 |-> base]
  <2>1. \A i \in 0 .. 0 : i = 0
    OBVIOUS
  <2>2. Is(0, h)
    BY <2>1, Zenon
  <2>3. 0 \in 0 .. n
    OBVIOUS
  <2> HIDE DEF h, Is
  <2> QED BY <2>2, <2>3
<1>2. ASSUME NEW m \in 1 .. n, m - 1 \in G PROVE m \in G
  <2>1. PICK g : Is(m - 1, g)
    BY <1>2
  <2> DEFINE h == [i \in 0 .. m |-> IF i = 0 THEN base ELSE op[<<i, g[i - 1]>>]]
  <2>2. \A i \in 0 .. m - 1 : g[i] = IF i = 0 THEN base ELSE op[<<i, g[i - 1]>>]
    BY <2>1, Zenon
  <2>3. \A i \in 0 .. m : h[i] = IF i = 0 THEN base ELSE op[<<i, g[i - 1]>>]
    OBVIOUS
  <2>4. h = [i \in 0 .. m |-> h[i]]
    OBVIOUS
  <2> HIDE DEF h
  <2>5. \A i \in 0 .. m : i # 0 => h[i - 1] = g[i - 1]
    <3> SUFFICES ASSUME NEW i \in 0 .. m, i # 0 PROVE h[i - 1] = g[i - 1]
      OBVIOUS
    <3>1. i - 1 \in 0 .. m - 1 /\ i - 1 \in 0 .. m
      OBVIOUS
    <3> QED BY <2>2, <2>3, <3>1
  <2>6. \A i \in 0 .. m : h[i] = IF i = 0 THEN base ELSE op[<<i, h[i - 1]>>]
    BY <2>3, <2>5, Zenon
  <2>7. Is(m, h)
    BY <2>4, <2>6, Zenon
  <2>8. m \in 0 .. n
    OBVIOUS
  <2> HIDE DEF Is
  <2> QED BY <2>7, <2>8
<1>3. n \in G
  <2>1. \A m \in 1 .. n : m - 1 \in G => m \in G
    BY <1>2
  <2> HIDE DEF G
  <2>2. \A m \in 0 .. n : m \in G
    BY <1>1, <2>1, CountingUp
  <2> QED BY <2>2
<1> QED BY <1>3

\* What a book offers of an asset.
Amount(b, c) == [i \in 1 .. Len(b) |-> IF b[i].sells = c THEN b[i].forSale ELSE 0]
Offers(b, c) == SumFunctionOnSet(Amount(b, c), 1 .. Len(b))

LEMMA OffersType ==
    ASSUME NEW b \in Seq(Orders), NEW c
    PROVE  /\ Offers(b, c) \in Int /\ Ints(Amount(b, c), 1 .. Len(b))
           /\ IsFiniteSet(1 .. Len(b)) /\ Len(b) \in Nat
<1>1. Len(b) \in Nat
  OBVIOUS
<1>2. \A i \in 1 .. Len(b) : b[i].forSale \in Int
  BY OrderFields DEF Positive
<1>3. Ints(Amount(b, c), 1 .. Len(b))
  BY <1>2 DEF Ints, Amount
<1>4. IsFiniteSet(1 .. Len(b))
  BY <1>1, FS_Interval
<1> QED BY <1>1, <1>3, <1>4, SumType DEF Offers

LEMMA OffersAppend ==
    ASSUME NEW b \in Seq(Orders), NEW o \in Orders, NEW c
    PROVE  Offers(Append(b, o), c) = Offers(b, c) + (IF o.sells = c THEN o.forSale ELSE 0)
<1> DEFINE d == Append(b, o)
           m == Len(b)
           f == Amount(b, c)
           g == Amount(d, c)
<1>1. /\ d \in Seq(Orders) /\ Len(d) = m + 1 /\ m \in Nat /\ d[m + 1] = o
      /\ \A i \in 1 .. m : d[i] = b[i]
  <2> HIDE DEF Orders
  <2> QED OBVIOUS
<1> HIDE DEF d, m
<1>2. Ints(g, 1 .. m + 1) /\ IsFiniteSet(1 .. m + 1) /\ Ints(f, 1 .. m) /\ IsFiniteSet(1 .. m)
  BY <1>1, OffersType DEF m
<1>3. \A i \in 1 .. m : g[i] = f[i]
  BY <1>1 DEF Amount, m
<1>4. g[m + 1] = IF o.sells = c THEN o.forSale ELSE 0
  BY <1>1 DEF Amount
<1>5. (1 .. m + 1) \ {m + 1} = 1 .. m /\ m + 1 \in 1 .. m + 1
  BY <1>1
<1> HIDE DEF f, g
<1>6. SumFunctionOnSet(g, 1 .. m + 1) = g[m + 1] + SumFunctionOnSet(g, (1 .. m + 1) \ {m + 1})
  BY <1>2, <1>5, SumPick
<1>7. SumFunctionOnSet(g, 1 .. m) = SumFunctionOnSet(f, 1 .. m)
  BY <1>2, <1>3, SumSame
<1>8. SumFunctionOnSet(f, 1 .. m) \in Int /\ g[m + 1] \in Int
  BY <1>2, <1>5, SumType DEF Ints
<1>9. Offers(Append(b, o), c) = SumFunctionOnSet(g, 1 .. m + 1) /\ Offers(b, c) = SumFunctionOnSet(f, 1 .. m)
  BY <1>1 DEF Offers, f, g, m, d
<1>10. SumFunctionOnSet(g, (1 .. m + 1) \ {m + 1}) = SumFunctionOnSet(f, 1 .. m)
  BY <1>5, <1>7
<1>11. PICK p \in Int, q \in Int : p = SumFunctionOnSet(f, 1 .. m) /\ q = g[m + 1]
  BY <1>8
<1>12. Offers(b, c) = p /\ Offers(Append(b, o), c) = q + p
  BY <1>6, <1>9, <1>10, <1>11
<1> QED BY <1>4, <1>11, <1>12

LEMMA RemoveAtIs ==
    ASSUME NEW R, NEW b \in Seq(R), NEW i \in 1 .. Len(b)
    PROVE  /\ RemoveAt(b, i) \in Seq(R) /\ Len(RemoveAt(b, i)) = Len(b) - 1
           /\ \A j \in 1 .. Len(b) - 1 : RemoveAt(b, i)[j] = b[IF j < i THEN j ELSE j + 1]
<1> DEFINE s == SubSeq(b, 1, i - 1)
           t == SubSeq(b, i + 1, Len(b))
<1>1. s \in Seq(R) /\ Len(s) = i - 1 /\ \A j \in 1 .. i - 1 : s[j] = b[j]
  OBVIOUS
<1>2. t \in Seq(R) /\ Len(t) = Len(b) - i /\ \A j \in 1 .. Len(b) - i : t[j] = b[i + j]
  <2>1. \A j \in i + 1 .. Len(b) : b[j] \in R
    OBVIOUS
  <2>2. t \in Seq(R) /\ Len(t) = Len(b) - i
    BY SubSeqProperties
  <2>3. \A j \in 1 .. Len(b) - i : t[j] = b[i + 1 + j - 1]
    BY SubSeqProperties
  <2>4. \A j \in 1 .. Len(b) - i : i + 1 + j - 1 = i + j
    OBVIOUS
  <2> QED BY <2>2, <2>3, <2>4
<1> HIDE DEF s, t
<1>3. s \o t \in Seq(R) /\ Len(s \o t) = Len(s) + Len(t)
  BY <1>1, <1>2, ConcatProperties
<1>4. ASSUME NEW j \in 1 .. Len(b) - 1 PROVE (s \o t)[j] = b[IF j < i THEN j ELSE j + 1]
  <2>1. CASE j < i
    BY <1>1, <1>2, <2>1
  <2>2. CASE ~(j < i)
    <3>1. (s \o t)[j] = t[j - (i - 1)] /\ j - (i - 1) \in 1 .. Len(b) - i
      BY <1>1, <1>2, <2>2
    <3>2. t[j - (i - 1)] = b[i + (j - (i - 1))] /\ i + (j - (i - 1)) = j + 1
      BY <1>2, <3>1
    <3> QED BY <2>2, <3>1, <3>2
  <2> QED BY <2>1, <2>2
<1>5. RemoveAt(b, i) = s \o t
  BY DEF RemoveAt, s, t
<1>6. i - 1 + (Len(b) - i) = Len(b) - 1
  OBVIOUS
<1> QED BY <1>1, <1>2, <1>3, <1>4, <1>5, <1>6

LEMMA OffersRemove ==
    ASSUME NEW b \in Seq(Orders), NEW i \in 1 .. Len(b), NEW c
    PROVE  Offers(b, c) =
               Offers(RemoveAt(b, i), c) + (IF b[i].sells = c THEN b[i].forSale ELSE 0)
<1> DEFINE d == RemoveAt(b, i)
           m == Len(b)
           f == Amount(d, c)
           g == Amount(b, c)
           r == [j \in 1 .. m - 1 |-> IF j < i THEN j ELSE j + 1]
<1>1. /\ d \in Seq(Orders) /\ Len(d) = m - 1 /\ m \in Nat
      /\ \A j \in 1 .. m - 1 : d[j] = b[IF j < i THEN j ELSE j + 1]
  <2>1. Len(b) \in Nat
    OBVIOUS
  <2>2. /\ RemoveAt(b, i) \in Seq(Orders) /\ Len(RemoveAt(b, i)) = Len(b) - 1
        /\ \A j \in 1 .. Len(b) - 1 : RemoveAt(b, i)[j] = b[IF j < i THEN j ELSE j + 1]
    BY RemoveAtIs
  <2> QED BY <2>1, <2>2
<1>2. i \in 1 .. m
  OBVIOUS
<1> HIDE DEF d, m
<1>3. Ints(f, 1 .. m - 1) /\ IsFiniteSet(1 .. m - 1) /\ Ints(g, 1 .. m) /\ IsFiniteSet(1 .. m)
  BY <1>1, OffersType DEF m
<1>4. /\ r \in [1 .. m - 1 -> 1 .. m]
      /\ \A j, k \in 1 .. m - 1 : r[j] = r[k] => j = k
      /\ \A j \in 1 .. m - 1 : r[j] # i
  BY <1>1, <1>2
<1>5. \A j \in 1 .. m - 1 : g[r[j]] = f[j]
  <2> SUFFICES ASSUME NEW j \in 1 .. m - 1 PROVE g[r[j]] = f[j]
    OBVIOUS
  <2>1. r[j] \in 1 .. m /\ d[j] = b[r[j]]
    BY <1>1, <1>4
  <2> HIDE DEF r
  <2> QED BY <1>1, <2>1 DEF Amount, m
<1>6. {r[j] : j \in 1 .. m - 1} = (1 .. m) \ {i}
  <2>1. ASSUME NEW x \in (1 .. m) \ {i} PROVE \E j \in 1 .. m - 1 : r[j] = x
    <3>1. CASE x < i
      <4>1. x \in 1 .. m - 1 /\ r[x] = x
        BY <1>1, <1>2, <3>1
      <4> QED BY <4>1
    <3>2. CASE ~(x < i)
      <4>1. x - 1 \in 1 .. m - 1 /\ r[x - 1] = x
        BY <1>1, <1>2, <3>2
      <4> QED BY <4>1
    <3> QED BY <3>1, <3>2
  <2> HIDE DEF r
  <2> QED BY <1>4, <2>1
<1> HIDE DEF f, g, r
<1> DEFINE S == 1 .. m - 1
           M == 1 .. m
<1>7. SumFunctionOnSet(g, M \ {i}) = SumFunctionOnSet(f, S)
  <2>1. /\ Ints(f, S) /\ IsFiniteSet(S) /\ IsFiniteSet(M) /\ r \in [S -> M]
        /\ \A j, k \in S : r[j] = r[k] => j = k
        /\ \A j \in S : g[r[j]] = f[j]
    BY <1>3, <1>4, <1>5
  <2>2. {r[j] : j \in S} = M \ {i}
    BY <1>6
  <2> HIDE DEF S, M
  <2>3. SumFunctionOnSet(g, {r[j] : j \in S}) = SumFunctionOnSet(f, S)
    BY <2>1, SumRenamed
  <2> QED BY <2>2, <2>3
<1>8. SumFunctionOnSet(g, M) = g[i] + SumFunctionOnSet(g, M \ {i})
  <2>1. i \in M /\ Ints(g, M) /\ IsFiniteSet(M)
    BY <1>2, <1>3
  <2> HIDE DEF M
  <2> QED BY <2>1, SumPick
<1>9. g[i] = (IF b[i].sells = c THEN b[i].forSale ELSE 0) /\ g[i] \in Int
  BY <1>2, <1>3 DEF Amount, g, Ints, m
<1>10. SumFunctionOnSet(f, 1 .. m - 1) \in Int
  BY <1>3, SumType
<1>11. Offers(b, c) = SumFunctionOnSet(g, 1 .. m) /\ Offers(d, c) = SumFunctionOnSet(f, 1 .. m - 1)
  BY <1>1 DEF Offers, f, g, m
<1> QED BY <1>7, <1>8, <1>9, <1>10, <1>11 DEF d

LEMMA SumFirst ==
    ASSUME NEW n \in Nat, NEW i \in 1 .. n, NEW g, Ints(g, 1 .. n)
    PROVE  /\ SumFunctionOnSet(g, 1 .. i) = g[i] + SumFunctionOnSet(g, 1 .. i - 1)
           /\ SumFunctionOnSet(g, 1 .. i - 1) \in Int
<1> DEFINE S == 1 .. i
           T == 1 .. i - 1
<1>1. S \in SUBSET (1 .. n) /\ T \in SUBSET (1 .. n) /\ i \in S /\ S \ {i} = T
  OBVIOUS
<1>2. IsFiniteSet(S) /\ IsFiniteSet(T)
  BY FS_Interval
<1>3. Ints(g, S) /\ Ints(g, T)
  BY <1>1 DEF Ints
<1> HIDE DEF S, T
<1>4. SumFunctionOnSet(g, S) = g[i] + SumFunctionOnSet(g, S \ {i})
  BY <1>1, <1>2, <1>3, SumPick
<1>5. SumFunctionOnSet(g, T) \in Int
  BY <1>2, <1>3, SumType
<1> QED BY <1>1, <1>4, <1>5 DEF S, T

\* An order of which only a part is left.
Sold(orders, left, i) == [orders[i] EXCEPT !.forSale = left[i]]

Keep(orders, left, b, i) == IF left[i] > 0 THEN Append(b, Sold(orders, left, i)) ELSE b

\* What may have been kept of the first i orders.
Kept(orders, left, i) ==
    {b \in Seq(Orders) :
       /\ \A j \in 1 .. Len(b) :
            \E k \in 1 .. Len(orders) : left[k] > 0 /\ b[j] = Sold(orders, left, k)
       /\ \A c \in Assets : Offers(b, c) = SumFunctionOnSet(Part(orders, left, c), 1 .. i)}

LEMMA KeepOK ==
    ASSUME NEW orders \in Seq(Orders), NEW left \in [1 .. Len(orders) -> Nat],
           NEW i \in 1 .. Len(orders), NEW b \in Kept(orders, left, i - 1)
    PROVE  Keep(orders, left, b, i) \in Kept(orders, left, i)
<1> DEFINE n == Len(orders)
           o == Sold(orders, left, i)
           d == Append(b, o)
<1>1. /\ b \in Seq(Orders)
      /\ \A j \in 1 .. Len(b) : \E k \in 1 .. n : left[k] > 0 /\ b[j] = Sold(orders, left, k)
      /\ \A c \in Assets : Offers(b, c) = SumFunctionOnSet(Part(orders, left, c), 1 .. i - 1)
  BY DEF Kept
<1>2. left[i] \in Nat /\ orders[i] \in Orders /\ n \in Nat
  BY OrderFields
<1>3. ASSUME NEW c \in Assets
      PROVE  LET g == Part(orders, left, c)
             IN  /\ SumFunctionOnSet(g, 1 .. i) = g[i] + SumFunctionOnSet(g, 1 .. i - 1)
                 /\ SumFunctionOnSet(g, 1 .. i - 1) \in Int
                 /\ g[i] = IF orders[i].sells = c THEN left[i] ELSE 0
  <2> DEFINE g == Part(orders, left, c)
  <2>1. g[i] = IF orders[i].sells = c THEN left[i] ELSE 0
    BY DEF Part
  <2>2. Ints(g, 1 .. n) /\ IsFiniteSet(1 .. n)
    BY OfferedType
  <2> HIDE DEF g
  <2>3. /\ SumFunctionOnSet(g, 1 .. i) = g[i] + SumFunctionOnSet(g, 1 .. i - 1)
        /\ SumFunctionOnSet(g, 1 .. i - 1) \in Int
    BY <1>2, <2>2, SumFirst
  <2> QED BY <2>1, <2>3 DEF g
<1>4. CASE left[i] > 0
  <2>1. o \in Orders /\ o.sells = orders[i].sells /\ o.forSale = left[i]
    <3>1. left[i] \in Positive
      BY <1>2, <1>4 DEF Positive
    <3> QED BY <1>2, <3>1 DEF Sold, Orders
  <2>2. /\ d \in Seq(Orders) /\ Len(d) = Len(b) + 1 /\ d[Len(b) + 1] = o /\ Len(b) \in Nat
        /\ \A j \in 1 .. Len(b) : d[j] = b[j]
    <3> HIDE DEF o
    <3> QED BY <1>1, <2>1, AppendProperties
  <2>3. ASSUME NEW j \in 1 .. Len(d)
        PROVE  \E k \in 1 .. n : left[k] > 0 /\ d[j] = Sold(orders, left, k)
    <3> HIDE DEF d
    <3>1. CASE j = Len(b) + 1
      BY <1>4, <2>2, <3>1
    <3>2. CASE j \in 1 .. Len(b)
      BY <1>1, <2>2, <3>2
    <3> QED BY <2>2, <3>1, <3>2
  <2>4. ASSUME NEW c \in Assets PROVE Offers(d, c) = SumFunctionOnSet(Part(orders, left, c), 1 .. i)
    <3>1. Offers(d, c) = Offers(b, c) + (IF o.sells = c THEN o.forSale ELSE 0)
      <4> HIDE DEF o
      <4> QED BY <1>1, <2>1, OffersAppend
    <3> HIDE DEF d, o
    <3>2. PICK p \in Int : p = SumFunctionOnSet(Part(orders, left, c), 1 .. i - 1)
      BY <1>3
    <3>3. /\ Offers(b, c) = p
          /\ SumFunctionOnSet(Part(orders, left, c), 1 .. i) = (IF orders[i].sells = c THEN left[i] ELSE 0) + p
      BY <1>1, <1>3, <3>2
    <3> QED BY <1>2, <2>1, <3>1, <3>3
  <2>5. Keep(orders, left, b, i) = d
    BY <1>4 DEF Keep
  <2> HIDE DEF d
  <2> QED BY <2>2, <2>3, <2>4, <2>5 DEF Kept
<1>5. CASE ~(left[i] > 0)
  <2>1. left[i] = 0
    BY <1>2, <1>5
  <2>2. Keep(orders, left, b, i) = b
    BY <1>5 DEF Keep
  <2>3. ASSUME NEW c \in Assets PROVE Offers(b, c) = SumFunctionOnSet(Part(orders, left, c), 1 .. i)
    <3>1. PICK p \in Int : p = SumFunctionOnSet(Part(orders, left, c), 1 .. i - 1)
      BY <1>3
    <3>2. /\ Offers(b, c) = p
          /\ SumFunctionOnSet(Part(orders, left, c), 1 .. i) = (IF orders[i].sells = c THEN left[i] ELSE 0) + p
      BY <1>1, <1>3, <3>1
    <3> QED BY <2>1, <3>2
  <2> QED BY <1>1, <2>2, <2>3 DEF Kept
<1> QED BY <1>4, <1>5

IsRest(h, orders, left) ==
    h = [i \in 0 .. Len(orders) |->
           IF i = 0 THEN <<>>
           ELSE IF left[i] > 0 THEN Append(h[i - 1], [orders[i] EXCEPT !.forSale = left[i]])
           ELSE h[i - 1]]

LEMMA KeptInduction ==
    ASSUME NEW orders \in Seq(Orders), NEW left \in [1 .. Len(orders) -> Nat], NEW h,
           h[0] = <<>>,
           \A i \in 1 .. Len(orders) :
              h[i - 1] \in Kept(orders, left, i - 1) => h[i] = Keep(orders, left, h[i - 1], i)
    PROVE  \A i \in 0 .. Len(orders) : h[i] \in Kept(orders, left, i)
<1> DEFINE G == {i \in 0 .. Len(orders) : h[i] \in Kept(orders, left, i)}
<1>1. Len(orders) \in Nat
  OBVIOUS
<1>2. 0 \in G
  <2>1. <<>> \in Seq(Orders) /\ Len(<<>>) = 0 /\ 1 .. 0 = {}
    OBVIOUS
  <2>2. ASSUME NEW c \in Assets
        PROVE  Offers(<<>>, c) = SumFunctionOnSet(Part(orders, left, c), 1 .. 0)
    <3>1. SumFunctionOnSet(Part(orders, left, c), {}) = 0
      BY OfferedType, SumsOf
    <3>2. SumFunctionOnSet(Amount(<<>>, c), {}) = 0
      <4>1. Ints(Amount(<<>>, c), {}) /\ IsFiniteSet({})
        BY FS_EmptySet DEF Ints
      <4> QED BY <4>1, SumsOf
    <3> QED BY <2>1, <3>1, <3>2 DEF Offers
  <2>3. <<>> \in Kept(orders, left, 0)
    BY <2>1, <2>2 DEF Kept
  <2> QED BY <1>1, <2>3
<1>3. ASSUME NEW i \in 1 .. Len(orders), i - 1 \in G PROVE i \in G
  <2>1. h[i - 1] \in Kept(orders, left, i - 1)
    BY <1>3
  <2>2. h[i] = Keep(orders, left, h[i - 1], i)
    BY <2>1
  <2>3. h[i] \in Kept(orders, left, i)
    BY <2>1, <2>2, KeepOK
  <2>4. i \in 0 .. Len(orders)
    BY <1>1
  <2> QED BY <2>3, <2>4
<1>4. \A i \in 0 .. Len(orders) : i \in G
  <2>1. \A i \in 1 .. Len(orders) : i - 1 \in G => i \in G
    BY <1>3
  <2> HIDE DEF G
  <2> QED BY <1>1, <1>2, <2>1, CountingUp
<1> QED BY <1>4

LEMMA RestOK ==
    ASSUME NEW orders \in Seq(Orders), NEW left \in [1 .. Len(orders) -> Nat]
    PROVE  Rest(orders, left) \in Kept(orders, left, Len(orders))
<1> DEFINE n == Len(orders)
           op == [p \in (1 .. n) \X Seq(Orders) |-> Keep(orders, left, p[2], p[1])]
<1>1. n \in Nat
  OBVIOUS
<1>2. \A i \in 1 .. n, b \in Seq(Orders) : op[<<i, b>>] = Keep(orders, left, b, i)
  <2> HIDE DEF n
  <2> QED OBVIOUS
<1> HIDE DEF n, op
<1>3. PICK h : IsChain(h, n, <<>>, op)
  BY <1>1, ChainExists
<1>4. \A i \in 0 .. n : h[i] = IF i = 0 THEN <<>> ELSE op[<<i, h[i - 1]>>]
  BY <1>3, Zenon DEF IsChain
<1>5. h = [i \in 0 .. n |-> h[i]]
  BY <1>3, <1>4, Zenon DEF IsChain
<1>6. ASSUME NEW i \in 1 .. n, h[i - 1] \in Kept(orders, left, i - 1)
      PROVE  h[i] = Keep(orders, left, h[i - 1], i)
  <2>1. i \in 0 .. n /\ i # 0 /\ h[i - 1] \in Seq(Orders)
    BY <1>1, <1>6 DEF Kept
  <2> QED BY <1>2, <1>4, <2>1
<1>7. h[0] = <<>>
  <2>1. 0 \in 0 .. n
    BY <1>1
  <2> QED BY <1>4, <2>1, Zenon
<1>8. \A i \in 0 .. n : h[i] \in Kept(orders, left, i)
  BY <1>6, <1>7, KeptInduction DEF n
<1>9. IsRest(h, orders, left)
  <2>1. \A i \in 0 .. n :
           h[i] = IF i = 0 THEN <<>>
                  ELSE IF left[i] > 0 THEN Append(h[i - 1], [orders[i] EXCEPT !.forSale = left[i]])
                  ELSE h[i - 1]
    <3> SUFFICES ASSUME NEW i \in 0 .. n, i # 0
                 PROVE  h[i] = IF left[i] > 0 THEN Append(h[i - 1], [orders[i] EXCEPT !.forSale = left[i]])
                               ELSE h[i - 1]
      BY <1>7
    <3>1. i \in 1 .. n /\ i - 1 \in 0 .. n
      BY <1>1
    <3>2. h[i] = Keep(orders, left, h[i - 1], i)
      BY <1>6, <1>8, <3>1
    <3> QED BY <3>2 DEF Keep, Sold
  <2> QED BY <1>5, <2>1, Zenon DEF IsRest, n
<1> DEFINE g == CHOOSE g : IsRest(g, orders, left)
<1>10. Rest(orders, left) = g[n]
  BY DEF Rest, IsRest, n
<1>11. IsRest(g, orders, left)
  BY <1>9
<1> HIDE DEF g
<1>12. \A i \in 0 .. n :
         g[i] = IF i = 0 THEN <<>>
                ELSE IF left[i] > 0 THEN Append(g[i - 1], [orders[i] EXCEPT !.forSale = left[i]])
                ELSE g[i - 1]
  BY <1>11, Zenon DEF IsRest, n
<1>13. g[0] = <<>>
  <2>1. 0 \in 0 .. n
    BY <1>1
  <2> QED BY <1>12, <2>1, Zenon
<1>14. ASSUME NEW i \in 1 .. n PROVE g[i] = Keep(orders, left, g[i - 1], i)
  <2>1. i \in 0 .. n /\ i # 0
    BY <1>1
  <2> QED BY <1>12, <2>1, Zenon DEF Keep, Sold
<1>15. \A i \in 0 .. n : g[i] \in Kept(orders, left, i)
  BY <1>13, <1>14, KeptInduction DEF n
<1> QED BY <1>1, <1>10, <1>15 DEF n

-----------------------------------------------------------------------------
(* The invariant, of balances and a book.                                  *)

Uncrossed(b) ==
    \A i, k \in DOMAIN b : b[i].sells # b[k].sells => ~AtLeast(b[i].price, Inverted(b[k].price))

Conserved(bal, b) ==
    \A c \in Assets : InitialBalance * Cardinality(Accounts) = Held(bal, c) + Offers(b, c)

Sane(bal, b) ==
    /\ bal \in Balances /\ b \in Seq(Orders)
    /\ Uncrossed(b)
    /\ \A i \in DOMAIN b : ToQuote(b[i].forSale, b[i].price) > 0
    /\ Conserved(bal, b)

IInv == Sane(balance, book)

LEMMA IInvIsBook == IInv => BookUncrossed
<1> SUFFICES ASSUME IInv PROVE BookUncrossed
  OBVIOUS
<1>1. balance \in Balances /\ book \in Seq(Orders) /\ Conserved(balance, book)
  BY DEF IInv, Sane
<1>2. DOMAIN book = 1 .. Len(book)
  <2> HIDE DEF Orders
  <2> QED BY <1>1
<1>3. ASSUME NEW c \in Assets PROVE InAccounts(c) = Held(balance, c) /\ OnOffer(c) = Offers(book, c)
  <2>1. InAccounts(c) = Held(balance, c)
    BY DEF InAccounts, SumFunction, Held
  <2>2. OnOffer(c) = Offers(book, c)
    BY <1>2 DEF OnOffer, SumFunction, Offers, Amount
  <2> QED BY <2>1, <2>2
<1>4. \A c \in Assets : InitialBalance * Cardinality(Accounts) = InAccounts(c) + OnOffer(c)
  BY <1>1, <1>3 DEF Conserved
<1> QED BY <1>4 DEF BookUncrossed, IInv, Sane, Uncrossed

LEMMA InitSane == Init => IInv
<1> SUFFICES ASSUME Init PROVE IInv
  OBVIOUS
<1>1. balance \in Balances /\ \A a \in Accounts, c \in Assets : balance[a][c] = InitialBalance
  BY MarketAssumption DEF Init, Balances
<1>2. book = <<>> /\ book \in Seq(Orders) /\ DOMAIN book = {} /\ 1 .. Len(book) = {}
  BY DEF Init
<1>3. ASSUME NEW c \in Assets
      PROVE  InitialBalance * Cardinality(Accounts) = Held(balance, c) + Offers(book, c)
  <2> DEFINE f == [a \in Accounts |-> balance[a][c]]
  <2>1. \A a \in Accounts : f[a] = InitialBalance
    BY <1>1
  <2> HIDE DEF f
  <2>2. SumFunctionOnSet(f, Accounts) = InitialBalance * Cardinality(Accounts)
    BY <2>1, SumConstant, MarketAssumption
  <2>3. Held(balance, c) = InitialBalance * Cardinality(Accounts) /\ Held(balance, c) \in Int
    BY <1>1, <2>2, HeldType DEF Held, f
  <2>4. Offers(book, c) = 0
    <3>1. Ints(Amount(book, c), {}) /\ IsFiniteSet({})
      BY FS_EmptySet DEF Ints
    <3>2. SumFunctionOnSet(Amount(book, c), {}) = 0
      BY <3>1, SumsOf
    <3> QED BY <1>2, <3>2 DEF Offers
  <2> QED BY <2>3, <2>4
<1> QED BY <1>1, <1>2, <1>3 DEF IInv, Sane, Uncrossed, Conserved

\* A new order that its owner can pay for.
NewOrder(a, c, n, price) == [seller |-> a, sells |-> c, forSale |-> n, price |-> price]
Paying(bal, a, c, n) == [bal EXCEPT ![a][c] = @ - n]

LEMMA NewOrderOK ==
    ASSUME NEW bal, NEW b, Sane(bal, b), NEW a \in Accounts, NEW c \in Assets, NEW price \in Prices,
           NEW n \in 1 .. bal[a][c], ToQuote(n, price) > 0
    PROVE  LET orders == Append(b, NewOrder(a, c, n, price))
           IN  /\ NewOrder(a, c, n, price) \in Orders
               /\ WellFormed(orders) /\ Len(orders) = Len(b) + 1 /\ DOMAIN b = 1 .. Len(b)
               /\ orders[Len(orders)] = NewOrder(a, c, n, price)
               /\ \A i \in DOMAIN b : orders[i] = b[i]
               /\ Paying(bal, a, c, n) \in Balances
               /\ \A d \in Assets :
                    Held(Paying(bal, a, c, n), d) = Held(bal, d) - (IF d = c THEN n ELSE 0)
<1> DEFINE o == NewOrder(a, c, n, price)
           orders == Append(b, o)
           pay == Paying(bal, a, c, n)
<1>1. bal \in Balances /\ b \in Seq(Orders) /\ bal[a][c] \in Nat
  BY DEF Sane, Balances
<1>2. n \in Nat /\ n > 0 /\ n <= bal[a][c]
  BY <1>1
<1>3. o \in Orders /\ o.forSale = n /\ o.price = price
  BY <1>2 DEF NewOrder, Orders, Positive
<1> HIDE DEF o
<1>4. /\ orders \in Seq(Orders) /\ Len(orders) = Len(b) + 1 /\ DOMAIN b = 1 .. Len(b)
      /\ orders[Len(b) + 1] = o /\ Len(b) \in Nat
      /\ \A i \in 1 .. Len(b) : orders[i] = b[i]
  <2> HIDE DEF Orders
  <2> QED BY <1>1, <1>3, AppendProperties
<1> HIDE DEF orders
<1>5. WellFormed(orders)
  <2> SUFFICES ASSUME NEW i \in 1 .. Len(orders) PROVE ToQuote(orders[i].forSale, orders[i].price) > 0
    BY <1>4 DEF WellFormed
  <2>1. CASE i = Len(b) + 1
    BY <1>3, <1>4, <2>1
  <2>2. CASE i \in 1 .. Len(b)
    <3>1. ToQuote(b[i].forSale, b[i].price) > 0
      BY <1>4, <2>2 DEF Sane
    <3> QED BY <1>4, <2>2, <3>1
  <2> QED BY <1>4, <2>1, <2>2
<1>6. /\ pay \in Balances /\ pay[a][c] = bal[a][c] - n
      /\ \A x \in Accounts, d \in Assets : x # a \/ d # c => pay[x][d] = bal[x][d]
  <2>1. pay = [bal EXCEPT ![a] = [bal[a] EXCEPT ![c] = bal[a][c] - n]]
    BY DEF Paying
  <2>2. bal[a][c] - n \in Nat
    BY <1>1, <1>2
  <2> HIDE DEF pay
  <2> QED BY <1>1, <2>1, <2>2 DEF Balances
<1> HIDE DEF pay
<1>7. ASSUME NEW d \in Assets PROVE Held(pay, d) = Held(bal, d) - (IF d = c THEN n ELSE 0)
  <2>1. PICK e \in Int : e = IF d = c THEN - n ELSE 0
    BY <1>2
  <2>2. bal[a][d] \in Int
    BY <1>1 DEF Balances
  <2>3. pay[a][d] = bal[a][d] + e
    BY <1>2, <1>6, <2>1, <2>2
  <2>4. Held(pay, d) = Held(bal, d) + e
    BY <1>1, <1>6, <2>3, HeldChange
  <2>5. Held(bal, d) \in Int
    BY <1>1, HeldType
  <2> QED BY <1>2, <2>1, <2>4, <2>5
<1> QED BY <1>3, <1>4, <1>5, <1>6, <1>7 DEF o, orders, pay

\* The state after a new order has been matched.
LEMMA CreateSane ==
    ASSUME NEW bal, NEW b, Sane(bal, b), NEW a \in Accounts, NEW c \in Assets, NEW price \in Prices,
           NEW n \in 1 .. bal[a][c], ToQuote(n, price) > 0
    PROVE  LET orders == Append(b, NewOrder(a, c, n, price))
               out == ApplyOrder(orders, Paying(bal, a, c, n))
           IN  Sane(out.balance, Rest(orders, out.left))
<1> DEFINE o == NewOrder(a, c, n, price)
           orders == Append(b, o)
           pay == Paying(bal, a, c, n)
           out == ApplyOrder(orders, pay)
           C == Candidates(orders)
           l == out.left
           r == Rest(orders, l)
           m == Len(orders)
<1>1. /\ o \in Orders /\ WellFormed(orders) /\ m = Len(b) + 1 /\ DOMAIN b = 1 .. Len(b)
      /\ orders[m] = o /\ \A i \in DOMAIN b : orders[i] = b[i]
      /\ pay \in Balances
      /\ \A d \in Assets : Held(pay, d) = Held(bal, d) - (IF d = c THEN n ELSE 0)
  BY NewOrderOK
<1>2. bal \in Balances /\ b \in Seq(Orders) /\ Uncrossed(b) /\ Conserved(bal, b)
  BY DEF Sane
<1>3. n \in Nat /\ o.sells = c /\ o.forSale = n
  <2>1. bal[a][c] \in Nat
    BY <1>2 DEF Balances
  <2> QED BY <2>1 DEF NewOrder
<1>4. Offers(orders, c) \in Int /\ \A d \in Assets : Offers(orders, d) = Offers(b, d) + (IF o.sells = d THEN o.forSale ELSE 0)
  <2> HIDE DEF o
  <2>1. orders \in Seq(Orders)
    BY <1>1 DEF WellFormed
  <2> QED BY <1>1, <1>2, <2>1, OffersAppend, OffersType
<1> HIDE DEF o, orders, pay
<1>5. Sound(orders, pay, C, out)
  BY <1>1, ApplyOrderSound
<1> HIDE DEF out
<1>6. /\ orders \in Seq(Orders) /\ l \in [1 .. m -> Nat] /\ out.balance \in Balances
      /\ m \in Nat /\ m > 0
  <2>1. orders \in Seq(Orders) /\ m \in Nat /\ m > 0
    BY <1>1, CandidatesAre DEF WellFormed
  <2> HIDE DEF m
  <2> QED BY <1>5, <2>1 DEF Sound, Trading, m
<1>7. /\ r \in Seq(Orders)
      /\ \A j \in 1 .. Len(r) : \E k \in 1 .. m : l[k] > 0 /\ r[j] = Sold(orders, l, k)
      /\ \A d \in Assets : Offers(r, d) = Offered(orders, l, d)
  BY <1>6, RestOK DEF Kept, Offered
<1> HIDE DEF l
<1>8. DOMAIN r = 1 .. Len(r)
  BY <1>7
<1> HIDE DEF r
<1>9. \A k \in 1 .. m : /\ Sold(orders, l, k).sells = orders[k].sells
                        /\ Sold(orders, l, k).price = orders[k].price
                        /\ Sold(orders, l, k).forSale = l[k]
  BY <1>6, OrderFields DEF Sold, Orders
<1>10. \A j \in DOMAIN r : ToQuote(r[j].forSale, r[j].price) > 0
  <2> SUFFICES ASSUME NEW j \in 1 .. Len(r) PROVE ToQuote(r[j].forSale, r[j].price) > 0
    BY <1>8
  <2>1. PICK k \in 1 .. m : l[k] > 0 /\ r[j] = Sold(orders, l, k)
    BY <1>7
  <2>2. ToQuote(l[k], orders[k].price) > 0
    BY <1>5, <2>1 DEF Sound, Worthy, l
  <2> QED BY <1>9, <2>1, <2>2
<1>11. ASSUME NEW k \in 1 .. m - 1, l[m] > 0, l[k] > 0, orders[k].sells # orders[m].sells
       PROVE  ~AtLeast(orders[k].price, Inverted(orders[m].price))
  <2>1. k \notin C
    BY <1>5, <1>11 DEF Sound, Cleared, l
  <2> QED BY <1>11, <2>1 DEF Candidates
<1>12. ASSUME NEW k \in 1 .. m PROVE orders[k].price \in Rates
  BY <1>6, OrderFields
<1>13. Uncrossed(r)
  <2> SUFFICES ASSUME NEW i \in 1 .. Len(r), NEW j \in 1 .. Len(r), r[i].sells # r[j].sells
               PROVE  ~AtLeast(r[i].price, Inverted(r[j].price))
    BY <1>8 DEF Uncrossed
  <2>1. PICK x \in 1 .. m : l[x] > 0 /\ r[i] = Sold(orders, l, x)
    BY <1>7
  <2>2. PICK y \in 1 .. m : l[y] > 0 /\ r[j] = Sold(orders, l, y)
    BY <1>7
  <2>3. /\ r[i].price = orders[x].price /\ r[j].price = orders[y].price
        /\ orders[x].sells # orders[y].sells /\ x # y
    BY <1>9, <2>1, <2>2
  <2>4. CASE x # m /\ y # m
    <3>1. x \in DOMAIN b /\ y \in DOMAIN b
      BY <1>1, <1>6, <2>4
    <3> QED BY <1>1, <1>2, <2>3, <3>1 DEF Uncrossed
  <2>5. CASE y = m
    <3>1. x \in 1 .. m - 1
      BY <1>6, <2>3, <2>5
    <3> QED BY <1>11, <2>1, <2>2, <2>3, <2>5, <3>1
  <2>6. CASE x = m
    <3>1. y \in 1 .. m - 1
      BY <1>6, <2>3, <2>6
    <3>2. ~AtLeast(orders[y].price, Inverted(orders[m].price))
      BY <1>11, <2>1, <2>2, <2>3, <2>6, <3>1
    <3>3. orders[x].price \in Rates /\ orders[y].price \in Rates
      BY <1>12
    <3> QED BY <2>3, <2>6, <3>2, <3>3, AtLeastIsOrder
  <2> QED BY <2>4, <2>5, <2>6
<1>14. Conserved(out.balance, r)
  <2> SUFFICES ASSUME NEW d \in Assets
               PROVE  InitialBalance * Cardinality(Accounts) = Held(out.balance, d) + Offers(r, d)
    BY DEF Conserved
  <2>1. Held(out.balance, d) + Offered(orders, l, d) = Held(pay, d) + Offered(orders, Start(orders, pay).left, d)
    BY <1>5 DEF Sound, Balanced, l
  <2>2. Offered(orders, Start(orders, pay).left, d) = Offers(orders, d)
    <3>1. Start(orders, pay).left = [i \in 1 .. m |-> orders[i].forSale]
      BY <1>6 DEF Start
    <3>2. Part(orders, Start(orders, pay).left, d) = Amount(orders, d)
      BY <3>1 DEF Part, Amount
    <3> QED BY <3>2 DEF Offered, Offers
  <2>3. Held(bal, d) \in Int /\ Offers(b, d) \in Int
    BY <1>2, HeldType, OffersType
  <2>4. InitialBalance * Cardinality(Accounts) = Held(bal, d) + Offers(b, d)
    BY <1>2 DEF Conserved
  <2>5. Held(pay, d) = Held(bal, d) - (IF d = c THEN n ELSE 0)
    BY <1>1
  <2>6. Offers(orders, d) = Offers(b, d) + (IF c = d THEN n ELSE 0)
    BY <1>3, <1>4
  <2>7. Offers(r, d) = Offered(orders, l, d)
    BY <1>7
  <2>8. Held(pay, d) + Offers(orders, d) = Held(bal, d) + Offers(b, d)
    BY <1>3, <2>3, <2>5, <2>6
  <2> QED BY <2>1, <2>2, <2>4, <2>7, <2>8
<1>15. Sane(out.balance, r)
  BY <1>6, <1>7, <1>10, <1>13, <1>14 DEF Sane
<1> QED BY <1>15 DEF r, l, out, orders, pay, o

\* The state after an order has been cancelled.
LEMMA CancelSane ==
    ASSUME NEW bal, NEW b, Sane(bal, b), NEW i \in DOMAIN b
    PROVE  Sane([bal EXCEPT ![b[i].seller][b[i].sells] = @ + b[i].forSale], RemoveAt(b, i))
<1> DEFINE a == b[i].seller
           c == b[i].sells
           n == b[i].forSale
           paid == [bal EXCEPT ![a][c] = @ + n]
           r == RemoveAt(b, i)
           at == [j \in 1 .. Len(b) - 1 |-> IF j < i THEN j ELSE j + 1]
<1>1. bal \in Balances /\ b \in Seq(Orders) /\ Uncrossed(b) /\ Conserved(bal, b)
  BY DEF Sane
<1>2. DOMAIN b = 1 .. Len(b) /\ i \in 1 .. Len(b) /\ Len(b) \in Nat
  <2> HIDE DEF Orders
  <2> QED BY <1>1
<1>3. a \in Accounts /\ c \in Assets /\ n \in Nat
  BY <1>1, <1>2, OrderFields DEF Positive
<1>4. /\ r \in Seq(Orders) /\ Len(r) = Len(b) - 1
      /\ \A j \in 1 .. Len(b) - 1 : r[j] = b[IF j < i THEN j ELSE j + 1]
  <2> HIDE DEF Orders
  <2> QED BY <1>1, <1>2, RemoveAtIs
<1>5. \A d : Offers(b, d) = Offers(r, d) + (IF c = d THEN n ELSE 0)
  BY <1>1, <1>2, OffersRemove
<1>6. /\ paid \in Balances /\ paid[a][c] = bal[a][c] + n
      /\ \A x \in Accounts, d \in Assets : x # a \/ d # c => paid[x][d] = bal[x][d]
  <2> HIDE DEF a, c, n
  <2>1. paid = [bal EXCEPT ![a] = [bal[a] EXCEPT ![c] = bal[a][c] + n]]
    OBVIOUS
  <2>2. bal[a][c] + n \in Nat
    BY <1>1, <1>3 DEF Balances
  <2> HIDE DEF paid
  <2> QED BY <1>1, <1>3, <2>1, <2>2 DEF Balances
<1> HIDE DEF r, a, c, n, paid
<1>7. DOMAIN r = 1 .. Len(b) - 1
  BY <1>4
<1>8. \A j \in DOMAIN r : at[j] \in DOMAIN b /\ r[j] = b[at[j]]
  BY <1>2, <1>4, <1>7
<1> HIDE DEF at
<1>9. Uncrossed(r)
  BY <1>1, <1>8 DEF Uncrossed
<1>10. \A j \in DOMAIN r : ToQuote(r[j].forSale, r[j].price) > 0
  BY <1>8 DEF Sane
<1>11. Conserved(paid, r)
  <2> SUFFICES ASSUME NEW d \in Assets
               PROVE  InitialBalance * Cardinality(Accounts) = Held(paid, d) + Offers(r, d)
    BY DEF Conserved
  <2>1. PICK e \in Int : e = IF c = d THEN n ELSE 0
    BY <1>3
  <2>2. bal[a][d] \in Int
    BY <1>1, <1>3 DEF Balances
  <2>3. paid[a][d] = bal[a][d] + e
    BY <1>3, <1>6, <2>1, <2>2
  <2>4. Held(paid, d) = Held(bal, d) + e
    BY <1>1, <1>3, <1>6, <2>3, HeldChange
  <2>5. Held(bal, d) \in Int /\ Offers(r, d) \in Int
    BY <1>1, <1>4, HeldType, OffersType
  <2>6. Offers(b, d) = Offers(r, d) + e
    BY <1>5, <2>1
  <2>7. InitialBalance * Cardinality(Accounts) = Held(bal, d) + Offers(b, d)
    BY <1>1 DEF Conserved
  <2> QED BY <2>4, <2>5, <2>6, <2>7
<1> QED BY <1>4, <1>6, <1>9, <1>10, <1>11 DEF Sane, r, paid, a, c, n

-----------------------------------------------------------------------------
(* The steps.                                                              *)

LEMMA OutcomeIs ==
    ASSUME NEW a, NEW c, NEW n, NEW price
    PROVE  /\ With(a, c, n, price) = Append(book, NewOrder(a, c, n, price))
           /\ Outcome(a, c, n, price) =
                 ApplyOrder(Append(book, NewOrder(a, c, n, price)), Paying(balance, a, c, n))
BY DEF With, Outcome, NewOrder, Paying

LEMMA NextSane == IInv /\ [Next]_vars => IInv'
<1> SUFFICES ASSUME IInv, [Next]_vars PROVE IInv'
  OBVIOUS
<1>1. ASSUME NEW a \in Accounts, NEW s \in Assets, NEW price \in Prices,
             NEW n \in 1 .. balance[a][s], LimitOrderCreate(a, s, n, price)
      PROVE  IInv'
  <2>1. /\ ToQuote(n, price) > 0
        /\ balance' = Outcome(a, s, n, price).balance
        /\ book' = Rest(With(a, s, n, price), Outcome(a, s, n, price).left)
    BY <1>1 DEF LimitOrderCreate, Affordable, WorthSomething
  <2>2. Sane(Outcome(a, s, n, price).balance, Rest(With(a, s, n, price), Outcome(a, s, n, price).left))
    <3> DEFINE orders == Append(book, NewOrder(a, s, n, price))
               out == ApplyOrder(orders, Paying(balance, a, s, n))
    <3>1. Sane(out.balance, Rest(orders, out.left))
      BY <2>1, CreateSane DEF IInv
    <3>2. With(a, s, n, price) = orders /\ Outcome(a, s, n, price) = out
      BY OutcomeIs
    <3> HIDE DEF orders, out
    <3> QED BY <3>1, <3>2
  <2> QED BY <2>1, <2>2 DEF IInv
<1>2. ASSUME NEW i \in DOMAIN book, CancelOrder(i) PROVE IInv'
  <2>1. Sane([balance EXCEPT ![book[i].seller][book[i].sells] = @ + book[i].forSale], RemoveAt(book, i))
    BY CancelSane DEF IInv
  <2> QED BY <1>2, <2>1 DEF CancelOrder, IInv
<1>3. CASE UNCHANGED vars
  BY <1>3 DEF vars, IInv
<1> QED BY <1>1, <1>2, <1>3 DEF Next, LimitOrderCancel, ClearExpiredOrder

LEMMA Invariance == Spec => []IInv
BY InitSane, NextSane, PTL DEF Spec

\* No order that its owner can pay for is rejected by an assertion of match or
\* fill_order, whatever the book, the prices and the amounts.
THEOREM MatchingSucceeds == Spec => []MatchingNeverFails
<1>1. IInv => MatchingNeverFails
  <2> SUFFICES ASSUME IInv, NEW a \in Accounts, NEW s \in Assets, NEW price \in Prices,
                      NEW n \in 1 .. balance[a][s], Affordable(a, s, n, price)
               PROVE  Outcome(a, s, n, price).ok
    BY DEF MatchingNeverFails
  <2> DEFINE orders == Append(book, NewOrder(a, s, n, price))
             pay == Paying(balance, a, s, n)
  <2>1. WellFormed(orders) /\ pay \in Balances
    BY NewOrderOK DEF IInv, Affordable, WorthSomething
  <2>2. Outcome(a, s, n, price) = ApplyOrder(orders, pay)
    BY OutcomeIs
  <2> HIDE DEF orders, pay
  <2>3. Sound(orders, pay, Candidates(orders), ApplyOrder(orders, pay))
    BY <2>1, ApplyOrderSound
  <2> QED BY <2>2, <2>3 DEF Sound
<1> QED BY <1>1, Invariance, PTL

\* Matching goes on as long as two orders can be matched, a rest that is worth
\* nothing is cancelled, and no asset is created or destroyed, whatever is
\* rounded.
THEOREM BookStaysUncrossed == Spec => []BookUncrossed
BY IInvIsBook, Invariance, PTL

\* The trades of a new order are fair to both sides and to those in the book.
LEMMA CreateFair ==
    ASSUME NEW bal, NEW b, Sane(bal, b), NEW a \in Accounts, NEW c \in Assets, NEW price \in Prices,
           NEW n \in 1 .. bal[a][c], ToQuote(n, price) > 0, NEW trades,
           trades = ApplyOrder(Append(b, NewOrder(a, c, n, price)), Paying(bal, a, c, n)).fills,
           NEW j \in DOMAIN trades
    PROVE  LET f == trades[j]
               o == b[f.old]
           IN  /\ f.newPays > 0 /\ f.oldPays > 0
               /\ f.oldPays >= ToQuote(f.newPays, f.limit)
               /\ f.newPays >= ToQuote(f.oldPays, o.price)
               /\ \A k \in DOMAIN b :
                    \/ b[k].sells = f.sells
                    \/ k = f.old
                    \/ ~Better(b[k].price, o.price) /\ (Better(o.price, b[k].price) \/ f.old < k)
                    \/ \E i \in 1 .. j - 1 : trades[i].old = k
<1> DEFINE orders == Append(b, NewOrder(a, c, n, price))
           pay == Paying(bal, a, c, n)
           out == ApplyOrder(orders, pay)
           C == Candidates(orders)
           m == Len(orders)
           f == trades[j]
<1>1. /\ WellFormed(orders) /\ pay \in Balances /\ m = Len(b) + 1 /\ DOMAIN b = 1 .. Len(b)
      /\ \A i \in DOMAIN b : orders[i] = b[i]
  BY NewOrderOK
<1>2. trades = out.fills
  OBVIOUS
<1> HIDE DEF orders, pay
<1>3. Sound(orders, pay, C, out)
  BY <1>1, ApplyOrderSound
<1> HIDE DEF out
<1>4. FairTrade(orders, C, trades, j)
  BY <1>2, <1>3 DEF Sound, Fair
<1>5. Rated(orders) /\ m \in Nat /\ DOMAIN orders = 1 .. m /\ C \in SUBSET (1 .. m - 1) /\ m > 0
  BY <1>1, CandidatesAre
<1>6. /\ f.old \in C /\ f.sells = orders[m].sells
      /\ f.newPays > 0 /\ f.oldPays > 0
      /\ f.oldPays >= ToQuote(f.newPays, f.limit)
      /\ f.newPays >= ToQuote(f.oldPays, orders[f.old].price)
      /\ \A k \in C : Before(orders, k, f.old) => \E i \in 1 .. j - 1 : trades[i].old = k
  BY <1>4 DEF FairTrade
<1>7. DOMAIN b = 1 .. m - 1
  <2>1. Len(b) \in Nat /\ Len(b) = m - 1
    BY <1>1, <1>5 DEF Sane
  <2> QED BY <1>1, <2>1
<1>8. f.old \in DOMAIN b /\ orders[f.old] = b[f.old]
  BY <1>1, <1>5, <1>6, <1>7
<1>9. ASSUME NEW k \in DOMAIN b, b[k].sells # f.sells, k # f.old
      PROVE  \/ ~Better(b[k].price, b[f.old].price) /\ (Better(b[f.old].price, b[k].price) \/ f.old < k)
             \/ \E i \in 1 .. j - 1 : trades[i].old = k
  <2> DEFINE p == orders[k].price
             q == orders[f.old].price
             l == orders[m].price
  <2>1. orders[k] = b[k] /\ k \in 1 .. m - 1 /\ k \in DOMAIN orders /\ f.old \in DOMAIN orders /\ m \in DOMAIN orders
    BY <1>1, <1>5, <1>7, <1>8
  <2>2. p \in Rates /\ q \in Rates /\ l \in Rates
    BY <1>5, <2>1 DEF Rated
  <2>3. (AtLeast(p, q) <=> ~Better(q, p)) /\ (AtLeast(q, p) <=> ~Better(p, q)) /\ (AtLeast(p, q) \/ AtLeast(q, p))
    BY <2>2, AtLeastIsOrder
  <2>4. CASE Before(orders, f.old, k)
    <3>1. Better(q, p) \/ (~Better(p, q) /\ f.old < k)
      BY <2>4 DEF Before
    <3>2. ~Better(p, q) /\ (Better(q, p) \/ f.old < k)
      BY <2>3, <3>1
    <3> QED BY <1>8, <2>1, <3>2
  <2>5. CASE Before(orders, k, f.old)
    <3>1. AtLeast(p, q)
      BY <1>5, <2>1, <2>5, BeforeIsTotal
    <3>2. AtLeast(q, Inverted(l))
      BY <1>6 DEF Candidates
    <3>3. Inverted(l) \in Rates
      BY <2>2 DEF Inverted, Rates
    <3>4. AtLeast(p, Inverted(l))
      BY <2>2, <3>1, <3>2, <3>3, AtLeastTransitive
    <3>5. k \in C
      BY <1>6, <1>9, <2>1, <3>4 DEF Candidates
    <3> QED BY <1>6, <2>5, <3>5
  <2>6. Before(orders, f.old, k) \/ Before(orders, k, f.old)
    BY <1>5, <1>9, <2>1, BeforeIsTotal
  <2> QED BY <2>4, <2>5, <2>6
<1> HIDE DEF f
<1> QED BY <1>6, <1>8, <1>9 DEF f

\* A trade gives either side something, no less than its limit rounded down,
\* and nobody with a better price, or the same price and an older order, is
\* passed over.
THEOREM TradesAreFair == Spec => TradesFair
<1> DEFINE FairStep ==
             \A j \in DOMAIN fills' :
               LET f == fills'[j]
                   o == book[f.old]
               IN  /\ f.newPays > 0 /\ f.oldPays > 0
                   /\ f.oldPays >= ToQuote(f.newPays, f.limit)
                   /\ f.newPays >= ToQuote(f.oldPays, o.price)
                   /\ \A k \in DOMAIN book :
                        \/ book[k].sells = f.sells
                        \/ k = f.old
                        \/ ~Better(book[k].price, o.price) /\ (Better(o.price, book[k].price) \/ f.old < k)
                        \/ \E i \in 1 .. j - 1 : fills'[i].old = k
<1>1. IInv /\ [Next]_vars => [FairStep]_vars
  <2> SUFFICES ASSUME IInv, Next PROVE FairStep
    OBVIOUS
  <2>1. ASSUME NEW a \in Accounts, NEW s \in Assets, NEW price \in Prices,
               NEW n \in 1 .. balance[a][s], LimitOrderCreate(a, s, n, price)
        PROVE  FairStep
    <3>1. ToQuote(n, price) > 0 /\ fills' = Outcome(a, s, n, price).fills
      BY <2>1 DEF LimitOrderCreate, Affordable, WorthSomething
    <3>2. fills' = ApplyOrder(Append(book, NewOrder(a, s, n, price)), Paying(balance, a, s, n)).fills
      BY <3>1, OutcomeIs
    <3> QED BY <3>1, <3>2, CreateFair DEF IInv
  <2>2. ASSUME NEW i \in DOMAIN book, CancelOrder(i) PROVE FairStep
    <3>1. fills' = <<>>
      BY <2>2 DEF CancelOrder
    <3> QED BY <3>1
  <2> QED BY <2>1, <2>2 DEF Next, LimitOrderCancel, ClearExpiredOrder
<1>2. TradesFair <=> [][FairStep]_vars
  BY DEF TradesFair
<1> HIDE DEF FairStep
<1> QED BY <1>1, <1>2, Invariance, PTL DEF Spec

=============================================================================

--------------------------- MODULE Vesting_proofs ---------------------------
(***************************************************************************)
(* Proofs about Vesting for any accounts, balances, routes and limits.     *)
(***************************************************************************)
EXTENDS Vesting, NaturalsInduction, WellFoundedInduction, FiniteSetTheorems, TLAPS

-----------------------------------------------------------------------------
(* A set of naturals that is not empty has a least element.                *)

LEMMA LeastExists ==
    ASSUME NEW S \in SUBSET Nat, S # {}
    PROVE  \E j \in S : \A k \in S : j <= k
<1>1. PICK j \in S : \A k \in S : ~(<<k, j>> \in OpToRel(<, Nat))
  BY NatLessThanWellFounded, WFMin
<1>2. ASSUME NEW k \in S PROVE j <= k
  <2>1. <<k, j>> \in OpToRel(<, Nat) <=> k < j
    BY DEF OpToRel
  <2>2. ~(k < j)
    BY <1>1, <2>1
  <2>3. j \in Nat /\ k \in Nat
    OBVIOUS
  <2> QED BY <2>2, <2>3
<1> QED BY <1>2

-----------------------------------------------------------------------------
(* Induction over the subsets of a finite set, with the property as a set. *)

LEMMA SubsetInduction ==
    ASSUME NEW S, IsFiniteSet(S), NEW G,
           {} \in G,
           \A s \in SUBSET S : s # {} /\ (\A x \in s : s \ {x} \in G) => s \in G
    PROVE  \A s \in SUBSET S : s \in G
<1> DEFINE Bad == {Cardinality(s) : s \in {t \in SUBSET S : t \notin G}}
<1> SUFFICES ASSUME NEW s0 \in SUBSET S, s0 \notin G PROVE FALSE
  OBVIOUS
<1>1. \A s \in SUBSET S : IsFiniteSet(s) /\ Cardinality(s) \in Nat
  BY FS_Subset, FS_CardinalityType
<1>2. Bad \in SUBSET Nat /\ Bad # {}
  BY <1>1
<1>3. PICK n \in Bad : \A k \in Bad : n <= k
  BY <1>2, LeastExists
<1>4. PICK s \in SUBSET S : s \notin G /\ n = Cardinality(s)
  OBVIOUS
<1>5. ASSUME NEW x \in s PROVE s \ {x} \in G
  <2>1. Cardinality(s \ {x}) = Cardinality(s) - 1
    BY <1>1, FS_RemoveElement
  <2>2. n \in Nat /\ ~(n <= Cardinality(s \ {x}))
    BY <1>1, <1>4, <2>1
  <2>3. s \ {x} \in SUBSET S
    OBVIOUS
  <2>4. s \ {x} \notin G => Cardinality(s \ {x}) \in Bad
    BY <2>3
  <2> QED BY <1>3, <2>2, <2>4
<1> QED BY <1>4, <1>5

-----------------------------------------------------------------------------
(* A fold exists: op takes an element and what the others gave, c chooses  *)
(* the element.                                                            *)

FoldEq(h, S, c, base, op) ==
    \A s \in SUBSET S : h[s] = IF s = {} THEN base ELSE op[<<c[s], h[s \ {c[s]}]>>]

LEMMA FoldExists ==
    ASSUME NEW S, IsFiniteSet(S), NEW c, \A s \in SUBSET S : s # {} => c[s] \in s,
           NEW base, NEW op
    PROVE  \E h : DOMAIN h = SUBSET S /\ h = [s \in SUBSET S |-> h[s]] /\ FoldEq(h, S, c, base, op)
<1> DEFINE Val(h, s) == IF s = {} THEN base ELSE op[<<c[s], h[s \ {c[s]}]>>]
           Sub(n) == {s \in SUBSET S : Cardinality(s) <= n}
           Good(n, h) == h = [s \in Sub(n) |-> Val(h, s)]
           Bad == {n \in Nat : ~\E h : Good(n, h)}
<1>1. \A s \in SUBSET S : IsFiniteSet(s) /\ Cardinality(s) \in Nat /\ Cardinality(s) <= Cardinality(S)
  BY FS_Subset, FS_CardinalityType
<1>2. ASSUME NEW s \in SUBSET S, s # {}
      PROVE  s \ {c[s]} \in SUBSET S /\ Cardinality(s \ {c[s]}) = Cardinality(s) - 1
  BY <1>1, <1>2, FS_RemoveElement
<1>3. ASSUME Bad # {} PROVE FALSE
  <2>1. Bad \in SUBSET Nat
    OBVIOUS
  <2>2. PICK n \in Bad : \A k \in Bad : n <= k
    BY <1>3, <2>1, LeastExists
  <2>3. n \in Nat /\ ~\E h : Good(n, h)
    OBVIOUS
  <2>4. CASE n = 0
    <3> DEFINE h == [s \in Sub(0) |-> base]
    <3>1. ASSUME NEW s \in Sub(0) PROVE s = {}
      BY <1>1, FS_EmptySet
    <3>2. h = [s \in Sub(0) |-> Val(h, s)]
      BY <3>1, Zenon
    <3> QED BY <2>3, <2>4, <3>2
  <2>5. CASE n # 0
    <3>1. n - 1 \in Nat /\ ~(n <= n - 1)
      BY <2>3, <2>5
    <3>2. PICK g : Good(n - 1, g)
      BY <2>2, <3>1
    <3> DEFINE h == [s \in Sub(n) |-> Val(g, s)]
    <3>3. ASSUME NEW s \in Sub(n), s # {} PROVE h[s \ {c[s]}] = g[s \ {c[s]}]
      <4>1. s \ {c[s]} \in Sub(n - 1) /\ s \ {c[s]} \in Sub(n)
        <5>1. s \in SUBSET S /\ Cardinality(s) \in Nat /\ Cardinality(s) <= n
          BY <1>1
        <5>2. s \ {c[s]} \in SUBSET S /\ Cardinality(s \ {c[s]}) = Cardinality(s) - 1
          BY <1>2, <3>3, <5>1
        <5> QED BY <2>3, <5>1, <5>2
      <4>2. g[s \ {c[s]}] = Val(g, s \ {c[s]})
        BY <3>2, <4>1, Zenon
      <4>3. h[s \ {c[s]}] = Val(g, s \ {c[s]})
        BY <4>1, Zenon
      <4> QED BY <4>2, <4>3
    <3>4. \A s \in Sub(n) : h[s] = Val(g, s)
      BY Zenon
    <3>5. h = [s \in Sub(n) |-> h[s]]
      BY Zenon
    <3> HIDE DEF h, Sub
    <3>6. \A s \in Sub(n) : h[s] = Val(h, s)
      BY <3>3, <3>4, Zenon
    <3>7. h = [s \in Sub(n) |-> Val(h, s)]
      BY <3>5, <3>6, Zenon
    <3> QED BY <2>3, <3>7
  <2> QED BY <2>4, <2>5
<1>4. PICK m \in Nat : m = Cardinality(S)
  BY FS_CardinalityType
<1>5. PICK h : Good(m, h)
  <2>1. m \notin Bad
    BY <1>3
  <2> HIDE DEF Good
  <2> QED BY <2>1
<1>6. Sub(m) = SUBSET S
  BY <1>1, <1>4
<1>7. h = [s \in SUBSET S |-> Val(h, s)]
  BY <1>5, <1>6, Zenon
<1>8. \A s \in SUBSET S : h[s] = Val(h, s)
  BY <1>7, Zenon
<1>9. DOMAIN h = SUBSET S /\ h = [s \in SUBSET S |-> h[s]]
  BY <1>7, <1>8, Zenon
<1> QED BY <1>8, <1>9, Zenon DEF FoldEq

-----------------------------------------------------------------------------
(* Sums.                                                                   *)

Any(s) == CHOOSE x \in s : TRUE

IsSum(h, f, S) ==
    h = [s \in SUBSET S |-> IF s = {} THEN 0 ELSE f[Any(s)] + h[s \ {Any(s)}]]

Ints(f, S) == \A x \in S : f[x] \in Int

LEMMA SumExists ==
    ASSUME NEW f, NEW S, IsFiniteSet(S), Ints(f, S)
    PROVE  \E h \in [SUBSET S -> Int] : IsSum(h, f, S)
<1> DEFINE c  == [s \in SUBSET S |-> Any(s)]
           op == [p \in S \X Int |-> f[p[1]] + p[2]]
<1>1. \A s \in SUBSET S : s # {} => Any(s) \in s /\ c[s] = Any(s)
  BY DEF Any
<1>2. \A x \in S, n \in Int : op[<<x, n>>] = f[x] + n
  OBVIOUS
<1> HIDE DEF c, op
<1>3. PICK h : h = [s \in SUBSET S |-> h[s]] /\ FoldEq(h, S, c, 0, op)
  <2>1. \A s \in SUBSET S : s # {} => c[s] \in s
    BY <1>1
  <2> QED BY <2>1, FoldExists, Zenon
<1> DEFINE G == {s \in SUBSET S : h[s] \in Int}
<1>4. {} \in G
  <2>1. h[{}] = 0
    BY <1>3 DEF FoldEq
  <2> QED BY <2>1
<1>5. ASSUME NEW s \in SUBSET S, s # {}, \A x \in s : s \ {x} \in G
      PROVE  s \in G /\ h[s] = f[Any(s)] + h[s \ {Any(s)}]
  <2>1. Any(s) \in s /\ Any(s) \in S /\ h[s \ {Any(s)}] \in Int
    BY <1>1, <1>5
  <2>2. h[s] = op[<<Any(s), h[s \ {Any(s)}]>>]
    BY <1>1, <1>3, <1>5 DEF FoldEq
  <2>3. h[s] = f[Any(s)] + h[s \ {Any(s)}]
    BY <1>2, <2>1, <2>2
  <2> QED BY <2>1, <2>3 DEF Ints
<1>6. \A s \in SUBSET S : s \in G
  <2>1. \A s \in SUBSET S : s # {} /\ (\A x \in s : s \ {x} \in G) => s \in G
    BY <1>5
  <2> HIDE DEF G
  <2> QED BY <1>4, <2>1, SubsetInduction, Zenon
<1>7. h \in [SUBSET S -> Int]
  BY <1>3, <1>6
<1>8. \A s \in SUBSET S : h[s] = IF s = {} THEN 0 ELSE f[Any(s)] + h[s \ {Any(s)}]
  <2> SUFFICES ASSUME NEW s \in SUBSET S
               PROVE  h[s] = IF s = {} THEN 0 ELSE f[Any(s)] + h[s \ {Any(s)}]
    OBVIOUS
  <2>1. CASE s = {}
    BY <1>3, <2>1 DEF FoldEq
  <2>2. CASE s # {}
    <3>1. \A x \in s : s \ {x} \in G
      BY <1>6
    <3> QED BY <1>5, <2>2, <3>1
  <2> QED BY <2>1, <2>2
<1>9. IsSum(h, f, S)
  BY <1>3, <1>8, Zenon DEF IsSum
<1> QED BY <1>7, <1>9

\* The sum over a set in terms of the fold over one that contains it.
LEMMA SumIs ==
    ASSUME NEW f, NEW S, IsFiniteSet(S), Ints(f, S)
    PROVE  \E h : IsSum(h, f, S) /\ SumFunctionOnSet(f, S) = h[S]
<1> DEFINE h == CHOOSE h : IsSum(h, f, S)
<1>1. IsSum(h, f, S)
  BY SumExists
<1>2. SumFunctionOnSet(f, S) = h[S]
  BY DEF SumFunctionOnSet, FoldFunctionOnSet, MapThenFoldSet, IsSum, Any
<1> QED BY <1>1, <1>2

LEMMA SumUnique ==
    ASSUME NEW f, NEW S, IsFiniteSet(S), Ints(f, S), NEW T \in SUBSET S,
           NEW g, IsSum(g, f, T), NEW h, IsSum(h, f, S)
    PROVE  g[T] = h[T] /\ h[T] \in Int
<1>1. IsFiniteSet(T)
  BY FS_Subset
<1>2. \A s \in SUBSET T : g[s] = IF s = {} THEN 0 ELSE f[Any(s)] + g[s \ {Any(s)}]
  BY Zenon DEF IsSum
<1>3. \A s \in SUBSET S : h[s] = IF s = {} THEN 0 ELSE f[Any(s)] + h[s \ {Any(s)}]
  BY Zenon DEF IsSum
<1> DEFINE G == {s \in SUBSET T : g[s] = h[s] /\ h[s] \in Int}
<1>4. {} \in G
  BY <1>2, <1>3
<1>5. ASSUME NEW s \in SUBSET T, s # {}, \A x \in s : s \ {x} \in G
      PROVE  s \in G
  <2>1. Any(s) \in s /\ s \in SUBSET S
    BY <1>5 DEF Any
  <2>2. g[s \ {Any(s)}] = h[s \ {Any(s)}] /\ h[s \ {Any(s)}] \in Int
    BY <1>5, <2>1
  <2>3. f[Any(s)] \in Int
    BY <2>1 DEF Ints
  <2>4. g[s] = f[Any(s)] + g[s \ {Any(s)}]
    BY <1>2, <1>5, Zenon
  <2>5. h[s] = f[Any(s)] + h[s \ {Any(s)}]
    BY <1>3, <1>5, <2>1, Zenon
  <2> QED BY <2>2, <2>3, <2>4, <2>5
<1>6. \A s \in SUBSET T : s \in G
  <2>1. \A s \in SUBSET T : s # {} /\ (\A x \in s : s \ {x} \in G) => s \in G
    BY <1>5
  <2> HIDE DEF G
  <2> QED BY <1>1, <1>4, <2>1, SubsetInduction, Zenon
<1> QED BY <1>6

\* All sums over the subsets of S at once.
LEMMA SumsOf ==
    ASSUME NEW f, NEW S, IsFiniteSet(S), Ints(f, S)
    PROVE  /\ SumFunctionOnSet(f, {}) = 0
           /\ \A s \in SUBSET S : SumFunctionOnSet(f, s) \in Int
           /\ \A s \in SUBSET S : s # {} =>
                 /\ Any(s) \in s
                 /\ SumFunctionOnSet(f, s) = f[Any(s)] + SumFunctionOnSet(f, s \ {Any(s)})
<1>1. PICK h : IsSum(h, f, S)
  BY SumExists
<1>2. ASSUME NEW s \in SUBSET S PROVE SumFunctionOnSet(f, s) = h[s] /\ h[s] \in Int
  <2>1. IsFiniteSet(s) /\ Ints(f, s)
    BY FS_Subset DEF Ints
  <2>2. PICK g : IsSum(g, f, s) /\ SumFunctionOnSet(f, s) = g[s]
    BY <2>1, SumIs
  <2> QED BY <1>1, <2>2, SumUnique
<1>3. \A s \in SUBSET S : h[s] = IF s = {} THEN 0 ELSE f[Any(s)] + h[s \ {Any(s)}]
  BY <1>1, Zenon DEF IsSum
<1>4. ASSUME NEW s \in SUBSET S, s # {}
      PROVE  /\ Any(s) \in s
             /\ SumFunctionOnSet(f, s) = f[Any(s)] + SumFunctionOnSet(f, s \ {Any(s)})
  <2>1. Any(s) \in s
    BY <1>4 DEF Any
  <2>2. s \ {Any(s)} \in SUBSET S
    OBVIOUS
  <2> QED BY <1>2, <1>3, <1>4, <2>1, <2>2
<1>5. SumFunctionOnSet(f, {}) = 0
  BY <1>2, <1>3
<1> QED BY <1>2, <1>4, <1>5

LEMMA SumType ==
    ASSUME NEW f, NEW S, IsFiniteSet(S), Ints(f, S)
    PROVE  SumFunctionOnSet(f, S) \in Int
BY SumsOf

\* The order does not matter: any element may be taken out.
LEMMA SumPick ==
    ASSUME NEW f, NEW S, IsFiniteSet(S), Ints(f, S), NEW x \in S
    PROVE  SumFunctionOnSet(f, S) = f[x] + SumFunctionOnSet(f, S \ {x})
<1> DEFINE Sum(s) == SumFunctionOnSet(f, s)
           G == {s \in SUBSET S : \A y \in s : Sum(s) = f[y] + Sum(s \ {y})}
<1>1. /\ \A s \in SUBSET S : Sum(s) \in Int
      /\ \A s \in SUBSET S : s # {} => Any(s) \in s /\ Sum(s) = f[Any(s)] + Sum(s \ {Any(s)})
  BY SumsOf
<1> HIDE DEF Sum
<1>2. {} \in G
  OBVIOUS
<1>3. ASSUME NEW s \in SUBSET S, s # {}, \A z \in s : s \ {z} \in G, NEW y \in s
      PROVE  Sum(s) = f[y] + Sum(s \ {y})
  <2> DEFINE a == Any(s)
  <2>1. a \in s /\ Sum(s) = f[a] + Sum(s \ {a})
    BY <1>1, <1>3
  <2> HIDE DEF a
  <2>2. CASE y = a
    BY <2>1, <2>2
  <2>3. CASE y # a
    <3>1. Sum(s \ {a}) = f[y] + Sum((s \ {a}) \ {y})
      BY <1>3, <2>1, <2>3
    <3>2. Sum(s \ {y}) = f[a] + Sum((s \ {y}) \ {a})
      BY <1>3, <2>1, <2>3
    <3>3. (s \ {a}) \ {y} = (s \ {y}) \ {a}
      OBVIOUS
    <3>4. PICK u \in Int : u = Sum((s \ {y}) \ {a})
      BY <1>1
    <3>5. f[a] \in Int /\ f[y] \in Int
      BY <2>1 DEF Ints
    <3>6. Sum(s) = f[a] + (f[y] + u) /\ Sum(s \ {y}) = f[a] + u
      BY <2>1, <3>1, <3>2, <3>3, <3>4
    <3> QED BY <3>5, <3>6
  <2> QED BY <2>2, <2>3
<1>4. \A s \in SUBSET S : s \in G
  <2>1. \A s \in SUBSET S : s # {} /\ (\A z \in s : s \ {z} \in G) => s \in G
    BY <1>3
  <2> HIDE DEF G
  <2> QED BY <1>2, <2>1, SubsetInduction, Zenon
<1>5. Sum(S) = f[x] + Sum(S \ {x})
  BY <1>4
<1> QED BY <1>5 DEF Sum

\* Sums of sums, and sums that agree.
LEMMA SumAdd ==
    ASSUME NEW S, IsFiniteSet(S), NEW f, Ints(f, S), NEW g, Ints(g, S),
           NEW h, \A x \in S : h[x] = f[x] + g[x]
    PROVE  SumFunctionOnSet(h, S) = SumFunctionOnSet(f, S) + SumFunctionOnSet(g, S)
<1> DEFINE F(s) == SumFunctionOnSet(f, s)
           E(s) == SumFunctionOnSet(g, s)
           H(s) == SumFunctionOnSet(h, s)
           G == {s \in SUBSET S : H(s) = F(s) + E(s)}
<1>1. Ints(h, S)
  BY DEF Ints
<1>2. \A s \in SUBSET S : F(s) \in Int /\ E(s) \in Int /\ H(s) \in Int
  BY <1>1, SumsOf
<1>3. {} \in G
  <2>1. F({}) = 0 /\ E({}) = 0 /\ H({}) = 0
    BY <1>1, SumsOf
  <2> HIDE DEF F, E, H
  <2> QED BY <2>1
<1>4. ASSUME NEW s \in SUBSET S, s # {}, \A x \in s : s \ {x} \in G
      PROVE  s \in G
  <2> DEFINE a == Any(s)
  <2>1. /\ a \in s
        /\ F(s) = f[a] + F(s \ {a}) /\ E(s) = g[a] + E(s \ {a}) /\ H(s) = h[a] + H(s \ {a})
    <3>1. a \in s /\ F(s) = f[a] + F(s \ {a})
      BY <1>4, SumsOf
    <3>2. E(s) = g[a] + E(s \ {a})
      BY <1>4, SumsOf
    <3>3. H(s) = h[a] + H(s \ {a})
      BY <1>1, <1>4, SumsOf
    <3> QED BY <3>1, <3>2, <3>3
  <2> HIDE DEF a, F, E, H
  <2>2. H(s \ {a}) = F(s \ {a}) + E(s \ {a})
    BY <1>4, <2>1
  <2>3. f[a] \in Int /\ g[a] \in Int /\ h[a] = f[a] + g[a]
    BY <2>1 DEF Ints
  <2>4. F(s \ {a}) \in Int /\ E(s \ {a}) \in Int
    BY <1>2
  <2> QED BY <2>1, <2>2, <2>3, <2>4
<1> HIDE DEF F, E, H
<1>5. \A s \in SUBSET S : s \in G
  <2>1. \A s \in SUBSET S : s # {} /\ (\A x \in s : s \ {x} \in G) => s \in G
    BY <1>4
  <2> HIDE DEF G
  <2> QED BY <1>3, <2>1, SubsetInduction, Zenon
<1>6. H(S) = F(S) + E(S)
  BY <1>5
<1> QED BY <1>6 DEF F, E, H

LEMMA SumZero ==
    ASSUME NEW S, IsFiniteSet(S), NEW f, \A x \in S : f[x] = 0
    PROVE  SumFunctionOnSet(f, S) = 0
<1> DEFINE F(s) == SumFunctionOnSet(f, s)
           G == {s \in SUBSET S : F(s) = 0}
<1>1. Ints(f, S)
  BY DEF Ints
<1>2. {} \in G
  BY <1>1, SumsOf
<1>3. \A s \in SUBSET S : s # {} /\ (\A x \in s : s \ {x} \in G) => s \in G
  <2> SUFFICES ASSUME NEW s \in SUBSET S, s # {}, \A x \in s : s \ {x} \in G PROVE F(s) = 0
    OBVIOUS
  <2>1. Any(s) \in s /\ F(s) = f[Any(s)] + F(s \ {Any(s)})
    BY <1>1, SumsOf
  <2> HIDE DEF F
  <2> QED BY <2>1
<1> HIDE DEF G
<1>4. \A s \in SUBSET S : s \in G
  BY <1>2, <1>3, SubsetInduction, Zenon
<1> QED BY <1>4 DEF G

LEMMA SumSame ==
    ASSUME NEW S, IsFiniteSet(S), NEW f, Ints(f, S), NEW g, \A x \in S : g[x] = f[x]
    PROVE  SumFunctionOnSet(g, S) = SumFunctionOnSet(f, S)
<1> DEFINE z == [x \in S |-> 0]
<1>1. Ints(z, S) /\ \A x \in S : z[x] = 0
  BY DEF Ints
<1>2. \A x \in S : g[x] = f[x] + z[x]
  BY <1>1 DEF Ints
<1> HIDE DEF z
<1>3. SumFunctionOnSet(g, S) = SumFunctionOnSet(f, S) + SumFunctionOnSet(z, S)
  BY <1>1, <1>2, SumAdd
<1>4. SumFunctionOnSet(z, S) = 0 /\ SumFunctionOnSet(f, S) \in Int
  BY <1>1, SumZero, SumType
<1> QED BY <1>3, <1>4

LEMMA SumNat ==
    ASSUME NEW S, IsFiniteSet(S), NEW f, \A x \in S : f[x] \in Nat
    PROVE  SumFunctionOnSet(f, S) \in Nat
<1> DEFINE F(s) == SumFunctionOnSet(f, s)
           G == {s \in SUBSET S : F(s) \in Nat}
<1>1. Ints(f, S)
  BY DEF Ints
<1>2. {} \in G
  BY <1>1, SumsOf
<1>3. \A s \in SUBSET S : s # {} /\ (\A x \in s : s \ {x} \in G) => s \in G
  <2> SUFFICES ASSUME NEW s \in SUBSET S, s # {}, \A x \in s : s \ {x} \in G PROVE F(s) \in Nat
    OBVIOUS
  <2>1. Any(s) \in s /\ F(s) = f[Any(s)] + F(s \ {Any(s)})
    BY <1>1, SumsOf
  <2> HIDE DEF F
  <2>2. F(s \ {Any(s)}) \in Nat /\ f[Any(s)] \in Nat
    BY <2>1
  <2> QED BY <2>1, <2>2
<1> HIDE DEF G
<1>4. \A s \in SUBSET S : s \in G
  BY <1>2, <1>3, SubsetInduction, Zenon
<1> QED BY <1>4 DEF G

\* Zeros may be left out.
LEMMA SumPart ==
    ASSUME NEW S, IsFiniteSet(S), NEW f, Ints(f, S), NEW T \in SUBSET S,
           \A x \in S \ T : f[x] = 0
    PROVE  SumFunctionOnSet(f, S) = SumFunctionOnSet(f, T)
<1> DEFINE F(s) == SumFunctionOnSet(f, s)
           G == {s \in SUBSET S : F(s) = F(s \cap T)}
<1>1. {} \in G
  <2>1. {} \cap T = {}
    OBVIOUS
  <2> QED BY <2>1
<1>2. \A s \in SUBSET S : s # {} /\ (\A x \in s : s \ {x} \in G) => s \in G
  <2> SUFFICES ASSUME NEW s \in SUBSET S, s # {}, \A x \in s : s \ {x} \in G
               PROVE  F(s) = F(s \cap T)
    OBVIOUS
  <2> DEFINE a == Any(s)
  <2>1. a \in s /\ F(s) = f[a] + F(s \ {a}) /\ F(s \cap T) \in Int
    BY SumsOf
  <2> HIDE DEF a
  <2>2. F(s \ {a}) = F((s \ {a}) \cap T)
    BY <2>1
  <2>3. CASE a \in T
    <3>1. a \in s \cap T /\ (s \ {a}) \cap T = (s \cap T) \ {a}
      BY <2>1, <2>3
    <3>2. IsFiniteSet(s \cap T) /\ Ints(f, s \cap T)
      BY FS_Subset DEF Ints
    <3>3. F(s \cap T) = f[a] + F((s \cap T) \ {a})
      BY <3>1, <3>2, SumPick
    <3> HIDE DEF F
    <3> QED BY <2>1, <2>2, <3>1, <3>3
  <2>4. CASE a \notin T
    <3>1. (s \ {a}) \cap T = s \cap T /\ f[a] = 0
      BY <2>1, <2>4
    <3> HIDE DEF F
    <3> QED BY <2>1, <2>2, <3>1
  <2> QED BY <2>3, <2>4
<1> HIDE DEF G
<1>3. \A s \in SUBSET S : s \in G
  BY <1>1, <1>2, SubsetInduction, Zenon
<1>4. F(S) = F(S \cap T) /\ S \cap T = T
  BY <1>3 DEF G
<1> HIDE DEF F
<1>5. F(S) = F(T)
  BY <1>4
<1> QED BY <1>5 DEF F

\* One value changes by d.
LEMMA SumChange ==
    ASSUME NEW S, IsFiniteSet(S), NEW f, Ints(f, S), NEW a \in S, NEW d \in Int,
           NEW g, g[a] = f[a] + d, \A x \in S \ {a} : g[x] = f[x]
    PROVE  SumFunctionOnSet(g, S) = SumFunctionOnSet(f, S) + d
<1>1. Ints(g, S) /\ f[a] \in Int
  BY DEF Ints
<1>2. IsFiniteSet(S \ {a}) /\ Ints(f, S \ {a})
  BY FS_RemoveElement DEF Ints
<1>3. SumFunctionOnSet(g, S \ {a}) = SumFunctionOnSet(f, S \ {a})
  BY <1>2, SumSame
<1>4. SumFunctionOnSet(g, S) = g[a] + SumFunctionOnSet(g, S \ {a})
  BY <1>1, SumPick
<1>5. SumFunctionOnSet(f, S) = f[a] + SumFunctionOnSet(f, S \ {a})
  BY SumPick
<1>6. SumFunctionOnSet(f, S \ {a}) \in Int
  BY <1>2, SumType
<1> QED BY <1>1, <1>3, <1>4, <1>5, <1>6

LEMMA SumAtLeast ==
    ASSUME NEW S, IsFiniteSet(S), NEW f, \A x \in S : f[x] \in Nat, NEW a \in S
    PROVE  f[a] <= SumFunctionOnSet(f, S)
<1>1. IsFiniteSet(S \ {a}) /\ Ints(f, S)
  BY FS_RemoveElement DEF Ints
<1>2. SumFunctionOnSet(f, S \ {a}) \in Nat
  BY <1>1, SumNat
<1>3. SumFunctionOnSet(f, S) = f[a] + SumFunctionOnSet(f, S \ {a})
  BY <1>1, SumPick
<1> QED BY <1>2, <1>3

\* A sum over 1 .. n + 1 without its first value.
LEMMA SumShift ==
    ASSUME NEW n \in Nat, NEW f, Ints(f, 1 .. n + 1),
           NEW g, \A i \in 1 .. n : g[i] = f[i + 1]
    PROVE  SumFunctionOnSet(f, 1 .. n + 1) = f[1] + SumFunctionOnSet(g, 1 .. n)
<1> DEFINE Sum(h, k) == SumFunctionOnSet(h, 1 .. k)
           Bad == {k \in 0 .. n : Sum(f, k + 1) # f[1] + Sum(g, k)}
<1>1. ASSUME NEW k \in Nat PROVE IsFiniteSet(1 .. k)
  <2>1. 1 \in Int /\ k \in Int
    OBVIOUS
  <2> QED BY <2>1, FS_Interval
<1>2. ASSUME NEW h, NEW k \in Nat, Ints(h, 1 .. k + 1)
      PROVE  Sum(h, k + 1) = h[k + 1] + Sum(h, k) /\ Sum(h, k) \in Int
  <2>1. (1 .. k + 1) \ {k + 1} = 1 .. k /\ k + 1 \in 1 .. k + 1 /\ k + 1 \in Nat
    OBVIOUS
  <2>2. Ints(h, 1 .. k)
    BY <1>2 DEF Ints
  <2> QED BY <1>1, <1>2, <2>1, <2>2, SumPick, SumType
<1>3. Sum(f, 1) = f[1] + Sum(g, 0)
  <2>1. Ints(f, 1 .. 0 + 1)
    BY DEF Ints
  <2>2. Sum(f, 0 + 1) = f[0 + 1] + Sum(f, 0)
    BY <1>2, <2>1
  <2>3. Sum(f, 0) = 0 /\ Sum(g, 0) = 0
    <3>1. 1 .. 0 = {}
      OBVIOUS
    <3>2. SumFunctionOnSet(f, {}) = 0 /\ SumFunctionOnSet(g, {}) = 0
      BY FS_EmptySet, SumZero
    <3> QED BY <3>1, <3>2
  <2> HIDE DEF Sum
  <2> QED BY <2>2, <2>3
<1>4. ASSUME Bad # {} PROVE FALSE
  <2>1. Bad \in SUBSET Nat
    OBVIOUS
  <2>2. PICK k \in Bad : \A j \in Bad : k <= j
    BY <1>4, <2>1, LeastExists
  <2>3. k \in 0 .. n /\ Sum(f, k + 1) # f[1] + Sum(g, k)
    OBVIOUS
  <2>4. k # 0
    <3> SUFFICES ASSUME k = 0 PROVE FALSE
      OBVIOUS
    <3>1. k + 1 = 1
      OBVIOUS
    <3>2. Sum(f, k + 1) = f[1] + Sum(g, k)
      BY <1>3, <3>1
    <3> QED BY <2>3, <3>2
  <2>5. PICK m \in 0 .. n : k = m + 1 /\ ~(k <= m)
    <3>1. k - 1 \in 0 .. n /\ k = (k - 1) + 1 /\ ~(k <= k - 1)
      BY <2>3, <2>4
    <3> QED BY <3>1
  <2>6. Sum(f, m + 1) = f[1] + Sum(g, m)
    BY <2>2, <2>5
  <2>7. Ints(f, 1 .. (m + 1) + 1) /\ Ints(g, 1 .. m + 1)
    BY <2>3, <2>5 DEF Ints
  <2>8. Sum(f, (m + 1) + 1) = f[(m + 1) + 1] + Sum(f, m + 1) /\ m + 1 \in Nat
    BY <1>2, <2>7
  <2>9. Sum(g, m + 1) = g[m + 1] + Sum(g, m) /\ Sum(g, m) \in Int
    BY <1>2, <2>7
  <2>10. g[m + 1] = f[(m + 1) + 1] /\ g[m + 1] \in Int /\ f[1] \in Int
    BY <2>3, <2>5, <2>7 DEF Ints
  <2> HIDE DEF Sum
  <2> QED BY <2>3, <2>5, <2>6, <2>8, <2>9, <2>10
<1>5. Sum(f, n + 1) = f[1] + Sum(g, n)
  BY <1>4
<1> QED BY <1>5

LEMMA SumMono ==
    ASSUME NEW S, IsFiniteSet(S), NEW f, \A x \in S : f[x] \in Nat, NEW T \in SUBSET S
    PROVE  SumFunctionOnSet(f, T) <= SumFunctionOnSet(f, S)
<1> DEFINE p == [x \in S |-> IF x \in T THEN f[x] ELSE 0]
           q == [x \in S |-> IF x \in T THEN 0 ELSE f[x]]
<1>1. /\ \A x \in S : p[x] \in Nat /\ q[x] \in Nat /\ f[x] = p[x] + q[x]
      /\ \A x \in S \ T : p[x] = 0
      /\ \A x \in T : p[x] = f[x]
  OBVIOUS
<1> HIDE DEF p, q
<1>2. Ints(p, S) /\ Ints(q, S) /\ Ints(f, T) /\ IsFiniteSet(T)
  BY <1>1, FS_Subset DEF Ints
<1>3. SumFunctionOnSet(f, S) = SumFunctionOnSet(p, S) + SumFunctionOnSet(q, S)
  BY <1>1, <1>2, SumAdd
<1>4. SumFunctionOnSet(p, S) = SumFunctionOnSet(p, T)
  BY <1>1, <1>2, SumPart
<1>5. SumFunctionOnSet(p, T) = SumFunctionOnSet(f, T)
  BY <1>1, <1>2, SumSame
<1>6. SumFunctionOnSet(q, S) \in Nat /\ SumFunctionOnSet(f, T) \in Int
  BY <1>1, <1>2, SumNat, SumType
<1> QED BY <1>3, <1>4, <1>5, <1>6

\* Sums over all accounts.
LEMMA AccountSum ==
    ASSUME NEW f, DOMAIN f = Accounts
    PROVE  SumFunction(f) = SumFunctionOnSet(f, Accounts) /\ IsFiniteSet(Accounts)
BY VestingAssumption DEF SumFunction

LEMMA MaxIn ==
    ASSUME NEW S \in SUBSET Nat, IsFiniteSet(S), S # {}
    PROVE  Max(S) \in S
<1> DEFINE G == {s \in SUBSET S : s = {} \/ \E m \in s : \A y \in s : m >= y}
<1>1. {} \in G
  OBVIOUS
<1>2. \A s \in SUBSET S : s # {} /\ (\A x \in s : s \ {x} \in G) => s \in G
  <2> SUFFICES ASSUME NEW s \in SUBSET S, s # {}, \A x \in s : s \ {x} \in G
               PROVE  \E m \in s : \A y \in s : m >= y
    OBVIOUS
  <2>1. PICK x : x \in s
    OBVIOUS
  <2>2. s \ {x} \in G /\ x \in Nat
    BY <2>1
  <2>3. CASE s \ {x} = {}
    <3>1. \A y \in s : y = x
      BY <2>3
    <3> QED BY <2>1, <2>2, <3>1
  <2>4. CASE s \ {x} # {}
    <3>1. PICK m \in s \ {x} : \A y \in s \ {x} : m >= y
      BY <2>2, <2>4
    <3>2. m \in Nat /\ m \in s
      OBVIOUS
    <3>3. CASE m >= x
      BY <3>1, <3>2, <3>3
    <3>4. CASE x >= m
      <4>1. \A y \in s : x >= y
        <5> SUFFICES ASSUME NEW y \in s PROVE x >= y
          OBVIOUS
        <5>1. y \in Nat
          OBVIOUS
        <5>2. y = x \/ m >= y
          BY <3>1
        <5> QED BY <2>2, <3>2, <3>4, <5>1, <5>2
      <4> QED BY <2>1, <4>1
    <3> QED BY <2>2, <3>2, <3>3, <3>4
  <2> QED BY <2>3, <2>4
<1>3. S \in G
  <2> HIDE DEF G
  <2> QED BY <1>1, <1>2, SubsetInduction, Zenon
<1>4. \E m \in S : \A y \in S : m >= y
  BY <1>3
<1> QED BY <1>4 DEF Max

-----------------------------------------------------------------------------
(* The price of shares, and one payment.                                   *)

LEMMA QuotientBelow ==
    ASSUME NEW v \in Nat, NEW f \in Nat, NEW t \in Nat, t > 0, f > 0, v <= t
    PROVE  /\ (v * f) \div t \in 0 .. f
           /\ (v * f) \div t = f <=> v = t
<1>1. PICK p \in Nat : p = v * f
  OBVIOUS
<1>2. PICK q \in Int : q = p \div t
  BY <1>1
<1>3. q * t <= p /\ p < q * t + t
  BY <1>1, <1>2
<1>4. q >= 0
  <2> SUFFICES ASSUME q <= -1 PROVE FALSE
    BY <1>2
  <2>1. q * t <= -t
    BY <1>2
  <2> QED BY <1>3, <2>1
<1>5. q <= f
  <2> SUFFICES ASSUME q >= f + 1 PROVE FALSE
    BY <1>2
  <2>1. q * t >= (f + 1) * t
    BY <1>2
  <2>2. (f + 1) * t = f * t + t /\ v * f <= t * f /\ t * f = f * t
    OBVIOUS
  <2>3. p <= f * t
    BY <1>1, <2>2
  <2> QED BY <1>3, <2>1, <2>2, <2>3
<1>6. v = t => q = f
  <2> SUFFICES ASSUME v = t, q <= f - 1 PROVE FALSE
    BY <1>2, <1>5
  <2>1. q * t <= (f - 1) * t
    BY <1>2
  <2>2. (f - 1) * t = f * t - t /\ p = f * t
    BY <1>1
  <2> QED BY <1>3, <2>1, <2>2
<1>7. q = f => v = t
  <2> SUFFICES ASSUME q = f, v <= t - 1 PROVE FALSE
    OBVIOUS
  <2>1. v * f <= (t - 1) * f
    OBVIOUS
  <2>2. (t - 1) * f = f * t - f
    OBVIOUS
  <2> QED BY <1>1, <1>3, <2>1, <2>2
<1> QED BY <1>1, <1>2, <1>4, <1>5, <1>6, <1>7

\* An account is never paid more than the fund has, and the fund is used up
\* exactly with the last share.
LEMMA TokensWithin ==
    ASSUME NEW v \in Nat, NEW t \in Nat, NEW f \in Nat, f = 0 <=> t = 0, v <= t
    PROVE  /\ ToTokens(v, t, f) \in 0 .. f
           /\ f - ToTokens(v, t, f) = 0 <=> t - v = 0
<1>1. SharesPerToken \in Nat \ {0}
  BY VestingAssumption
<1>2. CASE t = 0
  <2>1. v = 0 /\ f = 0
    BY <1>2
  <2>2. 0 \div SharesPerToken = 0
    BY <1>1
  <2>3. ToTokens(v, t, f) = 0
    BY <2>1, <2>2 DEF ToTokens
  <2> QED BY <1>2, <2>1, <2>3
<1>3. CASE t # 0
  <2>1. t > 0 /\ f > 0
    BY <1>3
  <2>2. PICK q \in 0 .. f : q = (v * f) \div t /\ (q = f <=> v = t)
    BY <2>1, QuotientBelow
  <2>3. ToTokens(v, t, f) = q
    BY <2>1, <2>2 DEF ToTokens
  <2> QED BY <2>2, <2>3
<1> QED BY <1>2, <1>3

\* Balances, shares and fund as a payment finds and leaves them.
Purses == {r \in [balance : [Accounts -> Nat], total : Nat, fund : Nat] : r.fund = 0 <=> r.total = 0}

Wealth(r) == r.fund + SumFunction(r.balance)

LEMMA PaidOK ==
    ASSUME NEW r \in Purses, NEW b \in Accounts, NEW v \in Nat, v <= r.total
    PROVE  /\ Paid(r, b, v) \in Purses
           /\ Paid(r, b, v).total = r.total - v
           /\ Wealth(Paid(r, b, v)) = Wealth(r)
<1>1. /\ r.balance \in [Accounts -> Nat] /\ r.total \in Nat /\ r.fund \in Nat
      /\ r.fund = 0 <=> r.total = 0
  BY DEF Purses
<1>2. PICK k \in 0 .. r.fund : /\ k = ToTokens(v, r.total, r.fund)
                               /\ r.fund - k = 0 <=> r.total - v = 0
  <2>1. /\ ToTokens(v, r.total, r.fund) \in 0 .. r.fund
        /\ r.fund - ToTokens(v, r.total, r.fund) = 0 <=> r.total - v = 0
    BY <1>1, TokensWithin
  <2> QED BY <2>1
<1> DEFINE bal == [r.balance EXCEPT ![b] = @ + k]
<1>3. Paid(r, b, v) = [balance |-> bal, total |-> r.total - v, fund |-> r.fund - k]
  BY <1>2 DEF Paid
<1>4. bal \in [Accounts -> Nat] /\ bal[b] = r.balance[b] + k
      /\ \A x \in Accounts \ {b} : bal[x] = r.balance[x]
  BY <1>1, <1>2
<1>5. r.total - v \in Nat /\ r.fund - k \in Nat /\ k \in Int
  BY <1>1, <1>2
<1> HIDE DEF bal
<1>6. Paid(r, b, v) \in Purses /\ Paid(r, b, v).total = r.total - v
  BY <1>2, <1>3, <1>4, <1>5 DEF Purses
<1>7. SumFunction(bal) = SumFunction(r.balance) + k /\ SumFunction(r.balance) \in Int
  <2>1. DOMAIN bal = Accounts /\ DOMAIN r.balance = Accounts /\ Ints(r.balance, Accounts)
    BY <1>1, <1>4 DEF Ints
  <2>2. SumFunctionOnSet(bal, Accounts) = SumFunctionOnSet(r.balance, Accounts) + k
    BY <1>4, <1>5, <2>1, AccountSum, SumChange
  <2> QED BY <2>1, <2>2, AccountSum, SumType
<1>8. Wealth(Paid(r, b, v)) = (r.fund - k) + SumFunction(bal)
  BY <1>3 DEF Wealth
<1> QED BY <1>1, <1>5, <1>6, <1>7, <1>8 DEF Wealth

-----------------------------------------------------------------------------
(* The inductive invariant.                                                *)

Downs == [rate : Nat, total : Nat, withdrawn : Nat, on : BOOLEAN]

TypeOK ==
    /\ balance \in [Accounts -> Nat]
    /\ shares \in [Accounts -> Nat]
    /\ delegated \in [Accounts -> Int]
    /\ received \in [Accounts -> Int]
    /\ down \in [Accounts -> Downs]
    /\ routes \in [Accounts -> [Accounts -> [percent : Nat, auto : BOOLEAN]]]
    /\ delegations \in [Accounts -> [Accounts -> Nat \cup {None}]]
    /\ returns \in Seq([delegator : Accounts, shares : Nat])
    /\ total \in Nat
    /\ fund \in Nat

\* A power-down has gone down by whole parts, and not to its end: only then
\* is what division by the rate leaves what remains.
WholeParts(a) ==
    down[a].on => /\ down[a].rate > 0
                  /\ down[a].withdrawn < down[a].total
                  /\ \E k \in Nat : down[a].withdrawn = k * down[a].rate

Booked(a) == delegated[a] = Lent(a) + OnTheirWay(a) /\ received[a] = Borrowed(a)

Covered(a) == shares[a] - delegated[a] >= IF down[a].on THEN Remaining(a) ELSE 0

IInv == TypeOK /\ SharesConserved /\ \A a \in Accounts : WholeParts(a) /\ Booked(a) /\ Covered(a)

-----------------------------------------------------------------------------
(* A payout.                                                               *)

LEMMA DepositType ==
    ASSUME TypeOK, NEW a \in Accounts, NEW b \in Accounts, NEW part \in Nat
    PROVE  /\ Deposit(a, b, part) \in Nat
           /\ AutoDeposit(a, b, part) \in Nat
           /\ Deposit(a, b, part) =
                 AutoDeposit(a, b, part) + (IF b \in Liquid(a) THEN Deposit(a, b, part) ELSE 0)
<1>1. /\ routes[a][b].percent \in Nat /\ routes[a][b].auto \in BOOLEAN
      /\ Full \in Nat \ {0}
  <2>1. routes[a][b] \in [percent : Nat, auto : BOOLEAN]
    BY DEF TypeOK
  <2>2. Full \in Nat \ {0}
    BY VestingAssumption
  <2> QED BY <2>1, <2>2
<1>2. PICK p \in Nat : p = part * routes[a][b].percent
  BY <1>1
<1>3. p \div Full \in Nat /\ (p = 0 => p \div Full = 0)
  BY <1>1
<1>4. Deposit(a, b, part) = p \div Full
  BY <1>2 DEF Deposit
<1>5. routes[a][b].percent = 0 => Deposit(a, b, part) = 0
  BY <1>2, <1>3, <1>4
<1>6. b \in Liquid(a) <=> routes[a][b].percent # 0 /\ ~routes[a][b].auto
  BY DEF Liquid, Targets
<1>7. Deposit(a, b, part) \in Nat /\ AutoDeposit(a, b, part) \in Nat
  BY <1>3, <1>4 DEF AutoDeposit
<1>8. CASE routes[a][b].auto
  BY <1>6, <1>7, <1>8 DEF AutoDeposit
<1>9. CASE ~routes[a][b].auto
  BY <1>5, <1>6, <1>7, <1>9 DEF AutoDeposit
<1> QED BY <1>1, <1>7, <1>8, <1>9

Start == [balance |-> balance, total |-> total, fund |-> fund]

Deposits(a, part) == [b \in Accounts |-> Deposit(a, b, part)]

\* What the payments to the targets in s leave.
PaidTo(a, part, s) ==
    {r \in Purses : /\ r.total = total - SumFunctionOnSet(Deposits(a, part), s)
                    /\ Wealth(r) = Wealth(Start)}

IsPay(h, a, part) ==
    h = [s \in SUBSET Liquid(a) |->
           IF s = {} THEN Start
           ELSE Paid(h[s \ {Max(s)}], Max(s), Deposit(a, Max(s), part))]

LEMMA PayStep ==
    ASSUME TypeOK, NEW a \in Accounts, NEW part \in Nat,
           SumFunctionOnSet(Deposits(a, part), Liquid(a)) <= total,
           NEW s \in SUBSET Liquid(a), s # {},
           NEW r \in PaidTo(a, part, s \ {Max(s)})
    PROVE  /\ Max(s) \in s
           /\ Paid(r, Max(s), Deposit(a, Max(s), part)) \in PaidTo(a, part, s)
<1> DEFINE m == Max(s)
           f == Deposits(a, part)
<1>1. Liquid(a) \in SUBSET Accounts /\ IsFiniteSet(Accounts) /\ Accounts \in SUBSET Nat
  BY VestingAssumption DEF Liquid, Targets
<1>2. s \in SUBSET Accounts /\ s \in SUBSET Nat /\ IsFiniteSet(s) /\ IsFiniteSet(Liquid(a))
  BY <1>1, FS_Subset
<1>3. m \in s
  BY <1>2, MaxIn
<1> HIDE DEF m
<1>4. \A x \in Accounts : f[x] = Deposit(a, x, part) /\ f[x] \in Nat
  BY DepositType DEF Deposits
<1> HIDE DEF f
<1>5. Ints(f, s) /\ m \in Accounts
  BY <1>2, <1>3, <1>4 DEF Ints
<1>6. SumFunctionOnSet(f, s) = f[m] + SumFunctionOnSet(f, s \ {m})
  BY <1>2, <1>3, <1>5, SumPick
<1>7. SumFunctionOnSet(f, s) <= SumFunctionOnSet(f, Liquid(a))
  BY <1>1, <1>2, <1>4, SumMono
<1>8. SumFunctionOnSet(f, s \ {m}) \in Int /\ SumFunctionOnSet(f, Liquid(a)) \in Int
  <2>1. IsFiniteSet(s \ {m}) /\ Ints(f, s \ {m}) /\ Ints(f, Liquid(a))
    BY <1>1, <1>2, <1>4, FS_RemoveElement DEF Ints
  <2> QED BY <1>2, <2>1, SumType
<1>9. /\ r \in Purses /\ r.total = total - SumFunctionOnSet(f, s \ {m})
      /\ Wealth(r) = Wealth(Start)
  BY DEF PaidTo, f, m
<1>10. f[m] \in Nat /\ total \in Nat /\ SumFunctionOnSet(f, Liquid(a)) <= total
  BY <1>4, <1>5 DEF TypeOK, f
<1>11. f[m] <= r.total /\ r.total - f[m] = total - SumFunctionOnSet(f, s)
  BY <1>6, <1>7, <1>8, <1>9, <1>10
<1>12. /\ Paid(r, m, f[m]) \in Purses
       /\ Paid(r, m, f[m]).total = total - SumFunctionOnSet(f, s)
       /\ Wealth(Paid(r, m, f[m])) = Wealth(Start)
  BY <1>5, <1>9, <1>10, <1>11, PaidOK
<1>13. f[m] = Deposit(a, m, part)
  BY <1>4, <1>5
<1> QED BY <1>3, <1>12, <1>13 DEF PaidTo, f, m

LEMMA PayStart ==
    ASSUME TypeOK, SharesConserved, NEW a, NEW part
    PROVE  Start \in PaidTo(a, part, {})
<1>1. Start \in Purses /\ Start.total = total
  BY DEF Start, Purses, TypeOK, SharesConserved
<1>2. SumFunctionOnSet(Deposits(a, part), {}) = 0
  BY FS_EmptySet, SumZero
<1> QED BY <1>1, <1>2 DEF PaidTo, TypeOK

\* Any function that pays along the routes leaves what it should.
LEMMA PayInduction ==
    ASSUME TypeOK, SharesConserved, NEW a \in Accounts, NEW part \in Nat,
           SumFunctionOnSet(Deposits(a, part), Liquid(a)) <= total,
           NEW h, h[{}] = Start,
           \A s \in SUBSET Liquid(a) :
              s # {} /\ h[s \ {Max(s)}] \in PaidTo(a, part, s \ {Max(s)}) =>
                 h[s] = Paid(h[s \ {Max(s)}], Max(s), Deposit(a, Max(s), part))
    PROVE  \A s \in SUBSET Liquid(a) : h[s] \in PaidTo(a, part, s)
<1> DEFINE G == {s \in SUBSET Liquid(a) : h[s] \in PaidTo(a, part, s)}
<1>1. IsFiniteSet(Liquid(a)) /\ Liquid(a) \in SUBSET Nat
  <2>1. Liquid(a) \in SUBSET Accounts
    BY DEF Liquid, Targets
  <2> QED BY <2>1, FS_Subset, VestingAssumption
<1>2. {} \in G
  BY PayStart
<1>3. \A s \in SUBSET Liquid(a) : s # {} /\ (\A x \in s : s \ {x} \in G) => s \in G
  <2> SUFFICES ASSUME NEW s \in SUBSET Liquid(a), s # {}, \A x \in s : s \ {x} \in G
               PROVE  h[s] \in PaidTo(a, part, s)
    OBVIOUS
  <2>1. Max(s) \in s
    <3>1. IsFiniteSet(s) /\ s \in SUBSET Nat
      BY <1>1, FS_Subset
    <3> QED BY <3>1, MaxIn
  <2>2. h[s \ {Max(s)}] \in PaidTo(a, part, s \ {Max(s)})
    BY <2>1
  <2>3. h[s] = Paid(h[s \ {Max(s)}], Max(s), Deposit(a, Max(s), part))
    BY <2>2
  <2> QED BY <2>2, <2>3, PayStep
<1>4. \A s \in SUBSET Liquid(a) : s \in G
  <2> HIDE DEF G
  <2> QED BY <1>1, <1>2, <1>3, SubsetInduction, Zenon
<1> QED BY <1>4

LEMMA PayExists ==
    ASSUME TypeOK, SharesConserved, NEW a \in Accounts, NEW part \in Nat,
           SumFunctionOnSet(Deposits(a, part), Liquid(a)) <= total
    PROVE  \E h : IsPay(h, a, part)
<1> DEFINE L  == Liquid(a)
           c  == [s \in SUBSET L |-> Max(s)]
           op == [p \in L \X Purses |-> Paid(p[2], p[1], Deposit(a, p[1], part))]
<1>1. IsFiniteSet(L) /\ L \in SUBSET Nat
  <2>1. L \in SUBSET Accounts
    BY DEF Liquid, Targets
  <2> QED BY <2>1, FS_Subset, VestingAssumption
<1>2. \A s \in SUBSET L : s # {} => c[s] = Max(s) /\ Max(s) \in s
  <2> SUFFICES ASSUME NEW s \in SUBSET L, s # {} PROVE Max(s) \in s
    OBVIOUS
  <2>1. IsFiniteSet(s) /\ s \in SUBSET Nat
    BY <1>1, FS_Subset
  <2> QED BY <2>1, MaxIn
<1>3. \A x \in L, r \in Purses : op[<<x, r>>] = Paid(r, x, Deposit(a, x, part))
  OBVIOUS
<1> HIDE DEF c, op, L
<1>4. PICK h : h = [s \in SUBSET L |-> h[s]] /\ FoldEq(h, L, c, Start, op)
  <2>1. \A s \in SUBSET L : s # {} => c[s] \in s
    BY <1>2
  <2> QED BY <1>1, <2>1, FoldExists, Zenon
<1>5. h[{}] = Start
  BY <1>4 DEF FoldEq
<1>6. ASSUME NEW s \in SUBSET L, s # {}, h[s \ {Max(s)}] \in PaidTo(a, part, s \ {Max(s)})
      PROVE  h[s] = Paid(h[s \ {Max(s)}], Max(s), Deposit(a, Max(s), part))
  <2>1. h[s] = op[<<Max(s), h[s \ {Max(s)}]>>]
    BY <1>2, <1>4, <1>6 DEF FoldEq
  <2>2. Max(s) \in L /\ h[s \ {Max(s)}] \in Purses
    BY <1>2, <1>6 DEF PaidTo
  <2> QED BY <1>3, <2>1, <2>2
<1>7. \A s \in SUBSET L : h[s] \in PaidTo(a, part, s)
  BY <1>5, <1>6, PayInduction DEF L
<1>8. \A s \in SUBSET L : h[s] = IF s = {} THEN Start
                                 ELSE Paid(h[s \ {Max(s)}], Max(s), Deposit(a, Max(s), part))
  <2> SUFFICES ASSUME NEW s \in SUBSET L, s # {}
               PROVE  h[s] = Paid(h[s \ {Max(s)}], Max(s), Deposit(a, Max(s), part))
    BY <1>5
  <2>1. s \ {Max(s)} \in SUBSET L
    OBVIOUS
  <2> QED BY <1>6, <1>7, <2>1
<1>9. IsPay(h, a, part)
  BY <1>4, <1>8, Zenon DEF IsPay, L
<1> QED BY <1>9

\* A payout of a part the account has: the tokens only change hands, and the
\* shares that are gone are the part less what was deposited as shares.
LEMMA PayoutOK ==
    ASSUME TypeOK, SharesConserved, NEW a \in Accounts, NEW part \in Nat,
           part <= shares[a], Kept(a, part) >= 0
    PROVE  /\ Payout(a, part) \in Purses
           /\ Wealth(Payout(a, part)) = Wealth(Start)
           /\ Payout(a, part).total =
                 total + SumFunction([b \in Accounts |-> AutoDeposit(a, b, part)]) - part
<1> DEFINE f == Deposits(a, part)
           g == [b \in Accounts |-> AutoDeposit(a, b, part)]
           l == [b \in Accounts |-> IF b \in Liquid(a) THEN Deposit(a, b, part) ELSE 0]
           F == SumFunctionOnSet(f, Accounts)
           E == SumFunctionOnSet(g, Accounts)
           D == SumFunctionOnSet(f, Liquid(a))
           h == CHOOSE h : IsPay(h, a, part)
           k == Kept(a, part)
<1>1. IsFiniteSet(Accounts) /\ Liquid(a) \in SUBSET Accounts
  BY VestingAssumption DEF Liquid, Targets
<1>2. \A b \in Accounts : /\ f[b] \in Nat /\ g[b] \in Nat /\ l[b] \in Nat /\ f[b] = g[b] + l[b]
                          /\ b \notin Liquid(a) => l[b] = 0
                          /\ b \in Liquid(a) => l[b] = f[b]
  BY DepositType DEF Deposits
<1>3. k = part - F /\ SumFunction(g) = E
  BY AccountSum DEF Kept, Deposits
<1>4. Payout(a, part) = Paid(h[Liquid(a)], a, k)
  BY DEF Payout, MapThenFoldSet, IsPay, Start
<1> HIDE DEF f, g, l, h, k
<1>5. Ints(f, Accounts) /\ Ints(g, Accounts) /\ Ints(l, Accounts) /\ Ints(f, Liquid(a))
  BY <1>1, <1>2 DEF Ints
<1>6. F = E + D
  <2>1. F = E + SumFunctionOnSet(l, Accounts)
    BY <1>1, <1>2, <1>5, SumAdd
  <2>2. SumFunctionOnSet(l, Accounts) = SumFunctionOnSet(l, Liquid(a))
    BY <1>1, <1>2, <1>5, SumPart
  <2>3. SumFunctionOnSet(l, Liquid(a)) = D
    <3>1. IsFiniteSet(Liquid(a))
      BY <1>1, FS_Subset
    <3> QED BY <1>1, <1>2, <1>5, <3>1, SumSame
  <2> QED BY <2>1, <2>2, <2>3
<1>7. F \in Nat /\ E \in Nat /\ D \in Nat
  <2>1. IsFiniteSet(Liquid(a)) /\ \A b \in Liquid(a) : f[b] \in Nat
    BY <1>1, <1>2, FS_Subset
  <2> QED BY <1>1, <1>2, <2>1, SumNat
<1>8. part <= total
  <2>1. total = SumFunctionOnSet(shares, Accounts) /\ \A b \in Accounts : shares[b] \in Nat
    BY AccountSum DEF SharesConserved, TypeOK
  <2>2. shares[a] <= total /\ total \in Nat
    BY <1>1, <2>1, SumAtLeast DEF TypeOK
  <2> QED BY <2>1, <2>2
<1>9. total \in Nat /\ k >= 0
  BY DEF TypeOK, k
<1> HIDE DEF F, E, D
<1>10. D <= total /\ k \in Nat /\ k <= total - D
  BY <1>3, <1>6, <1>7, <1>8, <1>9
<1>11. IsPay(h, a, part)
  BY <1>10, PayExists DEF h, D, f
<1>12. h[Liquid(a)] \in PaidTo(a, part, Liquid(a))
  <2>1. \A s \in SUBSET Liquid(a) :
           h[s] = IF s = {} THEN Start
                  ELSE Paid(h[s \ {Max(s)}], Max(s), Deposit(a, Max(s), part))
    BY <1>11, Zenon DEF IsPay
  <2>2. h[{}] = Start
    BY <2>1
  <2>3. \A s \in SUBSET Liquid(a) : h[s] \in PaidTo(a, part, s)
    <3>1. \A s \in SUBSET Liquid(a) :
             s # {} /\ h[s \ {Max(s)}] \in PaidTo(a, part, s \ {Max(s)}) =>
                h[s] = Paid(h[s \ {Max(s)}], Max(s), Deposit(a, Max(s), part))
      BY <2>1
    <3>2. SumFunctionOnSet(Deposits(a, part), Liquid(a)) <= total
      BY <1>10 DEF D, f
    <3> QED BY <2>2, <3>1, <3>2, PayInduction
  <2> QED BY <2>3
<1>13. PICK r \in Purses : /\ r = h[Liquid(a)]
                           /\ r.total = total - D
                           /\ Wealth(r) = Wealth(Start)
  BY <1>12 DEF PaidTo, D, f
<1>14. /\ Paid(r, a, k) \in Purses
       /\ Paid(r, a, k).total = (total - D) - k
       /\ Wealth(Paid(r, a, k)) = Wealth(Start)
  BY <1>10, <1>13, PaidOK
<1>15. (total - D) - k = total + E - part
  BY <1>3, <1>6, <1>7, <1>9
<1>16. Payout(a, part).total = total + SumFunction(g) - part
  BY <1>3, <1>4, <1>13, <1>14, <1>15
<1> QED BY <1>4, <1>13, <1>14, <1>16 DEF g

-----------------------------------------------------------------------------
(* A weekly part.                                                          *)

LEMMA ModRem ==
    ASSUME NEW t \in Nat, NEW r \in Nat, r > 0, NEW k \in Nat,
           k * r <= t, t - k * r < r
    PROVE  t % r = t - k * r
<1>1. PICK q \in Int : q = t \div r
  OBVIOUS
<1>2. t % r \in 0 .. r - 1 /\ q * r <= t /\ t < q * r + r
  BY <1>1
<1>3. PICK kr \in Int : kr = k * r
  OBVIOUS
<1>4. PICK qr \in Int : qr = q * r
  OBVIOUS
<1>5. ~(q <= k - 1)
  <2> SUFFICES ASSUME q <= k - 1 PROVE FALSE
    OBVIOUS
  <2>1. q * r <= (k - 1) * r /\ (k - 1) * r = k * r - r
    OBVIOUS
  <2> QED BY <1>2, <1>3, <1>4, <2>1
<1>6. ~(q >= k + 1)
  <2> SUFFICES ASSUME q >= k + 1 PROVE FALSE
    OBVIOUS
  <2>1. q * r >= (k + 1) * r /\ (k + 1) * r = k * r + r
    OBVIOUS
  <2> QED BY <1>2, <1>3, <1>4, <2>1
<1>7. q = k
  BY <1>5, <1>6
<1>8. t % r = t - r * (t \div r)
  BY SMTT(30)
<1>9. r * (t \div r) = k * r
  BY <1>1, <1>7
<1> QED BY <1>8, <1>9

LEMMA BookedNat ==
    ASSUME TypeOK, NEW a \in Accounts
    PROVE  Lent(a) \in Nat /\ Borrowed(a) \in Nat /\ OnTheirWay(a) \in Nat
<1>1. \A x, y \in Accounts : Loan(x, y) \in Nat
  BY DEF Loan, TypeOK, None
<1>2. IsFiniteSet(Accounts) /\ IsFiniteSet(DOMAIN returns)
  <2>1. DOMAIN returns = 1 .. Len(returns) /\ Len(returns) \in Int /\ 1 \in Int
    BY DEF TypeOK
  <2> QED BY <2>1, FS_Interval, VestingAssumption
<1>3. Lent(a) \in Nat
  <2> DEFINE f == [b \in Accounts |-> Loan(a, b)]
  <2>1. (\A b \in Accounts : f[b] \in Nat) /\ DOMAIN f = Accounts
    BY <1>1
  <2>2. SumFunction(f) \in Nat
    BY <1>2, <2>1, SumNat, AccountSum
  <2> QED BY <2>2 DEF Lent
<1>4. Borrowed(a) \in Nat
  <2> DEFINE f == [b \in Accounts |-> Loan(b, a)]
  <2>1. (\A b \in Accounts : f[b] \in Nat) /\ DOMAIN f = Accounts
    BY <1>1
  <2>2. SumFunction(f) \in Nat
    BY <1>2, <2>1, SumNat, AccountSum
  <2> QED BY <2>2 DEF Borrowed
<1>5. OnTheirWay(a) \in Nat
  <2> DEFINE f == [i \in DOMAIN returns |-> IF returns[i].delegator = a THEN returns[i].shares ELSE 0]
  <2>1. (\A i \in DOMAIN returns : f[i] \in Nat) /\ DOMAIN f = DOMAIN returns
    <3> DEFINE R == [delegator : Accounts, shares : Nat]
    <3>0. returns \in Seq(R)
      BY DEF TypeOK
    <3> HIDE DEF R
    <3>1. \A i \in DOMAIN returns : returns[i] \in R
      BY <3>0
    <3> USE DEF R
    <3>2. \A i \in DOMAIN returns : returns[i].shares \in Nat
      BY <3>1
    <3> QED BY <3>2
  <2>2. SumFunction(f) \in Nat
    BY <1>2, <2>1, SumNat DEF SumFunction
  <2> QED BY <2>2 DEF OnTheirWay
<1> QED BY <1>3, <1>4, <1>5

\* A power-down that goes on takes a whole part, or all that is left of it.
LEMMA PartOK ==
    ASSUME IInv, NEW a \in Accounts, down[a].on
    PROVE  /\ Part(a) \in Nat /\ Part(a) > 0
           /\ Part(a) <= Remaining(a) /\ Remaining(a) <= shares[a] - delegated[a]
           /\ Remaining(a) \in Nat /\ Part(a) <= shares[a]
           /\ Part(a) = Remaining(a) \/ Part(a) = down[a].rate
<1>1. /\ down[a] \in Downs /\ shares[a] \in Nat /\ delegated[a] \in Int
      /\ WholeParts(a) /\ Booked(a) /\ Covered(a)
  BY DEF IInv, TypeOK
<1>2. /\ down[a].rate \in Nat /\ down[a].total \in Nat /\ down[a].withdrawn \in Nat
      /\ down[a].rate > 0 /\ down[a].withdrawn < down[a].total
  BY <1>1 DEF WholeParts, Downs
<1>3. PICK k \in Nat : down[a].withdrawn = k * down[a].rate
  BY <1>1 DEF WholeParts
<1>4. delegated[a] >= 0
  BY <1>1, BookedNat DEF Booked, IInv
<1>5. /\ Remaining(a) \in Nat /\ Remaining(a) > 0
      /\ Remaining(a) = down[a].total - down[a].withdrawn
  BY <1>2 DEF Remaining
<1>6. Remaining(a) <= shares[a] - delegated[a] /\ Remaining(a) <= shares[a]
  BY <1>1, <1>4, <1>5 DEF Covered
<1>7. CASE Remaining(a) < down[a].rate
  <2>1. down[a].total % down[a].rate = Remaining(a)
    BY <1>2, <1>3, <1>5, <1>7, ModRem
  <2>2. Part(a) = Remaining(a)
    BY <1>1, <1>5, <1>6, <1>7, <2>1 DEF Part, Lesser
  <2> QED BY <1>1, <1>5, <1>6, <2>2
<1>8. CASE ~(Remaining(a) < down[a].rate)
  <2>1. Part(a) = down[a].rate
    BY <1>1, <1>2, <1>5, <1>6, <1>8 DEF Part, Lesser
  <2> QED BY <1>1, <1>2, <1>5, <1>6, <1>8, <2>1
<1> QED BY <1>7, <1>8

-----------------------------------------------------------------------------
(* The steps.                                                              *)

Books == <<delegated, received, delegations, returns>>

LEMMA BooksKept ==
    ASSUME UNCHANGED Books, NEW a \in Accounts
    PROVE  Booked(a)' <=> Booked(a)
<1>1. \A x, y : Loan(x, y)' = Loan(x, y)
  BY DEF Books, Loan
<1>2. Lent(a)' = Lent(a) /\ Borrowed(a)' = Borrowed(a)
  BY <1>1, Zenon DEF Lent, Borrowed
<1>3. OnTheirWay(a)' = OnTheirWay(a)
  BY Zenon DEF OnTheirWay, Books
<1> QED BY <1>2, <1>3 DEF Booked, Books

\* Delegation b of a changes by d.
LEMMA LoanChanges ==
    ASSUME TypeOK, NEW a \in Accounts, NEW b \in Accounts,
           \A x, y \in Accounts : x # a \/ y # b => Loan(x, y)' = Loan(x, y),
           NEW d \in Int, Loan(a, b)' = Loan(a, b) + d,
           NEW c \in Accounts
    PROVE  /\ Lent(c)' = Lent(c) + (IF c = a THEN d ELSE 0)
           /\ Borrowed(c)' = Borrowed(c) + (IF c = b THEN d ELSE 0)
<1>1. \A x, y \in Accounts : Loan(x, y) \in Int
  BY DEF Loan, TypeOK, None
<1>2. \A x, y \in Accounts : x # a \/ y # b => Loan(x, y)' = Loan(x, y)
  OBVIOUS
<1> DEFINE f == [y \in Accounts |-> Loan(c, y)]
           g == [y \in Accounts |-> Loan(c, y)']
           p == [x \in Accounts |-> Loan(x, c)]
           q == [x \in Accounts |-> Loan(x, c)']
<1>3. \A x \in Accounts : f[x] = Loan(c, x) /\ g[x] = Loan(c, x)' /\ p[x] = Loan(x, c) /\ q[x] = Loan(x, c)'
  OBVIOUS
<1>4. DOMAIN f = Accounts /\ DOMAIN g = Accounts /\ DOMAIN p = Accounts /\ DOMAIN q = Accounts
  OBVIOUS
<1>5. Lent(c) = SumFunction(f) /\ Lent(c)' = SumFunction(g) /\ Borrowed(c) = SumFunction(p) /\ Borrowed(c)' = SumFunction(q)
  BY Zenon DEF Lent, Borrowed
<1> HIDE DEF f, g, p, q
<1>6. Ints(f, Accounts) /\ Ints(p, Accounts)
  BY <1>1, <1>3 DEF Ints
<1>7. /\ IsFiniteSet(Accounts)
      /\ Lent(c) = SumFunctionOnSet(f, Accounts) /\ Lent(c)' = SumFunctionOnSet(g, Accounts)
      /\ Borrowed(c) = SumFunctionOnSet(p, Accounts) /\ Borrowed(c)' = SumFunctionOnSet(q, Accounts)
  BY <1>4, <1>5, AccountSum
<1>8. Lent(c) \in Int /\ Borrowed(c) \in Int
  BY <1>6, <1>7, SumType
<1>9. Lent(c)' = Lent(c) + (IF c = a THEN d ELSE 0)
  <2>1. CASE c = a
    <3>1. g[b] = f[b] + d /\ \A y \in Accounts \ {b} : g[y] = f[y]
      BY <1>2, <1>3, <2>1
    <3> QED BY <1>6, <1>7, <2>1, <3>1, SumChange
  <2>2. CASE c # a
    <3>1. \A y \in Accounts : g[y] = f[y]
      BY <1>2, <1>3, <2>2
    <3>2. Lent(c)' = Lent(c)
      BY <1>6, <1>7, <3>1, SumSame
    <3> QED BY <1>8, <2>2, <3>2
  <2> QED BY <2>1, <2>2
<1>10. Borrowed(c)' = Borrowed(c) + (IF c = b THEN d ELSE 0)
  <2>1. CASE c = b
    <3>1. q[a] = p[a] + d /\ \A x \in Accounts \ {a} : q[x] = p[x]
      BY <1>2, <1>3, <2>1
    <3> QED BY <1>6, <1>7, <2>1, <3>1, SumChange
  <2>2. CASE c # b
    <3>1. \A x \in Accounts : q[x] = p[x]
      BY <1>2, <1>3, <2>2
    <3>2. Borrowed(c)' = Borrowed(c)
      BY <1>6, <1>7, <3>1, SumSame
    <3> QED BY <1>8, <2>2, <3>2
  <2> QED BY <2>1, <2>2
<1> QED BY <1>9, <1>10

LEMMA InitOK == Init => IInv
<1> SUFFICES ASSUME Init PROVE IInv
  OBVIOUS
<1>1. /\ IsFiniteSet(Accounts) /\ InitialShares \in [Accounts -> Nat]
      /\ InitialBalance \in [Accounts -> Nat] /\ InitialFund \in Nat
      /\ InitialFund = 0 <=> SumFunction(InitialShares) = 0
  BY VestingAssumption
<1>2. SumFunction(InitialShares) \in Nat
  BY <1>1, AccountSum, SumNat
<1>3. TypeOK
  BY <1>1, <1>2 DEF Init, TypeOK, Downs, NoDown, NoRoute, None
<1>4. SharesConserved
  BY <1>1 DEF Init, SharesConserved
<1>5. ASSUME NEW a \in Accounts PROVE WholeParts(a) /\ Booked(a) /\ Covered(a)
  <2>1. ~down[a].on /\ delegated[a] = 0 /\ received[a] = 0 /\ shares[a] \in Nat
    BY <1>1 DEF Init, NoDown
  <2>2. \A x, y \in Accounts : Loan(x, y) = 0
    BY DEF Init, Loan
  <2>3. Lent(a) = 0 /\ Borrowed(a) = 0
    <3> DEFINE f == [b \in Accounts |-> Loan(a, b)]
               p == [b \in Accounts |-> Loan(b, a)]
    <3>1. /\ DOMAIN f = Accounts /\ DOMAIN p = Accounts
          /\ \A x \in Accounts : f[x] = 0 /\ p[x] = 0
      BY <2>2
    <3>2. SumFunction(f) = 0 /\ SumFunction(p) = 0
      BY <1>1, <3>1, AccountSum, SumZero
    <3> QED BY <3>2 DEF Lent, Borrowed
  <2>4. OnTheirWay(a) = 0
    <3> DEFINE f == [i \in DOMAIN returns |-> IF returns[i].delegator = a THEN returns[i].shares ELSE 0]
    <3>1. DOMAIN f = {}
      BY DEF Init
    <3>2. SumFunction(f) = 0
      BY <3>1, FS_EmptySet, SumZero DEF SumFunction
    <3> QED BY <3>2 DEF OnTheirWay
  <2> QED BY <2>1, <2>3, <2>4 DEF WholeParts, Booked, Covered
<1> QED BY <1>3, <1>4, <1>5 DEF IInv

LEMMA TransferToVestingOK ==
    ASSUME IInv, NEW a \in Accounts, NEW b \in Accounts, NEW tokens \in 1 .. balance[a],
           TransferToVesting(a, b, tokens)
    PROVE  IInv'
<1> DEFINE new == ToShares(tokens, total, fund)
<1>1. /\ balance' = [balance EXCEPT ![a] = @ - tokens]
      /\ shares' = [shares EXCEPT ![b] = @ + new]
      /\ fund' = fund + tokens /\ total' = total + new
      /\ UNCHANGED <<delegated, received, down, routes, delegations, returns>>
  BY DEF TransferToVesting
<1>2. TypeOK /\ SharesConserved
  BY DEF IInv
<1>3. total \in Nat /\ fund \in Nat /\ balance[a] \in Nat /\ tokens \in Nat /\ tokens > 0 /\ (fund = 0 <=> total = 0)
  BY <1>2 DEF TypeOK, SharesConserved
<1>4. new \in Nat /\ (total = 0 => new > 0)
  <2>1. SharesPerToken \in Nat /\ SharesPerToken > 0
    BY VestingAssumption
  <2>2. tokens * SharesPerToken \in Nat /\ tokens * SharesPerToken > 0
    BY <1>3, <2>1
  <2>3. PICK p \in Nat : p = tokens * total
    BY <1>3
  <2>4. fund > 0 => p \div fund \in Nat
    BY <1>3
  <2> QED BY <1>3, <2>2, <2>3, <2>4 DEF ToShares
<1> HIDE DEF new
<1>5. TypeOK'
  <2>1. balance' \in [Accounts -> Nat] /\ shares' \in [Accounts -> Nat] /\ total' \in Nat /\ fund' \in Nat
    <3>1. balance[a] - tokens \in Nat /\ shares[b] + new \in Nat
      <4>1. shares[b] \in Nat
        BY <1>2 DEF TypeOK
      <4>2. tokens <= balance[a]
        OBVIOUS
      <4> QED BY <1>3, <1>4, <4>1, <4>2
    <3>2. balance \in [Accounts -> Nat] /\ shares \in [Accounts -> Nat]
      BY <1>2 DEF TypeOK
    <3>3. balance' \in [Accounts -> Nat]
      BY <1>1, <3>1, <3>2
    <3>4. shares' \in [Accounts -> Nat]
      BY <1>1, <3>1, <3>2
    <3> QED BY <1>1, <1>3, <1>4, <3>3, <3>4
  <2> QED BY <1>1, <1>2, <2>1 DEF TypeOK
<1>6. SharesConserved'
  <2>1. IsFiniteSet(Accounts) /\ Ints(shares, Accounts) /\ Ints(balance, Accounts)
    <3>1. \A x \in Accounts : shares[x] \in Int /\ balance[x] \in Int
      BY <1>2 DEF TypeOK
    <3> QED BY <3>1, VestingAssumption DEF Ints
  <2>2. /\ SumFunction(shares) = SumFunctionOnSet(shares, Accounts)
        /\ SumFunction(shares') = SumFunctionOnSet(shares', Accounts)
        /\ SumFunction(balance) = SumFunctionOnSet(balance, Accounts)
        /\ SumFunction(balance') = SumFunctionOnSet(balance', Accounts)
    <3>1. DOMAIN shares = Accounts /\ DOMAIN shares' = Accounts /\ DOMAIN balance = Accounts /\ DOMAIN balance' = Accounts
      BY <1>2, <1>5 DEF TypeOK
    <3> QED BY <3>1, AccountSum
  <2>3. SumFunction(shares') = SumFunction(shares) + new
    <3>1. shares'[b] = shares[b] + new /\ \A x \in Accounts \ {b} : shares'[x] = shares[x]
      BY <1>1, <1>2 DEF TypeOK
    <3>2. new \in Int
      BY <1>4
    <3> QED BY <2>1, <2>2, <3>1, <3>2, SumChange
  <2>4. SumFunction(balance') = SumFunction(balance) + (-tokens) /\ SumFunction(balance) \in Int
    <3>1. balance'[a] = balance[a] + (-tokens) /\ \A x \in Accounts \ {a} : balance'[x] = balance[x]
      BY <1>1, <1>2, <1>3 DEF TypeOK
    <3>2. -tokens \in Int
      BY <1>3
    <3> QED BY <2>1, <2>2, <3>1, <3>2, SumChange, SumType
  <2>5. total' = SumFunction(shares')
    BY <1>1, <1>2, <2>3 DEF SharesConserved
  <2>6. fund' + SumFunction(balance') = fund + SumFunction(balance)
    BY <1>1, <1>3, <2>4
  <2>7. fund' = 0 <=> total' = 0
    BY <1>1, <1>3, <1>4
  <2> QED BY <1>2, <2>5, <2>6, <2>7 DEF SharesConserved
<1>7. ASSUME NEW c \in Accounts PROVE WholeParts(c)' /\ Booked(c)' /\ Covered(c)'
  <2>1. WholeParts(c) /\ Booked(c) /\ Covered(c)
    BY DEF IInv
  <2>2. WholeParts(c)'
    BY <1>1, <2>1 DEF WholeParts
  <2>3. Booked(c)'
    BY <1>1, <2>1, BooksKept DEF Books
  <2>4. shares'[c] \in Nat /\ shares[c] \in Nat /\ shares'[c] >= shares[c] /\ delegated[c] \in Int
    <3>1. shares \in [Accounts -> Nat] /\ shares[c] \in Nat /\ delegated[c] \in Int
      BY <1>2 DEF TypeOK
    <3>2. shares'[c] = IF c = b THEN shares[c] + new ELSE shares[c]
      BY <1>1, <3>1
    <3> QED BY <1>4, <3>1, <3>2
  <2>5. down[c].total \in Nat /\ down[c].withdrawn \in Nat
    BY <1>2 DEF TypeOK, Downs
  <2>6. Covered(c)'
    BY <1>1, <2>1, <2>4, <2>5 DEF Covered, Remaining
  <2> QED BY <2>2, <2>3, <2>6
<1> QED BY <1>5, <1>6, <1>7 DEF IInv

LEMMA WithdrawVestingOK ==
    ASSUME IInv, NEW a \in Accounts, NEW v \in 0 .. shares[a], WithdrawVesting(a, v)
    PROVE  IInv'
<1>1. /\ UNCHANGED <<balance, shares, delegated, received, routes, delegations, returns, total, fund>>
      /\ shares[a] - delegated[a] >= v
  BY DEF WithdrawVesting
<1>2. TypeOK /\ SharesConserved
  BY DEF IInv
<1>3. v \in Nat /\ Rate(v) \in Nat /\ Rate(v) > 0
  <2>1. Intervals \in Nat /\ Intervals > 0 /\ shares[a] \in Nat
    BY <1>2, VestingAssumption DEF TypeOK
  <2>2. v \in Nat /\ v \div Intervals \in Nat
    BY <2>1
  <2> QED BY <2>2 DEF Rate
<1>4. PICK d \in Downs :
         /\ down' = [down EXCEPT ![a] = d]
         /\ d.on => d.rate > 0 /\ d.withdrawn = 0 /\ d.total = v /\ v > 0
  <2>1. CASE v = 0
    <3>1. NoDown \in Downs /\ ~NoDown.on
      BY DEF NoDown, Downs
    <3> QED BY <2>1, <3>1 DEF WithdrawVesting
  <2>2. CASE v # 0
    <3> DEFINE d == [rate |-> Rate(v), total |-> v, withdrawn |-> 0, on |-> TRUE]
    <3>1. d \in Downs /\ d.rate > 0 /\ d.withdrawn = 0 /\ d.total = v /\ v > 0
      BY <1>3, <2>2 DEF Downs
    <3>2. down' = [down EXCEPT ![a] = d]
      BY <2>2 DEF WithdrawVesting
    <3> QED BY <3>1, <3>2
  <2> QED BY <2>1, <2>2
<1>5. TypeOK'
  BY <1>1, <1>2, <1>4 DEF TypeOK
<1>6. SharesConserved'
  BY <1>1, <1>2 DEF SharesConserved
<1>7. ASSUME NEW c \in Accounts PROVE WholeParts(c)' /\ Booked(c)' /\ Covered(c)'
  <2>1. WholeParts(c) /\ Booked(c) /\ Covered(c)
    BY DEF IInv
  <2>2. Booked(c)'
    BY <1>1, <2>1, BooksKept DEF Books
  <2>3. CASE c # a
    <3>1. down'[c] = down[c]
      BY <1>2, <1>4, <2>3 DEF TypeOK
    <3> QED BY <1>1, <2>1, <2>2, <3>1 DEF WholeParts, Covered, Remaining
  <2>4. CASE c = a
    <3>1. down'[c] = d
      BY <1>2, <1>4, <2>4 DEF TypeOK
    <3>2. WholeParts(c)'
      <4>1. d.rate \in Nat /\ 0 = 0 * d.rate /\ 0 \in Nat
        BY DEF Downs
      <4> QED BY <1>4, <3>1, <4>1 DEF WholeParts
    <3>3. shares[c] \in Nat /\ delegated[c] \in Int
      BY <1>2 DEF TypeOK
    <3>4. shares[c] - delegated[c] >= 0
      BY <1>1, <1>3, <2>4, <3>3
    <3>5. Covered(c)'
      BY <1>1, <1>3, <1>4, <2>4, <3>1, <3>3, <3>4 DEF Covered, Remaining
    <3> QED BY <2>2, <3>2, <3>5
  <2> QED BY <2>3, <2>4
<1> QED BY <1>5, <1>6, <1>7 DEF IInv

LEMMA SetRouteOK ==
    ASSUME IInv, NEW a \in Accounts, NEW b \in Accounts, NEW percent \in Percents,
           NEW auto \in BOOLEAN, SetWithdrawVestingRoute(a, b, percent, auto)
    PROVE  IInv'
<1>1. UNCHANGED <<balance, shares, delegated, received, down, delegations, returns, total, fund>>
  BY DEF SetWithdrawVestingRoute
<1>2. TypeOK /\ SharesConserved
  BY DEF IInv
<1>3. TypeOK'
  <2> DEFINE R == [percent : Nat, auto : BOOLEAN]
             r == IF percent = 0 THEN NoRoute ELSE [percent |-> percent, auto |-> auto]
  <2>1. percent \in Nat
    BY VestingAssumption
  <2>2. r \in R
    BY <2>1 DEF NoRoute
  <2>3. routes' = [routes EXCEPT ![a][b] = r]
    BY DEF SetWithdrawVestingRoute
  <2>4. routes \in [Accounts -> [Accounts -> R]]
    BY <1>2 DEF TypeOK
  <2> HIDE DEF r, R
  <2>5. routes' \in [Accounts -> [Accounts -> R]]
    BY <2>2, <2>3, <2>4
  <2> QED BY <1>1, <1>2, <2>5 DEF TypeOK, R
<1>4. SharesConserved'
  BY <1>1, <1>2 DEF SharesConserved
<1>5. ASSUME NEW c \in Accounts PROVE WholeParts(c)' /\ Booked(c)' /\ Covered(c)'
  <2>1. WholeParts(c) /\ Booked(c) /\ Covered(c)
    BY DEF IInv
  <2> QED BY <1>1, <2>1, BooksKept DEF Books, WholeParts, Covered, Remaining
<1> QED BY <1>3, <1>4, <1>5 DEF IInv

\* What a weekly part does to the power-down.
LEMMA PartTaken ==
    ASSUME IInv, NEW a \in Accounts, ProcessVestingWithdrawal(a)
    PROVE  /\ down'[a] \in Downs
           /\ down'[a].total = down[a].total
           /\ down'[a].withdrawn = down[a].withdrawn + Part(a)
           /\ down'[a].on <=> down[a].withdrawn + Part(a) < down[a].total
           /\ down'[a].on => down'[a].rate = down[a].rate
           /\ \A b \in Accounts \ {a} : down'[b] = down[b]
           /\ down' \in [Accounts -> Downs]
<1> DEFINE p    == Part(a)
           left == shares[a] + AutoDeposit(a, a, p) - p
           done == down[a].withdrawn + p
           off  == [down[a] EXCEPT !.withdrawn = done, !.rate = 0, !.on = FALSE]
           on   == [down[a] EXCEPT !.withdrawn = done]
<1>1. down[a].on /\ TypeOK
  BY DEF ProcessVestingWithdrawal, IInv
<1>2. down' = [down EXCEPT ![a] = IF done >= @.total \/ left = 0 THEN
                  [@ EXCEPT !.withdrawn = done, !.rate = 0, !.on = FALSE]
                  ELSE [@ EXCEPT !.withdrawn = done]]
  BY DEF ProcessVestingWithdrawal
<1>3. down \in [Accounts -> Downs] /\ down[a] \in Downs
  BY <1>1 DEF TypeOK
<1>4. down'[a] = IF done >= down[a].total \/ left = 0 THEN off ELSE on
  BY <1>2, <1>3
<1>5. /\ p \in Nat /\ p <= Remaining(a) /\ Remaining(a) <= shares[a] - delegated[a]
      /\ Remaining(a) \in Nat /\ AutoDeposit(a, a, p) \in Nat
      /\ delegated[a] >= 0 /\ delegated[a] \in Int /\ shares[a] \in Nat
  <2>1. delegated[a] >= 0
    BY <1>1, BookedNat DEF IInv, Booked
  <2>2. delegated[a] \in Int /\ shares[a] \in Nat
    BY <1>1 DEF TypeOK
  <2> QED BY <1>1, <2>1, <2>2, PartOK, DepositType
<1>6. /\ down[a].total \in Nat /\ down[a].withdrawn \in Nat /\ down[a].rate \in Nat /\ down[a].on
      /\ Remaining(a) = down[a].total - down[a].withdrawn
  BY <1>1, <1>3 DEF Downs, Remaining
<1> HIDE DEF p
<1>7. left = 0 => done >= down[a].total
  BY <1>5, <1>6
<1>8. done \in Nat
  BY <1>5, <1>6
<1> HIDE DEF left, done
<1>9. off \in Downs /\ on \in Downs
  BY <1>3, <1>8 DEF Downs
<1>10. /\ ~off.on /\ off.total = down[a].total /\ off.withdrawn = done
       /\ on.on /\ on.total = down[a].total /\ on.withdrawn = done /\ on.rate = down[a].rate
  BY <1>3, <1>6 DEF Downs
<1> HIDE DEF on, off
<1>11. down'[a].on <=> done < down[a].total
  BY <1>4, <1>6, <1>7, <1>8, <1>10
<1>12. /\ down'[a] \in Downs /\ down'[a].total = down[a].total /\ down'[a].withdrawn = done
       /\ down'[a].on => down'[a].rate = down[a].rate
  BY <1>4, <1>9, <1>10
<1>13. \A b \in Accounts \ {a} : down'[b] = down[b]
  BY <1>2, <1>3
<1>14. down' \in [Accounts -> Downs]
  <2>1. \A b \in Accounts : down'[b] \in Downs
    BY <1>3, <1>12, <1>13
  <2>2. DOMAIN down' = Accounts /\ down' = [b \in DOMAIN down' |-> down'[b]]
    BY <1>2, <1>3
  <2> QED BY <2>1, <2>2
<1> QED BY <1>11, <1>12, <1>13, <1>14 DEF done, p

LEMMA ProcessOK ==
    ASSUME IInv, NEW a \in Accounts, ProcessVestingWithdrawal(a)
    PROVE  IInv'
<1> DEFINE p    == Part(a)
           paid == Payout(a, p)
           g    == [b \in Accounts |-> AutoDeposit(a, b, p)]
<1>1. /\ down[a].on /\ Kept(a, p) >= 0
      /\ shares' = [b \in Accounts |-> IF b = a THEN shares[a] + AutoDeposit(a, a, p) - p
                                       ELSE shares[b] + AutoDeposit(a, b, p)]
      /\ balance' = paid.balance /\ total' = paid.total /\ fund' = paid.fund
      /\ UNCHANGED <<delegated, received, routes, delegations, returns>>
  BY DEF ProcessVestingWithdrawal
<1>2. TypeOK /\ SharesConserved /\ WholeParts(a) /\ Covered(a)
  BY DEF IInv
<1>3. /\ p \in Nat /\ p > 0 /\ p <= Remaining(a) /\ Remaining(a) <= shares[a] - delegated[a]
      /\ p <= shares[a] /\ Remaining(a) \in Nat
      /\ p = Remaining(a) \/ p = down[a].rate
  BY <1>1, PartOK
<1> HIDE DEF p
<1>4. /\ paid \in Purses /\ Wealth(paid) = Wealth(Start)
      /\ paid.total = total + SumFunction(g) - p
  BY <1>1, <1>2, <1>3, PayoutOK
<1>5. \A b \in Accounts : g[b] = AutoDeposit(a, b, p) /\ g[b] \in Nat /\ shares[b] \in Nat
  BY <1>2, <1>3, DepositType DEF TypeOK
<1>6. DOMAIN g = Accounts
  OBVIOUS
<1> HIDE DEF paid, g
<1>7. \A b \in Accounts : shares'[b] = shares[b] + g[b] - (IF b = a THEN p ELSE 0)
  BY <1>1, <1>3, <1>5
<1>8. \A b \in Accounts : shares'[b] \in Nat
  BY <1>3, <1>5, <1>7
<1>9. shares' \in [Accounts -> Nat] /\ DOMAIN shares' = Accounts
  BY <1>1, <1>8
<1>10. /\ balance' \in [Accounts -> Nat] /\ total' \in Nat /\ fund' \in Nat
       /\ fund' = 0 <=> total' = 0
  BY <1>1, <1>4 DEF Purses
<1>11. down' \in [Accounts -> Downs]
  BY PartTaken
<1>12. TypeOK'
  BY <1>1, <1>2, <1>9, <1>10, <1>11 DEF TypeOK
<1>13. SharesConserved'
  <2>1. total' = SumFunction(shares')
    <3> DEFINE s == [b \in Accounts |-> shares[b] + g[b]]
    <3>1. \A b \in Accounts : s[b] = shares[b] + g[b] /\ s[b] \in Int
      BY <1>5
    <3> HIDE DEF s
    <3>2. /\ IsFiniteSet(Accounts) /\ Ints(s, Accounts) /\ Ints(g, Accounts) /\ Ints(shares, Accounts)
          /\ -p \in Int
      BY <1>3, <1>5, <3>1, VestingAssumption DEF Ints
    <3>3. shares'[a] = s[a] + (-p) /\ \A b \in Accounts \ {a} : shares'[b] = s[b]
      BY <1>3, <1>5, <1>7, <3>1
    <3>4. SumFunctionOnSet(shares', Accounts) = SumFunctionOnSet(s, Accounts) + (-p)
      BY <3>2, <3>3, SumChange
    <3>5. SumFunctionOnSet(s, Accounts) = SumFunctionOnSet(shares, Accounts) + SumFunctionOnSet(g, Accounts)
      BY <3>1, <3>2, SumAdd
    <3>6. /\ SumFunction(shares') = SumFunctionOnSet(shares', Accounts)
          /\ SumFunction(shares) = SumFunctionOnSet(shares, Accounts)
          /\ SumFunction(g) = SumFunctionOnSet(g, Accounts)
      <4>1. DOMAIN shares = Accounts
        BY <1>2 DEF TypeOK
      <4> QED BY <1>6, <1>9, <4>1, AccountSum
    <3>7. SumFunction(shares) \in Int /\ SumFunction(g) \in Int
      BY <3>2, <3>6, SumType
    <3>8. total = SumFunction(shares) /\ total' = total + SumFunction(g) - p
      BY <1>1, <1>2, <1>4 DEF SharesConserved
    <3>9. SumFunction(shares') = (SumFunction(shares) + SumFunction(g)) + (-p)
      BY <3>4, <3>5, <3>6
    <3>10. p \in Nat
      BY <1>3
    <3> QED BY <3>7, <3>8, <3>9, <3>10
  <2>2. fund' + SumFunction(balance') = fund + SumFunction(balance)
    <3>1. Wealth(paid) = fund' + SumFunction(balance')
      BY <1>1 DEF Wealth
    <3>2. Wealth(Start) = fund + SumFunction(balance)
      BY DEF Wealth, Start
    <3> QED BY <1>4, <3>1, <3>2
  <2> QED BY <1>2, <1>10, <2>1, <2>2 DEF SharesConserved
<1>14. ASSUME NEW c \in Accounts PROVE WholeParts(c)' /\ Booked(c)' /\ Covered(c)'
  <2>1. WholeParts(c) /\ Booked(c) /\ Covered(c)
    BY DEF IInv
  <2>2. Booked(c)'
    BY <1>1, <2>1, BooksKept DEF Books
  <2>3. delegated[c] \in Int /\ delegated'[c] = delegated[c]
    BY <1>1, <1>2 DEF TypeOK
  <2>4. CASE c # a
    <3>1. down'[c] = down[c]
      BY <2>4, PartTaken
    <3>2. WholeParts(c)'
      BY <2>1, <3>1 DEF WholeParts
    <3>3. shares'[c] = shares[c] + g[c]
      BY <1>5, <1>7, <2>4
    <3>4. down[c].total \in Nat /\ down[c].withdrawn \in Nat
      BY <1>2 DEF TypeOK, Downs
    <3>5. Covered(c)'
      BY <1>5, <2>1, <2>3, <3>1, <3>3, <3>4 DEF Covered, Remaining
    <3> QED BY <2>2, <3>2, <3>5
  <2>5. CASE c = a
    <3>1. /\ down'[a].total = down[a].total /\ down'[a].withdrawn = down[a].withdrawn + p
          /\ down'[a].on <=> down[a].withdrawn + p < down[a].total
          /\ down'[a].on => down'[a].rate = down[a].rate
      BY PartTaken DEF p
    <3>2. /\ down[a].total \in Nat /\ down[a].withdrawn \in Nat /\ down[a].rate \in Nat
          /\ down[a].rate > 0
          /\ Remaining(a) = down[a].total - down[a].withdrawn
      BY <1>1, <1>2 DEF TypeOK, Downs, WholeParts, Remaining
    <3>3. ASSUME down'[a].on PROVE \E k \in Nat : down'[a].withdrawn = k * down'[a].rate
      <4>1. p = down[a].rate
        BY <1>3, <3>1, <3>2, <3>3
      <4>2. PICK k \in Nat : down[a].withdrawn = k * down[a].rate
        BY <1>1, <1>2 DEF WholeParts
      <4>3. (k + 1) * down[a].rate = k * down[a].rate + down[a].rate
        BY <3>2
      <4>4. down'[a].withdrawn = (k + 1) * down'[a].rate /\ k + 1 \in Nat
        BY <3>1, <3>3, <4>1, <4>2, <4>3
      <4> QED BY <4>4
    <3>4. WholeParts(a)'
      BY <3>1, <3>2, <3>3 DEF WholeParts
    <3>5. Remaining(a)' = Remaining(a) - p
      BY <1>3, <3>1, <3>2 DEF Remaining
    <3>6. shares'[a] = shares[a] + g[a] - p
      BY <1>7
    <3>7. Covered(a)'
      BY <1>3, <1>5, <2>3, <2>5, <3>5, <3>6 DEF Covered
    <3> QED BY <2>2, <2>5, <3>4, <3>7
  <2> QED BY <2>4, <2>5
<1> QED BY <1>12, <1>13, <1>14 DEF IInv

LEMMA DelegateOK ==
    ASSUME IInv, NEW a \in Accounts, NEW b \in Accounts, NEW v \in 0 .. shares[a],
           Delegate(a, b, v)
    PROVE  IInv'
<1> DEFINE old  == delegations[a][b]
           more == IF old = None THEN v ELSE v - old
<1>1. /\ Available(a) >= more
      /\ delegations' = [delegations EXCEPT ![a][b] = v]
      /\ delegated' = [delegated EXCEPT ![a] = @ + more]
      /\ received' = [received EXCEPT ![b] = @ + more]
      /\ UNCHANGED <<balance, shares, down, routes, returns, total, fund>>
  BY DEF Delegate
<1>2. TypeOK /\ SharesConserved
  BY DEF IInv
<1>3. /\ shares[a] \in Nat /\ v \in Nat /\ old \in Nat \cup {None} /\ delegated[a] \in Int
      /\ received[b] \in Int
      /\ delegated \in [Accounts -> Int] /\ received \in [Accounts -> Int]
  BY <1>2 DEF TypeOK
<1>4. more \in Int
  BY <1>3 DEF None
<1>5. Loan(a, b)' = Loan(a, b) + more
  <2>1. delegations'[a][b] = v
    BY <1>1, <1>2 DEF TypeOK
  <2> QED BY <1>3, <2>1 DEF Loan, None
<1> HIDE DEF more
<1>6. TypeOK'
  <2>1. delegations' \in [Accounts -> [Accounts -> Nat \cup {None}]]
    BY <1>1, <1>2, <1>3 DEF TypeOK
  <2>2. delegated' \in [Accounts -> Int] /\ received' \in [Accounts -> Int]
    BY <1>1, <1>3, <1>4
  <2> QED BY <1>1, <1>2, <2>1, <2>2 DEF TypeOK
<1>7. SharesConserved'
  BY <1>1, <1>2 DEF SharesConserved
<1>8. ASSUME NEW c \in Accounts PROVE WholeParts(c)' /\ Booked(c)' /\ Covered(c)'
  <2>1. WholeParts(c) /\ Booked(c) /\ Covered(c)
    BY DEF IInv
  <2>2. WholeParts(c)'
    BY <1>1, <2>1 DEF WholeParts
  <2>3. /\ Lent(c)' = Lent(c) + (IF c = a THEN more ELSE 0)
        /\ Borrowed(c)' = Borrowed(c) + (IF c = b THEN more ELSE 0)
    <3>1. \A x, y \in Accounts : x # a \/ y # b => Loan(x, y)' = Loan(x, y)
      BY <1>1, <1>2 DEF Loan, TypeOK
    <3> QED BY <1>2, <1>4, <1>5, <3>1, LoanChanges
  <2>4. OnTheirWay(c)' = OnTheirWay(c)
    BY <1>1, Zenon DEF OnTheirWay
  <2>5. Lent(c) \in Nat /\ Borrowed(c) \in Nat /\ OnTheirWay(c) \in Nat
    BY <1>2, BookedNat
  <2>6. /\ delegated'[c] = IF c = a THEN delegated[c] + more ELSE delegated[c]
        /\ received'[c] = IF c = b THEN received[c] + more ELSE received[c]
    BY <1>1, <1>3
  <2>7. Booked(c)'
    BY <1>4, <2>1, <2>3, <2>4, <2>5, <2>6 DEF Booked
  <2>8. /\ shares[c] \in Nat /\ delegated[c] \in Int
        /\ down[c].total \in Nat /\ down[c].withdrawn \in Nat
    BY <1>2 DEF TypeOK, Downs
  <2>9. Covered(c)'
    BY <1>1, <1>4, <2>1, <2>6, <2>8 DEF Covered, Available, Remaining
  <2> QED BY <2>2, <2>7, <2>9
<1> QED BY <1>6, <1>7, <1>8 DEF IInv

\* Sums over the delegations on their way back.
Returns == Seq([delegator : Accounts, shares : Nat])

Way(q, a) == [i \in DOMAIN q |-> IF q[i].delegator = a THEN q[i].shares ELSE 0]

LEMMA WaySums ==
    ASSUME NEW q \in Returns, NEW a
    PROVE  /\ Len(q) \in Nat /\ IsFiniteSet(1 .. Len(q)) /\ Ints(Way(q, a), 1 .. Len(q))
           /\ SumFunction(Way(q, a)) = SumFunctionOnSet(Way(q, a), 1 .. Len(q))
           /\ SumFunction(Way(q, a)) \in Int
           /\ \A i \in 1 .. Len(q) :
                 /\ q[i].shares \in Nat /\ q[i].delegator \in Accounts
                 /\ Way(q, a)[i] = IF q[i].delegator = a THEN q[i].shares ELSE 0
<1> DEFINE R == [delegator : Accounts, shares : Nat]
<1>1. q \in Seq(R)
  BY DEF Returns
<1> HIDE DEF R
<1>2. /\ DOMAIN q = 1 .. Len(q) /\ Len(q) \in Nat
      /\ \A i \in 1 .. Len(q) : q[i] \in R
  BY <1>1
<1>3. \A i \in 1 .. Len(q) : q[i].shares \in Nat /\ q[i].delegator \in Accounts
  BY <1>2 DEF R
<1>4. \A i \in 1 .. Len(q) : Way(q, a)[i] = IF q[i].delegator = a THEN q[i].shares ELSE 0
  BY <1>2 DEF Way
<1>5. DOMAIN Way(q, a) = 1 .. Len(q)
  BY <1>2 DEF Way
<1>6. SumFunction(Way(q, a)) = SumFunctionOnSet(Way(q, a), 1 .. Len(q))
  BY <1>5 DEF SumFunction
<1>7. Ints(Way(q, a), 1 .. Len(q))
  BY <1>3, <1>4 DEF Ints
<1>8. IsFiniteSet(1 .. Len(q))
  <2>1. 1 \in Int /\ Len(q) \in Int
    BY <1>2
  <2> QED BY <2>1, FS_Interval
<1> QED BY <1>2, <1>3, <1>4, <1>6, <1>7, <1>8, SumType

LEMMA UndelegateOK ==
    ASSUME IInv, NEW a \in Accounts, NEW b \in Accounts, NEW v \in 0 .. shares[a],
           Undelegate(a, b, v)
    PROVE  IInv'
<1> DEFINE old  == delegations[a][b]
           less == old - v
           new  == IF v > 0 THEN v ELSE None
           ret  == [delegator |-> a, shares |-> less]
<1>1. /\ old # None /\ v < old
      /\ returns' = Append(returns, ret)
      /\ received' = [received EXCEPT ![b] = @ - less]
      /\ delegations' = [delegations EXCEPT ![a][b] = new]
      /\ UNCHANGED <<balance, shares, delegated, down, routes, total, fund>>
  BY DEF Undelegate
<1>2. TypeOK /\ SharesConserved
  BY DEF IInv
<1>3. /\ shares[a] \in Nat /\ v \in Nat /\ old \in Nat
      /\ received \in [Accounts -> Int] /\ received[b] \in Int
  BY <1>1, <1>2 DEF TypeOK
<1>4. less \in Nat /\ -less \in Int /\ new \in Nat \cup {None}
  BY <1>1, <1>3
<1>5. Loan(a, b)' = Loan(a, b) + (-less)
  <2>1. delegations'[a][b] = new
    BY <1>1, <1>2 DEF TypeOK
  <2> QED BY <1>1, <1>3, <2>1 DEF Loan, None
<1>6. ret \in [delegator : Accounts, shares : Nat] /\ ret.delegator = a /\ ret.shares = less
  BY <1>4
<1> HIDE DEF less, new, ret
<1>7. TypeOK'
  <2>1. delegations' \in [Accounts -> [Accounts -> Nat \cup {None}]]
    BY <1>1, <1>2, <1>4 DEF TypeOK
  <2>2. received' \in [Accounts -> Int]
    BY <1>1, <1>3, <1>4
  <2>3. returns' \in Seq([delegator : Accounts, shares : Nat])
    BY <1>1, <1>2, <1>6 DEF TypeOK
  <2> QED BY <1>1, <1>2, <2>1, <2>2, <2>3 DEF TypeOK
<1>8. SharesConserved'
  BY <1>1, <1>2 DEF SharesConserved
<1>9. ASSUME NEW c \in Accounts PROVE WholeParts(c)' /\ Booked(c)' /\ Covered(c)'
  <2>1. WholeParts(c) /\ Booked(c) /\ Covered(c)
    BY DEF IInv
  <2>2. WholeParts(c)' /\ Covered(c)'
    BY <1>1, <2>1 DEF WholeParts, Covered, Remaining
  <2>3. /\ Lent(c)' = Lent(c) + (IF c = a THEN -less ELSE 0)
        /\ Borrowed(c)' = Borrowed(c) + (IF c = b THEN -less ELSE 0)
    <3>1. \A x, y \in Accounts : x # a \/ y # b => Loan(x, y)' = Loan(x, y)
      BY <1>1, <1>2 DEF Loan, TypeOK
    <3> QED BY <1>2, <1>4, <1>5, <3>1, LoanChanges
  <2>4. OnTheirWay(c)' = OnTheirWay(c) + (IF c = a THEN less ELSE 0)
    <3> DEFINE n == Len(returns)
               f == Way(returns, c)
               g == Way(returns', c)
    <3>1. returns \in Returns /\ returns' \in Returns
      BY <1>2, <1>7 DEF TypeOK, Returns
    <3>2. n \in Nat /\ Len(returns') = n + 1 /\ returns'[n + 1] = ret
          /\ \A i \in 1 .. n : returns'[i] = returns[i]
      BY <1>1, <3>1 DEF Returns
    <3>3. OnTheirWay(c) = SumFunction(f) /\ OnTheirWay(c)' = SumFunction(g)
      BY Zenon DEF OnTheirWay, Way
    <3>4. /\ SumFunction(f) = SumFunctionOnSet(f, 1 .. n) /\ SumFunction(f) \in Int
          /\ IsFiniteSet(1 .. n) /\ Ints(f, 1 .. n)
          /\ \A i \in 1 .. n : f[i] = IF returns[i].delegator = c THEN returns[i].shares ELSE 0
      BY <3>1, WaySums
    <3>5. /\ SumFunction(g) = SumFunctionOnSet(g, 1 .. n + 1)
          /\ IsFiniteSet(1 .. n + 1) /\ Ints(g, 1 .. n + 1)
          /\ \A i \in 1 .. n + 1 : g[i] = IF returns'[i].delegator = c THEN returns'[i].shares ELSE 0
      <4>1. /\ SumFunction(g) = SumFunctionOnSet(g, 1 .. Len(returns'))
            /\ IsFiniteSet(1 .. Len(returns')) /\ Ints(g, 1 .. Len(returns'))
            /\ \A i \in 1 .. Len(returns') :
                  g[i] = IF returns'[i].delegator = c THEN returns'[i].shares ELSE 0
        BY <3>1, WaySums
      <4>2. Len(returns') = n + 1
        BY <3>2
      <4> HIDE DEF g, n
      <4> QED BY <4>1, <4>2
    <3> HIDE DEF f, g, n
    <3>6. SumFunctionOnSet(g, 1 .. n + 1) = g[n + 1] + SumFunctionOnSet(g, 1 .. n)
      <4>1. (1 .. n + 1) \ {n + 1} = 1 .. n /\ n + 1 \in 1 .. n + 1
        BY <3>2
      <4>2. SumFunctionOnSet(g, 1 .. n + 1) = g[n + 1] + SumFunctionOnSet(g, (1 .. n + 1) \ {n + 1})
        BY <3>5, <4>1, SumPick
      <4> QED BY <4>1, <4>2
    <3>7. \A i \in 1 .. n : g[i] = f[i]
      BY <3>2, <3>4, <3>5
    <3>8. SumFunctionOnSet(g, 1 .. n) = SumFunctionOnSet(f, 1 .. n)
      BY <3>4, <3>7, SumSame
    <3>9. g[n + 1] = IF c = a THEN less ELSE 0
      <4>1. n + 1 \in 1 .. n + 1
        BY <3>2
      <4> QED BY <1>6, <3>2, <3>5, <4>1
    <3>10. OnTheirWay(c)' = g[n + 1] + OnTheirWay(c) /\ OnTheirWay(c) \in Int
      BY <3>3, <3>4, <3>5, <3>6, <3>8
    <3> QED BY <1>4, <3>9, <3>10
  <2>5. Lent(c) \in Nat /\ Borrowed(c) \in Nat /\ OnTheirWay(c) \in Nat
    BY <1>2, BookedNat
  <2>6. received'[c] = IF c = b THEN received[c] - less ELSE received[c]
    BY <1>1, <1>3
  <2>7. delegated'[c] = delegated[c] /\ delegated[c] = Lent(c) + OnTheirWay(c) /\ received[c] = Borrowed(c)
    BY <1>1, <2>1 DEF Booked
  <2>8. Booked(c)'
    BY <1>4, <2>3, <2>4, <2>5, <2>6, <2>7 DEF Booked
  <2> QED BY <2>2, <2>8
<1> QED BY <1>7, <1>8, <1>9 DEF IInv

LEMMA ClearOK ==
    ASSUME IInv, ClearExpiredDelegation
    PROVE  IInv'
<1> DEFINE r == Head(returns)
<1>1. /\ returns # <<>>
      /\ delegated' = [delegated EXCEPT ![r.delegator] = @ - r.shares]
      /\ returns' = Tail(returns)
      /\ UNCHANGED <<balance, shares, received, down, routes, delegations, total, fund>>
  BY DEF ClearExpiredDelegation
<1>2. TypeOK /\ SharesConserved
  BY DEF IInv
<1>3. returns \in Returns /\ delegated \in [Accounts -> Int]
  BY <1>2 DEF TypeOK, Returns
<1>4. PICK n \in Nat : /\ Len(returns) = n + 1 /\ Len(returns') = n
                       /\ r = returns[1]
                       /\ \A i \in 1 .. n : returns'[i] = returns[i + 1]
                       /\ returns' \in Returns
  <2> DEFINE R == [delegator : Accounts, shares : Nat]
  <2>1. returns \in Seq(R) /\ Returns = Seq(R)
    BY <1>3 DEF Returns
  <2> HIDE DEF R
  <2>2. Len(returns) \in Nat /\ Len(returns) # 0 /\ r = returns[1]
    BY <1>1, <2>1
  <2>3. Len(returns) - 1 \in Nat /\ Len(returns') = Len(returns) - 1 /\ returns' \in Seq(R)
    BY <1>1, <2>1, <2>2
  <2>4. \A i \in 1 .. Len(returns) - 1 : returns'[i] = returns[i + 1]
    BY <1>1, <2>1, <2>2
  <2> QED BY <2>1, <2>2, <2>3, <2>4
<1> HIDE DEF r
<1>5. r.shares \in Nat /\ r.delegator \in Accounts
  <2>1. 1 \in 1 .. n + 1
    OBVIOUS
  <2>2. \A i \in 1 .. Len(returns) : returns[i].shares \in Nat /\ returns[i].delegator \in Accounts
    BY <1>3, WaySums
  <2> QED BY <1>4, <2>1, <2>2
<1>6. TypeOK'
  <2>1. delegated' \in [Accounts -> Int]
    BY <1>1, <1>3, <1>5
  <2> QED BY <1>1, <1>2, <1>4, <2>1 DEF TypeOK, Returns
<1>7. SharesConserved'
  BY <1>1, <1>2 DEF SharesConserved
<1>8. ASSUME NEW c \in Accounts PROVE WholeParts(c)' /\ Booked(c)' /\ Covered(c)'
  <2>1. WholeParts(c) /\ Booked(c) /\ Covered(c)
    BY DEF IInv
  <2>2. WholeParts(c)'
    BY <1>1, <2>1 DEF WholeParts
  <2>3. Lent(c)' = Lent(c) /\ Borrowed(c)' = Borrowed(c)
    BY <1>1, Zenon DEF Lent, Borrowed, Loan
  <2>4. OnTheirWay(c) = (IF c = r.delegator THEN r.shares ELSE 0) + OnTheirWay(c)'
    <3> DEFINE f == Way(returns, c)
               g == Way(returns', c)
    <3>1. OnTheirWay(c) = SumFunction(f) /\ OnTheirWay(c)' = SumFunction(g)
      BY Zenon DEF OnTheirWay, Way
    <3>2. /\ SumFunction(f) = SumFunctionOnSet(f, 1 .. Len(returns))
          /\ Ints(f, 1 .. Len(returns))
          /\ \A i \in 1 .. Len(returns) : f[i] = IF returns[i].delegator = c THEN returns[i].shares ELSE 0
      BY <1>3, WaySums
    <3>3. /\ SumFunction(g) = SumFunctionOnSet(g, 1 .. Len(returns'))
          /\ \A i \in 1 .. Len(returns') : g[i] = IF returns'[i].delegator = c THEN returns'[i].shares ELSE 0
      BY <1>4, WaySums
    <3> HIDE DEF f, g
    <3>4. /\ SumFunction(f) = SumFunctionOnSet(f, 1 .. n + 1) /\ Ints(f, 1 .. n + 1)
          /\ \A i \in 1 .. n + 1 : f[i] = IF returns[i].delegator = c THEN returns[i].shares ELSE 0
      BY <1>4, <3>2
    <3>5. /\ SumFunction(g) = SumFunctionOnSet(g, 1 .. n)
          /\ \A i \in 1 .. n : g[i] = IF returns'[i].delegator = c THEN returns'[i].shares ELSE 0
      BY <1>4, <3>3
    <3>6. \A i \in 1 .. n : g[i] = f[i + 1]
      <4> SUFFICES ASSUME NEW i \in 1 .. n PROVE g[i] = f[i + 1]
        OBVIOUS
      <4>1. i + 1 \in 1 .. n + 1
        OBVIOUS
      <4> QED BY <1>4, <3>4, <3>5, <4>1
    <3>7. SumFunctionOnSet(f, 1 .. n + 1) = f[1] + SumFunctionOnSet(g, 1 .. n)
      BY <3>4, <3>6, SumShift
    <3>8. f[1] = IF c = r.delegator THEN r.shares ELSE 0
      <4>1. 1 \in 1 .. n + 1
        OBVIOUS
      <4> QED BY <1>4, <3>4, <4>1
    <3> QED BY <3>1, <3>4, <3>5, <3>7, <3>8
  <2>5. Lent(c) \in Nat /\ OnTheirWay(c)' \in Int
    <3>1. Lent(c) \in Nat
      BY <1>2, BookedNat
    <3>2. OnTheirWay(c)' = SumFunction(Way(returns', c))
      BY Zenon DEF OnTheirWay, Way
    <3>3. SumFunction(Way(returns', c)) \in Int
      BY <1>4, WaySums
    <3> QED BY <3>1, <3>2, <3>3
  <2>6. delegated'[c] = delegated[c] - (IF c = r.delegator THEN r.shares ELSE 0) /\ delegated[c] \in Int
    BY <1>1, <1>3, <1>5
  <2>7. received'[c] = received[c] /\ delegated[c] = Lent(c) + OnTheirWay(c) /\ received[c] = Borrowed(c)
    BY <1>1, <2>1 DEF Booked
  <2>8. Booked(c)'
    <3>1. delegated'[c] = Lent(c) + OnTheirWay(c)'
      BY <1>5, <2>4, <2>5, <2>6, <2>7
    <3> QED BY <2>3, <2>7, <3>1 DEF Booked
  <2>9. /\ shares[c] \in Nat /\ down[c].total \in Nat /\ down[c].withdrawn \in Nat
    BY <1>2 DEF TypeOK, Downs
  <2>10. delegated'[c] <= delegated[c] /\ delegated'[c] \in Int
    BY <1>5, <2>6
  <2>11. Covered(c)'
    BY <1>1, <2>1, <2>6, <2>9, <2>10 DEF Covered, Remaining
  <2> QED BY <2>2, <2>8, <2>11
<1> QED BY <1>6, <1>7, <1>8 DEF IInv

LEMMA NextOK == IInv /\ [Next]_vars => IInv'
<1> SUFFICES ASSUME IInv, [Next]_vars PROVE IInv'
  OBVIOUS
<1>1. CASE UNCHANGED vars
  <2>1. TypeOK /\ SharesConserved /\ \A a \in Accounts : WholeParts(a) /\ Booked(a) /\ Covered(a)
    BY DEF IInv
  <2>2. TypeOK' /\ SharesConserved'
    BY <1>1, <2>1 DEF vars, TypeOK, SharesConserved
  <2>3. \A a \in Accounts : WholeParts(a)' /\ Booked(a)' /\ Covered(a)'
    BY <1>1, <2>1, BooksKept DEF vars, Books, WholeParts, Covered, Remaining
  <2> QED BY <2>2, <2>3 DEF IInv
<1>2. CASE Next
  BY <1>2, TransferToVestingOK, WithdrawVestingOK, SetRouteOK, ProcessOK, DelegateOK,
     UndelegateOK, ClearOK DEF Next
<1> QED BY <1>1, <1>2

LEMMA Invariance == Spec => []IInv
BY InitOK, NextOK, PTL DEF Spec

-----------------------------------------------------------------------------
(* The theorems.                                                           *)

\* Vesting shares and tokens are conserved (SharesConserved) for any number of
\* accounts, routes and prices: create_vesting, process_vesting_withdrawals and
\* the payments it makes neither create nor lose a share or a token by rounding.
THEOREM SharesAreConserved == Spec => []SharesConserved
<1>1. IInv => SharesConserved
  BY DEF IInv
<1> QED BY <1>1, Invariance, PTL

\* Own shares cover what is delegated, on its way back or being withdrawn, the
\* books of delegator and delegatee agree and get_effective_vesting_shares is
\* never negative (DelegationsBacked), whatever the limits and the routes.
THEOREM DelegationsAreBacked == Spec => []DelegationsBacked
<1>1. ASSUME IInv PROVE DelegationsBacked
  <2> SUFFICES ASSUME NEW a \in Accounts
               PROVE  /\ delegated[a] = Lent(a) + OnTheirWay(a)
                      /\ received[a] = Borrowed(a)
                      /\ shares[a] - delegated[a] >= IF down[a].on THEN Remaining(a) ELSE 0
                      /\ Effective(a) >= 0
    BY DEF DelegationsBacked
  <2>1. TypeOK /\ Booked(a) /\ Covered(a)
    BY <1>1 DEF IInv
  <2>2. Borrowed(a) \in Nat
    BY <2>1, BookedNat
  <2>3. /\ shares[a] \in Nat /\ delegated[a] \in Int /\ received[a] \in Int
        /\ down[a].total \in Nat /\ down[a].withdrawn \in Nat /\ down[a].rate \in Nat
    BY <2>1 DEF TypeOK, Downs
  <2>4. Remaining(a) \in Int
    BY <2>3 DEF Remaining
  <2>5. Effective(a) >= 0
    BY <2>1, <2>2, <2>3, <2>4 DEF Effective, Booked, Covered, Lesser
  <2> QED BY <2>1, <2>5 DEF Booked, Covered
<1> QED BY <1>1, Invariance, PTL

\* Every iteration of process_vesting_withdrawals takes a part that is not zero,
\* none takes more than was asked for and the last one takes all that is left
\* (PowerDownAdvances), whatever the number of intervals and the amount.
THEOREM PowerDownsAdvance == Spec => PowerDownAdvances
<1> DEFINE Advances ==
        \A a \in Accounts : ProcessVestingWithdrawal(a) =>
           /\ down'[a].withdrawn > down[a].withdrawn
           /\ down'[a].withdrawn <= down[a].total
           /\ ~down'[a].on => down'[a].withdrawn = down[a].total
<1>1. ASSUME IInv PROVE Advances
  <2> SUFFICES ASSUME NEW a \in Accounts, ProcessVestingWithdrawal(a)
               PROVE  /\ down'[a].withdrawn > down[a].withdrawn
                      /\ down'[a].withdrawn <= down[a].total
                      /\ ~down'[a].on => down'[a].withdrawn = down[a].total
    OBVIOUS
  <2>1. down[a].on
    BY DEF ProcessVestingWithdrawal
  <2>2. Part(a) \in Nat /\ Part(a) > 0 /\ Part(a) <= Remaining(a)
    BY <1>1, <2>1, PartOK
  <2>3. /\ down'[a].withdrawn = down[a].withdrawn + Part(a)
        /\ down'[a].on <=> down[a].withdrawn + Part(a) < down[a].total
    BY <1>1, PartTaken
  <2>4. /\ down[a].total \in Nat /\ down[a].withdrawn \in Nat
        /\ Remaining(a) = down[a].total - down[a].withdrawn
    BY <1>1 DEF IInv, TypeOK, Downs, Remaining
  <2> QED BY <2>2, <2>3, <2>4
<1>2. IInv => [Advances]_vars
  BY <1>1
<1> QED BY <1>2, Invariance, PTL DEF PowerDownAdvances
=============================================================================

-------------------------- MODULE PortfolioProofs --------------------------
(* Lemmas about sums over finite sets, and about the portfolio's books: the  *)
(* operations keep cash, realised P&L and costs in step with the trades and  *)
(* the open positions.                                                       *)
EXTENDS RiskEngine, FiniteSetTheorems, SequenceTheorems, WellFoundedInduction, TLAPS

---------------------------------------------------------------------------
(* Sums.  The library defines them by recursion over subsets; that recursion  *)
(* and its laws are proved here by taking a smallest counterexample.          *)

\* The least element of a set of numbers.
LEMMA LeastNumber ==
  ASSUME NEW T \in SUBSET Nat, T # {}
  PROVE  \E n \in T : \A m \in T : n <= m
<1> DEFINE R == OpToRel(<, Nat)
<1>1. \E n \in T : \A m \in T : ~ (<<m, n>> \in R)
  <2>1. IsWellFoundedOn(R, Nat)
    BY NatLessThanWellFounded
  <2> HIDE DEF R
  <2>2. T \subseteq Nat
    OBVIOUS
  <2> QED  BY <2>1, <2>2, WFMin
<1>2. \A m, n \in Nat : m < n => <<m, n>> \in R
  BY DEF OpToRel
<1> HIDE DEF R
<1>3. PICK n \in T : \A m \in T : ~ (<<m, n>> \in R)
  BY <1>1
<1>4. ASSUME NEW m \in T PROVE n <= m
  <2>1. m \in Nat /\ n \in Nat
    OBVIOUS
  <2>2. ~ (m < n)
    BY <1>2, <1>3, <2>1
  <2> QED  BY <2>1, <2>2
<1> QED  BY <1>4

\* One step of the sum of f over s.
Summand(f, g, s) == IF s = {} THEN 0 ELSE LET x == CHOOSE x \in s : TRUE IN f[x] + g[s \ {x}]

\* g maps every subset of S to its sum.
Iter(f, g, S) == g = [s \in SUBSET S |-> Summand(f, g, s)]

\* Such a function exists: it is built one size of subset after the other.
LEMMA IterExists ==
  ASSUME NEW f, NEW S, IsFiniteSet(S)
  PROVE  \E g : Iter(f, g, S)
<1> DEFINE Upto(g, n) == /\ g = [s \in SUBSET S |-> g[s]]
                         /\ \A s \in SUBSET S : Cardinality(s) <= n => g[s] = Summand(f, g, s)
           T == {n \in Nat : ~ \E g : Upto(g, n)}
<1>0. \A s \in SUBSET S : IsFiniteSet(s) /\ Cardinality(s) \in Nat
  BY FS_Subset, FS_CardinalityType
<1>1. 0 \notin T
  <2> DEFINE g == [s \in SUBSET S |-> 0]
  <2>1. \A s \in SUBSET S : Cardinality(s) <= 0 => s = {}
    BY <1>0, FS_EmptySet
  <2>2. Upto(g, 0)
    BY <2>1 DEF Summand
  <2> HIDE DEF g, Upto
  <2> QED  BY <2>2
<1>2. ASSUME NEW n \in Nat, n + 1 \in T
      PROVE  n \in T
  <2> SUFFICES ASSUME NEW g, Upto(g, n) PROVE \E h : Upto(h, n + 1)
    BY <1>2
  <2> DEFINE h == [s \in SUBSET S |-> IF Cardinality(s) <= n THEN g[s] ELSE Summand(f, g, s)]
  <2>1. ASSUME NEW s \in SUBSET S, Cardinality(s) <= n + 1 PROVE Summand(f, h, s) = Summand(f, g, s)
    <3>1. CASE s = {}
      BY <3>1 DEF Summand
    <3>2. CASE s # {}
      <4> DEFINE x == CHOOSE x \in s : TRUE
      <4>1. x \in s
        BY <3>2
      <4> HIDE DEF x
      <4>2. s \ {x} \in SUBSET S /\ Cardinality(s \ {x}) <= n
        BY <2>1, <4>1, <1>0, FS_RemoveElement
      <4>3. h[s \ {x}] = g[s \ {x}]
        BY <4>2
      <4> HIDE DEF h
      <4>4. Summand(f, h, s) = f[x] + h[s \ {x}] /\ Summand(f, g, s) = f[x] + g[s \ {x}]
        BY <3>2 DEF Summand, x
      <4> QED  BY <4>3, <4>4
    <3> QED  BY <3>1, <3>2
  <2>2. ASSUME NEW s \in SUBSET S, Cardinality(s) <= n + 1 PROVE h[s] = Summand(f, g, s)
    BY <2>2
  <2>3. Upto(h, n + 1)
    <3> HIDE DEF h
    <3>1. h = [s \in SUBSET S |-> h[s]]
      BY DEF h
    <3> QED  BY <2>1, <2>2, <3>1
  <2> HIDE DEF h, Upto
  <2> QED  BY <2>3
<1>3. T = {}
  <2> SUFFICES ASSUME T # {} PROVE FALSE
    OBVIOUS
  <2>0. T \in SUBSET Nat
    OBVIOUS
  <2> HIDE DEF T
  <2>1. PICK n \in T : \A m \in T : n <= m
    BY <2>0, LeastNumber
  <2>2. n # 0 /\ n \in Nat
    BY <1>1, <2>0
  <2>3. n - 1 \in Nat /\ n - 1 + 1 \in T
    BY <2>2
  <2>4. n - 1 \in T
    BY <2>3, <1>2
  <2> QED  BY <2>1, <2>2, <2>4
<1>4. PICK g : Upto(g, Cardinality(S))
  <2> HIDE DEF Upto
  <2> QED  BY <1>3, <1>0
<1>5. \A s \in SUBSET S : Cardinality(s) <= Cardinality(S)
  BY FS_Subset
<1>6. \A s \in SUBSET S : g[s] = Summand(f, g, s)
  BY <1>4, <1>5
<1>7. g = [s \in SUBSET S |-> g[s]]
  BY <1>4
<1> QED  BY <1>6, <1>7 DEF Iter

\* The sum over the subsets of a set obeys the recursion of its definition.
LEMMA SumRecursion ==
  ASSUME NEW f, NEW S, IsFiniteSet(S)
  PROVE  \E g : Iter(f, g, S) /\ SumFunctionOnSet(f, S) = g[S]
<1> DEFINE body(g) == [s \in SUBSET S |->
                         IF s = {} THEN 0
                         ELSE LET x == CHOOSE x \in s : TRUE IN f[x] + g[s \ {x}]]
           sum == CHOOSE g : g = body(g)
<1>1. \E g : g = body(g)
  <2>1. PICK g : Iter(f, g, S)
    BY IterExists
  <2>2. g = body(g)
    BY <2>1 DEF Iter, Summand
  <2> QED  BY <2>2
<1>2. sum = body(sum)
  <2> HIDE DEF body
  <2> QED  BY <1>1
<1>3. SumFunctionOnSet(f, S) = sum[S]
  BY DEF SumFunctionOnSet, FoldFunctionOnSet, MapThenFoldSet
<1>4. Iter(f, sum, S)
  <2> HIDE DEF sum
  <2> QED  BY <1>2 DEF Iter, Summand
<1> HIDE DEF sum
<1> QED  BY <1>3, <1>4

\* Induction over a finite set: a set of its subsets that holds the empty set, and a
\* set whenever it holds all that lack one of its elements, holds the whole set.
LEMMA SubsetInduction ==
  ASSUME NEW S, IsFiniteSet(S), NEW T, {} \in T,
         \A s \in SUBSET S : s # {} /\ (\A x \in s : s \ {x} \in T) => s \in T
  PROVE  \A s \in SUBSET S : s \in T
<1> DEFINE Bad == {s \in SUBSET S : s \notin T}
           Sizes == {n \in Nat : \E s \in Bad : n = Cardinality(s)}
<1>1. \A s \in SUBSET S : IsFiniteSet(s) /\ Cardinality(s) \in Nat
  BY FS_Subset, FS_CardinalityType
<1>2. SUFFICES ASSUME Bad # {} PROVE FALSE
  OBVIOUS
<1>3. Sizes # {} /\ Sizes \in SUBSET Nat
  BY <1>1, <1>2
<1>4. PICK n \in Sizes : \A m \in Sizes : n <= m
  <2> HIDE DEF Sizes
  <2> QED  BY <1>3, LeastNumber
<1>5. PICK s \in Bad : n = Cardinality(s)
  OBVIOUS
<1>6. s # {}
  BY <1>5
<1>7. ASSUME NEW x \in s PROVE s \ {x} \in T
  <2>1. Cardinality(s \ {x}) = n - 1 /\ n \in Nat
    BY <1>1, <1>5, FS_RemoveElement
  <2>2. s \ {x} \notin Bad
    <3>1. ASSUME s \ {x} \in Bad PROVE FALSE
      <4>1. Cardinality(s \ {x}) \in Sizes
        BY <1>1, <3>1
      <4> HIDE DEF Sizes
      <4> QED  BY <4>1, <1>4, <2>1
    <3> QED  BY <3>1
  <2> QED  BY <2>2
<1> QED  BY <1>5, <1>6, <1>7

\* Nothing sums to nothing.
LEMMA SumEmpty ==
  ASSUME NEW f
  PROVE  SumFunctionOnSet(f, {}) = 0
<1>1. PICK g : Iter(f, g, {}) /\ SumFunctionOnSet(f, {}) = g[{}]
  BY SumRecursion, FS_EmptySet
<1> QED  BY <1>1 DEF Iter, Summand

\* It gives the sum of every subset.
LEMMA SumOfSubset ==
  ASSUME NEW f, NEW S, IsFiniteSet(S), NEW g, Iter(f, g, S), NEW t \in SUBSET S
  PROVE  SumFunctionOnSet(f, t) = g[t]
<1>1. PICK h : Iter(f, h, t) /\ SumFunctionOnSet(f, t) = h[t]
  BY SumRecursion, FS_Subset
<1> DEFINE T == {s \in SUBSET t : h[s] = g[s]}
<1>2. {} \in T
  BY <1>1 DEF Iter, Summand
<1>3. ASSUME NEW s \in SUBSET t, s # {}, \A x \in s : s \ {x} \in T
      PROVE  s \in T
  <2> DEFINE c == CHOOSE x \in s : TRUE
  <2>1. c \in s
    BY <1>3
  <2>2. h[s] = f[c] + h[s \ {c}] /\ g[s] = f[c] + g[s \ {c}]
    BY <1>1, <1>3 DEF Iter, Summand
  <2> HIDE DEF c
  <2>3. h[s \ {c}] = g[s \ {c}]
    BY <1>3, <2>1
  <2> QED  BY <2>2, <2>3
<1>4. t \in T
  <2> HIDE DEF T
  <2>1. IsFiniteSet(t)
    BY FS_Subset
  <2>2. \A s \in SUBSET t : s # {} /\ (\A x \in s : s \ {x} \in T) => s \in T
    BY <1>3
  <2>3. \A s \in SUBSET t : s \in T
    BY <1>2, <2>1, <2>2, SubsetInduction
  <2> QED  BY <2>3
<1> QED  BY <1>1, <1>4

\* Otherwise it is one element and the sum of the rest.
LEMMA SumPeeled ==
  ASSUME NEW f, NEW S, IsFiniteSet(S), S # {}
  PROVE  \E x \in S : SumFunctionOnSet(f, S) = f[x] + SumFunctionOnSet(f, S \ {x})
<1>1. PICK g : Iter(f, g, S) /\ SumFunctionOnSet(f, S) = g[S]
  BY SumRecursion
<1> DEFINE c == CHOOSE x \in S : TRUE
<1>2. c \in S
  OBVIOUS
<1>3. g[S] = f[c] + g[S \ {c}]
  BY <1>1 DEF Iter, Summand
<1> HIDE DEF c
<1>4. g[S \ {c}] = SumFunctionOnSet(f, S \ {c})
  BY <1>1, SumOfSubset
<1> QED  BY <1>1, <1>2, <1>3, <1>4

\* A sum of integers is an integer.
LEMMA SumIsInt ==
  ASSUME NEW S, IsFiniteSet(S), NEW f, \A x \in S : f[x] \in Int
  PROVE  SumFunctionOnSet(f, S) \in Int
<1> DEFINE T == {s \in SUBSET S : SumFunctionOnSet(f, s) \in Int}
<1>1. {} \in T
  BY SumEmpty
<1>2. ASSUME NEW s \in SUBSET S, s # {}, \A x \in s : s \ {x} \in T
      PROVE  s \in T
  <2>1. PICK c \in s : SumFunctionOnSet(f, s) = f[c] + SumFunctionOnSet(f, s \ {c})
    BY <1>2, SumPeeled, FS_Subset
  <2>2. f[c] \in Int /\ SumFunctionOnSet(f, s \ {c}) \in Int
    BY <1>2
  <2> QED  BY <2>1, <2>2
<1>3. S \in T
  <2> HIDE DEF T
  <2>1. \A s \in SUBSET S : s # {} /\ (\A x \in s : s \ {x} \in T) => s \in T
    BY <1>2
  <2>2. \A s \in SUBSET S : s \in T
    BY <1>1, <2>1, SubsetInduction
  <2> QED  BY <2>2
<1> QED  BY <1>3

\* Equal summands have equal sums.
LEMMA SumOfEquals ==
  ASSUME NEW S, IsFiniteSet(S), NEW f, NEW g, \A x \in S : f[x] = g[x]
  PROVE  SumFunctionOnSet(f, S) = SumFunctionOnSet(g, S)
<1>1. PICK h : Iter(f, h, S) /\ SumFunctionOnSet(f, S) = h[S]
  BY SumRecursion
<1>2. ASSUME NEW s \in SUBSET S PROVE Summand(f, h, s) = Summand(g, h, s)
  <2>1. CASE s = {}
    BY <2>1 DEF Summand
  <2>2. CASE s # {}
    <3> DEFINE c == CHOOSE x \in s : TRUE
    <3>1. c \in s
      BY <2>2
    <3>2. Summand(f, h, s) = f[c] + h[s \ {c}] /\ Summand(g, h, s) = g[c] + h[s \ {c}]
      BY <2>2 DEF Summand
    <3> HIDE DEF c
    <3> QED  BY <3>1, <3>2
  <2> QED  BY <2>1, <2>2
<1>3. Iter(g, h, S)
  BY <1>1, <1>2 DEF Iter
<1> QED  BY <1>1, <1>3, SumOfSubset

\* Any element of the set may be taken out first.
LEMMA SumWithout ==
  ASSUME NEW S, IsFiniteSet(S), NEW f, \A x \in S : f[x] \in Int, NEW y \in S
  PROVE  SumFunctionOnSet(f, S) = f[y] + SumFunctionOnSet(f, S \ {y})
<1> DEFINE sum(s) == SumFunctionOnSet(f, s)
           T == {s \in SUBSET S : \A z \in s : sum(s) = f[z] + sum(s \ {z})}
<1>0. \A s \in SUBSET S : IsFiniteSet(s) /\ sum(s) \in Int
  BY FS_Subset, SumIsInt
<1>1. {} \in T
  OBVIOUS
<1>2. ASSUME NEW s \in SUBSET S, s # {}, \A x \in s : s \ {x} \in T
      PROVE  s \in T
  <2>1. PICK c \in s : sum(s) = f[c] + sum(s \ {c})
    BY <1>0, <1>2, SumPeeled
  <2>2. ASSUME NEW z \in s PROVE sum(s) = f[z] + sum(s \ {z})
    <3>1. CASE z = c
      BY <2>1, <3>1
    <3>2. CASE z # c
      <4>1. sum(s \ {c}) = f[z] + sum((s \ {c}) \ {z})
        BY <1>2, <3>2
      <4>2. sum(s \ {z}) = f[c] + sum((s \ {z}) \ {c})
        BY <1>2, <3>2
      <4>3. (s \ {c}) \ {z} = (s \ {z}) \ {c}
        OBVIOUS
      <4>4. /\ f[z] \in Int /\ f[c] \in Int
            /\ sum((s \ {z}) \ {c}) \in Int
        BY <1>0
      <4>5. sum(s) = f[c] + (f[z] + sum((s \ {z}) \ {c}))
        BY <2>1, <4>1, <4>3
      <4>6. sum(s \ {z}) = f[c] + sum((s \ {z}) \ {c})
        BY <4>2
      <4> HIDE DEF sum
      <4> QED  BY <4>4, <4>5, <4>6
    <3> QED  BY <3>1, <3>2
  <2> QED  BY <2>2
<1>3. S \in T
  <2> HIDE DEF T
  <2>1. \A s \in SUBSET S : s # {} /\ (\A x \in s : s \ {x} \in T) => s \in T
    BY <1>2
  <2>2. \A s \in SUBSET S : s \in T
    BY <1>1, <2>1, SubsetInduction
  <2> QED  BY <2>2
<1> QED  BY <1>3

---------------------------------------------------------------------------
(* The same of whole functions. *)

\* The sum over the domain is an integer.
LEMMA SumTyped ==
  ASSUME NEW f, IsFiniteSet(DOMAIN f), \A x \in DOMAIN f : f[x] \in Int
  PROVE  SumFunction(f) \in Int
  BY SumIsInt DEF SumFunction

\* It depends on the values alone.
LEMMA SumSame ==
  ASSUME NEW f, NEW g, IsFiniteSet(DOMAIN f), DOMAIN g = DOMAIN f,
         \A x \in DOMAIN f : f[x] = g[x]
  PROVE  SumFunction(f) = SumFunction(g)
  BY SumOfEquals DEF SumFunction

\* Nothing sums to nothing.
LEMMA SumNone ==
  ASSUME NEW f, DOMAIN f = {}
  PROVE  SumFunction(f) = 0
  BY SumEmpty DEF SumFunction

\* One more element adds its value.
LEMMA SumAdds ==
  ASSUME NEW f, IsFiniteSet(DOMAIN f), NEW x, x \notin DOMAIN f,
         NEW g, DOMAIN g = DOMAIN f \cup {x}, g[x] \in Int,
         \A y \in DOMAIN f : g[y] = f[y] /\ f[y] \in Int
  PROVE  SumFunction(g) = SumFunction(f) + g[x] /\ SumFunction(f) \in Int
<1> DEFINE S == DOMAIN f
<1>1. IsFiniteSet(S \cup {x}) /\ (S \cup {x}) \ {x} = S
  BY FS_AddElement
<1>2. SumFunctionOnSet(g, S \cup {x}) = g[x] + SumFunctionOnSet(g, S)
  <2>1. \A y \in S \cup {x} : g[y] \in Int
    OBVIOUS
  <2>2. SumFunctionOnSet(g, S \cup {x}) = g[x] + SumFunctionOnSet(g, (S \cup {x}) \ {x})
    BY <1>1, <2>1, SumWithout
  <2> QED  BY <1>1, <2>2
<1>3. SumFunctionOnSet(g, S) = SumFunctionOnSet(f, S)
  <2>1. \A y \in S : g[y] = f[y]
    OBVIOUS
  <2> QED  BY <2>1, SumOfEquals
<1>4. SumFunctionOnSet(f, S) \in Int
  BY SumIsInt
<1>5. SumFunction(f) = SumFunctionOnSet(f, S) /\ SumFunction(g) = SumFunctionOnSet(g, S \cup {x})
  BY DEF SumFunction
<1> QED  BY <1>2, <1>3, <1>4, <1>5

\* A function adds up to what its two parts add up to.
LEMMA SumSplits ==
  ASSUME NEW f, IsFiniteSet(DOMAIN f), \A x \in DOMAIN f : f[x] \in Int,
         NEW g, NEW h, DOMAIN g \cap DOMAIN h = {}, DOMAIN f = DOMAIN g \cup DOMAIN h,
         \A x \in DOMAIN g : g[x] = f[x], \A x \in DOMAIN h : h[x] = f[x]
  PROVE  SumFunction(f) = SumFunction(g) + SumFunction(h)
<1> DEFINE sum(s) == SumFunctionOnSet(f, s)
           A == DOMAIN g
           B == DOMAIN h
           T == {s \in SUBSET B : sum(A \cup s) = sum(A) + sum(s)}
<1>0. \A s \in SUBSET DOMAIN f : IsFiniteSet(s) /\ sum(s) \in Int
  BY FS_Subset, SumIsInt
<1>1. {} \in T
  <2>1. sum({}) = 0 /\ sum(A) \in Int /\ A \cup {} = A
    BY <1>0, SumEmpty
  <2> HIDE DEF sum
  <2> QED  BY <2>1
<1>2. ASSUME NEW s \in SUBSET B, s # {}, \A x \in s : s \ {x} \in T
      PROVE  s \in T
  <2>1. PICK x : x \in s
    BY <1>2
  <2>2. x \in A \cup s /\ (A \cup s) \ {x} = A \cup (s \ {x})
    BY <2>1
  <2>3. sum(A \cup s) = f[x] + sum(A \cup (s \ {x}))
    <3>1. A \cup s \in SUBSET DOMAIN f /\ \A y \in A \cup s : f[y] \in Int
      OBVIOUS
    <3>2. sum(A \cup s) = f[x] + sum((A \cup s) \ {x})
      BY <1>0, <2>2, <3>1, SumWithout
    <3> QED  BY <2>2, <3>2
  <2>4. sum(s) = f[x] + sum(s \ {x})
    <3>1. s \in SUBSET DOMAIN f /\ \A y \in s : f[y] \in Int
      OBVIOUS
    <3> QED  BY <1>0, <2>1, <3>1, SumWithout
  <2>5. sum(A \cup (s \ {x})) = sum(A) + sum(s \ {x})
    BY <1>2, <2>1
  <2>6. f[x] \in Int /\ sum(A) \in Int /\ sum(s \ {x}) \in Int
    BY <1>0, <2>1
  <2>7. sum(A \cup s) = sum(A) + sum(s)
    <3> HIDE DEF sum
    <3> QED  BY <2>3, <2>4, <2>5, <2>6
  <2> QED  BY <2>7
<1>3. sum(A \cup B) = sum(A) + sum(B)
  <2>1. IsFiniteSet(B)
    BY <1>0
  <2>2. \A s \in SUBSET B : s # {} /\ (\A x \in s : s \ {x} \in T) => s \in T
    <3> HIDE DEF T
    <3> QED  BY <1>2
  <2>3. \A s \in SUBSET B : s \in T
    <3> HIDE DEF T
    <3> QED  BY <1>1, <2>1, <2>2, SubsetInduction
  <2> QED  BY <2>3
<1>4. SumFunctionOnSet(g, A) = sum(A) /\ SumFunctionOnSet(h, B) = sum(B)
  <2>1. IsFiniteSet(A) /\ IsFiniteSet(B)
    BY <1>0
  <2> QED  BY <2>1, SumOfEquals
<1>5. SumFunction(f) = sum(A \cup B) /\ SumFunction(g) = SumFunctionOnSet(g, A)
      /\ SumFunction(h) = SumFunctionOnSet(h, B)
  BY DEF SumFunction
<1> QED  BY <1>3, <1>4, <1>5

\* The sum of a sum is the sum of the sums.
LEMMA SumOfSums ==
  ASSUME NEW f, IsFiniteSet(DOMAIN f), NEW g, DOMAIN g = DOMAIN f, NEW h, DOMAIN h = DOMAIN f,
         \A x \in DOMAIN f : f[x] \in Int /\ g[x] \in Int /\ h[x] = f[x] + g[x]
  PROVE  SumFunction(h) = SumFunction(f) + SumFunction(g)
<1> DEFINE S == DOMAIN f
           F(s) == SumFunctionOnSet(f, s)
           G(s) == SumFunctionOnSet(g, s)
           H(s) == SumFunctionOnSet(h, s)
           T == {s \in SUBSET S : H(s) = F(s) + G(s)}
<1>0. \A s \in SUBSET S : IsFiniteSet(s) /\ F(s) \in Int /\ G(s) \in Int
  <2>1. \A s \in SUBSET S : IsFiniteSet(s) /\ (\A x \in s : f[x] \in Int) /\ (\A x \in s : g[x] \in Int)
    BY FS_Subset
  <2> QED  BY <2>1, SumIsInt
<1>1. {} \in T
  BY SumEmpty
<1>2. ASSUME NEW s \in SUBSET S, s # {}, \A x \in s : s \ {x} \in T
      PROVE  s \in T
  <2>1. PICK x : x \in s
    BY <1>2
  <2>2. /\ \A y \in s : f[y] \in Int
        /\ \A y \in s : g[y] \in Int
        /\ \A y \in s : h[y] \in Int
    OBVIOUS
  <2>3. F(s) = f[x] + F(s \ {x}) /\ G(s) = g[x] + G(s \ {x}) /\ H(s) = h[x] + H(s \ {x})
    BY <1>0, <2>1, <2>2, SumWithout
  <2>4. H(s \ {x}) = F(s \ {x}) + G(s \ {x})
    BY <1>2, <2>1
  <2>5. /\ F(s \ {x}) \in Int /\ G(s \ {x}) \in Int /\ f[x] \in Int /\ g[x] \in Int
        /\ h[x] = f[x] + g[x]
    BY <1>0, <2>1
  <2>6. H(s) = F(s) + G(s)
    <3> HIDE DEF F, G, H
    <3> QED  BY <2>3, <2>4, <2>5
  <2> QED  BY <2>6
<1>3. H(S) = F(S) + G(S)
  <2>2. \A s \in SUBSET S : s # {} /\ (\A x \in s : s \ {x} \in T) => s \in T
    <3> HIDE DEF T
    <3> QED  BY <1>2
  <2>3. \A s \in SUBSET S : s \in T
    <3> HIDE DEF T
    <3> QED  BY <1>1, <2>2, SubsetInduction
  <2> QED  BY <2>3
<1> QED  BY <1>3 DEF SumFunction

\* Counting under other names gives the same sum.
LEMMA SumRenamed ==
  ASSUME NEW f, IsFiniteSet(DOMAIN f), NEW g,
         \A x \in DOMAIN g : g[x] \in Int,
         NEW m, \A x \in DOMAIN f : m[x] \in DOMAIN g /\ f[x] = g[m[x]],
         \A x, y \in DOMAIN f : m[x] = m[y] => x = y,
         \A y \in DOMAIN g : \E x \in DOMAIN f : m[x] = y
  PROVE  SumFunction(f) = SumFunction(g)
<1> DEFINE S == DOMAIN f
           Img(s) == {m[x] : x \in s}
           F(s) == SumFunctionOnSet(f, s)
           G(s) == SumFunctionOnSet(g, s)
           T == {s \in SUBSET S : IsFiniteSet(Img(s)) /\ F(s) = G(Img(s))}
<1>1. {} \in T
  <2>1. Img({}) = {}
    OBVIOUS
  <2> QED  BY <2>1, SumEmpty, FS_EmptySet
<1>2. ASSUME NEW s \in SUBSET S, s # {}, \A x \in s : s \ {x} \in T
      PROVE  s \in T
  <2>1. PICK x : x \in s
    BY <1>2
  <2>2. IsFiniteSet(s) /\ (\A y \in s : f[y] \in Int)
    BY FS_Subset
  <2>3. F(s) = f[x] + F(s \ {x})
    BY <2>1, <2>2, SumWithout
  <2>4. IsFiniteSet(Img(s \ {x})) /\ F(s \ {x}) = G(Img(s \ {x}))
    BY <1>2, <2>1
  <2>5. Img(s) = Img(s \ {x}) \cup {m[x]} /\ Img(s \ {x}) = Img(s) \ {m[x]} /\ m[x] \in Img(s)
    BY <2>1
  <2>6. IsFiniteSet(Img(s)) /\ (\A y \in Img(s) : g[y] \in Int)
    <3>1. IsFiniteSet(Img(s \ {x}) \cup {m[x]})
      BY <2>4, FS_AddElement
    <3>2. \A y \in Img(s) : y \in DOMAIN g
      OBVIOUS
    <3> HIDE DEF Img
    <3> QED  BY <2>5, <3>1, <3>2
  <2>7. G(Img(s)) = g[m[x]] + G(Img(s) \ {m[x]})
    <3>1. PICK image : image = Img(s)
      OBVIOUS
    <3>2. IsFiniteSet(image) /\ (\A y \in image : g[y] \in Int) /\ m[x] \in image
      BY <2>5, <2>6, <3>1
    <3>3. SumFunctionOnSet(g, image) = g[m[x]] + SumFunctionOnSet(g, image \ {m[x]})
      BY <3>2, SumWithout
    <3> QED  BY <3>1, <3>3
  <2>8. f[x] = g[m[x]]
    BY <2>1
  <2>9. F(s) = G(Img(s))
    <3> HIDE DEF F, G, Img
    <3> QED  BY <2>3, <2>4, <2>5, <2>7, <2>8
  <2> QED  BY <2>6, <2>9
<1>3. F(S) = G(Img(S))
  <2>2. \A s \in SUBSET S : s # {} /\ (\A x \in s : s \ {x} \in T) => s \in T
    <3> HIDE DEF T
    <3> QED  BY <1>2
  <2>3. \A s \in SUBSET S : s \in T
    <3> HIDE DEF T
    <3> QED  BY <1>1, <2>2, SubsetInduction
  <2> QED  BY <2>3
<1>4. Img(S) = DOMAIN g
  OBVIOUS
<1> QED  BY <1>3, <1>4 DEF SumFunction

\* The amounts c are the m amounts a and then the n amounts b.
Concatenates(c, a, b, m, n) ==
  /\ m \in Nat /\ n \in Nat
  /\ DOMAIN a = 1 .. m /\ DOMAIN b = 1 .. n /\ DOMAIN c = 1 .. m + n
  /\ \A i \in 1 .. m : a[i] \in Int /\ c[i] = a[i]
  /\ \A i \in 1 .. n : b[i] \in Int /\ c[m + i] = b[i]

\* A list adds up to what its beginning and its end add up to.
LEMMA SumConcatenated ==
  ASSUME NEW m, NEW n, NEW a, NEW b, NEW c, Concatenates(c, a, b, m, n)
  PROVE  SumFunction(c) = SumFunction(a) + SumFunction(b)
<1> USE DEF Concatenates
<1> DEFINE d == [j \in m + 1 .. m + n |-> c[j]]
           name == [j \in m + 1 .. m + n |-> j - m]
<1>1. IsFiniteSet(DOMAIN c) /\ IsFiniteSet(DOMAIN d)
  BY FS_Interval
<1>2. ASSUME NEW j \in m + 1 .. m + n
      PROVE  j - m \in 1 .. n /\ m + (j - m) = j /\ d[j] = b[j - m] /\ d[j] = c[j] /\ d[j] \in Int
  OBVIOUS
<1>3. \A i \in DOMAIN c : i \in 1 .. m \/ i \in m + 1 .. m + n
  OBVIOUS
<1>4. SumFunction(c) = SumFunction(a) + SumFunction(d)
  <2>1. DOMAIN a \cap DOMAIN d = {} /\ DOMAIN c = DOMAIN a \cup DOMAIN d
    OBVIOUS
  <2>2. \A i \in DOMAIN c : c[i] \in Int
    BY <1>2, <1>3
  <2> QED  BY <1>1, <1>2, <2>1, <2>2, SumSplits
<1>5. SumFunction(d) = SumFunction(b)
  <2>1. \A j \in DOMAIN d : name[j] \in DOMAIN b /\ d[j] = b[name[j]]
    BY <1>2
  <2>2. \A j, k \in DOMAIN d : name[j] = name[k] => j = k
    OBVIOUS
  <2>3. ASSUME NEW i \in DOMAIN b PROVE \E j \in DOMAIN d : name[j] = i
    <3>1. m + i \in DOMAIN d /\ name[m + i] = i
      OBVIOUS
    <3> QED  BY <3>1
  <2>4. \A i \in DOMAIN b : b[i] \in Int
    OBVIOUS
  <2>5. PICK e, named : e = d /\ named = name
    OBVIOUS
  <2> HIDE DEF d, name
  <2> QED  BY ONLY <1>1, <2>1, <2>2, <2>3, <2>4, <2>5, SumRenamed
<1> QED  BY <1>4, <1>5

---------------------------------------------------------------------------
(* Positions in the order of their entry. *)

\* No two positions were entered on one bar.
OnePerBar(ps) ==
  /\ IsFiniteSet(ps)
  /\ \A p \in ps : p.entryBar \in Nat
  /\ \A p, q \in ps : p.entryBar = q.entryBar => p = q

\* They can be listed oldest first, each of them once (close_position walks the list).
LEMMA OldestFirstLists ==
  ASSUME NEW ps, OnePerBar(ps)
  PROVE  LET q == OldestFirst(ps)
         IN  /\ DOMAIN q = 1 .. Cardinality(ps) /\ Cardinality(ps) \in Nat
             /\ \A i \in DOMAIN q : q[i] \in ps
             /\ \A i, j \in DOMAIN q : q[i] = q[j] => i = j
             /\ \A p \in ps : \E i \in DOMAIN q : q[i] = p
             /\ \A i, j \in DOMAIN q : i < j => q[i].entryBar < q[j].entryBar
<1> DEFINE Sorted(q) == \A i, j \in DOMAIN q : i < j => q[i].entryBar < q[j].entryBar
           T == {s \in SUBSET ps : \E q \in SetToSeqs(s) : Sorted(q)}
<1>0. \A s \in SUBSET ps : IsFiniteSet(s) /\ Cardinality(s) \in Nat
  BY FS_Subset, FS_CardinalityType DEF OnePerBar
<1>1. {} \in T
  <2>1. Cardinality({}) = 0
    BY FS_EmptySet
  <2>2. <<>> \in SetToSeqs({}) /\ Sorted(<<>>)
    BY <2>1 DEF SetToSeqs
  <2> QED  BY <2>2
<1>2. ASSUME NEW s \in SUBSET ps, s # {}, \A x \in s : s \ {x} \in T
      PROVE  s \in T
  <2> DEFINE bars == {n \in Nat : \E p \in s : n = p.entryBar}
  <2>1. bars # {} /\ bars \in SUBSET Nat
    BY <1>2 DEF OnePerBar
  <2>2. PICK n \in bars : \A m \in bars : n <= m
    <3> HIDE DEF bars
    <3> QED  BY <2>1, LeastNumber
  <2>3. PICK x \in s : n = x.entryBar
    OBVIOUS
  <2>4. PICK r \in SetToSeqs(s \ {x}) : Sorted(r)
    BY <1>2
  <2>5. \A p \in s \ {x} : x.entryBar < p.entryBar
    BY <2>2, <2>3 DEF OnePerBar
  <2>6. PICK k \in Nat : Cardinality(s \ {x}) = k /\ Cardinality(s) = k + 1
    BY <1>0, FS_RemoveElement
  <2>7. r \in [1 .. k -> s \ {x}] /\ \A i, j \in 1 .. k : i # j => r[i] # r[j]
    BY <2>6 DEF SetToSeqs
  <2> DEFINE q == [i \in 1 .. k + 1 |-> IF i = 1 THEN x ELSE r[i - 1]]
  <2>8. \A i \in 2 .. k + 1 : i - 1 \in 1 .. k /\ q[i] = r[i - 1] /\ q[i] \in s \ {x}
    BY <2>7
  <2>9. q[1] = x /\ DOMAIN q = 1 .. k + 1 /\ \A i \in 1 .. k + 1 : i = 1 \/ i \in 2 .. k + 1
    OBVIOUS
  <2>10. q \in [1 .. k + 1 -> s]
    BY <2>7
  <2> HIDE DEF q
  <2>11. \A i, j \in 1 .. k + 1 : i # j => q[i] # q[j]
    BY <2>7, <2>8, <2>9
  <2>12. Sorted(q)
    <3>1. ASSUME NEW i \in 1 .. k + 1, NEW j \in 1 .. k + 1, i < j
          PROVE  q[i].entryBar < q[j].entryBar
      <4>1. j \in 2 .. k + 1
        BY <3>1
      <4>2. CASE i = 1
        BY <2>5, <2>8, <2>9, <4>1, <4>2
      <4>3. CASE i # 1
        <5>1. i \in 2 .. k + 1 /\ i - 1 < j - 1
          BY <3>1, <4>3
        <5>2. DOMAIN r = 1 .. k
          BY <2>7
        <5> QED  BY <2>4, <2>8, <4>1, <5>1, <5>2
      <4> QED  BY <4>2, <4>3
    <3> QED  BY <2>9, <3>1
  <2>13. q \in SetToSeqs(s)
    BY <2>6, <2>10, <2>11 DEF SetToSeqs
  <2> QED  BY <2>12, <2>13
<1>3. ps \in T
  <2>1. \A s \in SUBSET ps : s # {} /\ (\A x \in s : s \ {x} \in T) => s \in T
    <3> HIDE DEF T
    <3> QED  BY <1>2
  <2>2. \A s \in SUBSET ps : s \in T
    <3> HIDE DEF T
    <3> QED  BY <1>0, <1>1, <2>1, SubsetInduction
  <2> QED  BY <2>2
<1>4. OldestFirst(ps) \in SetToSeqs(ps) /\ Sorted(OldestFirst(ps))
  <2>1. \E q \in SetToSeqs(ps) : Sorted(q)
    BY <1>3
  <2> QED  BY <2>1 DEF OldestFirst
<1>5. PICK q : q = OldestFirst(ps)
  OBVIOUS
<1>8. \A i, j \in DOMAIN q : i < j => q[i].entryBar < q[j].entryBar
  BY <1>4, <1>5
<1>6. /\ q \in [1 .. Cardinality(ps) -> ps] /\ Cardinality(ps) \in Nat /\ IsFiniteSet(ps)
      /\ \A i, j \in 1 .. Cardinality(ps) : i # j => q[i] # q[j]
  BY <1>0, <1>4, <1>5 DEF SetToSeqs
<1>7. \A p \in ps : \E i \in 1 .. Cardinality(ps) : q[i] = p
  <2>1. IsFiniteSet(1 .. Cardinality(ps)) /\ Cardinality(1 .. Cardinality(ps)) = Cardinality(ps)
    BY <1>6, FS_Interval
  <2>2. q \in Injection(1 .. Cardinality(ps), ps)
    BY <1>6 DEF Injection, IsInjective
  <2>3. q \in Surjection(1 .. Cardinality(ps), ps)
    BY <1>6, <2>1, <2>2, FS_Injection
  <2> QED  BY <2>3 DEF Surjection
<1> QED  BY <1>5, <1>6, <1>7, <1>8

---------------------------------------------------------------------------
(* Cash, realised P&L and costs. *)

IsSeq(q) == q \in Seq({q[i] : i \in DOMAIN q})

\* The amounts a position and a trade carry.
IsLot(p) ==
  /\ p = [f \in DOMAIN p |-> p[f]]
  /\ {"qty", "entry", "entryBar", "entryCosts", "risk", "dir", "stop", "target",
      "low", "high", "queuedOn"} \subseteq DOMAIN p
  /\ p.qty \in Int /\ p.entry \in Int /\ p.entryCosts \in Int /\ p.risk \in Int
  /\ p.stop \in Int /\ p.target \in Int
IsResult(x) == x.net \in Int /\ x.gross \in Int /\ x.costs \in Int

IsAccount(pf) ==
  /\ DOMAIN pf = DOMAIN EmptyPortfolio
  /\ OnePerBar(pf.positions) /\ \A p \in pf.positions : IsLot(p)
  /\ IsSeq(pf.trades) /\ \A i \in DOMAIN pf.trades : IsResult(pf.trades[i])
  /\ pf.cash \in Int /\ pf.realised \in Int /\ pf.costs \in Int

Nets(pf) == [i \in DOMAIN pf.trades |-> pf.trades[i].net]
Grosses(pf) == [i \in DOMAIN pf.trades |-> pf.trades[i].gross]
TradeCosts(pf) == [i \in DOMAIN pf.trades |-> pf.trades[i].costs]
EntryCosts(ps) == [p \in ps |-> p.entryCosts]

\* What trades that are no longer listed have left in the totals of an account.
Pasts == [realised: Int, costs: Int, cash: Int]
NoPast == [realised |-> 0, costs |-> 0, cash |-> 0]
LEMMA NoPastIsPast == NoPast \in Pasts
  BY DEF NoPast, Pasts

\* Realised P&L, costs and cash are those of the listed trades, of the open positions
\* and of the past.
Balanced(pf, past) ==
  /\ pf.realised = past.realised + SumFunction(Nets(pf))
  /\ pf.costs = past.costs + SumFunction(TradeCosts(pf)) + SumFunction(EntryCosts(pf.positions))
  /\ pf.cash = InitialBalance + past.cash + SumFunction(Grosses(pf)) - pf.costs

\* The sums of an account are integers.
LEMMA AccountSums ==
  ASSUME NEW pf, IsAccount(pf)
  PROVE  /\ SumFunction(Nets(pf)) \in Int /\ SumFunction(Grosses(pf)) \in Int
         /\ SumFunction(TradeCosts(pf)) \in Int
         /\ SumFunction(EntryCosts(pf.positions)) \in Int
         /\ IsFiniteSet(DOMAIN pf.trades)
<1>1. IsFiniteSet(DOMAIN pf.trades)
  <2>1. DOMAIN pf.trades = 1 .. Len(pf.trades) /\ Len(pf.trades) \in Nat
    BY DEF IsAccount, IsSeq
  <2> QED  BY <2>1, FS_Interval
<1>2. /\ IsFiniteSet(DOMAIN Nets(pf)) /\ \A i \in DOMAIN Nets(pf) : Nets(pf)[i] \in Int
      /\ IsFiniteSet(DOMAIN Grosses(pf)) /\ \A i \in DOMAIN Grosses(pf) : Grosses(pf)[i] \in Int
      /\ IsFiniteSet(DOMAIN TradeCosts(pf))
      /\ \A i \in DOMAIN TradeCosts(pf) : TradeCosts(pf)[i] \in Int
  BY <1>1 DEF Nets, Grosses, TradeCosts, IsAccount, IsResult
<1>3. /\ IsFiniteSet(DOMAIN EntryCosts(pf.positions))
      /\ \A p \in DOMAIN EntryCosts(pf.positions) : EntryCosts(pf.positions)[p] \in Int
  BY DEF EntryCosts, IsAccount, OnePerBar, IsLot
<1> QED  BY <1>1, <1>2, <1>3, SumTyped

\* A new portfolio is balanced.
LEMMA EmptyBalanced == IsAccount(EmptyPortfolio) /\ Balanced(EmptyPortfolio, NoPast)
<1> DEFINE pf == EmptyPortfolio
<1>1. /\ pf.positions = {} /\ pf.trades = <<>> /\ pf.cash = InitialBalance
      /\ pf.realised = 0 /\ pf.costs = 0
  BY DEF EmptyPortfolio
<1> HIDE DEF pf
<1>2. IsAccount(pf)
  <2>1. IsSeq(<<>>) /\ OnePerBar({})
    BY FS_EmptySet DEF IsSeq, OnePerBar
  <2> QED  BY <1>1, <2>1, BalanceAssumption DEF IsAccount, pf
<1>3. DOMAIN Nets(pf) = {} /\ DOMAIN Grosses(pf) = {} /\ DOMAIN TradeCosts(pf) = {}
      /\ DOMAIN EntryCosts(pf.positions) = {}
  BY <1>1 DEF Nets, Grosses, TradeCosts, EntryCosts
<1>4. Balanced(pf, NoPast)
  <2>1. /\ SumFunction(Nets(pf)) = 0 /\ SumFunction(Grosses(pf)) = 0
        /\ SumFunction(TradeCosts(pf)) = 0 /\ SumFunction(EntryCosts(pf.positions)) = 0
    BY <1>3, SumNone
  <2>2. NoPast.realised = 0 /\ NoPast.costs = 0 /\ NoPast.cash = 0
    BY DEF NoPast
  <2> QED  BY <1>1, <2>1, <2>2, BalanceAssumption DEF Balanced
<1> QED  BY <1>2, <1>4 DEF pf

\* open_position: the entry costs leave the cash and are recorded.
LEMMA OpenBalanced ==
  ASSUME NEW past \in Pasts, NEW pf, IsAccount(pf), Balanced(pf, past), NEW p, IsLot(p), p.entryBar \in Nat,
         \A q \in pf.positions : q.entryBar # p.entryBar
  PROVE  IsAccount(OpenPosition(pf, p)) /\ Balanced(OpenPosition(pf, p), past)
<1> DEFINE c == OpenPosition(pf, p)
           ps == pf.positions
<1>1. /\ c.positions = ps \cup {p} /\ c.cash = pf.cash - p.entryCosts
      /\ c.costs = pf.costs + p.entryCosts
      /\ c.trades = pf.trades /\ c.realised = pf.realised
      /\ DOMAIN c = DOMAIN EmptyPortfolio
  BY DEF OpenPosition, IsAccount, EmptyPortfolio
<1> HIDE DEF c
<1>2. OnePerBar(ps \cup {p})
  BY FS_AddElement DEF OnePerBar, IsAccount
<1>3. IsAccount(c)
  <2>1. c.cash \in Int /\ c.costs \in Int /\ c.realised \in Int
    BY <1>1 DEF IsAccount, IsLot
  <2> QED  BY <1>1, <1>2, <2>1 DEF IsAccount
<1>4. SumFunction(EntryCosts(ps \cup {p})) = SumFunction(EntryCosts(ps)) + p.entryCosts
  <2> DEFINE a == EntryCosts(ps)
             b == EntryCosts(ps \cup {p})
  <2>1. /\ DOMAIN b = DOMAIN a \cup {p} /\ p \notin DOMAIN a /\ IsFiniteSet(DOMAIN a)
        /\ b[p] = p.entryCosts /\ b[p] \in Int
        /\ \A q \in DOMAIN a : b[q] = a[q] /\ a[q] \in Int
    BY DEF EntryCosts, IsAccount, OnePerBar, IsLot
  <2> HIDE DEF a, b
  <2>2. SumFunction(b) = SumFunction(a) + b[p]
    BY ONLY <2>1, SumAdds
  <2> QED  BY <2>1, <2>2 DEF a, b
<1>5. /\ Nets(c) = Nets(pf) /\ Grosses(c) = Grosses(pf) /\ TradeCosts(c) = TradeCosts(pf)
  BY <1>1 DEF Nets, Grosses, TradeCosts
<1>6. Balanced(c, past)
  <2>1. /\ SumFunction(TradeCosts(pf)) \in Int /\ SumFunction(EntryCosts(ps)) \in Int
        /\ SumFunction(Grosses(pf)) \in Int
    BY AccountSums
  <2>2. pf.cash \in Int /\ pf.costs \in Int /\ p.entryCosts \in Int /\ InitialBalance \in Int
    BY BalanceAssumption DEF IsAccount, IsLot
  <2>3. past.realised \in Int /\ past.costs \in Int /\ past.cash \in Int
    BY DEF Pasts
  <2> QED  BY <1>1, <1>4, <1>5, <2>1, <2>2, <2>3 DEF Balanced
<1> QED  BY <1>3, <1>6 DEF c

\* b is a list of n things; c is the list a with b behind it.
IsList(b, n) == n \in Nat /\ b = [i \in 1 .. n |-> b[i]]
Joined(a, b, n, c) ==
  LET m == Len(a)
  IN  /\ IsSeq(c) /\ m \in Nat /\ DOMAIN a = 1 .. m
      /\ DOMAIN c = 1 .. m + n
      /\ \A i \in 1 .. m : c[i] = a[i]
      /\ \A i \in 1 .. n : c[m + i] = b[i]
      /\ SubSeq(c, m + 1, Len(c)) = b

LEMMA Appended ==
  ASSUME NEW a, IsSeq(a), NEW n, NEW b, IsList(b, n)
  PROVE  Joined(a, b, n, a \o b)
<1> DEFINE A == {a[i] : i \in DOMAIN a}
           B == {b[i] : i \in 1 .. n}
           X == A \cup B
           c == a \o b
           m == Len(a)
<1>1. a \in Seq(X)
  BY DEF IsSeq
<1>2. b \in [1 .. n -> X] /\ n \in Nat
  BY DEF IsList
<1> HIDE DEF X
<1>3. b \in Seq(X) /\ Len(b) = n /\ DOMAIN b = 1 .. n
  BY <1>2
<1>4. m \in Nat /\ DOMAIN a = 1 .. m
  BY <1>1
<1>5. c \in Seq(X) /\ Len(c) = m + n
  BY <1>1, <1>3
<1>6. DOMAIN c = 1 .. m + n
  BY <1>5, <1>4
<1>7. \A i \in 1 .. m : c[i] = a[i]
  BY <1>1, <1>3, <1>4
<1>8. \A i \in 1 .. n : c[m + i] = b[i]
  BY <1>1, <1>3, <1>4
<1> HIDE DEF c, m
<1>9. SubSeq(c, m + 1, Len(c)) = [i \in 1 .. n |-> c[m + i]]
  <2>1. SubSeq(c, m + 1, Len(c)) = [i \in 1 .. ((m + n) - (m + 1) + 1) |-> c[i + (m + 1) - 1]]
    BY <1>5, <1>4
  <2>2. (m + n) - (m + 1) + 1 = n /\ \A i \in 1 .. n : i + (m + 1) - 1 = m + i
    BY <1>2, <1>4
  <2> QED  BY <2>1, <2>2
<1>10. SubSeq(c, m + 1, Len(c)) = b
  BY <1>8, <1>9, <1>2
<1>11. IsSeq(c)
  BY <1>5 DEF IsSeq
<1> QED  BY <1>4, <1>5, <1>6, <1>7, <1>8, <1>10, <1>11 DEF c, m, Joined

\* The list new is the list old of m trades and one for each of the n positions closed.
ClosedBehind(new, old, exits, t, index, regime, m, n) ==
  /\ m \in Nat /\ n \in Nat /\ n = Cardinality(DOMAIN exits) /\ IsSeq(new)
  /\ DOMAIN new = 1 .. m + n /\ DOMAIN old = 1 .. m
  /\ \A i \in 1 .. m : new[i] = old[i]
  /\ \A i \in 1 .. n :
       LET p == OldestFirst(DOMAIN exits)[i]
       IN  p \in DOMAIN exits /\ new[m + i] = TradeOf(p, exits[p], t, index, regime)
  /\ new = old \o SubSeq(new, m + 1, Len(new))

LEMMA ClosedTrades ==
  ASSUME NEW pf, IsAccount(pf), NEW exits, DOMAIN exits \subseteq pf.positions,
         NEW t, NEW index, NEW regime
  PROVE  ClosedBehind(ClosePositions(pf, exits, t, index, regime).trades, pf.trades,
                      exits, t, index, regime, Len(pf.trades), Cardinality(DOMAIN exits))
<1> DEFINE ps == DOMAIN exits
           c == ClosePositions(pf, exits, t, index, regime)
           n == Cardinality(ps)
           new == [i \in 1 .. n |-> TradeOf(OldestFirst(ps)[i], exits[OldestFirst(ps)[i]],
                                            t, index, regime)]
           all == pf.trades \o new
<1>1. OnePerBar(ps)
  BY FS_Subset DEF OnePerBar, IsAccount
<1>2. n \in Nat /\ \A i \in 1 .. n : OldestFirst(ps)[i] \in ps
  BY <1>1, OldestFirstLists
<1>3. c.trades = all
  BY DEF ClosePositions, IsAccount, EmptyPortfolio
<1> HIDE DEF c
<1>4. IsSeq(pf.trades)
  BY DEF IsAccount
<1>5. new = [i \in 1 .. n |-> new[i]]
  OBVIOUS
<1> HIDE DEF new
<1>6. /\ IsSeq(all) /\ Len(pf.trades) \in Nat /\ DOMAIN pf.trades = 1 .. Len(pf.trades)
      /\ DOMAIN all = 1 .. Len(pf.trades) + n
      /\ \A i \in 1 .. Len(pf.trades) : all[i] = pf.trades[i]
      /\ \A i \in 1 .. n : all[Len(pf.trades) + i] = new[i]
      /\ SubSeq(all, Len(pf.trades) + 1, Len(all)) = new
  <2>1. IsSeq(pf.trades) /\ IsList(new, n)
    BY <1>2, <1>4, <1>5 DEF IsList
  <2>2. Joined(pf.trades, new, n, all)
    BY <2>1, Appended
  <2> HIDE DEF all, n
  <2> QED  BY <2>2 DEF Joined
<1>9. \A i \in 1 .. n : all[Len(pf.trades) + i] = TradeOf(OldestFirst(ps)[i],
                                     exits[OldestFirst(ps)[i]], t, index, regime)
  BY <1>6 DEF new
<1>10. all = pf.trades \o SubSeq(all, Len(pf.trades) + 1, Len(all))
  BY <1>6
<1>11. ClosedBehind(all, pf.trades, exits, t, index, regime, Len(pf.trades), n)
  <2> HIDE DEF all
  <2> QED  BY <1>2, <1>6, <1>9, <1>10 DEF ClosedBehind
<1> QED  BY <1>3, <1>11 DEF c

\* The list d of amounts is the list a and f of each position, oldest first.
GrowsBy(d, a, f, ps, m, n) ==
  /\ m \in Nat /\ n = Cardinality(ps) /\ DOMAIN a = 1 .. m /\ DOMAIN d = 1 .. m + n
  /\ \A i \in 1 .. m : a[i] \in Int /\ d[i] = a[i]
  /\ \A i \in 1 .. n : d[m + i] = f[OldestFirst(ps)[i]]

LEMMA SumOfClosed ==
  ASSUME NEW ps, OnePerBar(ps), NEW f, DOMAIN f = ps, \A p \in ps : f[p] \in Int,
         NEW a, NEW d, NEW m, NEW n, GrowsBy(d, a, f, ps, m, n)
  PROVE  SumFunction(d) = SumFunction(a) + SumFunction(f)
<1>1. PICK q : q = OldestFirst(ps)
  OBVIOUS
<1>2. /\ DOMAIN q = 1 .. n /\ n \in Nat
      /\ \A i \in 1 .. n : q[i] \in ps
      /\ \A i, j \in 1 .. n : q[i] = q[j] => i = j
      /\ \A p \in ps : \E i \in 1 .. n : q[i] = p
  BY <1>1, OldestFirstLists DEF GrowsBy
<1> DEFINE b == [i \in 1 .. n |-> f[q[i]]]
<1>3. /\ DOMAIN b = 1 .. n /\ \A i \in 1 .. n : b[i] = f[q[i]] /\ b[i] \in Int
  BY <1>2
<1> HIDE DEF b
<1>4. SumFunction(d) = SumFunction(a) + SumFunction(b)
  <2>1. \A i \in 1 .. n : b[i] \in Int /\ d[m + i] = b[i]
    BY <1>1, <1>3 DEF GrowsBy
  <2>2. /\ m \in Nat /\ DOMAIN a = 1 .. m /\ DOMAIN d = 1 .. m + n
        /\ \A i \in 1 .. m : a[i] \in Int /\ d[i] = a[i]
    BY DEF GrowsBy
  <2>3. Concatenates(d, a, b, m, n)
    BY <1>2, <1>3, <2>1, <2>2 DEF Concatenates
  <2> QED  BY <2>3, SumConcatenated
<1>5. SumFunction(b) = SumFunction(f)
  <2>1. IsFiniteSet(DOMAIN b)
    BY <1>2, <1>3, FS_Interval
  <2>2. \A i \in DOMAIN b : q[i] \in DOMAIN f /\ b[i] = f[q[i]]
    BY <1>2, <1>3
  <2>3. /\ \A i, j \in DOMAIN b : q[i] = q[j] => i = j
        /\ \A p \in DOMAIN f : \E i \in DOMAIN b : q[i] = p
        /\ \A p \in DOMAIN f : f[p] \in Int
    BY <1>2, <1>3
  <2> QED  BY <2>1, <2>2, <2>3, SumRenamed
<1> QED  BY <1>4, <1>5

\* The amounts of a closing fill.
LEMMA ClosingAmounts ==
  ASSUME NEW p, IsLot(p), NEW exit, exit.price \in Int, exit.cost \in Int
  PROVE  /\ GrossPnl(p, exit) \in Int /\ NetPnl(p, exit) \in Int
         /\ GrossPnl(p, exit) = NetPnl(p, exit) + exit.cost
<1>1. PICK d \in Int, q \in Int, s \in Int : GrossPnl(p, exit) = d * q * s
  <2>1. exit.price - p.entry \in Int /\ p.qty \in Int /\ Sign(p.dir) \in Int
    BY DEF IsLot, Sign
  <2> QED  BY <2>1 DEF GrossPnl
<1>2. d * q \in Int /\ d * q * s \in Int
  OBVIOUS
<1> HIDE DEF GrossPnl
<1> QED  BY <1>1, <1>2 DEF NetPnl

\* close_position: the account stays balanced.
LEMMA CloseBalanced ==
  ASSUME NEW past \in Pasts, NEW pf, IsAccount(pf), Balanced(pf, past), NEW exits, DOMAIN exits \subseteq pf.positions,
         \A p \in DOMAIN exits : exits[p].price \in Int /\ exits[p].cost \in Int,
         NEW t, NEW index, NEW regime
  PROVE  LET c == ClosePositions(pf, exits, t, index, regime)
         IN  IsAccount(c) /\ Balanced(c, past)
<1> DEFINE ps == DOMAIN exits
           c == ClosePositions(pf, exits, t, index, regime)
           q == OldestFirst(ps)
           netOf == [p \in ps |-> NetPnl(p, exits[p])]
           grossOf == [p \in ps |-> GrossPnl(p, exits[p])]
           exitOf == [p \in ps |-> exits[p].cost]
           costOf == [p \in ps |-> p.entryCosts + exits[p].cost]
<1>1. OnePerBar(ps) /\ IsFiniteSet(ps) /\ OnePerBar(pf.positions \ ps)
  BY FS_Subset DEF OnePerBar, IsAccount
<1>2. /\ c.positions = pf.positions \ ps /\ c.cash = pf.cash + SumFunction(netOf)
      /\ c.realised = pf.realised + SumFunction(netOf)
      /\ c.costs = pf.costs + SumFunction(exitOf) /\ DOMAIN c = DOMAIN EmptyPortfolio
  BY DEF ClosePositions, IsAccount, EmptyPortfolio
<1>3. PICK m, n : ClosedBehind(c.trades, pf.trades, exits, t, index, regime, m, n)
  BY ClosedTrades
<1> HIDE DEF c, q
<1>4. \A p \in ps : /\ IsLot(p) /\ p.entryCosts \in Int
                    /\ NetPnl(p, exits[p]) \in Int /\ GrossPnl(p, exits[p]) \in Int
                    /\ GrossPnl(p, exits[p]) = NetPnl(p, exits[p]) + exits[p].cost
  BY ClosingAmounts DEF IsAccount, IsLot
<1>5. \A p \in ps : /\ netOf[p] \in Int /\ grossOf[p] \in Int /\ exitOf[p] \in Int
                    /\ costOf[p] \in Int /\ EntryCosts(ps)[p] \in Int
                    /\ grossOf[p] = netOf[p] + exitOf[p]
                    /\ costOf[p] = EntryCosts(ps)[p] + exitOf[p]
  BY <1>4 DEF EntryCosts
<1>6. \A i \in 1 .. n : /\ c.trades[m + i].net = netOf[q[i]]
                        /\ c.trades[m + i].gross = grossOf[q[i]]
                        /\ c.trades[m + i].costs = costOf[q[i]]
  <2> SUFFICES ASSUME NEW i \in 1 .. n
               PROVE  /\ c.trades[m + i].net = netOf[q[i]]
                      /\ c.trades[m + i].gross = grossOf[q[i]]
                      /\ c.trades[m + i].costs = costOf[q[i]]
    OBVIOUS
  <2>1. q[i] \in ps /\ c.trades[m + i] = TradeOf(q[i], exits[q[i]], t, index, regime)
    BY <1>3 DEF ClosedBehind, q
  <2>2. /\ TradeOf(q[i], exits[q[i]], t, index, regime).net = NetPnl(q[i], exits[q[i]])
        /\ TradeOf(q[i], exits[q[i]], t, index, regime).gross = GrossPnl(q[i], exits[q[i]])
        /\ TradeOf(q[i], exits[q[i]], t, index, regime).costs = q[i].entryCosts + exits[q[i]].cost
    BY DEF TradeOf
  <2> HIDE DEF ps
  <2> QED  BY <2>1, <2>2
<1>7. /\ DOMAIN netOf = ps /\ DOMAIN grossOf = ps /\ DOMAIN exitOf = ps
      /\ DOMAIN costOf = ps /\ DOMAIN EntryCosts(ps) = ps
  BY DEF EntryCosts
<1> HIDE DEF netOf, grossOf, exitOf, costOf
<1>8. \A i \in 1 .. m : IsResult(pf.trades[i])
  BY <1>3 DEF IsAccount, ClosedBehind
<1>9. SumFunction(Nets(c)) = SumFunction(Nets(pf)) + SumFunction(netOf)
  <2>1. GrowsBy(Nets(c), Nets(pf), netOf, ps, m, n)
    BY <1>3, <1>6, <1>8 DEF Nets, IsResult, ClosedBehind, GrowsBy, q
  <2> QED  BY <1>1, <1>5, <1>7, <2>1, SumOfClosed
<1>10. SumFunction(Grosses(c)) = SumFunction(Grosses(pf)) + SumFunction(grossOf)
  <2>1. GrowsBy(Grosses(c), Grosses(pf), grossOf, ps, m, n)
    BY <1>3, <1>6, <1>8 DEF Grosses, IsResult, ClosedBehind, GrowsBy, q
  <2> QED  BY <1>1, <1>5, <1>7, <2>1, SumOfClosed
<1>11. SumFunction(TradeCosts(c)) = SumFunction(TradeCosts(pf)) + SumFunction(costOf)
  <2>1. GrowsBy(TradeCosts(c), TradeCosts(pf), costOf, ps, m, n)
    BY <1>3, <1>6, <1>8 DEF TradeCosts, IsResult, ClosedBehind, GrowsBy, q
  <2> QED  BY <1>1, <1>5, <1>7, <2>1, SumOfClosed
<1>12. SumFunction(grossOf) = SumFunction(netOf) + SumFunction(exitOf)
  BY <1>1, <1>5, <1>7, SumOfSums
<1>13. SumFunction(costOf) = SumFunction(EntryCosts(ps)) + SumFunction(exitOf)
  BY <1>1, <1>5, <1>7, SumOfSums
<1>14. /\ SumFunction(EntryCosts(pf.positions)) =
            SumFunction(EntryCosts(ps)) + SumFunction(EntryCosts(c.positions))
       /\ SumFunction(EntryCosts(c.positions)) \in Int
  <2> DEFINE f == EntryCosts(pf.positions)
             g == EntryCosts(ps)
             h == EntryCosts(c.positions)
  <2>1. /\ IsFiniteSet(DOMAIN f) /\ IsFiniteSet(DOMAIN h) /\ \A p \in DOMAIN f : f[p] \in Int
        /\ DOMAIN g \cap DOMAIN h = {} /\ DOMAIN f = DOMAIN g \cup DOMAIN h
        /\ \A p \in DOMAIN g : g[p] = f[p] /\ \A r \in DOMAIN h : h[r] = f[r] /\ h[r] \in Int
    BY <1>1, <1>2 DEF EntryCosts, IsAccount, OnePerBar, IsLot
  <2>2. \A r \in DOMAIN h : h[r] = f[r] /\ h[r] \in Int
    BY <1>2 DEF EntryCosts, IsAccount, IsLot
  <2> HIDE DEF f, g, h
  <2>3. SumFunction(f) = SumFunction(g) + SumFunction(h)
    BY <2>1, <2>2, SumSplits
  <2>4. SumFunction(h) \in Int
    BY <2>1, <2>2, SumTyped
  <2> QED  BY <2>3, <2>4 DEF f, g, h
<1>15. /\ SumFunction(netOf) \in Int /\ SumFunction(grossOf) \in Int
       /\ SumFunction(exitOf) \in Int /\ SumFunction(costOf) \in Int
       /\ SumFunction(EntryCosts(ps)) \in Int
  BY <1>1, <1>5, <1>7, SumTyped
<1>16. /\ SumFunction(Nets(pf)) \in Int /\ SumFunction(Grosses(pf)) \in Int
       /\ SumFunction(TradeCosts(pf)) \in Int
  BY AccountSums
<1>17. pf.cash \in Int /\ pf.realised \in Int /\ pf.costs \in Int /\ InitialBalance \in Int
  BY BalanceAssumption DEF IsAccount
<1>18. IsAccount(c)
  <2>1. c.cash \in Int /\ c.realised \in Int /\ c.costs \in Int
    BY <1>2, <1>15, <1>17
  <2>2. OnePerBar(c.positions) /\ \A p \in c.positions : IsLot(p)
    BY <1>1, <1>2 DEF IsAccount
  <2>3. \A i \in DOMAIN c.trades : IsResult(c.trades[i])
    <3>1. ASSUME NEW i \in 1 .. n PROVE IsResult(c.trades[m + i])
      BY <1>3, <1>5, <1>6 DEF IsResult, ClosedBehind, q
    <3>2. \A i \in 1 .. m : IsResult(c.trades[i])
      BY <1>3, <1>8 DEF ClosedBehind
    <3>3. \A i \in 1 .. m + n : i \in 1 .. m \/ (i - m \in 1 .. n /\ m + (i - m) = i)
      BY <1>3 DEF ClosedBehind
    <3> QED  BY <1>3, <3>1, <3>2, <3>3 DEF ClosedBehind
  <2> QED  BY <1>2, <1>3, <2>1, <2>2, <2>3 DEF IsAccount, ClosedBehind
<1>19. Balanced(c, past)
  <2>0. past.realised \in Int /\ past.costs \in Int /\ past.cash \in Int
    BY DEF Pasts
  <2>1. c.realised = past.realised + SumFunction(Nets(c))
    BY <1>2, <1>9, <1>15, <1>16, <1>17, <2>0 DEF Balanced
  <2>2. c.costs = past.costs + SumFunction(TradeCosts(c)) + SumFunction(EntryCosts(c.positions))
    BY <1>2, <1>11, <1>13, <1>14, <1>15, <1>16, <1>17, <2>0 DEF Balanced
  <2>3. c.cash = InitialBalance + past.cash + SumFunction(Grosses(c)) - c.costs
    BY <1>2, <1>10, <1>12, <1>15, <1>16, <1>17, <2>0 DEF Balanced
  <2> QED  BY <2>1, <2>2, <2>3 DEF Balanced
<1> QED  BY <1>18, <1>19 DEF c

\* track_excursions changes no amount of a position.
LEMMA TrackedLot ==
  ASSUME NEW p, IsLot(p), NEW bar
  PROVE  LET q == TrackPosition(p, bar)
         IN  /\ IsLot(q) /\ q.entryBar = p.entryBar /\ q.entryCosts = p.entryCosts
             /\ q.queuedOn = p.queuedOn /\ q.risk = p.risk
<1> DEFINE q == TrackPosition(p, bar)
<1>1. DOMAIN q = DOMAIN p /\ q = [f \in DOMAIN q |-> q[f]]
  BY DEF TrackPosition, IsLot
<1>2. /\ q.qty = p.qty /\ q.entry = p.entry /\ q.entryBar = p.entryBar
      /\ q.entryCosts = p.entryCosts /\ q.risk = p.risk /\ q.stop = p.stop
      /\ q.target = p.target /\ q.queuedOn = p.queuedOn
  BY DEF TrackPosition, IsLot
<1> HIDE DEF q
<1>3. IsLot(q)
  BY <1>1, <1>2 DEF IsLot
<1> QED  BY <1>2, <1>3 DEF q

\* track_excursions: the account stays balanced.
LEMMA TrackBalanced ==
  ASSUME NEW past \in Pasts, NEW pf, IsAccount(pf), Balanced(pf, past), NEW bar
  PROVE  LET c == TrackExcursions(pf, bar)
         IN  /\ IsAccount(c) /\ Balanced(c, past) /\ c.trades = pf.trades /\ c.curve = pf.curve
             /\ c.positions = {TrackPosition(p, bar) : p \in pf.positions}
             /\ c.peak = pf.peak /\ c.dayStart = pf.dayStart /\ c.day = pf.day
<1> DEFINE c == TrackExcursions(pf, bar)
           ps == pf.positions
           new == {TrackPosition(p, bar) : p \in ps}
           m == [p \in ps |-> TrackPosition(p, bar)]
           f == EntryCosts(ps)
           g == EntryCosts(new)
<1>1. /\ c.positions = new /\ c.trades = pf.trades /\ c.cash = pf.cash
      /\ c.realised = pf.realised /\ c.costs = pf.costs /\ c.curve = pf.curve
      /\ c.peak = pf.peak /\ c.dayStart = pf.dayStart /\ c.day = pf.day
      /\ DOMAIN c = DOMAIN EmptyPortfolio
  BY DEF TrackExcursions, IsAccount, EmptyPortfolio
<1>2. \A p \in ps : /\ IsLot(m[p]) /\ m[p].entryBar = p.entryBar /\ m[p].entryBar \in Nat
                    /\ m[p].entryCosts = p.entryCosts /\ m[p] \in new /\ p.entryCosts \in Int
  BY TrackedLot DEF IsAccount, OnePerBar, IsLot
<1>3. \A r \in new : \E p \in ps : m[p] = r
  OBVIOUS
<1>4. DOMAIN m = ps /\ m \in [ps -> new]
  OBVIOUS
<1> HIDE DEF c, m, new
<1>5. OnePerBar(ps) /\ IsFiniteSet(ps)
  BY DEF IsAccount, OnePerBar
<1>6. IsFiniteSet(new)
  <2>1. m \in Surjection(ps, new)
    BY <1>3, <1>4 DEF Surjection
  <2> QED  BY <1>5, <2>1, FS_Surjection
<1>7. \A p, r \in ps : m[p] = m[r] => p = r
  BY <1>2, <1>5 DEF OnePerBar
<1>8. OnePerBar(new)
  <2>1. \A r \in new : r.entryBar \in Nat
    BY <1>2, <1>3
  <2>2. ASSUME NEW r1 \in new, NEW r2 \in new, r1.entryBar = r2.entryBar PROVE r1 = r2
    <3>1. PICK p1 \in ps, p2 \in ps : m[p1] = r1 /\ m[p2] = r2
      BY <1>3
    <3>2. p1.entryBar = p2.entryBar
      BY <1>2, <2>2, <3>1
    <3> QED  BY <1>5, <3>1, <3>2 DEF OnePerBar
  <2> QED  BY <1>6, <2>1, <2>2 DEF OnePerBar
<1>9. \A r \in new : IsLot(r)
  BY <1>2, <1>3
<1>10. IsAccount(c)
  BY <1>1, <1>8, <1>9 DEF IsAccount
<1>11. SumFunction(f) = SumFunction(g)
  <2>1. DOMAIN f = ps /\ DOMAIN g = new
    BY DEF EntryCosts
  <2>2. \A r \in new : g[r] \in Int
    BY <1>9 DEF EntryCosts, IsLot
  <2>3. \A p \in ps : m[p] \in new /\ f[p] = g[m[p]]
    BY <1>2 DEF EntryCosts
  <2> HIDE DEF f, g
  <2> QED  BY <1>3, <1>5, <1>7, <2>1, <2>2, <2>3, SumRenamed
<1>12. Nets(c) = Nets(pf) /\ Grosses(c) = Grosses(pf) /\ TradeCosts(c) = TradeCosts(pf)
  BY <1>1 DEF Nets, Grosses, TradeCosts
<1>13. Balanced(c, past)
  BY <1>1, <1>11, <1>12 DEF Balanced
<1> QED  BY <1>1, <1>10, <1>13 DEF c, new

\* Open positions are worth an integer.
LEMMA EquityIsInt ==
  ASSUME NEW pf, IsAccount(pf), NEW price \in Int
  PROVE  Equity(pf, price) \in Int
<1> DEFINE f == [p \in pf.positions |-> (price - p.entry) * p.qty * Sign(p.dir)]
<1>1. ASSUME NEW p \in pf.positions PROVE f[p] \in Int
  <2>1. PICK d \in Int, q \in Int, s \in Int : d = price - p.entry /\ q = p.qty /\ s = Sign(p.dir)
    BY DEF IsAccount, IsLot, Sign
  <2>2. d * q \in Int /\ d * q * s \in Int
    OBVIOUS
  <2> QED  BY <2>1, <2>2
<1>2. DOMAIN f = pf.positions /\ IsFiniteSet(pf.positions)
  BY DEF IsAccount, OnePerBar
<1> HIDE DEF f
<1>3. SumFunction(f) \in Int
  BY <1>1, <1>2, SumTyped
<1>4. pf.cash \in Int
  BY DEF IsAccount
<1> QED  BY <1>3, <1>4 DEF Equity, Unrealised, f

\* record_snapshot writes no amount but the baselines and the curve.
LEMMA SnapshotBalanced ==
  ASSUME NEW past \in Pasts, NEW pf, IsAccount(pf), Balanced(pf, past), NEW t, NEW close
  PROVE  LET c == RecordSnapshot(pf, t, close)
         IN  /\ IsAccount(c) /\ Balanced(c, past)
             /\ c.trades = pf.trades /\ c.positions = pf.positions /\ c.cash = pf.cash
             /\ Equity(c, close) = Equity(pf, close)
             /\ c.curve = Append(pf.curve, [bar |-> t, equity |-> Equity(pf, close),
                                            cash |-> pf.cash,
                                            open |-> Cardinality(pf.positions)])
             /\ c.peak = Max2(pf.peak, Equity(pf, close))
             /\ c.dayStart = RollDay(pf, t).dayStart /\ c.day = Day(t)
<1> DEFINE c == RecordSnapshot(pf, t, close)
           r == RollDay(pf, t)
<1>1. /\ r.positions = pf.positions /\ r.trades = pf.trades /\ r.cash = pf.cash
      /\ r.realised = pf.realised /\ r.costs = pf.costs /\ r.curve = pf.curve
      /\ r.peak = pf.peak /\ r.day = Day(t) /\ DOMAIN r = DOMAIN EmptyPortfolio
  BY DEF RollDay, IsAccount, EmptyPortfolio
<1>2. c = [r EXCEPT !.peak = Max2(@, Equity(pf, close)),
                    !.curve = Append(@, [bar |-> t, equity |-> Equity(pf, close),
                                         cash |-> pf.cash,
                                         open |-> Cardinality(pf.positions)])]
  BY DEF RecordSnapshot
<1> HIDE DEF c, r
<1>3. /\ c.positions = pf.positions /\ c.trades = pf.trades /\ c.cash = pf.cash
      /\ c.realised = pf.realised /\ c.costs = pf.costs /\ DOMAIN c = DOMAIN EmptyPortfolio
      /\ c.curve = Append(pf.curve, [bar |-> t, equity |-> Equity(pf, close),
                                     cash |-> pf.cash, open |-> Cardinality(pf.positions)])
      /\ c.peak = Max2(pf.peak, Equity(pf, close))
      /\ c.dayStart = r.dayStart /\ c.day = Day(t)
  BY <1>1, <1>2 DEF EmptyPortfolio
<1>4. IsAccount(c)
  BY <1>3 DEF IsAccount
<1>5. Nets(c) = Nets(pf) /\ Grosses(c) = Grosses(pf) /\ TradeCosts(c) = TradeCosts(pf)
  BY <1>3 DEF Nets, Grosses, TradeCosts
<1>6. Balanced(c, past)
  BY <1>3, <1>5 DEF Balanced
<1>7. Equity(c, close) = Equity(pf, close)
  BY <1>3 DEF Equity, Unrealised
<1> QED  BY <1>3, <1>4, <1>6, <1>7 DEF c, r

---------------------------------------------------------------------------
(* The size of an order. *)

\* A finite set of integers has a least and a greatest element.
LEMMA Extremes ==
  ASSUME NEW S, IsFiniteSet(S), S # {}, \A x \in S : x \in Int
  PROVE  /\ \E x \in S : \A y \in S : x <= y
         /\ \E x \in S : \A y \in S : x >= y
<1> DEFINE T == {s \in SUBSET S : s = {} \/ /\ \E x \in s : \A y \in s : x <= y
                                            /\ \E x \in s : \A y \in s : x >= y}
<1>1. {} \in T
  OBVIOUS
<1>2. ASSUME NEW s \in SUBSET S, s # {}, \A x \in s : s \ {x} \in T
      PROVE  s \in T
  <2>1. PICK z \in s : TRUE
    BY <1>2
  <2>2. z \in Int /\ \A y \in s : y \in Int /\ (y = z \/ y \in s \ {z})
    OBVIOUS
  <2>3. CASE s \ {z} = {}
    <3>1. \A y \in s : z <= y /\ z >= y
      BY <2>2, <2>3
    <3> QED  BY <3>1
  <2>4. CASE s \ {z} # {}
    <3>0. s \ {z} \in T
      BY <1>2
    <3>a. PICK a \in s \ {z} : \A y \in s \ {z} : a <= y
      BY <3>0, <2>4
    <3>b. PICK b \in s \ {z} : \A y \in s \ {z} : b >= y
      BY <3>0, <2>4
    <3>1. \A y \in s \ {z} : a <= y /\ b >= y
      BY <3>a, <3>b
    <3>2. \E x \in s : \A y \in s : x <= y
      <4>1. CASE a <= z
        BY <2>2, <3>1, <4>1
      <4>2. CASE ~ (a <= z)
        <5>1. \A y \in s : z <= y
          BY <2>2, <3>1, <4>2
        <5> QED  BY <5>1
      <4> QED  BY <4>1, <4>2
    <3>3. \E x \in s : \A y \in s : x >= y
      <4>1. CASE b >= z
        BY <2>2, <3>1, <4>1
      <4>2. CASE ~ (b >= z)
        <5>1. \A y \in s : z >= y
          BY <2>2, <3>1, <4>2
        <5> QED  BY <5>1
      <4> QED  BY <4>1, <4>2
    <3> QED  BY <3>2, <3>3
  <2> QED  BY <2>3, <2>4
<1>3. S \in T
  <2>1. \A s \in SUBSET S : s # {} /\ (\A x \in s : s \ {x} \in T) => s \in T
    <3> HIDE DEF T
    <3> QED  BY <1>2
  <2>2. \A s \in SUBSET S : s \in T
    <3> HIDE DEF T
    <3> QED  BY <1>1, <2>1, SubsetInduction
  <2> QED  BY <2>2
<1> QED  BY <1>3

LEMMA MinOfIsLeast ==
  ASSUME NEW S, IsFiniteSet(S), S # {}, \A x \in S : x \in Int
  PROVE  MinOf(S) \in S /\ MinOf(S) \in Int /\ \A y \in S : MinOf(S) <= y
<1>1. \E x \in S : \A y \in S : x <= y
  BY Extremes
<1> QED  BY <1>1 DEF MinOf

\* What the risk engine reads of the open positions.
IsHolding(pf) ==
  /\ IsFiniteSet(pf.positions)
  /\ \A p \in pf.positions :
       p.entryBar \in Nat /\ p.qty \in Int /\ p.entry \in Int /\ p.risk \in Int

LEMMA AccountIsHolding ==
  ASSUME NEW pf, IsAccount(pf)
  PROVE  IsHolding(pf)
BY DEF IsAccount, IsHolding, IsLot, OnePerBar

\* The risk of any of the open positions is an integer.
LEMMA OpenRiskIsInt ==
  ASSUME NEW pf, IsHolding(pf), NEW ps, ps \subseteq pf.positions
  PROVE  OpenRisk(ps) \in Int
<1> DEFINE f == [p \in ps |-> p.risk]
<1>1. IsFiniteSet(ps)
  BY FS_Subset DEF IsHolding
<1>2. DOMAIN f = ps /\ \A p \in ps : f[p] \in Int
  BY DEF IsHolding
<1> HIDE DEF f
<1> QED  BY <1>1, <1>2, SumTyped DEF OpenRisk, f

\* Of some positions one is the newest.
LEMMA NewestEntered ==
  ASSUME NEW ps, IsFiniteSet(ps), \A p \in ps : p.entryBar \in Nat, ps # {}
  PROVE  \E q \in ps : \A r \in ps : r.entryBar <= q.entryBar
<1> DEFINE bars == {n \in Nat : \E q \in ps : n = q.entryBar}
<1>1. \A q \in ps : q.entryBar \in bars /\ q.entryBar \in Nat
  OBVIOUS
<1>2. IsFiniteSet(bars)
  <2> DEFINE m == [q \in ps |-> q.entryBar]
  <2>1. m \in Surjection(ps, bars)
    BY <1>1 DEF Surjection
  <2> QED  BY <2>1, FS_Surjection
<1>3. PICK n \in bars : \A k \in bars : n >= k
  <2>1. bars # {} /\ \A n \in bars : n \in Int
    BY <1>1
  <2> HIDE DEF bars
  <2> QED  BY <1>2, <2>1, Extremes
<1> QED  BY <1>1, <1>3

\* The newest position in a symbol has a price.
LEMMA LastEntryIsInt ==
  ASSUME NEW pf, IsHolding(pf), NEW p \in pf.positions
  PROVE  LastEntry(pf, p.symbol) \in Int
<1> DEFINE ps == PositionsIn(pf, p.symbol)
<1>1. ps \subseteq pf.positions /\ p \in ps /\ IsFiniteSet(ps)
      /\ \A q \in ps : q.entryBar \in Nat
  BY FS_Subset DEF PositionsIn, IsHolding
<1>2. \E q \in ps : \A r \in ps : r.entryBar <= q.entryBar
  <2> HIDE DEF ps
  <2> QED  BY <1>1, NewestEntered
<1> DEFINE q == CHOOSE q \in ps : \A r \in ps : r.entryBar <= q.entryBar
<1>3. q \in ps
  BY <1>2
<1>4. LastEntry(pf, p.symbol) = q.entry
  BY DEF LastEntry
<1> HIDE DEF q, ps
<1>5. q.entry \in Int
  BY <1>1, <1>3 DEF IsHolding
<1> QED  BY <1>4, <1>5

\* So the notional of the book is a number.
LEMMA EntryNotionalIsInt ==
  ASSUME NEW pf, IsHolding(pf)
  PROVE  EntryNotional(pf) \in Int
<1> DEFINE f == [p \in pf.positions |-> Abs(p.qty * LastEntry(pf, p.symbol))]
<1>1. ASSUME NEW p \in pf.positions PROVE LastEntry(pf, p.symbol) \in Int
  BY LastEntryIsInt
<1>2. ASSUME NEW p \in pf.positions PROVE f[p] \in Int
  <2>1. PICK q \in Int, e \in Int : q = p.qty /\ e = LastEntry(pf, p.symbol)
    BY <1>1 DEF IsHolding
  <2>2. q * e \in Int
    OBVIOUS
  <2> QED  BY <2>1, <2>2 DEF Abs
<1>3. DOMAIN f = pf.positions /\ IsFiniteSet(pf.positions)
  BY DEF IsHolding
<1> HIDE DEF f
<1>4. SumFunction(f) \in Int
  BY <1>2, <1>3, SumTyped
<1> QED  BY <1>4 DEF EntryNotional, f

\* A signal with a price to size against.
IsPriced(sig) ==
  sig.entry \in Nat \ {0} /\ sig.stop \in Int /\ RiskPerUnit(sig) \in Nat \ {0}

LEMMA PercentIsInt ==
  ASSUME NEW amount \in Int, NEW pct \in Int
  PROVE  Percent(amount, pct) \in Int
<1>1. amount * pct \in Int
  OBVIOUS
<1> QED  BY <1>1 DEF Percent

\* The size is an integer, and its risk is within the budget of one trade and within
\* what is left of every other budget.
LEMMA SizeWithinBudgets ==
  ASSUME NEW pf, IsHolding(pf), NEW equity \in Int, NEW sig, IsPriced(sig), NEW corr
  PROVE  /\ Size(sig, pf, equity, corr) \in Int
         /\ ScaledRisk(pf, equity) \in Int
         /\ Size(sig, pf, equity, corr) * RiskPerUnit(sig) <= ScaledRisk(pf, equity)
         /\ \A left \in BudgetsLeft(sig, pf, equity, corr) :
               left \in Int /\ Size(sig, pf, equity, corr) * RiskPerUnit(sig) <= left
<1> DEFINE B == BudgetsLeft(sig, pf, equity, corr)
           R == {ScaledRisk(pf, equity)} \cup B
           perUnit == RiskPerUnit(sig)
           byRisk == MinOf(R) \div perUnit
           byPosition == Percent(equity, Risk.maxPositionNotional) \div sig.entry
           byBook == NotionalLeft(pf, equity) \div sig.entry
           S == {byRisk, byPosition, byBook}
           s == MinOf(S)
<1>1. /\ Risk.riskPerTrade \in Int /\ Risk.fixedRisk \in Int /\ Risk.reduceFactor \in Int
      /\ Risk.maxPortfolioRisk \in Int /\ Risk.maxRiskPerStrategy \in Int
      /\ Risk.maxCorrelatedRisk \in Int /\ Risk.maxPositionNotional \in Int
      /\ Risk.maxPortfolioNotional \in Int
  BY RiskAssumption DEF RiskConfig
<1>2. ScaledRisk(pf, equity) \in Int
  <2>1. BaseRisk(equity) \in Int
    BY <1>1, PercentIsInt DEF BaseRisk
  <2> QED  BY <1>1, <2>1, PercentIsInt DEF ScaledRisk
<1>3. \E A, C : B = A \cup C /\ IsFiniteSet(A) /\ IsFiniteSet(C) /\ \A x \in A \cup C : x \in Int
  <2>0. \A ps : ps \subseteq pf.positions => OpenRisk(ps) \in Int
    BY OpenRiskIsInt
  <2>1. PICK total \in Int, own \in Int :
           total = OpenRisk(pf.positions)
           /\ own = OpenRisk({p \in pf.positions : p.strategy = sig.strategy})
    <3>1. OpenRisk(pf.positions) \in Int
      BY <2>0
    <3>2. {p \in pf.positions : p.strategy = sig.strategy} \subseteq pf.positions
      OBVIOUS
    <3>3. OpenRisk({p \in pf.positions : p.strategy = sig.strategy}) \in Int
      BY <2>0, <3>2
    <3> QED  BY <3>1, <3>3
  <2>2. OpenRisk({p \in pf.positions : Aligned(sig, p, corr)}) \in Int
    <3>1. {p \in pf.positions : Aligned(sig, p, corr)} \subseteq pf.positions
      OBVIOUS
    <3> QED  BY <2>0, <3>1
  <2>3. PICK correlated \in Int : correlated = CorrelatedRisk(sig, pf, corr)
    <3>1. \/ CorrelatedRisk(sig, pf, corr) = 0
          \/ CorrelatedRisk(sig, pf, corr) = OpenRisk({p \in pf.positions : Aligned(sig, p, corr)})
      BY DEF CorrelatedRisk
    <3>2. CorrelatedRisk(sig, pf, corr) \in Int
      BY ONLY <2>2, <3>1
    <3> QED  BY ONLY <3>2
  <2>p. /\ Percent(equity, Risk.maxPortfolioRisk) \in Int
        /\ Percent(equity, Risk.maxRiskPerStrategy) \in Int
        /\ Percent(equity, Risk.maxCorrelatedRisk) \in Int
    BY <1>1, PercentIsInt
  <2>4. PICK x \in Int, y \in Int, z \in Int :
           /\ x = Percent(equity, Risk.maxPortfolioRisk) - total
           /\ y = Percent(equity, Risk.maxRiskPerStrategy) - own
           /\ z = Percent(equity, Risk.maxCorrelatedRisk) - correlated
    BY <2>p
  <2> DEFINE C == IF correlated > 0 THEN {z} ELSE {}
  <2>5. B = {x, y} \cup C
    BY <2>1, <2>3, <2>4 DEF BudgetsLeft
  <2>6. IsFiniteSet({x, y})
    <3>1. IsFiniteSet({x} \cup {y})
      BY FS_Singleton, FS_AddElement
    <3> QED  BY <3>1
  <2>7. IsFiniteSet(C)
    BY FS_Singleton, FS_EmptySet
  <2> QED  BY <2>5, <2>6, <2>7
<1>4. IsFiniteSet(B) /\ \A left \in B : left \in Int
  <2>1. PICK A, C : B = A \cup C /\ IsFiniteSet(A) /\ IsFiniteSet(C) /\ \A x \in A \cup C : x \in Int
    BY <1>3
  <2>2. IsFiniteSet(A \cup C)
    BY <2>1, FS_Union
  <2> HIDE DEF B
  <2> QED  BY <2>1, <2>2
<1>5. IsFiniteSet(R) /\ R # {} /\ \A x \in R : x \in Int
  <2>1. IsFiniteSet({ScaledRisk(pf, equity)})
    BY FS_Singleton
  <2> HIDE DEF B
  <2> QED  BY <1>2, <1>4, <2>1, FS_Union
<1> HIDE DEF B, R
<1>6. MinOf(R) \in Int /\ MinOf(R) <= ScaledRisk(pf, equity) /\ \A left \in B : MinOf(R) <= left
  BY <1>5, MinOfIsLeast DEF R
<1>7. perUnit \in Nat \ {0} /\ sig.entry \in Nat \ {0}
  BY DEF IsPriced
<1> HIDE DEF perUnit
<1>8. byRisk \in Int /\ byRisk * perUnit <= MinOf(R)
  BY <1>6, <1>7
<1>9. byPosition \in Int /\ byBook \in Int
  <2>0. /\ Percent(equity, Risk.maxPortfolioNotional) \in Int
        /\ Percent(equity, Risk.maxPositionNotional) \in Int
        /\ EntryNotional(pf) \in Int
    BY <1>1, PercentIsInt, EntryNotionalIsInt
  <2>n. NotionalLeft(pf, equity) \in Int
    BY <2>0 DEF NotionalLeft
  <2>1. PICK x \in Int, y \in Int : /\ x = Percent(equity, Risk.maxPositionNotional)
                                    /\ y = NotionalLeft(pf, equity)
    BY <2>0, <2>n
  <2>2. x \div sig.entry \in Int /\ y \div sig.entry \in Int
    BY <1>7
  <2> QED  BY <2>1, <2>2
<1> HIDE DEF byRisk, byPosition, byBook
<1>10. IsFiniteSet(S) /\ S # {} /\ \A x \in S : x \in Int
  <2>1. IsFiniteSet(({byRisk} \cup {byPosition}) \cup {byBook})
    BY FS_Singleton, FS_AddElement
  <2> QED  BY <1>8, <1>9, <2>1
<1>11. s \in Int /\ s <= byRisk
  BY <1>10, MinOfIsLeast
<1> HIDE DEF s
<1>12. s * perUnit <= byRisk * perUnit /\ s * perUnit \in Int /\ byRisk * perUnit \in Int
  BY <1>7, <1>8, <1>11
<1>13. s * perUnit <= ScaledRisk(pf, equity) /\ \A left \in B : s * perUnit <= left
  BY <1>2, <1>4, <1>6, <1>8, <1>12
<1>14. Size(sig, pf, equity, corr) = s
  BY DEF Size, s, S, byRisk, byPosition, byBook, R, B, perUnit
<1> QED  BY <1>2, <1>4, <1>11, <1>13, <1>14 DEF B, perUnit
=============================================================================

------------------------------- MODULE SumProofs -------------------------------
(***************************************************************************)
(* What SumFunctionOnSet, the sum that the properties of the credit        *)
(* exposure, the receivable ledger and the account balances are stated     *)
(* with, does with a finite set of integers: nothing, one element more,    *)
(* two sets that are disjoint, two functions, rows and columns.  Each is   *)
(* shown of the smallest subset for which it would fail.                   *)
(***************************************************************************)
EXTENDS Functions, FiniteSetTheorems, TLAPS

\* g gives each subset of S the sum of f over it, taking one element at a time.
IsSum(f, S, g) ==
  g = [s \in SUBSET S |->
         IF s = {} THEN 0 ELSE f[CHOOSE x \in s : TRUE] + g[s \ {CHOOSE x \in s : TRUE}]]

\* Of a set of subsets of a finite set, one has no other of them strictly in it.
LEMMA SmallestSubset ==
  ASSUME NEW S, IsFiniteSet(S), NEW W, W \subseteq SUBSET S, W # {}
  PROVE  \E T \in W : \A U \in W : U \subseteq T => U = T
<1>1. IsWellFoundedOn(StrictSubsetOrdering(S), SUBSET S)
  BY FS_StrictSubsetOrderingWellFounded, FS_FiniteSubsetsOfFinite
<1>2. PICK T \in W : \A U \in W : ~(<<U, T>> \in StrictSubsetOrdering(S))
  BY <1>1, WFMin
<1>3. \A U \in W : U \subseteq T => U = T
  BY <1>2 DEF StrictSubsetOrdering
<1>4. QED BY <1>3

\* Two such functions agree where both are defined.
LEMMA SumsAgree ==
  ASSUME NEW f, NEW S, NEW T, IsFiniteSet(S), NEW g, NEW h,
         IsSum(f, S, g), IsSum(f, T, h)
  PROVE  \A U \in SUBSET S : U \subseteq T => g[U] = h[U]
<1> DEFINE W == {U \in SUBSET S : U \subseteq T /\ g[U] # h[U]}
<1>1. SUFFICES ASSUME W # {} PROVE FALSE
  OBVIOUS
<1>2. PICK U \in W : \A V \in W : V \subseteq U => V = U
  <2>1. W \subseteq SUBSET S
    OBVIOUS
  <2> HIDE DEF W
  <2>2. QED BY <1>1, <2>1, SmallestSubset
<1> DEFINE x == CHOOSE x \in U : TRUE
<1>3. U \in SUBSET S /\ U \in SUBSET T /\ g[U] # h[U]
  BY <1>2
<1>4. /\ g[U] = IF U = {} THEN 0 ELSE f[x] + g[U \ {x}]
      /\ h[U] = IF U = {} THEN 0 ELSE f[x] + h[U \ {x}]
  BY <1>3 DEF IsSum
<1>5. CASE U = {}
  BY <1>3, <1>4, <1>5
<1>6. CASE U # {}
  <2>1. x \in U
    BY <1>6
  <2> HIDE DEF x
  <2>2. U \ {x} \in SUBSET S /\ U \ {x} \subseteq T /\ U \ {x} \subseteq U /\ U \ {x} # U
    BY <1>3, <2>1
  <2>3. g[U \ {x}] = h[U \ {x}]
    BY <1>2, <2>2
  <2>4. QED BY <1>3, <1>4, <1>6, <2>3
<1>7. QED BY <1>5, <1>6

\* There is such a function for every finite set.
LEMMA SumExists ==
  ASSUME NEW f, NEW S, IsFiniteSet(S)
  PROVE  \E g : IsSum(f, S, g)
<1> DEFINE W == {T \in SUBSET S : ~\E g : IsSum(f, T, g)}
<1>1. SUFFICES ASSUME W # {} PROVE FALSE
  OBVIOUS
<1>2. PICK T \in W : \A V \in W : V \subseteq T => V = T
  <2>1. W \subseteq SUBSET S
    OBVIOUS
  <2> HIDE DEF W
  <2>2. QED BY <1>1, <2>1, SmallestSubset
<1>3. T \in SUBSET S /\ ~\E g : IsSum(f, T, g)
  BY <1>2
<1> DEFINE part(s) == (CHOOSE h : IsSum(f, s, h))[s]
           first(s) == CHOOSE x \in s : TRUE
           value(s) == IF s = {} THEN 0 ELSE f[first(s)] + part(s \ {first(s)})
           g == [s \in SUBSET T |-> value(s)]
<1>4. \A s \in SUBSET T : s # T => IsSum(f, s, CHOOSE h : IsSum(f, s, h))
  <2>1. \A s \in SUBSET T : s # T => s \notin W /\ s \in SUBSET S
    BY <1>2, <1>3
  <2>2. QED BY <2>1
<1>5. ASSUME NEW s \in SUBSET T, s # T PROVE part(s) = value(s)
  <2> DEFINE h == CHOOSE h : IsSum(f, s, h)
             r == s \ {first(s)}
  <2>1. IsSum(f, s, h)
    BY <1>4, <1>5
  <2>2. h[s] = IF s = {} THEN 0 ELSE f[first(s)] + h[r]
    <3> HIDE DEF h
    <3>1. QED BY <2>1 DEF IsSum
  <2>3. ASSUME s # {} PROVE h[r] = part(r)
    <3>1. r \in SUBSET T /\ r # T /\ r \subseteq s
      BY <1>5
    <3>2. IsSum(f, r, CHOOSE k : IsSum(f, r, k))
      BY <1>4, <3>1
    <3>3. IsFiniteSet(s)
      BY <1>3, FS_Subset
    <3> HIDE DEF h, r
    <3>4. h[r] = (CHOOSE k : IsSum(f, r, k))[r]
      BY <2>1, <3>1, <3>2, <3>3, SumsAgree
    <3>5. QED BY <3>4
  <2>4. QED BY <2>2, <2>3
<1>6. \A s \in SUBSET T : s # {} => s \ {first(s)} \in SUBSET T /\ s \ {first(s)} # T
  OBVIOUS
<1>7. ASSUME NEW s \in SUBSET T
      PROVE  g[s] = IF s = {} THEN 0 ELSE f[first(s)] + g[s \ {first(s)}]
  <2>1. CASE s = {}
    BY <2>1
  <2>2. CASE s # {}
    <3> DEFINE r == s \ {first(s)}
    <3>1. r \in SUBSET T /\ r # T
      BY <1>6, <2>2
    <3>2. g[r] = value(r) /\ part(r) = value(r)
      BY <1>5, <3>1
    <3>3. g[s] = f[first(s)] + part(r)
      BY <2>2
    <3> HIDE DEF g, value, part
    <3>4. QED BY <2>2, <3>2, <3>3
  <2>3. QED BY <2>1, <2>2
<1>8. IsSum(f, T, g)
  <2>1. g = [s \in SUBSET T |-> g[s]]
    OBVIOUS
  <2> HIDE DEF g
  <2>2. QED BY <1>7, <2>1 DEF IsSum
<1>9. QED BY <1>3, <1>8

\* The sum of f over S, and over its subsets, is what such a function says.
LEMMA SumIs ==
  ASSUME NEW f, NEW S, IsFiniteSet(S), NEW g, IsSum(f, S, g), NEW T \in SUBSET S
  PROVE  SumFunctionOnSet(f, T) = g[T]
<1>1. IsFiniteSet(T)
  BY FS_Subset
<1> DEFINE h == CHOOSE h : IsSum(f, T, h)
<1>2. IsSum(f, T, h)
  BY <1>1, SumExists
<1>3. SumFunctionOnSet(f, T) = h[T]
  BY DEF SumFunctionOnSet, FoldFunctionOnSet, MapThenFoldSet, IsSum
<1> HIDE DEF h
<1>4. h[T] = g[T]
  BY <1>1, <1>2, SumsAgree
<1>5. QED BY <1>3, <1>4

------------------------------------------------------------------------------
\* The sum over nothing is 0.
LEMMA SumEmpty == \A f : SumFunctionOnSet(f, {}) = 0
<1> TAKE f
<1>1. IsFiniteSet({})
  BY FS_EmptySet
<1>2. PICK g : IsSum(f, {}, g)
  BY <1>1, SumExists
<1>3. SumFunctionOnSet(f, {}) = g[{}]
  BY <1>1, <1>2, SumIs
<1>4. g[{}] = 0
  BY <1>2 DEF IsSum
<1>5. QED BY <1>3, <1>4

\* The sum depends only on the values on the set.
LEMMA SumSame ==
  ASSUME NEW f, NEW h, NEW S, IsFiniteSet(S), \A x \in S : f[x] = h[x]
  PROVE  SumFunctionOnSet(f, S) = SumFunctionOnSet(h, S)
<1>1. PICK g : IsSum(f, S, g)
  BY SumExists
<1>2. \A s \in SUBSET S : s # {} => (CHOOSE x \in s : TRUE) \in S
  OBVIOUS
<1>3. IsSum(h, S, g)
  <2>1. \A s \in SUBSET S :
          (IF s = {} THEN 0 ELSE f[CHOOSE x \in s : TRUE] + g[s \ {CHOOSE x \in s : TRUE}])
          = (IF s = {} THEN 0 ELSE h[CHOOSE x \in s : TRUE] + g[s \ {CHOOSE x \in s : TRUE}])
    BY <1>2
  <2>2. QED BY <1>1, <2>1 DEF IsSum
<1>4. QED BY <1>1, <1>3, SumIs

\* A sum of integers is one, and of numbers a number.
LEMMA SumType ==
  ASSUME NEW f, NEW S, IsFiniteSet(S), NEW N, N = Int \/ N = Nat, \A x \in S : f[x] \in N
  PROVE  SumFunctionOnSet(f, S) \in N
<1>1. PICK g : IsSum(f, S, g)
  BY SumExists
<1> DEFINE W == {T \in SUBSET S : g[T] \notin N}
<1>2. ASSUME W # {} PROVE FALSE
  <2>1. PICK T \in W : \A U \in W : U \subseteq T => U = T
    <3>1. W \subseteq SUBSET S
      OBVIOUS
    <3> HIDE DEF W
    <3>2. QED BY <1>2, <3>1, SmallestSubset
  <2>2. T \in SUBSET S /\ g[T] \notin N
    BY <2>1
  <2> DEFINE x == CHOOSE x \in T : TRUE
  <2>3. g[T] = IF T = {} THEN 0 ELSE f[x] + g[T \ {x}]
    BY <1>1, <2>2 DEF IsSum
  <2>4. T # {}
    BY <2>2, <2>3
  <2>5. x \in T
    BY <2>4
  <2> HIDE DEF x
  <2>6. T \ {x} \notin W
    BY <2>1, <2>5
  <2>7. g[T \ {x}] \in N /\ f[x] \in N
    BY <2>2, <2>5, <2>6
  <2>8. QED BY <2>2, <2>3, <2>4, <2>7
<1>3. g[S] \in N
  BY <1>2
<1>4. QED BY <1>1, <1>3, SumIs

\* Any element can be taken first.
LEMMA SumTake ==
  ASSUME NEW f, NEW S, IsFiniteSet(S), \A x \in S : f[x] \in Int, NEW y \in S
  PROVE  SumFunctionOnSet(f, S) = f[y] + SumFunctionOnSet(f, S \ {y})
<1>1. PICK g : IsSum(f, S, g)
  BY SumExists
<1>2. \A T \in SUBSET S : g[T] \in Int
  <2>1. SUFFICES ASSUME NEW T \in SUBSET S PROVE g[T] \in Int
    OBVIOUS
  <2>2. IsFiniteSet(T) /\ \A x \in T : f[x] \in Int
    BY FS_Subset
  <2>3. SumFunctionOnSet(f, T) \in Int
    BY <2>2, SumType
  <2>4. QED BY <1>1, <2>3, SumIs
<1> DEFINE W == {T \in SUBSET S : \E z \in T : g[T] # f[z] + g[T \ {z}]}
<1>3. ASSUME W # {} PROVE FALSE
  <2>1. PICK T \in W : \A U \in W : U \subseteq T => U = T
    <3>1. W \subseteq SUBSET S
      OBVIOUS
    <3> HIDE DEF W
    <3>2. QED BY <1>3, <3>1, SmallestSubset
  <2>2. PICK z \in T : g[T] # f[z] + g[T \ {z}]
    BY <2>1
  <2>3. T \in SUBSET S
    BY <2>1
  <2> DEFINE x == CHOOSE x \in T : TRUE
  <2>4. x \in T /\ g[T] = f[x] + g[T \ {x}]
    BY <1>1, <2>2, <2>3 DEF IsSum
  <2> HIDE DEF x
  <2>5. x # z
    BY <2>2, <2>4
  <2> DEFINE R == T \ {x, z}
  <2>6. /\ T \ {x} \in SUBSET S /\ T \ {z} \in SUBSET S /\ R \in SUBSET S
        /\ T \ {x} # T /\ T \ {z} # T /\ z \in T \ {x} /\ x \in T \ {z}
        /\ (T \ {x}) \ {z} = R /\ (T \ {z}) \ {x} = R
    BY <2>2, <2>3, <2>4, <2>5
  <2> HIDE DEF R
  <2>7. T \ {x} \notin W /\ T \ {z} \notin W
    BY <2>1, <2>6
  <2>8. g[T \ {x}] = f[z] + g[R] /\ g[T \ {z}] = f[x] + g[R]
    BY <2>6, <2>7
  <2>9. f[x] \in Int /\ f[z] \in Int /\ g[R] \in Int
    BY <1>2, <2>2, <2>3, <2>4, <2>6
  <2>10. QED BY <2>2, <2>4, <2>8, <2>9
<1>4. g[S] = f[y] + g[S \ {y}]
  BY <1>3
<1>5. QED BY <1>1, <1>4, SumIs

\* One element more.
LEMMA SumAdd ==
  ASSUME NEW f, NEW S, IsFiniteSet(S), NEW y, y \notin S, f[y] \in Int,
         \A x \in S : f[x] \in Int
  PROVE  SumFunctionOnSet(f, S \cup {y}) = SumFunctionOnSet(f, S) + f[y]
<1>1. IsFiniteSet(S \cup {y}) /\ (S \cup {y}) \ {y} = S
  BY FS_AddElement
<1>2. SumFunctionOnSet(f, S \cup {y}) = f[y] + SumFunctionOnSet(f, S)
  <2>1. y \in S \cup {y} /\ \A x \in S \cup {y} : f[x] \in Int
    OBVIOUS
  <2>2. SumFunctionOnSet(f, S \cup {y}) = f[y] + SumFunctionOnSet(f, (S \cup {y}) \ {y})
    BY <1>1, <2>1, SumTake
  <2>3. QED BY <1>1, <2>2
<1>3. SumFunctionOnSet(f, S) \in Int
  BY SumType
<1>4. QED BY <1>2, <1>3

\* Two sets that have nothing in common.
LEMMA SumUnion ==
  ASSUME NEW f, NEW S, NEW T, IsFiniteSet(S), IsFiniteSet(T), S \cap T = {},
         \A x \in S \cup T : f[x] \in Int
  PROVE  SumFunctionOnSet(f, S \cup T) = SumFunctionOnSet(f, S) + SumFunctionOnSet(f, T)
<1> DEFINE Fails(U) == SumFunctionOnSet(f, S \cup U)
                         # SumFunctionOnSet(f, S) + SumFunctionOnSet(f, U)
           W == {U \in SUBSET T : Fails(U)}
<1>1. SumFunctionOnSet(f, S) \in Int
  BY SumType
<1>2. ASSUME W # {} PROVE FALSE
  <2>1. PICK U \in W : \A V \in W : V \subseteq U => V = U
    <3>1. W \subseteq SUBSET T
      OBVIOUS
    <3> HIDE DEF W
    <3>2. QED BY <1>2, <3>1, SmallestSubset
  <2>2. U \in SUBSET T /\ Fails(U)
    BY <2>1
  <2>3. U # {}
    <3>1. S \cup {} = S
      OBVIOUS
    <3>2. SumFunctionOnSet(f, S \cup {}) = SumFunctionOnSet(f, S) + SumFunctionOnSet(f, {})
      BY <1>1, <3>1, SumEmpty
    <3>3. ~Fails({})
      BY <3>2
    <3> HIDE DEF Fails
    <3>4. QED BY <2>2, <3>3
  <2>4. PICK y \in U : TRUE
    BY <2>3
  <2> DEFINE V == U \ {y}
  <2>5. V \in SUBSET T /\ V \subseteq U /\ V # U /\ y \notin V /\ y \notin S
        /\ U = V \cup {y} /\ S \cup U = (S \cup V) \cup {y}
    BY <2>2, <2>4
  <2> HIDE DEF V
  <2>6. ~Fails(V)
    BY <2>1, <2>5
  <2>7. IsFiniteSet(V) /\ IsFiniteSet(S \cup V)
    BY <2>5, FS_Subset, FS_Union
  <2>8. f[y] \in Int /\ (\A x \in V : f[x] \in Int) /\ (\A x \in S \cup V : f[x] \in Int)
    BY <2>2, <2>4, <2>5
  <2>9. SumFunctionOnSet(f, U) = SumFunctionOnSet(f, V) + f[y]
    BY <2>5, <2>7, <2>8, SumAdd
  <2>10. SumFunctionOnSet(f, S \cup U) = SumFunctionOnSet(f, S \cup V) + f[y]
    <3>1. y \notin S \cup V
      BY <2>5
    <3>2. SumFunctionOnSet(f, (S \cup V) \cup {y}) = SumFunctionOnSet(f, S \cup V) + f[y]
      BY <2>7, <2>8, <3>1, SumAdd
    <3>3. QED BY <2>5, <3>2
  <2>11. SumFunctionOnSet(f, V) \in Int
    BY <2>7, <2>8, SumType
  <2>12. QED BY <1>1, <2>2, <2>6, <2>8, <2>9, <2>10, <2>11
<1>3. ~Fails(T)
  BY <1>2
<1>4. QED BY <1>3

\* The sum of two functions is the sum of their sums.
LEMMA SumPlus ==
  ASSUME NEW S, IsFiniteSet(S), NEW f, NEW h, \A x \in S : f[x] \in Int /\ h[x] \in Int
  PROVE  SumFunctionOnSet([x \in S |-> f[x] + h[x]], S)
           = SumFunctionOnSet(f, S) + SumFunctionOnSet(h, S)
<1> DEFINE g == [x \in S |-> f[x] + h[x]]
           Fails(T) == SumFunctionOnSet(g, T) # SumFunctionOnSet(f, T) + SumFunctionOnSet(h, T)
           W == {T \in SUBSET S : Fails(T)}
<1>1. \A x \in S : g[x] = f[x] + h[x] /\ g[x] \in Int
  OBVIOUS
<1> HIDE DEF g
<1>2. ASSUME W # {} PROVE FALSE
  <2>1. PICK T \in W : \A U \in W : U \subseteq T => U = T
    <3>1. W \subseteq SUBSET S
      OBVIOUS
    <3> HIDE DEF W
    <3>2. QED BY <1>2, <3>1, SmallestSubset
  <2>2. T \in SUBSET S /\ Fails(T)
    BY <2>1
  <2>3. T # {}
    <3>1. ~Fails({})
      BY SumEmpty
    <3> HIDE DEF Fails
    <3>2. QED BY <2>2, <3>1
  <2>4. PICK y \in T : TRUE
    BY <2>3
  <2>5. T \ {y} \in SUBSET S /\ ~Fails(T \ {y})
    <3>1. T \ {y} \in SUBSET S /\ T \ {y} \subseteq T /\ T \ {y} # T
      BY <2>2, <2>4
    <3> HIDE DEF Fails
    <3>2. QED BY <2>1, <3>1
  <2>6. IsFiniteSet(T) /\ IsFiniteSet(T \ {y}) /\ (\A x \in T : f[x] \in Int)
        /\ (\A x \in T : h[x] \in Int) /\ (\A x \in T : g[x] \in Int)
    BY <1>1, <2>2, FS_Subset
  <2>7. SumFunctionOnSet(f, T) = f[y] + SumFunctionOnSet(f, T \ {y})
    BY <2>6, SumTake
  <2>8. SumFunctionOnSet(h, T) = h[y] + SumFunctionOnSet(h, T \ {y})
    BY <2>6, SumTake
  <2>9. SumFunctionOnSet(g, T) = g[y] + SumFunctionOnSet(g, T \ {y})
    BY <2>6, SumTake
  <2>10. SumFunctionOnSet(f, T \ {y}) \in Int
    BY <2>6, SumType
  <2>11. SumFunctionOnSet(h, T \ {y}) \in Int
    BY <2>6, SumType
  <2>12. g[y] = f[y] + h[y] /\ f[y] \in Int /\ h[y] \in Int
    BY <1>1, <2>2, <2>4
  <2>13. QED BY <2>2, <2>5, <2>7, <2>8, <2>9, <2>10, <2>11, <2>12
<1>3. ~Fails(S)
  BY <1>2
<1>4. QED BY <1>3 DEF g

\* Zeros add up to 0.
LEMMA SumOfNothing ==
  ASSUME NEW f, NEW S, IsFiniteSet(S), \A x \in S : f[x] = 0
  PROVE  SumFunctionOnSet(f, S) = 0
<1>1. f = f /\ \A x \in S : f[x] \in Int
  OBVIOUS
<1> DEFINE h == [x \in S |-> f[x] + f[x]]
<1>2. SumFunctionOnSet(h, S) = SumFunctionOnSet(f, S) + SumFunctionOnSet(f, S)
  BY <1>1, SumPlus
<1>3. SumFunctionOnSet(h, S) = SumFunctionOnSet(f, S)
  <2>1. \A x \in S : h[x] = f[x]
    OBVIOUS
  <2> HIDE DEF h
  <2>2. QED BY <2>1, SumSame
<1>4. PICK n \in Int : n = SumFunctionOnSet(f, S)
  BY <1>1, SumType
<1> HIDE DEF h
<1>5. n = n + n
  BY <1>2, <1>3, <1>4
<1>6. n = 0
  BY <1>5
<1>7. QED BY <1>4, <1>6

\* Only one element counts when all others are 0.
LEMMA SumOfOne ==
  ASSUME NEW f, NEW S, IsFiniteSet(S), NEW y \in S, f[y] \in Int, \A x \in S \ {y} : f[x] = 0
  PROVE  SumFunctionOnSet(f, S) = f[y]
<1>1. IsFiniteSet(S \ {y}) /\ \A x \in S : f[x] \in Int
  BY FS_Subset
<1>2. SumFunctionOnSet(f, S \ {y}) = 0
  BY <1>1, SumOfNothing
<1>3. SumFunctionOnSet(f, S) = f[y] + SumFunctionOnSet(f, S \ {y})
  BY <1>1, SumTake
<1>4. QED BY <1>2, <1>3

\* A sum of numbers is more than zero when one of them is.
LEMMA SumPositive ==
  ASSUME NEW f, NEW S, IsFiniteSet(S), \A x \in S : f[x] \in Nat, NEW y \in S, f[y] > 0
  PROVE  SumFunctionOnSet(f, S) \in Nat /\ SumFunctionOnSet(f, S) > 0
<1>1. IsFiniteSet(S \ {y}) /\ \A x \in S : f[x] \in Int
  BY FS_Subset
<1>2. SumFunctionOnSet(f, S) = f[y] + SumFunctionOnSet(f, S \ {y})
  BY <1>1, SumTake
<1>3. SumFunctionOnSet(f, S \ {y}) \in Nat
  BY <1>1, SumType
<1>4. QED BY <1>2, <1>3

------------------------------------------------------------------------------
\* Summing a table of integers by its columns or by its rows is the same.
LEMMA SumOfSums ==
  ASSUME NEW A, NEW S, IsFiniteSet(A), IsFiniteSet(S), NEW t,
         \A x \in S, a \in A : t[x][a] \in Int
  PROVE  SumFunctionOnSet([a \in A |-> SumFunctionOnSet([x \in S |-> t[x][a]], S)], A)
           = SumFunctionOnSet([x \in S |-> SumFunctionOnSet(t[x], A)], S)
<1> DEFINE row == [x \in S |-> SumFunctionOnSet(t[x], A)]
           column(a) == [x \in S |-> t[x][a]]
           columns(T) == [a \in A |-> SumFunctionOnSet(column(a), T)]
           Fails(T) == SumFunctionOnSet(columns(T), A) # SumFunctionOnSet(row, T)
           W == {T \in SUBSET S : Fails(T)}
<1>1. \A x \in S : row[x] = SumFunctionOnSet(t[x], A) /\ row[x] \in Int
  <2>1. SUFFICES ASSUME NEW x \in S PROVE SumFunctionOnSet(t[x], A) \in Int
    OBVIOUS
  <2>2. \A a \in A : t[x][a] \in Int
    OBVIOUS
  <2>3. QED BY <2>2, SumType
<1>2. \A a \in A : \A x \in S : column(a)[x] = t[x][a] /\ column(a)[x] \in Int
  OBVIOUS
<1> HIDE DEF column
<1>3. \A T \in SUBSET S : \A a \in A :
        columns(T)[a] = SumFunctionOnSet(column(a), T) /\ columns(T)[a] \in Int
  <2>1. SUFFICES ASSUME NEW T \in SUBSET S, NEW a \in A
                 PROVE  SumFunctionOnSet(column(a), T) \in Int
    OBVIOUS
  <2>2. IsFiniteSet(T) /\ \A x \in T : column(a)[x] \in Int
    BY <1>2, FS_Subset
  <2>3. QED BY <2>2, SumType
<1> HIDE DEF row, columns
<1>4. ASSUME W # {} PROVE FALSE
  <2>1. PICK T \in W : \A U \in W : U \subseteq T => U = T
    <3>1. W \subseteq SUBSET S
      OBVIOUS
    <3> HIDE DEF W
    <3>2. QED BY <1>4, <3>1, SmallestSubset
  <2>2. T \in SUBSET S /\ Fails(T)
    BY <2>1
  <2>3. T # {}
    <3>1. \A a \in A : columns({})[a] = 0
      BY <1>3, SumEmpty
    <3>2. SumFunctionOnSet(columns({}), A) = 0
      BY <3>1, SumOfNothing
    <3>3. ~Fails({})
      BY <3>2, SumEmpty
    <3> HIDE DEF Fails
    <3>4. QED BY <2>2, <3>3
  <2>4. PICK y \in T : TRUE
    BY <2>3
  <2>5. PICK R : R = T \ {y}
    OBVIOUS
  <2>6. R \in SUBSET S /\ ~Fails(R)
    <3>1. R \in SUBSET S /\ R \subseteq T /\ R # T
      BY <2>2, <2>4, <2>5
    <3> HIDE DEF Fails
    <3>2. QED BY <2>1, <3>1
  <2>7. y \in S /\ IsFiniteSet(T)
    BY <2>2, <2>4, FS_Subset
  <2>8. SumFunctionOnSet(row, T) = row[y] + SumFunctionOnSet(row, R)
    <3>1. \A x \in T : row[x] \in Int
      BY <1>1, <2>2
    <3>2. QED BY <2>4, <2>5, <2>7, <3>1, SumTake
  <2>9. \A a \in A : columns(T)[a] = t[y][a] + columns(R)[a]
    <3>1. SUFFICES ASSUME NEW a \in A PROVE columns(T)[a] = t[y][a] + columns(R)[a]
      OBVIOUS
    <3>2. \A x \in T : column(a)[x] \in Int
      BY <1>2, <2>2
    <3>3. SumFunctionOnSet(column(a), T) = column(a)[y] + SumFunctionOnSet(column(a), R)
      BY <2>4, <2>5, <2>7, <3>2, SumTake
    <3>4. QED BY <1>2, <1>3, <2>2, <2>6, <2>7, <3>3
  <2>10. SumFunctionOnSet(columns(T), A) = row[y] + SumFunctionOnSet(columns(R), A)
    <3> DEFINE both == [a \in A |-> t[y][a] + columns(R)[a]]
    <3>1. \A a \in A : t[y][a] \in Int /\ columns(R)[a] \in Int
      BY <1>3, <2>6, <2>7
    <3>2. SumFunctionOnSet(both, A) = SumFunctionOnSet(t[y], A) + SumFunctionOnSet(columns(R), A)
      BY <3>1, SumPlus
    <3>3. \A a \in A : columns(T)[a] = both[a]
      BY <2>9
    <3> HIDE DEF both
    <3>4. SumFunctionOnSet(columns(T), A) = SumFunctionOnSet(both, A)
      BY <3>3, SumSame
    <3>5. QED BY <1>1, <2>7, <3>2, <3>4
  <2>11. QED BY <2>2, <2>6, <2>8, <2>10
<1>5. ~Fails(S)
  BY <1>4
<1>6. QED BY <1>5 DEF row, columns, column
==============================================================================

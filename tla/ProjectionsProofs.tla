------------------------- MODULE ProjectionsProofs --------------------------
(***************************************************************************)
(* Proofs about what the finance panel shows: over a month net worth moves *)
(* by the cash flow, a goal is at 100 % exactly when it has reached its    *)
(* target, and a quiet refresh shows what is stored; for any accounts,     *)
(* journals, budgets, goals and rates.  The induction over finite sets     *)
(* that sums need is first-order here: a set that is minimal among those   *)
(* for which a claim fails (MinimalSubset).                                *)
(***************************************************************************)
EXTENDS Projections, FiniteSetTheorems, TLAPS

-----------------------------------------------------------------------------
(* Sums of integers over finite sets *)

First(s) == CHOOSE x \in s : TRUE

\* F has the sum of g over every subset of S.
Table(F, g, S) ==
    F = [s \in SUBSET S |-> IF s = {} THEN 0 ELSE g[First(s)] + F[s \ {First(s)}]]

Sum(g, S) == (CHOOSE F : Table(F, g, S))[S]

LEMMA FirstIn == ASSUME NEW s, s # {} PROVE First(s) \in s
BY DEF First

LEMMA MinimalSubset ==
    ASSUME NEW S, IsFiniteSet(S), NEW T, T \subseteq SUBSET S, T # {}
    PROVE  \E s \in T : \A u \in T : u \subseteq s => u = s
<1>1. IsWellFoundedOn(StrictSubsetOrdering(S), SUBSET S)
    BY FS_StrictSubsetOrderingWellFounded, FS_FiniteSubsetsOfFinite
<1>2. PICK s \in T : \A u \in T : ~(<<u, s>> \in StrictSubsetOrdering(S))
    BY <1>1, WFMin
<1>3. \A u \in T : u \subseteq s => u = s
    BY <1>2 DEF StrictSubsetOrdering
<1> QED BY <1>3

\* Sums of the same numbers are the same, from whatever tables they are read.
LEMMA TablesAgree ==
    ASSUME NEW S, IsFiniteSet(S), NEW T, NEW F, NEW g, NEW G, NEW h,
           Table(F, g, S), Table(G, h, T), NEW s, s \subseteq S, s \subseteq T,
           \A x \in s : g[x] = h[x]
    PROVE  F[s] = G[s]
<1> SUFFICES ASSUME F[s] # G[s] PROVE FALSE
    OBVIOUS
<1> DEFINE Differ == {u \in SUBSET s : F[u] # G[u]}
<1>1. Differ \subseteq SUBSET S /\ Differ # {}
    OBVIOUS
<1>2. PICK u \in Differ : \A v \in Differ : v \subseteq u => v = u
    <2> HIDE DEF Differ
    <2> QED BY <1>1, MinimalSubset
<1>3. u \subseteq s /\ F[u] # G[u] /\ \A v \in SUBSET s : v \subseteq u /\ v # u => F[v] = G[v]
    BY <1>2
<1>4. F[u] = (IF u = {} THEN 0 ELSE g[First(u)] + F[u \ {First(u)}])
    BY <1>3 DEF Table
<1>5. G[u] = (IF u = {} THEN 0 ELSE h[First(u)] + G[u \ {First(u)}])
    BY <1>3 DEF Table
<1>6. CASE u = {}
    BY <1>3, <1>4, <1>5, <1>6
<1>7. CASE u # {}
    <2>1. First(u) \in u
        BY <1>7, FirstIn
    <2>2. u \ {First(u)} \in SUBSET s /\ u \ {First(u)} \subseteq u /\ u \ {First(u)} # u
        BY <1>3, <2>1
    <2>3. F[u \ {First(u)}] = G[u \ {First(u)}]
        BY <1>3, <2>2
    <2>4. g[First(u)] = h[First(u)]
        BY <1>3, <2>1
    <2> QED BY <1>3, <1>4, <1>5, <1>7, <2>3, <2>4
<1> QED BY <1>6, <1>7

LEMMA TableExists ==
    ASSUME NEW S, IsFiniteSet(S), NEW g
    PROVE  \E F : Table(F, g, S)
<1> SUFFICES ASSUME ~ \E F : Table(F, g, S) PROVE FALSE
    OBVIOUS
<1> DEFINE Bad == {s \in SUBSET S : ~ \E F : Table(F, g, s)}
<1>1. Bad \subseteq SUBSET S /\ Bad # {}
    OBVIOUS
<1>2. PICK s \in Bad : \A v \in Bad : v \subseteq s => v = s
    <2> HIDE DEF Bad
    <2> QED BY <1>1, MinimalSubset
<1>3. s \subseteq S /\ ~ \E F : Table(F, g, s)
    BY <1>2
<1>4. \A u \in SUBSET S : u \subseteq s /\ u # s => \E F : Table(F, g, u)
    BY <1>2
<1> HIDE DEF Bad
<1> DEFINE T(u) == CHOOSE F : Table(F, g, u)
           R(u) == IF u = {} THEN 0 ELSE g[First(u)] + T(u \ {First(u)})[u \ {First(u)}]
           G == [u \in SUBSET s |-> R(u)]
<1>5. \A u \in SUBSET s : u # s => Table(T(u), g, u)
    BY <1>3, <1>4
<1>6. ASSUME NEW u \in SUBSET s, u # s
      PROVE  T(u)[u] = G[u]
    <2>1. Table(T(u), g, u)
        BY <1>5, <1>6
    <2> HIDE DEF T
    <2>2. T(u)[u] = IF u = {} THEN 0 ELSE g[First(u)] + T(u)[u \ {First(u)}]
        BY <2>1 DEF Table
    <2>3. CASE u = {}
        BY <2>2, <2>3
    <2>4. CASE u # {}
        <3> DEFINE v == u \ {First(u)}
        <3>1. v \in SUBSET s /\ v # s /\ v \subseteq u
            BY <2>4, FirstIn
        <3>2. Table(T(v), g, v)
            BY <1>5, <3>1
        <3>3. IsFiniteSet(v) /\ IsFiniteSet(u)
            BY <1>3, <3>1, FS_Subset
        <3> HIDE DEF v
        <3>4. T(v)[v] = T(u)[v]
            BY <2>1, <3>1, <3>2, <3>3, TablesAgree
        <3> QED BY <2>2, <2>4, <3>4 DEF v
    <2> QED BY <2>3, <2>4
<1> HIDE DEF T
<1>7. ASSUME NEW u \in SUBSET s
      PROVE  G[u] = IF u = {} THEN 0 ELSE g[First(u)] + G[u \ {First(u)}]
    <2>1. CASE u = {}
        BY <2>1
    <2>2. CASE u # {}
        <3>1. u \ {First(u)} \in SUBSET s /\ u \ {First(u)} # s
            BY <2>2, FirstIn
        <3>2. T(u \ {First(u)})[u \ {First(u)}] = G[u \ {First(u)}]
            <4> HIDE DEF G
            <4> QED BY <1>6, <3>1
        <3>3. G[u] = g[First(u)] + T(u \ {First(u)})[u \ {First(u)}]
            BY <2>2
        <3> QED BY <2>2, <3>2, <3>3
    <2> QED BY <2>1, <2>2
<1>8. Table(G, g, s)
    <2>1. G = [u \in SUBSET s |-> G[u]]
        OBVIOUS
    <2> HIDE DEF G
    <2> QED BY <1>7, <2>1 DEF Table
<1> QED BY <1>3, <1>8

LEMMA TableOf ==
    ASSUME NEW S, IsFiniteSet(S), NEW g
    PROVE  Table(CHOOSE F : Table(F, g, S), g, S)
BY TableExists

\* A sum takes one of its numbers and the sum of the others.
LEMMA SumFirst ==
    ASSUME NEW S, IsFiniteSet(S), NEW g
    PROVE  Sum(g, S) = IF S = {} THEN 0 ELSE g[First(S)] + Sum(g, S \ {First(S)})
<1>1. PICK F : Table(F, g, S) /\ Sum(g, S) = F[S]
    BY TableOf DEF Sum
<1>2. F[S] = IF S = {} THEN 0 ELSE g[First(S)] + F[S \ {First(S)}]
    BY <1>1 DEF Table
<1>3. CASE S = {}
    BY <1>1, <1>2, <1>3
<1>4. CASE S # {}
    <2> DEFINE T == S \ {First(S)}
    <2>1. T \subseteq S /\ IsFiniteSet(T)
        BY FS_Subset
    <2>2. PICK G : Table(G, g, T) /\ Sum(g, T) = G[T]
        BY <2>1, TableOf DEF Sum
    <2> HIDE DEF T
    <2>3. F[T] = G[T]
        BY <1>1, <2>1, <2>2, TablesAgree
    <2> QED BY <1>1, <1>2, <1>4, <2>2, <2>3 DEF T
<1> QED BY <1>3, <1>4

\* Equal numbers have equal sums.
LEMMA SumCongruence ==
    ASSUME NEW S, IsFiniteSet(S), NEW g, NEW h, \A x \in S : g[x] = h[x]
    PROVE  Sum(g, S) = Sum(h, S)
<1>1. Table(CHOOSE F : Table(F, g, S), g, S) /\ Table(CHOOSE F : Table(F, h, S), h, S)
    BY TableOf
<1> QED BY <1>1, TablesAgree DEF Sum

LEMMA SumInt ==
    ASSUME NEW S, IsFiniteSet(S), NEW g, \A x \in S : g[x] \in Int
    PROVE  Sum(g, S) \in Int
<1> DEFINE Bad == {s \in SUBSET S : Sum(g, s) \notin Int}
<1> SUFFICES ASSUME Bad # {} PROVE FALSE
    OBVIOUS
<1>1. PICK s \in Bad : \A u \in Bad : u \subseteq s => u = s
    <2>1. Bad \subseteq SUBSET S
        OBVIOUS
    <2> HIDE DEF Bad
    <2> QED BY <2>1, MinimalSubset
<1>2. s \subseteq S /\ IsFiniteSet(s)
    BY FS_Subset
<1>3. CASE s = {}
    BY <1>2, <1>3, SumFirst
<1>4. CASE s # {}
    <2>1. First(s) \in s
        BY <1>4, FirstIn
    <2>2. Sum(g, s \ {First(s)}) \in Int
        BY <1>1, <1>2, <2>1
    <2>3. Sum(g, s) = g[First(s)] + Sum(g, s \ {First(s)})
        BY <1>2, <1>4, SumFirst
    <2> QED BY <1>2, <2>1, <2>2, <2>3
<1> QED BY <1>3, <1>4

\* The order of the numbers does not matter.
LEMMA SumRemove ==
    ASSUME NEW S, IsFiniteSet(S), NEW g, \A x \in S : g[x] \in Int, NEW x \in S
    PROVE  Sum(g, S) = g[x] + Sum(g, S \ {x})
<1> DEFINE Bad == {s \in SUBSET S : \E y \in s : Sum(g, s) # g[y] + Sum(g, s \ {y})}
<1> SUFFICES ASSUME Bad # {} PROVE FALSE
    OBVIOUS
<1>1. PICK s \in Bad : \A u \in Bad : u \subseteq s => u = s
    <2>1. Bad \subseteq SUBSET S
        OBVIOUS
    <2> HIDE DEF Bad
    <2> QED BY <2>1, MinimalSubset
<1>2. s \subseteq S /\ IsFiniteSet(s)
    BY FS_Subset
<1>3. PICK y \in s : Sum(g, s) # g[y] + Sum(g, s \ {y})
    BY <1>1
<1>4. PICK c : c = First(s)
    OBVIOUS
<1>5. c \in s /\ Sum(g, s) = g[c] + Sum(g, s \ {c})
    BY <1>2, <1>3, <1>4, FirstIn, SumFirst
<1>6. y # c
    BY <1>3, <1>5
<1>7. \A u \in SUBSET s : u # s => \A z \in u : Sum(g, u) = g[z] + Sum(g, u \ {z})
    BY <1>1, <1>2
<1>8. Sum(g, s \ {c}) = g[y] + Sum(g, (s \ {c}) \ {y})
    BY <1>3, <1>5, <1>6, <1>7
<1>9. Sum(g, s \ {y}) = g[c] + Sum(g, (s \ {y}) \ {c})
    BY <1>3, <1>5, <1>6, <1>7
<1>10. (s \ {c}) \ {y} = (s \ {y}) \ {c}
    OBVIOUS
<1>11. Sum(g, (s \ {y}) \ {c}) \in Int /\ g[c] \in Int /\ g[y] \in Int
    <2>1. IsFiniteSet((s \ {y}) \ {c}) /\ \A z \in (s \ {y}) \ {c} : g[z] \in Int
        BY <1>2, FS_Subset
    <2> QED BY <1>2, <1>3, <1>5, <2>1, SumInt
<1>12. \A u, v, w \in Int : u + (v + w) = v + (u + w)
    OBVIOUS
<1>13. g[c] + (g[y] + Sum(g, (s \ {y}) \ {c})) = g[y] + (g[c] + Sum(g, (s \ {y}) \ {c}))
    BY <1>11, <1>12
<1> HIDE DEF Bad
<1> QED BY <1>3, <1>5, <1>8, <1>9, <1>10, <1>13

\* The numbers of two sets without a common element
LEMMA SumUnion ==
    ASSUME NEW S, IsFiniteSet(S), NEW T, IsFiniteSet(T), S \cap T = {}, NEW g,
           \A x \in S \cup T : g[x] \in Int
    PROVE  Sum(g, S \cup T) = Sum(g, S) + Sum(g, T)
<1> DEFINE Bad == {t \in SUBSET T : Sum(g, S \cup t) # Sum(g, S) + Sum(g, t)}
<1> SUFFICES ASSUME Bad # {} PROVE FALSE
    OBVIOUS
<1>1. PICK t \in Bad : \A u \in Bad : u \subseteq t => u = t
    <2>1. Bad \subseteq SUBSET T
        OBVIOUS
    <2> HIDE DEF Bad
    <2> QED BY <2>1, MinimalSubset
<1>2. t \subseteq T /\ IsFiniteSet(t) /\ IsFiniteSet(S \cup t)
    BY FS_Subset, FS_Union
<1>3. Sum(g, S) \in Int
    BY SumInt
<1>4. CASE t = {}
    <2>1. S \cup t = S /\ Sum(g, t) = 0
        BY <1>2, <1>4, SumFirst
    <2>2. Sum(g, S \cup t) # Sum(g, S) + Sum(g, t)
        BY <1>1
    <2>3. \A u \in Int : u + 0 = u
        OBVIOUS
    <2> HIDE DEF Bad
    <2> QED BY <1>3, <2>1, <2>2, <2>3
<1>5. CASE t # {}
    <2>1. PICK x \in t : TRUE
        BY <1>5
    <2>2. IsFiniteSet(t \ {x}) /\ t \ {x} \subseteq T /\ t \ {x} # t
        BY <1>2, <2>1, FS_Subset
    <2>3. Sum(g, S \cup (t \ {x})) = Sum(g, S) + Sum(g, t \ {x})
        BY <1>1, <2>2
    <2>4. (S \cup t) \ {x} = S \cup (t \ {x})
        BY <1>2, <2>1
    <2>5. Sum(g, S \cup t) = g[x] + Sum(g, (S \cup t) \ {x})
        BY <1>2, <2>1, SumRemove
    <2>6. Sum(g, t) = g[x] + Sum(g, t \ {x})
        BY <1>2, <2>1, SumRemove
    <2>7. Sum(g, t \ {x}) \in Int /\ g[x] \in Int
        BY <1>2, <2>1, <2>2, SumInt
    <2>8. Sum(g, S \cup t) # Sum(g, S) + Sum(g, t)
        BY <1>1
    <2>9. \A u, v, w \in Int : u + (v + w) = v + (u + w)
        OBVIOUS
    <2>10. g[x] + (Sum(g, S) + Sum(g, t \ {x})) = Sum(g, S) + (g[x] + Sum(g, t \ {x}))
        BY <1>3, <2>7, <2>9
    <2> HIDE DEF Bad
    <2> QED BY <2>3, <2>4, <2>5, <2>6, <2>8, <2>10
<1> QED BY <1>4, <1>5

\* Adding number by number
LEMMA SumAdd ==
    ASSUME NEW S, IsFiniteSet(S), NEW f, NEW g, NEW h,
           \A x \in S : f[x] \in Int /\ g[x] \in Int /\ h[x] = f[x] + g[x]
    PROVE  Sum(h, S) = Sum(f, S) + Sum(g, S)
<1> DEFINE Bad == {s \in SUBSET S : Sum(h, s) # Sum(f, s) + Sum(g, s)}
<1> SUFFICES ASSUME Bad # {} PROVE FALSE
    OBVIOUS
<1>1. PICK s \in Bad : \A u \in Bad : u \subseteq s => u = s
    <2>1. Bad \subseteq SUBSET S
        OBVIOUS
    <2> HIDE DEF Bad
    <2> QED BY <2>1, MinimalSubset
<1>2. s \subseteq S /\ IsFiniteSet(s)
    BY FS_Subset
<1>0. Sum(h, s) # Sum(f, s) + Sum(g, s)
    BY <1>1
<1>3. CASE s = {}
    <2>1. Sum(h, s) = 0 /\ Sum(f, s) = 0 /\ Sum(g, s) = 0
        BY <1>2, <1>3, SumFirst
    <2> HIDE DEF Bad
    <2> QED BY <1>0, <2>1
<1>4. CASE s # {}
    <2>1. PICK c : c = First(s)
        OBVIOUS
    <2>2. c \in s /\ c \in S
        BY <1>2, <1>4, <2>1, FirstIn
    <2>3. IsFiniteSet(s \ {c}) /\ s \ {c} \subseteq S /\ s \ {c} # s
        BY <1>2, <2>2, FS_Subset
    <2>4. Sum(h, s \ {c}) = Sum(f, s \ {c}) + Sum(g, s \ {c})
        BY <1>1, <2>3
    <2>5. /\ Sum(f, s) = f[c] + Sum(f, s \ {c}) /\ Sum(g, s) = g[c] + Sum(g, s \ {c})
          /\ Sum(h, s) = h[c] + Sum(h, s \ {c})
        BY <1>2, <1>4, <2>1, SumFirst
    <2>6. Sum(f, s \ {c}) \in Int /\ Sum(g, s \ {c}) \in Int
        BY <2>3, SumInt
    <2>7. f[c] \in Int /\ g[c] \in Int /\ h[c] = f[c] + g[c]
        BY <2>2
    <2>8. \A u, v, w, z \in Int : (u + v) + (w + z) = (u + w) + (v + z)
        OBVIOUS
    <2>9. (f[c] + g[c]) + (Sum(f, s \ {c}) + Sum(g, s \ {c}))
            = (f[c] + Sum(f, s \ {c})) + (g[c] + Sum(g, s \ {c}))
        BY <2>6, <2>7, <2>8
    <2> HIDE DEF Bad
    <2> QED BY <1>0, <2>4, <2>5, <2>7, <2>9
<1> QED BY <1>3, <1>4

LEMMA SumZero ==
    ASSUME NEW S, IsFiniteSet(S), NEW g, \A x \in S : g[x] = 0
    PROVE  Sum(g, S) = 0
<1>1. \A x \in S : g[x] \in Int /\ g[x] = g[x] + g[x]
    OBVIOUS
<1>2. Sum(g, S) = Sum(g, S) + Sum(g, S)
    BY <1>1, SumAdd
<1>3. Sum(g, S) \in Int
    BY <1>1, SumInt
<1>4. \A u \in Int : u = u + u => u = 0
    OBVIOUS
<1> QED BY <1>2, <1>3, <1>4

\* The numbers with the other sign
LEMMA SumNegative ==
    ASSUME NEW S, IsFiniteSet(S), NEW g, NEW h,
           \A x \in S : g[x] \in Int /\ h[x] = -g[x]
    PROVE  Sum(h, S) = -Sum(g, S)
<1>1. PICK z : z = [x \in S |-> 0]
    OBVIOUS
<1>2. \A x \in S : g[x] \in Int /\ h[x] \in Int /\ z[x] = 0 /\ z[x] = g[x] + h[x]
    BY <1>1
<1>3. Sum(z, S) = Sum(g, S) + Sum(h, S)
    BY <1>2, SumAdd
<1>4. Sum(z, S) = 0
    BY <1>2, SumZero
<1>5. Sum(g, S) \in Int /\ Sum(h, S) \in Int
    BY <1>2, SumInt
<1>6. \A u, v \in Int : u + v = 0 => v = -u
    OBVIOUS
<1> QED BY <1>3, <1>4, <1>5, <1>6

\* A sum may be taken group by group: k has the group of each element, and A the groups.
LEMMA SumByGroup ==
    ASSUME NEW S, IsFiniteSet(S), NEW g, \A x \in S : g[x] \in Int,
           NEW A, IsFiniteSet(A), NEW k, \A x \in S : k[x] \in A,
           NEW h, \A a \in A : h[a] = Sum(g, {x \in S : k[x] = a})
    PROVE  Sum(g, S) = Sum(h, A)
<1> DEFINE In(B) == {x \in S : k[x] \in B}
           Group(a) == {x \in S : k[x] = a}
           Bad == {B \in SUBSET A : Sum(g, In(B)) # Sum(h, B)}
<1> SUFFICES ASSUME Bad # {} PROVE FALSE
    <2>1. In(A) = S
        OBVIOUS
    <2> QED BY <2>1
<1>1. PICK B \in Bad : \A C \in Bad : C \subseteq B => C = B
    <2>1. Bad \subseteq SUBSET A
        OBVIOUS
    <2> HIDE DEF Bad
    <2> QED BY <2>1, MinimalSubset
<1>2. B \subseteq A /\ IsFiniteSet(B) /\ Sum(g, In(B)) # Sum(h, B)
    BY <1>1, FS_Subset
<1>3. CASE B = {}
    <2>1. In(B) = {}
        BY <1>3
    <2>2. Sum(g, {}) = 0 /\ Sum(h, {}) = 0
        BY FS_EmptySet, SumFirst
    <2> QED BY <1>2, <1>3, <2>1, <2>2
<1>4. CASE B # {}
    <2>1. PICK a : a = First(B)
        OBVIOUS
    <2>2. a \in B /\ a \in A
        BY <1>2, <1>4, <2>1, FirstIn
    <2>3. Sum(h, B) = h[a] + Sum(h, B \ {a})
        BY <1>2, <1>4, <2>1, SumFirst
    <2>4. Sum(g, In(B \ {a})) = Sum(h, B \ {a})
        BY <1>1, <1>2, <2>2
    <2>5. PICK P, Q, R : P = In(B) /\ Q = Group(a) /\ R = In(B \ {a})
        OBVIOUS
    <2>6. P = Q \cup R /\ Q \cap R = {} /\ Q \subseteq S /\ R \subseteq S
        BY <2>2, <2>5
    <2>7. IsFiniteSet(Q) /\ IsFiniteSet(R)
        BY <2>6, FS_Subset
    <2>8. h[a] = Sum(g, Q)
        BY <2>2, <2>5
    <2>9. \A x \in Q \cup R : g[x] \in Int
        BY <2>6
    <2>10. Sum(g, P) = Sum(g, Q) + Sum(g, R)
        BY <2>6, <2>7, <2>9, SumUnion
    <2>11. Sum(g, P) # Sum(h, B) /\ Sum(g, R) = Sum(h, B \ {a})
        BY <1>2, <2>4, <2>5
    <2> QED BY <2>3, <2>8, <2>10, <2>11
<1> QED BY <1>3, <1>4

\* The same numbers under other names: r has the name in T of each element of S.
LEMMA SumRenamed ==
    ASSUME NEW S, IsFiniteSet(S), NEW T, IsFiniteSet(T), NEW r \in [S -> T],
           \A x, y \in S : r[x] = r[y] => x = y, \A t \in T : \E x \in S : r[x] = t,
           NEW g, NEW h, \A x \in S : g[x] \in Int /\ h[r[x]] = g[x]
    PROVE  Sum(g, S) = Sum(h, T)
<1>1. ASSUME NEW t \in T PROVE h[t] = Sum(g, {x \in S : r[x] = t})
    <2>1. PICK y \in S : r[y] = t
        BY <1>1
    <2>2. {x \in S : r[x] = t} = {y}
        BY <2>1
    <2>3. First({y}) = y /\ {y} \ {y} = {}
        BY FirstIn
    <2>4. IsFiniteSet({y}) /\ IsFiniteSet({})
        BY FS_Singleton, FS_EmptySet
    <2>5. Sum(g, {y}) = g[y] + Sum(g, {})
        BY <2>3, <2>4, SumFirst
    <2>6. Sum(g, {}) = 0
        BY <2>4, SumFirst
    <2>7. h[t] = g[y] /\ g[y] \in Int
        BY <2>1
    <2>8. h[t] = Sum(g, {y})
        BY <2>5, <2>6, <2>7
    <2> QED BY <2>2, <2>8
<1>2. \A x \in S : g[x] \in Int /\ r[x] \in T
    OBVIOUS
<1> QED BY <1>1, <1>2, SumByGroup

-----------------------------------------------------------------------------
(* The model's sums *)

\* Total adds the amounts of lines.
LEMMA TotalIsSum ==
    ASSUME NEW S, IsFiniteSet(S)
    PROVE  Total(S) = Sum([l \in S |-> Line(l).minor], S)
<1> DEFINE g == [l \in S |-> Line(l).minor]
           Eq(F) == F = [s \in SUBSET S |->
                           IF s = {} THEN 0 ELSE Line(First(s)).minor + F[s \ {First(s)}]]
<1>1. Total(S) = (CHOOSE F : Eq(F))[S]
    BY DEF Total, MapThenSumSet, MapThenFoldSet, First
<1>2. \A s \in SUBSET S : s # {} => g[First(s)] = Line(First(s)).minor
    BY FirstIn
<1> HIDE DEF g
<1>3. \A F : Eq(F) <=> Table(F, g, S)
    BY <1>2 DEF Table
<1> HIDE DEF Eq
<1>4. Table(CHOOSE F : Eq(F), g, S) /\ Table(CHOOSE F : Table(F, g, S), g, S)
    BY <1>3, TableExists
<1>5. (CHOOSE F : Eq(F))[S] = Sum(g, S)
    BY <1>4, TablesAgree DEF Sum
<1> QED BY <1>1, <1>5 DEF g

\* AbsoluteTotal adds them without their signs.
LEMMA AbsoluteTotalIsSum ==
    ASSUME NEW S, IsFiniteSet(S)
    PROVE  AbsoluteTotal(S) = Sum([l \in S |-> Absolute(Line(l).minor)], S)
<1> DEFINE g == [l \in S |-> Absolute(Line(l).minor)]
           Eq(F) == F = [s \in SUBSET S |->
                           IF s = {} THEN 0 ELSE Absolute(Line(First(s)).minor) + F[s \ {First(s)}]]
<1>1. AbsoluteTotal(S) = (CHOOSE F : Eq(F))[S]
    BY DEF AbsoluteTotal, MapThenSumSet, MapThenFoldSet, First
<1>2. \A s \in SUBSET S : s # {} => g[First(s)] = Absolute(Line(First(s)).minor)
    BY FirstIn
<1> HIDE DEF g
<1>3. \A F : Eq(F) <=> Table(F, g, S)
    BY <1>2 DEF Table
<1> HIDE DEF Eq
<1>4. Table(CHOOSE F : Eq(F), g, S) /\ Table(CHOOSE F : Table(F, g, S), g, S)
    BY <1>3, TableExists
<1>5. (CHOOSE F : Eq(F))[S] = Sum(g, S)
    BY <1>4, TablesAgree DEF Sum
<1> QED BY <1>1, <1>5 DEF g

\* SumValued adds the values of accounts.
LEMMA SumValuedIsSum ==
    ASSUME NEW S, IsFiniteSet(S), NEW balances
    PROVE  SumValued(balances, S) = Sum([a \in S |-> value(a, balances[a])], S)
<1> DEFINE g == [a \in S |-> value(a, balances[a])]
           Eq(F) == F = [s \in SUBSET S |->
                           IF s = {} THEN 0 ELSE value(First(s), balances[First(s)]) + F[s \ {First(s)}]]
<1>1. SumValued(balances, S) = (CHOOSE F : Eq(F))[S]
    BY DEF SumValued, MapThenSumSet, MapThenFoldSet, First
<1>2. \A s \in SUBSET S : s # {} => g[First(s)] = value(First(s), balances[First(s)])
    BY FirstIn
<1> HIDE DEF g
<1>3. \A F : Eq(F) <=> Table(F, g, S)
    BY <1>2 DEF Table
<1> HIDE DEF Eq
<1>4. Table(CHOOSE F : Eq(F), g, S) /\ Table(CHOOSE F : Table(F, g, S), g, S)
    BY <1>3, TableExists
<1>5. (CHOOSE F : Eq(F))[S] = Sum(g, S)
    BY <1>4, TablesAgree DEF Sum
<1> QED BY <1>1, <1>5 DEF g

\* assertBalanced adds the amounts of an entry.
Minors(postings) == [i \in DOMAIN postings |-> postings[i].minor]

Balanced(postings) == Len(postings) >= 2 /\ Sum(Minors(postings), DOMAIN postings) = 0

LEMMA BalancedIsSum ==
    ASSUME NEW postings \in Seq(Posting), assertBalanced(postings)
    PROVE  Balanced(postings)
<1> DEFINE S == DOMAIN postings
           g == Minors(postings)
           Eq(F) == F = [s \in SUBSET S |->
                           IF s = {} THEN 0 ELSE postings[First(s)].minor + F[s \ {First(s)}]]
<1>0. IsFiniteSet(S)
    <2>1. S = 1..Len(postings) /\ Len(postings) \in Nat
        OBVIOUS
    <2> HIDE DEF S
    <2> QED BY <2>1, FS_Interval
<1>1. MapThenSumSet(LAMBDA i : postings[i].minor, S) = (CHOOSE F : Eq(F))[S]
    BY DEF MapThenSumSet, MapThenFoldSet, First
<1>2. \A s \in SUBSET S : s # {} => g[First(s)] = postings[First(s)].minor
    BY FirstIn DEF Minors
<1> HIDE DEF g, S
<1>3. \A F : Eq(F) <=> Table(F, g, S)
    BY <1>2 DEF Table
<1> HIDE DEF Eq
<1>4. Table(CHOOSE F : Eq(F), g, S) /\ Table(CHOOSE F : Table(F, g, S), g, S)
    BY <1>0, <1>3, TableExists
<1>5. (CHOOSE F : Eq(F))[S] = Sum(g, S)
    BY <1>0, <1>4, TablesAgree DEF Sum
<1>6. Sum(g, S) = 0
    BY <1>1, <1>5 DEF assertBalanced, S
<1>7. Len(postings) >= 2
    BY DEF assertBalanced
<1> QED BY <1>6, <1>7 DEF Balanced, g, S

-----------------------------------------------------------------------------
(* The invariant *)

JournalRow == [on : Dates, postings : Seq(Posting), deleted : BOOLEAN,
               link : TransferIds \cup {NoTransfer}]

\* The journal: its entries are finitely many, and each is balanced.
JournalSound(e) ==
    /\ IsFiniteSet(DOMAIN e)
    /\ e \in [DOMAIN e -> JournalRow]
    /\ \A j \in DOMAIN e : Balanced(e[j].postings)

GoalRecord == [currency : Currency, target : Targets, linked : SUBSET Accounts, version : Int]

GoalsSound == goals \in [DOMAIN goals -> GoalRecord]

\* What an undisturbed refresh has read is what is stored.
QuietSound ==
    /\ DOMAIN reading = Refreshes /\ undisturbed \subseteq Refreshes
    /\ \A r \in undisturbed :
          /\ reading[r].stage \in {"asked", "answered"}
          /\ reading[r].lists = Lists(month)
          /\ reading[r].stage = "asked" => reading[r].month = month
          /\ reading[r].stage = "answered" => reading[r].figures = Figures(month)

ProjectionsInv == JournalSound(entries) /\ GoalsSound /\ rates \subseteq DOMAIN RateOf /\ QuietSound

\* Entries whose amounts stay the same stay balanced.
LEMMA SameMinors ==
    ASSUME NEW p \in Seq(Posting), NEW q \in Seq(Posting), Balanced(p), Len(q) = Len(p),
           \A i \in 1..Len(p) : q[i].minor = p[i].minor
    PROVE  Balanced(q)
<1>1. /\ DOMAIN p = 1..Len(p) /\ DOMAIN q = 1..Len(p) /\ Len(p) \in Nat
      /\ IsFiniteSet(1..Len(p))
    BY FS_Interval
<1>2. \A i \in 1..Len(p) : Minors(p)[i] = Minors(q)[i]
    BY <1>1 DEF Minors
<1>3. Sum(Minors(p), 1..Len(p)) = Sum(Minors(q), 1..Len(p))
    BY <1>1, <1>2, SumCongruence
<1> QED BY <1>1, <1>3 DEF Balanced

\* A new or changed entry in the place of the one with its id
LEMMA EntryKept ==
    ASSUME NEW e, JournalSound(e), NEW j, NEW row \in JournalRow, Balanced(row.postings)
    PROVE  JournalSound(Set(e, j, row))
<1>1. PICK f : f = Set(e, j, row)
    OBVIOUS
<1>2. /\ DOMAIN f = DOMAIN e \cup {j} /\ f = [k \in DOMAIN f |-> f[k]]
      /\ \A k \in DOMAIN f : f[k] = IF k = j THEN row ELSE e[k]
    BY <1>1 DEF Set
<1>3. IsFiniteSet(DOMAIN f)
    BY <1>2, FS_AddElement DEF JournalSound
<1>4. \A k \in DOMAIN f : f[k] \in JournalRow /\ Balanced(f[k].postings)
    BY <1>2 DEF JournalSound
<1>5. f \in [DOMAIN f -> JournalRow]
    BY <1>2, <1>4
<1>6. JournalSound(f)
    BY <1>3, <1>4, <1>5 DEF JournalSound
<1> QED BY <1>1, <1>6

\* An entry that gets another date, or is deleted, linked or unlinked, keeps its postings.
LEMMA RowKept ==
    ASSUME NEW e, JournalSound(e), NEW j \in DOMAIN e, NEW row \in JournalRow,
           row.postings = e[j].postings
    PROVE  JournalSound([e EXCEPT ![j] = row])
<1>1. [e EXCEPT ![j] = row] = Set(e, j, row)
    BY DEF JournalSound, Set
<1>2. Balanced(row.postings)
    BY DEF JournalSound
<1>3. JournalSound(Set(e, j, row))
    BY <1>2, EntryKept
<1> QED BY <1>1, <1>3

\* A posting that goes to another account leaves its entry balanced.
LEMMA ClassifyKept ==
    ASSUME JournalSound(entries), NEW j \in JournalIds, NEW category \in Accounts,
           Classify(j, category)
    PROVE  JournalSound(entries')
<1>1. PICK p : p = entries[j].postings
    OBVIOUS
<1>2. j \in DOMAIN entries /\ entries[j] \in JournalRow /\ p \in Seq(Posting) /\ Balanced(p)
    BY <1>1 DEF Classify, JournalSound, JournalRow
<1>3. Len(p) \in Nat /\ Len(p) >= 2 /\ Len(p) \in 1..Len(p)
    BY <1>2 DEF Balanced
<1>4. PICK last : last = [p[Len(p)] EXCEPT !.account = category]
    OBVIOUS
<1>5. p[Len(p)] \in Posting
    BY <1>2, <1>3
<1>6. last \in Posting /\ last.minor = p[Len(p)].minor
    BY <1>4, <1>5 DEF Posting
<1>7. PICK q : q = [p EXCEPT ![Len(p)] = last]
    OBVIOUS
<1>8. /\ q \in Seq(Posting) /\ Len(q) = Len(p)
      /\ \A i \in 1..Len(p) : q[i] = IF i = Len(p) THEN last ELSE p[i]
    BY <1>2, <1>3, <1>6, <1>7
<1>9. \A i \in 1..Len(p) : q[i].minor = p[i].minor
    BY <1>6, <1>8
<1>10. Balanced(q)
    BY <1>2, <1>8, <1>9, SameMinors
<1>11. PICK row : row = [entries[j] EXCEPT !.postings = q]
    OBVIOUS
<1>12. row \in JournalRow /\ row.postings = q
    BY <1>2, <1>8, <1>11 DEF JournalRow
<1>13. entries' = Set(entries, j, row)
    <2>1. entries' = [entries EXCEPT ![j] = row]
        BY <1>1, <1>4, <1>7, <1>11 DEF Classify, LedgerChanges
    <2> QED BY <1>2, <2>1 DEF Set, JournalSound
<1> QED BY <1>10, <1>12, <1>13, EntryKept

LEMMA LedgerNextKept ==
    ASSUME JournalSound(entries), LedgerNext
    PROVE  JournalSound(entries')
<1>0. \A j \in DOMAIN entries : entries[j] \in JournalRow
    BY DEF JournalSound
<1>1. ASSUME NEW j \in JournalIds, NEW day \in Dates, NEW ps \in PostingLists,
             PostJournal(j, day, ps)
      PROVE  JournalSound(entries')
    <2>1. ps \in Seq(Posting)
        BY FinanceAssumption
    <2>2. Balanced(ps)
        BY <1>1, <2>1, BalancedIsSum DEF PostJournal
    <2>3. createJournal(day, ps) \in JournalRow /\ createJournal(day, ps).postings = ps
        BY <2>1 DEF createJournal, JournalRow
    <2>4. entries' = Set(entries, j, createJournal(day, ps))
        BY <1>1 DEF PostJournal, LedgerChanges
    <2> QED BY <2>2, <2>3, <2>4, EntryKept
<1>2. ASSUME NEW j \in JournalIds, NEW day \in Dates, EditJournal(j, day)
      PROVE  JournalSound(entries')
    <2>1. PICK row : row = [entries[j] EXCEPT !.on = day]
        OBVIOUS
    <2>2. j \in DOMAIN entries /\ entries' = [entries EXCEPT ![j] = row]
        BY <1>2, <2>1 DEF EditJournal, LedgerChanges
    <2>3. row \in JournalRow /\ row.postings = entries[j].postings
        BY <1>0, <2>1, <2>2 DEF JournalRow
    <2> QED BY <2>2, <2>3, RowKept
<1>3. ASSUME NEW j \in JournalIds, NEW c \in Accounts, Classify(j, c)
      PROVE  JournalSound(entries')
    BY <1>3, ClassifyKept
<1>4. ASSUME NEW j \in JournalIds, Delete(j) PROVE JournalSound(entries')
    <2>1. PICK row : row = [entries[j] EXCEPT !.deleted = TRUE]
        OBVIOUS
    <2>2. j \in DOMAIN entries /\ entries' = [entries EXCEPT ![j] = row]
        BY <1>4, <2>1 DEF Delete, LedgerChanges
    <2>3. row \in JournalRow /\ row.postings = entries[j].postings
        BY <1>0, <2>1, <2>2 DEF JournalRow
    <2> QED BY <2>2, <2>3, RowKept
<1>5. ASSUME NEW j \in DOMAIN entries, NEW k \in DOMAIN entries, j # k,
             NEW link \in TransferIds \cup {NoTransfer},
             entries' = [entries EXCEPT ![j].link = link, ![k].link = link]
      PROVE  JournalSound(entries')
    <2>1. PICK row, other : /\ row = [entries[j] EXCEPT !.link = link]
                            /\ other = [entries[k] EXCEPT !.link = link]
        OBVIOUS
    <2>2. /\ row \in JournalRow /\ row.postings = entries[j].postings
          /\ other \in JournalRow /\ other.postings = entries[k].postings
        BY <1>0, <2>1 DEF JournalRow
    <2>3. PICK e : e = [entries EXCEPT ![j] = row]
        OBVIOUS
    <2>4. JournalSound(e) /\ k \in DOMAIN e /\ e[k] = entries[k]
        BY <1>5, <2>2, <2>3, RowKept DEF JournalSound
    <2>5. JournalSound([e EXCEPT ![k] = other])
        BY <2>2, <2>4, RowKept
    <2>6. entries' = [e EXCEPT ![k] = other]
        BY <1>5, <2>1, <2>3
    <2> QED BY <2>5, <2>6
<1>6. ASSUME NEW j \in JournalIds, NEW k \in JournalIds, NEW link \in TransferIds,
             Link(j, k, link)
      PROVE  JournalSound(entries')
    BY <1>5, <1>6 DEF Link, LedgerChanges
<1>7. ASSUME NEW j \in JournalIds, NEW k \in JournalIds, Unlink(j, k)
      PROVE  JournalSound(entries')
    BY <1>5, <1>7 DEF Unlink, LedgerChanges
<1> QED BY <1>1, <1>2, <1>3, <1>4, <1>6, <1>7 DEF LedgerNext

\* What is read of the stored rows stays the same while they do.
LEMMA SameLists ==
    ASSUME UNCHANGED stored, NEW m
    PROVE  Lists(m)' = Lists(m)
BY DEF Lists, listBudgetProgress, listGoalProgress, BudgetProgress, GoalProgress, stored,
       sumExpenseOrIncome, listAccountBalances, SumValued, value, Lines, Line, Total,
       AbsoluteTotal, MapThenSumSet, MapThenFoldSet, Absolute, InMonth, monthBounds

LEMMA SameFigures ==
    ASSUME UNCHANGED stored, NEW m
    PROVE  Figures(m)' = Figures(m)
BY DEF Figures, netWorth, sumCashFlow, stored,
       sumExpenseOrIncome, listAccountBalances, SumValued, value, Lines, Line, Total,
       AbsoluteTotal, MapThenSumSet, MapThenFoldSet, Absolute, InMonth, monthBounds

\* A refresh that begins reads the lists of its month at once.
LEMMA ReadKept ==
    ASSUME QuietSound, NEW r \in Refreshes, NEW m, Read(r, m), UNCHANGED stored
    PROVE  QuietSound'
<1>1. PICK q : q = [stage |-> "asked", month |-> m, lists |-> Lists(m)]
    OBVIOUS
<1>2. reading' = [reading EXCEPT ![r] = q]
      /\ undisturbed' = IF Active \subseteq {r} /\ m = month' THEN {r} ELSE {}
    BY <1>1 DEF Read
<1>3. reading'[r] = q /\ DOMAIN reading' = Refreshes
    BY <1>2 DEF QuietSound
<1>4. q.stage = "asked" /\ q.month = m /\ q.lists = Lists(m)
    BY <1>1
<1>5. Lists(m)' = Lists(m)
    BY SameLists
<1>6. m = month' => q.lists = Lists(month)'
    BY <1>4, <1>5
<1>7. undisturbed' \subseteq {r} /\ (undisturbed' # {} => m = month')
    BY <1>2
<1> QED BY <1>3, <1>4, <1>6, <1>7 DEF QuietSound

\* The overview is valued with what is stored when it returns.
LEMMA OverviewKept ==
    ASSUME QuietSound, NEW r \in Refreshes, OverviewReturns(r)
    PROVE  QuietSound'
<1>1. PICK q : q = [stage |-> "answered", lists |-> reading[r].lists,
                    figures |-> Figures(reading[r].month)]
    OBVIOUS
<1>2. /\ reading' = [reading EXCEPT ![r] = q] /\ reading[r].stage = "asked"
      /\ UNCHANGED <<stored, month, undisturbed>>
    BY <1>1 DEF OverviewReturns
<1>3. DOMAIN reading' = Refreshes /\ \A s \in Refreshes : reading'[s] = IF s = r THEN q ELSE reading[s]
    BY <1>2 DEF QuietSound
<1>4. q.stage = "answered" /\ q.lists = reading[r].lists /\ q.figures = Figures(reading[r].month)
    BY <1>1
<1>5. Lists(month)' = Lists(month) /\ Figures(month)' = Figures(month)
    <2>1. \A m : Lists(m)' = Lists(m) /\ Figures(m)' = Figures(m)
        BY <1>2, SameLists, SameFigures
    <2>2. month' = month
        BY <1>2
    <2>3. \A m : m = month' => Lists(m)' = Lists(month)' /\ Figures(m)' = Figures(month)'
        OBVIOUS
    <2> QED BY <2>1, <2>2, <2>3
<1>6. ASSUME NEW s \in undisturbed
      PROVE  /\ reading'[s].stage \in {"asked", "answered"}
             /\ reading'[s].lists = Lists(month)
             /\ reading'[s].stage = "asked" => reading'[s].month = month
             /\ reading'[s].stage = "answered" => reading'[s].figures = Figures(month)
    <2>1. /\ s \in Refreshes /\ reading[s].stage \in {"asked", "answered"}
          /\ reading[s].lists = Lists(month)
          /\ reading[s].stage = "asked" => reading[s].month = month
          /\ reading[s].stage = "answered" => reading[s].figures = Figures(month)
        BY DEF QuietSound
    <2>2. CASE s = r
        BY <1>2, <1>3, <1>4, <2>1, <2>2
    <2>3. CASE s # r
        BY <1>3, <2>1, <2>3
    <2> QED BY <2>2, <2>3
<1> QED BY <1>2, <1>3, <1>5, <1>6 DEF QuietSound

\* Whatever else happens ends the quiet.
LEMMA DisturbedKept ==
    ASSUME QuietSound, DOMAIN reading' = DOMAIN reading, undisturbed' = {}
    PROVE  QuietSound'
BY DEF QuietSound

LEMMA InitProjections == ProjectionsInit => ProjectionsInv
<1> SUFFICES ASSUME ProjectionsInit PROVE ProjectionsInv
    OBVIOUS
<1>1. DOMAIN entries = {} /\ DOMAIN goals = {} /\ entries = [j \in {} |-> Unknown]
    BY DEF ProjectionsInit
<1>2. JournalSound(entries)
    BY <1>1, FS_EmptySet DEF JournalSound
<1>3. GoalsSound
    BY DEF ProjectionsInit, GoalsSound
<1>4. QuietSound /\ rates \subseteq DOMAIN RateOf
    BY DEF ProjectionsInit, QuietSound
<1> QED BY <1>2, <1>3, <1>4 DEF ProjectionsInv

LEMMA SaveGoalKept ==
    ASSUME ProjectionsInv, NEW r \in Refreshes, NEW g \in GoalIds, NEW a \in Accounts,
           NEW target \in Targets, SaveGoal(r, g, a, target)
    PROVE  GoalsSound'
<1>1. PICK row : row = GoalRow(g, a, target)
    OBVIOUS
<1>2. NextVersion(goals, g) \in Int
    BY DEF ProjectionsInv, GoalsSound, GoalRecord, NextVersion
<1>3. Denomination[a] \in Currency
    BY DEF Currency
<1>4. row \in GoalRecord
    BY <1>1, <1>2, <1>3 DEF GoalRow, GoalRecord
<1>5. goals' = [z \in DOMAIN goals \cup {g} |-> IF z = g THEN row ELSE goals[z]]
    BY <1>1 DEF SaveGoal, Set
<1> QED BY <1>4, <1>5 DEF ProjectionsInv, GoalsSound

LEMMA ProjectionsStep == ProjectionsInv /\ [ProjectionsNext]_projectionVars => ProjectionsInv'
<1> SUFFICES ASSUME ProjectionsInv, [ProjectionsNext]_projectionVars PROVE ProjectionsInv'
    OBVIOUS
<1>0. /\ JournalSound(entries) /\ GoalsSound /\ QuietSound /\ rates \subseteq DOMAIN RateOf
      /\ DOMAIN reading = Refreshes
    BY DEF ProjectionsInv, QuietSound
<1>a. JournalSound(entries') => JournalSound(entries)'
    BY DEF JournalSound, Balanced, Sum, Table, First, Minors
<1>b. UNCHANGED entries => JournalSound(entries)'
    <2>1. UNCHANGED entries => JournalSound(entries')
        BY <1>0
    <2> QED BY <1>a, <2>1
<1>c. UNCHANGED goals => GoalsSound'
    BY <1>0 DEF GoalsSound
<1>1. CASE LedgerNext
    <2>1. /\ undisturbed' = {} /\ UNCHANGED <<budgets, goals, base, rates, screen>>
        BY <1>1 DEF LedgerNext, PostJournal, EditJournal, Classify, Delete, Link, Unlink,
                    LedgerChanges
    <2>2. JournalSound(entries)'
        BY <1>0, <1>1, <1>a, LedgerNextKept
    <2>3. QuietSound'
        BY <1>0, <2>1, DisturbedKept DEF screen
    <2> QED BY <1>0, <1>c, <2>1, <2>2, <2>3 DEF ProjectionsInv
<1>2. CASE \E currency \in Currency : SelectBase(currency)
    <2>1. /\ undisturbed' = {} /\ UNCHANGED <<entries, goals, rates, screen>>
        BY <1>2 DEF SelectBase
    <2>2. QuietSound'
        BY <1>0, <2>1, DisturbedKept DEF screen
    <2> QED BY <1>0, <1>b, <1>c, <2>1, <2>2 DEF ProjectionsInv
<1>3. CASE \E pair \in DOMAIN RateOf : RateChanges(pair)
    <2>1. /\ undisturbed' = {} /\ UNCHANGED <<entries, goals, screen>>
          /\ rates' \subseteq DOMAIN RateOf
        BY <1>0, <1>3 DEF RateChanges
    <2>2. QuietSound'
        BY <1>0, <2>1, DisturbedKept DEF screen
    <2> QED BY <1>0, <1>b, <1>c, <2>1, <2>2 DEF ProjectionsInv
<1>4. ASSUME NEW r \in Refreshes, NEW m \in Months, SelectMonth(r, m) PROVE ProjectionsInv'
    <2>1. UNCHANGED stored /\ Read(r, m)
        BY <1>4 DEF SelectMonth
    <2>2. QuietSound'
        BY <1>0, <2>1, ReadKept
    <2> QED BY <1>0, <1>b, <1>c, <2>1, <2>2 DEF ProjectionsInv, stored
<1>5. ASSUME NEW r \in Refreshes, NEW c \in Accounts, NEW limit \in Limits,
             SaveBudget(r, c, limit)
      PROVE  ProjectionsInv'
    <2>1. /\ undisturbed' = {} /\ UNCHANGED <<entries, goals, rates>>
          /\ DOMAIN reading' = DOMAIN reading
        BY <1>5 DEF SaveBudget, UpsertBudget, Saving
    <2>2. QuietSound'
        BY <1>0, <2>1, DisturbedKept
    <2> QED BY <1>0, <1>b, <1>c, <2>1, <2>2 DEF ProjectionsInv
<1>6. ASSUME NEW r \in Refreshes, NEW g \in GoalIds, NEW a \in Accounts, NEW target \in Targets,
             SaveGoal(r, g, a, target)
      PROVE  ProjectionsInv'
    <2>1. /\ undisturbed' = {} /\ UNCHANGED <<entries, rates>>
          /\ DOMAIN reading' = DOMAIN reading
        BY <1>6 DEF SaveGoal, Saving
    <2>2. QuietSound'
        BY <1>0, <2>1, DisturbedKept
    <2>3. GoalsSound'
        BY <1>6, SaveGoalKept
    <2> QED BY <1>0, <1>b, <2>1, <2>2, <2>3 DEF ProjectionsInv
<1>7. ASSUME NEW r \in Refreshes, OverviewReturns(r) PROVE ProjectionsInv'
    <2>1. UNCHANGED stored
        BY <1>7 DEF OverviewReturns
    <2>2. QuietSound'
        BY <1>0, <1>7, OverviewKept
    <2> QED BY <1>0, <1>b, <1>c, <2>1, <2>2 DEF ProjectionsInv, stored
<1>8. ASSUME NEW r \in Refreshes, Show(r) \/ RefreshFails(r) PROVE ProjectionsInv'
    <2>1. UNCHANGED stored /\ undisturbed' = {} /\ DOMAIN reading' = DOMAIN reading
        BY <1>8 DEF Show, RefreshFails
    <2>2. QuietSound'
        BY <1>0, <2>1, DisturbedKept
    <2> QED BY <1>0, <1>b, <1>c, <2>1, <2>2 DEF ProjectionsInv, stored
<1>9. ASSUME NEW r \in Refreshes, Saved(r) PROVE ProjectionsInv'
    <2>1. UNCHANGED stored /\ Read(r, reading[r].month)
        BY <1>9 DEF Saved
    <2>2. QuietSound'
        BY <1>0, <2>1, ReadKept
    <2> QED BY <1>0, <1>b, <1>c, <2>1, <2>2 DEF ProjectionsInv, stored
<1>10. ASSUME NEW r \in Refreshes, NEW pair \in DOMAIN RateOf, SaveRate(r, pair)
      PROVE  ProjectionsInv'
    <2>1. /\ undisturbed' = {} /\ UNCHANGED <<entries, goals>>
          /\ rates' \subseteq DOMAIN RateOf /\ DOMAIN reading' = DOMAIN reading
        BY <1>0, <1>10 DEF SaveRate, Saving
    <2>2. QuietSound'
        BY <1>0, <2>1, DisturbedKept
    <2> QED BY <1>0, <1>b, <1>c, <2>1, <2>2 DEF ProjectionsInv
<1>11. CASE UNCHANGED projectionVars
    <2>1. UNCHANGED <<stored, month, reading, undisturbed>>
        BY <1>11 DEF projectionVars, screen
    <2>2. Lists(month)' = Lists(month) /\ Figures(month)' = Figures(month)
        <3>1. \A m : Lists(m)' = Lists(m) /\ Figures(m)' = Figures(m)
            BY <2>1, SameLists, SameFigures
        <3>2. \A m : m = month' => Lists(m)' = Lists(month)' /\ Figures(m)' = Figures(month)'
            OBVIOUS
        <3> QED BY <2>1, <3>1, <3>2
    <2>3. QuietSound'
        BY <1>0, <2>1, <2>2 DEF QuietSound
    <2> QED BY <1>0, <1>b, <1>c, <2>1, <2>3 DEF ProjectionsInv, stored
<1> QED BY <1>1, <1>2, <1>3, <1>4, <1>5, <1>6, <1>7, <1>8, <1>9, <1>10, <1>11 DEF ProjectionsNext

\* The inductive invariant of the panel and the ledger it is about: entries are finitely
\* many and balanced, and what an undisturbed refresh has read is what is stored.
THEOREM ProjectionsInvariant == ProjectionsSpec => []ProjectionsInv
BY InitProjections, ProjectionsStep, PTL DEF ProjectionsSpec

\* A refresh during which nothing else happens shows what is stored for the selected month.
THEOREM QuietRefreshesAreCurrent == ProjectionsSpec => QuietRefreshIsCurrent
<1> DEFINE Current == \A r \in undisturbed : Show(r) =>
                         panel' = [figures |-> Figures(month), lists |-> Lists(month)]
<1>1. ProjectionsInv => Current
    BY DEF ProjectionsInv, QuietSound, Show
<1>2. QuietRefreshIsCurrent <=> [][Current]_projectionVars
    BY PTL DEF QuietRefreshIsCurrent
<1> QED BY <1>1, <1>2, ProjectionsInvariant, PTL

-----------------------------------------------------------------------------
(* Goals *)

\* A dividend is its quotient and its remainder.
LEMMA WholeAndRest ==
    ASSUME NEW n \in Nat, NEW d \in Nat \ {0}
    PROVE  \E q, r \in Nat : n \div d = q /\ r < d /\ n = d * q + r
<1>1. n \div d \in Nat /\ n % d \in Nat /\ n % d < d /\ n = d * (n \div d) + (n % d)
    OBVIOUS
<1> QED BY <1>1

\* Completion is the whole basis points that have been reached, and 10000 of them from the
\* target on.
LEMMA CompletionExact ==
    ASSUME NEW c \in Int, NEW t \in Nat \ {0}
    PROVE  /\ Completion(c, t) = 10000 <=> c >= t
           /\ 0 <= c /\ c < t => /\ Completion(c, t) * t <= c * 10000
                                 /\ c * 10000 < (Completion(c, t) + 1) * t
<1>1. CASE c < 0
    <2>1. -(c * 10000) \in Nat /\ c * 10000 < 0
        BY <1>1
    <2>2. PICK q, r \in Nat : (-(c * 10000)) \div t = q /\ r < t
        BY <2>1, WholeAndRest
    <2>3. Completion(c, t) = IF -q < 0 THEN 0 ELSE IF -q > 10000 THEN 10000 ELSE -q
        BY <2>1, <2>2 DEF Completion
    <2>4. Completion(c, t) = 0
        BY <2>3
    <2> QED BY <1>1, <2>4
<1>2. CASE 0 <= c
    <2>1. c * 10000 \in Nat /\ ~(c * 10000 < 0)
        BY <1>2
    <2>2. PICK q, r \in Nat : (c * 10000) \div t = q /\ r < t /\ c * 10000 = t * q + r
        BY <2>1, WholeAndRest
    <2>3. Completion(c, t) = IF q < 0 THEN 0 ELSE IF q > 10000 THEN 10000 ELSE q
        BY <2>1, <2>2 DEF Completion
    <2>4. Completion(c, t) = IF q > 10000 THEN 10000 ELSE q
        BY <2>3
    <2>5. ASSUME q < 10000 PROVE c < t
        <3>1. t * q <= t * 9999
            BY <2>5
        <3>2. t * q \in Int
            OBVIOUS
        <3> QED BY <2>2, <3>1, <3>2
    <2>6. ASSUME q >= 10000 PROVE c >= t
        <3>1. t * 10000 <= t * q
            BY <2>6
        <3>2. t * q \in Int
            OBVIOUS
        <3> QED BY <2>2, <3>1, <3>2
    <2>7. Completion(c, t) = 10000 <=> c >= t
        BY <2>4, <2>5, <2>6
    <2>8. ASSUME c < t
          PROVE  /\ Completion(c, t) * t <= c * 10000
                 /\ c * 10000 < (Completion(c, t) + 1) * t
        <3>1. Completion(c, t) = q
            BY <2>4, <2>6, <2>8
        <3>2. q * t = t * q /\ (q + 1) * t = t * q + t /\ t * q \in Int
            OBVIOUS
        <3> QED BY <2>2, <3>1, <3>2
    <2> QED BY <2>7, <2>8
<1> QED BY <1>1, <1>2

\* The lines of the journal are finitely many.
LEMMA LinesFinite ==
    ASSUME JournalSound(entries)
    PROVE  IsFiniteSet(Lines)
<1>1. PICK f : f = [j \in DOMAIN entries |-> {j} \X DOMAIN entries[j].postings]
    OBVIOUS
<1>2. PICK T : T = {f[j] : j \in DOMAIN entries}
    OBVIOUS
<1>3. f \in Surjection(DOMAIN entries, T)
    BY <1>1, <1>2 DEF Surjection
<1>4. IsFiniteSet(T)
    BY <1>3, FS_Surjection DEF JournalSound
<1>5. ASSUME NEW t \in T PROVE IsFiniteSet(t)
    <2>1. PICK j \in DOMAIN entries : t = {j} \X DOMAIN entries[j].postings
        BY <1>1, <1>2
    <2>2. entries[j].postings \in Seq(Posting)
        BY DEF JournalSound, JournalRow
    <2>3. DOMAIN entries[j].postings = 1..Len(entries[j].postings)
          /\ Len(entries[j].postings) \in Nat
        BY <2>2
    <2>4. IsFiniteSet(DOMAIN entries[j].postings)
        BY <2>3, FS_Interval
    <2> QED BY <2>1, <2>4, FS_Singleton, FS_Product
<1>6. Lines = UNION T
    BY <1>1, <1>2 DEF Lines
<1> QED BY <1>4, <1>5, <1>6, FS_UNION

LEMMA LineTypes ==
    ASSUME JournalSound(entries), NEW l \in Lines
    PROVE  /\ l[1] \in DOMAIN entries /\ entries[l[1]] \in JournalRow
           /\ l[2] \in DOMAIN entries[l[1]].postings /\ l = <<l[1], l[2]>>
           /\ Line(l) \in Posting
<1>1. l[1] \in DOMAIN entries /\ l[2] \in DOMAIN entries[l[1]].postings /\ l = <<l[1], l[2]>>
    BY DEF Lines
<1>2. entries[l[1]] \in JournalRow /\ entries[l[1]].postings \in Seq(Posting)
    BY <1>1 DEF JournalSound, JournalRow
<1>3. Line(l) \in Posting
    BY <1>1, <1>2 DEF Line
<1> QED BY <1>1, <1>2, <1>3

\* Any set of lines has an integer for its total.
LEMMA TotalInt ==
    ASSUME JournalSound(entries), NEW S, S \subseteq Lines
    PROVE  /\ IsFiniteSet(S) /\ Total(S) \in Int /\ \A l \in S : Line(l).minor \in Int
<1>1. IsFiniteSet(S)
    BY LinesFinite, FS_Subset
<1>2. \A l \in S : Line(l).minor \in Int
    BY LineTypes DEF Posting
<1>3. PICK g : g = [l \in S |-> Line(l).minor]
    OBVIOUS
<1>4. \A l \in S : g[l] \in Int
    BY <1>2, <1>3
<1>5. Sum(g, S) \in Int /\ Total(S) = Sum(g, S)
    BY <1>1, <1>3, <1>4, SumInt, TotalIsSum
<1> QED BY <1>1, <1>2, <1>5

\* The lines of an account that count on a day
LinesOn(a, asOf) ==
    {l \in Lines : ~entries[l[1]].deleted /\ entries[l[1]].on <= asOf /\ Line(l).account = a}

\* The accounts that are listed then
Listed(asOf, kinds) ==
    {a \in Accounts : /\ Kind[a] \in kinds
                      /\ LinesOn(a, asOf) # {} \/ {l \in Lines : Line(l).account = a} = {}}

LEMMA BalancesAre ==
    ASSUME NEW asOf, NEW kinds
    PROVE  LET b == listAccountBalances(asOf, kinds)
           IN  /\ DOMAIN b = Listed(asOf, kinds)
               /\ \A a \in DOMAIN b : b[a] = Total(LinesOn(a, asOf))
<1>1. PICK counted : counted = {l \in Lines : ~entries[l[1]].deleted /\ entries[l[1]].on <= asOf}
    OBVIOUS
<1>2. \A a : {l \in counted : Line(l).account = a} = LinesOn(a, asOf)
    BY <1>1 DEF LinesOn
<1>3. PICK listed : listed = Listed(asOf, kinds)
    OBVIOUS
<1>4. listAccountBalances(asOf, kinds) = [a \in listed |-> Total(LinesOn(a, asOf))]
    BY <1>1, <1>2, <1>3 DEF listAccountBalances, Listed
<1> QED BY <1>3, <1>4

\* What accounts are worth together, once each of them has a value
LEMMA ValuedInt ==
    ASSUME rates \subseteq DOMAIN RateOf, NEW S, IsFiniteSet(S), NEW b,
           \A a \in S : b[a] \in Int /\ value(a, b[a]) # Unknown
    PROVE  /\ \A a \in S : value(a, b[a]) \in Int
           /\ SumValued(b, S) \in Int
<1>1. \A a \in S : value(a, b[a]) \in Int
    BY FinanceAssumption DEF value
<1>2. PICK g : g = [a \in S |-> value(a, b[a])]
    OBVIOUS
<1>3. \A a \in S : g[a] \in Int
    BY <1>1, <1>2
<1>4. Sum(g, S) \in Int /\ SumValued(b, S) = Sum(g, S)
    BY <1>2, <1>3, SumInt, SumValuedIsSum
<1> QED BY <1>1, <1>4

\* A goal shows 100 % exactly when it is complete, and otherwise the whole basis points
\* that have been reached, whatever the ledger, the accounts and the rates.
THEOREM CompletionsAreExact == ProjectionsSpec => []CompletionIsExact
<1>1. ASSUME ProjectionsInv, NEW g \in DOMAIN goals
      PROVE  LET p == GoalProgress(g)
                 target == goals[g].target
             IN  /\ p.completion = 10000 <=> p.status = "complete"
                 /\ p.status = "on-track" /\ p.current >= 0 =>
                      /\ p.completion * target <= p.current * 10000
                      /\ p.current * 10000 < (p.completion + 1) * target
    <2>1. PICK b : b = listAccountBalances(Today, {"asset", "liability", "income", "expense",
                                                   "equity"})
        OBVIOUS
    <2>2. PICK rows : rows = goals[g].linked \cap DOMAIN b
        OBVIOUS
    <2>3. PICK current : current = SumValued(b, rows)
        OBVIOUS
    <2>4. /\ JournalSound(entries) /\ rates \subseteq DOMAIN RateOf
          /\ goals[g].linked \subseteq Accounts /\ goals[g].target \in Nat \ {0}
        BY <1>1, FinanceAssumption DEF ProjectionsInv, GoalsSound, GoalRecord
    <2>5. IsFiniteSet(rows)
        BY <2>2, <2>4, AccountAssumption, FS_Subset
    <2>6. \A a \in rows : b[a] \in Int
        <3>1. \A a \in DOMAIN b : b[a] = Total(LinesOn(a, Today))
            BY <2>1, BalancesAre
        <3>2. \A a : LinesOn(a, Today) \subseteq Lines
            BY DEF LinesOn
        <3> QED BY <2>2, <2>4, <3>1, <3>2, TotalInt
    <2>7. GoalProgress(g) =
            IF \E a \in rows : value(a, b[a]) = Unknown \/ goals[g].currency # base
            THEN [current |-> 0, completion |-> 0, status |-> "missing-fx"]
            ELSE [current |-> current, completion |-> Completion(current, goals[g].target),
                  status |-> IF current >= goals[g].target THEN "complete" ELSE "on-track"]
        BY <2>1, <2>2, <2>3 DEF GoalProgress
    <2>8. CASE \E a \in rows : value(a, b[a]) = Unknown \/ goals[g].currency # base
        BY <2>7, <2>8
    <2>9. CASE ~ \E a \in rows : value(a, b[a]) = Unknown \/ goals[g].currency # base
        <3>1. current \in Int
            BY <2>3, <2>4, <2>5, <2>6, <2>9, ValuedInt
        <3>2. PICK t \in Nat \ {0} : t = goals[g].target
            BY <2>4
        <3>3. /\ Completion(current, t) = 10000 <=> current >= t
              /\ 0 <= current /\ current < t =>
                    /\ Completion(current, t) * t <= current * 10000
                    /\ current * 10000 < (Completion(current, t) + 1) * t
            BY <3>1, CompletionExact
        <3>4. /\ GoalProgress(g).current = current
              /\ GoalProgress(g).completion = Completion(current, t)
              /\ GoalProgress(g).status = IF current >= t THEN "complete" ELSE "on-track"
            BY <2>7, <2>9, <3>2
        <3> QED BY <3>1, <3>2, <3>3, <3>4
    <2> QED BY <2>8, <2>9
<1>2. ProjectionsInv => CompletionIsExact
    BY <1>1 DEF CompletionIsExact
<1> QED BY <1>2, ProjectionsInvariant, PTL

-----------------------------------------------------------------------------
(* Cash flow and net worth *)

LEMMA TotalEmpty == Total({}) = 0
<1>1. Total({}) = Sum([l \in {} |-> Line(l).minor], {})
    BY FS_EmptySet, TotalIsSum
<1> QED BY <1>1, FS_EmptySet, SumFirst

LEMMA TotalUnion ==
    ASSUME JournalSound(entries), NEW S, S \subseteq Lines, NEW T, T \subseteq Lines,
           S \cap T = {}
    PROVE  Total(S \cup T) = Total(S) + Total(T)
<1>1. PICK g, f, h : /\ g = [l \in S \cup T |-> Line(l).minor]
                     /\ f = [l \in S |-> Line(l).minor] /\ h = [l \in T |-> Line(l).minor]
    OBVIOUS
<1>2. IsFiniteSet(S) /\ IsFiniteSet(T) /\ IsFiniteSet(S \cup T)
    BY TotalInt, FS_Union
<1>3. \A l \in S \cup T : g[l] \in Int
    BY <1>1, TotalInt
<1>4. \A l \in S : g[l] = f[l]
    BY <1>1
<1>5. \A l \in T : g[l] = h[l]
    BY <1>1
<1>6. Sum(g, S) = Sum(f, S) /\ Sum(g, T) = Sum(h, T)
    BY <1>2, <1>4, <1>5, SumCongruence
<1>7. Sum(g, S \cup T) = Sum(g, S) + Sum(g, T)
    BY <1>2, <1>3, SumUnion
<1>8. Total(S) = Sum(f, S) /\ Total(T) = Sum(h, T) /\ Total(S \cup T) = Sum(g, S \cup T)
    BY <1>1, <1>2, TotalIsSum
<1> QED BY <1>6, <1>7, <1>8

\* A total may be taken account by account.
LEMMA TotalByAccount ==
    ASSUME JournalSound(entries), NEW S, S \subseteq Lines, NEW A, A \subseteq Accounts,
           \A l \in S : Line(l).account \in A,
           NEW h, \A a \in A : h[a] = Total({l \in S : Line(l).account = a})
    PROVE  Total(S) = Sum(h, A)
<1>1. PICK g, k : g = [l \in S |-> Line(l).minor] /\ k = [l \in S |-> Line(l).account]
    OBVIOUS
<1>2. IsFiniteSet(S) /\ IsFiniteSet(A) /\ \A l \in S : g[l] \in Int
    BY <1>1, TotalInt, AccountAssumption, FS_Subset
<1>3. \A l \in S : k[l] \in A
    BY <1>1
<1>4. ASSUME NEW a \in A PROVE h[a] = Sum(g, {l \in S : k[l] = a})
    <2>1. PICK T : T = {l \in S : Line(l).account = a}
        OBVIOUS
    <2>2. T \subseteq S /\ T = {l \in S : k[l] = a} /\ IsFiniteSet(T)
        BY <1>1, <1>2, <2>1, FS_Subset
    <2>3. PICK f : f = [l \in T |-> Line(l).minor]
        OBVIOUS
    <2>4. \A l \in T : f[l] = g[l]
        BY <1>1, <2>2, <2>3
    <2>5. Sum(f, T) = Sum(g, T)
        BY <2>2, <2>4, SumCongruence
    <2>6. Total(T) = Sum(f, T)
        BY <2>2, <2>3, TotalIsSum
    <2> QED BY <2>1, <2>2, <2>5, <2>6
<1>5. \A a \in A : h[a] = Sum(g, {l \in S : k[l] = a})
    BY <1>4
<1>6. \A l \in S : g[l] \in Int
    BY <1>2
<1>7. IsFiniteSet(S) /\ IsFiniteSet(A)
    BY <1>2
<1>8. Sum(g, S) = Sum(h, A)
    BY ONLY <1>3, <1>5, <1>6, <1>7, SumByGroup
<1> QED BY <1>1, <1>7, <1>8, TotalIsSum

\* The lines of one entry come to nothing, and so do those of any entries.
LEMMA EntryTotal ==
    ASSUME JournalSound(entries), NEW j \in DOMAIN entries
    PROVE  Total({l \in Lines : l[1] = j}) = 0
<1>1. PICK p : p = entries[j].postings
    OBVIOUS
<1>2. p \in Seq(Posting) /\ Balanced(p)
    BY <1>1 DEF JournalSound, JournalRow
<1>3. DOMAIN p = 1..Len(p) /\ Len(p) \in Nat
    BY <1>2
<1>4. PICK S : S = {l \in Lines : l[1] = j}
    OBVIOUS
<1>5. S \subseteq Lines
    BY <1>4
<1>6. IsFiniteSet(S) /\ IsFiniteSet(DOMAIN p)
    BY <1>3, <1>5, TotalInt, FS_Interval
<1>7. PICK g, r : g = [l \in S |-> Line(l).minor] /\ r = [l \in S |-> l[2]]
    OBVIOUS
<1>8. \A l \in S : l[1] = j /\ l[2] \in DOMAIN p /\ l = <<j, l[2]>>
    <2> SUFFICES ASSUME NEW l \in S
                 PROVE  l[1] = j /\ l[2] \in DOMAIN p /\ l = <<j, l[2]>>
        OBVIOUS
    <2>1. l \in Lines /\ l[1] = j
        BY <1>4
    <2> QED BY <1>1, <2>1, LineTypes
<1>9. r \in [S -> DOMAIN p]
    BY <1>7, <1>8
<1>10. \A x, y \in S : r[x] = r[y] => x = y
    BY <1>7, <1>8
<1>11. \A i \in DOMAIN p : \E x \in S : r[x] = i
    <2> SUFFICES ASSUME NEW i \in DOMAIN p PROVE <<j, i>> \in S /\ r[<<j, i>>] = i
        OBVIOUS
    <2>1. <<j, i>> \in {j} \X DOMAIN entries[j].postings
        BY <1>1
    <2>2. <<j, i>> \in Lines
        BY <2>1 DEF Lines
    <2> QED BY <1>4, <1>7, <2>2
<1>12. PICK h : h = Minors(p)
    OBVIOUS
<1>13. \A l \in S : g[l] \in Int /\ h[r[l]] = g[l]
    <2> SUFFICES ASSUME NEW l \in S PROVE g[l] \in Int /\ h[r[l]] = g[l]
        OBVIOUS
    <2>1. g[l] = p[l[2]].minor
        BY <1>1, <1>7, <1>8 DEF Line
    <2>2. h[r[l]] = p[l[2]].minor
        BY <1>7, <1>8, <1>12 DEF Minors
    <2>3. g[l] \in Int
        BY <1>5, <1>7, TotalInt
    <2> QED BY <2>1, <2>2, <2>3
<1>14. Sum(g, S) = Sum(h, DOMAIN p)
    BY <1>6, <1>9, <1>10, <1>11, <1>13, SumRenamed
<1>15. Sum(h, DOMAIN p) = 0
    BY <1>2, <1>12 DEF Balanced
<1>16. Total(S) = Sum(g, S)
    BY <1>6, <1>7, TotalIsSum
<1> QED BY <1>4, <1>14, <1>15, <1>16

LEMMA EntriesTotal ==
    ASSUME JournalSound(entries), NEW J, J \subseteq DOMAIN entries
    PROVE  Total({l \in Lines : l[1] \in J}) = 0
<1>1. PICK S : S = {l \in Lines : l[1] \in J}
    OBVIOUS
<1>2. PICK g, k, z : /\ g = [l \in S |-> Line(l).minor] /\ k = [l \in S |-> l[1]]
                     /\ z = [j \in J |-> 0]
    OBVIOUS
<1>3. S \subseteq Lines
    BY <1>1
<1>4. IsFiniteSet(S) /\ IsFiniteSet(J) /\ \A l \in S : g[l] \in Int
    BY <1>2, <1>3, TotalInt, FS_Subset DEF JournalSound
<1>5. \A l \in S : k[l] \in J
    BY <1>1, <1>2
<1>6. ASSUME NEW j \in J PROVE z[j] = Sum(g, {l \in S : k[l] = j})
    <2>1. PICK T : T = {l \in Lines : l[1] = j}
        OBVIOUS
    <2>2. T \subseteq S /\ T = {l \in S : k[l] = j} /\ IsFiniteSet(T)
        BY <1>1, <1>2, <1>4, <2>1, FS_Subset
    <2>3. PICK f : f = [l \in T |-> Line(l).minor]
        OBVIOUS
    <2>4. \A l \in T : f[l] = g[l]
        BY <1>2, <2>2, <2>3
    <2>5. Sum(f, T) = Sum(g, T)
        BY <2>2, <2>4, SumCongruence
    <2>6. Total(T) = Sum(f, T)
        BY <2>2, <2>3, TotalIsSum
    <2>7. Total(T) = 0
        BY <2>1, EntryTotal
    <2> QED BY <1>2, <2>2, <2>5, <2>6, <2>7
<1>7. Sum(g, S) = Sum(z, J)
    BY <1>4, <1>5, <1>6, SumByGroup
<1>8. Sum(z, J) = 0
    BY <1>2, <1>4, SumZero
<1> QED BY <1>1, <1>2, <1>4, <1>7, <1>8, TotalIsSum

\* Amounts of one sign add up the same without it.
LEMMA AbsoluteTotals ==
    ASSUME JournalSound(entries), NEW S, S \subseteq Lines
    PROVE  /\ (\A l \in S : Line(l).minor >= 0) => AbsoluteTotal(S) = Total(S)
           /\ (\A l \in S : Line(l).minor <= 0) => AbsoluteTotal(S) = -Total(S)
<1>1. PICK g, h : /\ g = [l \in S |-> Line(l).minor]
                  /\ h = [l \in S |-> Absolute(Line(l).minor)]
    OBVIOUS
<1>2. IsFiniteSet(S) /\ \A l \in S : g[l] \in Int
    BY <1>1, TotalInt
<1>3. Total(S) = Sum(g, S) /\ AbsoluteTotal(S) = Sum(h, S)
    BY <1>1, <1>2, TotalIsSum, AbsoluteTotalIsSum
<1>4. ASSUME \A l \in S : Line(l).minor >= 0 PROVE AbsoluteTotal(S) = Total(S)
    <2>1. \A l \in S : g[l] = h[l]
        BY <1>1, <1>2, <1>4 DEF Absolute
    <2> QED BY <1>2, <1>3, <2>1, SumCongruence
<1>5. ASSUME \A l \in S : Line(l).minor <= 0 PROVE AbsoluteTotal(S) = -Total(S)
    <2>1. \A l \in S : h[l] = -g[l]
        BY <1>1, <1>2, <1>5 DEF Absolute
    <2> QED BY <1>2, <1>3, <2>1, SumNegative
<1> QED BY <1>4, <1>5

\* What an account is worth on a day: nothing, before its first posting
Worth(asOf) ==
    [a \in Accounts |-> IF LinesOn(a, asOf) = {} THEN 0 ELSE value(a, Total(LinesOn(a, asOf)))]

LEMMA SomeWorth ==
    ASSUME JournalSound(entries), rates \subseteq DOMAIN RateOf, NEW asOf, NEW a \in Accounts,
           value(a, Total(LinesOn(a, asOf))) # Unknown
    PROVE  Worth(asOf)[a] = value(a, Total(LinesOn(a, asOf))) /\ Worth(asOf)[a] \in Int
<1>1. PICK S : S = LinesOn(a, asOf)
    OBVIOUS
<1>2. S \subseteq Lines
    BY <1>1 DEF LinesOn
<1>3. PICK x \in Int : x = Total(S)
    BY <1>2, TotalInt
<1>4. Worth(asOf)[a] = IF S = {} THEN 0 ELSE value(a, x)
    BY <1>1, <1>3 DEF Worth
<1>5. PICK pair : pair = <<Denomination[a], base>>
    OBVIOUS
<1>6. value(a, x) = IF Denomination[a] = base THEN x
                    ELSE IF pair \in rates THEN x * RateOf[pair] ELSE Unknown
    BY <1>5 DEF value
<1>7. value(a, x) # Unknown
    BY <1>1, <1>3
<1>8. S = {} => x = 0
    BY <1>3, TotalEmpty
<1>9. CASE Denomination[a] = base
    BY <1>1, <1>3, <1>4, <1>6, <1>8, <1>9
<1>10. CASE Denomination[a] # base
    <2>1. pair \in rates /\ value(a, x) = x * RateOf[pair]
        BY <1>6, <1>7, <1>10
    <2>2. PICK rate \in Nat : rate = RateOf[pair]
        BY <2>1, FinanceAssumption
    <2>3. x = 0 => x * rate = 0
        OBVIOUS
    <2>4. x * rate \in Int
        OBVIOUS
    <2> QED BY <1>1, <1>3, <1>4, <1>8, <2>1, <2>2, <2>3, <2>4
<1> QED BY <1>9, <1>10

\* The accounts that are listed are worth as much as all of their kind.
LEMMA WorthOfKind ==
    ASSUME JournalSound(entries), rates \subseteq DOMAIN RateOf, NEW asOf,
           NEW rows, rows \subseteq Accounts, NEW kind,
           \A a \in OfKind(kind) : a \in rows \/ LinesOn(a, asOf) = {},
           \A a \in rows : value(a, Total(LinesOn(a, asOf))) # Unknown,
           NEW b, \A a \in rows : b[a] = Total(LinesOn(a, asOf))
    PROVE  /\ SumValued(b, rows \cap OfKind(kind)) = Sum(Worth(asOf), OfKind(kind))
           /\ \A a \in OfKind(kind) : Worth(asOf)[a] \in Int
<1>1. PICK S, R, w : /\ S = rows \cap OfKind(kind) /\ R = OfKind(kind) \ rows
                     /\ w = Worth(asOf)
    OBVIOUS
<1>2. /\ OfKind(kind) \subseteq Accounts /\ S \subseteq Accounts /\ R \subseteq Accounts
      /\ OfKind(kind) = S \cup R /\ S \cap R = {}
    BY <1>1 DEF OfKind
<1>3. IsFiniteSet(S) /\ IsFiniteSet(R)
    BY <1>2, AccountAssumption, FS_Subset
<1>4. \A a \in S : w[a] = value(a, b[a]) /\ w[a] \in Int
    <2> SUFFICES ASSUME NEW a \in S PROVE w[a] = value(a, b[a]) /\ w[a] \in Int
        OBVIOUS
    <2>1. a \in rows /\ a \in Accounts
        BY <1>1
    <2>2. b[a] = Total(LinesOn(a, asOf)) /\ value(a, Total(LinesOn(a, asOf))) # Unknown
        BY <2>1
    <2>3. Worth(asOf)[a] = value(a, Total(LinesOn(a, asOf))) /\ Worth(asOf)[a] \in Int
        BY <2>1, <2>2, SomeWorth
    <2> QED BY <1>1, <2>2, <2>3
<1>5. \A a \in R : w[a] = 0
    <2> SUFFICES ASSUME NEW a \in R PROVE w[a] = 0
        OBVIOUS
    <2>1. a \in Accounts /\ LinesOn(a, asOf) = {}
        BY <1>1, <1>2
    <2> QED BY <1>1, <2>1 DEF Worth
<1>6. PICK g : g = [a \in S |-> value(a, b[a])]
    OBVIOUS
<1>7. \A a \in S : g[a] = w[a]
    BY <1>4, <1>6
<1>8. Sum(g, S) = Sum(w, S)
    BY <1>3, <1>7, SumCongruence
<1>9. Sum(w, R) = 0 /\ Sum(w, S) \in Int
    BY <1>3, <1>4, <1>5, SumZero, SumInt
<1>10. \A a \in S \cup R : w[a] \in Int
    BY <1>4, <1>5
<1>11. Sum(w, S \cup R) = Sum(w, S) + Sum(w, R)
    BY <1>2, <1>3, <1>10, SumUnion
<1>12. SumValued(b, S) = Sum(g, S)
    BY <1>3, <1>6, SumValuedIsSum
<1>13. Sum(w, S \cup R) = SumValued(b, S)
    BY <1>8, <1>9, <1>11, <1>12
<1> QED BY <1>1, <1>2, <1>10, <1>13

LEMMA NetWorthIs ==
    ASSUME JournalSound(entries), rates \subseteq DOMAIN RateOf, NEW asOf,
           netWorth(asOf) # Unknown
    PROVE  /\ netWorth(asOf) = Sum(Worth(asOf), OfKind("asset"))
                                 - Sum(Worth(asOf), OfKind("liability"))
           /\ \A a \in OfKind("asset") \cup OfKind("liability") : Worth(asOf)[a] \in Int
<1>1. PICK b : b = listAccountBalances(asOf, {"asset", "liability"})
    OBVIOUS
<1>2. PICK rows : rows = DOMAIN b
    OBVIOUS
<1>3. /\ rows = Listed(asOf, {"asset", "liability"})
      /\ \A a \in rows : b[a] = Total(LinesOn(a, asOf))
    BY <1>1, <1>2, BalancesAre
<1>4. netWorth(asOf) = IF \E a \in rows : value(a, b[a]) = Unknown THEN Unknown
                       ELSE SumValued(b, rows \cap OfKind("asset"))
                              - SumValued(b, rows \cap OfKind("liability"))
    BY <1>1, <1>2 DEF netWorth
<1>5. \A a \in rows : value(a, Total(LinesOn(a, asOf))) # Unknown
    BY <1>3, <1>4
<1>6. netWorth(asOf) = SumValued(b, rows \cap OfKind("asset"))
                         - SumValued(b, rows \cap OfKind("liability"))
    BY <1>4
<1>7. rows \subseteq Accounts /\ \A a \in rows : b[a] = Total(LinesOn(a, asOf))
    BY <1>3 DEF Listed
<1>8. \A a \in OfKind("asset") \cup OfKind("liability") : a \in rows \/ LinesOn(a, asOf) = {}
    BY <1>3 DEF OfKind, Listed, LinesOn
<1>9. /\ SumValued(b, rows \cap OfKind("asset")) = Sum(Worth(asOf), OfKind("asset"))
      /\ \A a \in OfKind("asset") : Worth(asOf)[a] \in Int
    BY <1>5, <1>7, <1>8, WorthOfKind
<1>10. /\ SumValued(b, rows \cap OfKind("liability")) = Sum(Worth(asOf), OfKind("liability"))
       /\ \A a \in OfKind("liability") : Worth(asOf)[a] \in Int
    BY <1>5, <1>7, <1>8, WorthOfKind
<1> QED BY <1>6, <1>9, <1>10

\* The lines that count of the days from lo on that are before hi
Within(lo, hi) ==
    {l \in Lines : /\ ~entries[l[1]].deleted
                   /\ lo <= entries[l[1]].on /\ entries[l[1]].on < hi}

\* The month's lines of an account are what its lines grow by in the month.
LEMMA MonthOfAccount ==
    ASSUME JournalSound(entries), NEW a, NEW lo \in Int, NEW hi \in Int, lo <= hi,
           NEW mine, mine = Within(lo, hi)
    PROVE  LET own == {l \in mine : Line(l).account = a}
           IN  /\ LinesOn(a, hi - 1) = LinesOn(a, lo - 1) \cup own
               /\ LinesOn(a, lo - 1) \cap own = {}
<1>1. \A l \in Lines : entries[l[1]].on \in Int
    <2> SUFFICES ASSUME NEW l \in Lines PROVE entries[l[1]].on \in Int
        OBVIOUS
    <2>1. entries[l[1]].on \in Dates
        BY LineTypes DEF JournalRow
    <2> QED BY <2>1, CalendarAssumption DEF Dates
<1>2. \A l \in Lines : /\ entries[l[1]].on <= hi - 1 <=> entries[l[1]].on < hi
                       /\ entries[l[1]].on <= lo - 1 <=> ~(lo <= entries[l[1]].on)
                       /\ ~(lo <= entries[l[1]].on) => entries[l[1]].on < hi
    BY <1>1
<1> QED BY <1>2 DEF LinesOn, Within

\* Net worth grows by the month's totals of the assets, once no other account than an asset
\* or a category has a line in it and each is in the base currency.
LEMMA NetWorthMoves ==
    ASSUME JournalSound(entries), rates \subseteq DOMAIN RateOf,
           NEW lo \in Int, NEW hi \in Int, lo <= hi,
           netWorth(lo - 1) # Unknown, netWorth(hi - 1) # Unknown,
           NEW mine, mine = Within(lo, hi),
           \A l \in mine : /\ Denomination[Line(l).account] = base
                           /\ Kind[Line(l).account] \in {"asset", "expense", "income"}
    PROVE  /\ netWorth(hi - 1) \in Int /\ netWorth(lo - 1) \in Int
           /\ netWorth(hi - 1) - netWorth(lo - 1)
                = Total({l \in mine : Kind[Line(l).account] = "asset"})
<1>1. PICK A, L, v, w : /\ A = OfKind("asset") /\ L = OfKind("liability")
                        /\ v = Worth(lo - 1) /\ w = Worth(hi - 1)
    OBVIOUS
<1>2. PICK t : t = [a \in Accounts |-> Total({l \in mine : Line(l).account = a})]
    OBVIOUS
<1>3. A \subseteq Accounts /\ L \subseteq Accounts /\ IsFiniteSet(A) /\ IsFiniteSet(L)
    BY <1>1, AccountAssumption, FS_Subset DEF OfKind
<1>4. /\ netWorth(lo - 1) = Sum(v, A) - Sum(v, L)
      /\ \A a \in A \cup L : v[a] \in Int
    BY <1>1, NetWorthIs
<1>5. /\ netWorth(hi - 1) = Sum(w, A) - Sum(w, L)
      /\ \A a \in A \cup L : w[a] \in Int
    BY <1>1, NetWorthIs
<1>6. mine \subseteq Lines
    BY DEF Within
<1>7. ASSUME NEW a \in A \cup L
      PROVE  t[a] \in Int /\ w[a] = v[a] + t[a]
    <2>1. PICK own, old : /\ own = {l \in mine : Line(l).account = a}
                          /\ old = LinesOn(a, lo - 1)
        OBVIOUS
    <2>2. LinesOn(a, hi - 1) = old \cup own /\ old \cap own = {}
        BY <2>1, MonthOfAccount
    <2>3. a \in Accounts /\ v[a] \in Int
        BY <1>3, <1>4
    <2>4. own \subseteq Lines /\ old \subseteq Lines
        BY <1>6, <2>1 DEF LinesOn
    <2>5. Total(own) \in Int /\ Total(old) \in Int /\ Total(old \cup own) = Total(old) + Total(own)
        BY <2>2, <2>4, TotalInt, TotalUnion
    <2>6. t[a] = Total(own)
        BY <1>2, <2>1, <2>3
    <2>7. /\ v[a] = IF old = {} THEN 0 ELSE value(a, Total(old))
          /\ w[a] = IF old \cup own = {} THEN 0 ELSE value(a, Total(old \cup own))
        BY <1>1, <2>1, <2>2, <2>3 DEF Worth
    <2>8. CASE own = {}
        <3>1. t[a] = 0 /\ w[a] = v[a]
            BY <2>6, <2>7, <2>8, TotalEmpty
        <3> QED BY <2>3, <3>1
    <2>9. CASE own # {}
        <3>1. Denomination[a] = base
            BY <2>1, <2>9
        <3>2. \A x : value(a, x) = x
            BY <3>1 DEF value
        <3>3. w[a] = Total(old \cup own)
            BY <2>7, <2>9, <3>2
        <3>4. v[a] = Total(old)
            BY <2>7, <3>2, TotalEmpty
        <3> QED BY <2>5, <2>6, <3>3, <3>4
    <2> QED BY <2>8, <2>9
<1>8. \A a \in A : v[a] \in Int /\ t[a] \in Int /\ w[a] = v[a] + t[a]
    BY <1>4, <1>7
<1>9. \A a \in L : v[a] \in Int /\ t[a] \in Int /\ w[a] = v[a] + t[a]
    BY <1>4, <1>7
<1>10. Sum(w, A) = Sum(v, A) + Sum(t, A)
    BY <1>3, <1>8, SumAdd
<1>11. Sum(w, L) = Sum(v, L) + Sum(t, L)
    BY <1>3, <1>9, SumAdd
<1>12. \A a \in L : t[a] = 0
    <2> SUFFICES ASSUME NEW a \in L PROVE t[a] = 0
        OBVIOUS
    <2>1. a \in Accounts /\ Kind[a] = "liability"
        BY <1>1 DEF OfKind
    <2>2. {l \in mine : Line(l).account = a} = {}
        BY <2>1
    <2> QED BY <1>2, <2>1, <2>2, TotalEmpty
<1>13. Sum(t, L) = 0
    BY <1>3, <1>12, SumZero
<1>14. Sum(v, A) \in Int /\ Sum(t, A) \in Int /\ Sum(v, L) \in Int
    BY <1>3, <1>8, <1>9, SumInt
<1>15. PICK S : S = {l \in mine : Kind[Line(l).account] = "asset"}
    OBVIOUS
<1>16. S \subseteq Lines /\ \A l \in S : Line(l).account \in A
    <2>1. S \subseteq Lines
        BY <1>6, <1>15
    <2>2. \A l \in Lines : Line(l).account \in Accounts
        BY LineTypes DEF Posting
    <2> QED BY <1>1, <1>15, <2>1, <2>2 DEF OfKind
<1>17. \A a \in A : t[a] = Total({l \in S : Line(l).account = a})
    <2> SUFFICES ASSUME NEW a \in A PROVE t[a] = Total({l \in S : Line(l).account = a})
        OBVIOUS
    <2>1. a \in Accounts /\ Kind[a] = "asset"
        BY <1>1 DEF OfKind
    <2>2. {l \in mine : Line(l).account = a} = {l \in S : Line(l).account = a}
        BY <1>15, <2>1
    <2> QED BY <1>2, <2>1, <2>2
<1>18. Total(S) = Sum(t, A)
    BY <1>3, <1>16, <1>17, TotalByAccount
<1>19. \A u, x, z \in Int : /\ ((u + x) - (z + 0)) - (u - z) = x
                            /\ (u + x) - (z + 0) \in Int /\ u - z \in Int
    OBVIOUS
<1>20. netWorth(hi - 1) = (Sum(v, A) + Sum(t, A)) - (Sum(v, L) + 0)
    BY <1>5, <1>10, <1>11, <1>13
<1> QED BY <1>4, <1>14, <1>15, <1>18, <1>19, <1>20

\* What a month's journals leave on the assets, those of transfers aside, is its cash flow.
LEMMA CashFlowIs ==
    ASSUME JournalSound(entries), NEW m,
           NEW mine, mine = {l \in Lines : ~entries[l[1]].deleted /\ InMonth(entries[l[1]].on, m)},
           NEW rest, rest = {l \in mine : entries[l[1]].link = NoTransfer},
           \A l \in mine : /\ Regular(l) /\ Denomination[Line(l).account] = base
                           /\ Kind[Line(l).account] \in {"asset", "expense", "income"}
    PROVE  /\ sumCashFlow(m).income \in Int /\ sumCashFlow(m).expense \in Int
           /\ Total({l \in rest : Kind[Line(l).account] = "asset"})
                = sumCashFlow(m).income - sumCashFlow(m).expense
<1>1. PICK A, E, I : /\ A = {l \in rest : Kind[Line(l).account] = "asset"}
                     /\ E = {l \in rest : Kind[Line(l).account] = "expense"}
                     /\ I = {l \in rest : Kind[Line(l).account] = "income"}
    OBVIOUS
<1>2. rest \subseteq Lines /\ A \subseteq Lines /\ E \subseteq Lines /\ I \subseteq Lines
    BY <1>1
<1>3. rest = A \cup (E \cup I) /\ A \cap (E \cup I) = {} /\ E \cap I = {} /\ E \cup I \subseteq Lines
    BY <1>1, <1>2
<1>4. \A l \in Lines : Line(l).account \in Accounts
    BY LineTypes DEF Posting
<1>5. sumCashFlow(m).expense = AbsoluteTotal(E)
    <2>1. E = {l \in Lines : LET e == entries[l[1]]
                                 a == Line(l).account
                             IN  /\ ~e.deleted /\ InMonth(e.on, m)
                                 /\ a \in OfKind("expense") /\ Denomination[a] = base
                                 /\ TRUE => e.link = NoTransfer}
        BY <1>1, <1>4 DEF OfKind
    <2> QED BY <2>1 DEF sumCashFlow, sumExpenseOrIncome
<1>6. sumCashFlow(m).income = AbsoluteTotal(I)
    <2>1. I = {l \in Lines : LET e == entries[l[1]]
                                 a == Line(l).account
                             IN  /\ ~e.deleted /\ InMonth(e.on, m)
                                 /\ a \in OfKind("income") /\ Denomination[a] = base
                                 /\ TRUE => e.link = NoTransfer}
        BY <1>1, <1>4 DEF OfKind
    <2> QED BY <2>1 DEF sumCashFlow, sumExpenseOrIncome
<1>7. AbsoluteTotal(E) = Total(E)
    <2>1. \A l \in E : Line(l).minor >= 0
        BY <1>1 DEF Regular
    <2> QED BY <1>2, <2>1, AbsoluteTotals
<1>8. AbsoluteTotal(I) = -Total(I)
    <2>1. \A l \in I : Line(l).minor <= 0
        BY <1>1 DEF Regular
    <2> QED BY <1>2, <2>1, AbsoluteTotals
<1>9. Total(rest) = 0
    <2>1. PICK J : J = {j \in DOMAIN entries : /\ ~entries[j].deleted /\ InMonth(entries[j].on, m)
                                               /\ entries[j].link = NoTransfer}
        OBVIOUS
    <2>2. \A l \in Lines : l[1] \in DOMAIN entries
        BY LineTypes
    <2>3. rest = {l \in Lines : l[1] \in J}
        BY <2>1, <2>2
    <2>4. J \subseteq DOMAIN entries
        BY <2>1
    <2> QED BY <2>3, <2>4, EntriesTotal
<1>10. Total(rest) = Total(A) + Total(E \cup I) /\ Total(E \cup I) = Total(E) + Total(I)
    BY <1>2, <1>3, TotalUnion
<1>11. Total(A) \in Int /\ Total(E) \in Int /\ Total(I) \in Int
    BY <1>2, TotalInt
<1>12. \A x, y, z \in Int : x + (y + z) = 0 => x = (-z) - y
    OBVIOUS
<1>13. Total(A) + (Total(E) + Total(I)) = 0
    BY <1>9, <1>10
<1>14. Total(A) = (-Total(I)) - Total(E)
    BY <1>11, <1>12, <1>13
<1>15. -Total(I) \in Int
    BY <1>11
<1> QED BY <1>1, <1>5, <1>6, <1>7, <1>8, <1>11, <1>14, <1>15

\* Over a month net worth changes by the cash flow and by what the month's transfers leave on
\* the assets, whatever the entries, the accounts and the rates.
THEOREM CashFlowsAreMovements == ProjectionsSpec => []CashFlowIsMovement
<1>1. ASSUME ProjectionsInv, NEW m \in Months
      PROVE  LET mine == {l \in Lines : ~entries[l[1]].deleted /\ InMonth(entries[l[1]].on, m)}
                 transfers == {l \in mine : entries[l[1]].link # NoTransfer}
                 assets == {l \in transfers : Kind[Line(l).account] = "asset"}
                 before == netWorth(m * DaysInMonth - 1)
                 after == netWorth((m + 1) * DaysInMonth - 1)
                 cash == sumCashFlow(m)
             IN  /\ \A l \in mine : /\ Regular(l) /\ Denomination[Line(l).account] = base
                                    /\ Kind[Line(l).account] \in {"asset", "expense", "income"}
                 /\ before # Unknown /\ after # Unknown
                 => after - before = cash.income - cash.expense + Total(assets)
    <2>1. JournalSound(entries) /\ rates \subseteq DOMAIN RateOf
        BY <1>1 DEF ProjectionsInv
    <2>2. PICK mine :
            mine = {l \in Lines : ~entries[l[1]].deleted /\ InMonth(entries[l[1]].on, m)}
        OBVIOUS
    <2>3. PICK transfers : transfers = {l \in mine : entries[l[1]].link # NoTransfer}
        OBVIOUS
    <2>4. PICK before, after : /\ before = netWorth(m * DaysInMonth - 1)
                               /\ after = netWorth((m + 1) * DaysInMonth - 1)
        OBVIOUS
    <2>5. /\ \A l \in mine : /\ Regular(l) /\ Denomination[Line(l).account] = base
                             /\ Kind[Line(l).account] \in {"asset", "expense", "income"}
          /\ before # Unknown /\ after # Unknown
          => after - before = sumCashFlow(m).income - sumCashFlow(m).expense
                                + Total({l \in transfers : Kind[Line(l).account] = "asset"})
        <3> SUFFICES ASSUME /\ \A l \in mine : /\ Regular(l) /\ Denomination[Line(l).account] = base
                                              /\ Kind[Line(l).account] \in {"asset", "expense", "income"}
                            /\ before # Unknown /\ after # Unknown
                     PROVE  after - before = sumCashFlow(m).income - sumCashFlow(m).expense
                               + Total({l \in transfers : Kind[Line(l).account] = "asset"})
            OBVIOUS
        <3>0. /\ \A l \in mine : /\ Regular(l) /\ Denomination[Line(l).account] = base
                                  /\ Kind[Line(l).account] \in {"asset", "expense", "income"}
              /\ before # Unknown /\ after # Unknown
            OBVIOUS
        <3>1. PICK lo, hi : lo = m * DaysInMonth /\ hi = (m + 1) * DaysInMonth
            OBVIOUS
        <3>2. lo \in Int /\ hi \in Int /\ lo <= hi
            <4>1. m \in Nat /\ DaysInMonth \in Nat
                BY CalendarAssumption
            <4>2. \A x, d \in Nat : x * d \in Int /\ (x + 1) * d = x * d + d
                OBVIOUS
            <4>3. hi = lo + DaysInMonth /\ lo \in Int
                BY <3>1, <4>1, <4>2
            <4> QED BY <4>1, <4>3
        <3>3. mine = Within(lo, hi)
            BY <2>2, <3>1 DEF InMonth, monthBounds, Within
        <3>4. before = netWorth(lo - 1) /\ after = netWorth(hi - 1)
            BY <2>4, <3>1
        <3>5. netWorth(lo - 1) # Unknown /\ netWorth(hi - 1) # Unknown
            BY <3>0, <3>4
        <3>6. \A l \in mine : /\ Denomination[Line(l).account] = base
                              /\ Kind[Line(l).account] \in {"asset", "expense", "income"}
            BY <3>0
        <3>7. PICK S : S = {l \in mine : Kind[Line(l).account] = "asset"}
            OBVIOUS
        <3>8. after - before = Total(S)
            <4>1. netWorth(hi - 1) - netWorth(lo - 1) = Total(S)
                BY ONLY <2>1, <3>2, <3>3, <3>5, <3>6, <3>7, NetWorthMoves
            <4> QED BY <3>4, <4>1
        <3>9. PICK rest : rest = {l \in mine : entries[l[1]].link = NoTransfer}
            OBVIOUS
        <3>10. PICK R, T : /\ R = {l \in rest : Kind[Line(l).account] = "asset"}
                           /\ T = {l \in transfers : Kind[Line(l).account] = "asset"}
            OBVIOUS
        <3>11. /\ sumCashFlow(m).income \in Int /\ sumCashFlow(m).expense \in Int
               /\ Total(R) = sumCashFlow(m).income - sumCashFlow(m).expense
            BY <2>1, <2>2, <3>0, <3>9, <3>10, CashFlowIs
        <3>12. S = R \cup T /\ R \cap T = {} /\ R \subseteq Lines /\ T \subseteq Lines
            BY <2>2, <2>3, <3>7, <3>9, <3>10
        <3>13. Total(S) = Total(R) + Total(T)
            BY <2>1, <3>12, TotalUnion
        <3> QED BY <3>8, <3>10, <3>11, <3>13
    <2> QED BY <2>2, <2>3, <2>4, <2>5
<1>2. ProjectionsInv => CashFlowIsMovement
    BY <1>1 DEF CashFlowIsMovement
<1> QED BY <1>2, ProjectionsInvariant, PTL

=============================================================================

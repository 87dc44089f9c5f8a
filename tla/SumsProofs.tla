----------------------------- MODULE SumsProofs -----------------------------
(***************************************************************************)
(* What the sum of a column is worth when a row comes, goes or changes.    *)
(***************************************************************************)
EXTENDS Sums, FiniteSetTheorems, TLAPS

\* The units of one row of v: v of them, or none when v is negative.
LEMMA UnitsOfRow ==
  ASSUME NEW r, NEW v \in Int
  PROVE  /\ IsFiniteSet({r} \X (1 .. v))
         /\ Cardinality({r} \X (1 .. v)) = IF v > 0 THEN v ELSE 0
<1>1. IsFiniteSet({r}) /\ Cardinality({r}) = 1
  BY FS_Singleton
<1>2. IsFiniteSet(1 .. v) /\ Cardinality(1 .. v) = IF v > 0 THEN v ELSE 0
  BY FS_Interval
<1>3. /\ IsFiniteSet({r} \X (1 .. v))
      /\ Cardinality({r} \X (1 .. v)) = Cardinality({r}) * Cardinality(1 .. v)
  BY <1>1, <1>2, FS_Product
<1>4. Cardinality({r} \X (1 .. v)) = Cardinality(1 .. v)
  <2>1. \A m, n \in Nat : m = 1 => m * n = n
    OBVIOUS
  <2>. QED BY <1>1, <1>2, <1>3, <2>1, FS_CardinalityType
<1>. QED BY <1>2, <1>3, <1>4

\* A table with finitely many rows has finitely many units.
LEMMA UnitsFinite ==
  ASSUME NEW S, IsFiniteSet(S), NEW f \in [S -> Int]
  PROVE  IsFiniteSet(Units(f))
<1> DEFINE g == [r \in S |-> {r} \X (1 .. f[r])]
           T == {g[r] : r \in S}
<1>1. g \in Surjection(S, T)
  <2>1. g \in [S -> T]
    OBVIOUS
  <2>2. \A U \in T : \E x \in S : g[x] = U
    OBVIOUS
  <2>. QED BY <2>1, <2>2 DEF Surjection
<1>2. IsFiniteSet(T)
  BY <1>1, FS_Surjection
<1>3. ASSUME NEW U \in T PROVE IsFiniteSet(U)
  <2>1. PICK r \in S : U = {r} \X (1 .. f[r])
    OBVIOUS
  <2>. QED BY <2>1, UnitsOfRow
<1>4. Units(f) = UNION T
  BY DEF Units
<1>. QED BY <1>2, <1>3, <1>4, FS_UNION

\* A row more brings its own units and no others.
LEMMA UnitsOfOneMore ==
  ASSUME NEW S, IsFiniteSet(S), NEW f \in [S -> Int],
         NEW r, r \notin S, NEW v \in Int,
         NEW g, g = [x \in S \cup {r} |-> IF x = r THEN v ELSE f[x]]
  PROVE  Cardinality(Units(g)) = Cardinality(Units(f)) + IF v > 0 THEN v ELSE 0
<1> DEFINE R == {r} \X (1 .. v)
<1>1. Units(g) = Units(f) \cup R
  BY DEF Units
<1>2. Units(f) \cap R = {}
  BY DEF Units
<1>3. IsFiniteSet(Units(f)) /\ IsFiniteSet(R)
  BY UnitsFinite, UnitsOfRow
<1>4. Cardinality(Units(f) \cap R) = 0
  BY <1>2, FS_EmptySet
<1>5. Cardinality(Units(f)) \in Nat /\ Cardinality(R) \in Nat
  BY <1>3, FS_CardinalityType
<1>6. Cardinality(Units(f) \cup R) = Cardinality(Units(f)) + Cardinality(R) - 0
  BY <1>3, <1>4, FS_Union
<1>7. Cardinality(R) = IF v > 0 THEN v ELSE 0
  BY UnitsOfRow
<1>8. Cardinality(Units(g)) = Cardinality(Units(f)) + Cardinality(R)
  <2>. HIDE DEF R
  <2>1. Cardinality(Units(g)) = Cardinality(Units(f)) + Cardinality(R) - 0
    BY <1>1, <1>6
  <2>. QED BY <2>1, <1>5
<1>. QED BY <1>7, <1>8

\* The sum of a column of integers is an integer.
LEMMA SumType ==
  ASSUME NEW S, IsFiniteSet(S), NEW f \in [S -> Int]
  PROVE  SumOf(f) \in Int
<1>1. Negated(f) \in [S -> Int]
  BY DEF Negated
<1>2. IsFiniteSet(Units(f)) /\ IsFiniteSet(Units(Negated(f)))
  BY <1>1, UnitsFinite
<1>. QED BY <1>2, FS_CardinalityType DEF SumOf

\* The sum of no rows is zero.
LEMMA SumOfNone ==
  ASSUME NEW f, DOMAIN f = {}
  PROVE  SumOf(f) = 0
<1>1. Units(f) = {} /\ Units(Negated(f)) = {}
  BY DEF Units, Negated
<1>. QED BY <1>1, FS_EmptySet DEF SumOf

\* Inserting a row adds its amount.
LEMMA SumInsert ==
  ASSUME NEW S, IsFiniteSet(S), NEW f \in [S -> Int],
         NEW r, r \notin S, NEW v \in Int,
         NEW g, g = [x \in S \cup {r} |-> IF x = r THEN v ELSE f[x]]
  PROVE  SumOf(g) = SumOf(f) + v
<1>1. Cardinality(Units(g)) = Cardinality(Units(f)) + IF v > 0 THEN v ELSE 0
  BY UnitsOfOneMore
<1>2. /\ Negated(f) \in [S -> Int]
      /\ Negated(g) = [x \in S \cup {r} |-> IF x = r THEN -v ELSE Negated(f)[x]]
  BY DEF Negated
<1>3. Cardinality(Units(Negated(g))) =
        Cardinality(Units(Negated(f))) + IF -v > 0 THEN -v ELSE 0
  BY <1>2, UnitsOfOneMore
<1>4. /\ Cardinality(Units(f)) \in Nat
      /\ Cardinality(Units(Negated(f))) \in Nat
  BY <1>2, UnitsFinite, FS_CardinalityType
<1>. QED BY <1>1, <1>3, <1>4 DEF SumOf

\* Deleting a row takes its amount away.
LEMMA SumDelete ==
  ASSUME NEW S, IsFiniteSet(S), NEW f \in [S -> Int], NEW r \in S
  PROVE  SumOf([x \in S \ {r} |-> f[x]]) = SumOf(f) - f[r]
<1> DEFINE h == [x \in S \ {r} |-> f[x]]
<1>1. IsFiniteSet(S \ {r}) /\ h \in [S \ {r} -> Int] /\ r \notin S \ {r}
  BY FS_RemoveElement
<1>2. f = [x \in (S \ {r}) \cup {r} |-> IF x = r THEN f[r] ELSE h[x]]
  <2>1. (S \ {r}) \cup {r} = S
    OBVIOUS
  <2>2. \A x \in S : f[x] = IF x = r THEN f[r] ELSE h[x]
    OBVIOUS
  <2>. QED BY <2>1, <2>2
<1>3. SumOf(f) = SumOf(h) + f[r]
  <2>. HIDE DEF h
  <2>1. f[r] \in Int
    OBVIOUS
  <2>. QED BY <1>1, <1>2, <2>1, SumInsert
<1>. QED BY <1>1, <1>3, SumType

\* Changing a row's amount shifts the sum by the change.
LEMMA SumUpdate ==
  ASSUME NEW S, IsFiniteSet(S), NEW f \in [S -> Int], NEW r \in S, NEW v \in Int
  PROVE  SumOf([f EXCEPT ![r] = v]) = SumOf(f) - f[r] + v
<1> DEFINE h == [x \in S \ {r} |-> f[x]]
<1>1. IsFiniteSet(S \ {r}) /\ h \in [S \ {r} -> Int] /\ r \notin S \ {r}
  BY FS_RemoveElement
<1>2. [f EXCEPT ![r] = v] = [x \in (S \ {r}) \cup {r} |-> IF x = r THEN v ELSE h[x]]
  <2>1. (S \ {r}) \cup {r} = S
    OBVIOUS
  <2>2. \A x \in S : [f EXCEPT ![r] = v][x] = IF x = r THEN v ELSE h[x]
    OBVIOUS
  <2>. QED BY <2>1, <2>2
<1>3. SumOf([f EXCEPT ![r] = v]) = SumOf(h) + v
  BY <1>1, <1>2, SumInsert
<1>4. SumOf(h) = SumOf(f) - f[r]
  BY SumDelete
<1>. QED BY <1>3, <1>4

\* The sum of a single row.
LEMMA SumOfOne ==
  ASSUME NEW r, NEW f \in [{r} -> Int]
  PROVE  SumOf(f) = f[r]
<1>1. IsFiniteSet({r}) /\ r \in {r} /\ f[r] \in Int
  BY FS_Singleton
<1>2. SumOf([x \in {r} \ {r} |-> f[x]]) = SumOf(f) - f[r]
  BY <1>1, SumDelete
<1>3. SumOf([x \in {r} \ {r} |-> f[x]]) = 0
  BY SumOfNone
<1>4. SumOf(f) \in Int
  BY <1>1, SumType
<1>. QED BY <1>1, <1>2, <1>3, <1>4

\* Units of a smaller table are units of a larger one.
LEMMA SumMonotone ==
  ASSUME NEW S, IsFiniteSet(S), NEW f \in [S -> Nat], NEW g \in [S -> Nat],
         \A x \in S : f[x] <= g[x]
  PROVE  SumOf(f) \in Nat /\ SumOf(g) \in Nat /\ SumOf(f) <= SumOf(g)
<1>1. f \in [S -> Int] /\ g \in [S -> Int]
  OBVIOUS
<1>2. Units(f) \subseteq Units(g)
  <2>1. \A x \in S : 1 .. f[x] \subseteq 1 .. g[x]
    OBVIOUS
  <2>. QED BY <2>1 DEF Units
<1>3. IsFiniteSet(Units(f)) /\ IsFiniteSet(Units(g))
  BY <1>1, UnitsFinite
<1>4. Cardinality(Units(f)) <= Cardinality(Units(g))
  BY <1>2, <1>3, FS_Subset
<1>5. Units(Negated(f)) = {} /\ Units(Negated(g)) = {}
  <2>1. \A x \in S : 1 .. -f[x] = {} /\ 1 .. -g[x] = {}
    OBVIOUS
  <2>. QED BY <2>1 DEF Units, Negated
<1>6. Cardinality(Units(f)) \in Nat /\ Cardinality(Units(g)) \in Nat
  BY <1>3, FS_CardinalityType
<1>. QED BY <1>4, <1>5, <1>6, FS_EmptySet DEF SumOf

\* Rows of nothing.
LEMMA SumOfNil ==
  ASSUME NEW S
  PROVE  SumOf([r \in S |-> 0]) = 0
<1>1. Units([r \in S |-> 0]) = {} /\ Units(Negated([r \in S |-> 0])) = {}
  <2>1. 1 .. 0 = {} /\ 1 .. -0 = {}
    OBVIOUS
  <2>. QED BY <2>1 DEF Units, Negated
<1>. QED BY <1>1, FS_EmptySet DEF SumOf

-----------------------------------------------------------------------------
(* Sums of sums, row by row.                                               *)

\* What is so of no row, and of one row more whenever it is so of some, is so of all: the
\* theorem of the library says it of a predicate, which the provers cannot take, and this of
\* a set of parts.
LEMMA RowByRow ==
  ASSUME NEW S, IsFiniteSet(S), NEW Parts, {} \in Parts,
         \A T \in SUBSET S : \A x \in S : x \notin T /\ T \in Parts => T \cup {x} \in Parts
  PROVE  S \in Parts
<1> DEFINE Left == (SUBSET S) \ Parts
           R == StrictSubsetOrdering(S)
<1>1. IsWellFoundedOn(R, SUBSET S)
  BY FS_StrictSubsetOrderingWellFounded, FS_FiniteSubsetsOfFinite
<1> SUFFICES ASSUME S \notin Parts
             PROVE  FALSE
  OBVIOUS
<1>2. Left \subseteq SUBSET S /\ Left # {}
  OBVIOUS
<1>3. PICK T \in Left : \A U \in Left : ~ (<<U, T>> \in R)
  <2>. HIDE DEF Left, R
  <2>. QED BY <1>1, <1>2, WFMin
<1>4. PICK x \in T : TRUE
  BY <1>3
<1>5. T \ {x} \in SUBSET S /\ x \in S /\ x \notin T \ {x} /\ (T \ {x}) \cup {x} = T
  BY <1>3, <1>4
<1>6. <<T \ {x}, T>> \in R
  BY <1>3, <1>4 DEF StrictSubsetOrdering
<1>7. T \ {x} \in Parts
  BY <1>3, <1>5, <1>6
<1>. QED BY <1>3, <1>5, <1>7

\* A part of a table with one row more.
LEMMA SumOneMore ==
  ASSUME NEW S, IsFiniteSet(S), NEW f \in [S -> Int],
         NEW T \in SUBSET S, NEW x \in S, x \notin T
  PROVE  SumOf(Restrict(f, T \cup {x})) = SumOf(Restrict(f, T)) + f[x]
<1> DEFINE h == Restrict(f, T \cup {x})
<1>1. IsFiniteSet(T \cup {x}) /\ h \in [T \cup {x} -> Int] /\ x \in T \cup {x} /\ h[x] = f[x]
  <2>1. T \cup {x} \in SUBSET S
    OBVIOUS
  <2>. QED BY <2>1, FS_Subset DEF Restrict
<1>2. [y \in (T \cup {x}) \ {x} |-> h[y]] = Restrict(f, T)
  BY DEF Restrict
<1>. HIDE DEF h
<1>3. SumOf([y \in (T \cup {x}) \ {x} |-> h[y]]) = SumOf(h) - h[x]
  BY <1>1, SumDelete
<1>4. SumOf(h) \in Int /\ h[x] \in Int
  BY <1>1, SumType
<1>5. SumOf(h) = SumOf(Restrict(f, T)) + f[x]
  BY <1>1, <1>2, <1>3, <1>4
<1>. QED BY <1>5 DEF h

\* The sum of a part of a table is a number.
LEMMA SumPart ==
  ASSUME NEW S, IsFiniteSet(S), NEW f \in [S -> Int], NEW T \in SUBSET S
  PROVE  SumOf(Restrict(f, T)) \in Int
<1>1. IsFiniteSet(T) /\ Restrict(f, T) \in [T -> Int]
  BY FS_Subset DEF Restrict
<1>. QED BY <1>1, SumType

\* Nothing is the sum of no row of a table, and its own sum that of all.
LEMMA SumEnds ==
  ASSUME NEW S, NEW f \in [S -> Int]
  PROVE  SumOf(Restrict(f, {})) = 0 /\ Restrict(f, S) = f
<1>1. DOMAIN Restrict(f, {}) = {} /\ Restrict(f, S) = f
  BY DEF Restrict
<1>. QED BY <1>1, SumOfNone

\* The sum of two columns.
LEMMA SumAdd ==
  ASSUME NEW S, IsFiniteSet(S), NEW f \in [S -> Int], NEW g \in [S -> Int]
  PROVE  SumOf([r \in S |-> f[r] + g[r]]) = SumOf(f) + SumOf(g)
<1> DEFINE both == [r \in S |-> f[r] + g[r]]
           Sum(h, T) == SumOf(Restrict(h, T))
           Parts == {T \in SUBSET S : Sum(both, T) = Sum(f, T) + Sum(g, T)}
<1>1. both \in [S -> Int]
  OBVIOUS
<1>2. {} \in Parts
  BY <1>1, SumEnds
<1>3. ASSUME NEW T \in SUBSET S, NEW x \in S, x \notin T, T \in Parts
      PROVE  T \cup {x} \in Parts
  <2>1. /\ Sum(both, T \cup {x}) = Sum(both, T) + both[x]
        /\ Sum(f, T \cup {x}) = Sum(f, T) + f[x]
        /\ Sum(g, T \cup {x}) = Sum(g, T) + g[x]
    <3>1. \A h \in [S -> Int] : Sum(h, T \cup {x}) = Sum(h, T) + h[x]
      BY <1>3, SumOneMore
    <3>. HIDE DEF both, Sum
    <3>. QED BY <1>1, <3>1
  <2>2. Sum(f, T) \in Int /\ Sum(g, T) \in Int
    BY SumPart
  <2>3. both[x] = f[x] + g[x] /\ f[x] \in Int /\ g[x] \in Int
    OBVIOUS
  <2>4. Sum(both, T) = Sum(f, T) + Sum(g, T)
    BY <1>3
  <2>. HIDE DEF both, Sum
  <2>5. Sum(both, T \cup {x}) = Sum(f, T \cup {x}) + Sum(g, T \cup {x})
    BY <2>1, <2>2, <2>3, <2>4
  <2>. QED BY <2>5
<1>4. S \in Parts
  <2>. HIDE DEF Parts
  <2>. QED BY <1>2, <1>3, RowByRow
<1>5. Restrict(f, S) = f /\ Restrict(g, S) = g /\ Restrict(both, S) = both
  BY <1>1, SumEnds
<1>. QED BY <1>4, <1>5

\* A table is a part of it and the rest.
LEMMA SumSplit ==
  ASSUME NEW S, IsFiniteSet(S), NEW f \in [S -> Int], NEW P \in SUBSET S
  PROVE  SumOf(f) = SumOf(Restrict(f, P)) + SumOf(Restrict(f, S \ P))
<1> DEFINE Sum(T) == SumOf(Restrict(f, T))
           Parts == {T \in SUBSET S : Sum(T) = Sum(T \cap P) + Sum(T \ P)}
<1>2. {} \in Parts
  <2>1. {} \cap P = {} /\ {} \ P = {} /\ Sum({}) = 0
    BY SumEnds
  <2>. QED BY <2>1
<1>3. ASSUME NEW T \in SUBSET S, NEW x \in S, x \notin T, T \in Parts
      PROVE  T \cup {x} \in Parts
  <2>1. /\ Sum(T \cup {x}) = Sum(T) + f[x]
        /\ Sum((T \cap P) \cup {x}) = Sum(T \cap P) + f[x]
        /\ Sum((T \ P) \cup {x}) = Sum(T \ P) + f[x]
    <3>1. \A U \in SUBSET S : x \notin U => Sum(U \cup {x}) = Sum(U) + f[x]
      BY SumOneMore
    <3>2. T \cap P \in SUBSET S /\ T \ P \in SUBSET S /\ x \notin T
      BY <1>3
    <3>. HIDE DEF Sum
    <3>. QED BY <3>1, <3>2
  <2>2. Sum(T \cap P) \in Int /\ Sum(T \ P) \in Int /\ f[x] \in Int
    <3>1. T \cap P \in SUBSET S /\ T \ P \in SUBSET S
      OBVIOUS
    <3>. QED BY <3>1, SumPart
  <2>3. Sum(T) = Sum(T \cap P) + Sum(T \ P)
    BY <1>3
  <2>4. CASE x \in P
    <3>1. (T \cup {x}) \cap P = (T \cap P) \cup {x} /\ (T \cup {x}) \ P = T \ P
      BY <2>4
    <3>. HIDE DEF Sum
    <3>2. Sum(T \cup {x}) = Sum((T \cup {x}) \cap P) + Sum((T \cup {x}) \ P)
      <4>1. Sum(T \cup {x}) = (Sum(T \cap P) + Sum(T \ P)) + f[x]
        BY <2>1, <2>3
      <4>2. Sum((T \cup {x}) \cap P) = Sum(T \cap P) + f[x]
        BY <2>1, <3>1, Zenon
      <4>3. Sum((T \cup {x}) \ P) = Sum(T \ P)
        BY <2>1, <3>1, Zenon
      <4>. QED BY <2>2, <4>1, <4>2, <4>3
    <3>. QED BY <3>2
  <2>5. CASE x \notin P
    <3>1. (T \cup {x}) \cap P = T \cap P /\ (T \cup {x}) \ P = (T \ P) \cup {x}
      BY <2>5
    <3>. HIDE DEF Sum
    <3>2. Sum(T \cup {x}) = Sum((T \cup {x}) \cap P) + Sum((T \cup {x}) \ P)
      <4>1. Sum(T \cup {x}) = (Sum(T \cap P) + Sum(T \ P)) + f[x]
        BY <2>1, <2>3
      <4>2. Sum((T \cup {x}) \cap P) = Sum(T \cap P)
        BY <2>1, <3>1, Zenon
      <4>3. Sum((T \cup {x}) \ P) = Sum(T \ P) + f[x]
        BY <2>1, <3>1, Zenon
      <4>. QED BY <2>2, <4>1, <4>2, <4>3
    <3>. QED BY <3>2
  <2>. QED BY <2>4, <2>5
<1>4. S \in Parts
  <2>. HIDE DEF Parts
  <2>. QED BY <1>2, <1>3, RowByRow
<1>5. Restrict(f, S) = f /\ S \cap P = P
  BY SumEnds
<1>. QED BY <1>4, <1>5

\* GROUP BY: the sums of the groups have the sum of the table.
LEMMA SumGrouped ==
  ASSUME NEW S, IsFiniteSet(S), NEW f \in [S -> Int],
         NEW K, IsFiniteSet(K), NEW key \in [S -> K]
  PROVE  SumOf([k \in K |-> SumOf(Restrict(f, {r \in S : key[r] = k}))]) = SumOf(f)
<1> DEFINE Sum(T) == SumOf(Restrict(f, T))
           Group(T, k) == {q \in T : key[q] = k}
           Groups(T) == [k \in K |-> Sum(Group(T, k))]
           Parts == {T \in SUBSET S : SumOf(Groups(T)) = Sum(T)}
<1>1. \A T \in SUBSET S : Groups(T) \in [K -> Int] /\ Sum(T) \in Int
  <2>1. \A T \in SUBSET S : \A k \in K : Group(T, k) \in SUBSET S
    OBVIOUS
  <2>2. \A T \in SUBSET S : Sum(T) \in Int
    BY SumPart
  <2>. HIDE DEF Sum, Group
  <2>. QED BY <2>1, <2>2
<1>2. {} \in Parts
  <2>1. \A k \in K : Group({}, k) = {}
    OBVIOUS
  <2>2. Sum({}) = 0
    BY SumEnds
  <2>3. Groups({}) = [k \in K |-> 0]
    <3>. HIDE DEF Sum, Group
    <3>. QED BY <2>1, <2>2
  <2>4. SumOf([k \in K |-> 0]) = 0
    BY SumOfNil
  <2>. QED BY <2>2, <2>3, <2>4
<1>3. ASSUME NEW T \in SUBSET S, NEW x \in S, x \notin T, T \in Parts
      PROVE  T \cup {x} \in Parts
  <2>1. Sum(T \cup {x}) = Sum(T) + f[x]
    BY <1>3, SumOneMore
  <2>2. \A k \in K : Group(T \cup {x}, k) = IF k = key[x] THEN Group(T, k) \cup {x} ELSE Group(T, k)
    BY <1>3
  <2>3. Group(T, key[x]) \in SUBSET S /\ x \notin Group(T, key[x]) /\ key[x] \in K
    BY <1>3
  <2>4. Sum(Group(T, key[x]) \cup {x}) = Sum(Group(T, key[x])) + f[x]
    <3>. HIDE DEF Group
    <3>. QED BY <2>3, SumOneMore
  <2>5. f[x] \in Int /\ SumOf(Groups(T)) = Sum(T)
    BY <1>3
  <2>6. Groups(T) \in [K -> Int] /\ Groups(T)[key[x]] = Sum(Group(T, key[x])) /\ Sum(T) \in Int
    BY <1>1, <2>3
  <2>7. Groups(T \cup {x}) = [Groups(T) EXCEPT ![key[x]] = Groups(T)[key[x]] + f[x]]
    <3>. HIDE DEF Sum, Group
    <3>. QED BY <2>2, <2>3, <2>4
  <2>. HIDE DEF Groups, Sum, Group
  <2>8. SumOf(Groups(T \cup {x})) = SumOf(Groups(T)) + f[x]
    <3>1. Groups(T)[key[x]] \in Int /\ Groups(T)[key[x]] + f[x] \in Int
      BY <2>3, <2>5, <2>6
    <3>2. SumOf(Groups(T)) \in Int
      BY <2>6, SumType
    <3>3. SumOf(Groups(T \cup {x}))
            = SumOf(Groups(T)) - Groups(T)[key[x]] + (Groups(T)[key[x]] + f[x])
      <4>1. \A h \in [K -> Int] : \A k \in K : \A v \in Int :
              SumOf([h EXCEPT ![k] = v]) = SumOf(h) - h[k] + v
        BY SumUpdate
      <4>2. \A v \in Int : SumOf([Groups(T) EXCEPT ![key[x]] = v])
                              = SumOf(Groups(T)) - Groups(T)[key[x]] + v
        BY <2>3, <2>6, <4>1, Zenon
      <4>. QED BY <2>7, <3>1, <4>2, Zenon
    <3>. QED BY <3>1, <3>2, <3>3, <2>5
  <2>9. SumOf(Groups(T \cup {x})) = Sum(T \cup {x})
    BY <2>1, <2>5, <2>8
  <2>. QED BY <2>9
<1>4. S \in Parts
  <2>. HIDE DEF Parts
  <2>. QED BY <1>2, <1>3, RowByRow
<1>5. Restrict(f, S) = f /\ \A k \in K : Group(S, k) = {r \in S : key[r] = k}
  BY SumEnds
<1>. QED BY <1>4, <1>5

\* Rows under other names have the same sum.
LEMMA SumRenamed ==
  ASSUME NEW S, IsFiniteSet(S), NEW f \in [S -> Int],
         NEW m, \A x, y \in S : m[x] = m[y] => x = y,
         NEW g, g = [z \in {m[x] : x \in S} |-> g[z]], \A x \in S : g[m[x]] = f[x]
  PROVE  SumOf(g) = SumOf(f)
<1> DEFINE Image(T) == {m[x] : x \in T}
           Parts == {T \in SUBSET S : SumOf(Restrict(g, Image(T))) = SumOf(Restrict(f, T))}
<1>1. IsFiniteSet(Image(S)) /\ g \in [Image(S) -> Int]
  <2>1. [x \in S |-> m[x]] \in Surjection(S, Image(S))
    BY DEF Surjection
  <2>2. \A z \in Image(S) : g[z] \in Int
    OBVIOUS
  <2>. QED BY <2>1, <2>2, FS_Surjection
<1>2. {} \in Parts
  <2>1. Image({}) = {}
    OBVIOUS
  <2>2. SumOf(Restrict(g, {})) = 0 /\ SumOf(Restrict(f, {})) = 0
    BY <1>1, SumEnds
  <2>. QED BY <2>1, <2>2
<1>3. ASSUME NEW T \in SUBSET S, NEW x \in S, x \notin T, T \in Parts
      PROVE  T \cup {x} \in Parts
  <2>1. Image(T \cup {x}) = Image(T) \cup {m[x]}
    OBVIOUS
  <2>2. m[x] \in Image(S) /\ m[x] \notin Image(T) /\ Image(T) \in SUBSET Image(S)
    BY <1>3
  <2>3. SumOf(Restrict(f, T \cup {x})) = SumOf(Restrict(f, T)) + f[x]
    BY <1>3, SumOneMore
  <2>. HIDE DEF Image
  <2>4. SumOf(Restrict(g, Image(T) \cup {m[x]})) = SumOf(Restrict(g, Image(T))) + g[m[x]]
    <3>1. \A U \in SUBSET Image(S) : \A z \in Image(S) :
            z \notin U => SumOf(Restrict(g, U \cup {z})) = SumOf(Restrict(g, U)) + g[z]
      BY <1>1, SumOneMore
    <3>. QED BY <2>2, <3>1
  <2>. QED BY <1>3, <2>1, <2>3, <2>4
<1>4. S \in Parts
  <2>. HIDE DEF Parts
  <2>. QED BY <1>2, <1>3, RowByRow
<1>5. Restrict(f, S) = f /\ Restrict(g, Image(S)) = g
  <2>. HIDE DEF Image
  <2>. QED BY <1>1, SumEnds
<1>. QED BY <1>4, <1>5
=============================================================================

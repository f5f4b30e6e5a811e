---------------------------- MODULE StatementProofs ----------------------------
(***************************************************************************)
(* The arithmetic of an annual statement for any number of units, days and *)
(* parties and any amounts: what largest remainder promises, what bills,   *)
(* VAT and parties add up to, and how fair rounding twice is.              *)
(***************************************************************************)
EXTENDS AnnualStatement, FiniteSetTheorems, WellFoundedInduction, TLAPS
-------------------------------------------------------------------------------
(* Sums over a finite set, the way the fold of Total adds them up.  What   *)
(* holds of every subset is shown by a subset with the fewest elements for *)
(* which it does not.                                                      *)

Pick(s) == CHOOSE x \in s : TRUE

\* g adds up f over every subset of S, the way the fold does.
Adds(g, f, S) == g = [s \in SUBSET S |-> IF s = {} THEN 0 ELSE f[Pick(s)] + g[s \ {Pick(s)}]]
Sums(f, S) == CHOOSE g : Adds(g, f, S)

LEMMA TotalIsSum == ASSUME NEW f PROVE Total(f) = Sums(f, DOMAIN f)[DOMAIN f]
BY DEF Total, FoldFunction, FoldFunctionOnSet, MapThenFoldSet, Sums, Adds, Pick

LEMMA NatWF == IsWellFoundedOn({r \in Nat \X Nat : r[1] < r[2]}, Nat)
BY NatLessThanWellFounded DEF OpToRel

LEMMA Least == ASSUME NEW T \in SUBSET Nat, T # {} PROVE \E n \in T : \A m \in T : n <= m
<1> DEFINE R == {r \in Nat \X Nat : r[1] < r[2]}
<1>1. IsWellFoundedOn(R, Nat)
  BY NatWF
<1>2. PICK n \in T : \A m \in T : <<m, n>> \notin R
  BY <1>1, WFMin, Zenon
<1>3. ASSUME NEW m \in T PROVE n <= m
  <2>1. m \in Nat /\ n \in Nat /\ <<m, n>>[1] = m /\ <<m, n>>[2] = n /\ <<m, n>> \in Nat \X Nat
    OBVIOUS
  <2>2. ~ (m < n)
    BY <1>2, <2>1
  <2> QED BY <2>1, <2>2
<1> QED BY <1>3

LEMMA PickIn == ASSUME NEW s, s # {} PROVE Pick(s) \in s
BY DEF Pick

\* Of a nonempty family of finite sets one has the fewest elements.
LEMMA Fewest ==
  ASSUME NEW S, IsFiniteSet(S), NEW F \in SUBSET SUBSET S, F # {}
  PROVE  \E s \in F : \A t \in F : Cardinality(s) <= Cardinality(t)
<1> DEFINE T == {Cardinality(s) : s \in F}
<1>1. \A s \in F : IsFiniteSet(s) /\ Cardinality(s) \in Nat
  BY FS_Subset, FS_CardinalityType
<1>2. T \in SUBSET Nat /\ T # {}
  BY <1>1
<1>3. PICK n \in T : \A m \in T : n <= m
  BY <1>2, Least
<1> QED BY <1>3

\* The fold is a function on the subsets: from the sums of the sets with at
\* most n elements to those with one more.
LEMMA FoldExists ==
  ASSUME NEW f, NEW S, IsFiniteSet(S)
  PROVE  \E g : Adds(g, f, S)
<1> DEFINE Small(n) == {s \in SUBSET S : Cardinality(s) <= n}
           Ok(n) == \E g : g = [s \in Small(n) |->
                        IF s = {} THEN 0 ELSE f[Pick(s)] + g[s \ {Pick(s)}]]
           Bad == {n \in Nat : ~Ok(n)}
<1>1. \A s \in SUBSET S : IsFiniteSet(s) /\ Cardinality(s) \in Nat
  BY FS_Subset, FS_CardinalityType
<1>2. ASSUME NEW s \in SUBSET S, s # {}
      PROVE  s \ {Pick(s)} \in SUBSET S /\ Cardinality(s \ {Pick(s)}) = Cardinality(s) - 1
  BY <1>1, <1>2, PickIn, FS_RemoveElement
<1>3. Ok(0)
  <2>1. \A s \in Small(0) : s = {}
    BY <1>1, FS_EmptySet
  <2> DEFINE g == [s \in Small(0) |-> 0]
  <2>2. g = [s \in Small(0) |-> IF s = {} THEN 0 ELSE f[Pick(s)] + g[s \ {Pick(s)}]]
    BY <2>1
  <2> QED BY <2>2
<1>4. ASSUME NEW n \in Nat, Ok(n) PROVE Ok(n + 1)
  <2>1. PICK g : g = [s \in Small(n) |-> IF s = {} THEN 0 ELSE f[Pick(s)] + g[s \ {Pick(s)}]]
    BY <1>4
  <2> DEFINE h == [s \in Small(n + 1) |-> IF s = {} THEN 0 ELSE f[Pick(s)] + g[s \ {Pick(s)}]]
  <2>2. ASSUME NEW s \in Small(n) PROVE s \in Small(n + 1) /\ h[s] = g[s]
    <3>1. s \in Small(n + 1)
      BY <1>1
    <3>2. g[s] = IF s = {} THEN 0 ELSE f[Pick(s)] + g[s \ {Pick(s)}]
      BY <2>1, Zenon
    <3>3. h[s] = IF s = {} THEN 0 ELSE f[Pick(s)] + g[s \ {Pick(s)}]
      BY <3>1
    <3> QED BY <3>1, <3>2, <3>3
  <2>3. ASSUME NEW s \in Small(n + 1), s # {} PROVE s \ {Pick(s)} \in Small(n)
    BY <1>1, <1>2, <2>3
  <2>4. ASSUME NEW s \in Small(n + 1)
        PROVE  h[s] = IF s = {} THEN 0 ELSE f[Pick(s)] + h[s \ {Pick(s)}]
    BY <2>2, <2>3
  <2> HIDE DEF h
  <2>5. h = [s \in Small(n + 1) |-> IF s = {} THEN 0 ELSE f[Pick(s)] + h[s \ {Pick(s)}]]
    BY <2>4 DEF h
  <2> QED BY <2>5
<1>5. Bad = {}
  <2> SUFFICES ASSUME Bad # {} PROVE FALSE
    OBVIOUS
  <2> HIDE DEF Ok
  <2>1. PICK n \in Bad : \A m \in Bad : n <= m
    BY Least
  <2>2. n # 0 /\ n \in Nat
    BY <1>3
  <2>3. n - 1 \in Nat /\ Ok(n - 1)
    BY <2>1, <2>2
  <2>4. Ok((n - 1) + 1)
    BY <1>4, <2>3
  <2> QED BY <2>2, <2>4
<1>6. Cardinality(S) \in Nat /\ Small(Cardinality(S)) = SUBSET S
  BY <1>1, FS_Subset
<1>7. Ok(Cardinality(S))
  BY <1>5, <1>6
<1> QED BY <1>6, <1>7 DEF Adds

\* What the sum of a finite set is: an element, and the sum of the others.
LEMMA SumsAdd ==
  ASSUME NEW f, NEW S, IsFiniteSet(S)
  PROVE  /\ Sums(f, S)[{}] = 0
         /\ \A s \in SUBSET S : s # {} => Sums(f, S)[s] = f[Pick(s)] + Sums(f, S)[s \ {Pick(s)}]
<1>1. Adds(Sums(f, S), f, S)
  BY FoldExists DEF Sums
<1> QED BY <1>1 DEF Adds

LEMMA SumsEmpty ==
  ASSUME NEW f, NEW S, IsFiniteSet(S)
  PROVE  Sums(f, S)[{}] = 0
BY SumsAdd

LEMMA SumsPick ==
  ASSUME NEW f, NEW S, IsFiniteSet(S), NEW s \in SUBSET S, s # {}
  PROVE  Sums(f, S)[s] = f[Pick(s)] + Sums(f, S)[s \ {Pick(s)}]
BY SumsAdd

-------------------------------------------------------------------------------
\* A family of subsets with {} that grows by single elements has them all.
LEMMA SetInduction ==
  ASSUME NEW S, IsFiniteSet(S), NEW G \in SUBSET SUBSET S, {} \in G,
         \A s \in SUBSET S : \A x \in s : s \ {x} \in G => s \in G
  PROVE  G = SUBSET S
<1> DEFINE Bad == (SUBSET S) \ G
<1> SUFFICES ASSUME Bad # {} PROVE FALSE
  OBVIOUS
<1>0. Bad \in SUBSET SUBSET S
  OBVIOUS
<1>1. PICK s \in Bad : \A t \in Bad : Cardinality(s) <= Cardinality(t)
  <2> HIDE DEF Bad
  <2> QED BY <1>0, Fewest
<1>2. PICK x \in s : TRUE
  BY <1>1
<1>3. IsFiniteSet(s) /\ Cardinality(s) \in Nat /\ Cardinality(s \ {x}) = Cardinality(s) - 1
  BY <1>2, FS_Subset, FS_CardinalityType, FS_RemoveElement
<1>4. s \ {x} \in G
  BY <1>1, <1>2, <1>3
<1> QED BY <1>1, <1>2, <1>4

\* Over finitely many indices f has numbers.
Addable(f, S) == IsFiniteSet(S) /\ \A x \in S : f[x] \in Int

LEMMA SumsInt ==
  ASSUME NEW f, NEW S, Addable(f, S)
  PROVE  \A s \in SUBSET S : Sums(f, S)[s] \in Int
<1> DEFINE G == {s \in SUBSET S : Sums(f, S)[s] \in Int}
           Bad == (SUBSET S) \ G
<1> SUFFICES ASSUME Bad # {} PROVE FALSE
  OBVIOUS
<1>0. IsFiniteSet(S) /\ \A x \in S : f[x] \in Int
  BY DEF Addable
<1>1. PICK s \in Bad : \A t \in Bad : Cardinality(s) <= Cardinality(t)
  BY <1>0, Fewest
<1>9. Sums(f, S)[{}] = 0
  BY <1>0, SumsAdd
<1>2. s \in SUBSET S /\ s # {}
  BY <1>1, <1>9
<1>3. IsFiniteSet(s) /\ Cardinality(s) \in Nat /\ Cardinality(s \ {Pick(s)}) = Cardinality(s) - 1
  BY <1>0, <1>2, PickIn, FS_Subset, FS_CardinalityType, FS_RemoveElement
<1>4. s \ {Pick(s)} \notin Bad
  BY <1>1, <1>3
<1>5. Sums(f, S)[s \ {Pick(s)}] \in Int
  BY <1>2, <1>4
<1>6. Pick(s) \in S
  BY <1>2, PickIn
<1>7. Sums(f, S)[s] = f[Pick(s)] + Sums(f, S)[s \ {Pick(s)}]
  BY <1>0, <1>2, SumsAdd
<1>8. Sums(f, S)[s] \in Int
  BY <1>0, <1>5, <1>6, <1>7
<1> QED BY <1>1, <1>8

\* Any element can be taken out first.
LEMMA SumsRemove ==
  ASSUME NEW f, NEW S, Addable(f, S)
  PROVE  \A s \in SUBSET S : \A y \in s : Sums(f, S)[s] = f[y] + Sums(f, S)[s \ {y}]
<1> DEFINE g == Sums(f, S)
           Bad == {s \in SUBSET S : \E y \in s : g[s] # f[y] + g[s \ {y}]}
<1> SUFFICES ASSUME Bad # {} PROVE FALSE
  OBVIOUS
<1>0. IsFiniteSet(S) /\ \A x \in S : f[x] \in Int
  BY DEF Addable
<1>1. PICK s \in Bad : \A t \in Bad : Cardinality(s) <= Cardinality(t)
  BY <1>0, Fewest
<1>2. PICK y \in s : g[s] # f[y] + g[s \ {y}]
  BY <1>1
<1> DEFINE p == Pick(s)
<1>14. s \in SUBSET S /\ p \in s /\ y \in S /\ p \in S
  BY <1>1, <1>2, PickIn
<1>15. IsFiniteSet(s) /\ Cardinality(s) \in Nat
  BY <1>0, <1>14, FS_Subset, FS_CardinalityType
<1>3. s \in SUBSET S /\ p \in s /\ y \in S /\ p \in S /\ IsFiniteSet(s) /\ Cardinality(s) \in Nat
  BY <1>14, <1>15
<1>16. IsFiniteSet(S) /\ s # {}
  BY <1>0, <1>2
<1>4. g[s] = f[p] + g[s \ {p}]
  <2>1. s \in SUBSET S /\ s # {} /\ IsFiniteSet(S)
    BY <1>3, <1>16
  <2>2. Sums(f, S)[s] = f[Pick(s)] + Sums(f, S)[s \ {Pick(s)}]
    <3> HIDE DEF g, Bad, p
    <3> QED BY <2>1, SumsPick
  <2> QED BY <2>2
<1> HIDE DEF g, p
<1>5. p # y
  BY <1>2, <1>4
<1>6. Cardinality(s \ {p}) = Cardinality(s) - 1 /\ Cardinality(s \ {y}) = Cardinality(s) - 1
  BY <1>3, FS_RemoveElement
<1>7. s \ {p} \in SUBSET S /\ s \ {y} \in SUBSET S
  BY <1>3
<1>11. s \ {p} \notin Bad /\ s \ {y} \notin Bad
  <2> HIDE DEF Bad
  <2> QED BY <1>1, <1>3, <1>6
<1>8. g[s \ {p}] = f[y] + g[(s \ {p}) \ {y}] /\ g[s \ {y}] = f[p] + g[(s \ {y}) \ {p}]
  <2>1. y \in s \ {p} /\ p \in s \ {y}
    BY <1>2, <1>3, <1>5
  <2> QED BY <1>7, <1>11, <2>1
<1>9. (s \ {p}) \ {y} = (s \ {y}) \ {p} /\ (s \ {p}) \ {y} \in SUBSET S
  BY <1>3
<1>10. f[p] \in Int /\ f[y] \in Int /\ g[(s \ {p}) \ {y}] \in Int
  BY <1>0, <1>3, <1>9, SumsInt DEF g
<1>12. PICK r \in Int, a \in Int, b \in Int : r = g[(s \ {p}) \ {y}] /\ a = f[p] /\ b = f[y]
  BY <1>10
<1>13. g[s] = a + (b + r) /\ g[s \ {y}] = a + r
  BY <1>4, <1>8, <1>9, <1>12
<1> QED BY <1>2, <1>12, <1>13

LEMMA SumsAll ==
  ASSUME NEW f, NEW S, Addable(f, S), NEW y \in S
  PROVE  Sums(f, S)[S] = f[y] + Sums(f, S)[S \ {y}]
BY SumsRemove

\* e leads from A to B, to each index once, and f has there what h has.
Along(f, S, A, e, h, T, B) ==
    /\ Addable(f, S) /\ Addable(h, T)
    /\ A \in SUBSET S /\ e \in [A -> T]
    /\ \A x \in A : f[x] = h[e[x]]
    /\ \A x, y \in A : e[x] = e[y] => x = y
    /\ B = {e[x] : x \in A}

\* The sum of f is that of h where e leads.
LEMMA SumsAlong ==
  ASSUME NEW f, NEW S, NEW h, NEW T, NEW A, NEW B, NEW e, Along(f, S, A, e, h, T, B)
  PROVE  Sums(f, S)[A] = Sums(h, T)[B]
<1> DEFINE I(s) == {e[x] : x \in s}
           G == {s \in SUBSET A : Sums(f, S)[s] = Sums(h, T)[I(s)]}
<1>0. /\ Addable(f, S) /\ Addable(h, T) /\ IsFiniteSet(S) /\ IsFiniteSet(T)
      /\ A \in SUBSET S /\ e \in [A -> T] /\ \A x \in A : f[x] = h[e[x]]
      /\ (\A x, y \in A : e[x] = e[y] => x = y) /\ B = I(A)
  BY DEF Along, Addable
<1>1. IsFiniteSet(A)
  BY <1>0, FS_Subset
<1>2. {} \in G
  <2>1. I({}) = {} /\ {} \in SUBSET A
    OBVIOUS
  <2>2. Sums(f, S)[{}] = 0 /\ Sums(h, T)[{}] = 0
    BY <1>0, SumsEmpty
  <2> QED BY <2>1, <2>2
<1>3. ASSUME NEW s \in SUBSET A, NEW x \in s, s \ {x} \in G PROVE s \in G
  <2>1. I(s) \in SUBSET T /\ e[x] \in I(s) /\ I(s \ {x}) = I(s) \ {e[x]}
    BY <1>0
  <2>2. Sums(f, S)[s] = f[x] + Sums(f, S)[s \ {x}]
    <3>1. s \in SUBSET S /\ x \in s /\ Addable(f, S)
      BY <1>0
    <3> HIDE DEF G, I
    <3> QED BY <3>1, SumsRemove
  <2>3. Sums(h, T)[I(s)] = h[e[x]] + Sums(h, T)[I(s) \ {e[x]}]
    <3> HIDE DEF I
    <3> QED BY <1>0, <2>1, SumsRemove
  <2> QED BY <1>0, <1>3, <2>1, <2>2, <2>3
<1> HIDE DEF G
<1>4. G = SUBSET A
  <2>1. G \in SUBSET SUBSET A
    BY DEF G
  <2> QED BY <1>1, <1>2, <1>3, <2>1, SetInduction
<1> QED BY <1>0, <1>4 DEF G

\* Sums of naturals are naturals, at least as large as each of them.
LEMMA SumsNat ==
  ASSUME NEW f, NEW S, IsFiniteSet(S), \A x \in S : f[x] \in Nat
  PROVE  \A s \in SUBSET S : Sums(f, S)[s] \in Nat
<1> DEFINE g == Sums(f, S)
           G == {s \in SUBSET S : g[s] \in Nat}
<1>0. Addable(f, S)
  BY DEF Addable
<1>1. {} \in G
  BY SumsAdd
<1>2. ASSUME NEW s \in SUBSET S, NEW x \in s, s \ {x} \in G PROVE s \in G
  <2>1. g[s] = f[x] + g[s \ {x}] /\ f[x] \in Nat /\ g[s \ {x}] \in Nat
    BY <1>0, <1>2, SumsRemove
  <2> QED BY <2>1
<1>3. G \in SUBSET SUBSET S
  OBVIOUS
<1> HIDE DEF G
<1>4. G = SUBSET S
  BY <1>1, <1>2, <1>3, SetInduction
<1> QED BY <1>4 DEF G

\* Numbers that are nothing add up to nothing.
LEMMA SumsNone ==
  ASSUME NEW f, NEW S, IsFiniteSet(S), NEW A \in SUBSET S, \A x \in A : f[x] = 0
  PROVE  Sums(f, S)[A] = 0
<1> DEFINE Bad == {s \in SUBSET A : Sums(f, S)[s] # 0}
<1> SUFFICES ASSUME Bad # {} PROVE FALSE
  OBVIOUS
<1>1. PICK s \in Bad : \A t \in Bad : Cardinality(s) <= Cardinality(t)
  <2>1. Bad \in SUBSET SUBSET S
    OBVIOUS
  <2> HIDE DEF Bad
  <2> QED BY <2>1, Fewest
<1>2. s \in SUBSET S /\ s \in SUBSET A /\ s # {}
  BY <1>1, SumsAdd
<1>3. IsFiniteSet(s) /\ Cardinality(s) \in Nat /\ Cardinality(s \ {Pick(s)}) = Cardinality(s) - 1
  BY <1>2, PickIn, FS_Subset, FS_CardinalityType, FS_RemoveElement
<1>4. s \ {Pick(s)} \notin Bad
  BY <1>1, <1>3
<1>5. Sums(f, S)[s \ {Pick(s)}] = 0
  BY <1>2, <1>4
<1>6. f[Pick(s)] = 0
  BY <1>2, PickIn
<1>7. Sums(f, S)[s] = f[Pick(s)] + Sums(f, S)[s \ {Pick(s)}]
  BY <1>2, SumsAdd
<1>8. Sums(f, S)[s] = 0
  BY <1>5, <1>6, <1>7
<1> QED BY <1>1, <1>8

\* The sum of two sets apart from each other.
LEMMA SumsUnion ==
  ASSUME NEW f, NEW S, Addable(f, S),
         NEW A \in SUBSET S, NEW B \in SUBSET S, A \cap B = {}
  PROVE  Sums(f, S)[A \cup B] = Sums(f, S)[A] + Sums(f, S)[B]
<1> DEFINE g == Sums(f, S)
           G == {s \in SUBSET B : g[A \cup s] = g[A] + g[s]}
<1>0. \A s \in SUBSET S : g[s] \in Int
  BY SumsInt
<1>5. IsFiniteSet(S) /\ \A x \in S : f[x] \in Int
  BY DEF Addable
<1>1. {} \in G
  <2>1. g[{}] = 0 /\ A \cup {} = A /\ g[A] \in Int
    BY <1>0, <1>5, SumsAdd
  <2> QED BY <2>1
<1>2. ASSUME NEW s \in SUBSET B, NEW x \in s, s \ {x} \in G PROVE s \in G
  <2>1. /\ s \in SUBSET S /\ A \cup s \in SUBSET S /\ x \in A \cup s
        /\ (A \cup s) \ {x} = A \cup (s \ {x}) /\ s \ {x} \in SUBSET S /\ x \in S
    OBVIOUS
  <2>2. g[s] = f[x] + g[s \ {x}]
    BY <2>1, SumsRemove
  <2>6. g[A \cup s] = f[x] + g[A \cup (s \ {x})]
    <3>1. g[A \cup s] = f[x] + g[(A \cup s) \ {x}]
      <4> DEFINE r == A \cup s
      <4>2. r \in SUBSET S /\ x \in r
        BY <2>1
      <4> HIDE DEF r
      <4>3. g[r] = f[x] + g[r \ {x}]
        BY <4>2, SumsRemove
      <4> QED BY <4>3 DEF r
    <3> QED BY <2>1, <3>1
  <2>3. g[A \cup (s \ {x})] = g[A] + g[s \ {x}]
    BY <1>2
  <2>4. g[A] \in Int /\ g[s \ {x}] \in Int /\ f[x] \in Int
    BY <1>0, <1>5, <2>1
  <2> HIDE DEF g
  <2>5. g[A \cup s] = g[A] + g[s]
    BY <2>2, <2>3, <2>4, <2>6
  <2> QED BY <2>5
<1>3. G \in SUBSET SUBSET B /\ IsFiniteSet(B)
  BY <1>5, FS_Subset
<1> HIDE DEF G
<1>4. G = SUBSET B
  BY <1>1, <1>2, <1>3, SetInduction
<1> QED BY <1>4 DEF G

\* The sum over an index that two others lead to, each to a part of it.
Parts(S, C, D) == S = C \cup D /\ C \cap D = {}

LEMMA SumsParts ==
  ASSUME NEW f, NEW S, Addable(f, S), NEW A, NEW B, NEW C, NEW D, Parts(S, C, D),
         NEW a, NEW b, NEW e, NEW h, Along(a, A, A, e, f, S, C), Along(b, B, B, h, f, S, D)
  PROVE  Sums(f, S)[S] = Sums(a, A)[A] + Sums(b, B)[B]
<1>1. Sums(a, A)[A] = Sums(f, S)[C] /\ Sums(b, B)[B] = Sums(f, S)[D]
  BY SumsAlong
<1>2. C \in SUBSET S /\ D \in SUBSET S /\ C \cap D = {} /\ S = C \cup D
  BY DEF Parts
<1>3. Sums(f, S)[C \cup D] = Sums(f, S)[C] + Sums(f, S)[D]
  BY <1>2, SumsUnion
<1> QED BY <1>1, <1>2, <1>3
\* Ones add up to how many they are.
LEMMA SumsCount ==
  ASSUME NEW f, NEW S, IsFiniteSet(S), NEW B \in SUBSET S,
         \A x \in S : f[x] = IF x \in B THEN 1 ELSE 0
  PROVE  Sums(f, S)[S] = Cardinality(B)
<1>1. Addable(f, S)
  BY DEF Addable
<1> DEFINE g == Sums(f, S)
           G == {s \in SUBSET B : g[s] = Cardinality(s)}
<1>2. {} \in G
  BY SumsAdd, FS_EmptySet
<1>3. ASSUME NEW s \in SUBSET B, NEW x \in s, s \ {x} \in G PROVE s \in G
  <2>1. s \in SUBSET S /\ IsFiniteSet(s)
    BY FS_Subset
  <2>5. g[s] = f[x] + g[s \ {x}]
    BY <1>1, <2>1, SumsRemove
  <2>2. f[x] = 1 /\ g[s \ {x}] = Cardinality(s \ {x})
    BY <1>3
  <2>3. Cardinality(s \ {x}) = Cardinality(s) - 1 /\ Cardinality(s) \in Nat
    BY <2>1, FS_RemoveElement, FS_CardinalityType
  <2> HIDE DEF g
  <2>4. g[s] = Cardinality(s)
    BY <2>2, <2>3, <2>5
  <2> QED BY <2>4
<1>4. G \in SUBSET SUBSET B /\ IsFiniteSet(B)
  BY FS_Subset
<1> HIDE DEF G
<1>5. G = SUBSET B
  BY <1>2, <1>3, <1>4, SetInduction
<1>6. g[B] = Cardinality(B)
  BY <1>5 DEF G
<1>7. g[S \ B] = 0
  BY SumsNone
<1>8. g[S] = g[B] + g[S \ B]
  <2>1. B \cup (S \ B) = S /\ B \cap (S \ B) = {} /\ S \ B \in SUBSET S
    OBVIOUS
  <2> QED BY <1>1, <2>1, SumsUnion
<1>9. Cardinality(B) \in Nat
  BY <1>4, FS_CardinalityType
<1> QED BY <1>6, <1>7, <1>8, <1>9

\* k is a times f and b times h.
Linear(S, k, a, f, b, h) ==
    \A x \in S : f[x] \in Int /\ h[x] \in Int /\ k[x] = a * f[x] + b * h[x]

\* Sums are linear.
LEMMA SumsLinear ==
  ASSUME NEW S, IsFiniteSet(S), NEW f, NEW h, NEW k, NEW a \in Int, NEW b \in Int,
         Linear(S, k, a, f, b, h)
  PROVE  \A s \in SUBSET S : Sums(k, S)[s] = a * Sums(f, S)[s] + b * Sums(h, S)[s]
<1> DEFINE F == Sums(f, S)
           H == Sums(h, S)
           K == Sums(k, S)
           G == {s \in SUBSET S : K[s] = a * F[s] + b * H[s]}
<1>5. Addable(k, S) /\ Addable(f, S) /\ Addable(h, S)
  BY DEF Linear, Addable
<1>0. /\ \A x \in S : f[x] \in Int /\ h[x] \in Int
      /\ \A s \in SUBSET S : F[s] \in Int /\ H[s] \in Int
  BY <1>5, SumsInt DEF Linear
<1>1. {} \in G
  <2>1. F[{}] = 0 /\ H[{}] = 0 /\ K[{}] = 0
    BY SumsAdd
  <2> QED BY <2>1
<1>2. ASSUME NEW s \in SUBSET S, NEW x \in s, s \ {x} \in G PROVE s \in G
  <2>1. K[s] = k[x] + K[s \ {x}] /\ F[s] = f[x] + F[s \ {x}] /\ H[s] = h[x] + H[s \ {x}]
    BY <1>5, SumsRemove
  <2>2. K[s \ {x}] = a * F[s \ {x}] + b * H[s \ {x}] /\ k[x] = a * f[x] + b * h[x]
    BY <1>2 DEF Linear
  <2>3. PICK p \in Int, q \in Int, u \in Int, v \in Int :
          p = f[x] /\ q = h[x] /\ u = F[s \ {x}] /\ v = H[s \ {x}]
    BY <1>0 DEF Linear
  <2> HIDE DEF F, H, K
  <2>4. K[s] = (a * p + b * q) + (a * u + b * v) /\ F[s] = p + u /\ H[s] = q + v
    BY <2>1, <2>2, <2>3
  <2>5. (a * p + b * q) + (a * u + b * v) = a * (p + u) + b * (q + v)
    OBVIOUS
  <2> QED BY <2>4, <2>5
<1>3. G \in SUBSET SUBSET S
  OBVIOUS
<1> HIDE DEF G
<1>4. G = SUBSET S
  BY <1>1, <1>2, <1>3, SetInduction
<1> QED BY <1>4 DEF G
-------------------------------------------------------------------------------
(* Totals.                                                                 *)

LEMMA TotalInt ==
  ASSUME NEW S, IsFiniteSet(S), NEW f \in [S -> Int]
  PROVE  Total(f) \in Int
<1>1. Addable(f, S)
  BY DEF Addable
<1> QED BY <1>1, TotalIsSum, SumsInt

\* A total of naturals, and each of them is within it.
LEMMA TotalNat ==
  ASSUME NEW S, IsFiniteSet(S), NEW f \in [S -> Nat]
  PROVE  Total(f) \in Nat /\ \A x \in S : f[x] <= Total(f)
<1>1. \A s \in SUBSET S : Sums(f, S)[s] \in Nat
  BY SumsNat
<1>5. Addable(f, S)
  BY DEF Addable
<1>2. \A x \in S : Sums(f, S)[S] = f[x] + Sums(f, S)[S \ {x}]
  BY <1>5, SumsRemove
<1>3. Total(f) = Sums(f, S)[S]
  BY TotalIsSum
<1>4. ASSUME NEW x \in S PROVE f[x] <= Total(f)
  <2>1. f[x] \in Nat /\ Sums(f, S)[S \ {x}] \in Nat
    BY <1>1
  <2>2. Total(f) = f[x] + Sums(f, S)[S \ {x}]
    BY <1>2, <1>3
  <2> QED BY <2>1, <2>2
<1> QED BY <1>1, <1>3, <1>4

\* k is a times f and b times h, over finitely many indices.
Combined(S, k, a, f, b, h) ==
    /\ IsFiniteSet(S) /\ f \in [S -> Int] /\ h \in [S -> Int] /\ k \in [S -> Int]
    /\ \A x \in S : k[x] = a * f[x] + b * h[x]

LEMMA TotalLinear ==
  ASSUME NEW S, NEW f, NEW h, NEW k, NEW a \in Int, NEW b \in Int, Combined(S, k, a, f, b, h)
  PROVE  Total(k) = a * Total(f) + b * Total(h)
<1>1. /\ Total(f) = Sums(f, S)[S] /\ Total(h) = Sums(h, S)[S] /\ Total(k) = Sums(k, S)[S]
      /\ IsFiniteSet(S)
  BY TotalIsSum DEF Combined
<1>2. Linear(S, k, a, f, b, h)
  BY DEF Linear, Combined
<1>3. Sums(k, S)[S] = a * Sums(f, S)[S] + b * Sums(h, S)[S]
  BY <1>1, <1>2, SumsLinear
<1> QED BY <1>1, <1>3

Plus(S, k, f, h) ==
    /\ IsFiniteSet(S) /\ f \in [S -> Int] /\ h \in [S -> Int] /\ k \in [S -> Int]
    /\ \A x \in S : k[x] = f[x] + h[x]

LEMMA TotalPlus ==
  ASSUME NEW S, NEW f, NEW h, NEW k, Plus(S, k, f, h)
  PROVE  Total(k) = Total(f) + Total(h)
<1>1. \A x \in S : k[x] = 1 * f[x] + 1 * h[x]
  BY DEF Plus
<1>2. Combined(S, k, 1, f, 1, h)
  BY <1>1 DEF Combined, Plus
<1>3. Total(k) = 1 * Total(f) + 1 * Total(h)
  BY <1>2, TotalLinear
<1>4. Total(f) \in Int /\ Total(h) \in Int
  BY TotalInt DEF Plus
<1> QED BY <1>3, <1>4

LEMMA TotalLess ==
  ASSUME NEW S, IsFiniteSet(S), NEW f \in [S -> Int], NEW h \in [S -> Int],
         \A x \in S : f[x] <= h[x]
  PROVE  Total(f) <= Total(h)
<1> DEFINE k == [x \in S |-> h[x] - f[x]]
<1>1. k \in [S -> Nat] /\ k \in [S -> Int] /\ \A x \in S : h[x] = f[x] + k[x]
  OBVIOUS
<1> HIDE DEF k
<1>2. Total(h) = Total(f) + Total(k)
  <2>1. Plus(S, h, f, k)
    BY <1>1 DEF Plus
  <2> QED BY <2>1, TotalPlus
<1>3. Total(k) \in Nat /\ Total(f) \in Int
  BY <1>1, TotalNat, TotalInt
<1> QED BY <1>2, <1>3

LEMMA TotalNone ==
  ASSUME NEW S, IsFiniteSet(S), NEW f, DOMAIN f = S, \A x \in S : f[x] = 0
  PROVE  Total(f) = 0
<1>1. Total(f) = Sums(f, S)[S]
  BY TotalIsSum
<1> QED BY <1>1, SumsNone

\* f is one in B and nothing elsewhere.
Indicates(f, S, B) ==
    /\ IsFiniteSet(S) /\ DOMAIN f = S /\ B \in SUBSET S
    /\ \A x \in S : f[x] = IF x \in B THEN 1 ELSE 0

LEMMA TotalCount ==
  ASSUME NEW S, NEW f, NEW B, Indicates(f, S, B)
  PROVE  Total(f) = Cardinality(B)
<1>1. Total(f) = Sums(f, S)[S]
  BY TotalIsSum DEF Indicates
<1>2. Sums(f, S)[S] = Cardinality(B)
  BY SumsCount DEF Indicates
<1> QED BY <1>1, <1>2

\* f has nothing but at y.
Alone(f, S, y) == DOMAIN f = S /\ y \in S /\ f[y] \in Int /\ \A x \in S \ {y} : f[x] = 0

LEMMA TotalOne ==
  ASSUME NEW S, IsFiniteSet(S), NEW f, NEW y, Alone(f, S, y)
  PROVE  Total(f) = f[y]
<1>0. Addable(f, S) /\ y \in S
  BY DEF Addable, Alone
<1>1. Total(f) = Sums(f, S)[S]
  BY TotalIsSum DEF Alone
<1>2. Sums(f, S)[S] = f[y] + Sums(f, S)[S \ {y}]
  BY <1>0, SumsAll
<1>3. Sums(f, S)[S \ {y}] = 0
  <2>1. S \ {y} \in SUBSET S /\ \A x \in S \ {y} : f[x] = 0
    BY DEF Alone
  <2> QED BY <2>1, SumsNone
<1>4. f[y] \in Int
  BY DEF Alone
<1> QED BY <1>1, <1>2, <1>3, <1>4

LEMMA TotalTwo ==
  ASSUME NEW f \in [1 .. 2 -> Int]
  PROVE  Total(f) = f[1] + f[2]
<1> DEFINE a == [c \in 1 .. 2 |-> IF c = 1 THEN f[1] ELSE 0]
           b == [c \in 1 .. 2 |-> IF c = 2 THEN f[2] ELSE 0]
<1>0. IsFiniteSet(1 .. 2) /\ 1 .. 2 = {1, 2}
  <2>1. IsFiniteSet({1} \cup {2})
    BY FS_Singleton, FS_AddElement
  <2>2. 1 .. 2 = {1} \cup {2}
    OBVIOUS
  <2> QED BY <2>1, <2>2
<1>1. /\ a \in [1 .. 2 -> Int] /\ b \in [1 .. 2 -> Int]
      /\ a[1] = f[1] /\ b[2] = f[2] /\ \A c \in 1 .. 2 : f[c] = a[c] + b[c]
      /\ \A x \in (1 .. 2) \ {1} : a[x] = 0
      /\ \A x \in (1 .. 2) \ {2} : b[x] = 0
  BY <1>0
<1>2. 1 \in 1 .. 2 /\ 2 \in 1 .. 2
  OBVIOUS
<1> HIDE DEF a, b
<1>3. Alone(a, 1 .. 2, 1) /\ Alone(b, 1 .. 2, 2)
  BY <1>1, <1>2 DEF Alone
<1>4. Total(a) = a[1] /\ Total(b) = b[2]
  BY <1>0, <1>3, TotalOne
<1>6. Plus(1 .. 2, f, a, b)
  BY <1>0, <1>1 DEF Plus
<1>5. Total(f) = Total(a) + Total(b)
  BY <1>6, TotalPlus
<1> QED BY <1>1, <1>4, <1>5

\* The totals of the first and of the second half of an index.
Halves(n, f, a, b) ==
    /\ a \in [1 .. n -> Int] /\ b \in [1 .. n -> Int] /\ DOMAIN f = 1 .. 2 * n
    /\ \A x \in 1 .. n : f[x] = a[x] /\ f[n + x] = b[x]

LEMMA TotalHalves ==
  ASSUME NEW n \in Nat, NEW f, NEW a, NEW b, Halves(n, f, a, b)
  PROVE  Total(f) = Total(a) + Total(b)
<1> DEFINE S == 1 .. 2 * n
           A == 1 .. n
           B == {n + x : x \in 1 .. n}
           e == [x \in A |-> x]
           h == [x \in A |-> n + x]
<1>1. IsFiniteSet(S) /\ IsFiniteSet(A)
  BY FS_Interval
<1>2. A \in SUBSET S /\ B \in SUBSET S /\ A \cap B = {}
  OBVIOUS
<1>3. S \subseteq A \cup B
  <2>1. ASSUME NEW x \in S, x \notin A PROVE x \in B
    <3>1. x - n \in 1 .. n /\ x = n + (x - n)
      BY <2>1
    <3> QED BY <3>1
  <2> QED BY <2>1
<1>4. \A x \in S : f[x] \in Int
  <2>1. \A x \in A : f[x] \in Int /\ f[n + x] \in Int
    BY DEF Halves
  <2> QED BY <1>3, <2>1
<1>5. /\ e \in [A -> S] /\ h \in [A -> S]
      /\ \A x \in A : a[x] = f[e[x]] /\ b[x] = f[h[x]] /\ a[x] \in Int /\ b[x] \in Int
      /\ \A x, y \in A : e[x] = e[y] => x = y
      /\ \A x, y \in A : h[x] = h[y] => x = y
      /\ {e[x] : x \in A} = A /\ {h[x] : x \in A} = B
  BY DEF Halves
<1>6. Total(f) = Sums(f, S)[S] /\ Total(a) = Sums(a, A)[A] /\ Total(b) = Sums(b, A)[A]
  BY TotalIsSum DEF Halves
<1>9. A \in SUBSET A /\ A \cup B = S
  BY <1>2, <1>3
<1> HIDE DEF S, A, B, e, h
<1>12. Addable(a, A) /\ Addable(b, A) /\ Addable(f, S)
  BY <1>1, <1>4, <1>5 DEF Addable
<1>13. Parts(S, A, B)
  BY <1>2, <1>9 DEF Parts
<1>11. Along(a, A, A, e, f, S, A) /\ Along(b, A, A, h, f, S, B)
  BY <1>12, <1>5, <1>9 DEF Along
<1>7. Sums(f, S)[S] = Sums(a, A)[A] + Sums(b, A)[A]
  BY <1>11, <1>12, <1>13, SumsParts
<1> QED BY <1>6, <1>7
-------------------------------------------------------------------------------
(* Ranks by the remainder, and arithmetic.                                 *)

LEMMA DivMod ==
  ASSUME NEW x \in Nat, NEW t \in Nat \ {0}
  PROVE  x \div t \in Nat /\ x % t \in 0 .. t - 1 /\ x = t * (x \div t) + (x % t)
OBVIOUS

LEMMA TimesNat == ASSUME NEW x \in Nat, NEW y \in Nat PROVE x * y \in Nat
OBVIOUS

LEMMA TimesLess ==
  ASSUME NEW t \in Nat, NEW x \in Int, NEW y \in Int, x <= y
  PROVE  t * x <= t * y
<1>1. PICK d \in Nat : y = x + d
  <2>1. y - x \in Nat /\ y = x + (y - x)
    OBVIOUS
  <2> QED BY <2>1
<1>2. t * y = t * x + t * d /\ t * d \in Nat /\ t * x \in Int
  BY <1>1
<1> QED BY <1>2

\* A multiple of t that is within t - 1 each of c things is at most t times c.
LEMMA Leftover ==
  ASSUME NEW t \in Nat \ {0}, NEW l \in Int, NEW c \in Nat, t * l <= (t - 1) * c
  PROVE  l <= c
<1> SUFFICES ASSUME c + 1 <= l PROVE FALSE
  OBVIOUS
<1>1. t * (c + 1) <= t * l
  BY TimesLess
<1>2. t * (c + 1) = t * c + t /\ (t - 1) * c = t * c - c /\ t * c \in Int /\ t * l \in Int
  OBVIOUS
<1> QED BY <1>1, <1>2

LEMMA NotNegative ==
  ASSUME NEW t \in Nat \ {0}, NEW l \in Int, t * l >= 0
  PROVE  l \in Nat
<1> SUFFICES ASSUME l <= -1 PROVE FALSE
  OBVIOUS
<1>1. t * l <= t * (-1)
  BY TimesLess
<1>2. t * (-1) = -t
  OBVIOUS
<1> QED BY <1>1, <1>2

-------------------------------------------------------------------------------
LEMMA AheadRanks ==
  ASSUME NEW n \in Nat, NEW r \in [1 .. n -> Int], NEW i \in 1 .. n
  PROVE  /\ Ahead(r, i) \in SUBSET (1 .. n) /\ IsFiniteSet(Ahead(r, i))
         /\ Cardinality(Ahead(r, i)) \in 0 .. n - 1
<1>1. Ahead(r, i) \in SUBSET ((1 .. n) \ {i})
  BY DEF Ahead
<1>2. IsFiniteSet(1 .. n) /\ Cardinality(1 .. n) = n
  BY FS_Interval
<1>3. IsFiniteSet((1 .. n) \ {i}) /\ Cardinality((1 .. n) \ {i}) = n - 1
  BY <1>2, FS_RemoveElement
<1>4. IsFiniteSet(Ahead(r, i)) /\ Cardinality(Ahead(r, i)) <= n - 1
  BY <1>1, <1>3, FS_Subset
<1>5. Cardinality(Ahead(r, i)) \in Nat
  BY <1>4, FS_CardinalityType
<1> QED BY <1>1, <1>4, <1>5

LEMMA AheadFewer ==
  ASSUME NEW n \in Nat, NEW r \in [1 .. n -> Int], NEW j \in 1 .. n, NEW i \in Ahead(r, j)
  PROVE  Cardinality(Ahead(r, i)) < Cardinality(Ahead(r, j))
<1>1. i \in 1 .. n
  BY DEF Ahead
<1>2. Ahead(r, i) \cup {i} \in SUBSET Ahead(r, j) /\ i \notin Ahead(r, i)
  BY <1>1 DEF Ahead
<1>3. /\ IsFiniteSet(Ahead(r, i)) /\ Cardinality(Ahead(r, i)) \in Nat
      /\ IsFiniteSet(Ahead(r, j)) /\ Cardinality(Ahead(r, j)) \in Nat
  BY <1>1, AheadRanks
<1>4. Cardinality(Ahead(r, i) \cup {i}) = Cardinality(Ahead(r, i)) + 1
  BY <1>2, <1>3, FS_AddElement
<1>5. Cardinality(Ahead(r, i) \cup {i}) <= Cardinality(Ahead(r, j))
  BY <1>2, <1>3, FS_Subset
<1> QED BY <1>3, <1>4, <1>5

\* As many indices are chosen as there are cents left.
LEMMA Chosen ==
  ASSUME NEW n \in Nat, NEW r \in [1 .. n -> Int], NEW l \in 0 .. n
  PROVE  Cardinality({i \in 1 .. n : Cardinality(Ahead(r, i)) < l}) = l
<1> DEFINE S == 1 .. n
           T == 0 .. n - 1
           rank == [i \in S |-> Cardinality(Ahead(r, i))]
           C == {i \in S : rank[i] < l}
           L == 0 .. l - 1
           part == [i \in C |-> rank[i]]
<1>1. IsFiniteSet(S) /\ Cardinality(S) = n /\ IsFiniteSet(T) /\ Cardinality(T) = n
  BY FS_Interval
<1>2. rank \in [S -> T]
  BY AheadRanks
<1>3. ASSUME NEW i \in S, NEW j \in S, rank[i] = rank[j] PROVE i = j
  <2> SUFFICES ASSUME i # j PROVE FALSE
    OBVIOUS
  <2>1. i \in Ahead(r, j) \/ j \in Ahead(r, i)
    BY DEF Ahead
  <2>2. rank[i] < rank[j] \/ rank[j] < rank[i]
    BY <2>1, AheadFewer
  <2>3. rank[i] \in Int /\ rank[j] \in Int
    BY <1>2
  <2> HIDE DEF rank
  <2> QED BY <1>3, <2>2, <2>3
<1>4. rank \in Injection(S, T)
  <2> HIDE DEF rank
  <2> QED BY <1>2, <1>3 DEF Injection, IsInjective
<1>5. rank \in Surjection(S, T)
  <2> HIDE DEF rank, S, T
  <2> QED BY <1>1, <1>4, FS_Injection
<1>6. \A k \in T : \E i \in S : rank[i] = k
  <2> HIDE DEF rank, S, T
  <2> QED BY <1>5 DEF Surjection
<1>7. part \in [C -> L] /\ \A i \in C : part[i] = rank[i]
  <2> HIDE DEF rank
  <2> QED BY <1>2
<1>8. \A k \in L : k \in T /\ \A i \in S : rank[i] = k => i \in C
  OBVIOUS
<1> HIDE DEF rank, part, C
<1>9. \A k \in L : \E i \in C : part[i] = k
  BY <1>6, <1>7, <1>8
<1>10. \A i, j \in C : part[i] = part[j] => i = j
  BY <1>3, <1>7 DEF C
<1>11. part \in Bijection(C, L)
  <2> HIDE DEF L
  <2> QED BY <1>7, <1>9, <1>10 DEF Bijection, Injection, Surjection, IsInjective
<1>12. IsFiniteSet(C)
  <2>1. C \in SUBSET S
    BY DEF C
  <2> QED BY <1>1, <2>1, FS_Subset
<1>13. Cardinality(L) = Cardinality(C)
  BY <1>11, <1>12, FS_Bijection DEF ExistsBijection
<1>14. Cardinality(L) = l
  BY FS_Interval
<1>15. C = {i \in 1 .. n : Cardinality(Ahead(r, i)) < l}
  BY DEF C, rank
<1> QED BY <1>13, <1>14, <1>15
-------------------------------------------------------------------------------
(* What largest remainder gives.                                           *)

\* f are the floors of the exact shares of the weights, r what they leave.
Floors(a, w, t, n, f, r) ==
    /\ f \in [1 .. n -> Nat] /\ r \in [1 .. n -> Nat]
    /\ \A i \in 1 .. n : r[i] < t /\ a * w[i] = t * f[i] + r[i]

\* s gives every weight its floor, and a cent more where it is in C.
Shaped(s, a, w, t, n, f, r, C) ==
    /\ s \in [1 .. n -> Nat] /\ Floors(a, w, t, n, f, r)
    /\ \A i \in 1 .. n : s[i] = f[i] + (IF i \in C THEN 1 ELSE 0)
    /\ \A i \in C : r[i] > 0
    /\ \A i, j \in 1 .. n : r[i] > r[j] /\ j \in C => i \in C

\* The cents that are left are no more than the weights that lost something.
LEMMA LeftFits ==
  ASSUME NEW n \in Nat, NEW w \in [1 .. n -> Nat], NEW t \in Nat \ {0}, Total(w) = t, NEW a \in Nat,
         NEW f, NEW r, Floors(a, w, t, n, f, r)
  PROVE  a - Total(f) \in 0 .. Cardinality({i \in 1 .. n : r[i] > 0})
<1> DEFINE S == 1 .. n
           P == {i \in S : r[i] > 0}
           one == [i \in S |-> IF i \in P THEN 1 ELSE 0]
           most == [i \in S |-> IF i \in P THEN t - 1 ELSE 0]
           all == [i \in S |-> a * w[i]]
           c == Cardinality(P)
<1>19. /\ f \in [1 .. n -> Nat] /\ r \in [1 .. n -> Nat]
       /\ \A i \in 1 .. n : r[i] < t /\ a * w[i] = t * f[i] + r[i]
  BY DEF Floors
<1>0. IsFiniteSet(S) /\ P \in SUBSET S
  BY FS_Interval
<1>1. IsFiniteSet(P) /\ c \in Nat
  BY <1>0, FS_Subset, FS_CardinalityType
<1>2. /\ w \in [S -> Int] /\ f \in [S -> Int] /\ r \in [S -> Int] /\ one \in [S -> Int]
      /\ most \in [S -> Int]
  BY <1>19
<1>3. all \in [S -> Int]
  <2>1. \A i \in S : a * w[i] \in Int
    BY TimesNat
  <2> QED BY <2>1
<1>4. \A i \in S : all[i] = a * w[i] + 0 * w[i] /\ all[i] = t * f[i] + 1 * r[i]
  <2> TAKE i \in S
  <2>1. all[i] = a * w[i] /\ a * w[i] = t * f[i] + r[i]
    BY <1>19
  <2>2. PICK x \in Int, y \in Int, z \in Int : x = w[i] /\ y = f[i] /\ z = r[i]
    BY <1>2
  <2>3. 0 * x = 0 /\ 1 * z = z /\ a * x \in Int /\ t * y \in Int
    OBVIOUS
  <2> HIDE DEF all
  <2> QED BY <2>1, <2>2, <2>3
<1>5. \A i \in S : most[i] = (t - 1) * one[i] + 0 * one[i] /\ r[i] <= most[i]
  <2> TAKE i \in S
  <2>1. CASE i \in P
    <3>1. most[i] = t - 1 /\ one[i] = 1 /\ (t - 1) * 1 = t - 1 /\ 0 * 1 = 0
      BY <2>1
    <3> QED BY <1>19, <3>1
  <2>2. CASE i \notin P
    <3>1. most[i] = 0 /\ one[i] = 0 /\ (t - 1) * 0 = 0 /\ 0 * 0 = 0 /\ r[i] = 0
      BY <1>19, <2>2
    <3> QED BY <3>1
  <2> QED BY <2>1, <2>2
<1>6. Indicates(one, S, P)
  BY <1>0 DEF Indicates
<1> HIDE DEF S, P, one, most, all, c
<1>7. Combined(S, all, a, w, 0, w) /\ Combined(S, all, t, f, 1, r)
  BY <1>0, <1>2, <1>3, <1>4 DEF Combined
<1>18. Combined(S, most, t - 1, one, 0, one)
  BY <1>0, <1>2, <1>5 DEF Combined
<1>8. Total(one) = c
  BY <1>6, TotalCount DEF c
<1>9. Total(all) = a * Total(w) + 0 * Total(w) /\ Total(all) = t * Total(f) + 1 * Total(r)
  BY <1>7, TotalLinear
<1>10. Total(most) = (t - 1) * Total(one) + 0 * Total(one)
  <2>1. t - 1 \in Int
    OBVIOUS
  <2> QED BY <1>18, <2>1, TotalLinear
<1>11. Total(r) <= Total(most)
  BY <1>0, <1>2, <1>5, TotalLess
<1>12. Total(r) \in Nat /\ Total(f) \in Nat
  <2>1. r \in [S -> Nat] /\ f \in [S -> Nat]
    BY <1>19 DEF S
  <2> QED BY <1>0, <2>1, TotalNat
<1>13. PICK F \in Nat, R \in Nat : F = Total(f) /\ R = Total(r)
  BY <1>12
<1>14. a * t = t * F + R /\ R <= (t - 1) * c
  <2>1. Total(all) = a * t + 0 * t /\ Total(all) = t * F + 1 * R
    BY <1>9, <1>13
  <2>2. R <= (t - 1) * c + 0 * c
    BY <1>8, <1>10, <1>11, <1>13
  <2> QED BY <1>1, <2>1, <2>2
<1>15. t * (a - F) = R
  BY <1>14
<1>16. a - F \in Nat
  BY <1>15, NotNegative
<1>17. a - F <= c
  BY <1>1, <1>14, <1>15, Leftover
<1> QED BY <1>1, <1>13, <1>16, <1>17 DEF c, P, S

LEMMA SplitFloors ==
  ASSUME NEW n \in Nat, NEW w \in [1 .. n -> Nat], NEW t \in Nat \ {0}, NEW a \in Nat
  PROVE  Floors(a, w, t, n, [i \in DOMAIN w |-> (a * w[i]) \div t], [i \in DOMAIN w |-> (a * w[i]) % t])
<1>1. ASSUME NEW i \in 1 .. n
      PROVE  /\ (a * w[i]) \div t \in Nat /\ (a * w[i]) % t \in Nat /\ (a * w[i]) % t < t
             /\ a * w[i] = t * ((a * w[i]) \div t) + ((a * w[i]) % t)
  <2>1. PICK x \in Nat : x = a * w[i]
    BY TimesNat
  <2>2. x \div t \in Nat /\ x % t \in 0 .. t - 1 /\ x = t * (x \div t) + (x % t)
    BY DivMod
  <2> QED BY <2>1, <2>2
<1>2. DOMAIN w = 1 .. n
  OBVIOUS
<1> QED BY <1>1, <1>2 DEF Floors

LEMMA SplitShaped ==
  ASSUME NEW n \in Nat, NEW w \in [1 .. n -> Nat], NEW t \in Nat \ {0}, Total(w) = t, NEW a \in Nat
  PROVE  /\ Total(Split(a, w, t)) = a
         /\ \E f, r, C : Shaped(Split(a, w, t), a, w, t, n, f, r, C)
<1> DEFINE S == 1 .. n
           f == [i \in DOMAIN w |-> (a * w[i]) \div t]
           r == [i \in DOMAIN w |-> (a * w[i]) % t]
           left == a - Total(f)
           P == {i \in S : r[i] > 0}
           C == {i \in S : Cardinality(Ahead(r, i)) < left}
           s == Split(a, w, t)
           one == [i \in S |-> IF i \in C THEN 1 ELSE 0]
<1>1. Floors(a, w, t, n, f, r)
  BY SplitFloors
<1>2. s = [i \in DOMAIN w |-> f[i] + (IF Cardinality(Ahead(r, i)) < left THEN 1 ELSE 0)]
  BY DEF Split
<1> HIDE DEF f, r, s
<1>3. f \in [S -> Nat] /\ r \in [S -> Nat] /\ r \in [S -> Int] /\ f \in [S -> Int] /\ DOMAIN w = S
  BY <1>1 DEF Floors
<1>4. left \in 0 .. Cardinality(P)
  BY <1>1, LeftFits
<1>5. IsFiniteSet(S) /\ Cardinality(S) = n /\ P \in SUBSET S /\ C \in SUBSET S
  BY FS_Interval
<1>16. DOMAIN one = S /\ one \in [S -> Int] /\ \A i \in S : one[i] = IF i \in C THEN 1 ELSE 0
  OBVIOUS
<1>17. \A i \in S : i \in C <=> Cardinality(Ahead(r, i)) < left
  OBVIOUS
<1>18. \A i \in S : i \in P <=> r[i] > 0
  OBVIOUS
<1>19. C = {i \in 1 .. n : Cardinality(Ahead(r, i)) < left}
  OBVIOUS
<1> HIDE DEF P, C, one
<1>6. Cardinality(P) \in Nat /\ Cardinality(P) <= n
  BY <1>5, FS_Subset, FS_CardinalityType
<1>7. \A i \in S : s[i] = f[i] + (IF i \in C THEN 1 ELSE 0) /\ s[i] \in Nat
  <2> HIDE DEF left
  <2> TAKE i \in S
  <2>1. s[i] = f[i] + (IF Cardinality(Ahead(r, i)) < left THEN 1 ELSE 0)
    BY <1>2, <1>3
  <2> QED BY <1>3, <1>17, <2>1
<1>8. s \in [S -> Nat] /\ s \in [S -> Int]
  <2> HIDE DEF left
  <2> QED BY <1>2, <1>3, <1>7
<1>9. ASSUME NEW i \in C PROVE r[i] > 0
  <2> SUFFICES ASSUME r[i] = 0 PROVE FALSE
    BY <1>3, <1>5
  <2>1. P \in SUBSET Ahead(r, i)
    BY <1>3, <1>5, <1>18 DEF Ahead
  <2>2. IsFiniteSet(Ahead(r, i)) /\ Cardinality(Ahead(r, i)) \in Nat
    BY <1>3, <1>5, AheadRanks
  <2>3. Cardinality(P) <= Cardinality(Ahead(r, i))
    BY <2>1, <2>2, FS_Subset
  <2>4. Cardinality(Ahead(r, i)) < left
    <3> HIDE DEF left
    <3> QED BY <1>5, <1>17
  <2> HIDE DEF left
  <2> QED BY <1>4, <1>6, <2>2, <2>3, <2>4
<1>10. ASSUME NEW i \in S, NEW j \in S, r[i] > r[j], j \in C PROVE i \in C
  <2> HIDE DEF left
  <2>1. i \in Ahead(r, j)
    BY <1>3, <1>10 DEF Ahead
  <2>2. Cardinality(Ahead(r, i)) < Cardinality(Ahead(r, j))
    BY <1>3, <2>1, AheadFewer
  <2>3. Cardinality(Ahead(r, j)) < left
    BY <1>10, <1>17
  <2>4. Cardinality(Ahead(r, i)) \in Nat /\ Cardinality(Ahead(r, j)) \in Nat
    <3>1. Cardinality(Ahead(r, i)) \in 0 .. n - 1 /\ Cardinality(Ahead(r, j)) \in 0 .. n - 1
      BY <1>3, AheadRanks
    <3> QED BY <3>1
  <2>5. left \in Int
    BY <1>4, <1>6
  <2>6. Cardinality(Ahead(r, i)) < left
    BY <2>2, <2>3, <2>4, <2>5
  <2> QED BY <1>17, <2>6
<1>11. Shaped(s, a, w, t, n, f, r, C)
  <2> HIDE DEF left
  <2> QED BY <1>1, <1>5, <1>7, <1>8, <1>9, <1>10 DEF Shaped
<1>12. Cardinality(C) = left
  <2>1. left \in 0 .. n
    <3> HIDE DEF left
    <3> QED BY <1>4, <1>6
  <2> HIDE DEF left
  <2>2. Cardinality({i \in 1 .. n : Cardinality(Ahead(r, i)) < left}) = left
    BY <1>3, <2>1, Chosen
  <2> QED BY <1>19, <2>2
<1>13. Total(one) = Cardinality(C)
  <2>1. Indicates(one, S, C)
    BY <1>5, <1>16 DEF Indicates
  <2> QED BY <2>1, TotalCount
<1>14. Total(s) = Total(f) + Total(one)
  <2>1. \A i \in S : s[i] = f[i] + one[i]
    BY <1>7, <1>16
  <2>2. Plus(S, s, f, one)
    BY <1>3, <1>5, <1>8, <1>16, <2>1 DEF Plus
  <2> QED BY <2>2, TotalPlus
<1>15. Total(f) \in Int
  BY <1>3, <1>5, TotalInt
<1>20. Total(s) = Total(f) + (a - Total(f))
  BY <1>12, <1>13, <1>14
<1>21. Total(s) = a
  BY <1>15, <1>20
<1> QED BY <1>11, <1>21 DEF s

-------------------------------------------------------------------------------
(* What a split is, for each weight: s is its part, f its floor, r the rest. *)

LEMMA PartNear ==
  ASSUME NEW a \in Nat, NEW t \in Nat \ {0}, NEW s \in Nat, NEW f \in Nat, NEW r \in Nat, NEW w \in Nat,
         r < t, a * w = t * f + r, s = f \/ (s = f + 1 /\ r > 0)
  PROVE  s * t < a * w + t /\ a * w < s * t + t
<1>1. PICK x \in Nat, y \in Nat : x = a * w /\ y = t * f
  BY TimesNat
<1>2. f * t = y /\ (f + 1) * t = y + t
  BY <1>1
<1>3. x = y + r
  BY <1>1
<1>4. CASE s = f
  <2>1. s * t = y
    BY <1>2, <1>4
  <2> QED BY <1>1, <1>3, <2>1
<1>5. CASE s = f + 1 /\ r > 0
  <2>1. s * t = y + t
    BY <1>2, <1>5
  <2> QED BY <1>1, <1>3, <1>5, <2>1
<1> QED BY <1>4, <1>5

LEMMA PartNone ==
  ASSUME NEW t \in Nat \ {0}, NEW s \in Nat, s * t < t
  PROVE  s = 0
<1> SUFFICES ASSUME 1 <= s PROVE FALSE
  OBVIOUS
<1>1. t * 1 <= t * s
  BY TimesLess
<1>2. t * 1 = t /\ t * s = s * t /\ s * t \in Int
  OBVIOUS
<1> QED BY <1>1, <1>2

LEMMA PartWithin ==
  ASSUME NEW a \in Nat, NEW t \in Nat \ {0}, NEW s \in Nat, NEW w \in Nat, s * t < a * w + t, a <= t
  PROVE  s <= w
<1> SUFFICES ASSUME w + 1 <= s PROVE FALSE
  OBVIOUS
<1>1. w * a <= w * t
  BY TimesLess
<1>2. t * (w + 1) <= t * s
  BY TimesLess
<1>3. PICK x \in Int, y \in Int, z \in Int : x = a * w /\ y = w * t /\ z = s * t
  BY TimesNat
<1>4. w * a = x /\ t * (w + 1) = y + t /\ t * s = z
  BY <1>3
<1>5. z < x + t /\ x <= y /\ y + t <= z
  BY <1>1, <1>2, <1>3, <1>4
<1> QED BY <1>3, <1>5

\* With weights w and v, floors f and g, rests r and q.
LEMMA FloorsOrder ==
  ASSUME NEW a \in Nat, NEW t \in Nat \ {0}, NEW w \in Nat, NEW v \in Nat, w >= v + 1,
         NEW f \in Nat, NEW g \in Nat, NEW r \in Nat, NEW q \in Nat, r < t, q < t,
         a * w = t * f + r, a * v = t * g + q
  PROVE  f >= g + 1 \/ (f = g /\ r >= q + a)
<1>1. a * (v + 1) <= a * w
  BY TimesLess
<1>2. PICK x \in Int, y \in Int, z \in Int : x = a * v /\ y = t * f /\ z = t * g
  BY TimesNat
<1>3. a * (v + 1) = x + a /\ x = z + q
  BY <1>2
<1>4. x + a <= y + r
  BY <1>1, <1>2, <1>3
<1>5. CASE f + 1 <= g
  <2>1. t * (f + 1) <= t * g
    BY <1>5, TimesLess
  <2>2. t * (f + 1) = y + t
    BY <1>2
  <2> QED BY <1>2, <1>3, <1>4, <2>1, <2>2
<1>6. CASE f = g
  <2>1. y = z
    BY <1>2, <1>6
  <2> QED BY <1>2, <1>3, <1>4, <1>6, <2>1
<1> QED BY <1>5, <1>6

LEMMA NoneLeft ==
  ASSUME NEW t \in Nat, NEW v \in Nat, NEW g \in Nat, NEW q \in Nat, 0 * v = t * g + q
  PROVE  q = 0
<1>1. PICK z \in Nat : z = t * g
  BY TimesNat
<1>2. 0 = z + q
  BY <1>1
<1> QED BY <1>1, <1>2

\* s is a part of a by weight w of t, with floor f and rest r.
Part(s, a, w, t, f, r) ==
    /\ s \in Nat /\ f \in Nat /\ r \in Nat /\ w \in Nat
    /\ r < t /\ a * w = t * f + r
    /\ s = f \/ (s = f + 1 /\ r > 0)

LEMMA ShapedIsPart ==
  ASSUME NEW s, NEW a, NEW w, NEW t, NEW n, NEW f, NEW r, NEW C,
         w \in [1 .. n -> Nat], Shaped(s, a, w, t, n, f, r, C), NEW i \in 1 .. n
  PROVE  Part(s[i], a, w[i], t, f[i], r[i])
<1>1. /\ s[i] \in Nat /\ f[i] \in Nat /\ r[i] \in Nat /\ w[i] \in Nat
      /\ r[i] < t /\ a * w[i] = t * f[i] + r[i]
      /\ s[i] = f[i] \/ (s[i] = f[i] + 1 /\ r[i] > 0)
  BY DEF Shaped, Floors
<1> QED BY <1>1, Zenon DEF Part

LEMMA PartFair ==
  ASSUME NEW s, NEW a \in Nat, NEW w, NEW t \in Nat \ {0}, NEW f, NEW r, Part(s, a, w, t, f, r)
  PROVE  /\ s * t < a * w + t /\ a * w < s * t + t
         /\ w = 0 => s = 0
         /\ a <= t => s <= w
<1>0. /\ s \in Nat /\ f \in Nat /\ r \in Nat /\ w \in Nat
      /\ r < t /\ a * w = t * f + r
      /\ s = f \/ (s = f + 1 /\ r > 0)
  BY DEF Part
<1>1. s * t < a * w + t /\ a * w < s * t + t
  BY <1>0, PartNear
<1>2. ASSUME w = 0 PROVE s = 0
  <2>1. a * w = 0
    BY <1>2
  <2>2. s * t < t
    BY <1>0, <1>1, <2>1
  <2> QED BY <1>0, <2>2, PartNone
<1>3. a <= t => s <= w
  BY <1>0, <1>1, PartWithin
<1> QED BY <1>1, <1>2, <1>3

\* The larger of two rests is served first.
LEMMA PartsOrder ==
  ASSUME NEW a \in Nat, NEW t \in Nat \ {0},
         NEW s, NEW w, NEW f, NEW r, Part(s, a, w, t, f, r),
         NEW z, NEW v, NEW g, NEW q, Part(z, a, v, t, g, q),
         w > v, r > q /\ z = g + 1 => s = f + 1
  PROVE  s >= z
<1>1. /\ s \in Nat /\ f \in Nat /\ r \in Nat /\ w \in Nat
      /\ r < t /\ a * w = t * f + r
      /\ s = f \/ (s = f + 1 /\ r > 0)
  BY DEF Part
<1>2. /\ z \in Nat /\ g \in Nat /\ q \in Nat /\ v \in Nat
      /\ q < t /\ a * v = t * g + q
      /\ z = g \/ (z = g + 1 /\ q > 0)
  BY DEF Part
<1>3. w >= v + 1
  BY <1>1, <1>2
<1>4. f >= g + 1 \/ (f = g /\ r >= q + a)
  BY <1>1, <1>2, <1>3, FloorsOrder
<1>5. ASSUME a = 0 PROVE q = 0
  BY <1>2, <1>5, NoneLeft
<1>6. a = 0 \/ a > 0
  OBVIOUS
<1> QED BY <1>1, <1>2, <1>4, <1>5, <1>6

\* Each part is less than one from the exact share; nothing goes to no weight,
\* and no more than the weight when there is no more than the whole.
LEMMA ShapedNear ==
  ASSUME NEW s, NEW a \in Nat, NEW w, NEW t \in Nat \ {0}, NEW n \in Nat, NEW f, NEW r, NEW C,
         w \in [1 .. n -> Nat], Shaped(s, a, w, t, n, f, r, C), NEW i \in 1 .. n
  PROVE  /\ s[i] * t < a * w[i] + t /\ a * w[i] < s[i] * t + t
         /\ w[i] = 0 => s[i] = 0
         /\ a <= t => s[i] <= w[i]
<1>1. Part(s[i], a, w[i], t, f[i], r[i])
  BY ShapedIsPart
<1> QED BY <1>1, PartFair

\* Nobody with more weight gets less.
LEMMA ShapedOrder ==
  ASSUME NEW s, NEW a \in Nat, NEW w, NEW t \in Nat \ {0}, NEW n \in Nat, NEW f, NEW r, NEW C,
         w \in [1 .. n -> Nat], Shaped(s, a, w, t, n, f, r, C),
         NEW i \in 1 .. n, NEW j \in 1 .. n, w[i] > w[j]
  PROVE  s[i] >= s[j]
<1>1. Part(s[i], a, w[i], t, f[i], r[i]) /\ Part(s[j], a, w[j], t, f[j], r[j])
  BY ShapedIsPart
<1>2. /\ s[i] = f[i] + (IF i \in C THEN 1 ELSE 0) /\ s[j] = f[j] + (IF j \in C THEN 1 ELSE 0)
      /\ (r[i] > r[j] /\ j \in C => i \in C)
      /\ f[j] \in Nat
  BY <1>1 DEF Shaped, Part
<1>3. r[i] > r[j] /\ s[j] = f[j] + 1 => s[i] = f[i] + 1
  BY <1>2
<1> QED BY <1>1, <1>3, PartsOrder
-------------------------------------------------------------------------------
(* The order of the parts.                                                 *)

LEMMA PartMore ==
  ASSUME NEW a \in Nat, NEW t \in Nat \ {0},
         NEW s, NEW w, NEW f, NEW r, Part(s, a, w, t, f, r),
         NEW z, NEW v, NEW g, NEW q, Part(z, a, v, t, g, q),
         a * w > a * v + t, r > q /\ z = g + 1 => s = f + 1
  PROVE  s > z
<1>1. /\ s \in Nat /\ f \in Nat /\ r \in Nat /\ w \in Nat
      /\ r < t /\ a * w = t * f + r
      /\ s = f \/ (s = f + 1 /\ r > 0)
  BY DEF Part
<1>2. /\ z \in Nat /\ g \in Nat /\ q \in Nat /\ v \in Nat
      /\ q < t /\ a * v = t * g + q
      /\ z = g \/ (z = g + 1 /\ q > 0)
  BY DEF Part
<1>3. PICK x \in Int, y \in Int : x = t * f /\ y = t * g
  BY <1>1, <1>2, TimesNat
<1>4. x + r > y + q + t
  BY <1>1, <1>2, <1>3
<1>5. CASE f <= g
  <2>1. t * f <= t * g
    BY <1>1, <1>2, <1>5, TimesLess
  <2> QED BY <1>1, <1>2, <1>3, <1>4, <2>1
<1>6. CASE f = g + 1
  <2>1. t * (g + 1) = t * g + t
    BY <1>2
  <2>2. x = y + t
    BY <1>3, <1>6, <2>1
  <2>3. r > q
    BY <1>1, <1>2, <1>3, <1>4, <2>2
  <2> QED BY <1>1, <1>2, <1>6, <2>3
<1>7. CASE f >= g + 2
  BY <1>1, <1>2, <1>7
<1> QED BY <1>1, <1>2, <1>5, <1>6, <1>7

LEMMA PartsSame ==
  ASSUME NEW t \in Nat \ {0}, NEW x \in Int, NEW s \in Nat, NEW z \in Nat,
         x < s * t + t, z * t < x + t
  PROVE  s >= z - 1
<1> SUFFICES ASSUME s + 2 <= z PROVE FALSE
  OBVIOUS
<1>1. t * (s + 2) <= t * z
  BY TimesLess
<1>2. PICK y \in Int, k \in Int : y = s * t /\ k = z * t
  BY TimesNat
<1>3. t * (s + 2) = y + 2 * t /\ t * z = k
  BY <1>2
<1> QED BY <1>1, <1>2, <1>3

\* The cents of a by the weights w, of which there are t in all.
Fair(s, a, w, t, n) ==
    /\ s \in [1 .. n -> Nat] /\ Total(s) = a
    /\ \A i \in 1 .. n :
          /\ s[i] * t < a * w[i] + t /\ a * w[i] < s[i] * t + t
          /\ w[i] = 0 => s[i] = 0
          /\ a <= t => s[i] <= w[i]
    /\ \A i, j \in 1 .. n :
          /\ w[i] > w[j] => s[i] >= s[j]
          /\ a * w[i] > a * w[j] + t => s[i] > s[j]

LEMMA ShapedMore ==
  ASSUME NEW s, NEW a \in Nat, NEW w, NEW t \in Nat \ {0}, NEW n \in Nat, NEW f, NEW r, NEW C,
         w \in [1 .. n -> Nat], Shaped(s, a, w, t, n, f, r, C),
         NEW i \in 1 .. n, NEW j \in 1 .. n, a * w[i] > a * w[j] + t
  PROVE  s[i] > s[j]
<1>1. Part(s[i], a, w[i], t, f[i], r[i]) /\ Part(s[j], a, w[j], t, f[j], r[j])
  BY ShapedIsPart
<1>2. /\ s[i] = f[i] + (IF i \in C THEN 1 ELSE 0) /\ s[j] = f[j] + (IF j \in C THEN 1 ELSE 0)
      /\ (r[i] > r[j] /\ j \in C => i \in C)
      /\ f[j] \in Nat
  BY <1>1 DEF Shaped, Part
<1>3. r[i] > r[j] /\ s[j] = f[j] + 1 => s[i] = f[i] + 1
  BY <1>2
<1> QED BY <1>1, <1>3, PartMore

\* Largest remainder: the parts of weights that make up the whole add up to the
\* amount, each less than one from its exact share; no weight gets nothing, more
\* weight no less, and more by over one whole gets more (distributeLargestRemainder).
THEOREM SplitFair ==
  ASSUME NEW n \in Nat, NEW w \in [1 .. n -> Nat], NEW t \in Nat \ {0}, Total(w) = t, NEW a \in Nat
  PROVE  Fair(Split(a, w, t), a, w, t, n)
<1> DEFINE s == Split(a, w, t)
<1>1. Total(s) = a
  BY SplitShaped
<1>2. PICK f, r, C : Shaped(s, a, w, t, n, f, r, C)
  BY SplitShaped
<1> HIDE DEF s
<1>3. s \in [1 .. n -> Nat]
  BY <1>2 DEF Shaped
<1>4. \A i \in 1 .. n :
          /\ s[i] * t < a * w[i] + t /\ a * w[i] < s[i] * t + t
          /\ w[i] = 0 => s[i] = 0
          /\ a <= t => s[i] <= w[i]
  BY <1>2, ShapedNear
<1>5. \A i, j \in 1 .. n : w[i] > w[j] => s[i] >= s[j]
  BY <1>2, ShapedOrder
<1>6. \A i, j \in 1 .. n : a * w[i] > a * w[j] + t => s[i] > s[j]
  BY <1>2, ShapedMore
<1>7. Fair(s, a, w, t, n)
  BY <1>1, <1>3, <1>4, <1>5, <1>6, Zenon DEF Fair
<1> QED BY <1>7 DEF s

-------------------------------------------------------------------------------
\* Everything is handed out, in cents, unless there is nothing to hand it out by.
Handed(s, a, w, n) ==
    /\ s \in [1 .. n -> Nat]
    /\ (a = 0 \/ Total(w) > 0) => Total(s) = a
    /\ a <= Total(w) => Total(s) = a /\ \A i \in 1 .. n : s[i] <= w[i]

\* All is handed out when there is any weight, and nobody gets more than the
\* weight when there is no more than the whole: VAT within cents.
THEOREM DistributeHanded ==
  ASSUME NEW n \in Nat, NEW w \in [1 .. n -> Nat], NEW a \in Nat
  PROVE  Handed(Distribute(a, w), a, w, n)
<1> DEFINE t == Total(w)
           s == Distribute(a, w)
<1>0. IsFiniteSet(1 .. n)
  BY FS_Interval
<1>1. t \in Nat /\ \A i \in 1 .. n : w[i] \in Nat
  BY <1>0, TotalNat
<1>2. CASE a = 0 \/ t = 0
  <2>1. s = [i \in 1 .. n |-> 0]
    BY <1>2 DEF Distribute
  <2>2. Total([i \in 1 .. n |-> 0]) = 0
    BY FS_Interval, TotalNone
  <2>3. s \in [1 .. n -> Nat] /\ Total(s) = 0 /\ \A i \in 1 .. n : s[i] = 0
    BY <2>1, <2>2
  <2> HIDE DEF s
  <2>4. (a = 0 \/ t > 0) => a = 0
    BY <1>1, <1>2
  <2>5. a <= t => a = 0
    BY <1>1, <1>2
  <2>6. \A i \in 1 .. n : s[i] <= w[i]
    BY <1>1, <2>3
  <2>7. Handed(s, a, w, n)
    BY <2>3, <2>4, <2>5, <2>6 DEF Handed
  <2> QED BY <2>7 DEF s
<1>3. CASE a # 0 /\ t # 0
  <2>1. s = Split(a, w, t)
    BY <1>3 DEF Distribute
  <2>2. t \in Nat \ {0} /\ Total(w) = t
    BY <1>1, <1>3
  <2> HIDE DEF t, s
  <2>3. Fair(s, a, w, t, n)
    BY <2>1, <2>2, SplitFair
  <2>4. s \in [1 .. n -> Nat] /\ Total(s) = a /\ \A i \in 1 .. n : (a <= t => s[i] <= w[i])
    BY <2>3 DEF Fair
  <2>5. Handed(s, a, w, n)
    BY <2>2, <2>4 DEF Handed
  <2> QED BY <2>5 DEF s
<1> QED BY <1>2, <1>3

LEMMA DistributeFair ==
  ASSUME NEW n \in Nat, NEW w \in [1 .. n -> Nat], NEW a \in Nat, Total(w) > 0
  PROVE  Fair(Distribute(a, w), a, w, Total(w), n)
<1> DEFINE t == Total(w)
           s == Distribute(a, w)
<1>0. IsFiniteSet(1 .. n)
  BY FS_Interval
<1>1. t \in Nat \ {0} /\ Total(w) = t /\ t # 0
  BY <1>0, TotalNat
<1>2. CASE a = 0
  <2>1. s = [i \in 1 .. n |-> 0]
    BY <1>2 DEF Distribute
  <2>2. Total([i \in 1 .. n |-> 0]) = 0
    BY <1>0, TotalNone
  <2>3. s \in [1 .. n -> Nat] /\ Total(s) = 0 /\ \A i \in 1 .. n : s[i] = 0 /\ w[i] \in Nat
    BY <2>1, <2>2
  <2> HIDE DEF s, t
  <2>4. \A i \in 1 .. n :
          /\ s[i] * t < a * w[i] + t /\ a * w[i] < s[i] * t + t
          /\ w[i] = 0 => s[i] = 0
          /\ a <= t => s[i] <= w[i]
    <3> TAKE i \in 1 .. n
    <3>1. s[i] * t = 0 /\ a * w[i] = 0 /\ s[i] <= w[i] /\ s[i] = 0 /\ 0 < 0 + t
      BY <1>1, <1>2, <2>3
    <3> QED BY <3>1
  <2>5. \A i, j \in 1 .. n : s[i] >= s[j] /\ ~(a * w[i] > a * w[j] + t)
    <3> TAKE i, j \in 1 .. n
    <3>1. s[i] = 0 /\ s[j] = 0 /\ a * w[i] = 0 /\ a * w[j] = 0
      BY <1>2, <2>3
    <3> QED BY <1>1, <3>1
  <2>6. Fair(s, a, w, t, n)
    BY <1>2, <2>3, <2>4, <2>5, Zenon DEF Fair
  <2> QED BY <2>6 DEF s, t
<1>3. CASE a # 0
  <2>1. s = Split(a, w, t)
    BY <1>1, <1>3 DEF Distribute
  <2> HIDE DEF t, s
  <2>3. Fair(s, a, w, t, n)
    BY <1>1, <2>1, SplitFair
  <2> QED BY <2>3 DEF s, t
<1> QED BY <1>2, <1>3

LEMMA MillionNat == Million \in Nat \ {0} /\ Million \in Nat
BY StatementAssumption

\* The shares of a basis are rounded to a whole million.
LEMMA SharesFit ==
  ASSUME NEW n \in Nat, NEW b \in [1 .. n -> Nat], Total(b) > 0
  PROVE  /\ SharePPM(b) \in [1 .. n -> Nat] /\ Total(SharePPM(b)) = Million
         /\ Fair(SharePPM(b), Million, b, Total(b), n)
<1>1. Fair(SharePPM(b), Million, b, Total(b), n)
  BY DistributeFair, MillionNat DEF SharePPM
<1> QED BY <1>1 DEF Fair

LEMMA CentsFit ==
  ASSUME NEW n \in Nat, NEW h \in [1 .. n -> Nat], Total(h) = Million, NEW a \in Nat
  PROVE  /\ RunCents(h, a) \in [1 .. n -> Nat] /\ Total(RunCents(h, a)) = a
         /\ Fair(RunCents(h, a), a, h, Million, n)
<1>1. Fair(RunCents(h, a), a, h, Million, n)
  BY SplitFair, MillionNat DEF RunCents
<1> QED BY <1>1 DEF Fair

-------------------------------------------------------------------------------
(* Rounding to a share and then to cents. *)

\* c is less than one from a * h / m, and h less than one from m * b / t.
LEMMA NearTwice ==
  ASSUME NEW c \in Nat, NEW a \in Nat, NEW h \in Nat, NEW m \in Nat \ {0}, NEW b \in Nat,
         NEW t \in Nat \ {0},
         c * m < a * h + m, a * h < c * m + m, h * t < m * b + t, m * b < h * t + t
  PROVE  LET off == c * t - a * b
         IN (IF off < 0 THEN -off ELSE off) * m < t * (m + a)
<1> DEFINE off == c * t - a * b
<1>1. PICK d \in Int : d = c * m - a * h
  OBVIOUS
<1>2. PICK e \in Int : e = h * t - m * b
  OBVIOUS
<1>3. d < m /\ -d < m
  <2>1. PICK x \in Int, y \in Int : x = c * m /\ y = a * h
    BY TimesNat
  <2> QED BY <1>1, <2>1
<1>4. e < t /\ -e < t
  <2>1. PICK x \in Int, y \in Int : x = h * t /\ y = m * b
    BY TimesNat
  <2> QED BY <1>2, <2>1
<1>5. off * m = t * d + a * e
  <2>1. t * d = t * (c * m) - t * (a * h) /\ a * e = a * (h * t) - a * (m * b)
    BY <1>1, <1>2
  <2>2. off * m = (c * t) * m - (a * b) * m
    OBVIOUS
  <2>3. t * (c * m) = (c * t) * m /\ t * (a * h) = a * (h * t) /\ a * (m * b) = (a * b) * m
    OBVIOUS
  <2>4. PICK x \in Int, y \in Int, z \in Int : x = (c * t) * m /\ y = a * (h * t) /\ z = (a * b) * m
    OBVIOUS
  <2> QED BY <2>1, <2>2, <2>3, <2>4
<1>6. t * d + t <= t * m /\ t * (-d) + t <= t * m
  <2>1. t * (d + 1) <= t * m /\ t * (-d + 1) <= t * m
    BY <1>3, TimesLess
  <2>2. t * (d + 1) = t * d + t /\ t * (-d + 1) = t * (-d) + t
    OBVIOUS
  <2> QED BY <2>1, <2>2
<1>7. a * e <= a * t /\ a * (-e) <= a * t
  <2>1. e <= t /\ -e <= t
    BY <1>4
  <2> QED BY <2>1, TimesLess
<1>8. PICK x \in Int, y \in Int, z \in Int, k \in Int : x = t * d /\ y = a * e /\ z = t * m /\ k = a * t
  OBVIOUS
<1>9. t * (-d) = -x /\ a * (-e) = -y /\ t * (m + a) = z + k
  BY <1>8
<1>10. off * m = x + y /\ (-off) * m = -(x + y) /\ off \in Int
  <2>1. off * m = x + y /\ off \in Int
    BY <1>5, <1>8
  <2> HIDE DEF off
  <2>2. (-off) * m = -(off * m)
    BY <2>1
  <2> QED BY <2>1, <2>2
<1>11. x + y < z + k /\ -(x + y) < z + k
  BY <1>6, <1>7, <1>8, <1>9
<1> HIDE DEF off
<1>12. (IF off < 0 THEN -off ELSE off) * m < z + k
  BY <1>10, <1>11
<1> QED BY <1>9, <1>12 DEF off
-------------------------------------------------------------------------------
(* Cents of the units.                                                     *)

\* The cents of a by the basis b, rounded to shares before or not.
Rounded(c, a, b) ==
    /\ c \in [Unit -> Nat] /\ Total(c) = a
    /\ Near(c, a, b)
    /\ \A u \in Unit : b[u] = 0 => c[u] = 0
    /\ \A u, v \in Unit :
          /\ (b[u] - b[v]) * Million > Total(b) => c[u] >= c[v]
          /\ b[u] - b[v] > 0 => c[u] >= c[v] - 1

LEMMA NearIs ==
  ASSUME NEW c, NEW a, NEW b \in [Unit -> Nat],
         \A i \in Unit : LET off == c[i] * Total(b) - a * b[i]
                         IN (IF off < 0 THEN -off ELSE off) * Million < Total(b) * (Million + a)
  PROVE  Near(c, a, b)
BY DEF Near

LEMMA TwiceRounded ==
  ASSUME NEW b \in [Unit -> Nat], Total(b) > 0, NEW a \in Nat
  PROVE  Rounded(RunCents(SharePPM(b), a), a, b)
<1> DEFINE h == SharePPM(b)
           c == RunCents(h, a)
           t == Total(b)
           m == Million
<1>0. Unit = 1 .. Units /\ Units \in Nat /\ IsFiniteSet(Unit) /\ m \in Nat \ {0}
  BY StatementAssumption, FS_Interval DEF Unit
<1>1. t \in Nat \ {0} /\ t > 0
  BY <1>0, TotalNat
<1>2. h \in [Unit -> Nat] /\ Total(h) = m /\ Fair(h, m, b, t, Units)
  BY <1>0, SharesFit
<1> HIDE DEF h, m
<1>3. c \in [Unit -> Nat] /\ Total(c) = a /\ Fair(c, a, h, m, Units)
  BY <1>0, <1>2, CentsFit DEF m
<1> HIDE DEF c, t
<1>4. ASSUME NEW i \in Unit
      PROVE  /\ c[i] \in Nat /\ h[i] \in Nat /\ b[i] \in Nat
             /\ c[i] * m < a * h[i] + m /\ a * h[i] < c[i] * m + m
             /\ h[i] * t < m * b[i] + t /\ m * b[i] < h[i] * t + t
             /\ b[i] = 0 => h[i] = 0
             /\ h[i] = 0 => c[i] = 0
  BY <1>0, <1>2, <1>3 DEF Fair
<1>5. ASSUME NEW i \in Unit, NEW j \in Unit
      PROVE  /\ h[i] > h[j] => c[i] >= c[j]
             /\ b[i] > b[j] => h[i] >= h[j]
             /\ m * b[i] > m * b[j] + t => h[i] > h[j]
  BY <1>0, <1>2, <1>3 DEF Fair
<1>6. ASSUME NEW i \in Unit
      PROVE  LET off == c[i] * t - a * b[i]
             IN (IF off < 0 THEN -off ELSE off) * m < t * (m + a)
  BY <1>0, <1>1, <1>4, NearTwice
<1>7. Near(c, a, b)
  BY <1>6, NearIs DEF t, m
<1>8. ASSUME NEW i \in Unit, NEW j \in Unit, (b[i] - b[j]) * m > t PROVE c[i] >= c[j]
  <2>1. b[i] \in Nat /\ b[j] \in Nat
    BY <1>4
  <2>2. (b[i] - b[j]) * m = m * b[i] - m * b[j]
    BY <1>0, <2>1
  <2>3. PICK x \in Int, y \in Int : x = m * b[i] /\ y = m * b[j]
    BY <1>0, <2>1, TimesNat
  <2>4. m * b[i] > m * b[j] + t
    BY <1>1, <1>8, <2>2, <2>3
  <2> QED BY <1>5, <2>4
<1>9. ASSUME NEW i \in Unit, NEW j \in Unit, b[i] - b[j] > 0 PROVE c[i] >= c[j] - 1
  <2>1. b[i] > b[j] /\ c[i] \in Nat /\ c[j] \in Nat /\ h[i] \in Nat /\ h[j] \in Nat
    BY <1>4, <1>9
  <2>2. h[i] > h[j] \/ h[i] = h[j]
    BY <1>5, <2>1
  <2>3. CASE h[i] > h[j]
    BY <1>5, <2>1, <2>3
  <2>4. CASE h[i] = h[j]
    <3>1. PICK x \in Int : x = a * h[i]
      BY <2>1
    <3>2. x < c[i] * m + m /\ c[j] * m < x + m
      BY <1>4, <2>4, <3>1
    <3> QED BY <1>0, <2>1, <3>2, PartsSame
  <2> QED BY <2>2, <2>3, <2>4
<1>10. \A i \in Unit : b[i] = 0 => c[i] = 0
  BY <1>4
<1>11. Rounded(c, a, b)
  BY <1>3, <1>7, <1>8, <1>9, <1>10, Zenon DEF Rounded, t, m
<1> QED BY <1>11 DEF c, h

LEMMA TimesNear ==
  ASSUME NEW x \in Nat, NEW m \in Nat \ {0}
  PROVE  x * m < m * x + m /\ m * x < x * m + m
<1>1. PICK y \in Int : y = x * m
  OBVIOUS
<1>2. m * x = y
  BY <1>1
<1> QED BY <1>1, <1>2

LEMMA OnceRounded ==
  ASSUME NEW b \in [Unit -> Nat], Total(b) = Million, NEW a \in Nat
  PROVE  Rounded(RunCents(b, a), a, b)
<1> DEFINE c == RunCents(b, a)
           m == Million
<1>0. Unit = 1 .. Units /\ Units \in Nat /\ m \in Nat \ {0} /\ Total(b) = m
  BY StatementAssumption DEF Unit
<1> HIDE DEF m
<1>3. c \in [Unit -> Nat] /\ Total(c) = a /\ Fair(c, a, b, m, Units)
  BY <1>0, CentsFit DEF m
<1> HIDE DEF c
<1>4. ASSUME NEW i \in Unit
      PROVE  /\ c[i] \in Nat /\ b[i] \in Nat
             /\ c[i] * m < a * b[i] + m /\ a * b[i] < c[i] * m + m
             /\ b[i] = 0 => c[i] = 0
  BY <1>0, <1>3 DEF Fair
<1>5. ASSUME NEW i \in Unit, NEW j \in Unit, b[i] > b[j] PROVE c[i] >= c[j]
  BY <1>0, <1>3, <1>5 DEF Fair
<1>6. ASSUME NEW i \in Unit
      PROVE  LET off == c[i] * m - a * b[i]
             IN (IF off < 0 THEN -off ELSE off) * m < m * (m + a)
  <2>1. PICK x \in Nat : x = b[i]
    BY <1>4
  <2>2. x * m < m * x + m /\ m * x < x * m + m
    BY <1>0, TimesNear
  <2> QED BY <1>0, <1>4, <2>1, <2>2, NearTwice
<1>7. Near(c, a, b)
  BY <1>0, <1>6, NearIs DEF m
<1>8. ASSUME NEW i \in Unit, NEW j \in Unit, (b[i] - b[j]) * m > m PROVE c[i] >= c[j]
  <2>1. PICK x \in Nat, y \in Nat : x = b[i] /\ y = b[j]
    BY <1>4
  <2>2. x > y
    <3> SUFFICES ASSUME x - y <= 0 PROVE FALSE
      BY <2>1
    <3>1. m * (x - y) <= m * 0
      BY <1>0, TimesLess
    <3>2. m * (x - y) = (b[i] - b[j]) * m /\ m * 0 = 0
      BY <1>0, <2>1
    <3> QED BY <1>0, <1>8, <3>1, <3>2
  <2> QED BY <1>5, <2>1, <2>2
<1>9. ASSUME NEW i \in Unit, NEW j \in Unit, b[i] - b[j] > 0 PROVE c[i] >= c[j] - 1
  <2>1. b[i] > b[j] /\ c[i] \in Nat /\ c[j] \in Nat
    BY <1>4, <1>9
  <2>2. c[i] >= c[j]
    BY <1>5, <2>1
  <2> QED BY <2>1, <2>2
<1>10. \A i \in Unit : b[i] = 0 => c[i] = 0
  BY <1>4
<1>11. Rounded(c, a, b)
  BY <1>0, <1>3, <1>7, <1>8, <1>9, <1>10, Zenon DEF Rounded, m
<1> QED BY <1>11 DEF c
-------------------------------------------------------------------------------
(* What a period that is ready gives its units.                            *)

LEMMA UnitFacts ==
  /\ Unit = 1 .. Units /\ Units \in Nat /\ Units \in Nat \ {0} /\ IsFiniteSet(Unit)
  /\ Changing \in Unit /\ Changing = 1
  /\ Bills = 1 .. 2 * Units /\ IsFiniteSet(Bills)
  /\ Costs = {1, 2} /\ Costs = 1 .. 2 /\ Heating = 1 /\ Water = 2
  /\ Last \in Nat \ {0}
<1>1. Units \in Nat \ {0} /\ DaysIn \in Seq(Nat \ {0}) /\ DaysIn # <<>>
  BY StatementAssumption
<1>2. Last \in Nat \ {0}
  BY <1>1 DEF Last
<1>3. PICK k \in Nat : k = 2 * Units
  BY <1>1
<1>4. IsFiniteSet(1 .. Units) /\ IsFiniteSet(1 .. k)
  <2>1. PICK u \in Nat : u = Units
    BY <1>1
  <2>2. IsFiniteSet(1 .. u) /\ IsFiniteSet(1 .. k)
    BY FS_Interval
  <2> QED BY <2>1, <2>2
<1> QED BY <1>1, <1>2, <1>3, <1>4 DEF Unit, Changing, Bills, Costs, Heating, Water

LEMMA InputFacts ==
  ASSUME NEW p \in RunInputs
  PROVE  /\ p.energy \in Nat /\ p.other \in Nat /\ p.water \in Nat
         /\ p.key \in {"nutzwert", "vereinbart", "flaeche"}
         /\ p.basis \in [Unit -> Nat] /\ p.used \in [Unit -> Nat] /\ p.heatable \in [Unit -> Nat]
         /\ p.prepaid \in [Unit -> Nat] /\ p.heatPaid \in [Unit -> Nat]
         /\ p.percent \in Int /\ p.heizkg \in BOOLEAN /\ p.vat \in BOOLEAN /\ p.rate \in Nat
         /\ p.vacant \in [unit : Nat, from : Nat, to : Nat]
         /\ p.parties \in Seq([owner : BOOLEAN, renter : BOOLEAN, from : Nat, to : Nat])
         /\ p.interim \in [day : Nat, value : Nat] /\ p.due \in Nat
BY DEF RunInputs

\* The measured part of the energy is within it: the percentage is below 100.
LEMMA PoolFits ==
  ASSUME NEW e \in Nat, NEW k \in 55 .. 85
  PROVE  PoolShare(e, k) \in Nat /\ PoolShare(e, k) <= e
<1>1. e * k <= e * 85 /\ e * k \in Nat
  <2>1. k \in Nat /\ k <= 85
    OBVIOUS
  <2> QED BY <2>1, TimesLess, TimesNat
<1>2. PICK x \in Nat : x = e * k
  BY <1>1
<1>3. (x + 50) \div 100 \in Nat /\ (x + 50) \div 100 <= e
  BY <1>1, <1>2
<1> QED BY <1>2, <1>3 DEF PoolShare

\* What a period that is ready is split by.
LEMMA ReadyFacts ==
  ASSUME NEW p \in RunInputs, Ready(p)
  PROVE  /\ Total(p.basis) > 0 /\ (p.key = "vereinbart" => Total(p.basis) = Million)
         /\ Total(p.used) > 0
         /\ p.heizkg => /\ \A u \in Unit : p.heatPaid[u] <= p.prepaid[u]
                        /\ Total(p.heatable) > 0
                        /\ Consumed(p) \in Nat /\ Consumed(p) <= p.energy
         /\ \A c \in Costs : Amount(p, c) \in Nat
<1>1. KeyReady(p) /\ HeatingReady(p)
  BY DEF Ready
<1>2. Total(p.basis) > 0 /\ (p.key = "vereinbart" => Total(p.basis) = Million)
  <2>1. p.key \in {"nutzwert", "vereinbart", "flaeche"} /\ Million > 0
    BY InputFacts, MillionNat
  <2> QED BY <1>1, <2>1 DEF KeyReady
<1>3. /\ Total(p.used) > 0
      /\ p.heizkg => /\ \A u \in Unit : p.heatPaid[u] <= p.prepaid[u]
                     /\ p.percent \in 55 .. 85
                     /\ Total(p.heatable) > 0
  BY <1>1 DEF HeatingReady
<1>4. ASSUME p.heizkg PROVE Consumed(p) \in Nat /\ Consumed(p) <= p.energy
  <2>1. p.energy \in Nat /\ p.percent \in 55 .. 85
    BY <1>3, <1>4, InputFacts
  <2> QED BY <2>1, PoolFits DEF Consumed
<1>5. \A c \in Costs : Amount(p, c) \in Nat
  BY InputFacts DEF Amount
<1> QED BY <1>2, <1>3, <1>4, <1>5

LEMMA WaterRounded ==
  ASSUME NEW p \in RunInputs, Ready(p)
  PROVE  Rounded(UnitCents(p, Water), Amount(p, Water), p.basis)
<1>1. /\ p.basis \in [Unit -> Nat] /\ Total(p.basis) > 0 /\ Amount(p, Water) \in Nat
      /\ (p.key = "vereinbart" => Total(p.basis) = Million)
  BY InputFacts, ReadyFacts, UnitFacts
<1>2. UnitCents(p, Water) = RunCents(WaterShares(p), p.water) /\ Amount(p, Water) = p.water
  BY UnitFacts DEF UnitCents, Amount
<1>3. CASE p.key = "vereinbart"
  <2>1. WaterShares(p) = p.basis
    BY <1>3 DEF WaterShares
  <2> QED BY <1>1, <1>2, <1>3, <2>1, OnceRounded
<1>4. CASE p.key # "vereinbart"
  <2>1. WaterShares(p) = SharePPM(p.basis)
    BY <1>4 DEF WaterShares
  <2> QED BY <1>1, <1>2, <2>1, TwiceRounded
<1> QED BY <1>3, <1>4

LEMMA HeatRounded ==
  ASSUME NEW p \in RunInputs, Ready(p), ~p.heizkg
  PROVE  Rounded(UnitCents(p, Heating), Amount(p, Heating), p.used)
<1>1. p.used \in [Unit -> Nat] /\ Total(p.used) > 0 /\ Amount(p, Heating) \in Nat
  BY InputFacts, ReadyFacts, UnitFacts
<1>2. UnitCents(p, Heating) = RunCents(SharePPM(p.used), Amount(p, Heating))
  BY UnitFacts DEF UnitCents
<1> QED BY <1>1, <1>2, TwiceRounded

\* Where consumption and area share the heating, its cents are of two pools.
TwoPools(p, cents, m, a) ==
    /\ Rounded(m, Consumed(p), p.used)
    /\ Rounded(a, Amount(p, Heating) - Consumed(p), p.heatable)
    /\ m = RunCents(SharePPM(p.used), Consumed(p))
    /\ cents \in [Unit -> Nat] /\ \A u \in Unit : cents[u] = m[u] + a[u]

LEMMA PoolsRounded ==
  ASSUME NEW p \in RunInputs, Ready(p), p.heizkg
  PROVE  \E m, a : TwoPools(p, UnitCents(p, Heating), m, a)
<1> DEFINE m == RunCents(SharePPM(p.used), Consumed(p))
           a == RunCents(SharePPM(p.heatable), Amount(p, Heating) - Consumed(p))
<1>1. /\ p.used \in [Unit -> Nat] /\ Total(p.used) > 0
      /\ p.heatable \in [Unit -> Nat] /\ Total(p.heatable) > 0
      /\ Consumed(p) \in Nat /\ Consumed(p) <= p.energy
      /\ p.energy \in Nat /\ p.other \in Nat
  BY InputFacts, ReadyFacts
<1>2. Amount(p, Heating) - Consumed(p) \in Nat
  <2>1. Amount(p, Heating) = p.energy + p.other
    BY UnitFacts DEF Amount
  <2> HIDE DEF m, a
  <2> QED BY <1>1, <2>1
<1>3. Rounded(m, Consumed(p), p.used)
  BY <1>1, TwiceRounded
<1>4. Rounded(a, Amount(p, Heating) - Consumed(p), p.heatable)
  BY <1>1, <1>2, TwiceRounded
<1>5. UnitCents(p, Heating) = [u \in Unit |-> m[u] + a[u]]
  BY UnitFacts DEF UnitCents, HeatingCents
<1>8. m = RunCents(SharePPM(p.used), Consumed(p))
  OBVIOUS
<1> HIDE DEF m, a
<1>6. m \in [Unit -> Nat] /\ a \in [Unit -> Nat]
  BY <1>3, <1>4 DEF Rounded
<1>7. UnitCents(p, Heating) \in [Unit -> Nat] /\ \A u \in Unit : UnitCents(p, Heating)[u] = m[u] + a[u]
  BY <1>5, <1>6
<1> QED BY <1>3, <1>4, <1>7, <1>8 DEF TwoPools

LEMMA UnitCentsAdd ==
  ASSUME NEW p \in RunInputs, Ready(p), NEW c \in Costs
  PROVE  UnitCents(p, c) \in [Unit -> Nat] /\ Total(UnitCents(p, c)) = Amount(p, c)
<1>1. CASE c = Water
  BY <1>1, WaterRounded DEF Rounded
<1>2. CASE c = Heating /\ ~p.heizkg
  BY <1>2, HeatRounded DEF Rounded
<1>3. CASE c = Heating /\ p.heizkg
  <2>1. PICK m, a : TwoPools(p, UnitCents(p, Heating), m, a)
    BY <1>3, PoolsRounded
  <2> DEFINE s == UnitCents(p, Heating)
  <2>2. /\ m \in [Unit -> Nat] /\ Total(m) = Consumed(p)
        /\ a \in [Unit -> Nat] /\ Total(a) = Amount(p, Heating) - Consumed(p)
        /\ s \in [Unit -> Nat] /\ \A u \in Unit : s[u] = m[u] + a[u]
    BY <2>1 DEF TwoPools, Rounded
  <2>3. Consumed(p) \in Nat /\ Amount(p, Heating) \in Nat
    BY <1>3, ReadyFacts
  <2> HIDE DEF s
  <2>4. Plus(Unit, s, m, a)
    BY <2>2, UnitFacts DEF Plus
  <2>5. Total(s) = Total(m) + Total(a)
    BY <2>4, TotalPlus
  <2>6. Total(s) = Amount(p, Heating)
    BY <2>2, <2>3, <2>5
  <2> QED BY <1>3, <2>2, <2>6 DEF s
<1> QED BY <1>1, <1>2, <1>3, UnitFacts
-------------------------------------------------------------------------------
(* The bills of units and landlord.                                        *)

Joined(g, a, b, S, n) == g = a \o b /\ a \in [1 .. n -> S] /\ b \in [1 .. n -> S]

Pieced(g, a, b, n) ==
    DOMAIN g = 1 .. 2 * n /\ \A x \in 1 .. n : g[x] = a[x] /\ g[n + x] = b[x]

LEMMA ConcatHalves ==
  ASSUME NEW S, NEW n \in Nat, NEW a, NEW b, NEW g, Joined(g, a, b, S, n)
  PROVE  Pieced(g, a, b, n)
<1>0. g = a \o b /\ a \in [1 .. n -> S] /\ b \in [1 .. n -> S]
  BY DEF Joined
<1>1. a \in Seq(S) /\ b \in Seq(S) /\ Len(a) = n /\ Len(b) = n
  BY <1>0
<1>2. DOMAIN (a \o b) = 1 .. n + n
  BY <1>1
<1>3. n + n = 2 * n
  OBVIOUS
<1>4. \A x \in 1 .. n : x \in 1 .. n + n /\ n + x \in 1 .. n + n /\ n + x > n /\ (n + x) - n = x
  OBVIOUS
<1>5. \A x \in 1 .. n + n : (a \o b)[x] = IF x <= n THEN a[x] ELSE b[x - n]
  BY <1>1
<1>6. DOMAIN g = 1 .. 2 * n /\ \A x \in 1 .. n : g[x] = a[x] /\ g[n + x] = b[x]
  BY <1>0, <1>2, <1>3, <1>4, <1>5
<1> QED BY <1>6 DEF Pieced

\* The vacant days of a period are days of it.
LEMMA VacantFits ==
  ASSUME NEW p \in RunInputs
  PROVE  VacantDays(p) \in 0 .. Last
<1>1. IsFiniteSet(1 .. Last) /\ Cardinality(1 .. Last) = Last
  <2>1. PICK l \in Nat \ {0} : l = Last
    BY UnitFacts
  <2>2. IsFiniteSet(1 .. l) /\ Cardinality(1 .. l) = l
    BY FS_Interval
  <2> QED BY <2>1, <2>2
<1> DEFINE s == (p.vacant.from .. p.vacant.to) \cap (1 .. Last)
<1>2. s \in SUBSET (1 .. Last)
  OBVIOUS
<1>3. IsFiniteSet(s) /\ Cardinality(s) <= Last
  BY <1>1, <1>2, FS_Subset
<1>4. Cardinality(s) \in Nat
  BY <1>3, FS_CardinalityType
<1> HIDE DEF s
<1>5. Cardinality(s) \in 0 .. Last
  BY <1>3, <1>4, UnitFacts
<1> QED BY <1>5 DEF VacantDays, s

LEMMA SlicePart ==
  ASSUME NEW x \in Nat, NEW l \in Nat \ {0}, NEW d \in 0 .. l
  PROVE  (x * d) \div l \in 0 .. x
<1>1. x * d <= x * l /\ x * d \in Nat
  BY TimesLess
<1>2. PICK y \in Nat : y = x * d
  BY <1>1
<1>3. y \div l \in Nat /\ y % l \in 0 .. l - 1 /\ y = l * (y \div l) + (y % l)
  BY <1>2, DivMod
<1>4. PICK q \in Nat : q = y \div l
  BY <1>3
<1>5. q <= x
  <2> SUFFICES ASSUME x + 1 <= q PROVE FALSE
    BY <1>4
  <2>1. l * (x + 1) <= l * q
    BY TimesLess
  <2>2. l * (x + 1) = x * l + l
    OBVIOUS
  <2>3. PICK z \in Int, k \in Int : z = x * l /\ k = l * q
    OBVIOUS
  <2> QED BY <1>1, <1>2, <1>3, <1>4, <2>1, <2>2, <2>3
<1> QED BY <1>2, <1>4, <1>5

LEMMA OwnedPart ==
  ASSUME NEW p \in RunInputs, NEW u \in Unit, NEW x \in Nat
  PROVE  Owned(p, u, x) \in 0 .. x /\ (p.vacant.unit # u => Owned(p, u, x) = 0)
<1>1. PICK l \in Nat \ {0} : l = Last
  BY UnitFacts
<1>2. PICK d \in 0 .. l : d = VacantDays(p)
  BY <1>1, VacantFits
<1>3. (x * VacantDays(p)) \div Last \in 0 .. x
  BY <1>1, <1>2, SlicePart
<1> HIDE DEF VacantDays, Last
<1> QED BY <1>3 DEF Owned

\* The bills of units and landlord divide what the units got.
Grossed(p, g) ==
    /\ DOMAIN g = Bills
    /\ \A b \in Bills : \A c \in Costs : g[b][c] \in Nat
    /\ \A u \in Unit : \A c \in Costs : g[u][c] + g[Units + u][c] = UnitCents(p, c)[u]
    /\ p.vacant.unit # Changing =>
           \A c \in Costs : g[Changing][c] = UnitCents(p, c)[Changing]

LEMMA BillsHalf ==
  ASSUME NEW b \in Bills
  PROVE  b \in Unit \/ \E u \in Unit : b = Units + u
<1>1. PICK n \in Nat : n = Units
  BY UnitFacts
<1>2. b \in 1 .. 2 * n
  BY <1>1, UnitFacts
<1>3. b \in 1 .. n \/ (b - n \in 1 .. n /\ b = n + (b - n))
  BY <1>2
<1> QED BY <1>1, <1>3, UnitFacts

LEMMA GrossIs ==
  ASSUME NEW p \in RunInputs, Ready(p)
  PROVE  Grossed(p, Gross(p))
<1> DEFINE h == UnitCents(p, Heating)
           w == UnitCents(p, Water)
           own == [u \in Unit |-> <<Owned(p, u, h[u]), Owned(p, u, w[u])>>]
           mine == [u \in Unit |-> <<h[u] - own[u][Heating], w[u] - own[u][Water]>>]
           g == Gross(p)
<1>1. g = mine \o own
  BY DEF Gross, Billed
<1>2. h \in [Unit -> Nat] /\ w \in [Unit -> Nat]
  BY UnitFacts, UnitCentsAdd
<1> HIDE DEF h, w, g
<1>3. ASSUME NEW u \in Unit
      PROVE  /\ Owned(p, u, h[u]) \in 0 .. h[u] /\ Owned(p, u, w[u]) \in 0 .. w[u]
             /\ p.vacant.unit # u => Owned(p, u, h[u]) = 0 /\ Owned(p, u, w[u]) = 0
             /\ h[u] \in Nat /\ w[u] \in Nat
  BY <1>2, OwnedPart
<1> HIDE DEF Owned
<1>4. ASSUME NEW u \in Unit
      PROVE  /\ own[u][1] = Owned(p, u, h[u]) /\ own[u][2] = Owned(p, u, w[u])
             /\ mine[u][1] = h[u] - own[u][1] /\ mine[u][2] = w[u] - own[u][2]
             /\ own[u] \in Nat \X Nat /\ mine[u] \in Nat \X Nat
  BY <1>3, UnitFacts
<1>5. own \in [1 .. Units -> Nat \X Nat] /\ mine \in [1 .. Units -> Nat \X Nat]
  BY <1>4, UnitFacts
<1> HIDE DEF own, mine
<1>6. DOMAIN g = 1 .. 2 * Units /\ \A u \in 1 .. Units : g[u] = mine[u] /\ g[Units + u] = own[u]
  <2>1. Units \in Nat
    BY UnitFacts
  <2>2. Joined(g, mine, own, Nat \X Nat, Units)
    BY <1>1, <1>5 DEF Joined
  <2>3. Pieced(g, mine, own, Units)
    BY <2>1, <2>2, ConcatHalves
  <2> QED BY <2>3 DEF Pieced
<1>7. ASSUME NEW u \in Unit
      PROVE  /\ g[u] = mine[u] /\ g[Units + u] = own[u]
             /\ g[u] \in Nat \X Nat /\ g[Units + u] \in Nat \X Nat
  BY <1>4, <1>6, UnitFacts
<1>8. ASSUME NEW b \in Bills PROVE g[b] \in Nat \X Nat
  BY <1>7, BillsHalf
<1>9. ASSUME NEW b \in Bills, NEW c \in Costs PROVE g[b][c] \in Nat
  BY <1>8, UnitFacts
<1>10. ASSUME NEW u \in Unit
       PROVE  /\ g[u][1] + g[Units + u][1] = h[u] /\ g[u][2] + g[Units + u][2] = w[u]
              /\ p.vacant.unit # u => g[u][1] = h[u] /\ g[u][2] = w[u]
  <2>0. /\ h[u] \in Nat /\ w[u] \in Nat
        /\ Owned(p, u, h[u]) \in Int /\ Owned(p, u, w[u]) \in Int
    BY <1>3
  <2>1. PICK x \in Nat, y \in Nat, k \in Int, l \in Int :
          /\ x = h[u] /\ y = w[u] /\ k = Owned(p, u, h[u]) /\ l = Owned(p, u, w[u])
    BY <2>0
  <2>2. p.vacant.unit # u => k = 0 /\ l = 0
    BY <1>3, <2>1
  <2>3. /\ g[u][1] = x - k /\ g[Units + u][1] = k /\ g[u][2] = y - l /\ g[Units + u][2] = l
    BY <1>4, <1>7, <2>1
  <2> QED BY <2>1, <2>2, <2>3
<1>11. \A u \in Unit : \A c \in Costs : g[u][c] + g[Units + u][c] = UnitCents(p, c)[u]
  BY <1>10, UnitFacts DEF h, w
<1>12. p.vacant.unit # Changing => \A c \in Costs : g[Changing][c] = UnitCents(p, c)[Changing]
  BY <1>10, UnitFacts DEF h, w
<1>13. Grossed(p, g)
  BY <1>6, <1>9, <1>11, <1>12, UnitFacts DEF Grossed
<1> QED BY <1>13 DEF g

LEMMA GrossAdds ==
  ASSUME NEW p \in RunInputs, Ready(p), NEW g, Grossed(p, g), NEW c \in Costs
  PROVE  Total([b \in Bills |-> g[b][c]]) = Amount(p, c)
<1> DEFINE f == [b \in Bills |-> g[b][c]]
           x == [u \in Unit |-> g[u][c]]
           y == [u \in Unit |-> g[Units + u][c]]
           s == UnitCents(p, c)
<1>1. s \in [Unit -> Nat] /\ Total(s) = Amount(p, c)
  BY UnitCentsAdd
<1>2. ASSUME NEW u \in Unit PROVE u \in Bills /\ Units + u \in Bills
  <2>1. PICK n \in Nat : n = Units
    BY UnitFacts
  <2>2. u \in 1 .. n /\ u \in 1 .. 2 * n /\ n + u \in 1 .. 2 * n
    BY <2>1, UnitFacts
  <2> QED BY <2>1, <2>2, UnitFacts
<1>3. ASSUME NEW u \in Unit
      PROVE  /\ f[u] = x[u] /\ f[Units + u] = y[u] /\ x[u] \in Nat /\ y[u] \in Nat
             /\ s[u] = x[u] + y[u]
  BY <1>2 DEF Grossed
<1>4. DOMAIN f = Bills /\ x \in [Unit -> Int] /\ y \in [Unit -> Int] /\ s \in [Unit -> Int]
  <2>1. \A u \in Unit : g[u][c] \in Int /\ g[Units + u][c] \in Int
    BY <1>2 DEF Grossed
  <2>2. DOMAIN f = Bills
    OBVIOUS
  <2>3. x \in [Unit -> Int] /\ y \in [Unit -> Int]
    BY <2>1
  <2>4. s \in [Unit -> Int]
    <3> HIDE DEF s
    <3> QED BY <1>1
  <2> HIDE DEF f, x, y, s
  <2> QED BY <2>2, <2>3, <2>4
<1> HIDE DEF f, x, y, s
<1>5. Halves(Units, f, x, y)
  BY <1>3, <1>4, UnitFacts DEF Halves
<1>6. Total(f) = Total(x) + Total(y)
  BY <1>5, TotalHalves, UnitFacts
<1>7. Plus(Unit, s, x, y)
  BY <1>3, <1>4, UnitFacts DEF Plus
<1>8. Total(s) = Total(x) + Total(y)
  BY <1>7, TotalPlus
<1> QED BY <1>1, <1>6, <1>8 DEF f
-------------------------------------------------------------------------------
(* The pools of a cost.                                                    *)

\* The pools that are shared out for a cost.
Pools(p, c) == IF c = Water THEN <<p.basis>>
               ELSE IF p.heizkg THEN <<p.used, p.heatable>> ELSE <<p.used>>

LEMMA OnePool ==
  ASSUME NEW c, NEW a, NEW b \in [Unit -> Nat], Rounded(c, a, b)
  PROVE  InOrder(c, <<b>>) /\ NothingForNone(c, <<b>>) /\ Near(c, a, <<b>>[1])
<1>1. /\ Near(c, a, b)
      /\ \A u \in Unit : c[u] \in Nat /\ (b[u] = 0 => c[u] = 0)
      /\ \A u, v \in Unit :
          /\ (b[u] - b[v]) * Million > Total(b) => c[u] >= c[v]
          /\ b[u] - b[v] > 0 => c[u] >= c[v] - 1
  BY DEF Rounded
<1>2. <<b>>[1] = b /\ DOMAIN <<b>> = {1} /\ Len(<<b>>) = 1
  OBVIOUS
<1> DEFINE pools == <<b>>
<1> HIDE DEF pools
<1>3. pools[1] = b /\ 1 \in DOMAIN pools /\ Len(pools) = 1
  BY <1>2 DEF pools
<1>4. InOrder(c, pools)
  BY <1>1, <1>3 DEF InOrder
<1>5. NothingForNone(c, pools)
  BY <1>1, <1>3 DEF NothingForNone
<1> QED BY <1>1, <1>2, <1>4, <1>5 DEF pools

LEMMA BothPools ==
  ASSUME NEW p \in RunInputs, NEW s, NEW m, NEW a, TwoPools(p, s, m, a)
  PROVE  InOrder(s, <<p.used, p.heatable>>) /\ NothingForNone(s, <<p.used, p.heatable>>)
<1> DEFINE b == p.used
           d == p.heatable
           pools == <<b, d>>
<1>1. pools[1] = b /\ pools[2] = d /\ 1 \in DOMAIN pools /\ 2 \in DOMAIN pools /\ Len(pools) = 2
  OBVIOUS
<1>2. /\ \A u \in Unit : m[u] \in Nat /\ (b[u] = 0 => m[u] = 0)
      /\ \A u, v \in Unit :
          /\ (b[u] - b[v]) * Million > Total(b) => m[u] >= m[v]
          /\ b[u] - b[v] > 0 => m[u] >= m[v] - 1
  BY DEF TwoPools, Rounded
<1>3. /\ \A u \in Unit : a[u] \in Nat /\ (d[u] = 0 => a[u] = 0)
      /\ \A u, v \in Unit :
          /\ (d[u] - d[v]) * Million > Total(d) => a[u] >= a[v]
          /\ d[u] - d[v] > 0 => a[u] >= a[v] - 1
  BY DEF TwoPools, Rounded
<1>4. \A u \in Unit : s[u] = m[u] + a[u]
  BY DEF TwoPools
<1> HIDE DEF pools, b, d
<1>5. ASSUME NEW u \in Unit, NEW v \in Unit
      PROVE  /\ (\A w \in DOMAIN pools : (pools[w][u] - pools[w][v]) * Million > Total(pools[w]))
                    => s[u] >= s[v]
             /\ (\A w \in DOMAIN pools : pools[w][u] - pools[w][v] > 0) => s[u] >= s[v] - 2
  <2>1. s[u] = m[u] + a[u] /\ s[v] = m[v] + a[v]
        /\ m[u] \in Nat /\ m[v] \in Nat /\ a[u] \in Nat /\ a[v] \in Nat
    BY <1>2, <1>3, <1>4
  <2>2. ASSUME \A w \in DOMAIN pools : (pools[w][u] - pools[w][v]) * Million > Total(pools[w])
        PROVE  s[u] >= s[v]
    <3>1. (b[u] - b[v]) * Million > Total(b) /\ (d[u] - d[v]) * Million > Total(d)
      BY <1>1, <2>2
    <3>2. m[u] >= m[v] /\ a[u] >= a[v]
      BY <1>2, <1>3, <3>1
    <3> QED BY <2>1, <3>2
  <2>3. ASSUME \A w \in DOMAIN pools : pools[w][u] - pools[w][v] > 0
        PROVE  s[u] >= s[v] - 2
    <3>1. b[u] - b[v] > 0 /\ d[u] - d[v] > 0
      BY <1>1, <2>3
    <3>2. m[u] >= m[v] - 1 /\ a[u] >= a[v] - 1
      BY <1>2, <1>3, <3>1
    <3> QED BY <2>1, <3>2
  <2> QED BY <2>2, <2>3
<1>6. InOrder(s, pools)
  BY <1>1, <1>5 DEF InOrder
<1>7. NothingForNone(s, pools)
  BY <1>1, <1>2, <1>3, <1>4 DEF NothingForNone
<1> QED BY <1>6, <1>7 DEF pools, b, d

\* What the units get of a cost, by key, by meter or by the two pools of the
\* heating rules, keeps the order of their bases, gives nothing for none, and
\* with one pool stays near the exact share (calculateAnnualStatementRun).
THEOREM UnitCentsFair ==
  ASSUME NEW p \in RunInputs, Ready(p), NEW c \in Costs
  PROVE  /\ InOrder(UnitCents(p, c), Pools(p, c))
         /\ NothingForNone(UnitCents(p, c), Pools(p, c))
         /\ Len(Pools(p, c)) = 1 => Near(UnitCents(p, c), Amount(p, c), Pools(p, c)[1])
<1>0. p.basis \in [Unit -> Nat] /\ p.used \in [Unit -> Nat]
  BY InputFacts
<1>1. CASE c = Water
  <2>1. Pools(p, c) = <<p.basis>>
    BY <1>1 DEF Pools
  <2>2. Rounded(UnitCents(p, c), Amount(p, c), p.basis)
    BY <1>1, WaterRounded
  <2> QED BY <1>0, <2>1, <2>2, OnePool
<1>2. CASE c = Heating /\ ~p.heizkg
  <2>1. Pools(p, c) = <<p.used>>
    BY <1>2, UnitFacts DEF Pools
  <2>2. Rounded(UnitCents(p, c), Amount(p, c), p.used)
    BY <1>2, HeatRounded
  <2> QED BY <1>0, <2>1, <2>2, OnePool
<1>3. CASE c = Heating /\ p.heizkg
  <2>1. Pools(p, c) = <<p.used, p.heatable>> /\ Len(Pools(p, c)) = 2
    BY <1>3, UnitFacts DEF Pools
  <2>2. PICK m, a : TwoPools(p, UnitCents(p, c), m, a)
    BY <1>3, PoolsRounded
  <2> QED BY <2>1, <2>2, BothPools
<1> QED BY <1>1, <1>2, <1>3, UnitFacts

-------------------------------------------------------------------------------
(* VAT. *)

\* What is contained in a gross amount is no more than it.
LEMMA ContainedVAT ==
  ASSUME NEW g \in Nat, NEW r \in Nat
  PROVE  VATFromGross(g, r) \in 0 .. g
<1> DEFINE t == 100 + r
           x == g * r
           q == x \div t
           e == x % t
<1>0. t \in Nat \ {0} /\ t >= 100 /\ x \in Nat
  BY TimesNat
<1> HIDE DEF t, x
<1>1. q \in Nat /\ e \in 0 .. t - 1 /\ x = t * q + e
  BY <1>0, DivMod
<1>2. VATFromGross(g, r) = q + (IF 2 * e >= t THEN 1 ELSE 0)
  BY DEF VATFromGross, t, x
<1> HIDE DEF q, e
<1>3. t * g = x + 100 * g
  BY DEF t, x
<1>4. PICK y \in Int : y = t * q
  BY <1>0, <1>1, TimesNat
<1>5. CASE q >= g + 1
  <2>1. t * (g + 1) <= t * q
    BY <1>0, <1>1, <1>5, TimesLess
  <2>2. t * (g + 1) = t * g + t
    BY <1>0
  <2> QED BY <1>0, <1>1, <1>3, <1>4, <2>1, <2>2
<1>6. CASE q = g
  <2>1. y = x + 100 * g
    BY <1>3, <1>4, <1>6
  <2>2. g = 0 /\ e = 0
    BY <1>0, <1>1, <1>4, <2>1
  <2> QED BY <1>0, <1>1, <1>2, <1>6, <2>2
<1>7. CASE q < g
  BY <1>1, <1>2, <1>7
<1> QED BY <1>1, <1>5, <1>6, <1>7

LEMMA RateFacts ==
  ASSUME NEW p \in RunInputs, NEW c \in Costs
  PROVE  RateOf(p, c) \in Nat
BY InputFacts DEF RateOf

Rates(p) == {RateOf(p, c) : c \in Costs}

\* What a bill has at a rate: one weight per cost.
LEMMA OfRateFacts ==
  ASSUME NEW p, NEW rate, NEW bill, \A c \in Costs : bill[c] \in Nat
  PROVE  /\ OfRate(p, rate, bill) \in [1 .. 2 -> Nat]
         /\ \A c \in Costs : OfRate(p, rate, bill)[c] = IF RateOf(p, c) = rate THEN bill[c] ELSE 0
         /\ BillOfRate(p, rate, bill) \in Nat
         /\ Total(OfRate(p, rate, bill)) = BillOfRate(p, rate, bill)
<1> DEFINE w == OfRate(p, rate, bill)
<1> HIDE DEF RateOf
<1>1. bill[1] \in Nat /\ bill[2] \in Nat
  BY UnitFacts
<1>2. w = <<IF RateOf(p, 1) = rate THEN bill[1] ELSE 0, IF RateOf(p, 2) = rate THEN bill[2] ELSE 0>>
  BY UnitFacts DEF OfRate
<1> HIDE DEF w
<1>3. w \in [1 .. 2 -> Nat] /\ w[1] \in Nat /\ w[2] \in Nat
  BY <1>1, <1>2
<1>4. \A c \in Costs : w[c] = IF RateOf(p, c) = rate THEN bill[c] ELSE 0
  BY <1>2, UnitFacts
<1>5. BillOfRate(p, rate, bill) = w[1] + w[2]
  BY UnitFacts DEF BillOfRate, w
<1>6. Total(w) = w[1] + w[2]
  <2>1. w \in [1 .. 2 -> Int]
    BY <1>3
  <2> QED BY <2>1, TotalTwo
<1>7. BillOfRate(p, rate, bill) \in Nat /\ Total(w) = BillOfRate(p, rate, bill)
  BY <1>3, <1>5, <1>6
<1> QED BY <1>3, <1>4, <1>7 DEF w
-------------------------------------------------------------------------------
(* VAT of bills and of lines.                                              *)

\* Bills in cents.
InCents(g) == \A b \in Bills : \A c \in Costs : g[b][c] \in Nat

\* The VAT of the house at a rate is handed down to the bills in full.
LEMMA BillsTaxed ==
  ASSUME NEW p \in RunInputs, NEW rate \in Nat, NEW g, InCents(g)
  PROVE  /\ BillVAT(p, rate, g) \in [Bills -> Nat]
         /\ Total(BillVAT(p, rate, g)) = HouseVAT(p, rate, g)
         /\ \A b \in Bills : BillVAT(p, rate, g)[b] <= BillOfRate(p, rate, g[b])
<1> DEFINE w == [b \in Bills |-> BillOfRate(p, rate, g[b])]
           h == HouseVAT(p, rate, g)
           v == BillVAT(p, rate, g)
<1>1. PICK n \in Nat : n = 2 * Units /\ Bills = 1 .. n
  <2>1. Units \in Nat /\ Bills = 1 .. 2 * Units
    BY UnitFacts
  <2> QED BY <2>1
<1>2. \A b \in Bills : BillOfRate(p, rate, g[b]) \in Nat
  <2>1. ASSUME NEW b \in Bills PROVE BillOfRate(p, rate, g[b]) \in Nat
    <3>1. \A c \in Costs : g[b][c] \in Nat
      BY DEF InCents
    <3> QED BY <3>1, OfRateFacts
  <2> QED BY <2>1
<1>3. w \in [1 .. n -> Nat] /\ \A b \in Bills : w[b] = BillOfRate(p, rate, g[b])
  BY <1>1, <1>2
<1>4. h = VATFromGross(Total(w), rate) /\ v = Distribute(h, w)
  BY DEF HouseVAT, BillVAT
<1> HIDE DEF w, h, v
<1>5. IsFiniteSet(Bills)
  BY UnitFacts
<1>6. Total(w) \in Nat
  BY <1>1, <1>3, <1>5, TotalNat
<1>7. h \in 0 .. Total(w)
  BY <1>4, <1>6, ContainedVAT
<1>8. h \in Nat /\ h <= Total(w)
  BY <1>6, <1>7
<1>9. Handed(v, h, w, n)
  BY <1>3, <1>4, <1>8, DistributeHanded
<1>10. v \in [1 .. n -> Nat] /\ Total(v) = h /\ \A i \in 1 .. n : v[i] <= w[i]
  BY <1>8, <1>9 DEF Handed
<1> QED BY <1>1, <1>3, <1>10 DEF v, h

LEMMA LineIs ==
  ASSUME NEW p, NEW g, NEW b \in Bills, NEW c \in Costs
  PROVE  LineVAT(p, g)[b][c]
           = Distribute(BillVAT(p, RateOf(p, c), g)[b], OfRate(p, RateOf(p, c), g[b]))[c]
<1> DEFINE bill == [rate \in Rates(p) |-> BillVAT(p, rate, g)]
           Line(x, y) == Distribute(bill[RateOf(p, y)][x], OfRate(p, RateOf(p, y), g[x]))[y]
<1>1. LineVAT(p, g) = [x \in Bills |-> <<Line(x, Heating), Line(x, Water)>>]
  BY DEF LineVAT, Rates
<1>2. \A y \in Costs : bill[RateOf(p, y)] = BillVAT(p, RateOf(p, y), g)
  BY DEF Rates
<1> HIDE DEF bill
<1>3. \A y \in Costs : Line(b, y) = Distribute(BillVAT(p, RateOf(p, y), g)[b], OfRate(p, RateOf(p, y), g[b]))[y]
  BY <1>2
<1> HIDE DEF Line
<1>4. LineVAT(p, g)[b] = <<Line(b, 1), Line(b, 2)>>
  BY <1>1, UnitFacts
<1>5. LineVAT(p, g)[b][c] = Line(b, c)
  BY <1>4, UnitFacts
<1> QED BY <1>3, <1>5

\* A bill's VAT at a rate is divided by its lines of that rate.
LEMMA LinesTaxed ==
  ASSUME NEW p \in RunInputs, NEW g, InCents(g), NEW b \in Bills, NEW rate \in Nat
  PROVE  LET s == Distribute(BillVAT(p, rate, g)[b], OfRate(p, rate, g[b]))
         IN  /\ s \in [1 .. 2 -> Nat] /\ s[1] + s[2] = BillVAT(p, rate, g)[b]
             /\ \A c \in Costs : s[c] <= OfRate(p, rate, g[b])[c]
<1> DEFINE w == OfRate(p, rate, g[b])
           a == BillVAT(p, rate, g)[b]
           s == Distribute(a, w)
<1>1. \A c \in Costs : g[b][c] \in Nat
  BY DEF InCents
<1>2. w \in [1 .. 2 -> Nat] /\ Total(w) = BillOfRate(p, rate, g[b])
  BY <1>1, OfRateFacts
<1>3. a \in Nat /\ a <= BillOfRate(p, rate, g[b])
  BY BillsTaxed
<1> HIDE DEF w, a, s
<1>4. a <= Total(w)
  BY <1>2, <1>3
<1>5. Handed(s, a, w, 2)
  BY <1>2, <1>3, DistributeHanded DEF s
<1>6. s \in [1 .. 2 -> Nat] /\ Total(s) = a /\ \A i \in 1 .. 2 : s[i] <= w[i]
  BY <1>4, <1>5 DEF Handed
<1>7. Total(s) = s[1] + s[2]
  <2>1. s \in [1 .. 2 -> Int]
    BY <1>6
  <2> QED BY <2>1, TotalTwo
<1> QED BY <1>6, <1>7, UnitFacts DEF s, a, w

\* No line has more VAT than cents; the lines of a rate make up its VAT.
LEMMA LinesAdd ==
  ASSUME NEW p \in RunInputs, NEW g, InCents(g), NEW b \in Bills
  PROVE  /\ \A c \in Costs : LineVAT(p, g)[b][c] \in 0 .. g[b][c]
         /\ \A rate \in Rates(p) : BillOfRate(p, rate, LineVAT(p, g)[b]) = BillVAT(p, rate, g)[b]
<1> DEFINE v == LineVAT(p, g)[b]
           S(rate) == Distribute(BillVAT(p, rate, g)[b], OfRate(p, rate, g[b]))
<1>0. \A c \in Costs : g[b][c] \in Nat
  BY DEF InCents
<1>1. \A c \in Costs : v[c] = S(RateOf(p, c))[c]
  BY LineIs
<1>2. \A rate \in Nat : /\ S(rate) \in [1 .. 2 -> Nat] /\ S(rate)[1] + S(rate)[2] = BillVAT(p, rate, g)[b]
                        /\ \A c \in Costs : S(rate)[c] <= OfRate(p, rate, g[b])[c]
  BY LinesTaxed
<1>3. \A rate \in Nat : \A c \in Costs :
         OfRate(p, rate, g[b])[c] = IF RateOf(p, c) = rate THEN g[b][c] ELSE 0
  BY <1>0, OfRateFacts
<1>4. \A c \in Costs : RateOf(p, c) \in Nat
  BY RateFacts
<1> HIDE DEF v, S, RateOf, OfRate
<1>5. ASSUME NEW c \in Costs PROVE v[c] \in 0 .. g[b][c] /\ v[c] \in Nat
  <2>1. PICK x \in Nat, y \in Nat : x = v[c] /\ y = g[b][c] /\ x <= y
    <3>1. RateOf(p, c) \in Nat /\ c \in 1 .. 2
      BY <1>4, UnitFacts
    <3>2. v[c] \in Nat /\ v[c] <= OfRate(p, RateOf(p, c), g[b])[c]
      BY <1>1, <1>2, <3>1
    <3>3. v[c] <= g[b][c]
      BY <1>3, <3>1, <3>2
    <3> QED BY <1>0, <3>2, <3>3
  <2> QED BY <2>1
<1>6. ASSUME NEW rate \in Rates(p)
      PROVE  BillOfRate(p, rate, v) = BillVAT(p, rate, g)[b]
  <2>1. rate \in Nat
    BY <1>4 DEF Rates
  <2>2. ASSUME NEW c \in Costs
        PROVE  (IF RateOf(p, c) = rate THEN v[c] ELSE 0) = S(rate)[c]
    <3>1. CASE RateOf(p, c) = rate
      BY <1>1, <3>1
    <3>2. CASE RateOf(p, c) # rate
      <4>1. S(rate)[c] <= 0
        BY <1>2, <1>3, <2>1, <3>2
      <4>2. S(rate)[c] \in Nat
        BY <1>2, <2>1, UnitFacts
      <4>3. S(rate)[c] = 0
        BY <4>1, <4>2
      <4> QED BY <3>2, <4>3
    <3> QED BY <3>1, <3>2
  <2>3. OfRate(p, rate, v)[1] = S(rate)[1] /\ OfRate(p, rate, v)[2] = S(rate)[2]
    <3>1. \A c \in Costs : OfRate(p, rate, v)[c] = IF RateOf(p, c) = rate THEN v[c] ELSE 0
      BY <1>5, OfRateFacts
    <3> QED BY <2>2, <3>1, UnitFacts
  <2>4. BillOfRate(p, rate, v) = S(rate)[1] + S(rate)[2]
    BY <2>3, UnitFacts DEF BillOfRate
  <2> QED BY <1>2, <2>1, <2>4
<1> QED BY <1>5, <1>6 DEF v

LEMMA HouseTaxed ==
  ASSUME NEW p \in RunInputs, NEW g, InCents(g), NEW rate \in Rates(p)
  PROVE  Total([b \in Bills |-> BillOfRate(p, rate, LineVAT(p, g)[b])]) = HouseVAT(p, rate, g)
<1>1. \A b \in Bills : BillOfRate(p, rate, LineVAT(p, g)[b]) = BillVAT(p, rate, g)[b]
  BY LinesAdd
<1>2. rate \in Nat
  BY RateFacts DEF Rates
<1>3. BillVAT(p, rate, g) \in [Bills -> Nat] /\ Total(BillVAT(p, rate, g)) = HouseVAT(p, rate, g)
  BY <1>2, BillsTaxed
<1> HIDE DEF BillOfRate, BillVAT, LineVAT, HouseVAT
<1>4. [b \in Bills |-> BillOfRate(p, rate, LineVAT(p, g)[b])] = BillVAT(p, rate, g)
  BY <1>1, <1>3
<1> QED BY <1>3, <1>4
-------------------------------------------------------------------------------
(* The parties of a unit.                                                  *)

\* A party, or none, for every day of the period and the day it falls due.
Followed(p, party) ==
    /\ \A d \in 1 .. Last : party[d] \in (DOMAIN p.parties) \cup {0}
    /\ party[p.due] \in (DOMAIN p.parties) \cup {0}

LEMMA PartiesFinite ==
  ASSUME NEW p \in RunInputs
  PROVE  \E k \in Nat : DOMAIN p.parties = 1 .. k /\ IsFiniteSet(DOMAIN p.parties)
<1>1. PICK k \in Nat : DOMAIN p.parties = 1 .. k
  BY InputFacts
<1>2. IsFiniteSet(1 .. k)
  BY FS_Interval
<1> QED BY <1>1, <1>2

LEMMA PartyOfFollows ==
  ASSUME NEW p \in RunInputs
  PROVE  Followed(p, PartyOf(p))
<1>1. Parties(p) \subseteq DOMAIN p.parties
  BY DEF Parties
<1>2. ASSUME NEW d PROVE PartyAt(p, d) \in (DOMAIN p.parties) \cup {0}
  <2> DEFINE active == {i \in Parties(p) : Active(p.parties[i], d)}
             renters == {i \in active : p.regime # "weg" /\ p.parties[i].renter}
             asked == IF renters # {} THEN renters ELSE {i \in active : p.parties[i].owner}
  <2>1. PartyAt(p, d) = IF Cardinality(asked) = 1 THEN CHOOSE i \in asked : TRUE ELSE 0
    BY DEF PartyAt
  <2>2. asked \subseteq Parties(p)
    OBVIOUS
  <2> HIDE DEF asked
  <2>3. CASE Cardinality(asked) = 1
    <3>1. asked # {}
      BY <2>3, FS_EmptySet
    <3>2. (CHOOSE i \in asked : TRUE) \in asked
      BY <3>1
    <3> QED BY <1>1, <2>1, <2>2, <2>3, <3>2
  <2>4. CASE Cardinality(asked) # 1
    BY <2>1, <2>4
  <2> QED BY <2>3, <2>4
<1>3. \A d \in 1 .. Last \cup {p.due} : PartyOf(p)[d] = PartyAt(p, d)
  BY DEF PartyOf
<1> HIDE DEF PartyOf, PartyAt
<1> QED BY <1>2, <1>3 DEF Followed

LEMMA DaysFinite == IsFiniteSet(1 .. Last) /\ 1 \in 1 .. Last
<1>1. PICK l \in Nat \ {0} : l = Last
  BY UnitFacts
<1>2. IsFiniteSet(1 .. l) /\ 1 \in 1 .. l
  BY FS_Interval
<1> QED BY <1>1, <1>2

LEMMA Divides ==
  ASSUME NEW c \in Nat \ {0}, NEW n \in Nat \ {0}, c % n = 0
  PROVE  c \div n \in Nat \ {0}
<1>1. PICK q \in Nat, r \in Nat : q = c \div n /\ r = c % n /\ c = n * q + r
  BY DivMod
<1>2. q # 0
  <2> SUFFICES ASSUME q = 0 PROVE FALSE
    OBVIOUS
  <2>1. n * q = 0
    OBVIOUS
  <2> QED BY <1>1, <2>1
<1> QED BY <1>1, <1>2

LEMMA MonthShare ==
  ASSUME NEW d \in 1 .. Last
  PROVE  Common \div DaysIn[d] \in Nat \ {0}
<1>1. PICK c \in Nat \ {0}, n \in Nat \ {0} : c = Common /\ n = DaysIn[d] /\ c % n = 0
  BY StatementAssumption DEF Last
<1> QED BY <1>1, Divides

\* Months always give somebody a weight when every day has its party.
LEMMA MonthsWeigh ==
  ASSUME NEW p \in RunInputs, NEW party, Followed(p, party)
  PROVE  /\ MonthlyWeights(p, party) \in [DOMAIN p.parties -> Nat]
         /\ Covered(party) => Total(MonthlyWeights(p, party)) > 0
<1> DEFINE D(i) == {e \in 1 .. Last : party[e] = i}
           f(i) == [d \in D(i) |-> Common \div DaysIn[d]]
           w == MonthlyWeights(p, party)
<1>1. w = [i \in DOMAIN p.parties |-> Total(f(i))]
  BY DEF MonthlyWeights
<1> HIDE DEF w
<1>2. ASSUME NEW i \in DOMAIN p.parties
      PROVE  w[i] \in Nat /\ \A d \in D(i) : w[i] > 0
  <2>1. IsFiniteSet(D(i)) /\ D(i) \subseteq 1 .. Last
    BY DaysFinite, FS_Subset
  <2>2. \A d \in D(i) : f(i)[d] \in Nat \ {0}
    BY MonthShare
  <2>3. f(i) \in [D(i) -> Nat]
    BY <2>2
  <2>7. w[i] = Total(f(i))
    BY <1>1
  <2> HIDE DEF f, D
  <2>4. Total(f(i)) \in Nat /\ \A d \in D(i) : f(i)[d] <= Total(f(i))
    BY <2>1, <2>3, TotalNat
  <2>5. \A d \in D(i) : Total(f(i)) > 0
    <3> TAKE d \in D(i)
    <3>1. f(i)[d] \in Nat \ {0} /\ f(i)[d] <= Total(f(i))
      BY <2>2, <2>4
    <3> QED BY <2>4, <3>1
  <2> QED BY <2>4, <2>5, <2>7
<1>3. w \in [DOMAIN p.parties -> Nat]
  BY <1>1, <1>2
<1>4. ASSUME Covered(party) PROVE Total(w) > 0
  <2> DEFINE i == party[1]
  <2>1. i \in DOMAIN p.parties /\ 1 \in D(i)
    BY <1>4, DaysFinite DEF Covered, Followed
  <2>2. w[i] > 0 /\ w[i] \in Nat
    BY <1>2, <2>1
  <2>3. Total(w) \in Nat /\ w[i] <= Total(w)
    BY <1>3, <2>1, PartiesFinite, TotalNat
  <2> HIDE DEF i
  <2> QED BY <2>2, <2>3
<1> QED BY <1>3, <1>4 DEF w

-------------------------------------------------------------------------------
\* The segments of the parties follow each other.
LEMMA EndFollows ==
  ASSUME NEW party, NEW d \in Bounds(party) \ {Last + 1}
  PROVE  EndOf(party, d) \in Bounds(party) /\ EndOf(party, d) > d
<1>0. PICK l \in Nat \ {0} : l = Last
  BY UnitFacts
<1>1. Bounds(party) \subseteq 1 .. l + 1 /\ l + 1 \in Bounds(party)
  BY <1>0 DEF Bounds
<1> DEFINE T == {b \in Bounds(party) : b > d}
<1>2. T \in SUBSET Nat /\ T # {}
  <2>1. l + 1 \in T
    BY <1>0, <1>1
  <2> QED BY <1>1, <2>1
<1>3. PICK e \in T : \A b \in T : e <= b
  BY <1>2, Least
<1>4. \E x \in Bounds(party) : x > d /\ \A b \in Bounds(party) : b > d => x <= b
  BY <1>3
<1> QED BY <1>4 DEF EndOf

\* The meter does not fall from one segment to the next, so nobody's goes below zero.
LEMMA MeterWeighs ==
  ASSUME NEW p \in RunInputs, NEW party, MeterComplete(party, Meter(p)), ~MeterFalls(party, Meter(p))
  PROVE  MeterWeights(p, party, Meter(p)) \in [DOMAIN p.parties -> Nat]
<1> DEFINE meter == Meter(p)
           D(i) == {e \in Bounds(party) \ {Last + 1} : party[e] = i}
           f(i) == [d \in D(i) |-> meter[EndOf(party, d)] - meter[d]]
<1>1. \A d \in DOMAIN meter : meter[d] \in Nat
  <2>1. p.used[Changing] \in Nat /\ p.interim.value \in Nat
    BY InputFacts, UnitFacts
  <2> QED BY <2>1 DEF Meter
<1>2. Bounds(party) \subseteq DOMAIN meter
  BY DEF MeterComplete
<1>3. \A d, e \in Bounds(party) : d < e => ~(meter[e] < meter[d])
  BY DEF MeterFalls
<1>6. MeterWeights(p, party, meter) = [i \in DOMAIN p.parties |-> Total(f(i))]
  BY DEF MeterWeights
<1> HIDE DEF meter
<1>4. ASSUME NEW d \in Bounds(party) \ {Last + 1}
      PROVE  meter[EndOf(party, d)] - meter[d] \in Nat
  <2>1. EndOf(party, d) \in Bounds(party) /\ d < EndOf(party, d)
    BY EndFollows
  <2>2. meter[d] \in Nat /\ meter[EndOf(party, d)] \in Nat
    BY <1>1, <1>2, <2>1
  <2>3. ~(meter[EndOf(party, d)] < meter[d])
    BY <1>3, <2>1
  <2> QED BY <2>2, <2>3
<1>5. ASSUME NEW i PROVE Total(f(i)) \in Nat
  <2>1. IsFiniteSet(D(i))
    <3>1. Bounds(party) \subseteq (1 .. Last) \cup {Last + 1}
      <4>1. PICK l \in Nat \ {0} : l = Last
        BY UnitFacts
      <4>2. \A d \in 2 .. l : d \in 1 .. l
        OBVIOUS
      <4> QED BY <4>1, <4>2, DaysFinite DEF Bounds
    <3>2. D(i) \in SUBSET (1 .. Last)
      BY <3>1
    <3> QED BY <3>2, DaysFinite, FS_Subset
  <2>2. f(i) \in [D(i) -> Nat]
    BY <1>4
  <2> HIDE DEF f, D
  <2> QED BY <2>1, <2>2, TotalNat
<1> HIDE DEF f
<1>7. MeterWeights(p, party, meter) \in [DOMAIN p.parties -> Nat]
  BY <1>5, <1>6
<1> QED BY <1>7 DEF meter
-------------------------------------------------------------------------------
(* Periods with and without a vacancy.                                     *)

LEMMA WithoutFacts ==
  ASSUME NEW p \in RunInputs
  PROVE  LET q == WithoutVacancy(p)
         IN  /\ q \in RunInputs /\ q.vacant.unit # Changing
             /\ q.energy = p.energy /\ q.other = p.other /\ q.water = p.water /\ q.key = p.key
             /\ q.basis = p.basis /\ q.used = p.used /\ q.heatable = p.heatable
             /\ q.prepaid = p.prepaid /\ q.heatPaid = p.heatPaid /\ q.percent = p.percent
             /\ q.heizkg = p.heizkg /\ q.regime = p.regime /\ q.vat = p.vat /\ q.rate = p.rate
             /\ q.parties = p.parties /\ q.interim = p.interim /\ q.due = p.due
<1>1. CASE p.vacant.unit = Changing
  <2> DEFINE q == [p EXCEPT !.vacant.unit = 0]
  <2>1. WithoutVacancy(p) = q
    BY <1>1 DEF WithoutVacancy
  <2>2. p.vacant \in [unit : Nat, from : Nat, to : Nat]
    BY DEF RunInputs
  <2>3. [p.vacant EXCEPT !.unit = 0] \in [unit : Nat, from : Nat, to : Nat]
    BY <2>2
  <2>4. q = [p EXCEPT !.vacant = [p.vacant EXCEPT !.unit = 0]]
    BY DEF RunInputs
  <2>5. q \in RunInputs /\ q.vacant = [p.vacant EXCEPT !.unit = 0]
    BY <2>3, <2>4 DEF RunInputs
  <2>6. q.vacant.unit = 0
    BY <2>2, <2>5
  <2>7. /\ q.energy = p.energy /\ q.other = p.other /\ q.water = p.water /\ q.key = p.key
        /\ q.basis = p.basis /\ q.used = p.used /\ q.heatable = p.heatable
        /\ q.prepaid = p.prepaid /\ q.heatPaid = p.heatPaid /\ q.percent = p.percent
        /\ q.heizkg = p.heizkg /\ q.regime = p.regime /\ q.vat = p.vat /\ q.rate = p.rate
        /\ q.parties = p.parties /\ q.interim = p.interim /\ q.due = p.due
    BY <2>4 DEF RunInputs
  <2> HIDE DEF q
  <2> QED BY <2>1, <2>5, <2>6, <2>7, UnitFacts
<1>2. CASE p.vacant.unit # Changing
  <2>1. WithoutVacancy(p) = p
    BY <1>2 DEF WithoutVacancy
  <2> QED BY <1>2, <2>1
<1> QED BY <1>1, <1>2

\* The same period but for the vacancy.
Alike(p, q) ==
    /\ q.energy = p.energy /\ q.other = p.other /\ q.water = p.water
    /\ q.basis = p.basis /\ q.used = p.used /\ q.heatable = p.heatable
    /\ q.prepaid = p.prepaid /\ q.heatPaid = p.heatPaid /\ q.percent = p.percent
    /\ q.heizkg = p.heizkg /\ q.vat = p.vat /\ q.rate = p.rate

LEMMA AlikeFacts ==
  ASSUME NEW p, NEW q, Alike(p, q)
  PROVE  /\ \A c : Amount(q, c) = Amount(p, c) /\ RateOf(q, c) = RateOf(p, c)
                   /\ Pools(q, c) = Pools(p, c)
         /\ Rates(q) = Rates(p) /\ Consumed(q) = Consumed(p)
         /\ \A rate, bill : BillOfRate(q, rate, bill) = BillOfRate(p, rate, bill)
         /\ \A rate, g : HouseVAT(q, rate, g) = HouseVAT(p, rate, g)
<1>1. \A c : Amount(q, c) = Amount(p, c)
  BY DEF Alike, Amount
<1>2. \A c : RateOf(q, c) = RateOf(p, c)
  BY DEF Alike, RateOf
<1>3. \A c : Pools(q, c) = Pools(p, c)
  BY DEF Alike, Pools
<1>4. Rates(q) = Rates(p)
  BY <1>2 DEF Rates
<1>5. Consumed(q) = Consumed(p)
  BY DEF Alike, Consumed
<1> HIDE DEF RateOf
<1>6. \A rate, bill : BillOfRate(q, rate, bill) = BillOfRate(p, rate, bill)
  BY <1>2 DEF BillOfRate, OfRate
<1>7. \A rate, g : HouseVAT(q, rate, g) = HouseVAT(p, rate, g)
  BY <1>6 DEF HouseVAT
<1> QED BY <1>1, <1>2, <1>3, <1>4, <1>5, <1>6, <1>7

-------------------------------------------------------------------------------
\* s divides a among the parties.
Makes(p, s, a) == s \in [DOMAIN p.parties -> Nat] /\ Total(s) = a

LEMMA DistributeMakes ==
  ASSUME NEW p \in RunInputs, NEW w \in [DOMAIN p.parties -> Nat], NEW a \in Nat,
         a = 0 \/ Total(w) > 0
  PROVE  Makes(p, Distribute(a, w), a)
<1>1. PICK k \in Nat : DOMAIN p.parties = 1 .. k
  BY PartiesFinite
<1>2. Handed(Distribute(a, w), a, w, k)
  BY <1>1, DistributeHanded
<1> QED BY <1>1, <1>2 DEF Handed, Makes

LEMMA WholeMakes ==
  ASSUME NEW p \in RunInputs, NEW party, Followed(p, party), party[p.due] # 0, NEW a \in Nat
  PROVE  Makes(p, Whole(p, party, a), a)
<1> DEFINE S == DOMAIN p.parties
           w == Whole(p, party, a)
           y == party[p.due]
<1>1. y \in S
  BY DEF Followed
<1>2. w = [i \in S |-> IF i = y THEN a ELSE 0]
  BY DEF Whole
<1> HIDE DEF w, y
<1>3. w \in [S -> Nat] /\ w[y] = a /\ \A i \in S \ {y} : w[i] = 0
  BY <1>1, <1>2
<1>4. Alone(w, S, y)
  BY <1>1, <1>2, <1>3 DEF Alone
<1>5. Total(w) = a
  BY <1>3, <1>4, PartiesFinite, TotalOne
<1> QED BY <1>3, <1>5 DEF Makes, w

\* Two divisions among the parties divide the sum.
LEMMA MakesPlus ==
  ASSUME NEW p \in RunInputs, NEW f, NEW h, NEW s, NEW a \in Nat, NEW b \in Nat,
         Makes(p, f, a), Makes(p, h, b), s = [i \in DOMAIN p.parties |-> f[i] + h[i]]
  PROVE  Makes(p, s, a + b)
<1> DEFINE S == DOMAIN p.parties
<1>1. f \in [S -> Nat] /\ h \in [S -> Nat] /\ Total(f) = a /\ Total(h) = b
  BY DEF Makes
<1>2. s \in [S -> Nat] /\ \A i \in S : s[i] = f[i] + h[i]
  BY <1>1
<1>3. f \in [S -> Int] /\ h \in [S -> Int] /\ s \in [S -> Int]
  BY <1>1, <1>2
<1>4. Plus(S, s, f, h)
  BY <1>2, <1>3, PartiesFinite DEF Plus
<1>5. Total(s) = Total(f) + Total(h)
  BY <1>4, TotalPlus
<1> QED BY <1>1, <1>2, <1>5 DEF Makes

\* What the unit's cents are divided by is clear.
Clear(p, party) ==
    /\ Followed(p, party) /\ party[p.due] # 0
    /\ p.heizkg => Covered(party) /\ ~ReadingRefused(party, Meter(p))

LEMMA HeatingMakes ==
  ASSUME NEW p \in RunInputs, NEW party, Clear(p, party), p.heizkg, NEW cents \in Nat,
         RunCents(SharePPM(p.used), Consumed(p))[Changing] \in 0 .. cents
  PROVE  Makes(p, PartyHeating(p, party, cents), cents)
<1> DEFINE pool == RunCents(SharePPM(p.used), Consumed(p))[Changing]
           meter == Meter(p)
           mw == MeterWeights(p, party, meter)
           cw == MonthlyWeights(p, party)
<1>0. Followed(p, party) /\ Covered(party) /\ ~ReadingRefused(party, meter)
  BY DEF Clear
<1>1. cw \in [DOMAIN p.parties -> Nat] /\ Total(cw) > 0
  BY <1>0, MonthsWeigh
<1>2. CASE Measured(p, party, meter)
  <2>1. MeterComplete(party, meter) /\ Total(mw) > 0
    BY <1>2 DEF Measured
  <2>2. ~MeterFalls(party, meter)
    BY <1>0, <2>1 DEF ReadingRefused
  <2>3. mw \in [DOMAIN p.parties -> Nat]
    BY <2>1, <2>2, MeterWeighs
  <2>4. PartyHeating(p, party, cents)
          = [i \in DOMAIN p.parties |-> Distribute(pool, mw)[i] + Distribute(cents - pool, cw)[i]]
    BY <1>2 DEF PartyHeating, ByMeter
  <2> HIDE DEF pool, mw, cw
  <2>5. PICK x \in Nat, y \in Nat : x = pool /\ y = cents - pool /\ x + y = cents
    <3>1. pool \in 0 .. cents
      BY DEF pool
    <3>2. pool \in Nat /\ cents - pool \in Nat /\ pool + (cents - pool) = cents
      BY <3>1
    <3> QED BY <3>2
  <2>6. Makes(p, Distribute(x, mw), x) /\ Makes(p, Distribute(y, cw), y)
    BY <1>1, <2>1, <2>3, DistributeMakes DEF mw
  <2>7. PartyHeating(p, party, cents)
          = [i \in DOMAIN p.parties |-> Distribute(x, mw)[i] + Distribute(y, cw)[i]]
    BY <2>4, <2>5
  <2> QED BY <2>5, <2>6, <2>7, MakesPlus
<1>3. CASE ~Measured(p, party, meter)
  <2>1. PartyHeating(p, party, cents) = Distribute(cents, cw)
    BY <1>3 DEF PartyHeating
  <2> HIDE DEF cw
  <2> QED BY <1>1, <2>1, DistributeMakes
<1> QED BY <1>2, <1>3

\* The parties divide the cents of their unit without a rest.
LEMMA CentsMake ==
  ASSUME NEW p \in RunInputs, NEW party, Clear(p, party), NEW bill, NEW c \in Costs, bill[c] \in Nat,
         p.heizkg => RunCents(SharePPM(p.used), Consumed(p))[Changing] \in 0 .. bill[Heating]
  PROVE  Makes(p, PartyCents(p, party, bill)[c], bill[c])
<1>1. PartyCents(p, party, bill)[c] = IF c = Heating /\ p.heizkg THEN PartyHeating(p, party, bill[c])
                                                                ELSE Whole(p, party, bill[c])
  BY DEF PartyCents
<1> HIDE DEF PartyCents, PartyHeating, Whole
<1>2. CASE c = Heating /\ p.heizkg
  <2>1. PartyCents(p, party, bill)[c] = PartyHeating(p, party, bill[c])
    BY <1>1, <1>2
  <2>2. RunCents(SharePPM(p.used), Consumed(p))[Changing] \in 0 .. bill[c]
    BY <1>2
  <2> QED BY <1>2, <2>1, <2>2, HeatingMakes
<1>3. CASE ~(c = Heating /\ p.heizkg)
  <2>1. PartyCents(p, party, bill)[c] = Whole(p, party, bill[c])
    BY <1>1, <1>3
  <2>2. Followed(p, party) /\ party[p.due] # 0
    BY DEF Clear
  <2> QED BY <2>1, <2>2, WholeMakes
<1> QED BY <1>2, <1>3

\* And what was prepaid for it.
LEMMA PrepaidMakes ==
  ASSUME NEW p \in RunInputs, NEW party, Clear(p, party),
         p.heizkg => \A u \in Unit : p.heatPaid[u] <= p.prepaid[u]
  PROVE  Makes(p, PartyPrepaid(p, party), p.prepaid[Changing])
<1> DEFINE x == IF p.heizkg THEN p.heatPaid[Changing] ELSE 0
           all == p.prepaid[Changing]
           cw == MonthlyWeights(p, party)
<1>1. x \in Nat /\ all \in Nat /\ x <= all
  BY InputFacts, UnitFacts
<1>2. Followed(p, party) /\ party[p.due] # 0 /\ (p.heizkg => Covered(party))
  BY DEF Clear
<1>3. cw \in [DOMAIN p.parties -> Nat] /\ (x = 0 \/ Total(cw) > 0)
  BY <1>2, MonthsWeigh
<1>4. PartyPrepaid(p, party)
        = [i \in DOMAIN p.parties |-> Distribute(x, cw)[i] + Whole(p, party, all - x)[i]]
  BY DEF PartyPrepaid
<1> HIDE DEF x, all, cw
<1>5. PICK y \in Nat : y = all - x /\ x + y = all
  <2>1. all - x \in Nat /\ x + (all - x) = all
    BY <1>1
  <2> QED BY <2>1
<1>6. Makes(p, Distribute(x, cw), x) /\ Makes(p, Whole(p, party, y), y)
  BY <1>1, <1>2, <1>3, DistributeMakes, WholeMakes
<1>7. PartyPrepaid(p, party)
        = [i \in DOMAIN p.parties |-> Distribute(x, cw)[i] + Whole(p, party, y)[i]]
  BY <1>4, <1>5
<1>8. Makes(p, PartyPrepaid(p, party), x + y)
  BY <1>1, <1>6, <1>7, MakesPlus
<1> QED BY <1>5, <1>8 DEF all
-------------------------------------------------------------------------------
(* A stored run.                                                           *)

\* What a stored run was calculated from.
From(p, q, r) ==
    /\ q \in RunInputs /\ Alike(p, q) /\ Ready(q)
    /\ r.gross = Gross(q)
    /\ r.vat = IF q.vat THEN LineVAT(q, Gross(q)) ELSE NoVAT

DividedBy(p, q, r, party) ==
    /\ q.vacant.unit # Changing /\ Clear(p, party)
    /\ r.parties = PartyShares(p, party, r)

Calculated(p, r) ==
    \E q : From(p, q, r) /\ (r.parties = <<>> \/ \E party : DividedBy(p, q, r, party))

CalculatedInv ==
    /\ period \in RunInputs
    /\ run # NoRun => run.input \in RunInputs /\ Calculated(run.input, run.result)

LEMMA UnitRunIs ==
  ASSUME NEW p \in RunInputs, NEW q \in RunInputs, Alike(p, q), UnitRun(q) # Blocked
  PROVE  From(p, q, UnitRun(q)) /\ UnitRun(q).parties = <<>>
<1>1. Ready(q)
  BY DEF UnitRun
<1>2. UnitRun(q) = [gross |-> Gross(q), vat |-> IF q.vat THEN LineVAT(q, Gross(q)) ELSE NoVAT,
                    parties |-> <<>>]
  BY <1>1 DEF UnitRun
<1> HIDE DEF UnitRun, Gross, LineVAT, NoVAT, Ready
<1> QED BY <1>1, <1>2 DEF From

LEMMA CalculateIs ==
  ASSUME NEW p \in RunInputs, Calculate(p) # Blocked
  PROVE  Calculated(p, Calculate(p))
<1>1. CASE ~HasDated(p)
  <2>1. Calculate(p) = UnitRun(p) /\ UnitRun(p) # Blocked
    BY <1>1 DEF Calculate
  <2>2. Alike(p, p)
    BY DEF Alike
  <2> QED BY <2>1, <2>2, UnitRunIs DEF Calculated
<1>2. CASE HasDated(p)
  <2> DEFINE q == WithoutVacancy(p)
             party == PartyOf(p)
             s == UnitRun(q)
             r == [s EXCEPT !.parties = PartyShares(p, party, s)]
  <2>1. q \in RunInputs /\ Alike(p, q) /\ q.vacant.unit # Changing
    BY WithoutFacts DEF Alike
  <2>2. Calculate(p) = Divided(p, party, s)
    BY <1>2 DEF Calculate
  <2> HIDE DEF q, party
  <2>3. s # Blocked /\ ~Unclear(p, party) /\ Calculate(p) = r
    BY <2>2 DEF Divided
  <2>4. From(p, q, s) /\ s.parties = <<>>
    BY <2>1, <2>3, UnitRunIs
  <2>5. s = [gross |-> Gross(q), vat |-> IF q.vat THEN LineVAT(q, Gross(q)) ELSE NoVAT,
             parties |-> <<>>]
    BY <2>3 DEF UnitRun
  <2> HIDE DEF s
  <2>6. r.gross = s.gross /\ r.vat = s.vat /\ r.parties = PartyShares(p, party, s)
    BY <2>5
  <2> HIDE DEF r
  <2>7. From(p, q, r)
    BY <2>4, <2>6 DEF From
  <2>8. PartyShares(p, party, s) = PartyShares(p, party, r)
    BY <2>6 DEF PartyShares
  <2>9. Clear(p, party)
    <3>1. Followed(p, party)
      BY PartyOfFollows DEF party
    <3> QED BY <2>3, <3>1 DEF Unclear, Clear
  <2>10. DividedBy(p, q, r, party)
    BY <2>1, <2>6, <2>8, <2>9 DEF DividedBy
  <2> QED BY <2>3, <2>7, <2>10 DEF Calculated
<1> QED BY <1>1, <1>2

LEMMA CalculatedInit == StatementInit => CalculatedInv
BY StatementAssumption DEF StatementInit, CalculatedInv

LEMMA CalculatedNext == CalculatedInv /\ [StatementNext]_statements => CalculatedInv'
<1> SUFFICES ASSUME CalculatedInv, [StatementNext]_statements PROVE CalculatedInv'
  OBVIOUS
<1>1. CASE Create
  <2> DEFINE result == Calculate(period)
  <2>1. result # Blocked /\ run' = [input |-> period, result |-> result] /\ period' = period
    BY <1>1 DEF Create
  <2>2. period \in RunInputs
    BY DEF CalculatedInv
  <2>3. Calculated(period, result)
    BY <2>1, <2>2, CalculateIs
  <2> HIDE DEF result
  <2>4. run'.input = period /\ run'.result = result
    BY <2>1
  <2> QED BY <2>1, <2>2, <2>3, <2>4 DEF CalculatedInv
<1>2. CASE UNCHANGED statements
  BY <1>2 DEF statements, CalculatedInv
<1> QED BY <1>1, <1>2 DEF StatementNext

\* A stored run is what its input calculates to.
LEMMA CalculatedHolds == StatementSpec => []CalculatedInv
BY CalculatedInit, CalculatedNext, PTL DEF StatementSpec

-------------------------------------------------------------------------------
LEMMA GrossCents ==
  ASSUME NEW p \in RunInputs, Ready(p)
  PROVE  InCents(Gross(p)) /\ Grossed(p, Gross(p))
BY GrossIs DEF Grossed, InCents

\* The part of CentsConserved that is about the bills.
BillsAdd(p, r) ==
    /\ \A c \in Costs : Total([b \in Bills |-> r.gross[b][c]]) = Amount(p, c)
    /\ \A b \in Bills : \A c \in Costs : r.gross[b][c] \in Nat /\ r.vat[b][c] \in 0 .. r.gross[b][c]
    /\ p.vat => \A rate \in Rates(p) :
           Total([b \in Bills |-> BillOfRate(p, rate, r.vat[b])]) = HouseVAT(p, rate, r.gross)

LEMMA BillsConserved ==
  ASSUME NEW p \in RunInputs, NEW q, NEW r, From(p, q, r)
  PROVE  BillsAdd(p, r)
<1>1. q \in RunInputs /\ Alike(p, q) /\ Ready(q) /\ r.gross = Gross(q)
      /\ r.vat = IF q.vat THEN LineVAT(q, Gross(q)) ELSE NoVAT
  BY DEF From
<1> DEFINE g == Gross(q)
<1>2. InCents(g) /\ Grossed(q, g)
  BY <1>1, GrossCents
<1> HIDE DEF g
<1>3. r.gross = g /\ r.vat = IF q.vat THEN LineVAT(q, g) ELSE NoVAT
  BY <1>1 DEF g
<1>4. q.vat = p.vat
  BY <1>1 DEF Alike
<1>5. \A c \in Costs : Total([b \in Bills |-> r.gross[b][c]]) = Amount(p, c)
  <2> TAKE c \in Costs
  <2>1. Total([b \in Bills |-> g[b][c]]) = Amount(q, c)
    BY <1>1, <1>2, GrossAdds
  <2> QED BY <1>1, <1>3, <2>1, AlikeFacts
<1>6. \A b \in Bills : \A c \in Costs : r.gross[b][c] \in Nat /\ r.vat[b][c] \in 0 .. r.gross[b][c]
  <2> TAKE b \in Bills
  <2> TAKE c \in Costs
  <2>1. g[b][c] \in Nat
    BY <1>2 DEF InCents
  <2>2. CASE q.vat
    <3>1. LineVAT(q, g)[b][c] \in 0 .. g[b][c]
      BY <1>1, <1>2, LinesAdd
    <3> QED BY <1>3, <2>1, <2>2, <3>1
  <2>3. CASE ~q.vat
    <3>1. r.vat[b][c] = 0
      BY <1>3, <2>3 DEF NoVAT
    <3> QED BY <1>3, <2>1, <3>1
  <2> QED BY <2>2, <2>3
<1>7. ASSUME p.vat, NEW rate \in Rates(p)
      PROVE  Total([b \in Bills |-> BillOfRate(p, rate, r.vat[b])]) = HouseVAT(p, rate, r.gross)
  <2>1. r.vat = LineVAT(q, g) /\ rate \in Rates(q)
    BY <1>1, <1>3, <1>4, <1>7, AlikeFacts
  <2>2. Total([b \in Bills |-> BillOfRate(q, rate, r.vat[b])]) = HouseVAT(q, rate, g)
    BY <1>1, <1>2, <2>1, HouseTaxed
  <2>3. \A b \in Bills : BillOfRate(q, rate, r.vat[b]) = BillOfRate(p, rate, r.vat[b])
    BY <1>1, AlikeFacts
  <2>4. HouseVAT(q, rate, g) = HouseVAT(p, rate, g)
    BY <1>1, AlikeFacts
  <2> HIDE DEF BillOfRate, HouseVAT
  <2>5. [b \in Bills |-> BillOfRate(q, rate, r.vat[b])] = [b \in Bills |-> BillOfRate(p, rate, r.vat[b])]
    BY <2>3
  <2> QED BY <1>3, <2>2, <2>4, <2>5
<1> QED BY <1>5, <1>6, <1>7 DEF BillsAdd

\* The part that is about the parties.
PartiesAdd(p, r) ==
    /\ \A c \in Costs :
          /\ Total([i \in DOMAIN r.parties |-> r.parties[i].cents[c]]) = r.gross[Changing][c]
          /\ Total([i \in DOMAIN r.parties |-> r.parties[i].vat[c]]) = r.vat[Changing][c]
          /\ \A i \in DOMAIN r.parties : r.parties[i].vat[c] \in 0 .. r.parties[i].cents[c]
    /\ Total([i \in DOMAIN r.parties |-> r.parties[i].prepaid]) = p.prepaid[Changing]

\* Lines of parties that divide the cents a of a cost and its VAT v.
LEMMA TaxMakes ==
  ASSUME NEW p \in RunInputs, NEW s, NEW a \in Nat, NEW v \in 0 .. a, Makes(p, s, a)
  PROVE  Makes(p, Distribute(v, s), v) /\ \A i \in DOMAIN p.parties : Distribute(v, s)[i] \in 0 .. s[i]
<1>1. PICK k \in Nat : DOMAIN p.parties = 1 .. k
  BY PartiesFinite
<1>2. s \in [1 .. k -> Nat] /\ Total(s) = a /\ v \in Nat /\ v <= a
  BY <1>1 DEF Makes
<1>3. Handed(Distribute(v, s), v, s, k)
  BY <1>2, DistributeHanded
<1> DEFINE d == Distribute(v, s)
<1> HIDE DEF d
<1>4. d \in [1 .. k -> Nat] /\ Total(d) = v /\ \A i \in 1 .. k : d[i] <= s[i]
  BY <1>2, <1>3 DEF Handed, d
<1>5. \A i \in 1 .. k : d[i] \in 0 .. s[i]
  BY <1>2, <1>4
<1> QED BY <1>1, <1>4, <1>5 DEF Makes, d

LEMMA LinesConserved ==
  ASSUME NEW p \in RunInputs, NEW cents, NEW vat, NEW prepaid, NEW bill, NEW r,
         r.parties = PartyLines(p, cents, vat, prepaid),
         r.gross[Changing] = bill, r.vat[Changing] = vat,
         \A c \in Costs : bill[c] \in Nat /\ vat[c] \in 0 .. bill[c] /\ Makes(p, cents[c], bill[c]),
         Makes(p, prepaid, p.prepaid[Changing])
  PROVE  PartiesAdd(p, r)
<1> DEFINE S == DOMAIN p.parties
           t(c) == Distribute(vat[c], cents[c])
           lines == r.parties
<1>1. DOMAIN lines = S
  BY DEF PartyLines
<1>2. \A i \in S : /\ lines[i].prepaid = prepaid[i]
                   /\ \A c \in Costs : lines[i].cents[c] = cents[c][i] /\ lines[i].vat[c] = t(c)[i]
  BY DEF PartyLines
<1>3. ASSUME NEW c \in Costs
      PROVE  /\ cents[c] \in [S -> Nat] /\ Total(cents[c]) = bill[c]
             /\ t(c) \in [S -> Nat] /\ Total(t(c)) = vat[c] /\ \A i \in S : t(c)[i] \in 0 .. cents[c][i]
  <2>1. bill[c] \in Nat /\ vat[c] \in 0 .. bill[c] /\ Makes(p, cents[c], bill[c])
    OBVIOUS
  <2>2. Makes(p, t(c), vat[c]) /\ \A i \in S : t(c)[i] \in 0 .. cents[c][i]
    BY <2>1, TaxMakes
  <2> HIDE DEF t
  <2> QED BY <2>1, <2>2 DEF Makes
<1>4. prepaid \in [S -> Nat] /\ Total(prepaid) = p.prepaid[Changing]
  BY DEF Makes
<1> HIDE DEF t, lines
<1>5. ASSUME NEW c \in Costs
      PROVE  /\ [i \in S |-> lines[i].cents[c]] = cents[c]
             /\ [i \in S |-> lines[i].vat[c]] = t(c)
  BY <1>2, <1>3
<1>6. [i \in S |-> lines[i].prepaid] = prepaid
  BY <1>2, <1>4
<1>7. ASSUME NEW c \in Costs
      PROVE  /\ Total([i \in DOMAIN lines |-> lines[i].cents[c]]) = bill[c]
             /\ Total([i \in DOMAIN lines |-> lines[i].vat[c]]) = vat[c]
             /\ \A i \in DOMAIN lines : lines[i].vat[c] \in 0 .. lines[i].cents[c]
  BY <1>1, <1>2, <1>3, <1>5
<1>8. Total([i \in DOMAIN lines |-> lines[i].prepaid]) = p.prepaid[Changing]
  BY <1>1, <1>4, <1>6
<1>9. \A c \in Costs : r.gross[Changing][c] = bill[c] /\ r.vat[Changing][c] = vat[c]
  OBVIOUS
<1> QED BY <1>7, <1>8, <1>9 DEF PartiesAdd, lines

\* The pool the meter divides is a part of the unit's heating.
LEMMA PoolWithin ==
  ASSUME NEW p, NEW q \in RunInputs, Alike(p, q), Ready(q), p.heizkg, NEW g, Grossed(q, g),
         q.vacant.unit # Changing
  PROVE  RunCents(SharePPM(p.used), Consumed(p))[Changing] \in 0 .. g[Changing][Heating]
<1>1. q.heizkg /\ q.used = p.used /\ Consumed(q) = Consumed(p)
  BY AlikeFacts DEF Alike
<1>2. PICK m, a : TwoPools(q, UnitCents(q, Heating), m, a)
  BY <1>1, PoolsRounded
<1>3. g[Changing][Heating] = UnitCents(q, Heating)[Changing]
  BY UnitFacts DEF Grossed
<1>4. /\ UnitCents(q, Heating)[Changing] = m[Changing] + a[Changing]
      /\ m[Changing] \in Nat /\ a[Changing] \in Nat
      /\ m = RunCents(SharePPM(q.used), Consumed(q))
  BY <1>2, UnitFacts DEF TwoPools, Rounded
<1>5. m[Changing] = RunCents(SharePPM(p.used), Consumed(p))[Changing]
  BY <1>1, <1>4
<1>6. m[Changing] \in 0 .. g[Changing][Heating]
  BY <1>3, <1>4
<1> QED BY <1>5, <1>6

LEMMA PartiesConserved ==
  ASSUME NEW p \in RunInputs, NEW q, NEW r, From(p, q, r), NEW party, DividedBy(p, q, r, party)
  PROVE  PartiesAdd(p, r)
<1>1. q \in RunInputs /\ Alike(p, q) /\ Ready(q) /\ r.gross = Gross(q)
  BY DEF From
<1>2. q.vacant.unit # Changing /\ Clear(p, party) /\ r.parties = PartyShares(p, party, r)
  BY DEF DividedBy
<1> DEFINE bill == r.gross[Changing]
           vat == r.vat[Changing]
           cents == PartyCents(p, party, bill)
           prepaid == PartyPrepaid(p, party)
<1>3. r.parties = PartyLines(p, cents, vat, prepaid)
  BY <1>2 DEF PartyShares
<1>4. Changing \in Bills
  <2>1. PICK n \in Nat \ {0} : n = Units
    BY UnitFacts
  <2>2. 1 \in 1 .. 2 * n
    OBVIOUS
  <2> QED BY <2>1, <2>2, UnitFacts
<1>5. \A c \in Costs : bill[c] \in Nat /\ vat[c] \in 0 .. bill[c]
  BY <1>4, BillsConserved DEF BillsAdd
<1>6. Grossed(q, r.gross)
  BY <1>1, GrossCents
<1>7. p.heizkg => RunCents(SharePPM(p.used), Consumed(p))[Changing] \in 0 .. bill[Heating]
  BY <1>1, <1>2, <1>6, PoolWithin
<1>8. p.heizkg => \A u \in Unit : p.heatPaid[u] <= p.prepaid[u]
  <2>1. q.heizkg = p.heizkg /\ q.heatPaid = p.heatPaid /\ q.prepaid = p.prepaid
    BY <1>1 DEF Alike
  <2> QED BY <1>1, <2>1, ReadyFacts
<1>9. Makes(p, prepaid, p.prepaid[Changing])
  BY <1>2, <1>8, PrepaidMakes
<1> HIDE DEF bill, vat
<1>10. \A c \in Costs : Makes(p, cents[c], bill[c])
  BY <1>2, <1>5, <1>7, CentsMake
<1> HIDE DEF cents, prepaid
<1>11. r.gross[Changing] = bill /\ r.vat[Changing] = vat
  BY DEF bill, vat
<1> QED BY <1>3, <1>5, <1>9, <1>10, <1>11, LinesConserved

LEMMA Conserved == CalculatedInv => CentsConserved
<1> SUFFICES ASSUME CalculatedInv, run # NoRun PROVE CentsConserved
  BY DEF CentsConserved
<1> DEFINE p == run.input
           r == run.result
<1>1. p \in RunInputs /\ Calculated(p, r)
  BY DEF CalculatedInv
<1> HIDE DEF p, r
<1>2. PICK q : From(p, q, r) /\ (r.parties = <<>> \/ \E party : DividedBy(p, q, r, party))
  BY <1>1 DEF Calculated
<1>3. BillsAdd(p, r)
  BY <1>1, <1>2, BillsConserved
<1>4. r.parties # <<>> => PartiesAdd(p, r)
  BY <1>1, <1>2, PartiesConserved
<1>5. \A l \in Bills \X Costs : r.gross[l[1]][l[2]] \in Nat /\ r.vat[l[1]][l[2]] \in 0 .. r.gross[l[1]][l[2]]
  BY <1>3 DEF BillsAdd
<1>6. /\ \A c \in Costs : Total([b \in Bills |-> r.gross[b][c]]) = Amount(p, c)
      /\ p.vat => \A rate \in {RateOf(p, c) : c \in Costs} :
             Total([b \in Bills |-> BillOfRate(p, rate, r.vat[b])]) = HouseVAT(p, rate, r.gross)
  BY <1>3 DEF BillsAdd, Rates
<1>7. r.parties # <<>> =>
         /\ \A c \in Costs :
               /\ Total([i \in DOMAIN r.parties |-> r.parties[i].cents[c]]) = r.gross[Changing][c]
               /\ Total([i \in DOMAIN r.parties |-> r.parties[i].vat[c]]) = r.vat[Changing][c]
               /\ \A i \in DOMAIN r.parties : r.parties[i].vat[c] \in 0 .. r.parties[i].cents[c]
         /\ Total([i \in DOMAIN r.parties |-> r.parties[i].prepaid]) = p.prepaid[Changing]
  BY <1>4 DEF PartiesAdd
<1> QED BY <1>5, <1>6, <1>7, Zenon DEF CentsConserved, p, r

LEMMA GotIs ==
  ASSUME NEW p \in RunInputs, NEW q, NEW r, From(p, q, r), NEW c \in Costs
  PROVE  [u \in Unit |-> r.gross[u][c] + r.gross[Units + u][c]] = UnitCents(q, c)
<1>1. q \in RunInputs /\ Ready(q) /\ r.gross = Gross(q)
  BY DEF From
<1>2. \A u \in Unit : r.gross[u][c] + r.gross[Units + u][c] = UnitCents(q, c)[u]
  BY <1>1, GrossCents DEF Grossed
<1>3. UnitCents(q, c) \in [Unit -> Nat]
  BY <1>1, UnitCentsAdd
<1> HIDE DEF UnitCents
<1> QED BY <1>2, <1>3

LEMMA SharedFairly == CalculatedInv => SharesFair
<1> SUFFICES ASSUME CalculatedInv, run # NoRun PROVE SharesFair
  BY DEF SharesFair
<1> DEFINE p == run.input
           r == run.result
           got(c) == [u \in Unit |-> Got(u, c)]
<1>1. p \in RunInputs /\ Calculated(p, r)
  BY DEF CalculatedInv
<1>2. \A c : got(c) = [u \in Unit |-> r.gross[u][c] + r.gross[Units + u][c]]
  BY DEF Got
<1> HIDE DEF p, r, got
<1>3. PICK q : From(p, q, r)
  BY <1>1 DEF Calculated
<1>4. q \in RunInputs /\ Alike(p, q) /\ Ready(q)
  BY <1>3 DEF From
<1>5. ASSUME NEW c \in Costs
      PROVE  /\ InOrder(got(c), Pools(p, c))
             /\ NothingForNone(got(c), Pools(p, c))
             /\ Len(Pools(p, c)) = 1 => Near(got(c), Amount(p, c), Pools(p, c)[1])
  <2>1. got(c) = UnitCents(q, c)
    BY <1>1, <1>2, <1>3, GotIs
  <2>2. Pools(q, c) = Pools(p, c) /\ Amount(q, c) = Amount(p, c)
    BY <1>4, AlikeFacts
  <2>3. /\ InOrder(UnitCents(q, c), Pools(q, c))
        /\ NothingForNone(UnitCents(q, c), Pools(q, c))
        /\ Len(Pools(q, c)) = 1 => Near(UnitCents(q, c), Amount(q, c), Pools(q, c)[1])
    BY <1>4, UnitCentsFair
  <2> QED BY <2>1, <2>2, <2>3
<1> QED BY <1>5, Zenon DEF SharesFair, Pools, p, got

\* The bills of units and landlord are the receipts, their VAT is the house's
\* of each rate, and the parties of a unit divide its cents, its VAT and its
\* prepayments without a rest: for any amounts, units, days and parties
\* (calculateAnnualStatementRun, applyAnnualStatementVAT, annualUnitPartyShares).
THEOREM StatementAddsUp == StatementSpec => []CentsConserved
BY CalculatedHolds, Conserved, PTL

\* Shares rounded to millionths and cents rounded from them stay within a cent
\* and a millionth, and in order (distributePPM, annualStatementRunCents).
THEOREM StatementIsFair == StatementSpec => []SharesFair
BY CalculatedHolds, SharedFairly, PTL
===============================================================================

----------------------------- MODULE DataTheorems -----------------------------
(***************************************************************************)
(* What the other proofs need about data.  Inductions go by the smallest   *)
(* counterexample, which needs no induction over an operator: a set of     *)
(* numbers has a least one, a family of finite sets a smallest one.  Then  *)
(* sums over a function (SumFunction of the community modules), and the    *)
(* sequences that Ordering makes of a set.                                 *)
(***************************************************************************)
EXTENDS Ordering, Functions, FiniteSetTheorems, WellFoundedInduction, TLAPS

\* The least-number principle, as a fact about sets.
LEMMA LeastNumber ==
  ASSUME NEW T, T \subseteq Nat, T # {}
  PROVE  \E m \in T : \A n \in T : m <= n
<1> DEFINE R == OpToRel(<, Nat)
<1>1. IsWellFoundedOn(R, Nat)
  BY NatLessThanWellFounded, Zenon
<1>2. \A x, y \in Nat : <<x, y>> \in R <=> x < y
  BY DEF OpToRel
<1> HIDE DEF R
<1>3. \E x \in T : \A y \in T : ~(<<y, x>> \in R)
  BY <1>1, WFMin
<1>4. \E m \in T : \A n \in T : ~(n < m)
  BY <1>2, <1>3
<1> QED
  BY <1>4

\* What fails for some subset of a finite set fails for a smallest one.
LEMMA SmallestSubset ==
  ASSUME NEW S, IsFiniteSet(S), NEW C, C \subseteq SUBSET S, C # {}
  PROVE  \E s \in C : \A t \in C : ~(t \subseteq s /\ t # s)
<1>1. \A s \in C : IsFiniteSet(s) /\ Cardinality(s) \in Nat
  BY FS_Subset, FS_CardinalityType
<1> DEFINE T == {Cardinality(s) : s \in C}
<1>2. T \subseteq Nat /\ T # {}
  BY <1>1
<1>3. PICK m \in T : \A n \in T : m <= n
  BY <1>2, LeastNumber
<1>4. PICK s \in C : m = Cardinality(s)
  BY <1>3
<1>5. ASSUME NEW t \in C, t \subseteq s, t # s PROVE FALSE
  <2>1. Cardinality(t) <= Cardinality(s) /\ Cardinality(t) # Cardinality(s)
    BY <1>1, <1>5, FS_Subset
  <2>2. Cardinality(t) \in T
    OBVIOUS
  <2> QED
    BY <1>1, <1>3, <1>4, <2>1, <2>2
<1> QED
  BY <1>5

-----------------------------------------------------------------------------
(* Sums.                                                                   *)

\* How the library runs through a set: the element it takes, what it makes of
\* a set when F is what it makes of the smaller ones, and that F is what it
\* makes of every subset of S.
Taken(s) == CHOOSE x \in s : TRUE
Added(F, f, s) == IF s = {} THEN 0 ELSE f[Taken(s)] + F[s \ {Taken(s)}]
Sums(F, f, S) == \A s \in SUBSET S : F[s] = Added(F, f, s)

\* A sum has a value: finitely many whole numbers.
Amounts(f, S) == IsFiniteSet(S) /\ \A x \in S : f[x] \in Int

\* What is taken from a set with something in it is in it.
LEMMA TakenIsIn == \A s : s # {} => Taken(s) \in s
BY DEF Taken

\* There is at most one such F, and it depends on f on S alone.
LEMMA SumsAgree ==
  ASSUME NEW S, IsFiniteSet(S), NEW f, NEW g, \A x \in S : f[x] = g[x],
         NEW F, NEW G, Sums(F, f, S), Sums(G, g, S)
  PROVE  \A s \in SUBSET S : F[s] = G[s]
<1> DEFINE C == {s \in SUBSET S : F[s] # G[s]}
<1> SUFFICES ASSUME C # {} PROVE FALSE
  OBVIOUS
<1>1. PICK s \in C : \A t \in C : ~(t \subseteq s /\ t # s)
  <2> HIDE DEF C
  <2>1. C \subseteq SUBSET S
    BY DEF C
  <2> QED
    BY <2>1, SmallestSubset
<1>2. F[s] = Added(F, f, s) /\ G[s] = Added(G, g, s)
  BY DEF Sums
<1>3. s # {}
  BY <1>2 DEF Added
<1>4. Taken(s) \in s
  BY <1>3, TakenIsIn
<1>5. F[s \ {Taken(s)}] = G[s \ {Taken(s)}] /\ f[Taken(s)] = g[Taken(s)]
  BY <1>1, <1>4
<1> QED
  BY <1>2, <1>5 DEF Added

\* And there is one, with whole numbers for values: the recursion ends.
LEMMA SumsExist ==
  ASSUME NEW S, NEW f, Amounts(f, S)
  PROVE  \E F \in [SUBSET S -> Int] : Sums(F, f, S)
<1> DEFINE C == {s \in SUBSET S : ~ \E F \in [SUBSET s -> Int] : Sums(F, f, s)}
<1> SUFFICES ASSUME C # {} PROVE FALSE
  OBVIOUS
<1>1. PICK U \in C : \A t \in C : ~(t \subseteq U /\ t # U)
  <2> HIDE DEF C
  <2>1. C \subseteq SUBSET S
    BY DEF C
  <2> QED
    BY <2>1, SmallestSubset DEF Amounts
<1> DEFINE H(s) == CHOOSE F \in [SUBSET s -> Int] : Sums(F, f, s)
           G == [s \in SUBSET U |->
                   IF s = U THEN Added([t \in SUBSET U |-> H(t)[t]], f, U)
                   ELSE H(s)[s]]
<1>2. ASSUME NEW s \in SUBSET U, s # U
      PROVE  H(s) \in [SUBSET s -> Int] /\ Sums(H(s), f, s)
  BY <1>1, <1>2
<1>3. \A s \in SUBSET U : s # {} => Taken(s) \in s /\ f[Taken(s)] \in Int
  BY TakenIsIn DEF Amounts
<1> HIDE DEF H
<1>4. ASSUME NEW s \in SUBSET U, s # U
      PROVE  G[s] \in Int /\ G[s] = Added(G, f, s)
  <2>1. H(s)[s] = Added(H(s), f, s) /\ H(s)[s] \in Int
    <3>1. H(s) \in [SUBSET s -> Int] /\ Sums(H(s), f, s) /\ s \in SUBSET s
      BY <1>2, <1>4
    <3> QED
      BY <3>1 DEF Sums
  <2>2. ASSUME s # {} PROVE H(s)[s \ {Taken(s)}] = G[s \ {Taken(s)}]
    <3> DEFINE t == s \ {Taken(s)}
    <3>1. t \in SUBSET s /\ t \in SUBSET U /\ t # U
      BY <1>3, <2>2
    <3>2. Sums(H(t), f, t) /\ Sums(H(s), f, t)
      BY <1>2, <1>4, <3>1 DEF Sums
    <3>3. IsFiniteSet(t)
      BY <3>1, FS_Subset DEF Amounts
    <3> HIDE DEF t
    <3>4. H(s)[t] = H(t)[t]
      BY <3>2, <3>3, SumsAgree
    <3> QED
      BY <3>1, <3>4 DEF t
  <2> QED
    BY <1>4, <2>1, <2>2 DEF Added
<1>5. G[U] \in Int /\ G[U] = Added(G, f, U)
  <2>1. CASE U = {}
    BY <2>1 DEF Added
  <2>2. CASE U # {}
    <3> DEFINE t == U \ {Taken(U)}
    <3>1. Taken(U) \in U /\ f[Taken(U)] \in Int /\ t \in SUBSET U /\ t # U
      BY <1>3, <2>2
    <3>2. G[t] \in Int
      BY <1>4, <3>1
    <3>3. G[U] = f[Taken(U)] + G[t]
      BY <2>2, <3>1 DEF Added
    <3> QED
      BY <2>2, <3>1, <3>2, <3>3 DEF Added
  <2> QED
    BY <2>1, <2>2
<1>6. G \in [SUBSET U -> Int] /\ Sums(G, f, U)
  <2>1. \A s \in SUBSET U : G[s] \in Int /\ G[s] = Added(G, f, s)
    BY <1>4, <1>5
  <2>2. G = [s \in SUBSET U |-> G[s]]
    OBVIOUS
  <2> HIDE DEF G
  <2> QED
    BY <2>1, <2>2 DEF Sums
<1> QED
  BY <1>6

\* So a sum is the value of one.
LEMMA SumIsSums ==
  ASSUME NEW S, NEW f, Amounts(f, S)
  PROVE  \E F \in [SUBSET S -> Int] : Sums(F, f, S) /\ SumFunctionOnSet(f, S) = F[S]
<1> DEFINE Iter(F) == F = [s \in SUBSET S |-> Added(F, f, s)]
<1>1. SumFunctionOnSet(f, S) = (CHOOSE F : Iter(F))[S]
  BY DEF SumFunctionOnSet, FoldFunctionOnSet, MapThenFoldSet, Taken, Added
<1>2. PICK G \in [SUBSET S -> Int] : Sums(G, f, S)
  BY SumsExist
<1>3. Iter(G)
  BY <1>2 DEF Sums
<1> HIDE DEF Iter
<1>4. PICK F : Iter(F) /\ SumFunctionOnSet(f, S) = F[S]
  BY <1>1, <1>3
<1>5. F = [s \in SUBSET S |-> Added(F, f, s)]
  BY <1>4 DEF Iter
<1>6. Sums(F, f, S)
  BY <1>5 DEF Sums
<1>7. \A s \in SUBSET S : F[s] = G[s]
  BY <1>2, <1>6, SumsAgree DEF Amounts
<1>8. F \in [SUBSET S -> Int]
  BY <1>5, <1>7
<1> QED
  BY <1>4, <1>6, <1>8

\* A sum does not depend on which element was taken first.
LEMMA AnyOrder ==
  ASSUME NEW S, NEW f, Amounts(f, S), NEW F \in [SUBSET S -> Int], Sums(F, f, S)
  PROVE  \A s \in SUBSET S : \A x \in s : F[s] = f[x] + F[s \ {x}]
<1> DEFINE C == {s \in SUBSET S : ~ \A x \in s : F[s] = f[x] + F[s \ {x}]}
<1> SUFFICES ASSUME C # {} PROVE FALSE
  OBVIOUS
<1>1. PICK s \in C : \A t \in C : ~(t \subseteq s /\ t # s)
  <2> HIDE DEF C
  <2>1. C \subseteq SUBSET S
    BY DEF C
  <2> QED
    BY <2>1, SmallestSubset DEF Amounts
<1>2. PICK x \in s : F[s] # f[x] + F[s \ {x}]
  OBVIOUS
<1> PICK p : p = Taken(s)
  OBVIOUS
<1>3. p \in s /\ f[p] \in Int /\ f[x] \in Int
  BY <1>2, TakenIsIn DEF Amounts
<1>4. F[s] = f[p] + F[s \ {p}]
  BY <1>2 DEF Sums, Added
<1>5. CASE x = p
  BY <1>2, <1>4, <1>5
<1>6. CASE x # p
  <2>1. /\ s \ {x} \notin C /\ s \ {p} \notin C
        /\ x \in s \ {p} /\ p \in s \ {x}
        /\ s \ {x} \in SUBSET S /\ s \ {p} \in SUBSET S
    BY <1>1, <1>2, <1>3, <1>6
  <2>2. /\ F[s \ {p}] = f[x] + F[(s \ {p}) \ {x}]
        /\ F[s \ {x}] = f[p] + F[(s \ {x}) \ {p}]
    BY <2>1
  <2>3. (s \ {p}) \ {x} = (s \ {x}) \ {p}
    OBVIOUS
  <2>4. PICK r \in Int : r = F[(s \ {p}) \ {x}]
    BY <2>1
  <2>5. /\ F[s] = f[p] + (f[x] + r)
        /\ F[s \ {x}] = f[p] + r
    BY <1>4, <2>2, <2>3, <2>4
  <2> QED
    BY <1>2, <1>3, <2>4, <2>5
<1> QED
  BY <1>5, <1>6

\* Nothing comes to nothing.
LEMMA SumEmpty == ASSUME NEW f PROVE SumFunctionOnSet(f, {}) = 0
<1>1. Amounts(f, {})
  BY FS_EmptySet DEF Amounts
<1>2. PICK F : Sums(F, f, {}) /\ SumFunctionOnSet(f, {}) = F[{}]
  BY <1>1, SumIsSums
<1> QED
  BY <1>2 DEF Sums, Added

\* A sum is a whole number.
LEMMA SumType ==
  ASSUME NEW S, NEW f, Amounts(f, S)
  PROVE  SumFunctionOnSet(f, S) \in Int
<1>1. PICK F \in [SUBSET S -> Int] : Sums(F, f, S) /\ SumFunctionOnSet(f, S) = F[S]
  BY SumIsSums
<1> QED
  BY <1>1

\* Functions that agree have the same sum.
LEMMA SumSame ==
  ASSUME NEW S, NEW f, NEW g, Amounts(f, S), \A x \in S : f[x] = g[x]
  PROVE  SumFunctionOnSet(f, S) = SumFunctionOnSet(g, S)
<1>1. Amounts(g, S)
  BY DEF Amounts
<1>2. PICK F \in [SUBSET S -> Int] : Sums(F, f, S) /\ SumFunctionOnSet(f, S) = F[S]
  BY SumIsSums
<1>3. PICK G \in [SUBSET S -> Int] : Sums(G, g, S) /\ SumFunctionOnSet(g, S) = G[S]
  BY <1>1, SumIsSums
<1>4. F[S] = G[S]
  BY <1>2, <1>3, SumsAgree DEF Amounts
<1> QED
  BY <1>2, <1>3, <1>4

\* One more element adds its value, and nothing else.
LEMMA SumAdds ==
  ASSUME NEW S, NEW x, x \notin S, NEW f, Amounts(f, S \cup {x})
  PROVE  /\ SumFunctionOnSet(f, S) \in Int /\ f[x] \in Int
         /\ SumFunctionOnSet(f, S \cup {x}) = SumFunctionOnSet(f, S) + f[x]
<1> PICK U : U = S \cup {x}
  OBVIOUS
<1>1. Amounts(f, S) /\ Amounts(f, U)
  BY FS_Subset DEF Amounts
<1>2. PICK F \in [SUBSET U -> Int] : Sums(F, f, U) /\ SumFunctionOnSet(f, U) = F[U]
  BY <1>1, SumIsSums
<1>3. PICK G \in [SUBSET S -> Int] : Sums(G, f, S) /\ SumFunctionOnSet(f, S) = G[S]
  BY <1>1, SumIsSums
<1>4. F[U] = f[x] + F[S]
  <2>1. U \in SUBSET U /\ x \in U /\ U \ {x} = S
    OBVIOUS
  <2> QED
    BY <1>1, <1>2, <2>1, AnyOrder
<1>5. F[S] = G[S]
  <2>1. Sums(F, f, S)
    BY <1>2 DEF Sums
  <2> QED
    BY <1>1, <1>3, <2>1, SumsAgree DEF Amounts
<1>6. f[x] \in Int /\ G[S] \in Int
  BY DEF Amounts
<1> QED
  BY <1>2, <1>3, <1>4, <1>5, <1>6

\* The sum over a set is that over one part and that over the rest.
LEMMA SumSplits ==
  ASSUME NEW A, NEW B, A \cap B = {}, NEW f, Amounts(f, A \cup B)
  PROVE  /\ SumFunctionOnSet(f, A) \in Int /\ SumFunctionOnSet(f, B) \in Int
         /\ SumFunctionOnSet(f, A \cup B) = SumFunctionOnSet(f, A) + SumFunctionOnSet(f, B)
<1>0. \A s \in SUBSET (A \cup B) : Amounts(f, s)
  BY FS_Subset DEF Amounts
<1> DEFINE Good(s) == SumFunctionOnSet(f, A \cup s)
                        = SumFunctionOnSet(f, A) + SumFunctionOnSet(f, s)
           C == {s \in SUBSET B : ~Good(s)}
<1>1. \A s \in SUBSET (A \cup B) : SumFunctionOnSet(f, s) \in Int
  BY <1>0, SumType
<1>2. ASSUME C # {} PROVE FALSE
  <2>1. PICK s \in C : \A t \in C : ~(t \subseteq s /\ t # s)
    <3>1. C \subseteq SUBSET B /\ IsFiniteSet(B)
      BY <1>0 DEF Amounts
    <3> HIDE DEF C
    <3> QED
      BY <1>2, <3>1, SmallestSubset
  <2>2. CASE s = {}
    <3>1. A \cup s = A /\ SumFunctionOnSet(f, A) \in Int
      BY <1>1, <2>2
    <3> QED
      BY <2>1, <2>2, <3>1, SumEmpty
  <2>3. CASE s # {}
    <3>1. PICK x \in s : TRUE
      BY <2>3
    <3>2. PICK t : t = s \ {x}
      OBVIOUS
    <3>3. Good(t)
      BY <2>1, <3>1, <3>2
    <3>4. t \cup {x} = s /\ x \notin t /\ (A \cup t) \cup {x} = A \cup s /\ x \notin A \cup t
      BY <3>1, <3>2, <2>1
    <3>5. Amounts(f, t \cup {x}) /\ Amounts(f, (A \cup t) \cup {x})
      BY <1>0, <2>1, <3>4
    <3>6. /\ SumFunctionOnSet(f, s) = SumFunctionOnSet(f, t) + f[x]
          /\ SumFunctionOnSet(f, A \cup s) = SumFunctionOnSet(f, A \cup t) + f[x]
          /\ SumFunctionOnSet(f, t) \in Int /\ f[x] \in Int
      BY <3>4, <3>5, SumAdds
    <3>7. SumFunctionOnSet(f, A) \in Int
      BY <1>1
    <3> QED
      BY <2>1, <3>3, <3>6, <3>7
  <2> QED
    BY <2>2, <2>3
<1> QED
  BY <1>1, <1>2

\* A value that changes changes the sum by as much.
LEMMA SumChanges ==
  ASSUME NEW S, NEW x \in S, NEW f, NEW g, NEW d \in Int, Amounts(f, S),
         g[x] = f[x] + d, \A y \in S : y # x => g[y] = f[y]
  PROVE  /\ SumFunctionOnSet(f, S) \in Int
         /\ SumFunctionOnSet(g, S) = SumFunctionOnSet(f, S) + d
<1>1. PICK T : T = S \ {x}
  OBVIOUS
<1>2. S = T \cup {x} /\ x \notin T
  BY <1>1
<1>3. Amounts(g, T \cup {x}) /\ Amounts(f, T \cup {x}) /\ Amounts(f, T)
  BY <1>1, <1>2, FS_Subset DEF Amounts
<1>4. /\ SumFunctionOnSet(f, S) = SumFunctionOnSet(f, T) + f[x] /\ f[x] \in Int
      /\ SumFunctionOnSet(f, T) \in Int
      /\ SumFunctionOnSet(g, S) = SumFunctionOnSet(g, T) + g[x]
  BY <1>2, <1>3, SumAdds
<1>5. SumFunctionOnSet(f, T) = SumFunctionOnSet(g, T)
  BY <1>1, <1>3, SumSame
<1> QED
  BY <1>4, <1>5

\* A sum of nothing but zeros is zero.
LEMMA SumOfZeros ==
  ASSUME NEW S, IsFiniteSet(S), NEW f, \A x \in S : f[x] = 0
  PROVE  SumFunctionOnSet(f, S) = 0
<1>1. Amounts(f, S)
  BY DEF Amounts
<1>2. PICK F \in [SUBSET S -> Int] : Sums(F, f, S) /\ SumFunctionOnSet(f, S) = F[S]
  BY <1>1, SumIsSums
<1> DEFINE G == [s \in SUBSET S |-> 0]
<1>3. Sums(G, f, S)
  <2>1. ASSUME NEW s \in SUBSET S PROVE G[s] = Added(G, f, s)
    <3>1. CASE s = {}
      BY <3>1 DEF Added
    <3>2. CASE s # {}
      <4>1. Taken(s) \in S /\ s \ {Taken(s)} \in SUBSET S
        BY <3>2, TakenIsIn
      <4> QED
        BY <3>2, <4>1 DEF Added
    <3> QED
      BY <3>1, <3>2
  <2> HIDE DEF G
  <2> QED
    BY <2>1 DEF Sums
<1>4. G[S] = 0
  OBVIOUS
<1> HIDE DEF G
<1>5. F[S] = G[S]
  BY <1>2, <1>3, SumsAgree
<1> QED
  BY <1>2, <1>4, <1>5

\* A sum over a function's domain when one value grows.
LEMMA TotalGrows ==
  ASSUME NEW S, IsFiniteSet(S), NEW f \in [S -> Int], NEW x \in S, NEW d \in Int
  PROVE  /\ SumFunction(f) \in Int
         /\ \A g : DOMAIN g = S /\ g[x] = f[x] + d /\ (\A y \in S : y # x => g[y] = f[y])
                     => SumFunction(g) = SumFunction(f) + d
<1>1. Amounts(f, S) /\ DOMAIN f = S
  BY DEF Amounts
<1>2. SumFunctionOnSet(f, S) \in Int
  BY <1>1, SumType
<1>3. ASSUME NEW g, DOMAIN g = S, g[x] = f[x] + d, \A y \in S : y # x => g[y] = f[y]
      PROVE  SumFunctionOnSet(g, S) = SumFunctionOnSet(f, S) + d
  BY <1>1, <1>3, SumChanges
<1> QED
  BY <1>1, <1>2, <1>3 DEF SumFunction

\* A sum over a function's domain when the domain grows, or loses an element.
LEMMA TotalExtends ==
  ASSUME NEW f, IsFiniteSet(DOMAIN f), NEW x, x \notin DOMAIN f,
         NEW g, DOMAIN g = DOMAIN f \cup {x}, g[x] \in Int,
         \A y \in DOMAIN f : g[y] \in Int /\ f[y] = g[y]
  PROVE  /\ SumFunction(f) \in Int /\ SumFunction(g) \in Int
         /\ SumFunction(g) = SumFunction(f) + g[x]
<1> DEFINE S == DOMAIN f
<1>1. Amounts(g, S \cup {x}) /\ Amounts(g, S)
  BY FS_AddElement DEF Amounts
<1>2. SumFunctionOnSet(g, S \cup {x}) = SumFunctionOnSet(g, S) + g[x] /\ SumFunctionOnSet(g, S) \in Int
  BY <1>1, SumAdds
<1>3. SumFunctionOnSet(f, S) = SumFunctionOnSet(g, S)
  BY <1>1, SumSame
<1> QED
  BY <1>2, <1>3 DEF SumFunction

\* A sum over nothing.
LEMMA TotalOfNothing ==
  ASSUME NEW f, DOMAIN f = {}
  PROVE  SumFunction(f) = 0
BY SumEmpty DEF SumFunction

-----------------------------------------------------------------------------
(* Order and selection.                                                    *)

\* R is a strict order in which any two elements of S stand.
StrictOrder(S, R) ==
  /\ \A x \in S : <<x, x>> \notin R
  /\ \A x, y, z \in S : <<x, y>> \in R /\ <<y, z>> \in R => <<x, z>> \in R
  /\ \A x, y \in S : x = y \/ <<x, y>> \in R \/ <<y, x>> \in R

\* Each element has a place of its own.
LEMMA AheadIsPlace ==
  ASSUME NEW S, IsFiniteSet(S), NEW R, StrictOrder(S, R)
  PROVE  /\ \A x \in S : Ahead(S, R, x) \in 0 .. Cardinality(S) - 1
         /\ \A x, y \in S : <<x, y>> \in R => Ahead(S, R, x) < Ahead(S, R, y)
<1> DEFINE B(x) == {y \in S : <<y, x>> \in R}
<1>0. \A T \in SUBSET S : /\ IsFiniteSet(T) /\ Cardinality(T) \in Nat
                          /\ Cardinality(T) <= Cardinality(S)
  BY FS_Subset, FS_CardinalityType
<1>1. ASSUME NEW x \in S PROVE Cardinality(B(x) \cup {x}) = Cardinality(B(x)) + 1
  <2>1. x \notin B(x) /\ IsFiniteSet(B(x))
    BY <1>0 DEF StrictOrder
  <2> QED
    BY <2>1, FS_AddElement
<1>2. ASSUME NEW x \in S PROVE Ahead(S, R, x) \in 0 .. Cardinality(S) - 1
  <2>1. B(x) \cup {x} \in SUBSET S /\ B(x) \in SUBSET S /\ S \in SUBSET S
    OBVIOUS
  <2>2. Cardinality(B(x)) + 1 <= Cardinality(S) /\ Cardinality(B(x)) \in Nat /\ Cardinality(S) \in Nat
    BY <1>0, <1>1, <2>1
  <2> QED
    BY <2>2 DEF Ahead
<1>3. ASSUME NEW x \in S, NEW y \in S, <<x, y>> \in R PROVE Ahead(S, R, x) < Ahead(S, R, y)
  <2>1. B(x) \cup {x} \in SUBSET B(y) /\ IsFiniteSet(B(y))
    BY <1>0, <1>3 DEF StrictOrder
  <2>2. Cardinality(B(x) \cup {x}) <= Cardinality(B(y))
    BY <2>1, FS_Subset
  <2>3. Cardinality(B(x)) \in Nat /\ Cardinality(B(y)) \in Nat
    BY <1>0
  <2> QED
    BY <1>1, <2>2, <2>3 DEF Ahead
<1> QED
  BY <1>2, <1>3

\* Each place in order holds the element with that many before it, and no other.
LEMMA PlaceIs ==
  ASSUME NEW S, IsFiniteSet(S), NEW R, StrictOrder(S, R)
  PROVE  /\ SortedBy(S, R) \in [1 .. Cardinality(S) -> S]
         /\ \A k \in 1 .. Cardinality(S) : \A x \in S :
              Ahead(S, R, x) = k - 1 <=> x = SortedBy(S, R)[k]
<1> PICK n \in Nat : n = Cardinality(S)
  BY FS_CardinalityType
<1> DEFINE a == [x \in S |-> Ahead(S, R, x) + 1]
<1>1. \A x \in S : Ahead(S, R, x) \in 0 .. n - 1
  BY AheadIsPlace
<1>2. \A x, y \in S : Ahead(S, R, x) = Ahead(S, R, y) => x = y
  <2>1. ASSUME NEW x \in S, NEW y \in S, Ahead(S, R, x) = Ahead(S, R, y), x # y PROVE FALSE
    <3>1. <<x, y>> \in R \/ <<y, x>> \in R
      BY <2>1 DEF StrictOrder
    <3>2. Ahead(S, R, x) < Ahead(S, R, y) \/ Ahead(S, R, y) < Ahead(S, R, x)
      BY <3>1, AheadIsPlace
    <3> QED
      BY <1>1, <2>1, <3>2
  <2> QED
    BY <2>1
<1>3. \A x \in S : a[x] \in 1 .. n /\ a[x] = Ahead(S, R, x) + 1
  BY <1>1
<1>4. a \in [S -> 1 .. n] /\ DOMAIN a = S
  BY <1>3
<1> HIDE DEF a
<1>5. IsInjective(a)
  BY <1>1, <1>2, <1>3, <1>4 DEF IsInjective
<1>6. a \in Injection(S, 1 .. n)
  BY <1>4, <1>5 DEF Injection
<1>7. IsFiniteSet(1 .. n) /\ Cardinality(1 .. n) = n
  <2>1. 1 \in Int /\ n \in Int
    OBVIOUS
  <2>2. IsFiniteSet(1 .. n) /\ Cardinality(1 .. n) = IF 1 > n THEN 0 ELSE n - 1 + 1
    BY <2>1, FS_Interval, Zenon
  <2> QED
    BY <2>2
<1>8. a \in Surjection(S, 1 .. n)
  BY <1>6, <1>7, FS_Injection
<1>9. \A k \in 1 .. n : \E x \in S : Ahead(S, R, x) = k - 1
  <2>1. \A k \in 1 .. n : \E x \in S : a[x] = k
    BY <1>8 DEF Surjection
  <2> QED
    BY <1>1, <1>3, <2>1
<1> DEFINE o == SortedBy(S, R)
<1>10. \A k \in 1 .. n : o[k] \in S /\ Ahead(S, R, o[k]) = k - 1
  BY <1>9 DEF SortedBy
<1>11. o \in [1 .. n -> S]
  BY <1>10 DEF SortedBy
<1> HIDE DEF o
<1>12. \A k \in 1 .. n : \A x \in S : Ahead(S, R, x) = k - 1 <=> x = o[k]
  BY <1>2, <1>10
<1> QED
  BY <1>11, <1>12 DEF o

\* A set in order: every element once, and none before one it comes after.
LEMMA SortedByIs ==
  ASSUME NEW S, IsFiniteSet(S), NEW R, StrictOrder(S, R)
  PROVE  /\ Cardinality(S) \in Nat
         /\ SortedBy(S, R) \in [1 .. Cardinality(S) -> S]
         /\ \A x \in S : \E k \in 1 .. Cardinality(S) : SortedBy(S, R)[k] = x
         /\ \A j, k \in 1 .. Cardinality(S) :
              j < k => <<SortedBy(S, R)[j], SortedBy(S, R)[k]>> \in R
         /\ \A j, k \in 1 .. Cardinality(S) : SortedBy(S, R)[j] = SortedBy(S, R)[k] => j = k
<1>0. PICK n \in Nat : n = Cardinality(S)
  BY FS_CardinalityType
<1>1. \A x \in S : Ahead(S, R, x) \in 0 .. n - 1
  BY <1>0, AheadIsPlace
<1>2. PICK o : o = SortedBy(S, R)
  OBVIOUS
<1>3. /\ o \in [1 .. n -> S]
      /\ \A k \in 1 .. n : \A x \in S : Ahead(S, R, x) = k - 1 <=> x = o[k]
  BY <1>0, <1>2, PlaceIs
<1>4. \A k \in 1 .. n : o[k] \in S /\ Ahead(S, R, o[k]) = k - 1
  BY <1>3
<1>5. ASSUME NEW x \in S PROVE \E k \in 1 .. n : o[k] = x
  <2>1. Ahead(S, R, x) + 1 \in 1 .. n /\ Ahead(S, R, x) = (Ahead(S, R, x) + 1) - 1
    BY <1>1
  <2> QED
    BY <1>3, <2>1
<1>6. ASSUME NEW j \in 1 .. n, NEW k \in 1 .. n, j < k PROVE <<o[j], o[k]>> \in R
  <2>1. o[j] \in S /\ o[k] \in S /\ Ahead(S, R, o[j]) = j - 1 /\ Ahead(S, R, o[k]) = k - 1
    BY <1>4
  <2>2. o[j] # o[k] /\ ~(Ahead(S, R, o[k]) < Ahead(S, R, o[j]))
    BY <1>6, <2>1
  <2> QED
    BY <2>1, <2>2, AheadIsPlace DEF StrictOrder
<1>7. ASSUME NEW j \in 1 .. n, NEW k \in 1 .. n, o[j] = o[k] PROVE j = k
  <2>1. Ahead(S, R, o[j]) = j - 1 /\ Ahead(S, R, o[k]) = k - 1
    BY <1>4
  <2> QED
    BY <1>7, <2>1
<1> QED
  BY <1>0, <1>2, <1>3, <1>5, <1>6, <1>7

\* A set that grows by elements after all that are there keeps their places.
LEMMA SortedByGrows ==
  ASSUME NEW T, IsFiniteSet(T), NEW S \in SUBSET T,
         NEW R, StrictOrder(S, R), NEW Q, StrictOrder(T, Q),
         \A x, y \in S : <<x, y>> \in Q <=> <<x, y>> \in R,
         \A x \in S : \A y \in T \ S : <<y, x>> \notin Q
  PROVE  /\ Cardinality(S) \in Nat /\ Cardinality(T) \in Nat /\ Cardinality(S) <= Cardinality(T)
         /\ \A k \in 1 .. Cardinality(S) : SortedBy(T, Q)[k] = SortedBy(S, R)[k]
<1>1. /\ IsFiniteSet(S) /\ Cardinality(S) \in Nat /\ Cardinality(T) \in Nat
      /\ Cardinality(S) <= Cardinality(T)
  BY FS_Subset, FS_CardinalityType
<1>2. ASSUME NEW x \in S PROVE Ahead(T, Q, x) = Ahead(S, R, x)
  <2>1. {y \in T : <<y, x>> \in Q} = {y \in S : <<y, x>> \in R}
    OBVIOUS
  <2> QED
    BY <2>1 DEF Ahead
<1>3. ASSUME NEW k \in 1 .. Cardinality(S) PROVE SortedBy(T, Q)[k] = SortedBy(S, R)[k]
  <2>1. SortedBy(S, R)[k] \in S /\ Ahead(S, R, SortedBy(S, R)[k]) = k - 1
    BY <1>1, PlaceIs
  <2>2. k \in 1 .. Cardinality(T) /\ SortedBy(S, R)[k] \in T
    BY <1>1, <2>1
  <2>3. Ahead(T, Q, SortedBy(S, R)[k]) = k - 1
    BY <1>2, <2>1
  <2> QED
    BY <2>2, <2>3, PlaceIs
<1> QED
  BY <1>1, <1>3

\* The elements of o stand as they stood in s: there are rising places they are from.
Chosen(o, s, K) ==
  \E place \in [1 .. Len(o) -> K] :
    /\ \A k \in 1 .. Len(o) : o[k] = s[place[k]]
    /\ \A i \in K : \E k \in 1 .. Len(o) : place[k] = i
    /\ \A j, k \in 1 .. Len(o) : j < k => place[j] < place[k]

\* What Only selects is a sequence of the elements at these places.
LEMMA OnlyIs ==
  ASSUME NEW D, NEW s \in Seq(D), NEW K \in SUBSET (1 .. Len(s))
  PROVE  /\ Only(s, K) \in Seq(D) /\ IsFiniteSet(K) /\ Len(Only(s, K)) = Cardinality(K)
         /\ Chosen(Only(s, K), s, K)
<1> DEFINE R == {p \in K \X K : p[1] < p[2]}
<1>1. \A x, y \in K : <<x, y>> \in R <=> x < y
  OBVIOUS
<1>2. K \subseteq Int /\ Len(s) \in Nat
  OBVIOUS
<1>3. IsFiniteSet(K)
  <2>1. 1 \in Int /\ Len(s) \in Int
    BY <1>2
  <2>2. IsFiniteSet(1 .. Len(s))
    BY <2>1, FS_Interval, Zenon
  <2> QED
    BY <2>2, FS_Subset
<1> HIDE DEF R
<1>4. StrictOrder(K, R)
  BY <1>1, <1>2 DEF StrictOrder
<1> PICK place : place = Ascending(K)
  OBVIOUS
<1>5. place = SortedBy(K, R)
  BY DEF Ascending, R
<1>6. /\ Cardinality(K) \in Nat /\ place \in [1 .. Cardinality(K) -> K]
      /\ \A i \in K : \E k \in 1 .. Cardinality(K) : place[k] = i
      /\ \A j, k \in 1 .. Cardinality(K) : j < k => <<place[j], place[k]>> \in R
  BY <1>3, <1>4, <1>5, SortedByIs
<1>7. \A j, k \in 1 .. Cardinality(K) : j < k => place[j] < place[k]
  BY <1>1, <1>6
<1>8. Only(s, K) = [k \in 1 .. Cardinality(K) |-> s[place[k]]]
  BY DEF Only
<1>9. \A k \in 1 .. Cardinality(K) : place[k] \in 1 .. Len(s) /\ s[place[k]] \in D
  <2>1. \A i \in 1 .. Len(s) : s[i] \in D
    OBVIOUS
  <2>2. \A k \in 1 .. Cardinality(K) : place[k] \in K
    BY <1>6
  <2> QED
    BY <2>1, <2>2
<1>10. Only(s, K) \in Seq(D) /\ Len(Only(s, K)) = Cardinality(K)
       /\ \A k \in 1 .. Cardinality(K) : Only(s, K)[k] = s[place[k]]
  BY <1>6, <1>8, <1>9
<1>11. Chosen(Only(s, K), s, K)
  <2>1. PICK o, n : o = Only(s, K) /\ n = Cardinality(K)
    OBVIOUS
  <2>2. Len(o) = n /\ place \in [1 .. n -> K] /\ \A k \in 1 .. n : o[k] = s[place[k]]
    BY <1>6, <1>10, <2>1
  <2>3. /\ \A i \in K : \E k \in 1 .. n : place[k] = i
        /\ \A j, k \in 1 .. n : j < k => place[j] < place[k]
    BY <1>6, <1>7, <2>1
  <2>4. Chosen(o, s, K)
    BY <2>2, <2>3 DEF Chosen
  <2> QED
    BY <2>1, <2>4
<1> QED
  BY <1>3, <1>10, <1>11

\* No element stands twice.
Distinct(s) == \A j, k \in 1 .. Len(s) : s[j] = s[k] => j = k

\* What is selected: the elements at the places, once if they were there once.
LEMMA OnlyThose ==
  ASSUME NEW D, NEW s \in Seq(D), NEW K \in SUBSET (1 .. Len(s))
  PROVE  /\ Only(s, K) \in Seq(D)
         /\ Range(Only(s, K)) = {s[i] : i \in K}
         /\ Distinct(s) => Distinct(Only(s, K))
<1>0. PICK o, n : o = Only(s, K) /\ n = Len(o)
  OBVIOUS
<1>1. o \in Seq(D) /\ Len(o) = n /\ Chosen(o, s, K)
  BY <1>0, OnlyIs
<1>2. PICK place \in [1 .. n -> K] :
        /\ \A k \in 1 .. n : o[k] = s[place[k]]
        /\ \A i \in K : \E k \in 1 .. n : place[k] = i
        /\ \A j, k \in 1 .. n : j < k => place[j] < place[k]
  BY <1>1 DEF Chosen
<1>3. DOMAIN o = 1 .. n /\ n \in Nat
  BY <1>1
<1>4. Range(o) = {s[i] : i \in K}
  <2>1. ASSUME NEW k \in 1 .. n PROVE o[k] \in {s[i] : i \in K}
    BY <1>2
  <2>2. ASSUME NEW i \in K PROVE s[i] \in {o[k] : k \in 1 .. n}
    BY <1>2
  <2> QED
    BY <1>3, <2>1, <2>2 DEF Range
<1>5. ASSUME Distinct(s), NEW j \in 1 .. n, NEW k \in 1 .. n, o[j] = o[k] PROVE j = k
  <2>1. place[j] \in 1 .. Len(s) /\ place[k] \in 1 .. Len(s) /\ s[place[j]] = s[place[k]]
    BY <1>2, <1>5
  <2>2. place[j] = place[k]
    BY <1>5, <2>1 DEF Distinct
  <2>3. ~(j < k) /\ ~(k < j)
    BY <1>2, <2>1, <2>2
  <2> QED
    BY <1>3, <2>3
<1>6. Distinct(s) => Distinct(o)
  BY <1>1, <1>5 DEF Distinct
<1> QED
  BY <1>0, <1>1, <1>4, <1>6

===============================================================================

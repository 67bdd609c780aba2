-------------------------- MODULE TokenAccountProofs --------------------------
(***************************************************************************)
(* The ledger adds up, for any number of workers, jobs and accounts, any   *)
(* limits and any finite set of jobs: the rows of a minute are charged     *)
(* with the grants that were committed for it and nothing else, usage is   *)
(* recorded once per success, and the provider is sent no more by the end  *)
(* of a minute than was reserved by then.                                  *)
(*                                                                         *)
(* Each of the three compares a sum kept in the rows with a sum over       *)
(* history. The run states the sums with MapThenSumSet; here they are      *)
(* SumOver, about which the first part proves what the arguments need.     *)
(***************************************************************************)
EXTENDS TokenLedgerProofs, FiniteSetTheorems

-----------------------------------------------------------------------------
(* Sums over finite sets, by induction on their size.  Each induction takes the form    *)
(* of a set of counterexamples that is empty, because it has no least element.          *)

\* The element of a set that a fold takes next.
Pick(s) == CHOOSE x \in s : TRUE

\* F adds up h over the subsets of S.
Sums(F, h, S) ==
  F = [s \in SUBSET S |-> IF s = {} THEN 0 ELSE h[Pick(s)] + F[s \ {Pick(s)}]]

\* The sum of the values of a function.
SumOver(h, S) == MapThenSumSet(LAMBDA x : h[x], S)

\* A set of numbers without a least one is empty.
LEMMA LeastNumber ==
  ASSUME NEW N \in SUBSET Nat, N # {}
  PROVE  \E n \in N : \A m \in N : n <= m
<1>1. PICK n \in N : \A m \in N : <<m, n>> \notin OpToRel(<, Nat)
  BY NatLessThanWellFounded, WFMin
<1>2. \A m \in N : ~ (m < n)
  BY <1>1 DEF OpToRel
<1>3. QED
  BY <1>2

\* Taking one element from a nonempty finite set makes it smaller by one.
LEMMA PickSmaller ==
  ASSUME NEW S, IsFiniteSet(S), S # {}
  PROVE  /\ Pick(S) \in S /\ IsFiniteSet(S \ {Pick(S)})
         /\ Cardinality(S) \in Nat \ {0}
         /\ Cardinality(S \ {Pick(S)}) = Cardinality(S) - 1
BY FS_RemoveElement, FS_CardinalityType, FS_EmptySet DEF Pick

\* The function that adds up exists ...
LEMMA SumsExist ==
  ASSUME NEW S, IsFiniteSet(S), NEW h \in [S -> Nat]
  PROVE  \E F \in [SUBSET S -> Nat] : Sums(F, h, S)
<1> DEFINE Small(n) == {s \in SUBSET S : Cardinality(s) <= n}
           Good(F, n) == \A s \in Small(n) :
             F[s] = IF s = {} THEN 0 ELSE h[Pick(s)] + F[s \ {Pick(s)}]
           N == {n \in Nat : ~ \E F \in [Small(n) -> Nat] : Good(F, n)}
<1>1. \A s \in SUBSET S : IsFiniteSet(s) /\ Cardinality(s) \in Nat
  BY FS_Subset, FS_CardinalityType
<1>2. 0 \notin N
  <2>1. Small(0) = {{}}
    BY <1>1, FS_EmptySet
  <2>2. [s \in Small(0) |-> 0] \in [Small(0) -> Nat] /\ Good([s \in Small(0) |-> 0], 0)
    BY <2>1
  <2>3. QED
    BY <2>2
<1>3. ASSUME NEW n \in Nat, n \notin N PROVE n + 1 \notin N
  <2>1. PICK F \in [Small(n) -> Nat] : Good(F, n)
    BY <1>3
  <2> DEFINE G == [s \in Small(n + 1) |->
                     IF s \in Small(n) THEN F[s] ELSE h[Pick(s)] + F[s \ {Pick(s)}]]
  <2>2. \A s \in Small(n + 1) : s # {} => Pick(s) \in S /\ s \ {Pick(s)} \in Small(n)
    BY <1>1, PickSmaller
  <2>3. {} \in Small(n)
    BY FS_EmptySet
  <2>4. \A s \in Small(n) : s \in Small(n + 1)
    BY <1>1
  <2>5. G \in [Small(n + 1) -> Nat]
    <3> HIDE DEF Small
    <3>1. ASSUME NEW s \in Small(n + 1), s \notin Small(n)
          PROVE  h[Pick(s)] + F[s \ {Pick(s)}] \in Nat
      <4>1. h[Pick(s)] \in Nat /\ F[s \ {Pick(s)}] \in Nat
        BY <2>1, <2>2, <2>3, <3>1
      <4>2. QED
        BY <4>1
    <3>2. QED
      BY <2>1, <3>1
  <2>6. \A s \in Small(n) : s # {} => s \ {Pick(s)} \in Small(n)
    BY <2>2, <2>4
  <2> HIDE DEF Small
  <2>7. Good(G, n + 1)
    <3> SUFFICES ASSUME NEW s \in Small(n + 1)
                 PROVE  G[s] = IF s = {} THEN 0 ELSE h[Pick(s)] + G[s \ {Pick(s)}]
      OBVIOUS
    <3>1. CASE s \in Small(n)
      <4>1. G[s] = F[s]
        BY <3>1
      <4>2. s # {} => G[s \ {Pick(s)}] = F[s \ {Pick(s)}]
        BY <2>4, <2>6, <3>1
      <4>3. F[s] = IF s = {} THEN 0 ELSE h[Pick(s)] + F[s \ {Pick(s)}]
        BY <2>1, <3>1
      <4>4. QED
        BY <4>1, <4>2, <4>3
    <3>2. CASE s \notin Small(n)
      <4>1. s # {} /\ s \ {Pick(s)} \in Small(n)
        BY <2>2, <2>3, <3>2
      <4>2. G[s \ {Pick(s)}] = F[s \ {Pick(s)}]
        BY <2>4, <4>1
      <4>3. QED
        BY <3>2, <4>1, <4>2
    <3>3. QED
      BY <3>1, <3>2
  <2>8. QED
    BY <2>5, <2>7
<1>4. N = {}
  <2> SUFFICES ASSUME N # {} PROVE FALSE
    OBVIOUS
  <2>1. N \in SUBSET Nat
    OBVIOUS
  <2> HIDE DEF N
  <2>2. PICK n \in N : \A m \in N : n <= m
    BY <2>1, LeastNumber
  <2>3. n # 0 /\ n - 1 \in Nat /\ n - 1 \notin N
    BY <1>2, <2>1, <2>2
  <2>4. QED
    BY <1>3, <2>1, <2>3
<1>5. Small(Cardinality(S)) = SUBSET S
  BY <1>1, FS_Subset
<1>6. PICK F \in [SUBSET S -> Nat] : Good(F, Cardinality(S))
  BY <1>1, <1>4, <1>5
<1>7. F = [s \in SUBSET S |-> F[s]]
  OBVIOUS
<1>8. \A s \in SUBSET S : F[s] = IF s = {} THEN 0 ELSE h[Pick(s)] + F[s \ {Pick(s)}]
  BY <1>5, <1>6
<1>9. QED
  BY <1>7, <1>8 DEF Sums

\* ... and is the only one, whatever set the subsets are taken from and wherever the two
\* functions differ.
LEMMA SumsAgree ==
  ASSUME NEW S, IsFiniteSet(S), NEW T, IsFiniteSet(T), NEW U \in SUBSET (S \cap T),
         NEW h, NEW g, \A x \in U : g[x] = h[x],
         NEW F, Sums(F, h, S), NEW G, Sums(G, g, T)
  PROVE  F[U] = G[U]
<1> DEFINE N == {n \in Nat : \E s \in SUBSET U : Cardinality(s) = n /\ F[s] # G[s]}
<1>1. \A s \in SUBSET U : IsFiniteSet(s) /\ Cardinality(s) \in Nat
  BY FS_Subset, FS_CardinalityType
<1>2. \A s \in SUBSET U : F[s] = IF s = {} THEN 0 ELSE h[Pick(s)] + F[s \ {Pick(s)}]
  BY DEF Sums
<1>3. \A s \in SUBSET U : G[s] = IF s = {} THEN 0 ELSE g[Pick(s)] + G[s \ {Pick(s)}]
  BY DEF Sums
<1>4. N = {}
  <2> SUFFICES ASSUME N # {} PROVE FALSE
    OBVIOUS
  <2>1. PICK n \in N : \A m \in N : n <= m
    BY LeastNumber
  <2>2. PICK s \in SUBSET U : Cardinality(s) = n /\ F[s] # G[s]
    OBVIOUS
  <2>3. s # {}
    BY <1>2, <1>3, <2>2
  <2>4. Pick(s) \in U /\ Cardinality(s \ {Pick(s)}) = n - 1 /\ n \in Nat \ {0}
    BY <1>1, <2>2, <2>3, PickSmaller
  <2>5. F[s \ {Pick(s)}] = G[s \ {Pick(s)}]
    BY <2>1, <2>4
  <2>6. QED
    BY <1>2, <1>3, <2>2, <2>3, <2>4, <2>5
<1>5. QED
  BY <1>1, <1>4

\* F is that function, and its last value the sum.
Adds(F, h, S) == F \in [SUBSET S -> Nat] /\ Sums(F, h, S) /\ SumOver(h, S) = F[S]

\* A sum is the value of the function that adds up.
LEMMA SumIsAFold ==
  ASSUME NEW S, IsFiniteSet(S), NEW h, NEW g \in [S -> Nat], \A x \in S : g[x] = h[x]
  PROVE  \E F : Adds(F, h, S)
<1>1. \A s \in SUBSET S : s # {} => h[Pick(s)] = g[Pick(s)]
  BY DEF Pick
<1>2. PICK E \in [SUBSET S -> Nat] : Sums(E, g, S)
  BY SumsExist
<1>3. Sums(E, h, S)
  BY <1>1, <1>2 DEF Sums
<1> DEFINE F == CHOOSE F : Sums(F, h, S)
<1>4. Sums(F, h, S)
  BY <1>3
<1>5. SumOver(h, S) = F[S]
  BY DEF SumOver, MapThenSumSet, MapThenFoldSet, Sums, Pick
<1> HIDE DEF F
<1>6. ASSUME NEW s \in SUBSET S PROVE F[s] = E[s]
  <2>1. s \in SUBSET (S \cap S)
    OBVIOUS
  <2>2. QED
    BY <1>3, <1>4, <2>1, SumsAgree
<1>7. F = [s \in SUBSET S |-> F[s]]
  BY <1>4 DEF Sums
<1>8. F = E
  BY <1>6, <1>7
<1>9. QED
  BY <1>2, <1>4, <1>5, <1>8 DEF Adds

\* What a sum is: zero over nothing, and over anything else the value at one element,
\* whichever it is, and the rest.
LEMMA SumParts ==
  ASSUME NEW S, IsFiniteSet(S), NEW h, \A x \in S : h[x] \in Nat
  PROVE  /\ SumOver(h, S) \in Nat
         /\ SumOver(h, {}) = 0
         /\ \A y \in S : SumOver(h, S) = h[y] + SumOver(h, S \ {y})
<1> DEFINE R(U) == [x \in U |-> h[x]]
<1>1. \A U \in SUBSET S : IsFiniteSet(U) /\ R(U) \in [U -> Nat] /\ \A x \in U : R(U)[x] = h[x]
  BY FS_Subset
<1> HIDE DEF R
<1>2. \A U \in SUBSET S : \E F : Adds(F, h, U)
  BY <1>1, SumIsAFold
<1>3. PICK F \in [SUBSET S -> Nat] : Sums(F, h, S)
  BY <1>2 DEF Adds
<1>4. ASSUME NEW U \in SUBSET S PROVE SumOver(h, U) = F[U]
  <2>1. PICK G : Sums(G, h, U) /\ SumOver(h, U) = G[U]
    BY <1>2 DEF Adds
  <2>2. IsFiniteSet(U) /\ U \in SUBSET (S \cap U)
    BY <1>1
  <2>3. F[U] = G[U]
    BY <1>3, <2>1, <2>2, SumsAgree
  <2>4. QED
    BY <2>1, <2>3
<1>5. \A s \in SUBSET S : F[s] = IF s = {} THEN 0 ELSE h[Pick(s)] + F[s \ {Pick(s)}]
  BY <1>3 DEF Sums
<1> DEFINE N == {n \in Nat : \E s \in SUBSET S : /\ Cardinality(s) = n
                                                /\ \E y \in s : F[s] # h[y] + F[s \ {y}]}
<1>6. N = {}
  <2> SUFFICES ASSUME N # {} PROVE FALSE
    OBVIOUS
  <2>1. PICK n \in N : /\ \A m \in N : n <= m
                       /\ \A m \in Nat : m < n => m \notin N
    <3>1. N \in SUBSET Nat
      OBVIOUS
    <3> HIDE DEF N
    <3>2. PICK n \in N : \A m \in N : n <= m
      BY <3>1, LeastNumber
    <3>3. \A m \in Nat : m < n => m \notin N
      BY <3>1, <3>2
    <3>4. QED
      BY <3>2, <3>3
  <2>2. PICK s \in SUBSET S : Cardinality(s) = n /\ \E y \in s : F[s] # h[y] + F[s \ {y}]
    OBVIOUS
  <2>3. PICK y \in s : F[s] # h[y] + F[s \ {y}]
    BY <2>2
  <2> DEFINE x == Pick(s)
  <2>4. x \in s /\ x # y /\ F[s] = h[x] + F[s \ {x}]
    BY <1>5, <2>3 DEF Pick
  <2>5. /\ IsFiniteSet(s) /\ Cardinality(s \ {x}) \in Nat /\ Cardinality(s \ {x}) < n
        /\ Cardinality(s \ {y}) \in Nat /\ Cardinality(s \ {y}) < n
    <3>1. IsFiniteSet(s) /\ Cardinality(s) \in Nat /\ Cardinality(s) # 0
      BY <2>3, FS_Subset, FS_CardinalityType, FS_EmptySet
    <3>2. \A z \in s : IsFiniteSet(s \ {z}) /\ Cardinality(s \ {z}) = Cardinality(s) - 1
      BY <3>1, FS_RemoveElement
    <3>3. Cardinality(s \ {x}) = n - 1 /\ Cardinality(s \ {y}) = n - 1
      BY <2>2, <2>4, <3>2
    <3>4. QED
      BY <2>2, <3>1, <3>3
  <2> HIDE DEF x
  <2>6. ASSUME NEW a \in {x, y}, NEW b \in {x, y}, a # b
        PROVE  F[s \ {a}] = h[b] + F[(s \ {a}) \ {b}]
    <3>1. Cardinality(s \ {a}) \notin N
      <4>1. Cardinality(s \ {a}) \in Nat /\ Cardinality(s \ {a}) < n
        BY <2>5
      <4>2. QED
        BY <2>1, <4>1
    <3>2. a \in s /\ b \in s
      BY <2>3, <2>4
    <3>3. s \ {a} \in SUBSET S /\ b \in s \ {a}
      BY <2>6, <3>2
    <3>4. QED
      BY <2>5, <3>1, <3>3
  <2>7. (s \ {x}) \ {y} = (s \ {y}) \ {x} /\ (s \ {x}) \ {y} \in SUBSET S
    OBVIOUS
  <2>8. h[x] \in Nat /\ h[y] \in Nat /\ F[(s \ {x}) \ {y}] \in Nat
    BY <1>3, <2>4, <2>7
  <2>9. /\ F[s \ {x}] = h[y] + F[(s \ {x}) \ {y}]
        /\ F[s \ {y}] = h[x] + F[(s \ {x}) \ {y}]
    BY <2>4, <2>6, <2>7
  <2>10. QED
    BY <2>3, <2>4, <2>8, <2>9
<1>7. ASSUME NEW y \in S PROVE F[S] = h[y] + F[S \ {y}]
  BY <1>6, FS_CardinalityType
<1>8. F[S] \in Nat /\ F[{}] = 0
  BY <1>3, <1>5
<1>9. QED
  BY <1>4, <1>7, <1>8

\* A sum depends on the values alone.
LEMMA SumExt ==
  ASSUME NEW S, IsFiniteSet(S), NEW h, \A x \in S : h[x] \in Nat,
         NEW g, \A x \in S : g[x] = h[x]
  PROVE  SumOver(g, S) = SumOver(h, S)
<1> DEFINE r == [x \in S |-> h[x]]
<1>1. /\ r \in [S -> Nat]
      /\ \A x \in S : r[x] = h[x]
      /\ \A x \in S : r[x] = g[x]
  OBVIOUS
<1> HIDE DEF r
<1>2. PICK F : Adds(F, h, S)
  BY <1>1, SumIsAFold
<1>3. PICK G : Adds(G, g, S)
  BY <1>1, SumIsAFold
<1>4. F[S] = G[S]
  BY <1>2, <1>3, SumsAgree DEF Adds
<1>5. QED
  BY <1>2, <1>3, <1>4 DEF Adds

\* Nothing adds up to nothing.
LEMMA SumZero ==
  ASSUME NEW S, IsFiniteSet(S), NEW h, \A x \in S : h[x] = 0
  PROVE  SumOver(h, S) = 0
<1> DEFINE N == {n \in Nat : \E s \in SUBSET S : Cardinality(s) = n /\ SumOver(h, s) # 0}
<1>1. \A s \in SUBSET S : /\ IsFiniteSet(s) /\ Cardinality(s) \in Nat
                          /\ \A x \in s : h[x] \in Nat
  BY FS_Subset, FS_CardinalityType
<1>2. N = {}
  <2> SUFFICES ASSUME N # {} PROVE FALSE
    OBVIOUS
  <2>1. N \in SUBSET Nat
    OBVIOUS
  <2>2. PICK n \in N : \A m \in N : n <= m
    <3> HIDE DEF N
    <3>1. QED
      BY <2>1, LeastNumber
  <2>3. PICK s \in SUBSET S : Cardinality(s) = n /\ SumOver(h, s) # 0
    OBVIOUS
  <2>4. s # {}
    BY <1>1, <2>3, SumParts
  <2>5. PICK x \in s : TRUE
    BY <2>4
  <2>6. SumOver(h, s) = h[x] + SumOver(h, s \ {x}) /\ SumOver(h, s) \in Nat
    BY <1>1, SumParts
  <2>7. Cardinality(s \ {x}) = n - 1 /\ n - 1 \in Nat
    <3>1. IsFiniteSet(s) /\ Cardinality(s) \in Nat /\ Cardinality(s) # 0
      BY <1>1, <2>4, FS_EmptySet
    <3>2. Cardinality(s \ {x}) = Cardinality(s) - 1
      BY <2>5, <3>1, FS_RemoveElement
    <3>3. QED
      BY <2>3, <3>1, <3>2
  <2>8. n - 1 \notin N
    <3> HIDE DEF N
    <3>1. QED
      BY <2>1, <2>2, <2>7
  <2>9. SumOver(h, s \ {x}) = 0
    BY <2>7, <2>8
  <2>10. QED
    BY <2>3, <2>6, <2>9
<1>3. QED
  BY <1>1, <1>2

\* A value that grows makes the sum grow by as much.
LEMMA SumBump ==
  ASSUME NEW S, IsFiniteSet(S), NEW h, \A x \in S : h[x] \in Nat,
         NEW y \in S, NEW k \in Nat, NEW g, g[y] = h[y] + k, \A x \in S \ {y} : g[x] = h[x]
  PROVE  SumOver(g, S) = SumOver(h, S) + k
<1>1. IsFiniteSet(S \ {y}) /\ h[y] \in Nat /\ \A x \in S : g[x] \in Nat
  BY FS_RemoveElement
<1>2. SumOver(h, S) = h[y] + SumOver(h, S \ {y}) /\ SumOver(g, S) = g[y] + SumOver(g, S \ {y})
  BY <1>1, SumParts
<1>3. SumOver(g, S \ {y}) = SumOver(h, S \ {y}) /\ SumOver(h, S \ {y}) \in Nat
  BY <1>1, SumExt, SumParts
<1>4. QED
  BY <1>1, <1>2, <1>3

\* Elements with the value zero can be left out.
LEMMA SumRestrict ==
  ASSUME NEW S, IsFiniteSet(S), NEW h, \A x \in S : h[x] \in Nat,
         NEW T \in SUBSET S, \A x \in S \ T : h[x] = 0
  PROVE  SumOver(h, S) = SumOver(h, T)
<1> DEFINE N == {n \in Nat : \E U \in SUBSET (S \ T) : /\ Cardinality(U) = n
                                                      /\ SumOver(h, T \cup U) # SumOver(h, T)}
<1>1. \A U \in SUBSET S : /\ IsFiniteSet(U) /\ Cardinality(U) \in Nat
                          /\ \A x \in U : h[x] \in Nat
  BY FS_Subset, FS_CardinalityType
<1>2. N = {}
  <2> SUFFICES ASSUME N # {} PROVE FALSE
    OBVIOUS
  <2>1. N \in SUBSET Nat
    OBVIOUS
  <2>2. PICK n \in N : \A m \in N : n <= m
    <3> HIDE DEF N
    <3>1. QED
      BY <2>1, LeastNumber
  <2>3. PICK U \in SUBSET (S \ T) : Cardinality(U) = n /\ SumOver(h, T \cup U) # SumOver(h, T)
    OBVIOUS
  <2>4. U # {}
    <3>1. U = {} => T \cup U = T
      OBVIOUS
    <3>2. QED
      BY <2>3, <3>1
  <2>5. PICK x \in U : TRUE
    BY <2>4
  <2>6. Cardinality(U \ {x}) = n - 1 /\ n - 1 \in Nat
    <3>1. IsFiniteSet(U) /\ Cardinality(U) \in Nat /\ Cardinality(U) # 0
      BY <1>1, <2>4, FS_EmptySet
    <3>2. Cardinality(U \ {x}) = Cardinality(U) - 1
      BY <2>5, <3>1, FS_RemoveElement
    <3>3. QED
      BY <2>3, <3>1, <3>2
  <2>7. n - 1 \notin N
    <3> HIDE DEF N
    <3>1. QED
      BY <2>1, <2>2, <2>6
  <2>8. U \ {x} \in SUBSET (S \ T)
    OBVIOUS
  <2>9. SumOver(h, T \cup (U \ {x})) = SumOver(h, T)
    BY <2>6, <2>7, <2>8
  <2>10. (T \cup U) \ {x} = T \cup (U \ {x}) /\ x \in T \cup U /\ T \cup U \in SUBSET S
         /\ T \cup (U \ {x}) \in SUBSET S /\ h[x] = 0
    BY <2>5
  <2>11. SumOver(h, T \cup U) = h[x] + SumOver(h, T \cup (U \ {x}))
    <3>1. IsFiniteSet(T \cup U) /\ \A y \in T \cup U : h[y] \in Nat
      BY <1>1, <2>10
    <3>2. \A y \in T \cup U : SumOver(h, T \cup U) = h[y] + SumOver(h, (T \cup U) \ {y})
      BY <3>1, SumParts
    <3>3. QED
      BY <2>10, <3>2
  <2>12. SumOver(h, T \cup (U \ {x})) \in Nat
    BY <1>1, <2>10, SumParts
  <2>13. QED
    BY <2>3, <2>9, <2>10, <2>11, <2>12
<1>3. Cardinality(S \ T) \in Nat /\ T \cup (S \ T) = S
  BY <1>1
<1>4. QED
  BY <1>2, <1>3

\* The sum of a sum is the sum of the sums.
LEMMA SumAdd ==
  ASSUME NEW S, IsFiniteSet(S), NEW g, NEW h, \A x \in S : g[x] \in Nat /\ h[x] \in Nat,
         NEW f, \A x \in S : f[x] = g[x] + h[x]
  PROVE  SumOver(f, S) = SumOver(g, S) + SumOver(h, S)
<1> DEFINE N == {n \in Nat : \E s \in SUBSET S :
                   Cardinality(s) = n /\ SumOver(f, s) # SumOver(g, s) + SumOver(h, s)}
<1>1. \A s \in SUBSET S :
        /\ IsFiniteSet(s) /\ Cardinality(s) \in Nat
        /\ SumOver(f, s) \in Nat /\ SumOver(g, s) \in Nat /\ SumOver(h, s) \in Nat
        /\ SumOver(f, {}) = 0 /\ SumOver(g, {}) = 0 /\ SumOver(h, {}) = 0
        /\ \A x \in s : /\ SumOver(f, s) = f[x] + SumOver(f, s \ {x})
                        /\ SumOver(g, s) = g[x] + SumOver(g, s \ {x})
                        /\ SumOver(h, s) = h[x] + SumOver(h, s \ {x})
  <2> SUFFICES ASSUME NEW s \in SUBSET S
               PROVE  /\ IsFiniteSet(s) /\ Cardinality(s) \in Nat
                      /\ SumOver(f, s) \in Nat /\ SumOver(g, s) \in Nat /\ SumOver(h, s) \in Nat
                      /\ SumOver(f, {}) = 0 /\ SumOver(g, {}) = 0 /\ SumOver(h, {}) = 0
                      /\ \A x \in s : /\ SumOver(f, s) = f[x] + SumOver(f, s \ {x})
                                      /\ SumOver(g, s) = g[x] + SumOver(g, s \ {x})
                                      /\ SumOver(h, s) = h[x] + SumOver(h, s \ {x})
    OBVIOUS
  <2>1. IsFiniteSet(s) /\ Cardinality(s) \in Nat
    BY FS_Subset, FS_CardinalityType
  <2>2. /\ \A x \in s : f[x] \in Nat
        /\ \A x \in s : g[x] \in Nat
        /\ \A x \in s : h[x] \in Nat
    OBVIOUS
  <2>3. QED
    BY <2>1, <2>2, SumParts
<1>2. N = {}
  <2> SUFFICES ASSUME N # {} PROVE FALSE
    OBVIOUS
  <2>1. N \in SUBSET Nat
    OBVIOUS
  <2>2. PICK n \in N : \A m \in N : n <= m
    <3> HIDE DEF N
    <3>1. QED
      BY <2>1, LeastNumber
  <2>3. PICK s \in SUBSET S :
          Cardinality(s) = n /\ SumOver(f, s) # SumOver(g, s) + SumOver(h, s)
    OBVIOUS
  <2>4. s # {}
    <3> SUFFICES ASSUME s = {} PROVE FALSE
      OBVIOUS
    <3>1. SumOver(f, s) = 0 /\ SumOver(g, s) = 0 /\ SumOver(h, s) = 0
      BY <1>1
    <3>2. QED
      BY <2>3, <3>1
  <2>5. PICK x \in s : TRUE
    BY <2>4
  <2>6. Cardinality(s \ {x}) = n - 1 /\ n - 1 \in Nat
    <3>1. IsFiniteSet(s) /\ Cardinality(s) \in Nat /\ Cardinality(s) # 0
      BY <1>1, <2>4, FS_EmptySet
    <3>2. Cardinality(s \ {x}) = Cardinality(s) - 1
      BY <2>5, <3>1, FS_RemoveElement
    <3>3. QED
      BY <2>3, <3>1, <3>2
  <2>7. n - 1 \notin N
    <3> HIDE DEF N
    <3>1. QED
      BY <2>1, <2>2, <2>6
  <2>8. SumOver(f, s \ {x}) = SumOver(g, s \ {x}) + SumOver(h, s \ {x})
    BY <2>6, <2>7
  <2>9. /\ SumOver(f, s) = f[x] + SumOver(f, s \ {x})
        /\ SumOver(g, s) = g[x] + SumOver(g, s \ {x})
        /\ SumOver(h, s) = h[x] + SumOver(h, s \ {x})
        /\ SumOver(g, s \ {x}) \in Nat /\ SumOver(h, s \ {x}) \in Nat
        /\ f[x] = g[x] + h[x] /\ g[x] \in Nat /\ h[x] \in Nat
    BY <1>1, <2>5
  <2>10. QED
    BY <2>3, <2>8, <2>9
<1>3. QED
  BY <1>1, <1>2

\* A sum grows with its values.
LEMMA SumLess ==
  ASSUME NEW S, IsFiniteSet(S), NEW g, NEW h,
         \A x \in S : g[x] \in Nat /\ h[x] \in Nat /\ g[x] <= h[x]
  PROVE  SumOver(g, S) <= SumOver(h, S)
<1> DEFINE d == [x \in S |-> h[x] - g[x]]
<1>1. \A x \in S : d[x] \in Nat /\ h[x] = g[x] + d[x]
  OBVIOUS
<1> HIDE DEF d
<1>2. SumOver(h, S) = SumOver(g, S) + SumOver(d, S)
  BY <1>1, SumAdd
<1>3. SumOver(g, S) \in Nat /\ SumOver(d, S) \in Nat
  BY <1>1, SumParts
<1>4. QED
  BY <1>2, <1>3

-----------------------------------------------------------------------------
(* What a row of the ledger is charged with *)

\* Grants by job, in tokens.
Tokens(g) == [j \in Jobs |-> g[j] * Estimate[j]]

\* The rows u of a minute are charged with the grants g.
Charged(u, g) ==
  \A a \in Accounts : /\ u[a].requestsReserved = SumOver(g, JobsOf(a))
                      /\ u[a].reservedTokens = SumOver(Tokens(g), JobsOf(a))

\* The grants of minute m as they will be if the open transaction of w commits.
Claimed(w, m) ==
  [j \in Jobs |-> granted[m][j] +
     (IF Claiming(w) /\ j \in DOMAIN admitted[w] /\ admitted[w][j] = m THEN 1 ELSE 0)]

LedgerCharged ==
  /\ \A m \in DOMAIN ledger : Charged(ledger[m], granted[m])
  /\ \A m \in Minutes \ DOMAIN ledger, j \in Jobs : granted[m][j] = 0

DraftsCharged ==
  \A w \in Workers : \A m \in DOMAIN draft[w] : Charged(draft[w][m], Claimed(w, m))

\* A claim transaction holds the rows its grants are charged to, and decides about a job
\* once; the only other transaction that holds rows is one that records.
ClaimsCovered ==
  \A w \in Workers :
    /\ pc[w] = "idle" => DOMAIN admitted[w] = {}
    /\ pc[w] \notin {"claiming", "reserving", "recording"} => DOMAIN draft[w] = {}
    /\ Claiming(w) => /\ \A j \in DOMAIN admitted[w] : admitted[w][j] \in DOMAIN draft[w]
                      /\ DOMAIN admitted[w] \cap batch[w] = {}
    /\ pc[w] = "reserving" => cur[w] \in batch[w]

ChargeInv == LedgerInv /\ ClaimsCovered /\ LedgerCharged /\ DraftsCharged

\* The jobs of an account are finitely many, and an estimate is a number.
LEMMA JobsOfFacts ==
  /\ \A a : IsFiniteSet(JobsOf(a)) /\ JobsOf(a) \subseteq Jobs
  /\ \A j \in Jobs : Estimate[j] \in Nat
  /\ \A g \in [Jobs -> Nat] : Tokens(g) \in [Jobs -> Nat]
  /\ \A j \in Jobs, a \in Accounts : j \in JobsOf(a) <=> a \in {GlobalAccount, CustomerOf[j]}
<1>1. \A a : IsFiniteSet(JobsOf(a)) /\ JobsOf(a) \subseteq Jobs
  BY TokenBudgetAssumption, FS_Subset DEF JobsOf
<1>2. \A j \in Jobs : Estimate[j] \in Nat
  BY TokenBudgetAssumption
<1>3. \A g \in [Jobs -> Nat] : Tokens(g) \in [Jobs -> Nat]
  BY <1>2 DEF Tokens
<1>4. \A j \in Jobs, a \in Accounts : j \in JobsOf(a) <=> a \in {GlobalAccount, CustomerOf[j]}
  BY TokenBudgetAssumption DEF JobsOf, Accounts
<1>5. QED
  BY <1>1, <1>2, <1>3, <1>4

\* The empty rows are charged with no grants.
LEMMA NewCharged ==
  ASSUME NEW g, \A j \in Jobs : g[j] = 0
  PROVE  Charged(NewUsage, g)
<1>1. \A j \in Jobs : Tokens(g)[j] = 0
  BY JobsOfFacts DEF Tokens
<1>2. ASSUME NEW a \in Accounts
      PROVE  SumOver(g, JobsOf(a)) = 0 /\ SumOver(Tokens(g), JobsOf(a)) = 0
  <2>1. IsFiniteSet(JobsOf(a)) /\ \A j \in JobsOf(a) : g[j] = 0 /\ Tokens(g)[j] = 0
    BY <1>1, JobsOfFacts
  <2>2. QED
    BY <2>1, SumZero
<1>3. QED
  BY <1>2 DEF Charged, NewUsage

\* A reservation charges one grant, to the platform and to the customer of the job.
LEMMA ReservedCharged ==
  ASSUME NEW u \in Usage, NEW j \in Jobs, NEW g \in [Jobs -> Nat], NEW f \in [Jobs -> Nat],
         Charged(u, g), f[j] = g[j] + 1, \A i \in Jobs \ {j} : f[i] = g[i]
  PROVE  Charged(Reserved(u, j), f)
<1>1. /\ Estimate[j] \in Nat /\ Tokens(g) \in [Jobs -> Nat] /\ Tokens(f) \in [Jobs -> Nat]
  BY JobsOfFacts
<1>2. Tokens(f)[j] = Tokens(g)[j] + Estimate[j]
  <2>1. ASSUME NEW p \in Nat, NEW q \in Nat PROVE (p + 1) * q = p * q + q
    OBVIOUS
  <2>2. QED
    BY <1>1, <2>1 DEF Tokens
<1>3. \A i \in Jobs \ {j} : Tokens(f)[i] = Tokens(g)[i]
  BY DEF Tokens
<1>4. ASSUME NEW a \in Accounts
      PROVE  /\ Reserved(u, j)[a].requestsReserved = SumOver(f, JobsOf(a))
             /\ Reserved(u, j)[a].reservedTokens = SumOver(Tokens(f), JobsOf(a))
  <2>1. /\ u[a] \in Row /\ u[a].requestsReserved = SumOver(g, JobsOf(a))
        /\ u[a].reservedTokens = SumOver(Tokens(g), JobsOf(a))
    BY DEF Charged, Usage
  <2>2. IsFiniteSet(JobsOf(a)) /\ JobsOf(a) \subseteq Jobs
    BY JobsOfFacts
  <2>3. CASE a \in {GlobalAccount, CustomerOf[j]}
    <3>1. Reserved(u, j)[a] = [u[a] EXCEPT !.reservedTokens = @ + Estimate[j],
                                           !.requestsReserved = @ + 1]
      BY <2>3, Zenon DEF Reserved
    <3>2. /\ Reserved(u, j)[a].requestsReserved = u[a].requestsReserved + 1
          /\ Reserved(u, j)[a].reservedTokens = u[a].reservedTokens + Estimate[j]
      BY <2>1, <3>1 DEF Row
    <3>3. j \in JobsOf(a)
      BY <2>3, JobsOfFacts
    <3>4. /\ \A i \in JobsOf(a) : g[i] \in Nat /\ Tokens(g)[i] \in Nat
          /\ \A i \in JobsOf(a) \ {j} : f[i] = g[i] /\ Tokens(f)[i] = Tokens(g)[i]
      BY <1>1, <1>3, <2>2
    <3>5. SumOver(f, JobsOf(a)) = SumOver(g, JobsOf(a)) + 1
      BY <2>2, <3>3, <3>4, SumBump
    <3>6. SumOver(Tokens(f), JobsOf(a)) = SumOver(Tokens(g), JobsOf(a)) + Estimate[j]
      BY <1>1, <1>2, <2>2, <3>3, <3>4, SumBump
    <3>7. QED
      BY <2>1, <3>2, <3>5, <3>6
  <2>4. CASE a \notin {GlobalAccount, CustomerOf[j]}
    <3>1. Reserved(u, j)[a] = u[a]
      BY <2>4 DEF Reserved
    <3>2. j \notin JobsOf(a)
      BY <2>4, JobsOfFacts
    <3>3. \A i \in JobsOf(a) : /\ g[i] \in Nat /\ Tokens(g)[i] \in Nat
                               /\ f[i] = g[i] /\ Tokens(f)[i] = Tokens(g)[i]
      BY <1>1, <1>3, <2>2, <3>2
    <3>4. /\ SumOver(f, JobsOf(a)) = SumOver(g, JobsOf(a))
          /\ SumOver(Tokens(f), JobsOf(a)) = SumOver(Tokens(g), JobsOf(a))
      BY <2>2, <3>3, SumExt
    <3>5. QED
      BY <2>1, <3>1, <3>4
  <2>5. QED
    BY <2>3, <2>4
<1>5. QED
  BY <1>4 DEF Charged

\* The types the invariant gives to what the transactions hold.
LEMMA ChargeTypes ==
  ASSUME TypeOK
  PROVE  /\ RowsByMinute(ledger) /\ granted \in [Minutes -> [Jobs -> Nat]]
         /\ window \in [Workers -> Minutes] /\ minute \in Minutes
         /\ pc \in [Workers -> {"idle", "claiming", "reserving", "working", "calling", "closing",
                      "recording"}]
         /\ DOMAIN admitted = Workers /\ DOMAIN draft = Workers /\ DOMAIN cur = Workers
         /\ DOMAIN deferred = Workers /\ batch \in [Workers -> SUBSET Jobs]
         /\ state \in [Jobs -> {"waiting", "running", "done"}]
         /\ \A w \in Workers :
              /\ RowsByMinute(draft[w]) /\ DOMAIN admitted[w] \subseteq Jobs
              /\ \A j \in DOMAIN admitted[w] : admitted[w][j] \in Minutes
              /\ \A m \in Minutes : Claimed(w, m) \in [Jobs -> Nat]
<1>1. granted \in [Minutes -> [Jobs -> Nat]]
  BY TypeParts
<1>2. \A w \in Workers, m \in Minutes : Claimed(w, m) \in [Jobs -> Nat]
  <2>1. ASSUME NEW w \in Workers, NEW m \in Minutes, NEW j \in Jobs
        PROVE  granted[m][j] +
                 (IF Claiming(w) /\ j \in DOMAIN admitted[w] /\ admitted[w][j] = m THEN 1 ELSE 0)
                 \in Nat
    <3>1. granted[m][j] \in Nat
      BY <1>1
    <3>2. QED
      BY <3>1
  <2>2. QED
    BY <2>1 DEF Claimed
<1>3. QED
  BY <1>1, <1>2, TypeParts DEF WorkerTyped, RowsByMinute

\* Every step keeps the claims covered.
LEMMA CoveredNext ==
  ASSUME TypeOK, TypeOK', ClaimsCovered, [Next]_vars
  PROVE  ClaimsCovered'
<1> DEFINE Covered(w) ==
      /\ pc[w] = "idle" => DOMAIN admitted[w] = {}
      /\ pc[w] \notin {"claiming", "reserving", "recording"} => DOMAIN draft[w] = {}
      /\ Claiming(w) => /\ \A j \in DOMAIN admitted[w] : admitted[w][j] \in DOMAIN draft[w]
                        /\ DOMAIN admitted[w] \cap batch[w] = {}
      /\ pc[w] = "reserving" => cur[w] \in batch[w]
<1>1. \A w \in Workers : Covered(w)
  BY DEF ClaimsCovered
<1>2. /\ pc \in [Workers -> {"idle", "claiming", "reserving", "working", "calling", "closing",
                      "recording"}]
      /\ DOMAIN admitted = Workers /\ DOMAIN draft = Workers /\ DOMAIN cur = Workers
      /\ DOMAIN batch = Workers
  BY ChargeTypes
<1>3. ASSUME NEW w \in Workers, pc'[w] = pc[w], admitted'[w] = admitted[w],
             draft'[w] = draft[w], batch'[w] = batch[w], cur'[w] = cur[w]
      PROVE  Covered(w)'
  BY <1>1, <1>3 DEF Claiming
<1> SUFFICES ASSUME NEW v \in Workers PROVE Covered(v)'
  BY DEF ClaimsCovered
<1>4. ASSUME NEW w \in Workers, ClaimBatch(w) PROVE Covered(v)'
  <2>1. UNCHANGED <<admitted, cur, draft>> /\ pc' = [pc EXCEPT ![w] = "claiming"] /\ pc[w] = "idle"
    BY <1>4 DEF ClaimBatch
  <2>2. \A u \in Workers \ {w} : batch'[u] = batch[u]
    BY <1>2, <1>4 DEF ClaimBatch
  <2>3. CASE v = w
    <3>1. DOMAIN admitted'[v] = {} /\ pc'[v] = "claiming"
      BY <1>1, <1>2, <2>1, <2>3
    <3>2. QED
      BY <3>1 DEF Claiming
  <2>4. QED
    BY <1>2, <1>3, <2>1, <2>2, <2>3
<1>5. ASSUME NEW w \in Workers, SelectForReserve(w) PROVE Covered(v)'
  <2>1. PICK j \in batch[w] : cur' = [cur EXCEPT ![w] = j]
    BY <1>5 DEF SelectForReserve, Select
  <2>2. /\ UNCHANGED <<admitted, draft, batch>>
        /\ pc' = [pc EXCEPT ![w] = "reserving"] /\ pc[w] = "claiming"
    BY <1>5 DEF SelectForReserve
  <2>3. CASE v = w
    BY <1>1, <1>2, <2>1, <2>2, <2>3 DEF Claiming
  <2>4. QED
    BY <1>2, <1>3, <2>1, <2>2, <2>3
<1>6. ASSUME NEW w \in Workers, Reserve(w) PROVE Covered(v)'
  <2> DEFINE m == window[w]
  <2>1. /\ pc[w] = "reserving" /\ pc' = [pc EXCEPT ![w] = "claiming"]
        /\ cur' = [cur EXCEPT ![w] = NoJob] /\ batch' = [batch EXCEPT ![w] = @ \ {cur[w]}]
    BY <1>6 DEF Reserve
  <2>2. PICK d \in Usage : draft' = [draft EXCEPT ![w] = Drafted(w, d)]
    BY <1>6, ReserveRows DEF Reserve
  <2>3. DOMAIN draft'[w] = DOMAIN draft[w] \cup {m}
    BY <1>2, <2>1, <2>2, ReserveRows, DraftedRows
  <2>4. \/ admitted' = admitted
        \/ admitted' = [admitted EXCEPT
             ![w] = [i \in DOMAIN @ \cup {cur[w]} |-> IF i = cur[w] THEN m ELSE @[i]]]
    BY <1>6 DEF Reserve
  <2>5. /\ DOMAIN admitted'[w] \subseteq DOMAIN admitted[w] \cup {cur[w]}
        /\ \A i \in DOMAIN admitted'[w] : admitted'[w][i] \in {admitted[w][i], m}
        /\ \A i \in DOMAIN admitted'[w] \ DOMAIN admitted[w] : admitted'[w][i] = m
    BY <1>2, <2>4
  <2>6. CASE v = w
    <3>1. /\ pc'[w] = "claiming" /\ batch'[w] = batch[w] \ {cur[w]}
          /\ DOMAIN admitted[w] \cap batch[w] = {}
          /\ \A i \in DOMAIN admitted[w] : admitted[w][i] \in DOMAIN draft[w]
      BY <1>1, <1>2, <2>1 DEF Claiming
    <3>2. QED
      BY <2>3, <2>5, <2>6, <3>1 DEF Claiming
  <2>7. ASSUME v # w PROVE admitted'[v] = admitted[v]
    BY <1>2, <2>4, <2>7
  <2>8. QED
    BY <1>2, <1>3, <2>1, <2>2, <2>6, <2>7
<1>7. ASSUME NEW w \in Workers, CommitClaim(w) PROVE Covered(v)'
  <2>1. /\ UNCHANGED admitted /\ cur' = [cur EXCEPT ![w] = NoJob]
        /\ draft' = [draft EXCEPT ![w] = NoRows] /\ batch' = [batch EXCEPT ![w] = {}]
        /\ pc' = [pc EXCEPT ![w] = IF DOMAIN admitted[w] = {} THEN "idle" ELSE "working"]
    BY <1>7 DEF CommitClaim, EndTransaction
  <2>2. CASE v = w
    BY <1>2, <2>1, <2>2, EmptyFunctions DEF Claiming
  <2>3. QED
    BY <1>2, <1>3, <2>1, <2>2
<1>8. ASSUME NEW w \in Workers, CallProvider(w) PROVE Covered(v)'
  <2>1. PICK j : cur' = [cur EXCEPT ![w] = j] /\ admitted' = Remaining(w, j)
    BY <1>8 DEF CallProvider
  <2>2. /\ pc[w] = "working" /\ pc' = [pc EXCEPT ![w] = "calling"] /\ UNCHANGED <<batch, draft>>
    BY <1>8 DEF CallProvider
  <2>3. CASE v = w
    BY <1>1, <1>2, <2>2, <2>3 DEF Claiming
  <2>4. QED
    BY <1>2, <1>3, <2>1, <2>2, <2>3 DEF Remaining
<1>9. ASSUME NEW w \in Workers, CallFails(w) \/ FindOver(w) \/ Record(w) PROVE Covered(v)'
  <2>1. /\ UNCHANGED admitted /\ cur' = [cur EXCEPT ![w] = NoJob]
        /\ draft' = [draft EXCEPT ![w] = NoRows] /\ batch' = [batch EXCEPT ![w] = {}]
        /\ pc' = [pc EXCEPT ![w] = IF DOMAIN admitted[w] = {} THEN "idle" ELSE "working"]
    BY <1>9 DEF CallFails, FindOver, Record, NextJob, EndTransaction
  <2>2. CASE v = w
    BY <1>2, <2>1, <2>2, EmptyFunctions DEF Claiming
  <2>3. QED
    BY <1>2, <1>3, <2>1, <2>2
<1>10. ASSUME NEW w \in Workers, SelectForRecord(w) PROVE Covered(v)'
  <2>1. /\ cur' = [cur EXCEPT ![w] = cur[w]] /\ UNCHANGED <<admitted, draft, batch>>
        /\ pc' = [pc EXCEPT ![w] = "recording"] /\ pc[w] = "closing"
    BY <1>10 DEF SelectForRecord, Select
  <2>2. CASE v = w
    BY <1>1, <1>2, <2>1, <2>2 DEF Claiming
  <2>3. QED
    BY <1>2, <1>3, <2>1, <2>2
<1>11. ASSUME NEW w \in Workers, Abort(w) \/ Crash(w) PROVE Covered(v)'
  <2>1. /\ admitted' = [admitted EXCEPT ![w] = NoJobs] /\ cur' = [cur EXCEPT ![w] = NoJob]
        /\ draft' = [draft EXCEPT ![w] = NoRows] /\ batch' = [batch EXCEPT ![w] = {}]
        /\ pc' = [pc EXCEPT ![w] = "idle"]
    BY <1>11 DEF Abort, Crash, EndTick, EndTransaction
  <2>2. CASE v = w
    BY <1>2, <2>1, <2>2, EmptyFunctions DEF Claiming
  <2>3. QED
    BY <1>2, <1>3, <2>1, <2>2
<1>12. ASSUME (\E j \in Jobs : RecoverStale(j) \/ Overrun(j)) \/ NextMinute \/ UNCHANGED vars
       PROVE  Covered(v)'
  <2>1. UNCHANGED <<pc, admitted, draft, batch, cur>>
    BY <1>12 DEF RecoverStale, Overrun, NextMinute, vars, txVars
  <2>2. QED
    BY <1>3, <2>1
<1>13. ASSUME NEW w \in Workers, FindRunning(w) PROVE Covered(v)'
  <2>1. /\ UNCHANGED <<admitted, draft, batch, cur>>
        /\ pc' = [pc EXCEPT ![w] = "closing"] /\ pc[w] = "calling"
    BY <1>13 DEF FindRunning, txVars
  <2>2. CASE v = w
    BY <1>1, <1>2, <2>1, <2>2 DEF Claiming
  <2>3. QED
    BY <1>2, <1>3, <2>1, <2>2
<1>14. ASSUME NEW w \in Workers, WaitForRow(w) PROVE Covered(v)'
  <2>1. /\ UNCHANGED <<pc, admitted, batch, cur>> /\ pc[w] = "recording"
        /\ \A u \in Workers \ {w} : draft'[u] = draft[u]
    BY <1>2, <1>14 DEF WaitForRow
  <2>2. CASE v = w
    BY <1>1, <2>1, <2>2 DEF Claiming
  <2>3. QED
    BY <1>3, <2>1, <2>2
<1>15. QED
  BY <1>4, <1>5, <1>6, <1>7, <1>8, <1>9, <1>10, <1>11, <1>12, <1>13, <1>14 DEF Next, WorkerStep

\* The row a session would read without a draft of its own is charged with the grants.
LEMMA CommittedCharged ==
  ASSUME LedgerCharged, NEW m \in Minutes
  PROVE  Charged(IF m \in DOMAIN ledger THEN ledger[m] ELSE NewUsage, granted[m])
BY NewCharged DEF LedgerCharged

\* What a transaction reads is charged with the grants it would leave.
LEMMA ViewCharged ==
  ASSUME ChargeInv, NEW w \in Workers, NEW m \in Minutes
  PROVE  Charged(View(w, m), Claimed(w, m))
<1>1. CASE m \in DOMAIN draft[w]
  BY <1>1 DEF View, ChargeInv, DraftsCharged
<1>2. CASE m \notin DOMAIN draft[w]
  <2>1. Claiming(w) => \A j \in DOMAIN admitted[w] : admitted[w][j] # m
    BY <1>2 DEF ChargeInv, ClaimsCovered
  <2>2. Claimed(w, m) = granted[m]
    <3>1. granted[m] \in [Jobs -> Nat] /\ Claimed(w, m) \in [Jobs -> Nat]
      BY ChargeTypes DEF ChargeInv, LedgerInv
    <3>2. \A j \in Jobs : Claimed(w, m)[j] = granted[m][j]
      BY <2>1, <3>1 DEF Claimed
    <3>3. QED
      BY <3>1, <3>2
  <2>3. Charged(IF m \in DOMAIN ledger THEN ledger[m] ELSE NewUsage, granted[m])
    BY CommittedCharged DEF ChargeInv
  <2>4. View(w, m) = IF m \in DOMAIN ledger THEN ledger[m] ELSE NewUsage
    BY <1>2 DEF View
  <2>5. QED
    BY <2>2, <2>3, <2>4
<1>3. QED
  BY <1>1, <1>2

\* A step that touches neither the ledger nor an open draft changes no charge.
LEMMA ChargeKept ==
  ASSUME ChargeInv, LedgerInv', ClaimsCovered', ledger' = ledger, granted' = granted,
         \A w \in Workers : \/ DOMAIN draft'[w] = {}
                            \/ /\ draft'[w] = draft[w] /\ admitted'[w] = admitted[w]
                               /\ Claiming(w)' <=> Claiming(w)
  PROVE  ChargeInv'
<1>1. LedgerCharged'
  BY DEF ChargeInv, LedgerCharged, Charged
<1>2. ASSUME NEW w \in Workers, NEW m \in DOMAIN draft'[w]
      PROVE  Charged(draft'[w][m], Claimed(w, m)')
  <2>1. draft'[w] = draft[w] /\ admitted'[w] = admitted[w] /\ (Claiming(w)' <=> Claiming(w))
    OBVIOUS
  <2>2. Claimed(w, m)' = Claimed(w, m)
    BY <2>1 DEF Claimed
  <2>3. Charged(draft[w][m], Claimed(w, m))
    BY <2>1 DEF ChargeInv, DraftsCharged
  <2>4. QED
    BY <2>1, <2>2, <2>3
<1>3. DraftsCharged'
  BY <1>2 DEF DraftsCharged, Charged
<1>4. QED
  BY <1>1, <1>3 DEF ChargeInv

\* A reservation charges its draft.
LEMMA ChargeReserve ==
  ASSUME ChargeInv, LedgerInv', ClaimsCovered', NEW w \in Workers, Reserve(w)
  PROVE  ChargeInv'
<1>1. /\ TypeOK /\ TypeOK' /\ pc[w] = "reserving"
      /\ UNCHANGED <<ledger, granted>>
      /\ pc' = [pc EXCEPT ![w] = "claiming"]
  BY DEF ChargeInv, LedgerInv, Reserve, history
<1>2. PICK j \in Jobs, k \in Minutes, usage \in Usage :
        j = cur[w] /\ k = window[w] /\ usage = View(w, window[w])
  BY <1>1, ReserveRows
<1>3. RowsByMinute(draft[w]) /\ Reserved(usage, j) \in Usage
  BY <1>1, <1>2, ReserveRows
<1>4. Charged(usage, Claimed(w, k))
  BY <1>1, <1>2, ViewCharged
<1>5. j \notin DOMAIN admitted[w]
  BY <1>1, <1>2 DEF ChargeInv, ClaimsCovered, Claiming
<1>6. /\ DOMAIN admitted = Workers /\ DOMAIN draft = Workers
      /\ Claiming(w) /\ Claiming(w)' /\ \A v \in Workers : Claiming(v)' <=> Claiming(v)
  BY <1>1, ChargeTypes DEF Claiming
<1>7. \A v \in Workers \ {w} : draft'[v] = draft[v] /\ admitted'[v] = admitted[v]
  BY <1>6 DEF Reserve
<1>8. PICK d \in Usage : /\ draft'[w] = Drafted(w, d)
                         /\ Charged(d, Claimed(w, k)')
                         /\ \A m \in Minutes \ {k} : Claimed(w, m)' = Claimed(w, m)
  <2>1. CASE Admits(usage, j)
    <3>1. admitted'[w] = [i \in DOMAIN admitted[w] \cup {j} |-> IF i = j THEN k ELSE admitted[w][i]]
      BY <1>6, <1>2, <2>1 DEF Reserve
    <3>2. /\ Claimed(w, k) \in [Jobs -> Nat] /\ Claimed(w, k)' \in [Jobs -> Nat]
          /\ granted[k] \in [Jobs -> Nat]
      <4>1. granted' = granted /\ granted \in [Minutes -> [Jobs -> Nat]]
        BY <1>1, ChargeTypes
      <4>2. Claimed(w, k) \in [Jobs -> Nat]
        BY <1>1, ChargeTypes
      <4>3. Claimed(w, k)' \in [Jobs -> Nat]
        BY <4>1 DEF Claimed
      <4>4. QED
        BY <4>1, <4>2, <4>3
    <3>3. Claimed(w, k)'[j] = Claimed(w, k)[j] + 1
      BY <1>1, <1>5, <1>6, <3>1, <3>2 DEF Claimed
    <3>4. \A i \in Jobs \ {j} : Claimed(w, k)'[i] = Claimed(w, k)[i]
      BY <1>1, <1>3, <1>6, <3>1 DEF Claimed
    <3>5. Charged(Reserved(usage, j), Claimed(w, k)')
      BY <1>3, <1>4, <3>2, <3>3, <3>4, ReservedCharged
    <3>6. draft'[w] = Drafted(w, Reserved(usage, j))
      BY <1>6, <1>2, <2>1 DEF Reserve
    <3>7. \A m \in Minutes \ {k} : Claimed(w, m)' = Claimed(w, m)
      BY <1>1, <1>5, <1>6, <3>1 DEF Claimed
    <3>8. QED
      BY <1>3, <3>5, <3>6, <3>7
  <2>2. CASE ~ Admits(usage, j)
    <3>1. admitted'[w] = admitted[w] /\ draft'[w] = Drafted(w, usage)
      BY <1>6, <1>2, <2>2 DEF Reserve
    <3>2. \A m \in Minutes : Claimed(w, m)' = Claimed(w, m)
      BY <1>1, <1>6, <3>1 DEF Claimed
    <3>3. QED
      BY <1>3, <1>4, <3>1, <3>2
  <2>3. QED
    BY <2>1, <2>2
<1>9. ASSUME NEW v \in Workers, NEW m \in DOMAIN draft'[v]
      PROVE  Charged(draft'[v][m], Claimed(v, m)')
  <2>1. CASE v # w
    <3>1. Claimed(v, m)' = Claimed(v, m)
      BY <1>1, <1>6, <1>7, <2>1 DEF Claimed
    <3>2. QED
      BY <1>7, <2>1, <3>1 DEF ChargeInv, DraftsCharged
  <2>2. CASE v = w
    <3>1. /\ DOMAIN Drafted(w, d) = DOMAIN draft[w] \cup {k} /\ Drafted(w, d)[k] = d
          /\ \A i \in DOMAIN draft[w] \ {k} : Drafted(w, d)[i] = draft[w][i]
      BY <1>3, <1>2, DraftedRows
    <3>2. CASE m = k
      BY <1>8, <2>2, <3>1, <3>2
    <3>3. CASE m # k
      <4>1. m \in DOMAIN draft[w] /\ m \in Minutes /\ draft'[v][m] = draft[w][m]
        BY <1>3, <1>8, <2>2, <3>1, <3>3 DEF RowsByMinute
      <4>2. Charged(draft[w][m], Claimed(w, m))
        BY <4>1 DEF ChargeInv, DraftsCharged
      <4>3. QED
        BY <1>8, <2>2, <3>3, <4>1, <4>2
    <3>4. QED
      BY <3>2, <3>3
  <2>3. QED
    BY <2>1, <2>2
<1>10. DraftsCharged'
  BY <1>9 DEF DraftsCharged, Charged
<1>11. LedgerCharged'
  BY <1>1 DEF ChargeInv, LedgerCharged, Charged
<1>12. QED
  BY <1>10, <1>11 DEF ChargeInv

\* A commit writes its draft, and its grants with it.
LEMMA ChargeCommit ==
  ASSUME ChargeInv, LedgerInv', ClaimsCovered', NEW w \in Workers, CommitClaim(w)
  PROVE  ChargeInv'
<1>1. /\ TypeOK /\ TypeOK' /\ pc[w] = "claiming" /\ admitted' = admitted
      /\ ledger' = Overlay(draft[w], ledger)
      /\ granted' = [m \in Minutes |-> [j \in Jobs |->
           granted[m][j] + (IF j \in DOMAIN admitted[w] /\ admitted[w][j] = m THEN 1 ELSE 0)]]
      /\ draft' = [draft EXCEPT ![w] = NoRows]
      /\ \A v \in Workers \ {w} : Claiming(v)' <=> Claiming(v)
  BY ChargeTypes DEF ChargeInv, LedgerInv, CommitClaim, EndTransaction, Claiming
<1>2. /\ RowsByMinute(ledger) /\ \A v \in Workers : RowsByMinute(draft[v])
      /\ DOMAIN draft = Workers /\ granted \in [Minutes -> [Jobs -> Nat]]
      /\ \A v \in Workers : \A m \in Minutes : Claimed(v, m) \in [Jobs -> Nat]
  BY <1>1, ChargeTypes
<1>3. \A m \in Minutes : granted'[m] = Claimed(w, m)
  BY <1>1 DEF Claimed, Claiming
<1>4. ASSUME NEW m \in Minutes \ DOMAIN draft[w] PROVE granted'[m] = granted[m]
  <2>1. \A j \in DOMAIN admitted[w] : admitted[w][j] # m
    BY <1>1 DEF ChargeInv, ClaimsCovered, Claiming
  <2>2. granted[m] \in [Jobs -> Nat] /\ Claimed(w, m) \in [Jobs -> Nat]
    BY <1>2
  <2>3. \A j \in Jobs : Claimed(w, m)[j] = granted[m][j]
    BY <2>1, <2>2 DEF Claimed
  <2>4. QED
    BY <1>3, <2>2, <2>3
<1>5. /\ DOMAIN ledger' = DOMAIN draft[w] \cup DOMAIN ledger
      /\ \A m \in DOMAIN draft[w] : ledger'[m] = draft[w][m]
      /\ \A m \in DOMAIN ledger \ DOMAIN draft[w] : ledger'[m] = ledger[m]
      /\ DOMAIN draft[w] \subseteq Minutes /\ DOMAIN ledger \subseteq Minutes
  <2>1. RowsByMinute(draft[w]) /\ RowsByMinute(ledger)
    BY <1>2
  <2>2. /\ DOMAIN Overlay(draft[w], ledger) = DOMAIN draft[w] \cup DOMAIN ledger
        /\ \A m \in DOMAIN draft[w] : Overlay(draft[w], ledger)[m] = draft[w][m]
        /\ \A m \in DOMAIN ledger \ DOMAIN draft[w] : Overlay(draft[w], ledger)[m] = ledger[m]
    BY <2>1, OverlayRows
  <2>3. QED
    BY <1>1, <2>1, <2>2 DEF RowsByMinute
<1>6. ASSUME NEW m \in DOMAIN ledger' PROVE Charged(ledger'[m], granted'[m])
  <2>1. CASE m \in DOMAIN draft[w]
    BY <1>3, <1>5, <2>1 DEF ChargeInv, DraftsCharged
  <2>2. CASE m \notin DOMAIN draft[w]
    <3>1. m \in DOMAIN ledger /\ ledger'[m] = ledger[m] /\ granted'[m] = granted[m]
      BY <1>4, <1>5, <2>2
    <3>2. QED
      BY <3>1 DEF ChargeInv, LedgerCharged
  <2>3. QED
    BY <2>1, <2>2
<1>7. \A m \in Minutes \ DOMAIN ledger', j \in Jobs : granted'[m][j] = 0
  BY <1>4, <1>5 DEF ChargeInv, LedgerCharged
<1>8. LedgerCharged'
  BY <1>6, <1>7 DEF LedgerCharged, Charged
<1>9. ASSUME NEW v \in Workers, NEW m \in DOMAIN draft'[v]
      PROVE  Charged(draft'[v][m], Claimed(v, m)')
  <2>1. v # w /\ draft'[v] = draft[v]
    BY <1>1, <1>2, EmptyFunctions
  <2>2. m \in Minutes \ DOMAIN draft[w]
    BY <1>2, <2>1 DEF ChargeInv, LedgerInv, DraftsExclusive, RowsByMinute
  <2>3. granted'[m] = granted[m] /\ admitted'[v] = admitted[v]
    BY <1>1, <1>4, <2>2
  <2>4. Claimed(v, m)' = Claimed(v, m)
    BY <1>1, <2>1, <2>3 DEF Claimed
  <2>5. QED
    BY <2>1, <2>4 DEF ChargeInv, DraftsCharged
<1>10. DraftsCharged'
  BY <1>9 DEF DraftsCharged, Charged
<1>11. QED
  BY <1>8, <1>10 DEF ChargeInv

\* A record charges nothing.
LEMMA ChargeRecord ==
  ASSUME ChargeInv, LedgerInv', ClaimsCovered', NEW w \in Workers, Record(w)
  PROVE  ChargeInv'
<1> DEFINE k == window[w]
           u == View(w, k)
           d == Recorded(u, cur[w], Estimate[cur[w]])
           one == [m \in {k} |-> Recorded(View(w, m), cur[w], Estimate[cur[w]])]
<1>1. /\ TypeOK /\ pc[w] = "recording" /\ UNCHANGED <<admitted, granted>>
      /\ ledger' = Overlay(one, ledger) /\ draft' = [draft EXCEPT ![w] = NoRows]
      /\ \A v \in Workers : Claiming(v)' <=> Claiming(v)
  BY ChargeTypes DEF ChargeInv, LedgerInv, Record, NextJob, EndTransaction, Claiming
<1>2. /\ k \in Minutes /\ cur[w] \in Jobs /\ Estimate[cur[w]] \in Nat /\ DOMAIN draft = Workers
      /\ RowsByMinute(ledger) /\ RowsByMinute(draft[w]) /\ granted[k] \in [Jobs -> Nat]
  BY <1>1, TypeParts, ChargeTypes, JobsOfFacts DEF WorkerTyped, ChargeInv
<1>3. u \in Usage /\ d \in Usage
  BY <1>2, ViewIsUsage, CountersAreUsage
<1>4. Charged(u, granted[k])
  <2>1. Claimed(w, k) = granted[k]
    BY <1>1, <1>2 DEF Claimed, Claiming
  <2>2. QED
    BY <1>2, <2>1, ViewCharged
<1>5. \A x \in Accounts : /\ d[x].reservedTokens = u[x].reservedTokens
                          /\ d[x].requestsReserved = u[x].requestsReserved
  BY <1>2, <1>3, RecordedReserves
<1>6. Charged(d, granted[k])
  BY <1>4, <1>5 DEF Charged
<1>7. DOMAIN one = {k} /\ one[k] = d /\ RowsByMinute(one)
  BY <1>2, <1>3 DEF RowsByMinute
<1> HIDE DEF one, d, u
<1>8. /\ DOMAIN ledger' = DOMAIN ledger \cup {k} /\ ledger'[k] = d
      /\ \A m \in DOMAIN ledger \ {k} : ledger'[m] = ledger[m]
  <2>1. RowsByMinute(one) /\ RowsByMinute(ledger)
    BY <1>2, <1>7
  <2>2. /\ DOMAIN Overlay(one, ledger) = DOMAIN one \cup DOMAIN ledger
        /\ \A m \in DOMAIN one : Overlay(one, ledger)[m] = one[m]
        /\ \A m \in DOMAIN ledger \ DOMAIN one : Overlay(one, ledger)[m] = ledger[m]
    BY <2>1, OverlayRows
  <2>3. QED
    BY <1>1, <1>7, <2>2
<1>9. \A m \in DOMAIN ledger' : Charged(ledger'[m], granted[m])
  BY <1>6, <1>8 DEF ChargeInv, LedgerCharged
<1>10. LedgerCharged'
  BY <1>1, <1>8, <1>9 DEF ChargeInv, LedgerCharged, Charged
<1>11. ASSUME NEW v \in Workers, NEW m \in DOMAIN draft'[v]
      PROVE  Charged(draft'[v][m], Claimed(v, m)')
  <2>1. v # w /\ draft'[v] = draft[v] /\ Claimed(v, m)' = Claimed(v, m)
    BY <1>1, <1>2, EmptyFunctions DEF Claimed
  <2>2. QED
    BY <2>1 DEF ChargeInv, DraftsCharged
<1>12. DraftsCharged'
  BY <1>11 DEF DraftsCharged, Charged
<1>13. QED
  BY <1>10, <1>12 DEF ChargeInv

\* A record that waits for its job holds rows charged as they were.
LEMMA ChargeWait ==
  ASSUME ChargeInv, LedgerInv', ClaimsCovered', NEW w \in Workers, WaitForRow(w)
  PROVE  ChargeInv'
<1> DEFINE k == window[w]
           u == View(w, k)
<1>1. /\ TypeOK /\ UNCHANGED <<ledger, granted, admitted, pc>>
      /\ draft' = [draft EXCEPT ![w] = Drafted(w, u)]
  BY DEF ChargeInv, LedgerInv, WaitForRow, history
<1>2. k \in Minutes /\ u \in Usage /\ DOMAIN draft = Workers /\ RowsByMinute(draft[w])
  BY <1>1, TypeWaitForRow, ChargeTypes
<1>3. Charged(u, Claimed(w, k))
  BY <1>2, ViewCharged
<1> HIDE DEF u
<1>4. /\ DOMAIN Drafted(w, u) = DOMAIN draft[w] \cup {k} /\ Drafted(w, u)[k] = u
      /\ \A m \in DOMAIN draft[w] \ {k} : Drafted(w, u)[m] = draft[w][m]
  BY <1>2, DraftedRows
<1>5. \A v \in Workers, m \in Minutes : Claimed(v, m)' = Claimed(v, m)
  BY <1>1 DEF Claimed, Claiming
<1>6. ASSUME NEW v \in Workers, NEW m \in DOMAIN draft'[v]
      PROVE  Charged(draft'[v][m], Claimed(v, m)')
  <2>1. CASE v = w /\ m = k
    BY <1>1, <1>2, <1>3, <1>4, <1>5, <2>1
  <2>2. CASE ~(v = w /\ m = k)
    <3>1. m \in DOMAIN draft[v] /\ draft'[v][m] = draft[v][m]
      BY <1>1, <1>2, <1>4, <2>2
    <3>2. m \in Minutes
      BY <1>1, <3>1, ChargeTypes DEF RowsByMinute
    <3>3. Charged(draft[v][m], Claimed(v, m))
      BY <3>1 DEF ChargeInv, DraftsCharged
    <3>4. QED
      BY <1>5, <3>1, <3>2, <3>3
  <2>3. QED
    BY <2>1, <2>2
<1>7. DraftsCharged'
  BY <1>6 DEF DraftsCharged, Charged
<1>8. LedgerCharged'
  BY <1>1 DEF ChargeInv, LedgerCharged, Charged
<1>9. QED
  BY <1>7, <1>8 DEF ChargeInv

\* Every step keeps the charges.
LEMMA ChargeNext ==
  ASSUME ChargeInv, [Next]_vars
  PROVE  ChargeInv'
<1>1. LedgerInv'
  BY LedgerNext DEF ChargeInv
<1>2. ClaimsCovered'
  BY <1>1, CoveredNext DEF ChargeInv, LedgerInv
<1>3. CASE ~\E w \in Workers : Reserve(w) \/ CommitClaim(w) \/ Record(w) \/ WaitForRow(w)
  <2>1. ledger' = ledger
    BY <1>3, LedgerUntouched DEF ChargeInv
  <2>2. /\ granted' = granted
        /\ \A w \in Workers : \/ DOMAIN draft'[w] = {}
                              \/ /\ draft'[w] = draft[w] /\ admitted'[w] = admitted[w]
                                 /\ Claiming(w)' <=> Claiming(w)
    <3>1. DOMAIN draft = Workers /\ DOMAIN admitted = Workers /\ DOMAIN pc = Workers
      BY ChargeTypes DEF ChargeInv, LedgerInv
    <3>2. ASSUME NEW w \in Workers, CallFails(w) \/ FindOver(w) \/ Abort(w) \/ Crash(w)
          PROVE  /\ granted' = granted /\ draft' = [draft EXCEPT ![w] = NoRows]
                 /\ \A v \in Workers \ {w} : admitted'[v] = admitted[v] /\ pc'[v] = pc[v]
      BY <3>1, <3>2 DEF CallFails, FindOver, Abort, Crash, NextJob, EndTick, EndTransaction, history
    <3>3. ASSUME NEW w \in Workers, CallProvider(w)
          PROVE  /\ granted' = granted /\ draft' = draft /\ DOMAIN draft[w] = {}
                 /\ \A v \in Workers \ {w} : admitted'[v] = admitted[v] /\ pc'[v] = pc[v]
      <4>1. pc[w] = "working" /\ granted' = granted /\ draft' = draft
        BY <3>3 DEF CallProvider
      <4>2. \A v \in Workers \ {w} : admitted'[v] = admitted[v] /\ pc'[v] = pc[v]
        BY <3>1, <3>3 DEF CallProvider, Remaining
      <4>3. QED
        BY <4>1, <4>2 DEF ChargeInv, ClaimsCovered
    <3>4. ASSUME NEW w \in Workers, ClaimBatch(w)
          PROVE  /\ UNCHANGED <<granted, draft, admitted>> /\ DOMAIN draft[w] = {}
                 /\ \A v \in Workers \ {w} : pc'[v] = pc[v]
      BY <3>1, <3>4 DEF ClaimBatch, history, ChargeInv, ClaimsCovered
    <3>5. ASSUME NEW w \in Workers, SelectForReserve(w) \/ FindRunning(w) \/ SelectForRecord(w)
          PROVE  /\ UNCHANGED <<granted, draft, admitted>>
                 /\ \A v \in Workers : Claiming(v)' <=> Claiming(v)
      BY <3>1, <3>5 DEF SelectForReserve, FindRunning, SelectForRecord, txVars, history, Claiming
    <3>6. ASSUME (\E j \in Jobs : RecoverStale(j) \/ Overrun(j)) \/ NextMinute \/ UNCHANGED vars
          PROVE  UNCHANGED <<granted, draft, admitted, pc>>
      BY <3>6 DEF RecoverStale, Overrun, NextMinute, vars, txVars, history
    <3>7. QED
      BY <1>3, <3>1, <3>2, <3>3, <3>4, <3>5, <3>6, EmptyFunctions DEF Next, WorkerStep, Claiming
  <2>3. QED
    BY <1>1, <1>2, <2>1, <2>2, ChargeKept
<1>4. QED
  BY <1>1, <1>2, <1>3, ChargeReserve, ChargeCommit, ChargeRecord, ChargeWait

\* The ledger starts empty, and so do the grants.
LEMMA ChargeInit == Init => ChargeInv
<1> SUFFICES ASSUME Init PROVE ChargeInv
  OBVIOUS
<1>1. LedgerInv
  BY LedgerInit
<1>2. /\ DOMAIN ledger = {} /\ \A w \in Workers : DOMAIN draft[w] = {} /\ DOMAIN admitted[w] = {}
      /\ \A w \in Workers : pc[w] = "idle"
      /\ \A m \in Minutes, j \in Jobs : granted[m][j] = 0
  BY EmptyFunctions DEF Init
<1>3. ClaimsCovered
  BY <1>2 DEF ClaimsCovered, Claiming
<1>4. LedgerCharged /\ DraftsCharged
  BY <1>2 DEF LedgerCharged, DraftsCharged
<1>5. QED
  BY <1>1, <1>3, <1>4 DEF ChargeInv

\* The invariant is what the run checks, with the sums written out.
LEMMA ChargedLedger == ChargeInv => EveryGrantCharged
<1> SUFFICES ASSUME ChargeInv, NEW m \in DOMAIN ledger, NEW a \in Accounts
             PROVE  /\ ledger[m][a].requestsReserved
                         = MapThenSumSet(LAMBDA j : granted[m][j], JobsOf(a))
                    /\ ledger[m][a].reservedTokens
                         = MapThenSumSet(LAMBDA j : granted[m][j] * Estimate[j], JobsOf(a))
  BY DEF EveryGrantCharged
<1> DEFINE S == JobsOf(a)
           t == Tokens(granted[m])
           Step(F) == [s \in SUBSET S |->
                         IF s = {} THEN 0
                         ELSE granted[m][Pick(s)] * Estimate[Pick(s)] + F[s \ {Pick(s)}]]
<1>1. /\ ledger[m][a].requestsReserved = SumOver(granted[m], S)
      /\ ledger[m][a].reservedTokens = SumOver(t, S)
  BY DEF ChargeInv, LedgerCharged, Charged
<1>2. S \subseteq Jobs
  BY JobsOfFacts
<1>3. SumOver(granted[m], S) = MapThenSumSet(LAMBDA j : granted[m][j], S)
  BY DEF SumOver, MapThenSumSet, MapThenFoldSet
<1>4. ASSUME NEW F PROVE Sums(F, t, S) <=> F = Step(F)
  <2>1. \A s \in SUBSET S : s # {} => t[Pick(s)] = granted[m][Pick(s)] * Estimate[Pick(s)]
    BY <1>2 DEF Pick, Tokens
  <2>2. QED
    BY <2>1 DEF Sums
<1>5. MapThenSumSet(LAMBDA j : granted[m][j] * Estimate[j], S) = (CHOOSE F : F = Step(F))[S]
  BY DEF MapThenSumSet, MapThenFoldSet, Pick
<1>6. SumOver(t, S) = (CHOOSE F : Sums(F, t, S))[S]
  BY DEF SumOver, MapThenSumSet, MapThenFoldSet, Sums, Pick
<1>7. (CHOOSE F : F = Step(F)) = (CHOOSE F : Sums(F, t, S))
  <2> HIDE DEF S, t, Step
  <2>1. QED
    BY <1>4
<1>8. QED
  BY <1>1, <1>3, <1>5, <1>6, <1>7

\* In every reachable state the platform's row and the customers' rows of a minute are the
\* sums of the grants that were committed, in requests and in tokens.
THEOREM GrantsAreCharged == Spec => []EveryGrantCharged
<1>1. ChargeInv /\ [Next]_vars => ChargeInv'
  BY ChargeNext
<1>2. QED
  BY <1>1, ChargeInit, ChargedLedger, PTL DEF Spec

-----------------------------------------------------------------------------
(* Usage and successes *)

\* The requests that account a has used in each minute, as committed.
UsedIn(a) == [m \in Minutes |-> IF m \in DOMAIN ledger THEN ledger[m][a].requestsUsed ELSE 0]

\* A job has one worker at a time, who found it waiting and works on it while it is running.
JobsApart ==
  /\ \A v, w \in Workers : v # w => Taken(v) \cap Taken(w) = {}
  /\ \A w \in Workers :
       /\ pc[w] = "idle" => Taken(w) = {}
       /\ \A j \in Taken(w) : state[j] = IF Claiming(w) THEN "waiting" ELSE "running"
       /\ pc[w] \in {"calling", "closing", "recording"} => cur[w] \notin DOMAIN admitted[w]

\* ... and then it succeeds once, when it is done.
SucceedsOnce ==
  \A j \in Jobs : successes[j] = (IF state[j] = "done" THEN 1 ELSE 0)

DoneSucceeded == \A j \in Jobs : state[j] = "done" => successes[j] > 0

\* A transaction copies the usage of the rows it locks.
DraftsUsed ==
  \A w \in Workers : \A m \in DOMAIN draft[w], a \in Accounts :
    draft[w][m][a].requestsUsed = UsedIn(a)[m]

UsedMatches ==
  \A a \in Accounts : SumOver(UsedIn(a), Minutes) = SumOver(successes, JobsOf(a))

UsageInv ==
  /\ ChargeInv /\ DraftsUsed /\ UsedMatches /\ DoneSucceeded
  /\ overruns = 0 => JobsApart /\ SucceedsOnce

\* Jobs stay apart when one worker takes no job of another's and the states of the
\* others' jobs do not change.
LEMMA ApartKept ==
  ASSUME JobsApart, NEW w \in Workers,
         \A v \in Workers \ {w} :
           /\ batch'[v] = batch[v] /\ admitted'[v] = admitted[v] /\ deferred'[v] = deferred[v]
           /\ cur'[v] = cur[v] /\ pc'[v] = pc[v]
           /\ Taken(v) \cap Taken(w)' = {}
           /\ \A j \in Taken(v) : state'[j] = state[j],
         pc'[w] = "idle" => Taken(w)' = {},
         \A j \in Taken(w)' : state'[j] = IF Claiming(w)' THEN "waiting" ELSE "running",
         pc'[w] \in {"calling", "closing", "recording"} => cur'[w] \notin DOMAIN admitted'[w]
  PROVE  JobsApart'
<1>1. \A v \in Workers \ {w} : Taken(v)' = Taken(v) /\ Claiming(v)' = Claiming(v)
  BY DEF Taken, Claiming
<1>2. \A u, v \in Workers : u # v => Taken(u)' \cap Taken(v)' = {}
  BY <1>1 DEF JobsApart
<1>3. ASSUME NEW v \in Workers
      PROVE  /\ pc'[v] = "idle" => Taken(v)' = {}
             /\ \A j \in Taken(v)' : state'[j] = IF Claiming(v)' THEN "waiting" ELSE "running"
             /\ pc'[v] \in {"calling", "closing", "recording"} => cur'[v] \notin DOMAIN admitted'[v]
  BY <1>1 DEF JobsApart
<1>4. QED
  BY <1>2, <1>3 DEF JobsApart

\* What the invariant says of one worker.
LEMMA ApartFacts ==
  ASSUME TypeOK, JobsApart
  PROVE  /\ \A w \in Workers : Taken(w) \subseteq Jobs
         /\ \A w \in Workers : cur[w] \in Jobs => cur[w] \in Taken(w)
         /\ \A w \in Workers : cur[w] \notin Jobs => cur[w] = NoJob
         /\ \A w \in Workers :
              cur[w] \in Jobs <=> pc[w] \in {"reserving", "calling", "closing", "recording"}
BY TypeParts, TokenBudgetAssumption DEF WorkerTyped, Taken

\* Every step leaves the jobs apart, but for the recovery of a job that outlives its lock.
LEMMA ApartNext ==
  ASSUME TypeOK, TypeOK', ClaimsCovered, JobsApart, [Next]_vars, ~\E j \in Jobs : Overrun(j)
  PROVE  JobsApart'
<1>1. /\ pc \in [Workers -> {"idle", "claiming", "reserving", "working", "calling", "closing",
                      "recording"}]
      /\ DOMAIN admitted = Workers /\ DOMAIN deferred = Workers /\ DOMAIN cur = Workers
      /\ batch \in [Workers -> SUBSET Jobs]
      /\ state \in [Jobs -> {"waiting", "running", "done"}]
  BY ChargeTypes
<1>2. /\ \A v \in Workers : Taken(v) \subseteq Jobs
      /\ \A v \in Workers : cur[v] \in Jobs => cur[v] \in Taken(v)
      /\ \A v \in Workers : cur[v] \notin Jobs => cur[v] = NoJob
      /\ \A v \in Workers :
           cur[v] \in Jobs <=> pc[v] \in {"reserving", "calling", "closing", "recording"}
  BY ApartFacts
<1>3. \A v, w \in Workers : v # w => Taken(v) \cap Taken(w) = {}
  BY DEF JobsApart
<1>4. \A w \in Workers :
        /\ pc[w] = "idle" => Taken(w) = {}
        /\ \A j \in Taken(w) : state[j] = IF Claiming(w) THEN "waiting" ELSE "running"
        /\ pc[w] \in {"calling", "closing", "recording"} => cur[w] \notin DOMAIN admitted[w]
  BY DEF JobsApart
<1>5. ASSUME NEW w \in Workers, ClaimBatch(w) PROVE JobsApart'
  <2>1. PICK S \in SUBSET {j \in Jobs : Ready(w, j)} : batch' = [batch EXCEPT ![w] = S]
    BY <1>5 DEF ClaimBatch
  <2>2. /\ UNCHANGED <<admitted, deferred, cur, state>>
        /\ pc' = [pc EXCEPT ![w] = "claiming"] /\ pc[w] = "idle"
    BY <1>5 DEF ClaimBatch, jobVars
  <2>3. Taken(w)' = S
    <3>1. DOMAIN admitted[w] = {} /\ DOMAIN deferred[w] = {} /\ {cur[w]} \ {NoJob} = {}
      BY <1>4, <2>2 DEF Taken
    <3>2. batch'[w] = S
      BY <1>1, <2>1
    <3>3. QED
      BY <2>2, <3>1, <3>2 DEF Taken
  <2>4. \A j \in S : state'[j] = "waiting" /\ \A v \in Workers : j \notin Taken(v)
    <3>1. \A j \in S : state[j] = "waiting" /\ \A v \in Workers \ {w} : ~(Claiming(v) /\ j \in Taken(v))
      BY <2>1 DEF Ready, RowFree
    <3>2. QED
      BY <1>4, <2>2, <3>1
  <2>5. Claiming(w)' /\ pc'[w] = "claiming"
    BY <1>1, <2>2 DEF Claiming
  <2>6. \A v \in Workers \ {w} : batch'[v] = batch[v] /\ pc'[v] = pc[v]
    BY <1>1, <2>1, <2>2
  <2>7. QED
    BY <2>2, <2>3, <2>4, <2>5, <2>6, ApartKept
<1>6. ASSUME NEW w \in Workers, SelectForReserve(w) PROVE JobsApart'
  <2>1. PICK j \in batch[w] : cur' = [cur EXCEPT ![w] = j]
    BY <1>6 DEF SelectForReserve, Select
  <2>2. /\ UNCHANGED <<admitted, deferred, batch, state>>
        /\ pc' = [pc EXCEPT ![w] = "reserving"] /\ pc[w] = "claiming"
    BY <1>6 DEF SelectForReserve, jobVars
  <2>3. Taken(w)' \subseteq Taken(w)
    BY <1>1, <2>1, <2>2 DEF Taken
  <2>4. Claiming(w) /\ Claiming(w)' /\ pc'[w] = "reserving"
    BY <1>1, <2>2 DEF Claiming
  <2>5. \A v \in Workers \ {w} : cur'[v] = cur[v] /\ pc'[v] = pc[v]
    BY <1>1, <2>1, <2>2
  <2>6. QED
    BY <1>3, <1>4, <2>2, <2>3, <2>4, <2>5, ApartKept
<1>7. ASSUME NEW w \in Workers, Reserve(w) PROVE JobsApart'
  <2>1. /\ pc[w] = "reserving" /\ pc' = [pc EXCEPT ![w] = "claiming"]
        /\ cur' = [cur EXCEPT ![w] = NoJob] /\ batch' = [batch EXCEPT ![w] = @ \ {cur[w]}]
        /\ UNCHANGED state
    BY <1>7 DEF Reserve, jobVars
  <2>2. /\ admitted' = admitted \/ admitted' = [admitted EXCEPT
             ![w] = [i \in DOMAIN @ \cup {cur[w]} |-> IF i = cur[w] THEN window[w] ELSE @[i]]]
        /\ deferred' = deferred \/ deferred' = [deferred EXCEPT
             ![w] = [i \in DOMAIN @ \cup {cur[w]} |-> IF i = cur[w] THEN window[w] + 1 ELSE @[i]]]
    BY <1>7 DEF Reserve
  <2>3. /\ DOMAIN admitted'[w] \subseteq DOMAIN admitted[w] \cup {cur[w]}
        /\ DOMAIN deferred'[w] \subseteq DOMAIN deferred[w] \cup {cur[w]}
        /\ \A v \in Workers \ {w} : admitted'[v] = admitted[v] /\ deferred'[v] = deferred[v]
    BY <1>1, <2>2
  <2>4. Taken(w)' \subseteq Taken(w)
    <3>1. cur[w] \in Taken(w) /\ cur'[w] = NoJob /\ batch'[w] \subseteq batch[w]
      BY <1>1, <1>2, <2>1
    <3>2. QED
      BY <2>3, <3>1 DEF Taken
  <2>5. Claiming(w) /\ Claiming(w)' /\ pc'[w] = "claiming"
    BY <1>1, <2>1 DEF Claiming
  <2>6. \A v \in Workers \ {w} : cur'[v] = cur[v] /\ pc'[v] = pc[v] /\ batch'[v] = batch[v]
    BY <1>1, <2>1
  <2>7. QED
    BY <1>3, <1>4, <2>1, <2>3, <2>4, <2>5, <2>6, ApartKept
<1>8. ASSUME NEW w \in Workers, CommitClaim(w) PROVE JobsApart'
  <2>1. /\ EndTransaction(w) /\ UNCHANGED admitted /\ pc[w] = "claiming"
        /\ pc' = [pc EXCEPT ![w] = IF DOMAIN admitted[w] = {} THEN "idle" ELSE "working"]
        /\ state' = [j \in Jobs |-> IF j \in DOMAIN admitted[w] THEN "running" ELSE state[j]]
    BY <1>8 DEF CommitClaim
  <2>2. Taken(w)' = DOMAIN admitted[w]
    BY <1>1, <2>1, EmptyFunctions DEF EndTransaction, Taken
  <2>3. DOMAIN admitted[w] \subseteq Taken(w)
    BY DEF Taken
  <2>4. /\ pc'[w] \in {"idle", "working"} /\ ~ Claiming(w)' /\ (pc'[w] = "idle" => Taken(w)' = {})
    BY <1>1, <2>1, <2>2 DEF Claiming
  <2>5. \A v \in Workers \ {w} : /\ batch'[v] = batch[v] /\ deferred'[v] = deferred[v]
                                 /\ cur'[v] = cur[v] /\ pc'[v] = pc[v]
    BY <1>1, <2>1 DEF EndTransaction
  <2>6. \A v \in Workers \ {w} : \A j \in Taken(v) : state'[j] = state[j]
    BY <1>2, <1>3, <2>1, <2>3
  <2>7. \A j \in Taken(w)' : state'[j] = "running"
    BY <1>2, <2>1, <2>2, <2>3
  <2>8. QED
    BY <1>3, <2>1, <2>2, <2>3, <2>4, <2>5, <2>6, <2>7, ApartKept
<1>9. ASSUME NEW w \in Workers, CallProvider(w) PROVE JobsApart'
  <2>1. PICK j \in DOMAIN admitted[w] :
          cur' = [cur EXCEPT ![w] = j] /\ admitted' = Remaining(w, j)
    BY <1>9 DEF CallProvider
  <2>2. /\ UNCHANGED <<batch, deferred, state>>
        /\ pc' = [pc EXCEPT ![w] = "calling"] /\ pc[w] = "working"
    BY <1>9 DEF CallProvider, jobVars
  <2>3. DOMAIN admitted'[w] = DOMAIN admitted[w] \ {j} /\ cur'[w] = j
    BY <1>1, <2>1 DEF Remaining
  <2>4. Taken(w)' \subseteq Taken(w)
    BY <2>2, <2>3 DEF Taken
  <2>5. ~ Claiming(w) /\ ~ Claiming(w)' /\ pc'[w] = "calling"
    BY <1>1, <2>2 DEF Claiming
  <2>6. \A v \in Workers \ {w} : cur'[v] = cur[v] /\ pc'[v] = pc[v] /\ admitted'[v] = admitted[v]
    BY <1>1, <2>1, <2>2 DEF Remaining
  <2>7. QED
    BY <1>3, <1>4, <2>2, <2>3, <2>4, <2>5, <2>6, ApartKept
<1>10. ASSUME NEW w \in Workers, CallFails(w) \/ FindOver(w) \/ Record(w) PROVE JobsApart'
  <2>1. /\ EndTransaction(w) /\ UNCHANGED admitted /\ pc[w] \in {"calling", "recording"}
        /\ pc' = [pc EXCEPT ![w] = IF DOMAIN admitted[w] = {} THEN "idle" ELSE "working"]
    BY <1>10 DEF CallFails, FindOver, Record, NextJob
  <2>2. \/ state' = [state EXCEPT ![cur[w]] = "waiting"]
        \/ state' = [state EXCEPT ![cur[w]] = "done"]
        \/ state' = state
    BY <1>10 DEF CallFails, FindOver, Record, jobVars
  <2>3. Taken(w)' = DOMAIN admitted[w] /\ DOMAIN admitted[w] \subseteq Taken(w)
    BY <1>1, <2>1, EmptyFunctions DEF EndTransaction, Taken
  <2>4. \A j \in Jobs \ {cur[w]} : state'[j] = state[j]
    BY <1>1, <2>2
  <2>5. cur[w] \in Taken(w) /\ cur[w] \notin DOMAIN admitted[w] /\ ~ Claiming(w)
    BY <1>2, <1>4, <2>1 DEF Claiming
  <2>6. pc'[w] \in {"idle", "working"} /\ ~ Claiming(w)' /\ (pc'[w] = "idle" => Taken(w)' = {})
    BY <1>1, <2>1, <2>3 DEF Claiming
  <2>7. \A v \in Workers \ {w} : /\ batch'[v] = batch[v] /\ deferred'[v] = deferred[v]
                                 /\ cur'[v] = cur[v] /\ pc'[v] = pc[v]
    BY <1>1, <2>1 DEF EndTransaction
  <2>8. \A v \in Workers \ {w} : \A j \in Taken(v) : state'[j] = state[j]
    BY <1>2, <1>3, <2>4, <2>5
  <2>9. \A j \in Taken(w)' : state'[j] = "running"
    BY <1>2, <1>4, <2>3, <2>4, <2>5
  <2>10. QED
    BY <1>3, <2>1, <2>3, <2>6, <2>7, <2>8, <2>9, ApartKept
<1>11. ASSUME NEW w \in Workers, SelectForRecord(w) PROVE JobsApart'
  <2>1. /\ cur' = [cur EXCEPT ![w] = cur[w]] /\ UNCHANGED <<admitted, deferred, batch, state>>
        /\ pc' = [pc EXCEPT ![w] = "recording"] /\ pc[w] = "closing"
    BY <1>11 DEF SelectForRecord, Select, jobVars
  <2>2. /\ \A v \in Workers : cur'[v] = cur[v]
        /\ Taken(w)' = Taken(w)
    BY <1>1, <2>1 DEF Taken
  <2>3. ~ Claiming(w) /\ ~ Claiming(w)' /\ pc'[w] = "recording"
    BY <1>1, <2>1 DEF Claiming
  <2>4. \A v \in Workers \ {w} : pc'[v] = pc[v]
    BY <1>1, <2>1
  <2>5. QED
    BY <1>3, <1>4, <2>1, <2>2, <2>3, <2>4, ApartKept
<1>12. ASSUME NEW w \in Workers, Abort(w) \/ Crash(w) PROVE JobsApart'
  <2>1. /\ EndTransaction(w) /\ UNCHANGED state
        /\ admitted' = [admitted EXCEPT ![w] = NoJobs] /\ pc' = [pc EXCEPT ![w] = "idle"]
    BY <1>12 DEF Abort, Crash, EndTick, jobVars
  <2>2. Taken(w)' = {} /\ pc'[w] = "idle"
    BY <1>1, <2>1, EmptyFunctions DEF EndTransaction, Taken
  <2>3. \A v \in Workers \ {w} : /\ batch'[v] = batch[v] /\ deferred'[v] = deferred[v]
                                 /\ cur'[v] = cur[v] /\ pc'[v] = pc[v] /\ admitted'[v] = admitted[v]
    BY <1>1, <2>1 DEF EndTransaction
  <2>4. QED
    BY <2>1, <2>2, <2>3, ApartKept
<1>13. ASSUME NEW j \in Jobs, RecoverStale(j) PROVE JobsApart'
  <2>1. /\ UNCHANGED <<pc, admitted, deferred, batch, cur>>
        /\ state' = [state EXCEPT ![j] = "waiting"] /\ \A v \in Workers : j \notin Taken(v)
    BY <1>13 DEF RecoverStale, Recovered, txVars
  <2>2. \A v \in Workers : /\ Taken(v)' = Taken(v) /\ Claiming(v)' = Claiming(v)
                           /\ \A i \in Taken(v) : state'[i] = state[i]
    BY <1>1, <2>1 DEF Taken, Claiming
  <2>3. QED
    BY <2>1, <2>2 DEF JobsApart
<1>14. ASSUME NextMinute \/ UNCHANGED vars PROVE JobsApart'
  <2>1. UNCHANGED <<pc, admitted, deferred, batch, cur, state>>
    BY <1>14 DEF NextMinute, vars, txVars, jobVars
  <2>2. QED
    BY <2>1 DEF JobsApart, Taken, Claiming
<1>15. ASSUME NEW w \in Workers, FindRunning(w) PROVE JobsApart'
  <2>1. /\ UNCHANGED <<admitted, deferred, batch, cur, state>>
        /\ pc' = [pc EXCEPT ![w] = "closing"] /\ pc[w] = "calling"
    BY <1>15 DEF FindRunning, jobVars, txVars
  <2>2. Taken(w)' = Taken(w) /\ ~ Claiming(w) /\ ~ Claiming(w)' /\ pc'[w] = "closing"
    BY <1>1, <2>1 DEF Taken, Claiming
  <2>3. \A v \in Workers \ {w} : pc'[v] = pc[v]
    BY <1>1, <2>1
  <2>4. QED
    BY <1>3, <1>4, <2>1, <2>2, <2>3, ApartKept
<1>16. ASSUME NEW w \in Workers, WaitForRow(w) PROVE JobsApart'
  <2>1. UNCHANGED <<pc, admitted, deferred, batch, cur, state>>
    BY <1>16 DEF WaitForRow, jobVars
  <2>2. QED
    BY <2>1 DEF JobsApart, Taken, Claiming
<1>17. QED
  BY <1>5, <1>6, <1>7, <1>8, <1>9, <1>10, <1>11, <1>12, <1>13, <1>14, <1>15, <1>16
     DEF Next, WorkerStep

\* The counters of the requests used, under the operations on usage.
LEMMA UsedCounters ==
  ASSUME NEW u \in Usage, NEW j \in Jobs, NEW n \in Nat, NEW a \in Accounts
  PROVE  /\ Reserved(u, j)[a].requestsUsed = u[a].requestsUsed
         /\ Recorded(u, j, n)[a].requestsUsed
              = u[a].requestsUsed + (IF j \in JobsOf(a) THEN 1 ELSE 0)
         /\ NewUsage[a].requestsUsed = 0
         /\ u[a].requestsUsed \in Nat
<1>1. u[a] \in Row
  BY DEF Usage
<1>2. u[a].requestsUsed \in Nat
  BY <1>1 DEF Row
<1>3. NewUsage[a].requestsUsed = 0
  BY DEF NewUsage
<1>4. j \in JobsOf(a) <=> a \in {GlobalAccount, CustomerOf[j]}
  BY JobsOfFacts
<1>5. CASE a \in {GlobalAccount, CustomerOf[j]}
  <2>1. /\ Reserved(u, j)[a] = [u[a] EXCEPT !.reservedTokens = @ + Estimate[j],
                                            !.requestsReserved = @ + 1]
        /\ Recorded(u, j, n)[a] = [u[a] EXCEPT !.usedTokens = @ + n, !.requestsUsed = @ + 1]
    BY <1>5, Zenon DEF Reserved, Recorded
  <2>2. /\ Reserved(u, j)[a].requestsUsed = u[a].requestsUsed
        /\ Recorded(u, j, n)[a].requestsUsed = u[a].requestsUsed + 1
    BY <1>1, <2>1 DEF Row
  <2>3. QED
    BY <1>2, <1>3, <1>4, <1>5, <2>2
<1>6. CASE a \notin {GlobalAccount, CustomerOf[j]}
  <2>1. Reserved(u, j)[a] = u[a] /\ Recorded(u, j, n)[a] = u[a]
    BY <1>6 DEF Reserved, Recorded
  <2>2. QED
    BY <1>2, <1>3, <1>4, <1>6, <2>1
<1>7. QED
  BY <1>5, <1>6

\* The used requests are numbers, and a session reads those that are committed.
LEMMA UsedFacts ==
  ASSUME TypeOK
  PROVE  /\ IsFiniteSet(Minutes)
         /\ \A a \in Accounts, m \in Minutes : UsedIn(a)[m] \in Nat
         /\ DraftsUsed => \A w \in Workers, m \in Minutes, a \in Accounts :
                            View(w, m)[a].requestsUsed = UsedIn(a)[m]
<1>1. IsFiniteSet(Minutes)
  BY TokenBudgetAssumption, FS_Interval DEF Minutes
<1>2. RowsByMinute(ledger)
  BY ChargeTypes
<1>3. ASSUME NEW a \in Accounts, NEW m \in Minutes
      PROVE  /\ UsedIn(a)[m] \in Nat
             /\ UsedIn(a)[m] = IF m \in DOMAIN ledger THEN ledger[m][a].requestsUsed ELSE 0
             /\ NewUsage[a].requestsUsed = 0
  BY <1>2 DEF UsedIn, RowsByMinute, Usage, Row, NewUsage
<1>4. ASSUME DraftsUsed, NEW w \in Workers, NEW m \in Minutes, NEW a \in Accounts
      PROVE  View(w, m)[a].requestsUsed = UsedIn(a)[m]
  BY <1>3, <1>4 DEF DraftsUsed, View
<1>5. QED
  BY <1>1, <1>3, <1>4

\* A transaction locks rows with as many used requests as it reads.
LEMMA UsedLock ==
  ASSUME LedgerInv, DraftsUsed, NEW w \in Workers, Reserve(w) \/ WaitForRow(w)
  PROVE  DraftsUsed' /\ \A a \in Accounts : UsedIn(a)' = UsedIn(a)
<1>1. TypeOK /\ UNCHANGED ledger
  BY DEF LedgerInv, Reserve, WaitForRow
<1>2. PICK k \in Minutes, usage \in Usage : k = window[w] /\ usage = View(w, window[w])
  BY <1>1, ReserveRows, TypeWaitForRow DEF Reserve
<1>3. RowsByMinute(draft[w]) /\ DOMAIN draft = Workers
  BY <1>1, ChargeTypes
<1>4. \A a \in Accounts : UsedIn(a)' = UsedIn(a)
  BY <1>1 DEF UsedIn
<1>5. \A a \in Accounts : usage[a].requestsUsed = UsedIn(a)[k]
  BY <1>1, <1>2, UsedFacts
<1>6. PICK d \in Usage : /\ draft' = [draft EXCEPT ![w] = Drafted(w, d)]
                         /\ \A a \in Accounts : d[a].requestsUsed = UsedIn(a)[k]
  <2>1. CASE Reserve(w)
    <3>1. cur[w] \in Jobs /\ Reserved(usage, cur[w]) \in Usage
      BY <1>1, <1>2, <2>1, ReserveRows DEF Reserve
    <3>2. \/ draft' = [draft EXCEPT ![w] = Drafted(w, Reserved(usage, cur[w]))]
          \/ draft' = [draft EXCEPT ![w] = Drafted(w, usage)]
      BY <1>2, <2>1 DEF Reserve
    <3>3. \A a \in Accounts : Reserved(usage, cur[w])[a].requestsUsed = usage[a].requestsUsed
      BY <3>1, UsedCounters, 0 \in Nat
    <3>4. QED
      BY <1>5, <3>1, <3>2, <3>3
  <2>2. CASE WaitForRow(w)
    BY <1>2, <1>5, <2>2 DEF WaitForRow
  <2>3. QED
    BY <2>1, <2>2
<1>7. ASSUME NEW v \in Workers, NEW m \in DOMAIN draft'[v], NEW a \in Accounts
      PROVE  draft'[v][m][a].requestsUsed = UsedIn(a)[m]
  <2>1. CASE v # w
    BY <1>3, <1>6, <2>1 DEF DraftsUsed
  <2>2. CASE v = w
    <3>1. /\ DOMAIN Drafted(w, d) = DOMAIN draft[w] \cup {k} /\ Drafted(w, d)[k] = d
          /\ \A i \in DOMAIN draft[w] \ {k} : Drafted(w, d)[i] = draft[w][i]
      BY <1>2, <1>3, DraftedRows
    <3>2. draft'[v] = Drafted(w, d)
      BY <1>3, <1>6, <2>2
    <3>3. CASE m = k
      BY <1>6, <3>1, <3>2, <3>3
    <3>4. CASE m # k
      BY <3>1, <3>2, <3>4 DEF DraftsUsed
    <3>5. QED
      BY <3>3, <3>4
  <2>3. QED
    BY <2>1, <2>2
<1>8. QED
  BY <1>4, <1>7 DEF DraftsUsed

\* Writing rows whose minutes no other transaction has locked changes the used requests
\* of those minutes, and of no draft.
LEMMA UsedWrite ==
  ASSUME LedgerInv, DraftsUsed, NEW w \in Workers, NEW new, RowsByMinute(new),
         ledger' = Overlay(new, ledger), draft' = [draft EXCEPT ![w] = NoRows],
         \A v \in Workers \ {w} : DOMAIN draft[v] \cap DOMAIN new = {}
  PROVE  /\ DraftsUsed'
         /\ \A a \in Accounts :
              /\ \A m \in DOMAIN new : UsedIn(a)'[m] = new[m][a].requestsUsed
              /\ \A m \in Minutes \ DOMAIN new : UsedIn(a)'[m] = UsedIn(a)[m]
<1>1. /\ RowsByMinute(ledger) /\ DOMAIN draft = Workers
      /\ \A v \in Workers : RowsByMinute(draft[v])
  BY LedgerTypes
<1>2. /\ DOMAIN ledger' = DOMAIN new \cup DOMAIN ledger
      /\ \A m \in DOMAIN new : ledger'[m] = new[m]
      /\ \A m \in DOMAIN ledger \ DOMAIN new : ledger'[m] = ledger[m]
      /\ DOMAIN new \subseteq Minutes
  <2>1. /\ DOMAIN Overlay(new, ledger) = DOMAIN new \cup DOMAIN ledger
        /\ \A m \in DOMAIN new : Overlay(new, ledger)[m] = new[m]
        /\ \A m \in DOMAIN ledger \ DOMAIN new : Overlay(new, ledger)[m] = ledger[m]
    BY DEF Overlay
  <2>2. QED
    BY <2>1 DEF RowsByMinute
<1>3. ASSUME NEW a \in Accounts
      PROVE  /\ \A m \in DOMAIN new : UsedIn(a)'[m] = new[m][a].requestsUsed
             /\ \A m \in Minutes \ DOMAIN new : UsedIn(a)'[m] = UsedIn(a)[m]
  BY <1>2 DEF UsedIn
<1>4. ASSUME NEW v \in Workers, NEW m \in DOMAIN draft'[v], NEW a \in Accounts
      PROVE  draft'[v][m][a].requestsUsed = UsedIn(a)'[m]
  <2>1. v # w /\ draft'[v] = draft[v]
    BY <1>1, EmptyFunctions
  <2>2. m \in Minutes \ DOMAIN new
    BY <1>1, <2>1 DEF RowsByMinute
  <2>3. QED
    BY <1>3, <2>1, <2>2 DEF DraftsUsed
<1>5. QED
  BY <1>3, <1>4 DEF DraftsUsed

\* A record adds its request to the accounts of its job, and its job to their successes.
LEMMA UsedRecord ==
  ASSUME UsageInv, TypeOK', NEW w \in Workers, Record(w)
  PROVE  DraftsUsed' /\ UsedMatches'
<1> DEFINE u == View(w, window[w])
           d == Recorded(u, cur[w], Estimate[cur[w]])
           one == [m \in {window[w]} |-> Recorded(View(w, m), cur[w], Estimate[cur[w]])]
<1>1. /\ LedgerInv /\ TypeOK /\ pc[w] = "recording"
      /\ ledger' = Overlay(one, ledger) /\ draft' = [draft EXCEPT ![w] = NoRows]
      /\ \A v \in Workers \ {w} : window[w] \notin DOMAIN draft[v]
      /\ successes' = [successes EXCEPT ![cur[w]] = @ + 1]
  BY DEF UsageInv, ChargeInv, LedgerInv, Record, NextJob, EndTransaction, Locks, Free
<1>2. PICK j \in Jobs, k \in Minutes : j = cur[w] /\ k = window[w]
  BY <1>1, TypeParts DEF WorkerTyped
<1>3. RowsByMinute(ledger) /\ RowsByMinute(draft[w]) /\ successes \in [Jobs -> Nat]
  BY <1>1, ChargeTypes, TypeParts
<1>4. u \in Usage /\ d \in Usage /\ Estimate[j] \in Nat
  BY <1>2, <1>3, ViewIsUsage, CountersAreUsage, JobsOfFacts
<1>5. \A a \in Accounts :
        d[a].requestsUsed = UsedIn(a)[k] + (IF j \in JobsOf(a) THEN 1 ELSE 0)
  <2>1. \A a \in Accounts : u[a].requestsUsed = UsedIn(a)[k]
    BY <1>1, <1>2, UsedFacts DEF UsageInv
  <2>2. QED
    BY <1>2, <1>4, <2>1, UsedCounters
<1>6. DOMAIN one = {k} /\ one[k] = d /\ RowsByMinute(one)
  <2>1. DOMAIN one = {k} /\ one[k] = d
    BY <1>2
  <2>2. one = [m \in DOMAIN one |-> one[m]]
    OBVIOUS
  <2> HIDE DEF one, d, u
  <2>3. one \in [DOMAIN one -> Usage]
    BY <1>4, <2>1, <2>2
  <2>4. QED
    BY <2>1, <2>3 DEF RowsByMinute
<1> HIDE DEF one, d, u
<1>7. /\ DraftsUsed'
      /\ \A a \in Accounts :
           /\ UsedIn(a)'[k] = UsedIn(a)[k] + (IF j \in JobsOf(a) THEN 1 ELSE 0)
           /\ \A m \in Minutes \ {k} : UsedIn(a)'[m] = UsedIn(a)[m]
  <2>1. \A v \in Workers \ {w} : DOMAIN draft[v] \cap DOMAIN one = {}
    BY <1>1, <1>2, <1>6
  <2>2. /\ DraftsUsed'
        /\ \A a \in Accounts :
             /\ \A m \in DOMAIN one : UsedIn(a)'[m] = one[m][a].requestsUsed
             /\ \A m \in Minutes \ DOMAIN one : UsedIn(a)'[m] = UsedIn(a)[m]
    <3>1. LedgerInv /\ DraftsUsed
      BY DEF UsageInv, ChargeInv
    <3>2. /\ RowsByMinute(one) /\ ledger' = Overlay(one, ledger)
          /\ draft' = [draft EXCEPT ![w] = NoRows]
      BY <1>1, <1>6
    <3>3. QED
      BY <2>1, <3>1, <3>2, UsedWrite
  <2>3. QED
    BY <1>5, <1>6, <2>2
<1>8. successes'[j] = successes[j] + 1 /\ \A i \in Jobs \ {j} : successes'[i] = successes[i]
  BY <1>1, <1>2, <1>3
<1>9. ASSUME NEW a \in Accounts
      PROVE  SumOver(UsedIn(a)', Minutes) = SumOver(successes', JobsOf(a))
  <2> DEFINE n == IF j \in JobsOf(a) THEN 1 ELSE 0
             h == UsedIn(a)
             g == UsedIn(a)'
  <2>1. SumOver(h, Minutes) = SumOver(successes, JobsOf(a))
    BY DEF UsageInv, UsedMatches
  <2>2. /\ IsFiniteSet(Minutes) /\ \A m \in Minutes : h[m] \in Nat
        /\ IsFiniteSet(JobsOf(a)) /\ \A i \in JobsOf(a) : i \in Jobs /\ successes[i] \in Nat
    BY <1>1, <1>3, UsedFacts, JobsOfFacts
  <2>3. n \in Nat /\ g[k] = h[k] + n /\ \A m \in Minutes \ {k} : g[m] = h[m]
    BY <1>7
  <2> HIDE DEF h, g
  <2>4. SumOver(g, Minutes) = SumOver(h, Minutes) + n
    BY <2>2, <2>3, SumBump
  <2>5. SumOver(successes', JobsOf(a)) = SumOver(successes, JobsOf(a)) + n
    <3>1. CASE j \in JobsOf(a)
      <4>1. \A i \in JobsOf(a) \ {j} : successes'[i] = successes[i]
        BY <1>8, <2>2
      <4>2. n = 1 /\ n \in Nat /\ successes'[j] = successes[j] + n
        BY <1>8, <3>1
      <4> HIDE DEF n
      <4>3. QED
        BY <2>2, <3>1, <4>1, <4>2, SumBump
    <3>2. CASE j \notin JobsOf(a)
      <4>1. \A i \in JobsOf(a) : successes'[i] = successes[i]
        BY <1>8, <2>2, <3>2
      <4>2. SumOver(successes', JobsOf(a)) = SumOver(successes, JobsOf(a))
        BY <2>2, <4>1, SumExt
      <4>3. n = 0 /\ SumOver(successes, JobsOf(a)) \in Nat
        BY <2>2, <3>2, SumParts
      <4>4. QED
        BY <4>2, <4>3
    <3>3. QED
      BY <3>1, <3>2
  <2>6. SumOver(g, Minutes) = SumOver(successes', JobsOf(a))
    BY <2>1, <2>4, <2>5
  <2>7. QED
    BY <2>6 DEF g
<1>10. UsedMatches'
  <2> SUFFICES ASSUME NEW a \in Accounts
               PROVE  (SumOver(UsedIn(a), Minutes) = SumOver(successes, JobsOf(a)))'
    BY DEF UsedMatches
  <2>1. QED
    BY <1>9 DEF SumOver, MapThenSumSet, MapThenFoldSet
<1>11. QED
  BY <1>7, <1>10

\* No other step records a success or a request.
LEMMA UsedSame ==
  ASSUME UsageInv, \A a \in Accounts : UsedIn(a)' = UsedIn(a), successes' = successes
  PROVE  UsedMatches'
<1> SUFFICES ASSUME NEW a \in Accounts
             PROVE  (SumOver(UsedIn(a), Minutes) = SumOver(successes, JobsOf(a)))'
  BY DEF UsedMatches
<1>1. SumOver(UsedIn(a)', Minutes) = SumOver(UsedIn(a), Minutes)
  OBVIOUS
<1>2. SumOver(UsedIn(a), Minutes) = SumOver(successes, JobsOf(a))
  BY DEF UsageInv, UsedMatches
<1>3. QED
  BY <1>1, <1>2 DEF SumOver, MapThenSumSet, MapThenFoldSet

\* A commit writes the used requests it read.
LEMMA UsedCommit ==
  ASSUME UsageInv, TypeOK', NEW w \in Workers, CommitClaim(w)
  PROVE  DraftsUsed' /\ UsedMatches'
<1>1. /\ LedgerInv /\ TypeOK /\ pc[w] = "claiming" /\ successes' = successes
      /\ ledger' = Overlay(draft[w], ledger) /\ draft' = [draft EXCEPT ![w] = NoRows]
  BY DEF UsageInv, ChargeInv, LedgerInv, CommitClaim, EndTransaction
<1>2. /\ RowsByMinute(draft[w])
      /\ \A v \in Workers \ {w} : DOMAIN draft[v] \cap DOMAIN draft[w] = {}
  BY <1>1, LedgerTypes DEF LedgerInv, DraftsExclusive
<1>3. /\ DraftsUsed'
      /\ \A a \in Accounts :
           /\ \A m \in DOMAIN draft[w] : UsedIn(a)'[m] = draft[w][m][a].requestsUsed
           /\ \A m \in Minutes \ DOMAIN draft[w] : UsedIn(a)'[m] = UsedIn(a)[m]
  BY <1>1, <1>2, UsedWrite DEF UsageInv
<1>4. ASSUME NEW a \in Accounts PROVE UsedIn(a)' = UsedIn(a)
  <2>1. \A m \in Minutes : UsedIn(a)'[m] = UsedIn(a)[m]
    BY <1>3 DEF UsageInv, DraftsUsed
  <2>2. QED
    BY <2>1 DEF UsedIn
<1>5. QED
  BY <1>1, <1>3, <1>4, UsedSame

\* A job that becomes done has succeeded with that step.  All the other steps add no
\* success and, while every job has one worker, leave done what is done.
LEMMA DoneNext ==
  ASSUME TypeOK, [Next]_vars
  PROVE  \/ /\ successes' = successes
            /\ \A j \in Jobs : state'[j] = "done" => state[j] = "done"
            /\ JobsApart /\ (~\E j \in Jobs : Overrun(j)) =>
                 \A j \in Jobs : state[j] = "done" => state'[j] = "done"
         \/ \E j \in Jobs :
              /\ state' = [state EXCEPT ![j] = "done"]
              /\ successes' = [successes EXCEPT ![j] = @ + 1]
              /\ JobsApart => state[j] = "running"
<1>1. /\ state \in [Jobs -> {"waiting", "running", "done"}]
      /\ \A w \in Workers : DOMAIN admitted[w] \subseteq Jobs
  BY ChargeTypes
<1>2. ASSUME NEW w \in Workers, JobsApart, pc[w] \in {"calling", "recording"}
      PROVE  state[cur[w]] = "running"
  <2>1. cur[w] \in Taken(w) /\ ~ Claiming(w)
    BY <1>2, ApartFacts DEF Claiming
  <2>2. QED
    BY <1>2, <2>1 DEF JobsApart
<1>3. ASSUME NEW w \in Workers, JobsApart, pc[w] = "claiming"
      PROVE  \A j \in DOMAIN admitted[w] : state[j] = "waiting"
  BY <1>3 DEF JobsApart, Taken, Claiming
<1>4. ASSUME NEW w \in Workers, CommitClaim(w)
      PROVE  /\ successes' = successes /\ pc[w] = "claiming"
             /\ state' = [j \in Jobs |-> IF j \in DOMAIN admitted[w] THEN "running" ELSE state[j]]
  BY <1>4 DEF CommitClaim
<1>5. ASSUME NEW w \in Workers, CallFails(w)
      PROVE  /\ successes' = successes /\ pc[w] \in {"calling", "recording"}
             /\ state' = [state EXCEPT ![cur[w]] = "waiting"]
  BY <1>5 DEF CallFails, history
<1>6. ASSUME NEW w \in Workers, Record(w)
      PROVE  /\ successes' = [successes EXCEPT ![cur[w]] = @ + 1]
             /\ cur[w] \in Jobs /\ pc[w] \in {"calling", "recording"}
             /\ state' = [state EXCEPT ![cur[w]] = "done"]
  BY <1>6, TypeParts DEF Record, WorkerTyped
<1>7. ASSUME NEW j \in Jobs, RecoverStale(j) \/ Overrun(j)
      PROVE  /\ successes' = successes /\ state' = [state EXCEPT ![j] = "waiting"]
             /\ state[j] = "running" \/ Overrun(j)
  BY <1>7 DEF RecoverStale, Overrun, Recovered, history
<1>8. ASSUME NEW w \in Workers,
             \/ ClaimBatch(w) \/ SelectForReserve(w) \/ Reserve(w) \/ CallProvider(w)
             \/ FindRunning(w) \/ FindOver(w) \/ SelectForRecord(w) \/ WaitForRow(w)
             \/ Abort(w) \/ Crash(w)
      PROVE  state' = state /\ successes' = successes
  BY <1>8 DEF ClaimBatch, SelectForReserve, Reserve, CallProvider, FindRunning, FindOver,
              SelectForRecord, WaitForRow, Abort, Crash, jobVars, history
<1>9. ASSUME NextMinute \/ UNCHANGED vars PROVE state' = state /\ successes' = successes
  BY <1>9 DEF NextMinute, vars, jobVars, history
<1>10. CASE \E w \in Workers : CommitClaim(w)
  BY <1>1, <1>3, <1>4, <1>10
<1>11. CASE \E w \in Workers : CallFails(w)
  BY <1>1, <1>2, <1>5, <1>11
<1>12. CASE \E w \in Workers : Record(w)
  BY <1>1, <1>2, <1>6, <1>12
<1>13. CASE \E j \in Jobs : RecoverStale(j) \/ Overrun(j)
  BY <1>1, <1>7, <1>13
<1>14. CASE state' = state /\ successes' = successes
  BY <1>14
<1>15. QED
  BY <1>8, <1>9, <1>10, <1>11, <1>12, <1>13, <1>14 DEF Next, WorkerStep

\* Overruns are counted.
LEMMA OverrunsNext ==
  ASSUME TypeOK, [Next]_vars, overruns' = 0
  PROVE  overruns = 0 /\ ~\E j \in Jobs : Overrun(j)
<1>1. overruns \in Nat
  BY TypeParts
<1>2. ASSUME NEW w \in Workers, WorkerStep(w) \/ Crash(w) PROVE overruns' = overruns
  BY <1>2 DEF WorkerStep, ClaimBatch, SelectForReserve, Reserve, CommitClaim, CallProvider,
     CallFails, FindRunning, FindOver, SelectForRecord, Record, WaitForRow, Abort, Crash, envVars
<1>3. ASSUME (\E j \in Jobs : RecoverStale(j)) \/ NextMinute \/ UNCHANGED vars
      PROVE  overruns' = overruns
  BY <1>3 DEF RecoverStale, NextMinute, vars, envVars
<1>4. \A j \in Jobs : Overrun(j) => overruns' = overruns + 1
  BY DEF Overrun
<1>5. ~\E j \in Jobs : Overrun(j)
  BY <1>1, <1>4
<1>6. QED
  BY <1>2, <1>3, <1>5 DEF Next

\* Every step keeps usage and successes equal.
LEMMA UsageNext ==
  ASSUME UsageInv, [Next]_vars
  PROVE  UsageInv'
<1>1. /\ ChargeInv' /\ TypeOK' /\ TypeOK /\ LedgerInv
  BY ChargeNext DEF UsageInv, ChargeInv, LedgerInv
<1>2. overruns' = 0 => JobsApart'
  BY <1>1, ApartNext, OverrunsNext DEF UsageInv, ChargeInv
<1>3. /\ state \in [Jobs -> {"waiting", "running", "done"}] /\ successes \in [Jobs -> Nat]
      /\ DOMAIN draft = Workers
  BY <1>1, ChargeTypes, TypeParts
<1>4. DraftsUsed' /\ UsedMatches'
  <2>1. CASE \E w \in Workers : Record(w)
    BY <1>1, <2>1, UsedRecord
  <2>2. CASE \E w \in Workers : CommitClaim(w)
    BY <1>1, <2>2, UsedCommit
  <2>3. CASE \E w \in Workers : Reserve(w) \/ WaitForRow(w)
    <3>1. PICK w \in Workers : Reserve(w) \/ WaitForRow(w)
      BY <2>3
    <3>2. DraftsUsed' /\ \A a \in Accounts : UsedIn(a)' = UsedIn(a)
      BY <1>1, <3>1, UsedLock DEF UsageInv
    <3>3. successes' = successes
      BY <3>1 DEF Reserve, WaitForRow, history
    <3>4. QED
      BY <3>2, <3>3, UsedSame
  <2>4. CASE ~\E w \in Workers : Reserve(w) \/ CommitClaim(w) \/ Record(w) \/ WaitForRow(w)
    <3>1. /\ ledger' = ledger
          /\ \A w \in Workers : draft'[w] = draft[w] \/ DOMAIN draft'[w] = {}
      BY <1>1, <2>4, LedgerUntouched
    <3>2. \A a \in Accounts : UsedIn(a)' = UsedIn(a)
      BY <3>1 DEF UsedIn
    <3>3. DraftsUsed'
      <4>1. ASSUME NEW w \in Workers, NEW m \in DOMAIN draft'[w], NEW a \in Accounts
            PROVE  draft'[w][m][a].requestsUsed = UsedIn(a)'[m]
        BY <3>1, <3>2 DEF UsageInv, DraftsUsed
      <4>2. QED
        BY <4>1 DEF DraftsUsed
    <3>4. successes' = successes
      <4>1. ASSUME NEW w \in Workers,
                   \/ ClaimBatch(w) \/ SelectForReserve(w) \/ CallProvider(w) \/ CallFails(w)
                   \/ FindRunning(w) \/ FindOver(w) \/ SelectForRecord(w) \/ Abort(w) \/ Crash(w)
            PROVE  successes' = successes
        BY <4>1 DEF ClaimBatch, SelectForReserve, CallProvider, CallFails, FindRunning, FindOver,
                    SelectForRecord, Abort, Crash, history
      <4>2. ASSUME (\E j \in Jobs : RecoverStale(j) \/ Overrun(j)) \/ NextMinute \/ UNCHANGED vars
            PROVE  successes' = successes
        BY <4>2 DEF RecoverStale, Overrun, NextMinute, vars, history
      <4>3. QED
        BY <2>4, <4>1, <4>2 DEF Next, WorkerStep
    <3>5. QED
      BY <3>2, <3>3, <3>4, UsedSame
  <2>5. QED
    BY <2>1, <2>2, <2>3, <2>4
<1>5. DoneSucceeded'
  <2>1. ASSUME NEW j \in Jobs, state' = [state EXCEPT ![j] = "done"],
               successes' = [successes EXCEPT ![j] = @ + 1]
        PROVE  \A i \in Jobs : state'[i] = "done" => successes'[i] > 0
    BY <1>3, <2>1 DEF UsageInv, DoneSucceeded
  <2>2. QED
    BY <1>1, <2>1, DoneNext DEF UsageInv, DoneSucceeded
<1>6. ASSUME overruns' = 0 PROVE SucceedsOnce'
  <2>1. JobsApart /\ SucceedsOnce /\ ~\E j \in Jobs : Overrun(j)
    BY <1>1, <1>6, OverrunsNext DEF UsageInv
  <2>2. ASSUME NEW j \in Jobs, state' = [state EXCEPT ![j] = "done"],
               successes' = [successes EXCEPT ![j] = @ + 1], state[j] = "running"
        PROVE  \A i \in Jobs : successes'[i] = (IF state'[i] = "done" THEN 1 ELSE 0)
    BY <1>3, <2>1, <2>2 DEF SucceedsOnce
  <2>3. QED
    BY <1>1, <2>1, <2>2, DoneNext DEF SucceedsOnce
<1>7. QED
  BY <1>1, <1>2, <1>4, <1>5, <1>6 DEF UsageInv

\* Initially nothing is used and nothing is done.
LEMMA UsageInit == Init => UsageInv
<1> SUFFICES ASSUME Init PROVE UsageInv
  OBVIOUS
<1>1. ChargeInv /\ TypeOK
  BY ChargeInit, TypeInit
<1>2. /\ DOMAIN ledger = {} /\ \A w \in Workers : DOMAIN draft[w] = {}
      /\ \A j \in Jobs : state[j] = "waiting"
      /\ \A w \in Workers : pc[w] = "idle" /\ Taken(w) = {}
  BY EmptyFunctions DEF Init, Taken
<1>3. JobsApart /\ DraftsUsed
  BY <1>2 DEF JobsApart, DraftsUsed
<1>4. DoneSucceeded /\ SucceedsOnce
  BY DEF Init, DoneSucceeded, SucceedsOnce
<1>5. ASSUME NEW a \in Accounts PROVE SumOver(UsedIn(a), Minutes) = SumOver(successes, JobsOf(a))
  <2>1. IsFiniteSet(JobsOf(a)) /\ \A j \in JobsOf(a) : successes[j] = 0
    BY JobsOfFacts DEF Init
  <2>2. \A m \in Minutes : UsedIn(a)[m] = 0
    BY <1>2 DEF UsedIn
  <2>3. IsFiniteSet(Minutes)
    BY <1>1, UsedFacts
  <2>4. SumOver(UsedIn(a), Minutes) = 0 /\ SumOver(successes, JobsOf(a)) = 0
    BY <2>1, <2>2, <2>3, SumZero
  <2>5. QED
    BY <2>4
<1>6. QED
  BY <1>1, <1>3, <1>4, <1>5 DEF UsageInv, UsedMatches

\* The invariant is what the run checks, with the sums written out.
LEMMA UsageSum == UsageInv => UsageMatchesSuccesses
<1> SUFFICES ASSUME UsageInv PROVE UsageMatchesSuccesses
  OBVIOUS
<1>0. ASSUME NEW j \in Jobs
      PROVE  /\ state[j] = "done" => successes[j] > 0
             /\ overruns = 0 => successes[j] = (IF state[j] = "done" THEN 1 ELSE 0)
  BY DEF UsageInv, DoneSucceeded, SucceedsOnce
<1> SUFFICES ASSUME NEW a \in Accounts
             PROVE  MapThenSumSet(LAMBDA m : ledger[m][a].requestsUsed, DOMAIN ledger)
                      = MapThenSumSet(LAMBDA j : successes[j], JobsOf(a))
  BY <1>0 DEF UsageMatchesSuccesses
<1> DEFINE S == DOMAIN ledger
           h == UsedIn(a)
           Step(F) == [s \in SUBSET S |->
                         IF s = {} THEN 0 ELSE ledger[Pick(s)][a].requestsUsed + F[s \ {Pick(s)}]]
<1>1. TypeOK /\ S \in SUBSET Minutes
  BY ChargeTypes DEF UsageInv, ChargeInv, LedgerInv, RowsByMinute
<1>2. \A m \in S : h[m] = ledger[m][a].requestsUsed
  BY <1>1 DEF UsedIn
<1>3. ASSUME NEW F PROVE Sums(F, h, S) <=> F = Step(F)
  <2>1. \A s \in SUBSET S : s # {} => h[Pick(s)] = ledger[Pick(s)][a].requestsUsed
    BY <1>2 DEF Pick
  <2>2. QED
    BY <2>1 DEF Sums
<1>4. MapThenSumSet(LAMBDA m : ledger[m][a].requestsUsed, S) = (CHOOSE F : F = Step(F))[S]
  BY DEF MapThenSumSet, MapThenFoldSet, Pick
<1>5. SumOver(h, S) = (CHOOSE F : Sums(F, h, S))[S]
  BY DEF SumOver, MapThenSumSet, MapThenFoldSet, Sums, Pick
<1>6. (CHOOSE F : F = Step(F)) = (CHOOSE F : Sums(F, h, S))
  <2> HIDE DEF S, h, Step
  <2>1. QED
    BY <1>3
<1>7. \A m \in Minutes \ S : h[m] = 0
  BY DEF UsedIn
<1>8. IsFiniteSet(Minutes) /\ \A m \in Minutes : h[m] \in Nat
  BY <1>1, UsedFacts
<1> HIDE DEF S, h
<1>9. SumOver(h, Minutes) = SumOver(h, S)
  BY <1>1, <1>7, <1>8, SumRestrict
<1>10. SumOver(h, Minutes) = SumOver(successes, JobsOf(a))
  BY DEF UsageInv, UsedMatches, h
<1>11. SumOver(successes, JobsOf(a)) = MapThenSumSet(LAMBDA j : successes[j], JobsOf(a))
  BY DEF SumOver, MapThenSumSet, MapThenFoldSet
<1>12. QED
  BY <1>4, <1>5, <1>6, <1>9, <1>10, <1>11 DEF S

\* Usage is recorded once for every success that is committed, on the account of the job's
\* customer and on the platform's, whatever calls were repeated on the way and whoever else
\* was at the job.  Every job that is done has succeeded, and has succeeded once if no job
\* has outlived its lock.
THEOREM SuccessesAreCounted == Spec => []UsageMatchesSuccesses
<1>1. UsageInv /\ [Next]_vars => UsageInv'
  BY UsageNext
<1>2. QED
  BY <1>1, UsageInit, UsageSum, PTL DEF Spec

-----------------------------------------------------------------------------
(* Calls and reservations *)

\* Grants by job, at a cost per job.
Weighted(g, c) == [j \in Jobs |-> g[j] * c[j]]

Total(g, c) == SumOver(Weighted(g, c), Jobs)

\* By the end of every minute, the load L and the grants O not yet called for cost no more
\* than the grants G.
Covers(L, O, G, c) ==
  \A n \in Minutes :
    SumOver([m \in Minutes |-> L[m] + Total(O[m], c)], 0 .. n)
      <= SumOver([m \in Minutes |-> Total(G[m], c)], 0 .. n)

Grants == [Minutes -> [Jobs -> Nat]]

\* A total is a number, and adds up.
LEMMA TotalFacts ==
  ASSUME NEW c \in [Jobs -> Nat]
  PROVE  /\ \A g \in [Jobs -> Nat] : Total(g, c) \in Nat
         /\ \A f, g, h \in [Jobs -> Nat] :
              (\A j \in Jobs : f[j] = g[j] + h[j]) => Total(f, c) = Total(g, c) + Total(h, c)
         /\ \A f, g \in [Jobs -> Nat] :
              (\A j \in Jobs : f[j] <= g[j]) => Total(f, c) <= Total(g, c)
         /\ \A f, g \in [Jobs -> Nat], j \in Jobs :
              f[j] = g[j] + 1 /\ (\A i \in Jobs \ {j} : f[i] = g[i])
                => Total(f, c) = Total(g, c) + c[j]
<1>1. IsFiniteSet(Jobs)
  BY TokenBudgetAssumption
<1>2. /\ \A p, q \in Nat : p * q \in Nat
      /\ \A p, q, r \in Nat : (p + q) * r = p * r + q * r
      /\ \A p, r \in Nat : (p + 1) * r = p * r + r
  OBVIOUS
<1>3. \A p, q, r \in Nat : p <= q => p * r <= q * r
  <2> SUFFICES ASSUME NEW p \in Nat, NEW q \in Nat, NEW r \in Nat, p <= q
               PROVE  p * r <= q * r
    OBVIOUS
  <2>1. q - p \in Nat /\ q = p + (q - p)
    OBVIOUS
  <2>2. q * r = p * r + (q - p) * r /\ (q - p) * r \in Nat /\ p * r \in Nat
    BY <1>2, <2>1
  <2>3. QED
    BY <2>2
<1>4. \A g \in [Jobs -> Nat] : \A j \in Jobs : Weighted(g, c)[j] \in Nat
  BY <1>2 DEF Weighted
<1>5. ASSUME NEW f \in [Jobs -> Nat], NEW g \in [Jobs -> Nat], NEW h \in [Jobs -> Nat],
             \A j \in Jobs : f[j] = g[j] + h[j]
      PROVE  Total(f, c) = Total(g, c) + Total(h, c)
  <2>1. \A j \in Jobs : Weighted(f, c)[j] = Weighted(g, c)[j] + Weighted(h, c)[j]
    BY <1>2, <1>5 DEF Weighted
  <2>2. QED
    BY <1>1, <1>4, <2>1, SumAdd DEF Total
<1>6. ASSUME NEW f \in [Jobs -> Nat], NEW g \in [Jobs -> Nat], \A j \in Jobs : f[j] <= g[j]
      PROVE  Total(f, c) <= Total(g, c)
  <2>1. \A j \in Jobs : Weighted(f, c)[j] <= Weighted(g, c)[j]
    BY <1>3, <1>6 DEF Weighted
  <2>2. QED
    BY <1>1, <1>4, <2>1, SumLess DEF Total
<1>7. ASSUME NEW f \in [Jobs -> Nat], NEW g \in [Jobs -> Nat], NEW j \in Jobs,
             f[j] = g[j] + 1, \A i \in Jobs \ {j} : f[i] = g[i]
      PROVE  Total(f, c) = Total(g, c) + c[j]
  <2>1. /\ Weighted(f, c)[j] = Weighted(g, c)[j] + c[j]
        /\ \A i \in Jobs \ {j} : Weighted(f, c)[i] = Weighted(g, c)[i]
    BY <1>2, <1>7 DEF Weighted
  <2>2. c[j] \in Nat /\ \A i \in Jobs : Weighted(g, c)[i] \in Nat
    BY <1>4
  <2>3. QED
    BY <1>1, <2>1, <2>2, SumBump DEF Total
<1>8. ASSUME NEW g \in [Jobs -> Nat] PROVE Total(g, c) \in Nat
  <2>1. \A i \in Jobs : Weighted(g, c)[i] \in Nat
    BY <1>4
  <2>2. QED
    BY <1>1, <2>1, SumParts DEF Total
<1>9. QED
  BY <1>5, <1>6, <1>7, <1>8

\* The two sides of Covers are sums of numbers.
LEMMA CoversTypes ==
  ASSUME NEW c \in [Jobs -> Nat], NEW L \in [Minutes -> Nat], NEW O \in Grants, NEW n \in Minutes
  PROVE  /\ IsFiniteSet(0 .. n) /\ 0 .. n \subseteq Minutes
         /\ \A m \in Minutes : Total(O[m], c) \in Nat /\ L[m] + Total(O[m], c) \in Nat
<1>1. n \in Nat /\ LastMinute \in Nat /\ n <= LastMinute
  BY TokenBudgetAssumption DEF Minutes
<1>2. IsFiniteSet(0 .. n) /\ 0 .. n \subseteq Minutes
  <2>1. n \in Int /\ 0 \in Int
    BY <1>1
  <2>2. IsFiniteSet(0 .. n)
    BY <2>1, FS_Interval
  <2>3. \A m \in 0 .. n : m \in 0 .. LastMinute
    BY <1>1
  <2>4. QED
    BY <2>2, <2>3 DEF Minutes
<1>3. ASSUME NEW m \in Minutes PROVE Total(O[m], c) \in Nat /\ L[m] + Total(O[m], c) \in Nat
  <2>1. L[m] \in Nat /\ Total(O[m], c) \in Nat
    BY TotalFacts DEF Grants
  <2>2. QED
    BY <2>1
<1>4. QED
  BY <1>2, <1>3

\* New grants are owed a call and count as much on either side.
LEMMA CoversGrant ==
  ASSUME NEW c \in [Jobs -> Nat], NEW L \in [Minutes -> Nat],
         NEW O \in Grants, NEW G \in Grants, Covers(L, O, G, c),
         NEW O2 \in Grants, NEW G2 \in Grants, NEW A \in Grants,
         \A m \in Minutes, j \in Jobs : O2[m][j] = O[m][j] + A[m][j]
                                     /\ G2[m][j] = G[m][j] + A[m][j]
  PROVE  Covers(L, O2, G2, c)
<1> SUFFICES ASSUME NEW n \in Minutes
             PROVE  SumOver([m \in Minutes |-> L[m] + Total(O2[m], c)], 0 .. n)
                      <= SumOver([m \in Minutes |-> Total(G2[m], c)], 0 .. n)
  BY DEF Covers
<1> DEFINE S == 0 .. n
           l == [m \in Minutes |-> L[m] + Total(O[m], c)]
           r == [m \in Minutes |-> Total(G[m], c)]
           a == [m \in Minutes |-> Total(A[m], c)]
           l2 == [m \in Minutes |-> L[m] + Total(O2[m], c)]
           r2 == [m \in Minutes |-> Total(G2[m], c)]
<1>1. SumOver(l, S) <= SumOver(r, S)
  BY DEF Covers
<1>2. /\ IsFiniteSet(S) /\ S \subseteq Minutes
      /\ \A m \in Minutes : /\ Total(O[m], c) \in Nat /\ Total(G[m], c) \in Nat
                            /\ Total(A[m], c) \in Nat /\ L[m] \in Nat
  BY CoversTypes
<1>3. ASSUME NEW m \in Minutes
      PROVE  /\ Total(O2[m], c) = Total(O[m], c) + Total(A[m], c)
             /\ Total(G2[m], c) = Total(G[m], c) + Total(A[m], c)
  <2>1. /\ O[m] \in [Jobs -> Nat] /\ O2[m] \in [Jobs -> Nat] /\ G[m] \in [Jobs -> Nat]
        /\ G2[m] \in [Jobs -> Nat] /\ A[m] \in [Jobs -> Nat]
    BY DEF Grants
  <2>2. /\ \A j \in Jobs : O2[m][j] = O[m][j] + A[m][j]
        /\ \A j \in Jobs : G2[m][j] = G[m][j] + A[m][j]
    OBVIOUS
  <2>3. ASSUME NEW f \in [Jobs -> Nat], NEW g \in [Jobs -> Nat], NEW h \in [Jobs -> Nat],
               \A j \in Jobs : f[j] = g[j] + h[j]
        PROVE  Total(f, c) = Total(g, c) + Total(h, c)
    BY <2>3, TotalFacts
  <2>4. Total(O2[m], c) = Total(O[m], c) + Total(A[m], c)
    BY <2>1, <2>2, <2>3
  <2>5. Total(G2[m], c) = Total(G[m], c) + Total(A[m], c)
    BY <2>1, <2>2, <2>3
  <2>6. QED
    BY <2>4, <2>5
<1>4. ASSUME NEW m \in S
      PROVE  /\ l[m] \in Nat /\ r[m] \in Nat /\ a[m] \in Nat
             /\ l2[m] = l[m] + a[m] /\ r2[m] = r[m] + a[m]
  <2>1. m \in Minutes
    BY <1>2
  <2>2. /\ l[m] = L[m] + Total(O[m], c) /\ r[m] = Total(G[m], c) /\ a[m] = Total(A[m], c)
        /\ l2[m] = L[m] + Total(O2[m], c) /\ r2[m] = Total(G2[m], c)
    BY <2>1
  <2>3. QED
    BY <1>2, <1>3, <2>1, <2>2
<1> HIDE DEF S, l, r, a, l2, r2
<1>5. SumOver(l2, S) = SumOver(l, S) + SumOver(a, S) /\ SumOver(r2, S) = SumOver(r, S) + SumOver(a, S)
  BY <1>2, <1>4, SumAdd
<1>6. SumOver(l, S) \in Nat /\ SumOver(r, S) \in Nat /\ SumOver(a, S) \in Nat
  BY <1>2, <1>4, SumParts
<1>7. SumOver(l2, S) <= SumOver(r2, S)
  BY <1>1, <1>5, <1>6
<1>8. QED
  BY <1>7 DEF S, l2, r2

\* Grants that are given up leave the calls covered.
LEMMA CoversLess ==
  ASSUME NEW c \in [Jobs -> Nat], NEW L \in [Minutes -> Nat],
         NEW O \in Grants, NEW G \in Grants, Covers(L, O, G, c),
         NEW O2 \in Grants, \A m \in Minutes, j \in Jobs : O2[m][j] <= O[m][j]
  PROVE  Covers(L, O2, G, c)
<1> SUFFICES ASSUME NEW n \in Minutes
             PROVE  SumOver([m \in Minutes |-> L[m] + Total(O2[m], c)], 0 .. n)
                      <= SumOver([m \in Minutes |-> Total(G[m], c)], 0 .. n)
  BY DEF Covers
<1> DEFINE S == 0 .. n
           l == [m \in Minutes |-> L[m] + Total(O[m], c)]
           r == [m \in Minutes |-> Total(G[m], c)]
           l2 == [m \in Minutes |-> L[m] + Total(O2[m], c)]
<1>1. SumOver(l, S) <= SumOver(r, S)
  BY DEF Covers
<1>2. /\ IsFiniteSet(S) /\ S \subseteq Minutes
      /\ \A m \in Minutes : /\ Total(O[m], c) \in Nat /\ Total(O2[m], c) \in Nat
                            /\ Total(G[m], c) \in Nat /\ L[m] \in Nat
  BY CoversTypes
<1>3. \A m \in Minutes : Total(O2[m], c) <= Total(O[m], c)
  BY TotalFacts DEF Grants
<1>4. \A m \in S : l[m] \in Nat /\ r[m] \in Nat /\ l2[m] \in Nat /\ l2[m] <= l[m]
  BY <1>2, <1>3
<1> HIDE DEF S, l, r, l2
<1>5. SumOver(l2, S) <= SumOver(l, S)
  BY <1>2, <1>4, SumLess
<1>6. SumOver(l, S) \in Nat /\ SumOver(r, S) \in Nat /\ SumOver(l2, S) \in Nat
  BY <1>2, <1>4, SumParts
<1>7. SumOver(l2, S) <= SumOver(r, S)
  BY <1>1, <1>5, <1>6
<1>8. QED
  BY <1>7 DEF S, l2, r

\* In minute t a job is called for at the grant it had in minute k.
Called(L, L2, O, O2, c, j, k, t) ==
  /\ k <= t /\ O[k][j] = O2[k][j] + 1
  /\ \A m \in Minutes, i \in Jobs : m # k \/ i # j => O[m][i] = O2[m][i]
  /\ L2[t] = L[t] + c[j] /\ \A m \in Minutes \ {t} : L2[m] = L[m]

\* A call moves the cost of its job from the minute of the grant to a later one.
LEMMA CoversCall ==
  ASSUME NEW c \in [Jobs -> Nat], NEW L \in [Minutes -> Nat], NEW L2 \in [Minutes -> Nat],
         NEW O \in Grants, NEW O2 \in Grants, NEW G \in Grants, Covers(L, O, G, c),
         NEW j \in Jobs, NEW k \in Minutes, NEW t \in Minutes,
         Called(L, L2, O, O2, c, j, k, t)
  PROVE  Covers(L2, O2, G, c)
<1>0. /\ k <= t /\ O[k][j] = O2[k][j] + 1
      /\ \A m \in Minutes, i \in Jobs : m # k \/ i # j => O[m][i] = O2[m][i]
      /\ L2[t] = L[t] + c[j] /\ \A m \in Minutes \ {t} : L2[m] = L[m]
  BY DEF Called
<1> SUFFICES ASSUME NEW n \in Minutes
             PROVE  SumOver([m \in Minutes |-> L2[m] + Total(O2[m], c)], 0 .. n)
                      <= SumOver([m \in Minutes |-> Total(G[m], c)], 0 .. n)
  BY DEF Covers
<1> DEFINE S == 0 .. n
           l == [m \in Minutes |-> L[m] + Total(O[m], c)]
           r == [m \in Minutes |-> Total(G[m], c)]
           b == [m \in Minutes |-> L[m] + Total(O2[m], c)]
           l2 == [m \in Minutes |-> L2[m] + Total(O2[m], c)]
<1>1. SumOver(l, S) <= SumOver(r, S)
  BY DEF Covers
<1>2. /\ IsFiniteSet(S) /\ S \subseteq Minutes
      /\ \A m \in Minutes : /\ Total(O[m], c) \in Nat /\ Total(O2[m], c) \in Nat
                            /\ Total(G[m], c) \in Nat /\ L[m] \in Nat
      /\ c[j] \in Nat
  BY CoversTypes
<1>3. /\ Total(O[k], c) = Total(O2[k], c) + c[j]
      /\ \A m \in Minutes \ {k} : Total(O[m], c) = Total(O2[m], c)
  <2>1. /\ \A i \in Jobs \ {j} : O[k][i] = O2[k][i]
        /\ O[k] \in [Jobs -> Nat] /\ O2[k] \in [Jobs -> Nat]
    BY <1>0 DEF Grants
  <2>2. Total(O[k], c) = Total(O2[k], c) + c[j]
    BY <1>0, <2>1, TotalFacts
  <2>3. \A m \in Minutes \ {k} : O[m] = O2[m]
    BY <1>0 DEF Grants
  <2>4. QED
    BY <2>2, <2>3
<1>4. /\ \A m \in S : l[m] \in Nat /\ r[m] \in Nat /\ b[m] \in Nat /\ l2[m] \in Nat
      /\ l[k] = b[k] + c[j] /\ \A m \in Minutes \ {k} : l[m] = b[m]
      /\ l2[t] = b[t] + c[j] /\ \A m \in Minutes \ {t} : l2[m] = b[m]
  <2>1. \A m \in Minutes : L2[m] \in Nat
    OBVIOUS
  <2>2. ASSUME NEW m \in S
        PROVE  l[m] \in Nat /\ r[m] \in Nat /\ b[m] \in Nat /\ l2[m] \in Nat
    <3>1. m \in Minutes
      BY <1>2
    <3>2. /\ l[m] = L[m] + Total(O[m], c) /\ r[m] = Total(G[m], c)
          /\ b[m] = L[m] + Total(O2[m], c) /\ l2[m] = L2[m] + Total(O2[m], c)
      BY <3>1
    <3>3. /\ L[m] \in Nat /\ L2[m] \in Nat /\ Total(O[m], c) \in Nat
          /\ Total(O2[m], c) \in Nat /\ Total(G[m], c) \in Nat
      BY <1>2, <2>1, <3>1
    <3> HIDE DEF l, r, b, l2
    <3>4. QED
      BY <3>2, <3>3
  <2>3. /\ l[k] = b[k] + c[j] /\ \A m \in Minutes \ {k} : l[m] = b[m]
    BY <1>2, <1>3
  <2>4. l2[t] = b[t] + c[j] /\ \A m \in Minutes \ {t} : l2[m] = b[m]
    BY <1>0, <1>2
  <2>5. QED
    BY <2>2, <2>3, <2>4
<1>5. n \in Nat /\ k \in Nat /\ t \in Nat /\ (t \in S => k \in S)
  BY <1>0 DEF Minutes
<1> HIDE DEF S, l, r, b, l2
<1>6. SumOver(l, S) = SumOver(b, S) + (IF k \in S THEN c[j] ELSE 0)
  <2>1. CASE k \in S
    BY <1>2, <1>4, <2>1, SumBump
  <2>2. CASE k \notin S
    BY <1>2, <1>4, <2>2, SumExt, SumParts
  <2>3. QED
    BY <2>1, <2>2
<1>7. SumOver(l2, S) = SumOver(b, S) + (IF t \in S THEN c[j] ELSE 0)
  <2>1. CASE t \in S
    BY <1>2, <1>4, <2>1, SumBump
  <2>2. CASE t \notin S
    BY <1>2, <1>4, <2>2, SumExt, SumParts
  <2>3. QED
    BY <2>1, <2>2
<1>8. SumOver(l, S) \in Nat /\ SumOver(r, S) \in Nat /\ SumOver(b, S) \in Nat
  BY <1>2, <1>4, SumParts
<1>9. SumOver(l2, S) <= SumOver(r, S)
  BY <1>1, <1>2, <1>5, <1>6, <1>7, <1>8
<1>10. QED
  BY <1>9 DEF S, l2, r

-----------------------------------------------------------------------------
(* Calls and reservations: the invariant *)

\* The workers that have yet to call for job j, with a grant that was committed for minute m.
Owers(m, j) ==
  {w \in Workers : ~ Claiming(w) /\ j \in DOMAIN admitted[w] /\ admitted[w][j] = m}

\* The committed grants of each minute that have not been called for, nor given up.
Owed == [m \in Minutes |-> [j \in Jobs |-> Cardinality(Owers(m, j))]]

Ones == [j \in Jobs |-> 1]

RequestsSent == [m \in Minutes |-> load[m].requests]

TokensSent == [m \in Minutes |-> load[m].tokens]

CallsCovered ==
  /\ Covers(RequestsSent, Owed, granted, Ones)
  /\ Covers(TokensSent, Owed, granted, Estimate)

\* No job is charged to a minute that is yet to come.
AdmittedPast ==
  \A w \in Workers : \A j \in DOMAIN admitted[w] : admitted[w][j] <= minute

CallsInv == UsageInv /\ OrderInv /\ AdmittedPast /\ CallsCovered

\* Workers can be counted.
LEMMA WorkersFinite ==
  ASSUME NEW W \in SUBSET Workers
  PROVE  IsFiniteSet(W) /\ Cardinality(W) \in Nat
BY TokenBudgetAssumption, FS_Subset, FS_CardinalityType

\* What is owed is a number of grants, before a step and after it.
LEMMA OwedTypes == Owed \in Grants /\ Owed' \in Grants
<1>1. \A m \in Minutes, j \in Jobs : Cardinality(Owers(m, j)) \in Nat
  BY WorkersFinite DEF Owers
<1>2. \A m \in Minutes, j \in Jobs : Cardinality(Owers(m, j)') \in Nat
  BY WorkersFinite DEF Owers
<1>3. QED
  BY <1>1, <1>2 DEF Owed, Grants

\* The types of what the invariant compares.
LEMMA CallsTypes ==
  ASSUME TypeOK
  PROVE  /\ RequestsSent \in [Minutes -> Nat] /\ TokensSent \in [Minutes -> Nat]
         /\ Owed \in Grants /\ granted \in Grants
         /\ Ones \in [Jobs -> Nat] /\ Estimate \in [Jobs -> Nat]
<1>1. load \in [Minutes -> [requests : Nat, tokens : Nat]] /\ granted \in [Minutes -> [Jobs -> Nat]]
  BY TypeParts
<1>2. Estimate \in [Jobs -> Nat]
  BY TokenBudgetAssumption
<1>3. QED
  BY <1>1, <1>2, OwedTypes DEF RequestsSent, TokensSent, Grants, Ones

\* Every step keeps the charged minutes in the past.
LEMMA PastNext ==
  ASSUME TypeOK, TypeOK', OrderInv, AdmittedPast, [Next]_vars
  PROVE  AdmittedPast'
<1>1. /\ minute \in Nat /\ minute' \in Nat /\ DOMAIN admitted = Workers
      /\ \A w \in Workers : \A j \in DOMAIN admitted[w] : admitted[w][j] \in Nat
      /\ \A w \in Workers : window[w] \in Nat /\ window[w] <= minute
  BY ChargeTypes, TypePartsNext DEF Minutes, OrderInv, LocksPast
<1>2. ASSUME NEW w \in Workers, Reserve(w) PROVE AdmittedPast'
  <2>1. \/ admitted' = admitted
        \/ admitted' = [admitted EXCEPT
             ![w] = [i \in DOMAIN @ \cup {cur[w]} |-> IF i = cur[w] THEN window[w] ELSE @[i]]]
    BY <1>2 DEF Reserve
  <2>2. minute' = minute
    BY <1>2 DEF Reserve
  <2>3. ASSUME NEW v \in Workers, NEW j \in DOMAIN admitted'[v]
        PROVE  \/ admitted'[v][j] = window[w]
               \/ j \in DOMAIN admitted[v] /\ admitted'[v][j] = admitted[v][j]
    <3>1. CASE admitted' = admitted
      BY <3>1
    <3>2. CASE admitted' = [admitted EXCEPT
             ![w] = [i \in DOMAIN @ \cup {cur[w]} |-> IF i = cur[w] THEN window[w] ELSE @[i]]]
      <4>1. CASE v = w
        <5>1. admitted'[w] = [i \in DOMAIN admitted[w] \cup {cur[w]} |->
                                IF i = cur[w] THEN window[w] ELSE admitted[w][i]]
          BY <1>1, <3>2
        <5>2. j \in DOMAIN admitted[w] \cup {cur[w]}
          BY <2>3, <4>1, <5>1
        <5>3. admitted'[w][j] = IF j = cur[w] THEN window[w] ELSE admitted[w][j]
          BY <5>1, <5>2
        <5>4. j = cur[w] \/ j \in DOMAIN admitted[w]
          BY <5>2
        <5>5. QED
          BY <4>1, <5>3, <5>4
      <4>2. CASE v # w
        <5>1. admitted'[v] = admitted[v]
          BY <1>1, <3>2, <4>2
        <5>2. QED
          BY <2>3, <5>1
      <4>3. QED
        BY <4>1, <4>2
    <3>3. QED
      BY <2>1, <3>1, <3>2
  <2>4. QED
    BY <1>1, <2>2, <2>3 DEF AdmittedPast
<1>3. ASSUME ~\E w \in Workers : Reserve(w)
      PROVE  /\ minute' = minute \/ minute' = minute + 1
             /\ \A w \in Workers : \A j \in DOMAIN admitted'[w] :
                  j \in DOMAIN admitted[w] /\ admitted'[w][j] = admitted[w][j]
  <2>1. ASSUME NEW w \in Workers, CallProvider(w)
        PROVE  /\ minute' = minute
               /\ \A v \in Workers : \A j \in DOMAIN admitted'[v] :
                    j \in DOMAIN admitted[v] /\ admitted'[v][j] = admitted[v][j]
    <3>1. PICK i : admitted' = Remaining(w, i)
      BY <2>1 DEF CallProvider
    <3>2. QED
      BY <1>1, <2>1, <3>1 DEF CallProvider, Remaining
  <2>2. ASSUME NEW w \in Workers, Abort(w) \/ Crash(w)
        PROVE  minute' = minute /\ admitted' = [admitted EXCEPT ![w] = NoJobs]
    BY <2>2 DEF Abort, Crash, EndTick
  <2>3. ASSUME NEW w \in Workers,
               ClaimBatch(w) \/ SelectForReserve(w) \/ CommitClaim(w) \/ CallFails(w)
                 \/ FindRunning(w) \/ FindOver(w) \/ SelectForRecord(w) \/ Record(w)
                 \/ WaitForRow(w)
        PROVE  UNCHANGED <<minute, admitted>>
    BY <2>3 DEF ClaimBatch, SelectForReserve, CommitClaim, CallFails, FindRunning, FindOver,
                SelectForRecord, Record, WaitForRow
  <2>4. ASSUME (\E j \in Jobs : RecoverStale(j) \/ Overrun(j)) \/ NextMinute \/ UNCHANGED vars
        PROVE  admitted' = admitted /\ (minute' = minute \/ minute' = minute + 1)
    BY <2>4 DEF RecoverStale, Overrun, NextMinute, vars
  <2>5. QED
    BY <1>1, <1>3, <2>1, <2>2, <2>3, <2>4, EmptyFunctions DEF Next, WorkerStep
<1>4. ASSUME ~\E w \in Workers : Reserve(w) PROVE AdmittedPast'
  <2>1. minute <= minute'
    BY <1>1, <1>3, <1>4
  <2>2. ASSUME NEW w \in Workers, NEW j \in DOMAIN admitted'[w] PROVE admitted'[w][j] <= minute'
    <3>1. admitted'[w][j] = admitted[w][j] /\ admitted[w][j] \in Nat /\ admitted[w][j] <= minute
      BY <1>1, <1>3, <1>4 DEF AdmittedPast
    <3>2. QED
      BY <1>1, <2>1, <3>1
  <2>3. QED
    BY <2>2 DEF AdmittedPast
<1>5. QED
  BY <1>2, <1>4

\* A commit owes the calls it was granted.
LEMMA CallsCommit ==
  ASSUME UsageInv, CallsCovered, TypeOK', NEW w \in Workers, CommitClaim(w)
  PROVE  CallsCovered'
<1>1. /\ TypeOK /\ pc[w] = "claiming" /\ admitted' = admitted /\ load' = load
      /\ pc' = [pc EXCEPT ![w] = IF DOMAIN admitted[w] = {} THEN "idle" ELSE "working"]
      /\ granted' = [m \in Minutes |-> [j \in Jobs |->
           granted[m][j] + (IF j \in DOMAIN admitted[w] /\ admitted[w][j] = m THEN 1 ELSE 0)]]
  BY DEF UsageInv, ChargeInv, LedgerInv, CommitClaim
<1>2. pc \in [Workers -> {"idle", "claiming", "reserving", "working", "calling", "closing",
                      "recording"}]
  BY <1>1, ChargeTypes
<1> DEFINE A == [m \in Minutes |-> [j \in Jobs |->
                   IF j \in DOMAIN admitted[w] /\ admitted[w][j] = m THEN 1 ELSE 0]]
<1>3. /\ Claiming(w) /\ ~ Claiming(w)'
      /\ \A v \in Workers \ {w} : Claiming(v)' = Claiming(v)
  BY <1>1, <1>2 DEF Claiming
<1>4. ASSUME NEW m \in Minutes, NEW j \in Jobs
      PROVE  Owed'[m][j] = Owed[m][j] + A[m][j] /\ granted'[m][j] = granted[m][j] + A[m][j]
  <2> DEFINE W == Owers(m, j)
             W2 == Owers(m, j)'
  <2>1. Owed[m][j] = Cardinality(W) /\ Owed'[m][j] = Cardinality(W2)
    BY DEF Owed
  <2>2. IsFiniteSet(W) /\ Cardinality(W) \in Nat /\ w \notin W
    BY <1>3, WorkersFinite DEF Owers
  <2>3. Cardinality(W2) = Cardinality(W) + A[m][j]
    <3>1. CASE j \in DOMAIN admitted[w] /\ admitted[w][j] = m
      <4>1. W2 = W \cup {w}
        BY <1>1, <1>3, <3>1 DEF Owers
      <4>2. A[m][j] = 1
        BY <3>1
      <4> HIDE DEF A, W, W2
      <4>3. QED
        BY <2>2, <4>1, <4>2, FS_AddElement
    <3>2. CASE ~(j \in DOMAIN admitted[w] /\ admitted[w][j] = m)
      <4>1. W2 = W
        BY <1>1, <1>3, <3>2 DEF Owers
      <4>2. A[m][j] = 0
        BY <3>2
      <4> HIDE DEF A, W, W2
      <4>3. QED
        BY <2>2, <4>1, <4>2
    <3>3. QED
      BY <3>1, <3>2
  <2>4. granted'[m][j] = granted[m][j] + A[m][j]
    BY <1>1
  <2> HIDE DEF A, W, W2
  <2>5. QED
    BY <2>1, <2>3, <2>4
<1>5. A \in Grants
  BY DEF Grants
<1>6. PICK O \in Grants, G \in Grants, P \in Grants, H \in Grants, B \in Grants :
        O = Owed /\ G = granted /\ P = Owed' /\ H = granted' /\ B = A
  <2>1. Owed' \in Grants /\ granted' \in Grants
    <3>1. granted' \in [Minutes -> [Jobs -> Nat]]
      BY TypePartsNext
    <3>2. QED
      BY <3>1, OwedTypes DEF Grants
  <2>2. Owed \in Grants /\ granted \in Grants
    BY <1>1, CallsTypes
  <2> HIDE DEF A
  <2>3. QED
    BY <1>5, <2>1, <2>2
<1>7. \A m \in Minutes, j \in Jobs : P[m][j] = O[m][j] + B[m][j] /\ H[m][j] = G[m][j] + B[m][j]
  BY <1>4, <1>6
<1>8. ASSUME NEW c \in [Jobs -> Nat], NEW L \in [Minutes -> Nat], Covers(L, O, G, c)
      PROVE  Covers(L, P, H, c)
  BY <1>7, <1>8, CoversGrant
<1>9. RequestsSent' = RequestsSent /\ TokensSent' = TokensSent
  BY <1>1 DEF RequestsSent, TokensSent
<1>10. /\ Covers(RequestsSent, P, H, Ones) /\ Covers(TokensSent, P, H, Estimate)
  BY <1>1, <1>6, <1>8, CallsTypes DEF CallsCovered
<1>11. QED
  BY <1>6, <1>9, <1>10 DEF CallsCovered, Ones

\* A call spends what was granted for it, in its minute or later.
LEMMA CallsCall ==
  ASSUME UsageInv, AdmittedPast, CallsCovered, TypeOK', NEW w \in Workers, CallProvider(w)
  PROVE  CallsCovered'
<1>1. PICK j \in DOMAIN admitted[w] :
        /\ admitted' = Remaining(w, j)
        /\ load' = [load EXCEPT ![minute].requests = @ + 1, ![minute].tokens = @ + Estimate[j]]
  BY DEF CallProvider
<1>2. /\ TypeOK /\ pc[w] = "working" /\ granted' = granted
      /\ pc' = [pc EXCEPT ![w] = "calling"]
  BY DEF UsageInv, ChargeInv, LedgerInv, CallProvider
<1>3. /\ pc \in [Workers -> {"idle", "claiming", "reserving", "working", "calling", "closing",
                      "recording"}]
      /\ minute \in Minutes /\ j \in Jobs /\ DOMAIN admitted = Workers
      /\ admitted[w][j] \in Minutes /\ admitted[w][j] <= minute
      /\ load \in [Minutes -> [requests : Nat, tokens : Nat]]
  BY <1>2, ChargeTypes, TypeParts DEF AdmittedPast
<1>4. PICK k \in Minutes, t \in Minutes : k = admitted[w][j] /\ t = minute /\ k <= t
  BY <1>3
<1>5. \A v \in Workers : Claiming(v)' = Claiming(v) /\ ~ Claiming(w)
  BY <1>2, <1>3 DEF Claiming
<1>6. /\ \A v \in Workers \ {w} : admitted'[v] = admitted[v]
      /\ DOMAIN admitted'[w] = DOMAIN admitted[w] \ {j}
      /\ \A i \in DOMAIN admitted'[w] : admitted'[w][i] = admitted[w][i]
  BY <1>1, <1>3 DEF Remaining
<1>7. ASSUME NEW m \in Minutes, NEW i \in Jobs
      PROVE  Owed[m][i] = Cardinality(Owers(m, i)) /\ Owed'[m][i] = Cardinality(Owers(m, i)')
  BY DEF Owed
<1>8. Owed[k][j] = Owed'[k][j] + 1
  <2>1. w \in Owers(k, j) /\ Owers(k, j)' = Owers(k, j) \ {w}
    BY <1>4, <1>5, <1>6 DEF Owers
  <2>2. IsFiniteSet(Owers(k, j)) /\ Cardinality(Owers(k, j)) \in Nat
    BY WorkersFinite DEF Owers
  <2>3. Cardinality(Owers(k, j)') = Cardinality(Owers(k, j)) - 1
    BY <2>1, <2>2, FS_RemoveElement
  <2>4. QED
    BY <1>3, <1>7, <2>2, <2>3
<1>9. ASSUME NEW m \in Minutes, NEW i \in Jobs, m # k \/ i # j
      PROVE  Owed[m][i] = Owed'[m][i]
  <2>1. \A v \in Workers :
          i \in DOMAIN admitted[v] /\ admitted[v][i] = m
            <=> i \in DOMAIN admitted'[v] /\ admitted'[v][i] = m
    <3>1. ASSUME NEW v \in Workers, v = w
          PROVE  i \in DOMAIN admitted[v] /\ admitted[v][i] = m
                   <=> i \in DOMAIN admitted'[v] /\ admitted'[v][i] = m
      BY <1>4, <1>6, <1>9, <3>1
    <3>2. QED
      BY <1>6, <3>1
  <2>2. Owers(m, i)' = Owers(m, i)
    BY <1>5, <2>1 DEF Owers
  <2>3. QED
    BY <1>7, <2>2
<1>10. PICK O \in Grants, G \in Grants, P \in Grants : O = Owed /\ G = granted /\ P = Owed'
  <2>1. Owed' \in Grants
    BY OwedTypes
  <2>2. QED
    BY <1>2, <2>1, CallsTypes
<1>11. O[k][j] = P[k][j] + 1 /\ \A m \in Minutes, i \in Jobs : m # k \/ i # j => O[m][i] = P[m][i]
  BY <1>8, <1>9, <1>10
<1>12. ASSUME NEW c \in [Jobs -> Nat], NEW L \in [Minutes -> Nat], Covers(L, O, G, c),
              NEW L2 \in [Minutes -> Nat], L2[t] = L[t] + c[j],
              \A m \in Minutes \ {t} : L2[m] = L[m]
       PROVE  Covers(L2, P, G, c)
  <2>1. Called(L, L2, O, P, c, j, k, t)
    BY <1>4, <1>11, <1>12 DEF Called
  <2>2. j \in Jobs
    BY <1>3
  <2>3. QED
    BY <1>12, <2>1, <2>2, CoversCall
<1>13. /\ RequestsSent'[t] = RequestsSent[t] + Ones[j]
       /\ TokensSent'[t] = TokensSent[t] + Estimate[j]
       /\ \A m \in Minutes \ {t} : /\ RequestsSent'[m] = RequestsSent[m]
                                    /\ TokensSent'[m] = TokensSent[m]
  <2>1. /\ \A m \in Minutes \ {t} : load'[m] = load[m]
        /\ load'[t].requests = load[t].requests + 1
        /\ load'[t].tokens = load[t].tokens + Estimate[j]
    BY <1>1, <1>3, <1>4
  <2>2. Ones[j] = 1
    BY <1>3 DEF Ones
  <2>3. QED
    BY <2>1, <2>2 DEF RequestsSent, TokensSent
<1>14. RequestsSent' \in [Minutes -> Nat] /\ TokensSent' \in [Minutes -> Nat]
  <2>1. load' \in [Minutes -> [requests : Nat, tokens : Nat]]
    BY TypePartsNext
  <2>2. QED
    BY <2>1 DEF RequestsSent, TokensSent
<1>15. /\ Covers(RequestsSent', P, G, Ones) /\ Covers(TokensSent', P, G, Estimate)
  <2>1. /\ Covers(RequestsSent, O, G, Ones) /\ Covers(TokensSent, O, G, Estimate)
    BY <1>10 DEF CallsCovered
  <2>2. /\ RequestsSent \in [Minutes -> Nat] /\ TokensSent \in [Minutes -> Nat]
        /\ Ones \in [Jobs -> Nat] /\ Estimate \in [Jobs -> Nat]
    BY <1>2, CallsTypes
  <2>3. QED
    BY <1>12, <1>13, <1>14, <2>1, <2>2
<1>16. QED
  BY <1>2, <1>10, <1>15 DEF CallsCovered, Ones

\* The other steps make no call, and at most give grants up.
LEMMA CallsOther ==
  ASSUME UsageInv, CallsCovered, TypeOK', [Next]_vars,
         ~\E w \in Workers : CommitClaim(w) \/ CallProvider(w)
  PROVE  CallsCovered'
<1>1. /\ TypeOK
      /\ pc \in [Workers -> {"idle", "claiming", "reserving", "working", "calling", "closing",
                      "recording"}]
      /\ DOMAIN admitted = Workers
      /\ \A w \in Workers : pc[w] = "idle" => DOMAIN admitted[w] = {}
  BY ChargeTypes DEF UsageInv, ChargeInv, LedgerInv, ClaimsCovered
<1>2. /\ UNCHANGED <<granted, load>>
      /\ \A v \in Workers : \A j \in DOMAIN admitted'[v] :
           ~ Claiming(v)' => /\ ~ Claiming(v) /\ j \in DOMAIN admitted[v]
                             /\ admitted'[v][j] = admitted[v][j]
  <2>1. ASSUME NEW w \in Workers, ClaimBatch(w)
        PROVE  /\ UNCHANGED <<granted, load, admitted>> /\ pc' = [pc EXCEPT ![w] = "claiming"]
    BY <2>1 DEF ClaimBatch, history
  <2>2. ASSUME NEW w \in Workers, SelectForReserve(w)
        PROVE  /\ UNCHANGED <<granted, load, admitted>> /\ pc' = [pc EXCEPT ![w] = "reserving"]
    BY <2>2 DEF SelectForReserve, history
  <2>3. ASSUME NEW w \in Workers, Reserve(w)
        PROVE  /\ UNCHANGED <<granted, load>> /\ pc' = [pc EXCEPT ![w] = "claiming"]
               /\ \A v \in Workers \ {w} : admitted'[v] = admitted[v]
    BY <1>1, <2>3 DEF Reserve, history
  <2>4. ASSUME NEW w \in Workers,
               \/ CallFails(w) \/ FindRunning(w) \/ FindOver(w) \/ SelectForRecord(w)
               \/ Record(w) \/ WaitForRow(w)
        PROVE  /\ UNCHANGED <<granted, load, admitted>> /\ ~ Claiming(w)
               /\ \A v \in Workers \ {w} : pc'[v] = pc[v]
    BY <1>1, <2>4 DEF CallFails, FindRunning, FindOver, SelectForRecord, Record, WaitForRow,
                      NextJob, history, Claiming
  <2>5. ASSUME NEW w \in Workers, Abort(w) \/ Crash(w)
        PROVE  /\ UNCHANGED <<granted, load>> /\ admitted' = [admitted EXCEPT ![w] = NoJobs]
               /\ pc' = [pc EXCEPT ![w] = "idle"]
    BY <2>5 DEF Abort, Crash, EndTick, history
  <2>6. ASSUME (\E j \in Jobs : RecoverStale(j) \/ Overrun(j)) \/ NextMinute \/ UNCHANGED vars
        PROVE  UNCHANGED <<granted, load, admitted, pc>>
    BY <2>6 DEF RecoverStale, Overrun, NextMinute, vars, history
  <2>7. QED
    BY <1>1, <2>1, <2>2, <2>3, <2>4, <2>5, <2>6, EmptyFunctions DEF Next, WorkerStep, Claiming
<1>3. ASSUME NEW m \in Minutes, NEW j \in Jobs PROVE Owed'[m][j] <= Owed[m][j]
  <2>1. Owers(m, j)' \subseteq Owers(m, j) /\ IsFiniteSet(Owers(m, j))
    BY <1>2, WorkersFinite DEF Owers
  <2>2. Cardinality(Owers(m, j)') <= Cardinality(Owers(m, j))
    BY <2>1, FS_Subset
  <2>3. QED
    BY <2>2 DEF Owed
<1>4. PICK O \in Grants, G \in Grants, P \in Grants : O = Owed /\ G = granted /\ P = Owed'
  <2>1. Owed' \in Grants
    BY OwedTypes
  <2>2. QED
    BY <1>1, <2>1, CallsTypes
<1>5. ASSUME NEW c \in [Jobs -> Nat], NEW L \in [Minutes -> Nat], Covers(L, O, G, c)
      PROVE  Covers(L, P, G, c)
  BY <1>3, <1>4, <1>5, CoversLess
<1>6. /\ Covers(RequestsSent, P, G, Ones) /\ Covers(TokensSent, P, G, Estimate)
  BY <1>1, <1>4, <1>5, CallsTypes DEF CallsCovered
<1>7. RequestsSent' = RequestsSent /\ TokensSent' = TokensSent
  BY <1>2 DEF RequestsSent, TokensSent
<1>8. QED
  BY <1>2, <1>4, <1>6, <1>7 DEF CallsCovered, Ones

\* Every step keeps the calls covered.
LEMMA CallsNext == CallsInv /\ [Next]_vars => CallsInv'
<1> SUFFICES ASSUME CallsInv, [Next]_vars PROVE CallsInv'
  OBVIOUS
<1>1. UsageInv /\ OrderInv /\ AdmittedPast /\ CallsCovered /\ TypeOK
  BY DEF CallsInv, OrderInv, LedgerInv
<1>2. UsageInv'
  BY <1>1, UsageNext
<1>3. OrderInv'
  BY <1>1, OrderNext
<1>4. TypeOK'
  BY <1>1, TypeNext
<1>5. AdmittedPast'
  BY <1>1, <1>4, PastNext
<1>6. CallsCovered'
  <2>1. CASE \E w \in Workers : CommitClaim(w)
    BY <1>1, <1>4, <2>1, CallsCommit
  <2>2. CASE \E w \in Workers : CallProvider(w)
    BY <1>1, <1>4, <2>2, CallsCall
  <2>3. CASE ~\E w \in Workers : CommitClaim(w) \/ CallProvider(w)
    BY <1>1, <1>4, <2>3, CallsOther
  <2>4. QED
    BY <2>1, <2>2, <2>3
<1>7. QED
  BY <1>2, <1>3, <1>5, <1>6 DEF CallsInv

\* Nothing was called or granted at first.
LEMMA CallsInit == Init => CallsInv
<1> SUFFICES ASSUME Init PROVE CallsInv
  OBVIOUS
<1>1. UsageInv /\ TypeOK
  BY UsageInit, TypeInit
<1>2. OrderInv /\ AdmittedPast
  <2>1. LocksPast /\ LocksInOrder
    BY EmptyFunctions, TokenBudgetAssumption DEF Init, LocksPast, LocksInOrder
  <2>2. AdmittedPast
    BY EmptyFunctions DEF Init, AdmittedPast
  <2>3. QED
    BY <2>1, <2>2, LedgerInit DEF OrderInv
<1>3. /\ \A m \in Minutes : RequestsSent[m] = 0 /\ TokensSent[m] = 0
      /\ \A m \in Minutes, j \in Jobs : granted[m][j] = 0
      /\ \A w \in Workers : DOMAIN admitted[w] = {}
  BY EmptyFunctions DEF Init, RequestsSent, TokensSent
<1>4. \A m \in Minutes, j \in Jobs : Owed[m][j] = 0
  <2>1. \A m \in Minutes, j \in Jobs : Owers(m, j) = {}
    BY <1>3 DEF Owers
  <2>2. QED
    BY <2>1, FS_EmptySet DEF Owed
<1>5. PICK O \in Grants, G \in Grants : O = Owed /\ G = granted
  BY <1>1, CallsTypes
<1>6. ASSUME NEW c \in [Jobs -> Nat], NEW L \in [Minutes -> Nat], \A m \in Minutes : L[m] = 0
      PROVE  Covers(L, O, G, c)
  <2> SUFFICES ASSUME NEW n \in Minutes
               PROVE  SumOver([m \in Minutes |-> L[m] + Total(O[m], c)], 0 .. n)
                        <= SumOver([m \in Minutes |-> Total(G[m], c)], 0 .. n)
    BY DEF Covers
  <2> DEFINE S == 0 .. n
             l == [m \in Minutes |-> L[m] + Total(O[m], c)]
             r == [m \in Minutes |-> Total(G[m], c)]
  <2>1. /\ IsFiniteSet(S) /\ S \subseteq Minutes
        /\ \A m \in Minutes : Total(O[m], c) \in Nat /\ Total(G[m], c) \in Nat
    BY CoversTypes
  <2>2. ASSUME NEW m \in Minutes PROVE Total(O[m], c) <= Total(G[m], c)
    <3>1. /\ O[m] \in [Jobs -> Nat] /\ G[m] \in [Jobs -> Nat]
          /\ \A j \in Jobs : O[m][j] <= G[m][j]
      BY <1>3, <1>4, <1>5 DEF Grants
    <3>2. QED
      BY <3>1, TotalFacts
  <2>3. ASSUME NEW m \in S PROVE l[m] \in Nat /\ r[m] \in Nat /\ l[m] <= r[m]
    <3>1. m \in Minutes
      BY <2>1
    <3>2. l[m] = L[m] + Total(O[m], c) /\ r[m] = Total(G[m], c)
      BY <3>1
    <3>3. /\ L[m] = 0 /\ Total(O[m], c) <= Total(G[m], c)
          /\ Total(O[m], c) \in Nat /\ Total(G[m], c) \in Nat
      BY <1>6, <2>1, <2>2, <3>1
    <3> HIDE DEF l, r
    <3>4. QED
      BY <3>2, <3>3
  <2> HIDE DEF S, l, r
  <2>4. SumOver(l, S) <= SumOver(r, S)
    BY <2>1, <2>3, SumLess
  <2>5. QED
    BY <2>4 DEF S, l, r
<1>7. Covers(RequestsSent, O, G, Ones) /\ Covers(TokensSent, O, G, Estimate)
  BY <1>1, <1>3, <1>6, CallsTypes
<1>8. QED
  BY <1>1, <1>2, <1>5, <1>7 DEF CallsInv, CallsCovered

\* A sum of one field over the minutes is the sum of a function that gives that field.
LEMMA FieldSums ==
  ASSUME NEW S, NEW h
  PROVE  /\ (\A m \in S : h[m] = load[m].requests)
              => MapThenSumSet(LAMBDA m : load[m].requests, S) = SumOver(h, S)
         /\ (\A m \in S : h[m] = load[m].tokens)
              => MapThenSumSet(LAMBDA m : load[m].tokens, S) = SumOver(h, S)
         /\ (\A m \in S : h[m] = ledger[m][GlobalAccount].requestsReserved)
              => MapThenSumSet(LAMBDA m : ledger[m][GlobalAccount].requestsReserved, S)
                   = SumOver(h, S)
         /\ (\A m \in S : h[m] = ledger[m][GlobalAccount].reservedTokens)
              => MapThenSumSet(LAMBDA m : ledger[m][GlobalAccount].reservedTokens, S)
                   = SumOver(h, S)
<1>1. SumOver(h, S) = (CHOOSE F : Sums(F, h, S))[S]
  BY DEF SumOver, MapThenSumSet, MapThenFoldSet, Sums, Pick
<1>2. ASSUME \A m \in S : h[m] = load[m].requests
      PROVE  MapThenSumSet(LAMBDA m : load[m].requests, S) = SumOver(h, S)
  <2> DEFINE Step(F) == [s \in SUBSET S |->
                           IF s = {} THEN 0 ELSE load[Pick(s)].requests + F[s \ {Pick(s)}]]
  <2>1. ASSUME NEW F PROVE Sums(F, h, S) <=> F = Step(F)
    <3>1. \A s \in SUBSET S : s # {} => h[Pick(s)] = load[Pick(s)].requests
      BY <1>2 DEF Pick
    <3>2. QED
      BY <3>1 DEF Sums
  <2>2. MapThenSumSet(LAMBDA m : load[m].requests, S) = (CHOOSE F : F = Step(F))[S]
    BY DEF MapThenSumSet, MapThenFoldSet, Pick
  <2>3. (CHOOSE F : F = Step(F)) = (CHOOSE F : Sums(F, h, S))
    <3> HIDE DEF Step
    <3>1. QED
      BY <2>1
  <2>4. QED
    BY <1>1, <2>2, <2>3
<1>3. ASSUME \A m \in S : h[m] = load[m].tokens
      PROVE  MapThenSumSet(LAMBDA m : load[m].tokens, S) = SumOver(h, S)
  <2> DEFINE Step(F) == [s \in SUBSET S |->
                           IF s = {} THEN 0 ELSE load[Pick(s)].tokens + F[s \ {Pick(s)}]]
  <2>1. ASSUME NEW F PROVE Sums(F, h, S) <=> F = Step(F)
    <3>1. \A s \in SUBSET S : s # {} => h[Pick(s)] = load[Pick(s)].tokens
      BY <1>3 DEF Pick
    <3>2. QED
      BY <3>1 DEF Sums
  <2>2. MapThenSumSet(LAMBDA m : load[m].tokens, S) = (CHOOSE F : F = Step(F))[S]
    BY DEF MapThenSumSet, MapThenFoldSet, Pick
  <2>3. (CHOOSE F : F = Step(F)) = (CHOOSE F : Sums(F, h, S))
    <3> HIDE DEF Step
    <3>1. QED
      BY <2>1
  <2>4. QED
    BY <1>1, <2>2, <2>3
<1>4. ASSUME \A m \in S : h[m] = ledger[m][GlobalAccount].requestsReserved
      PROVE  MapThenSumSet(LAMBDA m : ledger[m][GlobalAccount].requestsReserved, S) = SumOver(h, S)
  <2> DEFINE Step(F) == [s \in SUBSET S |->
                           IF s = {} THEN 0 ELSE ledger[Pick(s)][GlobalAccount].requestsReserved + F[s \ {Pick(s)}]]
  <2>1. ASSUME NEW F PROVE Sums(F, h, S) <=> F = Step(F)
    <3>1. \A s \in SUBSET S : s # {} => h[Pick(s)] = ledger[Pick(s)][GlobalAccount].requestsReserved
      BY <1>4 DEF Pick
    <3>2. QED
      BY <3>1 DEF Sums
  <2>2. MapThenSumSet(LAMBDA m : ledger[m][GlobalAccount].requestsReserved, S) = (CHOOSE F : F = Step(F))[S]
    BY DEF MapThenSumSet, MapThenFoldSet, Pick
  <2>3. (CHOOSE F : F = Step(F)) = (CHOOSE F : Sums(F, h, S))
    <3> HIDE DEF Step
    <3>1. QED
      BY <2>1
  <2>4. QED
    BY <1>1, <2>2, <2>3
<1>5. ASSUME \A m \in S : h[m] = ledger[m][GlobalAccount].reservedTokens
      PROVE  MapThenSumSet(LAMBDA m : ledger[m][GlobalAccount].reservedTokens, S) = SumOver(h, S)
  <2> DEFINE Step(F) == [s \in SUBSET S |->
                           IF s = {} THEN 0 ELSE ledger[Pick(s)][GlobalAccount].reservedTokens + F[s \ {Pick(s)}]]
  <2>1. ASSUME NEW F PROVE Sums(F, h, S) <=> F = Step(F)
    <3>1. \A s \in SUBSET S : s # {} => h[Pick(s)] = ledger[Pick(s)][GlobalAccount].reservedTokens
      BY <1>5 DEF Pick
    <3>2. QED
      BY <3>1 DEF Sums
  <2>2. MapThenSumSet(LAMBDA m : ledger[m][GlobalAccount].reservedTokens, S) = (CHOOSE F : F = Step(F))[S]
    BY DEF MapThenSumSet, MapThenFoldSet, Pick
  <2>3. (CHOOSE F : F = Step(F)) = (CHOOSE F : Sums(F, h, S))
    <3> HIDE DEF Step
    <3>1. QED
      BY <2>1
  <2>4. QED
    BY <1>1, <2>2, <2>3
<1>6. QED
  BY <1>2, <1>3, <1>4, <1>5

\* What the platform is charged with for a minute, as a total of its grants.
LEMMA PlatformCharged ==
  ASSUME ChargeInv, TypeOK, NEW m \in Minutes
  PROVE  /\ m \in DOMAIN ledger =>
              /\ ledger[m][GlobalAccount].requestsReserved = Total(granted[m], Ones)
              /\ ledger[m][GlobalAccount].reservedTokens = Total(granted[m], Estimate)
         /\ m \notin DOMAIN ledger =>
              Total(granted[m], Ones) = 0 /\ Total(granted[m], Estimate) = 0
<1>1. /\ granted[m] \in [Jobs -> Nat] /\ IsFiniteSet(Jobs)
      /\ \A j \in Jobs : Estimate[j] \in Nat
  BY CallsTypes, TokenBudgetAssumption DEF Grants
<1>2. \A j \in Jobs : /\ granted[m][j] \in Nat
                      /\ Weighted(granted[m], Ones)[j] = granted[m][j]
  BY <1>1 DEF Weighted, Ones
<1>3. Weighted(granted[m], Estimate) = Tokens(granted[m])
  BY DEF Weighted, Tokens
<1>4. SumOver(Weighted(granted[m], Ones), Jobs) = SumOver(granted[m], Jobs)
  BY <1>1, <1>2, SumExt
<1>5. CASE m \in DOMAIN ledger
  <2>1. GlobalAccount \in Accounts /\ JobsOf(GlobalAccount) = Jobs
    BY DEF Accounts, JobsOf
  <2>2. Charged(ledger[m], granted[m])
    BY <1>5 DEF ChargeInv, LedgerCharged
  <2>3. QED
    BY <1>3, <1>4, <1>5, <2>1, <2>2 DEF Charged, Total
<1>6. CASE m \notin DOMAIN ledger
  <2>1. \A j \in Jobs : granted[m][j] = 0
    BY <1>6 DEF ChargeInv, LedgerCharged
  <2>2. \A j \in Jobs : Weighted(granted[m], Ones)[j] = 0 /\ Weighted(granted[m], Estimate)[j] = 0
    BY <1>1, <2>1 DEF Weighted, Ones
  <2>3. QED
    BY <1>1, <1>6, <2>2, SumZero DEF Total
<1>7. QED
  BY <1>5, <1>6

\* What is covered is no more than what the rows of the same minutes have charged.
LEMMA CoveredIsCharged ==
  ASSUME TypeOK, NEW c \in [Jobs -> Nat], NEW L \in [Minutes -> Nat], NEW n \in Minutes,
         NEW O \in Grants, NEW G \in Grants, Covers(L, O, G, c),
         \A m \in Minutes \ DOMAIN ledger : Total(G[m], c) = 0
  PROVE  SumOver(L, 0 .. n)
           <= SumOver([m \in Minutes |-> Total(G[m], c)], DOMAIN ledger \cap (0 .. n))
<1> DEFINE S == 0 .. n
           T == DOMAIN ledger \cap (0 .. n)
           l == [m \in Minutes |-> L[m] + Total(O[m], c)]
           r == [m \in Minutes |-> Total(G[m], c)]
<1>1. /\ IsFiniteSet(S) /\ S \subseteq Minutes
      /\ \A m \in Minutes : Total(O[m], c) \in Nat /\ Total(G[m], c) \in Nat
  BY CoversTypes
<1>2. ASSUME NEW m \in S PROVE L[m] \in Nat /\ l[m] \in Nat /\ L[m] <= l[m]
  <2>1. m \in Minutes
    BY <1>1
  <2>2. l[m] = L[m] + Total(O[m], c) /\ L[m] \in Nat /\ Total(O[m], c) \in Nat
    BY <1>1, <2>1
  <2> HIDE DEF l
  <2>3. QED
    BY <2>2
<1>3. \A m \in S : r[m] \in Nat
  BY <1>1
<1>4. T \in SUBSET S /\ \A m \in S \ T : r[m] = 0
  BY <1>1
<1>5. SumOver(l, S) <= SumOver(r, S)
  BY DEF Covers
<1> HIDE DEF S, T, l, r
<1>6. SumOver(L, S) <= SumOver(l, S)
  BY <1>1, <1>2, SumLess
<1>7. SumOver(r, S) = SumOver(r, T)
  BY <1>1, <1>3, <1>4, SumRestrict
<1>8. SumOver(L, S) \in Nat /\ SumOver(l, S) \in Nat /\ SumOver(r, S) \in Nat
  BY <1>1, <1>2, <1>3, SumParts
<1>9. SumOver(L, S) <= SumOver(r, T)
  BY <1>5, <1>6, <1>7, <1>8
<1>10. QED
  BY <1>9 DEF S, T, r

\* The invariant gives what the run checks.
LEMMA CallsSum == CallsInv => CallsReserved
<1> SUFFICES ASSUME CallsInv, NEW n \in Minutes
             PROVE  /\ MapThenSumSet(LAMBDA m : load[m].requests, 0 .. n)
                         <= MapThenSumSet(LAMBDA m : ledger[m][GlobalAccount].requestsReserved,
                                          DOMAIN ledger \cap (0 .. n))
                    /\ MapThenSumSet(LAMBDA m : load[m].tokens, 0 .. n)
                         <= MapThenSumSet(LAMBDA m : ledger[m][GlobalAccount].reservedTokens,
                                          DOMAIN ledger \cap (0 .. n))
  BY DEF CallsReserved
<1> DEFINE S == 0 .. n
           T == DOMAIN ledger \cap (0 .. n)
           q == [m \in Minutes |-> Total(granted[m], Ones)]
           r == [m \in Minutes |-> Total(granted[m], Estimate)]
<1>1. ChargeInv /\ TypeOK /\ CallsCovered
  BY DEF CallsInv, UsageInv, ChargeInv, LedgerInv
<1>2. S \subseteq Minutes
  BY CoversTypes, <1>1, CallsTypes
<1>3. /\ Owed \in Grants /\ granted \in Grants
      /\ RequestsSent \in [Minutes -> Nat] /\ TokensSent \in [Minutes -> Nat]
      /\ Ones \in [Jobs -> Nat] /\ Estimate \in [Jobs -> Nat]
  BY <1>1, CallsTypes
<1>4. SumOver(RequestsSent, S) <= SumOver(q, T) /\ SumOver(TokensSent, S) <= SumOver(r, T)
  <2>1. \A m \in Minutes \ DOMAIN ledger :
          Total(granted[m], Ones) = 0 /\ Total(granted[m], Estimate) = 0
    BY <1>1, PlatformCharged
  <2>2. /\ Covers(RequestsSent, Owed, granted, Ones)
        /\ Covers(TokensSent, Owed, granted, Estimate)
    BY <1>1 DEF CallsCovered
  <2>3. PICK O \in Grants, G \in Grants : O = Owed /\ G = granted
    BY <1>3
  <2>4. ASSUME NEW c \in [Jobs -> Nat], NEW L \in [Minutes -> Nat], Covers(L, O, G, c),
               \A m \in Minutes \ DOMAIN ledger : Total(G[m], c) = 0
        PROVE  SumOver(L, S) <= SumOver([m \in Minutes |-> Total(G[m], c)], T)
    BY <1>1, <2>4, CoveredIsCharged
  <2>5. QED
    BY <1>3, <2>1, <2>2, <2>3, <2>4
<1>5. /\ \A m \in S : RequestsSent[m] = load[m].requests
      /\ \A m \in S : TokensSent[m] = load[m].tokens
  BY <1>2 DEF RequestsSent, TokensSent
<1>6. /\ \A m \in T : q[m] = ledger[m][GlobalAccount].requestsReserved
      /\ \A m \in T : r[m] = ledger[m][GlobalAccount].reservedTokens
  BY <1>1, <1>2, PlatformCharged
<1> HIDE DEF S, T, q, r
<1>7. /\ MapThenSumSet(LAMBDA m : load[m].requests, S) = SumOver(RequestsSent, S)
      /\ MapThenSumSet(LAMBDA m : load[m].tokens, S) = SumOver(TokensSent, S)
  BY <1>5, FieldSums
<1>8. /\ MapThenSumSet(LAMBDA m : ledger[m][GlobalAccount].requestsReserved, T) = SumOver(q, T)
      /\ MapThenSumSet(LAMBDA m : ledger[m][GlobalAccount].reservedTokens, T) = SumOver(r, T)
  BY <1>6, FieldSums
<1>9. QED
  BY <1>4, <1>7, <1>8 DEF S, T

\* By the end of any minute the provider has been sent no more requests and no more tokens
\* than were reserved in that minute and the ones before it, however late the calls were
\* made, repeated or given up.
THEOREM CallsAreReserved == Spec => []CallsReserved
<1>1. CallsInv /\ [Next]_vars => CallsInv'
  BY CallsNext
<1>2. QED
  BY <1>1, CallsInit, CallsSum, PTL DEF Spec
===============================================================================

---------------------------- MODULE LocalData_proofs ----------------------------
(***************************************************************************)
(* The project without GCP, for any sales file, any rows of BigQuery and   *)
(* any length of the windows: the report scores what its names say, the    *)
(* panels of both dashboards speak of the same units, the API serves every *)
(* store that is seeded, the ETL makes a row of every line it can read, and*)
(* a strict pass of the doctor means data.                                 *)
(*                                                                         *)
(* Most of what is shown is a sum over a finite set.  The library has no   *)
(* facts about them: the first section derives them from the definition of *)
(* the fold, by induction over the subsets of a finite set, where what is  *)
(* shown of every subset is the set Good of those it holds of.             *)
(***************************************************************************)
EXTENDS LocalData, FiniteSetTheorems, SequenceTheorems, TLAPS

(* What holds of a subset of a finite set as soon as it holds of all       *)
(* smaller ones holds of all.                                              *)
LEMMA SubsetInduction ==
  ASSUME NEW S, IsFiniteSet(S), NEW Good \in SUBSET (SUBSET S),
         \A B \in SUBSET S : (\A C \in SUBSET B : C # B => C \in Good) => B \in Good
  PROVE  Good = SUBSET S
<1> DEFINE Bad == (SUBSET S) \ Good
<1> SUFFICES ASSUME Bad # {} PROVE FALSE
  OBVIOUS
<1>1. Bad \subseteq FiniteSubsetsOf(S)
  BY FS_Subset DEF FiniteSubsetsOf
<1>2. PICK B \in Bad : \A C \in Bad : <<C, B>> \notin StrictSubsetOrdering(S)
  <2> HIDE DEF Bad
  <2> QED BY <1>1, FS_StrictSubsetOrderingWellFounded, WFMin
<1> QED BY <1>2 DEF StrictSubsetOrdering

(* What holds of the empty set and survives one more element holds of a    *)
(* finite set.                                                             *)
LEMMA ElementInduction ==
  ASSUME NEW S, IsFiniteSet(S), NEW Good \in SUBSET (SUBSET S), {} \in Good,
         \A B \in Good : \A x \in S \ B : B \cup {x} \in Good
  PROVE  S \in Good
<1>1. ASSUME NEW B \in SUBSET S, \A C \in SUBSET B : C # B => C \in Good
      PROVE  B \in Good
  <2>1. CASE B = {}
    BY <2>1
  <2>2. ASSUME NEW x \in B PROVE B \in Good
    <3>1. B \ {x} \in Good
      BY <1>1
    <3>2. (B \ {x}) \cup {x} = B
      OBVIOUS
    <3>3. (B \ {x}) \cup {x} \in Good
      BY <3>1
    <3> QED BY <3>2, <3>3
  <2> QED BY <2>1, <2>2
<1> QED BY <1>1, SubsetInduction

-----------------------------------------------------------------------------
(* Sums over finite sets: SumOver is the sum the models are written with. *)
SumOver(f, S) == SumFunctionOnSet(f, S)

(* The order in which the fold takes elements, and the table of the sums   *)
(* over all subsets of S, as the fold builds it.                           *)
Pick(s) == CHOOSE x \in s : TRUE
Adds(f, S, g) == g = [s \in SUBSET S |-> IF s = {} THEN 0 ELSE f[Pick(s)] + g[s \ {Pick(s)}]]

(* Two tables of sums agree where both have an entry. *)
LEMMA AddsUnique ==
  ASSUME NEW f, NEW S, IsFiniteSet(S), NEW R, R \subseteq S,
         NEW g, Adds(f, S, g), NEW h, Adds(f, R, h)
  PROVE  \A s \in SUBSET R : g[s] = h[s]
<1> DEFINE Good == {s \in SUBSET R : g[s] = h[s]}
<1>1. ASSUME NEW B \in SUBSET R, \A C \in SUBSET B : C # B => C \in Good
      PROVE  g[B] = h[B]
  <2>1. CASE B = {}
    BY <2>1 DEF Adds
  <2>2. CASE B # {}
    <3>1. B \ {Pick(B)} \in Good
      BY <1>1, <2>2 DEF Pick
    <3> QED BY <2>2, <3>1 DEF Adds
  <2> QED BY <2>1, <2>2
<1>2. Good = SUBSET R
  <2>1. /\ IsFiniteSet(R)
        /\ Good \in SUBSET (SUBSET R)
        /\ \A B \in SUBSET R : (\A C \in SUBSET B : C # B => C \in Good) => B \in Good
    BY <1>1, FS_Subset
  <2> HIDE DEF Good
  <2> QED BY <2>1, SubsetInduction
<1> QED BY <1>2

(* There is a table of sums for every finite set. *)
LEMMA AddsExists ==
  ASSUME NEW f, NEW S, IsFiniteSet(S)
  PROVE  \E g : Adds(f, S, g)
<1> DEFINE Good == {R \in SUBSET S : \E g : Adds(f, R, g)}
<1>1. ASSUME NEW B \in SUBSET S, \A C \in SUBSET B : C # B => C \in Good
      PROVE  \E g : Adds(f, B, g)
  <2> DEFINE Rest(s) == s \ {Pick(s)}
             Of(C) == CHOOSE g : Adds(f, C, g)
             G == [s \in SUBSET B |-> IF s = {} THEN 0 ELSE f[Pick(s)] + Of(Rest(s))[Rest(s)]]
  <2>1. \A C \in SUBSET B : C # B => Adds(f, C, Of(C))
    BY <1>1
  <2>2. ASSUME NEW s \in SUBSET B, s # {}
        PROVE  G[Rest(s)] = Of(Rest(s))[Rest(s)]
    <3> DEFINE C == Rest(s)
    <3>1. C \in SUBSET B /\ C # B
      BY <2>2 DEF Pick
    <3>2. Adds(f, C, Of(C))
      BY <2>1, <3>1
    <3>3. CASE C = {}
      <4>1. Of(C)[C] = 0
        BY <3>2, <3>3 DEF Adds
      <4> QED BY <4>1, <3>3, <3>1
    <3>4. CASE C # {}
      <4> DEFINE D == Rest(C)
      <4>1. Of(C)[C] = f[Pick(C)] + Of(C)[D]
        BY <3>2, <3>4 DEF Adds
      <4>2. D \in SUBSET B /\ D # B /\ D \subseteq C
        BY <3>1, <3>4 DEF Pick
      <4>3. Adds(f, D, Of(D)) /\ IsFiniteSet(C)
        BY <2>1, <4>2, <3>1, FS_Subset
      <4>4. Of(C)[D] = Of(D)[D]
        <5> HIDE DEF D, C, Of
        <5> QED BY <3>2, <4>2, <4>3, AddsUnique
      <4> QED BY <3>1, <3>4, <4>1, <4>4
    <3> QED BY <3>3, <3>4
  <2>3. \A s \in SUBSET B : G[s] = IF s = {} THEN 0 ELSE f[Pick(s)] + G[Rest(s)]
    <3> TAKE s \in SUBSET B
    <3>1. G[s] = IF s = {} THEN 0 ELSE f[Pick(s)] + Of(Rest(s))[Rest(s)]
      OBVIOUS
    <3> HIDE DEF G, Rest, Of
    <3> QED BY <2>2, <3>1
  <2>4. DOMAIN G = SUBSET B /\ G = [s \in SUBSET B |-> G[s]]
    OBVIOUS
  <2> HIDE DEF G
  <2> QED BY <2>3, <2>4 DEF Adds
<1>2. S \in Good
  <2>1. /\ Good \in SUBSET (SUBSET S)
        /\ \A B \in SUBSET S : (\A C \in SUBSET B : C # B => C \in Good) => B \in Good
    BY <1>1
  <2> HIDE DEF Good
  <2> QED BY <2>1, SubsetInduction
<1> QED BY <1>2

(* The sum over a finite set is what its fold says: one term, and the sum  *)
(* over the rest.                                                          *)
LEMMA SumRec ==
  ASSUME NEW f, NEW S, IsFiniteSet(S)
  PROVE  SumOver(f, S) =
           IF S = {} THEN 0 ELSE f[Pick(S)] + SumOver(f, S \ {Pick(S)})
<1> DEFINE Of(C) == CHOOSE g : Adds(f, C, g)
           R == S \ {Pick(S)}
<1>1. \A C : SumOver(f, C) = Of(C)[C]
  BY DEF SumOver, SumFunctionOnSet, FoldFunctionOnSet, MapThenFoldSet, Adds, Pick
<1>2. Adds(f, S, Of(S))
  BY AddsExists
<1>3. IsFiniteSet(R)
  BY FS_Subset
<1>4. Adds(f, R, Of(R))
  BY <1>3, AddsExists
<1>5. Of(S)[R] = Of(R)[R]
  <2> HIDE DEF Of
  <2> QED BY <1>2, <1>4, AddsUnique
<1>6. Of(S)[S] = IF S = {} THEN 0 ELSE f[Pick(S)] + Of(S)[R]
  <2> HIDE DEF Of
  <2> QED BY <1>2 DEF Adds
<1> HIDE DEF Of
<1> QED BY <1>1, <1>5, <1>6

(* Nothing adds up to 0. *)
LEMMA SumEmpty == \A f : SumOver(f, {}) = 0
  BY SumRec, FS_EmptySet

(* Equal terms have equal sums. *)
LEMMA SumEqual ==
  ASSUME NEW S, IsFiniteSet(S), NEW f, NEW g, \A x \in S : f[x] = g[x]
  PROVE  SumOver(f, S) = SumOver(g, S)
<1> DEFINE Good == {R \in SUBSET S : SumOver(f, R) = SumOver(g, R)}
<1>1. ASSUME NEW B \in SUBSET S, \A C \in SUBSET B : C # B => C \in Good
      PROVE  B \in Good
  <2>1. IsFiniteSet(B)
    BY FS_Subset
  <2>2. CASE B = {}
    BY <2>2, SumEmpty
  <2>3. CASE B # {}
    <3>1. Pick(B) \in B
      BY <2>3 DEF Pick
    <3>2. B \ {Pick(B)} \in Good
      BY <1>1, <3>1
    <3> QED BY <2>1, <2>3, <3>1, <3>2, SumRec
  <2> QED BY <2>2, <2>3
<1> HIDE DEF Good
<1>2. S \in Good
  <2>1. Good \in SUBSET (SUBSET S)
    BY DEF Good
  <2> QED BY <2>1, <1>1, SubsetInduction
<1> QED BY <1>2 DEF Good

(* A sum of integers is one, and none is negative if no term is. *)
LEMMA SumType ==
  ASSUME NEW S, IsFiniteSet(S), NEW f, \A x \in S : f[x] \in Int
  PROVE  /\ SumOver(f, S) \in Int
         /\ (\A x \in S : f[x] >= 0) => SumOver(f, S) >= 0
<1> DEFINE Good == {R \in SUBSET S :
                      /\ SumOver(f, R) \in Int
                      /\ (\A x \in R : f[x] >= 0) => SumOver(f, R) >= 0}
<1>1. ASSUME NEW B \in SUBSET S, \A C \in SUBSET B : C # B => C \in Good
      PROVE  B \in Good
  <2>1. IsFiniteSet(B)
    BY FS_Subset
  <2>2. CASE B = {}
    BY <2>2, SumEmpty
  <2>3. CASE B # {}
    <3>1. Pick(B) \in B
      BY <2>3 DEF Pick
    <3>2. B \ {Pick(B)} \in Good
      BY <1>1, <3>1
    <3> QED BY <2>1, <2>3, <3>1, <3>2, SumRec
  <2> QED BY <2>2, <2>3
<1> HIDE DEF Good
<1>2. S \in Good
  <2>1. Good \in SUBSET (SUBSET S)
    BY DEF Good
  <2> QED BY <2>1, <1>1, SubsetInduction
<1> QED BY <1>2 DEF Good

(* Any element may be taken first. *)
LEMMA SumTake ==
  ASSUME NEW S, IsFiniteSet(S), NEW f, \A x \in S : f[x] \in Int, NEW x \in S
  PROVE  SumOver(f, S) = f[x] + SumOver(f, S \ {x})
<1> DEFINE Good == {R \in SUBSET S : \A y \in R :
                      SumOver(f, R) = f[y] + SumOver(f, R \ {y})}
<1>1. ASSUME NEW B \in SUBSET S, \A C \in SUBSET B : C # B => C \in Good
      PROVE  B \in Good
  <2> SUFFICES ASSUME NEW y \in B
               PROVE  SumOver(f, B) = f[y] + SumOver(f, B \ {y})
    OBVIOUS
  <2> DEFINE p == Pick(B)
             D == B \ {p, y}
  <2>1. IsFiniteSet(B) /\ IsFiniteSet(B \ {y}) /\ IsFiniteSet(B \ {p}) /\ IsFiniteSet(D)
    BY FS_Subset
  <2>2. p \in B
    BY DEF Pick
  <2>3. SumOver(f, B) = f[p] + SumOver(f, B \ {p})
    BY <2>1, <2>2, SumRec
  <2>4. CASE p = y
    BY <2>3, <2>4
  <2>5. CASE p # y
    <3>1. B \ {p} \in Good /\ B \ {y} \in Good
      BY <1>1, <2>2
    <3>2. (B \ {p}) \ {y} = D /\ (B \ {y}) \ {p} = D /\ y \in B \ {p} /\ p \in B \ {y}
      BY <2>2, <2>5
    <3>3. /\ SumOver(f, B \ {p}) = f[y] + SumOver(f, D)
          /\ SumOver(f, B \ {y}) = f[p] + SumOver(f, D)
      BY <3>1, <3>2
    <3>4. SumOver(f, D) \in Int
      BY <2>1, SumType
    <3> HIDE DEF p, D
    <3> QED BY <2>2, <2>3, <3>3, <3>4
  <2> QED BY <2>4, <2>5
<1> HIDE DEF Good
<1>2. S \in Good
  <2>1. Good \in SUBSET (SUBSET S)
    BY DEF Good
  <2> QED BY <2>1, <1>1, SubsetInduction
<1> QED BY <1>2 DEF Good

(* The sum over two sets without a common element is the sum of their      *)
(* sums.                                                                   *)
LEMMA SumUnion ==
  ASSUME NEW S, IsFiniteSet(S), NEW f, \A x \in S : f[x] \in Int,
         NEW A \in SUBSET S, NEW B \in SUBSET S, A \cap B = {}
  PROVE  SumOver(f, A \cup B) = SumOver(f, A) + SumOver(f, B)
<1> DEFINE Good == {C \in SUBSET B : SumOver(f, A \cup C)
                                       = SumOver(f, A) + SumOver(f, C)}
<1> IsFiniteSet(A) /\ IsFiniteSet(B)
  BY FS_Subset
<1>1. {} \in Good
  <2>1. A \cup {} = A
    OBVIOUS
  <2> QED BY <2>1, SumEmpty, SumType
<1>2. ASSUME NEW C \in Good, NEW x \in B \ C
      PROVE  C \cup {x} \in Good
  <2> DEFINE D == C \cup {x}
  <2>1. /\ IsFiniteSet(C) /\ IsFiniteSet(D) /\ IsFiniteSet(A \cup D)
        /\ D \ {x} = C /\ (A \cup D) \ {x} = A \cup C /\ x \in D
    BY FS_Subset
  <2>2. SumOver(f, D) = f[x] + SumOver(f, C)
    BY <2>1, SumTake
  <2>3. SumOver(f, A \cup D) = f[x] + SumOver(f, A \cup C)
    BY <2>1, SumTake
  <2>4. SumOver(f, A) \in Int /\ SumOver(f, C) \in Int
    BY <2>1, SumType
  <2> QED BY <2>2, <2>3, <2>4
<1> HIDE DEF Good
<1>3. B \in Good
  <2>1. Good \in SUBSET (SUBSET B)
    BY DEF Good
  <2> QED BY <2>1, <1>1, <1>2, ElementInduction
<1> QED BY <1>3 DEF Good

(* The sum over disjoint sets is the sum of their sums. *)
LEMMA SumOfParts ==
  ASSUME NEW S, IsFiniteSet(S), NEW f, \A x \in S : f[x] \in Int,
         NEW P, IsFiniteSet(P), NEW part \in [P -> SUBSET S],
         \A p, q \in P : p # q => part[p] \cap part[q] = {},
         NEW total, \A p \in P : total[p] = SumOver(f, part[p])
  PROVE  SumOver(total, P) = SumOver(f, UNION {part[p] : p \in P})
<1> DEFINE Of(Q) == UNION {part[p] : p \in Q}
           Good == {Q \in SUBSET P : SumOver(total, Q) = SumOver(f, Of(Q))}
<1>1. {} \in Good
  <2>1. Of({}) = {}
    OBVIOUS
  <2> QED BY <2>1, SumEmpty
<1>2. ASSUME NEW Q \in Good, NEW p \in P \ Q
      PROVE  Q \cup {p} \in Good
  <2> DEFINE R == Q \cup {p}
             A == part[p]
             B == Of(Q)
  <2>1. Of(R) = A \cup B /\ A \cap B = {} /\ A \in SUBSET S /\ B \in SUBSET S
    OBVIOUS
  <2>2. SumOver(f, Of(R)) = SumOver(f, A) + SumOver(f, B)
    <3> HIDE DEF Of, A, B, R
    <3> QED BY <2>1, SumUnion
  <2>3. \A q \in P : total[q] \in Int
    <3> TAKE q \in P
    <3>1. IsFiniteSet(part[q]) /\ \A x \in part[q] : f[x] \in Int
      BY FS_Subset
    <3>2. SumOver(f, part[q]) \in Int
      BY <3>1, SumType
    <3> QED BY <3>2
  <2>4. /\ IsFiniteSet(R) /\ R \ {p} = Q /\ \A q \in R : total[q] \in Int
    BY <2>3, FS_Subset
  <2>5. SumOver(total, R) = total[p] + SumOver(total, Q)
    BY <2>4, SumTake
  <2>6. SumOver(total, Q) = SumOver(f, Of(Q))
    OBVIOUS
  <2> HIDE DEF Of
  <2> QED BY <2>2, <2>5, <2>6
<1>3. P \in Good
  <2>1. Good \in SUBSET (SUBSET P)
    OBVIOUS
  <2> HIDE DEF Good
  <2> QED BY <2>1, <1>1, <1>2, ElementInduction
<1> QED BY <1>3

(* The sum of one term is this term. *)
LEMMA SumSingle ==
  ASSUME NEW x, NEW f, f[x] \in Int
  PROVE  SumOver(f, {x}) = f[x]
<1>1. IsFiniteSet({x}) /\ {x} \ {x} = {}
  BY FS_Singleton
<1>2. SumOver(f, {x}) = f[x] + SumOver(f, {x} \ {x})
  BY <1>1, SumTake
<1> QED BY <1>1, <1>2, SumEmpty

(* What a finite set is mapped onto is finite. *)
LEMMA FiniteImage ==
  ASSUME NEW S, IsFiniteSet(S), NEW R, NEW h \in [S -> R], \A y \in R : \E x \in S : h[x] = y
  PROVE  IsFiniteSet(R)
<1>1. h \in Surjection(S, R)
  BY DEF Surjection
<1> QED BY <1>1, FS_Surjection

(* part gives every entry of the panel R a part of S that is not empty;    *)
(* each element of S is in exactly one.                                    *)
Partition(part, R, S) ==
  /\ part \in [R -> SUBSET S]
  /\ \A x \in S : \E y \in R : x \in part[y]
  /\ \A y, z \in R : y # z => part[y] \cap part[z] = {}
  /\ \A y \in R : part[y] # {}

(* A panel that has one entry, with its sum, for each part of a set has    *)
(* the sum of the set.                                                     *)
LEMMA SumOfPartition ==
  ASSUME NEW S, IsFiniteSet(S), NEW f, \A x \in S : f[x] \in Int,
         NEW R, NEW part, Partition(part, R, S),
         NEW total, \A y \in R : total[y] = SumOver(f, part[y])
  PROVE  IsFiniteSet(R) /\ SumOver(total, R) = SumOver(f, S)
<1> DEFINE h == [x \in S |-> CHOOSE y \in R : x \in part[y]]
<1>1. h \in [S -> R] /\ \A y \in R : \E x \in S : h[x] = y
  <2>1. \A x \in S : h[x] \in R /\ x \in part[h[x]]
    BY DEF Partition
  <2>2. h \in [S -> R]
    BY <2>1
  <2> HIDE DEF h
  <2> QED BY <2>1, <2>2 DEF Partition
<1>2. IsFiniteSet(R)
  <2> HIDE DEF h
  <2> QED BY <1>1, FiniteImage
<1>3. UNION {part[y] : y \in R} = S
  BY DEF Partition
<1>4. /\ part \in [R -> SUBSET S]
      /\ \A y, z \in R : y # z => part[y] \cap part[z] = {}
  BY DEF Partition
<1> QED BY <1>2, <1>3, <1>4, SumOfParts

(* A finite set of integers has its maximum. *)
LEMMA MaxOf ==
  ASSUME NEW S, IsFiniteSet(S), S \subseteq Int, S # {}
  PROVE  Max(S) \in S /\ \A y \in S : y <= Max(S)
<1> DEFINE Good == {R \in SUBSET S : R # {} => \E x \in R : \A y \in R : x >= y}
<1>1. {} \in Good
  OBVIOUS
<1>2. ASSUME NEW R \in Good, NEW z \in S \ R
      PROVE  R \cup {z} \in Good
  <2>1. CASE R = {}
    BY <2>1
  <2>2. ASSUME NEW x \in R, \A y \in R : x >= y
        PROVE  R \cup {z} \in Good
    <3>1. CASE x >= z
      BY <2>2, <3>1
    <3>2. CASE ~(x >= z)
      <4>1. \A y \in R \cup {z} : z >= y
        BY <2>2, <3>2
      <4> QED BY <4>1
    <3> QED BY <3>1, <3>2
  <2> QED BY <2>1, <2>2
<1>3. S \in Good
  <2>1. Good \in SUBSET (SUBSET S)
    OBVIOUS
  <2> HIDE DEF Good
  <2> QED BY <2>1, <1>1, <1>2, ElementInduction
<1>4. \E x \in S : \A y \in S : x >= y
  BY <1>3
<1> QED BY <1>4 DEF Max

(* A finite set of numbers has a least one.                                *)
LEMMA LeastOf ==
  ASSUME NEW S, IsFiniteSet(S), S \subseteq Int, S # {}
  PROVE  \E h \in S : \A k \in S : h <= k
<1> DEFINE marks == {0 - h : h \in S}
           mark == [h \in S |-> 0 - h]
<1>1. mark \in [S -> marks] /\ \A y \in marks : \E k \in S : mark[k] = y
  OBVIOUS
<1>2. \A k \in S : 0 - k \in marks /\ k \in Int
  OBVIOUS
<1>3. \A y \in marks : \E k \in S : y = 0 - k
  OBVIOUS
<1> HIDE DEF marks, mark
<1>4. marks \subseteq Int /\ marks # {}
  <2>1. ASSUME NEW y \in marks PROVE y \in Int
    <3>1. PICK k \in S : y = 0 - k
      BY <1>3
    <3> QED BY <3>1
  <2>2. PICK k \in S : TRUE
    OBVIOUS
  <2> QED BY <1>2, <2>1, <2>2
<1>5. IsFiniteSet(marks)
  BY <1>1, FiniteImage
<1>6. Max(marks) \in marks /\ \A y \in marks : y <= Max(marks)
  BY <1>4, <1>5, MaxOf
<1> QED BY <1>2, <1>3, <1>6

(* SumFunction is the sum over the domain. *)
LEMMA SumFunctionIsSum == \A f : SumFunction(f) = SumOver(f, DOMAIN f)
  BY DEF SumFunction, SumOver

-----------------------------------------------------------------------------
(* The arithmetic of the two forecasting scripts. *)
Fractions == Nat \X Nat

(* A product is 0 only if a factor is. *)
LEMMA ProductOfNats ==
  \A a, b \in Nat : a * b \in Nat /\ (a * b = 0 <=> a = 0 \/ b = 0)
  OBVIOUS

(* Arithmetic on fractions: a product is NaN if a factor is, a quotient    *)
(* also if it divides by 0, and clipping changes neither.                  *)
LEMMA FractionArithmetic ==
  ASSUME NEW x \in Fractions, NEW y \in Fractions
  PROVE  /\ Times(x, y) \in Fractions /\ (Nan(Times(x, y)) <=> Nan(x) \/ Nan(y))
         /\ Over(x, y) \in Fractions /\ (Nan(Over(x, y)) <=> Nan(x) \/ y[1] = 0)
         /\ Clip(x) \in Fractions /\ (Nan(Clip(x)) <=> Nan(x))
         /\ Nan(x) => Clip(x) = x
<1>1. x[1] \in Nat /\ x[2] \in Nat /\ y[1] \in Nat /\ y[2] \in Nat
  BY DEF Fractions
<1>2. Times(x, y) \in Fractions /\ (Nan(Times(x, y)) <=> Nan(x) \/ Nan(y))
  BY <1>1, ProductOfNats DEF Times, Nan, Fractions
<1>3. Over(x, y) \in Fractions /\ (Nan(Over(x, y)) <=> Nan(x) \/ y[1] = 0)
  BY <1>1, ProductOfNats DEF Over, Nan, Fractions
<1>4. Clip(x) \in {x, <<7, 10>>, <<13, 10>>} /\ (Nan(x) => Clip(x) = x)
  BY DEF Clip
<1>5. <<7, 10>> \in Fractions /\ <<13, 10>> \in Fractions /\ ~Nan(<<7, 10>>) /\ ~Nan(<<13, 10>>)
  BY DEF Fractions, Nan
<1>6. ~Nan(x) => ~Nan(Clip(x))
  BY <1>4, <1>5
<1>7. Clip(x) \in Fractions /\ (Nan(Clip(x)) <=> Nan(x))
  BY <1>4, <1>5, <1>6
<1> QED BY <1>2, <1>3, <1>4, <1>7

(* A fraction that is a number is rounded to a whole number of tenths, and *)
(* 0 to 0.                                                                 *)
LEMMA TenthsType ==
  ASSUME NEW x \in Fractions, ~Nan(x)
  PROVE  Tenths(x) \in Int /\ (x[1] = 0 => Tenths(x) = 0)
<1>1. x[1] \in Nat /\ x[2] \in Nat /\ x[2] > 0
  BY DEF Fractions, Nan
<1>2. \A c \in Nat : c > 0 => c \div (2 * c) = 0
  OBVIOUS
<1> QED BY <1>1, <1>2 DEF Tenths

(* The mean of some rows is a number, and the mean of none is NaN. *)
LEMMA MeanType ==
  ASSUME NEW file, SalesFile(file), NEW rows \in SUBSET file
  PROVE  /\ Mean(rows) \in Fractions
         /\ Nan(Mean(rows)) <=> rows = {}
         /\ rows = {} => Mean(rows)[1] = 0
<1> DEFINE f == [r \in rows |-> r.sales]
<1>1. IsFiniteSet(rows) /\ \A r \in rows : f[r] \in Nat
  BY FS_Subset DEF SalesFile
<1>2. Mean(rows) = <<SumOver(f, rows), Cardinality(rows)>>
  BY SumFunctionIsSum DEF Mean
<1>3. SumOver(f, rows) \in Nat
  <2> HIDE DEF f
  <2> QED BY <1>1, SumType
<1>4. Cardinality(rows) \in Nat /\ (Cardinality(rows) = 0 <=> rows = {})
  BY <1>1, FS_CardinalityType, FS_EmptySet
<1>5. rows = {} => SumOver(f, rows) = 0
  <2> HIDE DEF f
  <2> QED BY SumEmpty
<1> HIDE DEF f
<1> QED BY <1>2, <1>3, <1>4, <1>5 DEF Fractions, Nan

(* The last day of some rows is the day of one of them, and none is later. *)
LEMMA LastDayOf ==
  ASSUME NEW file, SalesFile(file), NEW rows \in SUBSET file, rows # {}
  PROVE  /\ LastDay(rows) \in Int
         /\ \E r \in rows : r.day = LastDay(rows)
         /\ \A r \in rows : r.day <= LastDay(rows)
<1> DEFINE days == {r.day : r \in rows}
<1>1. IsFiniteSet(rows) /\ days \subseteq Int /\ days # {}
  BY FS_Subset DEF SalesFile
<1>2. IsFiniteSet(days)
  <2>1. /\ [r \in rows |-> r.day] \in [rows -> days]
        /\ \A d \in days : \E r \in rows : [q \in rows |-> q.day][r] = d
    OBVIOUS
  <2> HIDE DEF days
  <2> QED BY <1>1, <2>1, FiniteImage
<1>3. Max(days) \in days /\ \A d \in days : d <= Max(days)
  <2> HIDE DEF days
  <2> QED BY <1>1, <1>2, MaxOf
<1> QED BY <1>1, <1>3 DEF LastDay

(* The level the seed starts from is a number, whatever the file has. *)
LEMMA SeedLevelType ==
  ASSUME NEW file, SalesFile(file), NEW rows \in SUBSET file, NEW s, NEW d
  PROVE  SeedLevel(rows, s, d) \in Fractions /\ ~Nan(SeedLevel(rows, s, d))
<1> DEFINE recent == SeedRecent(rows, s)
           alike == {r \in recent : Weekday(r.day) = Weekday(d)}
<1>1. recent \in SUBSET file /\ alike \in SUBSET file
  BY DEF SeedRecent, Between, OfStore
<1>2. /\ Mean(recent) \in Fractions /\ (recent # {} => ~Nan(Mean(recent)))
      /\ Mean(alike) \in Fractions /\ (alike # {} => ~Nan(Mean(alike)))
  <2> HIDE DEF recent, alike
  <2> QED BY <1>1, MeanType
<1>3. <<0, 1>> \in Fractions /\ ~Nan(<<0, 1>>)
  BY DEF Fractions, Nan
<1>4. \/ alike # {} /\ SeedLevel(rows, s, d) = Mean(alike)
      \/ recent # {} /\ SeedLevel(rows, s, d) = Mean(recent)
      \/ SeedLevel(rows, s, d) = <<0, 1>>
  BY DEF SeedLevel
<1> HIDE DEF recent, alike
<1> QED BY <1>2, <1>3, <1>4

(* The seed's trend is a number: where the older window is empty or zero,  *)
(* it is 1.                                                                *)
LEMMA SeedTrendType ==
  ASSUME NEW file, SalesFile(file), NEW rows \in SUBSET file, NEW s
  PROVE  SeedTrend(rows, s) \in Fractions /\ ~Nan(SeedTrend(rows, s))
<1> DEFINE q == Clip(Over(Mean(SeedRecent(rows, s)), Mean(SeedOlder(rows, s))))
<1>1. SeedRecent(rows, s) \in SUBSET file /\ SeedOlder(rows, s) \in SUBSET file
  BY DEF SeedRecent, SeedOlder, Between, OfStore
<1>2. q \in Fractions
  <2>1. Mean(SeedRecent(rows, s)) \in Fractions /\ Mean(SeedOlder(rows, s)) \in Fractions
    BY <1>1, MeanType
  <2> QED BY <2>1, FractionArithmetic
<1>3. <<1, 1>> \in Fractions /\ ~Nan(<<1, 1>>)
  BY DEF Fractions, Nan
<1>4. SeedTrend(rows, s) = IF Nan(q) THEN <<1, 1>> ELSE q
  BY DEF SeedTrend
<1> HIDE DEF q
<1> QED BY <1>2, <1>3, <1>4

(* The seed makes a whole number of tenths for every store and day. *)
LEMMA SeedUnitsType ==
  ASSUME NEW file, SalesFile(file), NEW rows \in SUBSET file, NEW s, NEW d
  PROVE  SeedUnits(rows, s, d) \in Int
<1> DEFINE x == SeedLevel(rows, s, d)
           y == SeedTrend(rows, s)
<1>1. x \in Fractions /\ ~Nan(x) /\ y \in Fractions /\ ~Nan(y)
  BY SeedLevelType, SeedTrendType
<1>2. SeedUnits(rows, s, d) = Tenths(Times(x, y))
  BY DEF SeedUnits
<1> HIDE DEF x, y
<1>3. Times(x, y) \in Fractions /\ ~Nan(Times(x, y))
  BY <1>1, FractionArithmetic
<1> QED BY <1>2, <1>3, TenthsType

(* What the seed writes is a table: one row for each store and day, and    *)
(* finitely many.                                                          *)
LEMMA SeedMakesTable ==
  ASSUME NEW file, SalesFile(file), NEW n, SeedRows(file, n) # {}
  PROVE  IsTable(BuildForecasts(file, n))
<1> DEFINE rows == SeedRows(file, n)
           stores == StoresOf(rows)
           last == LastDay(rows)
           row(s, d) == [product |-> s, day |-> d, units |-> SeedUnits(rows, s, d),
                         lower |-> Max({SeedUnits(rows, s, d) - SeedHalf(rows, s, d), 0}),
                         upper |-> SeedUnits(rows, s, d) + SeedHalf(rows, s, d), copy |-> 1]
           T == {row(s, last + i) : s \in stores, i \in 1..Horizon}
           At == stores \X (1..Horizon)
<1>1. BuildForecasts(file, n) = T
  BY DEF BuildForecasts
<1>2. rows \in SUBSET file /\ IsFiniteSet(rows) /\ rows # {}
  BY FS_Subset DEF SeedRows, OpenOnes, SalesFile
<1>3. last \in Int
  <2> HIDE DEF rows
  <2> QED BY <1>2, LastDayOf
<1>4. stores \subseteq Int /\ IsFiniteSet(stores)
  <2>1. stores \subseteq Int
    BY <1>2 DEF StoresOf, SalesFile
  <2>2. /\ [r \in rows |-> r.store] \in [rows -> stores]
        /\ \A s \in stores : \E r \in rows : [q \in rows |-> q.store][r] = s
    BY DEF StoresOf
  <2> HIDE DEF rows, stores
  <2> QED BY <1>2, <2>1, <2>2, FiniteImage
<1>5. \A s, d : SeedUnits(rows, s, d) \in Int
  <2> HIDE DEF rows
  <2> QED BY <1>2, SeedUnitsType
<1> HIDE DEF rows, last, stores
<1>6. IsFiniteSet(T)
  <2>1. IsFiniteSet(At)
    <3>1. IsFiniteSet(1..Horizon)
      BY WindowAssumption, FS_Interval
    <3> QED BY <1>4, <3>1, FS_Product
  <2> DEFINE h == [x \in At |-> row(x[1], last + x[2])]
  <2>2. h \in [At -> T]
    <3> HIDE DEF row
    <3> QED OBVIOUS
  <2>3. \A y \in T : \E x \in At : h[x] = y
    <3> HIDE DEF row
    <3> TAKE y \in T
    <3>1. PICK s \in stores, i \in 1..Horizon : y = row(s, last + i)
      OBVIOUS
    <3>2. <<s, i>> \in At /\ h[<<s, i>>] = y
      BY <3>1
    <3> QED BY <3>2
  <2> HIDE DEF h, T, At
  <2> QED BY <2>1, <2>2, <2>3, FiniteImage
<1>7. \A s, d : /\ row(s, d).product = s /\ row(s, d).day = d /\ row(s, d).copy = 1
                /\ row(s, d).units = SeedUnits(rows, s, d)
  OBVIOUS
<1>8. ASSUME NEW r \in T
      PROVE  \E s \in stores, i \in 1..Horizon : r = row(s, last + i)
  OBVIOUS
<1> HIDE DEF row, T
<1>9. \A r \in T : r.product \in Int /\ r.day \in Int /\ r.copy \in Int /\ r.units \in Int
  <2>1. 1 \in Int /\ \A i \in 1..Horizon : last + i \in Int
    BY <1>3
  <2> QED BY <2>1, <1>4, <1>5, <1>7, <1>8
<1>10. \A r, q \in T : r.product = q.product /\ r.day = q.day /\ r.copy = q.copy => r = q
  BY <1>7, <1>8
<1> QED BY <1>1, <1>6, <1>9, <1>10 DEF IsTable

-----------------------------------------------------------------------------
(* The inductive invariant, and what the doctor makes of it. *)

(* What is on disk and in the database, whatever was run in which order. *)
DataHolds ==
  /\ SalesFile(train) /\ exports \in Seq(Seq(SalesLine))
  /\ IsTable(bq) /\ IsTable(forecasts)
  /\ report \in {{}, CompareBaselines(train)}
  /\ report # {} => train # {}

(* DataHolds is inductive: after any sequence of scripts and               *)
(* synchronisations the file can be read, both tables are tables, and a    *)
(* report on disk is the report of this file.                              *)
THEOREM DataIsInOrder == Spec => []DataHolds
<1>1. Init => DataHolds
  <2>1. IsTable({})
    BY FS_EmptySet DEF IsTable
  <2> QED BY <2>1, InputsAssumption DEF Init, DataHolds
<1>2. DataHolds /\ [Next]_vars => DataHolds'
  <2> SUFFICES ASSUME DataHolds, [Next]_vars PROVE DataHolds'
    OBVIOUS
  <2>1. ASSUME NEW n, SeedForecasts(n) PROVE DataHolds'
    BY <2>1, SeedMakesTable DEF SeedForecasts, DataHolds
  <2>2. CASE WriteReport
    BY <2>2 DEF WriteReport, DataHolds
  <2>3. CASE RunEtl
    BY <2>3 DEF RunEtl, DataHolds
  <2>4. CASE SyncFromBigQuery
    BY <2>4 DEF SyncFromBigQuery, DataHolds
  <2>5. CASE UNCHANGED vars
    BY <2>5 DEF vars, DataHolds
  <2> QED BY <2>1, <2>2, <2>3, <2>4, <2>5 DEF Next
<1> QED BY <1>1, <1>2, PTL DEF Spec

(* local_doctor --strict passes only if there are forecasts to show and a  *)
(* report with the naive model, and whatever fails without --strict fails  *)
(* with it.                                                                *)
THEOREM StrictDoctorIsRight == Spec => []StrictPassMeansData
<1>1. DataHolds => StrictPassMeansData
  <2> SUFFICES ASSUME DataHolds, NEW m \in Machines, ThisMachine(m)
               PROVE  /\ ExitStatus(m, TRUE) = 0 =>
                           /\ ListStores(forecasts) # {}
                           /\ \E naive \in report : naive.model = "seasonal_naive_7d"
                      /\ ExitStatus(m, FALSE) = 1 => ExitStatus(m, TRUE) = 1
    BY DEF StrictPassMeansData
  <2>1. ASSUME ExitStatus(m, TRUE) = 0
        PROVE  m.report = "rows" /\ m.forecasts
    <3>1. \A r \in RunChecks(m) : r.status = "ok" \/ ~r.strict
      BY <2>1 DEF ExitStatus, HasFailures
    <3>2. CheckBaselineReport(m).status = "ok" \/ ~CheckBaselineReport(m).strict
      BY <3>1 DEF RunChecks
    <3>3. \A r \in CheckDatabase(m) : r.status = "ok" \/ ~r.strict
      BY <3>1 DEF RunChecks
    <3>4. m.report = "rows"
      BY <3>2 DEF CheckBaselineReport, Result
    <3>5. m.db # "down"
      BY <3>3 DEF CheckDatabase, Result
    <3>6. m.forecasts
      BY <3>3, <3>5 DEF CheckDatabase, Result, Status, Machines
    <3> QED BY <3>4, <3>6
  <2>2. m.report = "rows" => \E naive \in report : naive.model = "seasonal_naive_7d"
    <3>1. m.report = "rows" => report = CompareBaselines(train)
      BY DEF ThisMachine, DataHolds
    <3>2. \E naive \in CompareBaselines(train) : naive.model = "seasonal_naive_7d"
      <4>1. CompareStores("seasonal_naive_7d", train) \in CompareBaselines(train)
        BY DEF CompareBaselines, Models
      <4>2. CompareStores("seasonal_naive_7d", train).model = "seasonal_naive_7d"
        BY DEF CompareStores
      <4> QED BY <4>1, <4>2
    <3> QED BY <3>1, <3>2
  <2>3. m.forecasts => ListStores(forecasts) # {}
    BY DEF ThisMachine, ListStores, Products
  <2>4. ExitStatus(m, FALSE) = 1 => ExitStatus(m, TRUE) = 1
    <3> SUFFICES ASSUME NEW r \in RunChecks(m), r.status = "fail"
                 PROVE  r.status # "ok" /\ r.strict
      BY DEF ExitStatus, HasFailures
    <3>1. ~ (r = CheckFaissIndex(m) \/ r = CheckApi(m) \/ r \in CheckDatabase(m))
      BY DEF CheckFaissIndex, CheckDatabase, CheckApi, Result, Status
    <3>2. r = CheckRawData(m) \/ r = CheckBaselineReport(m)
      BY <3>1 DEF RunChecks
    <3>3. CASE r = CheckRawData(m)
      <4>1. r.status = (IF m.raw THEN "ok" ELSE "fail") /\ (r.strict <=> ~m.raw)
        BY <3>3 DEF CheckRawData, Result
      <4> QED BY <4>1
    <3>4. CASE r = CheckBaselineReport(m)
      <4>1. /\ r.status = (IF m.report = "rows" THEN "ok" ELSE "fail")
            /\ r.strict <=> m.report # "rows"
        BY <3>4 DEF CheckBaselineReport, Result
      <4> QED BY <4>1
    <3> QED BY <3>2, <3>3, <3>4
  <2> QED BY <2>1, <2>2, <2>3, <2>4
<1> QED BY <1>1, DataIsInOrder, PTL

-----------------------------------------------------------------------------
(* The report of baseline_compare. *)

(* The backtest's level is a number, whatever the history has. *)
LEMMA BaseType ==
  ASSUME NEW file, SalesFile(file), NEW s, NEW d
  PROVE  Base(file, s, d) \in Fractions /\ ~Nan(Base(file, s, d))
<1> DEFINE recent == OwnRecent(file, s)
           alike == {r \in recent : Weekday(r.day) = Weekday(d)}
<1>1. recent \in SUBSET file /\ alike \in SUBSET file
  BY DEF OwnRecent, OwnWindow, Between, OpenHistory, OpenOnes, StoreHistory, OfStore, History
<1>2. /\ Mean(recent) \in Fractions /\ (recent # {} => ~Nan(Mean(recent)))
      /\ Mean(alike) \in Fractions /\ (alike # {} => ~Nan(Mean(alike)))
  <2> HIDE DEF recent, alike
  <2> QED BY <1>1, MeanType
<1>3. <<0, 1>> \in Fractions /\ ~Nan(<<0, 1>>)
  BY DEF Fractions, Nan
<1>4. \/ alike # {} /\ Base(file, s, d) = Mean(alike)
      \/ recent # {} /\ Base(file, s, d) = Mean(recent)
      \/ Base(file, s, d) = <<0, 1>>
  BY DEF Base
<1> HIDE DEF recent, alike
<1> QED BY <1>2, <1>3, <1>4

(* The backtest's trend is NaN exactly if the recent window is empty and   *)
(* the older one is not zero.                                              *)
LEMMA OwnTrendType ==
  ASSUME NEW file, SalesFile(file), NEW s
  PROVE  /\ OwnTrend(file, s) \in Fractions
         /\ Nan(OwnTrend(file, s)) <=>
              OwnRecent(file, s) = {} /\ Mean(OwnWindow(file, s, Older, Recent))[1] # 0
<1> DEFINE recent == OwnRecent(file, s)
           older == OwnWindow(file, s, Older, Recent)
           q == Over(Mean(recent), Mean(older))
<1>1. recent \in SUBSET file /\ older \in SUBSET file
  BY DEF OwnRecent, OwnWindow, Between, OpenHistory, OpenOnes, StoreHistory, OfStore, History
<1>2. OwnTrend(file, s) = IF Mean(older)[1] # 0 THEN Clip(q) ELSE <<1, 1>>
  BY DEF OwnTrend
<1>3. /\ Mean(recent) \in Fractions /\ Mean(older) \in Fractions
      /\ Nan(Mean(recent)) <=> recent = {}
  <2> HIDE DEF recent, older
  <2> QED BY <1>1, MeanType
<1>4. q \in Fractions /\ (Nan(q) <=> recent = {} \/ Mean(older)[1] = 0)
  <2> HIDE DEF recent, older
  <2> QED BY <1>3, FractionArithmetic
<1>5. <<1, 1>> \in Fractions /\ ~Nan(<<1, 1>>)
  BY DEF Fractions, Nan
<1>6. Clip(q) \in Fractions /\ (Nan(Clip(q)) <=> Nan(q))
  <2> HIDE DEF q
  <2> QED BY <1>4, FractionArithmetic
<1> HIDE DEF q
<1> QED BY <1>2, <1>4, <1>5, <1>6

(* local_seasonal_trend predicts NaN for exactly the stores that were open *)
(* before the recent window only.                                          *)
LEMMA NanIsReopening ==
  ASSUME SalesFile(train), NEW s, NEW d
  PROVE  Nan(Predict("local_seasonal_trend", train, s, d)) <=> Reopens(s)
<1>1. ~Nan(<<0, 1>>)
  BY DEF Nan
<1>2. Nan(LocalSeasonalTrend(train, s, d)) <=> Nan(OwnTrend(train, s))
  <2>1. /\ Base(train, s, d) \in Fractions /\ ~Nan(Base(train, s, d))
        /\ OwnTrend(train, s) \in Fractions
    BY BaseType, OwnTrendType
  <2> QED BY <2>1, FractionArithmetic DEF LocalSeasonalTrend
<1>3. Predict("local_seasonal_trend", train, s, d) =
        IF OpenHistory(train, s) = {} THEN <<0, 1>> ELSE LocalSeasonalTrend(train, s, d)
  BY DEF Predict
<1> QED BY <1>1, <1>2, <1>3, OwnTrendType DEF Reopens

(* What the seed and the backtest take a store's open days to be is the    *)
(* same.                                                                   *)
LEMMA OneStoreOfMany ==
  ASSUME NEW file, SalesFile(file), NEW s, s \in StoresOf(OpenOnes(History(file)))
  PROVE  /\ OfStore(OpenOnes(History(file)), s) = OpenHistory(file, s)
         /\ OpenHistory(file, s) # {}
         /\ LastDay(StoreHistory(file, s)) \in Int
         /\ LastDay(OpenOnes(History(file))) \in Int
         /\ \A r \in OpenHistory(file, s) : /\ r.day \in Int
                                             /\ r.day <= LastDay(StoreHistory(file, s))
<1>1. /\ OfStore(OpenOnes(History(file)), s) = OpenHistory(file, s)
      /\ OpenHistory(file, s) # {}
  BY DEF OfStore, OpenOnes, OpenHistory, StoreHistory, StoresOf
<1>2. /\ StoreHistory(file, s) \in SUBSET file /\ OpenOnes(History(file)) \in SUBSET file
      /\ OpenHistory(file, s) \subseteq StoreHistory(file, s)
      /\ OpenHistory(file, s) \subseteq OpenOnes(History(file))
  BY DEF OfStore, OpenOnes, OpenHistory, StoreHistory, History
<1>3. \A r \in file : r.day \in Int
  BY DEF SalesFile
<1> QED BY <1>1, <1>2, <1>3, LastDayOf

(* The two scripts' windows are the same for a store that is listed up to  *)
(* the end of the history.                                                 *)
LEMMA SameWindows ==
  ASSUME NEW file, SalesFile(file), NEW s, s \in StoresOf(OpenOnes(History(file))),
         LastDay(StoreHistory(file, s)) = LastDay(OpenOnes(History(file)))
  PROVE  /\ OwnRecent(file, s) = SeedRecent(OpenOnes(History(file)), s)
         /\ OwnWindow(file, s, Older, Recent) = SeedOlder(OpenOnes(History(file)), s)
<1> DEFINE last == LastDay(StoreHistory(file, s))
<1>1. last - 0 = last
  BY OneStoreOfMany
<1> QED BY <1>1, OneStoreOfMany DEF OwnRecent, OwnWindow, SeedRecent, SeedOlder

(* For such a store the backtest's prediction, rounded as the seed rounds, *)
(* is the seed's.                                                          *)
LEMMA SameForecast ==
  ASSUME SalesFile(train), NEW s, NEW d, s \in StoresOf(OpenOnes(History(train))),
         LastDay(StoreHistory(train, s)) = LastDay(OpenOnes(History(train))), ~Reopens(s)
  PROVE  Tenths(Predict("local_seasonal_trend", train, s, d))
           = SeedUnits(OpenOnes(History(train)), s, d)
<1> DEFINE rows == OpenOnes(History(train))
           recent == SeedRecent(rows, s)
           older == SeedOlder(rows, s)
           q == Over(Mean(recent), Mean(older))
<1>1. OpenHistory(train, s) # {}
  BY OneStoreOfMany
<1>2. Base(train, s, d) = SeedLevel(rows, s, d)
  BY SameWindows DEF Base, SeedLevel
<1>3. recent \in SUBSET train /\ older \in SUBSET train
  BY DEF SeedRecent, SeedOlder, Between, OfStore, OpenOnes, History
<1>4. ~(recent = {} /\ Mean(older)[1] # 0)
  BY <1>1, SameWindows DEF Reopens
<1>5. /\ Mean(recent) \in Fractions /\ Mean(older) \in Fractions
      /\ Nan(Mean(recent)) <=> recent = {}
  <2> HIDE DEF recent, older
  <2> QED BY <1>3, MeanType
<1>6. Nan(Clip(q)) <=> Mean(older)[1] = 0
  <2> HIDE DEF recent, older
  <2>1. q \in Fractions /\ (Nan(q) <=> recent = {} \/ Mean(older)[1] = 0)
    BY <1>5, FractionArithmetic
  <2> HIDE DEF q
  <2> QED BY <2>1, <1>4, FractionArithmetic
<1>7. OwnTrend(train, s) = SeedTrend(rows, s)
  <2>1. OwnTrend(train, s) = IF Mean(older)[1] # 0 THEN Clip(q) ELSE <<1, 1>>
    BY SameWindows DEF OwnTrend
  <2>2. SeedTrend(rows, s) = IF Nan(Clip(q)) THEN <<1, 1>> ELSE Clip(q)
    BY DEF SeedTrend
  <2> HIDE DEF rows, q, older
  <2> QED BY <1>6, <2>1, <2>2
<1>8. Predict("local_seasonal_trend", train, s, d) = LocalSeasonalTrend(train, s, d)
  BY <1>1 DEF Predict
<1> QED BY <1>2, <1>7, <1>8 DEF LocalSeasonalTrend, SeedUnits

(* Where the backtest has NaN, the seed makes 0. *)
LEMMA ReopenedIsNothing ==
  ASSUME SalesFile(train), NEW s, NEW d, s \in StoresOf(OpenOnes(History(train))),
         LastDay(StoreHistory(train, s)) <= LastDay(OpenOnes(History(train))), Reopens(s)
  PROVE  SeedUnits(OpenOnes(History(train)), s, d) = 0
<1> DEFINE rows == OpenOnes(History(train))
           last == LastDay(StoreHistory(train, s))
           y == SeedTrend(rows, s)
<1>1. SeedRecent(rows, s) = {}
  <2> SUFFICES ASSUME NEW r \in SeedRecent(rows, s) PROVE FALSE
    OBVIOUS
  <2>1. r \in OpenHistory(train, s) /\ LastDay(rows) - Recent < r.day
    BY OneStoreOfMany DEF SeedRecent, Between
  <2>2. last - Recent < r.day /\ r.day <= last - 0
    BY <2>1, OneStoreOfMany, WindowAssumption
  <2>3. r \in OwnRecent(train, s)
    BY <2>1, <2>2 DEF OwnRecent, OwnWindow, Between
  <2> QED BY <2>3 DEF Reopens
<1>2. SeedLevel(rows, s, d) = <<0, 1>>
  BY <1>1 DEF SeedLevel
<1>3. rows \in SUBSET train
  BY DEF OpenOnes, History
<1>4. y \in Fractions /\ ~Nan(y)
  <2> HIDE DEF rows
  <2> QED BY <1>3, SeedTrendType
<1>5. <<0, 1>> \in Fractions /\ ~Nan(<<0, 1>>)
  BY DEF Fractions, Nan
<1> HIDE DEF y
<1>6. Times(<<0, 1>>, y) \in Fractions /\ ~Nan(Times(<<0, 1>>, y)) /\ Times(<<0, 1>>, y)[1] = 0
  <2>1. Times(<<0, 1>>, y)[1] = 0 * y[1] /\ y[1] \in Nat
    BY <1>4 DEF Times, Fractions
  <2>2. Times(<<0, 1>>, y) \in Fractions /\ ~Nan(Times(<<0, 1>>, y))
    BY <1>4, <1>5, FractionArithmetic
  <2> QED BY <2>1, <2>2
<1>7. SeedUnits(rows, s, d) = Tenths(Times(<<0, 1>>, y))
  BY <1>2 DEF SeedUnits, y
<1> QED BY <1>6, <1>7, TenthsType

(* The last rows of some rows are some. *)
LEMMA LastRowsAreSome ==
  ASSUME NEW file, SalesFile(file), NEW rows \in SUBSET file, rows # {}, NEW k \in Nat \ {0}
  PROVE  LastRows(rows, k) \in SUBSET file /\ LastRows(rows, k) # {}
<1> DEFINE lines == {r.line : r \in rows}
<1>1. IsFiniteSet(rows) /\ lines \subseteq Int /\ lines # {}
  BY FS_Subset DEF SalesFile
<1>2. IsFiniteSet(lines)
  <2>1. /\ [r \in rows |-> r.line] \in [rows -> lines]
        /\ \A i \in lines : \E r \in rows : [q \in rows |-> q.line][r] = i
    OBVIOUS
  <2> HIDE DEF lines
  <2> QED BY <1>1, <2>1, FiniteImage
<1>3. Max(lines) \in lines /\ \A i \in lines : i <= Max(lines)
  <2> HIDE DEF lines
  <2> QED BY <1>1, <1>2, MaxOf
<1>4. PICK r \in rows : \A q \in rows : q.line <= r.line
  BY <1>3
<1>5. {q \in rows : q.line > r.line} = {}
  <2>1. \A q \in rows : q.line \in Nat
    BY DEF SalesFile
  <2> QED BY <2>1, <1>4
<1>6. Cardinality({q \in rows : q.line > r.line}) < k
  BY <1>5, FS_EmptySet
<1> QED BY <1>4, <1>6 DEF LastRows

(* The last rows of a file in the order of days are its newest days, and   *)
(* those of a file in the opposite order its oldest.                       *)
LEMMA AveragesFollowFile ==
  ASSUME SalesFile(train), NEW s, NEW k
  PROVE  LET open == OpenHistory(train, s)
             newest == {q \in open : Cardinality({x \in open : x.day > q.day}) < k}
             oldest == {q \in open : Cardinality({x \in open : x.day < q.day}) < k}
         IN /\ Ascends(train) => LastRows(open, k) = newest
            /\ Descends(train) => LastRows(open, k) = oldest
<1> DEFINE open == OpenHistory(train, s)
<1>1. open \in SUBSET train /\ \A r \in open : r.store = s
  BY DEF OpenHistory, OpenOnes, StoreHistory, OfStore, History
<1>2. \A r, q \in open : /\ r.line \in Nat /\ q.line \in Nat /\ r.day \in Int /\ q.day \in Int
                         /\ r.line = q.line \/ r.day = q.day => r = q
  <2> HIDE DEF open
  <2> QED BY <1>1 DEF SalesFile
<1>3. ASSUME Ascends(train)
      PROVE  \A q \in open : {x \in open : x.line > q.line} = {x \in open : x.day > q.day}
  <2>1. \A x, q \in open : x.line > q.line <=> x.day > q.day
    <3> HIDE DEF open
    <3>1. \A r, q \in open : r.line < q.line => r.day <= q.day
      BY <1>1, <1>3 DEF Ascends
    <3> QED BY <1>2, <3>1
  <2> QED BY <2>1
<1>4. ASSUME Descends(train)
      PROVE  \A q \in open : {x \in open : x.line > q.line} = {x \in open : x.day < q.day}
  <2>1. \A x, q \in open : x.line > q.line <=> x.day < q.day
    <3> HIDE DEF open
    <3>1. \A r, q \in open : r.line < q.line => r.day >= q.day
      BY <1>1, <1>4 DEF Descends
    <3> QED BY <1>2, <3>1
  <2> QED BY <2>1
<1> QED BY <1>3, <1>4 DEF LastRows

(* The other models predict a number for every row of the holdout. *)
LEMMA OthersScoreAll ==
  ASSUME SalesFile(train), NEW s, NEW d, NEW m \in Models, m # "local_seasonal_trend"
  PROVE  ~Nan(Predict(m, train, s, d))
<1> DEFINE open == OpenHistory(train, s)
<1>1. ~Nan(<<0, 1>>)
  BY DEF Nan
<1>2. ~Nan(SeasonalNaive(train, s, d))
  <2> DEFINE before == {r \in StoreHistory(train, s) : r.day = d - Week}
  <2>1. before \in SUBSET train
    BY DEF StoreHistory, OfStore, History
  <2>2. before # {} => ~Nan(Mean(before))
    <3> HIDE DEF before
    <3> QED BY <2>1, MeanType
  <2> QED BY <2>2, BaseType DEF SeasonalNaive
<1>3. ASSUME NEW k \in Nat \ {0}, open # {} PROVE ~Nan(MovingAverage(train, s, k))
  <2>1. open \in SUBSET train
    BY DEF OpenHistory, OpenOnes, StoreHistory, OfStore, History
  <2>2. LastRows(open, k) \in SUBSET train /\ LastRows(open, k) # {}
    <3> HIDE DEF open
    <3> QED BY <2>1, <1>3, LastRowsAreSome
  <2> QED BY <2>2, MeanType DEF MovingAverage
<1>4. open = {} => Predict(m, train, s, d) = <<0, 1>>
  BY DEF Predict
<1>5. open # {} => Predict(m, train, s, d) \in
        {SeasonalNaive(train, s, d), MovingAverage(train, s, Short), MovingAverage(train, s, Long)}
  BY DEF Predict, Models
<1>6. Short \in Nat \ {0} /\ Long \in Nat \ {0}
  BY WindowAssumption
<1> HIDE DEF open
<1> QED BY <1>1, <1>2, <1>3, <1>4, <1>5, <1>6

(* Every row of the report on disk is of the model it names: the local     *)
(* model mirrors the seed, the others are scored on every row, and the     *)
(* moving averages are of the newest open days, if the file has them last. *)
THEOREM ReportIsOfItsModels == Spec => []BacktestIsOfItsModels
<1>1. DataHolds => BacktestIsOfItsModels
  <2> SUFFICES ASSUME DataHolds, NEW row \in report
               PROVE  /\ row.model = "local_seasonal_trend" => MirrorsSeed(row)
                      /\ row.model # "local_seasonal_trend" => Scored(row) = Holdout(train)
                      /\ row.model = "moving_average_7d" => FollowsFile(row, Short)
                      /\ row.model = "moving_average_28d" => FollowsFile(row, Long)
    BY DEF BacktestIsOfItsModels
  <2> SalesFile(train)
    BY DEF DataHolds
  <2>1. PICK m \in Models : row = CompareStores(m, train)
    BY DEF DataHolds, CompareBaselines
  <2>2. /\ row.model = m
        /\ DOMAIN row.predicted = Holdout(train)
        /\ \A r \in Holdout(train) : row.predicted[r] = Predict(m, train, r.store, r.day)
    BY <2>1 DEF CompareStores
  <2>3. Scored(row) = {r \in Holdout(train) : ~Nan(Predict(m, train, r.store, r.day))}
    BY <2>2 DEF Scored
  <2>4. CASE m = "local_seasonal_trend"
    <3>1. Scored(row) = {r \in Holdout(train) : ~Reopens(r.store)}
      BY <2>3, <2>4, NanIsReopening
    <3>2. MirrorsSeed(row)
      <4> DEFINE rows == OpenOnes(History(train))
      <4>1. \A x : OfStore(History(train), x) = StoreHistory(train, x)
        BY DEF StoreHistory
      <4>2. ASSUME NEW r \in Scored(row), r.store \in StoresOf(rows),
                   LastDay(StoreHistory(train, r.store)) = LastDay(rows)
            PROVE  Tenths(row.predicted[r]) = SeedUnits(rows, r.store, r.day)
        <5>1. r \in Holdout(train) /\ ~Reopens(r.store)
          BY <3>1
        <5>2. row.predicted[r] = Predict("local_seasonal_trend", train, r.store, r.day)
          BY <2>2, <2>4, <5>1
        <5> QED BY <4>2, <5>1, <5>2, SameForecast
      <4>3. ASSUME NEW x \in StoresOf(rows), Reopens(x),
                   LastDay(StoreHistory(train, x)) <= LastDay(rows)
            PROVE  SeedUnits(rows, x, 1 + LastDay(rows)) = 0
        BY <4>3, ReopenedIsNothing
      <4> QED BY <3>1, <4>1, <4>2, <4>3 DEF MirrorsSeed
    <3> QED BY <3>2, <2>2, <2>4
  <2>5. CASE m # "local_seasonal_trend"
    <3>1. Scored(row) = Holdout(train)
      BY <2>3, <2>5, OthersScoreAll
    <3>2. ASSUME NEW k, \A r \in Holdout(train) : OpenHistory(train, r.store) # {} =>
                   Predict(m, train, r.store, r.day) = MovingAverage(train, r.store, k)
          PROVE  FollowsFile(row, k)
      <4> SUFFICES ASSUME NEW r \in Holdout(train), OpenHistory(train, r.store) # {}
                   PROVE  LET open == OpenHistory(train, r.store)
                              newest == {q \in open : Cardinality({x \in open : x.day > q.day}) < k}
                              oldest == {q \in open : Cardinality({x \in open : x.day < q.day}) < k}
                          IN /\ Ascends(train) => row.predicted[r] = Mean(newest)
                             /\ Descends(train) => row.predicted[r] = Mean(oldest)
        BY <2>2 DEF FollowsFile
      <4>1. row.predicted[r] = Mean(LastRows(OpenHistory(train, r.store), k))
        BY <2>2, <3>2 DEF MovingAverage
      <4> QED BY <4>1, AveragesFollowFile
    <3>3. m = "moving_average_7d" => FollowsFile(row, Short)
      BY <3>2 DEF Predict
    <3>4. m = "moving_average_28d" => FollowsFile(row, Long)
      BY <3>2 DEF Predict
    <3> QED BY <2>2, <2>5, <3>1, <3>3, <3>4
  <2> QED BY <2>4, <2>5
<1> QED BY <1>1, DataIsInOrder, PTL

-----------------------------------------------------------------------------
(* The panels of the dashboards. *)

(* Some rows of a table are a table. *)
LEMMA SubTable ==
  ASSUME NEW T, IsTable(T), NEW A \in SUBSET T
  PROVE  IsTable(A)
BY FS_Subset DEF IsTable

(* The terms of the sums. *)
UnitsIn(T) == [r \in T |-> r.units]

(* The units of some rows of a table are a sum over these rows of one      *)
(* function.                                                               *)
LEMMA UnitsOf ==
  ASSUME NEW T, IsTable(T), NEW A \in SUBSET T
  PROVE  /\ \A r \in T : UnitsIn(T)[r] \in Int
         /\ Units(A) = SumOver(UnitsIn(T), A)
         /\ Units(A) \in Int
<1>1. IsFiniteSet(A) /\ \A r \in T : UnitsIn(T)[r] \in Int
  BY FS_Subset DEF IsTable, UnitsIn
<1>2. Units(A) = SumOver(UnitsIn(A), A)
  BY SumFunctionIsSum DEF Units, UnitsIn
<1>3. \A r \in A : UnitsIn(A)[r] = UnitsIn(T)[r]
  BY DEF UnitsIn
<1>4. SumOver(UnitsIn(A), A) = SumOver(UnitsIn(T), A)
  BY <1>1, <1>3, SumEqual
<1> QED BY <1>1, <1>2, <1>4, SumType

TotalsIn(figures) == [f \in figures |-> f.total]

(* The totals of a panel are a sum over its entries. *)
LEMMA TotalsIs == \A R : Totals(R) = SumOver(TotalsIn(R), R)
  BY SumFunctionIsSum DEF Totals, TotalsIn

(* A panel with one entry, with its units, for each part of a table has    *)
(* the units of the table.                                                 *)
LEMMA PanelAddsUp ==
  ASSUME NEW T, IsTable(T), NEW panel, NEW part, Partition(part, panel, T),
         \A y \in panel : y.total = Units(part[y])
  PROVE  IsFiniteSet(panel) /\ Totals(panel) = Units(T)
<1>1. \A y \in panel : part[y] \in SUBSET T
  BY DEF Partition
<1>2. \A y \in panel : TotalsIn(panel)[y] = SumOver(UnitsIn(T), part[y])
  BY <1>1, UnitsOf DEF TotalsIn
<1>3. IsFiniteSet(T) /\ Units(T) = SumOver(UnitsIn(T), T) /\ \A r \in T : UnitsIn(T)[r] \in Int
  BY UnitsOf DEF IsTable
<1>4. IsFiniteSet(panel) /\ SumOver(TotalsIn(panel), panel) = SumOver(UnitsIn(T), T)
  BY <1>2, <1>3, SumOfPartition
<1> QED BY <1>3, <1>4, TotalsIs

(* The fleet summary has one entry for each product, with the units, the   *)
(* average and the peak of its rows.                                       *)
LEMMA FleetFigures ==
  ASSUME NEW T
  PROVE  /\ \A r \in T : \E f \in FleetSummary(T) : f.product = r.product
         /\ \A f, g \in FleetSummary(T) : f.product = g.product => f = g
         /\ \A f \in FleetSummary(T) :
              /\ \E r \in T : f.product = r.product
              /\ f.total = Units(OfProduct(T, f.product))
              /\ f.avg = Avg(Units(OfProduct(T, f.product)), OfProduct(T, f.product))
              /\ f.peak = Max({r.units : r \in OfProduct(T, f.product)})
<1> DEFINE peak(p) == Max({r.units : r \in OfProduct(T, p)})
           fig(p) == [product |-> p,
                      total |-> Units(OfProduct(T, p)),
                      avg |-> Avg(Units(OfProduct(T, p)), OfProduct(T, p)),
                      peak |-> peak(p)]
<1>1. FleetSummary(T) = {fig(p) : p \in {r.product : r \in T}}
  BY DEF FleetSummary, Products
<1> HIDE DEF peak
<1>2. \A p : /\ fig(p).product = p
             /\ fig(p).total = Units(OfProduct(T, p))
             /\ fig(p).avg = Avg(Units(OfProduct(T, p)), OfProduct(T, p))
             /\ fig(p).peak = peak(p)
  OBVIOUS
<1> HIDE DEF fig
<1>3. \A f \in FleetSummary(T) : f.peak = peak(f.product)
  BY <1>1, <1>2
<1>4. \A f \in FleetSummary(T) : f.peak = Max({r.units : r \in OfProduct(T, f.product)})
  BY <1>3 DEF peak
<1> QED BY <1>1, <1>2, <1>4

(* The fleet summary adds up to the table. *)
LEMMA FleetAddsUp ==
  ASSUME NEW T, IsTable(T)
  PROVE  IsFiniteSet(FleetSummary(T)) /\ Totals(FleetSummary(T)) = Units(T)
<1> DEFINE panel == FleetSummary(T)
           part == [f \in panel |-> OfProduct(T, f.product)]
<1>1. /\ \A r \in T : \E f \in panel : f.product = r.product
      /\ \A f, g \in panel : f.product = g.product => f = g
      /\ \A f \in panel : /\ \E r \in T : f.product = r.product
                         /\ f.total = Units(OfProduct(T, f.product))
  BY FleetFigures
<1> HIDE DEF panel
<1>2. /\ part \in [panel -> SUBSET T]
      /\ \A f \in panel, r \in T : r \in part[f] <=> r.product = f.product
      /\ \A f \in panel : f.total = Units(part[f])
  BY <1>1 DEF OfProduct
<1> HIDE DEF part
<1>3. Partition(part, panel, T)
  BY <1>1, <1>2 DEF Partition
<1>4. IsFiniteSet(panel) /\ Totals(panel) = Units(T)
  BY <1>2, <1>3, PanelAddsUp
<1> QED BY <1>4 DEF panel

(* The totals of the fleet are integers, and the KPI top is the highest of *)
(* them.                                                                   *)
LEMMA FleetTotals ==
  ASSUME NEW T, IsTable(T)
  PROVE  /\ \A f \in FleetSummary(T) : f.product \in Int /\ f.total \in Int
         /\ T # {} => /\ NetworkKpis(FleetSummary(T)).top \in {f.total : f \in FleetSummary(T)}
                      /\ \A f \in FleetSummary(T) : f.total <= NetworkKpis(FleetSummary(T)).top
<1> DEFINE fleet == FleetSummary(T)
           totals == {f.total : f \in fleet}
<1>1. \A f \in fleet : f.product \in Int /\ f.total \in Int
  <2>1. \A p : OfProduct(T, p) \in SUBSET T
    BY DEF OfProduct
  <2>2. \A p : Units(OfProduct(T, p)) \in Int
    BY <2>1, UnitsOf
  <2>3. \A f \in fleet : /\ \E r \in T : f.product = r.product
                         /\ f.total = Units(OfProduct(T, f.product))
    BY FleetFigures
  <2>4. \A r \in T : r.product \in Int
    BY DEF IsTable
  <2> HIDE DEF fleet
  <2> QED BY <2>2, <2>3, <2>4
<1>2. IsFiniteSet(fleet) /\ (T # {} => fleet # {})
  BY FleetAddsUp, FleetFigures
<1>3. IsFiniteSet(totals)
  <2>1. /\ TotalsIn(fleet) \in [fleet -> totals]
        /\ \A t \in totals : \E f \in fleet : TotalsIn(fleet)[f] = t
    BY DEF TotalsIn
  <2> HIDE DEF fleet, totals
  <2> QED BY <1>2, <2>1, FiniteImage
<1>4. totals \subseteq Int /\ (fleet # {} => totals # {})
  BY <1>1
<1>5. T # {} => Max(totals) \in totals /\ \A t \in totals : t <= Max(totals)
  <2> HIDE DEF fleet, totals
  <2> QED BY <1>2, <1>3, <1>4, MaxOf
<1>6. NetworkKpis(fleet).top = Max(totals)
  BY DEF NetworkKpis
<1>7. \A f \in fleet : f.total \in totals
  OBVIOUS
<1> HIDE DEF totals
<1>8. T # {} => /\ NetworkKpis(fleet).top \in totals
                /\ \A f \in fleet : f.total <= NetworkKpis(fleet).top
  BY <1>5, <1>6, <1>7
<1> QED BY <1>1, <1>8 DEF totals

(* The daily trend adds up to the table. *)
LEMMA DaysAddUp ==
  ASSUME NEW T, IsTable(T)
  PROVE  Totals(DailyTrend(T)) = Units(T)
<1> DEFINE panel == DailyTrend(T)
           on(k) == {r \in T : r.day = k}
           fig(k) == [day |-> k, total |-> Units(on(k)),
                      avg |-> Avg(Units(on(k)), on(k)), stores |-> Cardinality(Products(on(k)))]
           part == [y \in panel |-> on(y.day)]
<1>1. panel = {fig(k) : k \in {r.day : r \in T}}
  BY DEF DailyTrend
<1>2. \A k : fig(k).day = k /\ fig(k).total = Units(on(k))
  OBVIOUS
<1>3. \A k, r : r \in on(k) <=> r \in T /\ r.day = k
  OBVIOUS
<1> HIDE DEF panel, on, fig
<1>4. /\ \A y \in panel : y = fig(y.day) /\ \E r \in T : r.day = y.day
      /\ \A r \in T : fig(r.day) \in panel
  BY <1>1, <1>2
<1>5. part \in [panel -> SUBSET T] /\ \A y \in panel : part[y] = on(y.day)
  BY <1>3
<1> HIDE DEF part
<1>6. \A r \in T : \E y \in panel : r \in part[y]
  BY <1>2, <1>3, <1>4, <1>5
<1>7. \A y, z \in panel : y # z => part[y] \cap part[z] = {}
  BY <1>3, <1>4, <1>5
<1>8. \A y \in panel : part[y] # {} /\ y.total = Units(part[y])
  BY <1>2, <1>3, <1>4, <1>5
<1>9. Partition(part, panel, T)
  BY <1>5, <1>6, <1>7, <1>8 DEF Partition
<1>10. Totals(panel) = Units(T)
  BY <1>8, <1>9, PanelAddsUp
<1> QED BY <1>10 DEF panel

(* The pattern of weekdays adds up to the table. *)
LEMMA WeekdaysAddUp ==
  ASSUME NEW T, IsTable(T)
  PROVE  Totals(DayOfWeekPattern(T)) = Units(T)
<1> DEFINE panel == DayOfWeekPattern(T)
           on(k) == {r \in T : Weekday(r.day) = k}
           fig(k) == [dow |-> k, total |-> Units(on(k)), avg |-> Avg(Units(on(k)), on(k))]
           part == [y \in panel |-> on(y.dow)]
<1>1. panel = {fig(k) : k \in {Weekday(r.day) : r \in T}}
  BY DEF DayOfWeekPattern
<1>2. \A k : fig(k).dow = k /\ fig(k).total = Units(on(k))
  OBVIOUS
<1>3. \A k, r : r \in on(k) <=> r \in T /\ Weekday(r.day) = k
  OBVIOUS
<1> HIDE DEF panel, on, fig
<1>4. /\ \A y \in panel : y = fig(y.dow) /\ \E r \in T : Weekday(r.day) = y.dow
      /\ \A r \in T : fig(Weekday(r.day)) \in panel
  BY <1>1, <1>2
<1>5. part \in [panel -> SUBSET T] /\ \A y \in panel : part[y] = on(y.dow)
  BY <1>3
<1> HIDE DEF part
<1>6. \A r \in T : \E y \in panel : r \in part[y]
  BY <1>2, <1>3, <1>4, <1>5
<1>7. \A y, z \in panel : y # z => part[y] \cap part[z] = {}
  BY <1>3, <1>4, <1>5
<1>8. \A y \in panel : part[y] # {} /\ y.total = Units(part[y])
  BY <1>2, <1>3, <1>4, <1>5
<1>9. Partition(part, panel, T)
  BY <1>5, <1>6, <1>7, <1>8 DEF Partition
<1>10. Totals(panel) = Units(T)
  BY <1>8, <1>9, PanelAddsUp
<1> QED BY <1>10 DEF panel

(* Whole multiples of the divisor do not change a remainder.               *)
LEMMA ModShift ==
  ASSUME NEW w \in Nat \ {0}, NEW x \in Int, NEW y \in Int
  PROVE  (w * y + x) % w = x % w
<1> DEFINE q == x \div w
           r == x % w
           n == w * y + x
           p == n \div w
           t == n % w
<1>1. q \in Int /\ r \in 0..w - 1 /\ x = w * q + r
  BY SMT
<1>2. n \in Int
  OBVIOUS
<1>3. p \in Int /\ t \in 0..w - 1 /\ n = w * p + t
  <2> HIDE DEF n
  <2> QED BY <1>2, SMT
<1> HIDE DEF q, r, p, t
<1>4. n = w * y + w * q + r
  BY <1>1
<1> HIDE DEF n
<1>5. w * (p - y - q) = r - t
  BY <1>1, <1>3, <1>4
<1>6. p - y - q \in Int /\ r - t \in -w + 1..w - 1
  BY <1>1, <1>3
<1>7. \A k \in Int : k # 0 => w * k >= w \/ w * k <= -w
  OBVIOUS
<1>8. p - y - q = 0
  BY <1>5, <1>6, <1>7
<1>9. r = t
  BY <1>1, <1>3, <1>5, <1>8
<1> QED BY <1>9 DEF r, t, n

(* After the last remainder comes the first.                               *)
LEMMA ModOfNext ==
  ASSUME NEW w \in Nat \ {0}, NEW x \in 0..w - 1
  PROVE  (x + 1) % w = IF x = w - 1 THEN 0 ELSE x + 1
OBVIOUS

(* The rounded quotient is within half of the quotient.                    *)
LEMMA RoundIsNear ==
  ASSUME NEW n \in Int, NEW d \in Nat \ {0}
  PROVE  Round(n, d) \in Int /\ 2 * (Round(n, d) * d - n) \in -d..d
<1>1. \A m \in Nat : Half(m, d) \in Int /\ 2 * (Half(m, d) * d - m) \in -d..d
  <2> TAKE m \in Nat
  <2> DEFINE h == (2 * m + d) \div (2 * d)
  <2>1. h \in Int /\ 2 * d * h <= 2 * m + d /\ 2 * m + d < 2 * d * h + 2 * d
    <3> DEFINE n2 == 2 * m + d
               d2 == 2 * d
    <3>1. n2 \in Int /\ d2 \in Nat \ {0}
      OBVIOUS
    <3> HIDE DEF n2, d2
    <3>2. /\ n2 \div d2 \in Int
          /\ d2 * (n2 \div d2) <= n2
          /\ n2 < d2 * (n2 \div d2) + d2
      BY <3>1, SMT
    <3> QED BY <3>2 DEF n2, d2
  <2> HIDE DEF h
  <2>2. 2 * (h * d - m) = 2 * d * h - 2 * m
    BY <2>1
  <2>3. 2 * d * h \in Int
    BY <2>1
  <2>4. 2 * (h * d - m) \in -d..d
    BY <2>1, <2>2, <2>3
  <2> QED BY <2>1, <2>4 DEF h, Half
<1>2. CASE n >= 0
  BY <1>1, <1>2 DEF Round
<1>3. CASE n < 0
  <2> DEFINE h == Half(-n, d)
  <2>1. h \in Int /\ 2 * (h * d - (-n)) \in -d..d
    BY <1>1, <1>3
  <2>2. Round(n, d) = -h
    BY <1>3 DEF Round
  <2> HIDE DEF h
  <2>3. 2 * ((-h) * d - n) = -(2 * (h * d - (-n)))
    BY <2>1
  <2> QED BY <2>1, <2>2, <2>3
<1> QED BY <1>2, <1>3

(* The number of a weekday with Sunday first is the next of the one with   *)
(* Monday first.                                                           *)
LEMMA NextWeekday ==
  ASSUME NEW a \in Int
  PROVE  Weekday(a + 1) = (Weekday(a) + 1) % Week
<1> DEFINE q == a \div Week
           r == a % Week
<1>1. Week \in Nat \ {0}
  BY WeekAssumption
<1>2. q \in Int /\ r \in Int /\ a + 1 = Week * q + (r + 1)
  BY <1>1, SMT
<1> HIDE DEF q, r
<1>3. \A x, y \in Int : (Week * y + x) % Week = x % Week
  BY <1>1, ModShift
<1>4. (a + 1) % Week = (r + 1) % Week
  BY <1>2, <1>3
<1> QED BY <1>4 DEF Weekday, r

(* Both count from different days, and tell the same days apart.           *)
LEMMA SameWeekdays ==
  ASSUME NEW a \in Int, NEW b \in Int
  PROVE  Weekday(a + 1) = Weekday(b + 1) <=> Weekday(a) = Weekday(b)
<1> DEFINE r == Weekday(a)
           s == Weekday(b)
<1>1. Week \in Nat \ {0} /\ r \in 0..Week - 1 /\ s \in 0..Week - 1
  BY WeekAssumption DEF Weekday
<1>2. Weekday(a + 1) = (r + 1) % Week /\ Weekday(b + 1) = (s + 1) % Week
  BY NextWeekday
<1> HIDE DEF r, s
<1>3. \A x \in 0..Week - 1 : (x + 1) % Week = IF x = Week - 1 THEN 0 ELSE x + 1
  BY <1>1, ModOfNext
<1>4. (r + 1) % Week = (s + 1) % Week <=> r = s
  BY <1>1, <1>3
<1> QED BY <1>2, <1>4 DEF r, s

(* Streamlit's pattern of weekdays, from Sunday on, has the API's weekdays *)
(* and, but for its rounding, their figures.                               *)
LEMMA SundaysFirst ==
  ASSUME NEW T, IsTable(T)
  PROVE  LET sql == LoadDowPattern(T)
             api == DayOfWeekPattern(T)
         IN /\ \A x \in sql : \E y \in api : SameWeekday(x, y)
            /\ \A y \in api : \E x \in sql : SameWeekday(x, y)
<1> DEFINE sql == LoadDowPattern(T)
           api == DayOfWeekPattern(T)
           on(k) == {r \in T : Weekday(r.day) = k}
           next(k) == {r \in T : Weekday(r.day + 1) = k}
           fig(k) == [dow |-> k, total |-> Units(on(k)), avg |-> Avg(Units(on(k)), on(k))]
           row(k) == [dow |-> k, total |-> 10 * Round(Units(next(k)), 10),
                      avg |-> Round(Units(next(k)), Cardinality(next(k)))]
<1>1. /\ api = {fig(k) : k \in {Weekday(r.day) : r \in T}}
      /\ sql = {row(k) : k \in {Weekday(r.day + 1) : r \in T}}
  BY DEF DayOfWeekPattern, LoadDowPattern
<1>2. ASSUME NEW r \in T
      PROVE  SameWeekday(row(Weekday(r.day + 1)), fig(Weekday(r.day)))
  <2> DEFINE rows == on(Weekday(r.day))
             n == Cardinality(rows)
             u == Units(rows)
  <2>1. r \in rows /\ rows \in SUBSET T
    OBVIOUS
  <2>2. next(Weekday(r.day + 1)) = rows
    BY SameWeekdays DEF IsTable
  <2>3. Weekday(r.day + 1) = (Weekday(r.day) + 1) % Week
    BY NextWeekday DEF IsTable
  <2> HIDE DEF rows
  <2>4. u \in Int
    BY <2>1, UnitsOf
  <2>5. n \in Nat \ {0}
    BY <2>1, FS_Subset, FS_CardinalityType, FS_EmptySet DEF IsTable
  <2> HIDE DEF n, u
  <2>6. /\ 2 * (10 * Round(u, 10) - u) \in -10..10
        /\ 2 * (Round(u, n) * n - u) \in -n..n
    <3>1. 2 * (Round(u, n) * n - u) \in -n..n
      BY <2>4, <2>5, RoundIsNear
    <3>2. Round(u, 10) \in Int /\ 2 * (Round(u, 10) * 10 - u) \in -10..10
      <4>1. 10 \in Nat \ {0}
        OBVIOUS
      <4> QED BY <2>4, <4>1, RoundIsNear
    <3>3. 10 * Round(u, 10) = Round(u, 10) * 10
      BY <3>2
    <3> QED BY <3>1, <3>2, <3>3
  <2>7. /\ row(Weekday(r.day + 1)).dow = Weekday(r.day + 1)
        /\ row(Weekday(r.day + 1)).total = 10 * Round(u, 10)
        /\ row(Weekday(r.day + 1)).avg = Round(u, n)
    BY <2>2 DEF n, u
  <2>8. /\ fig(Weekday(r.day)).dow = Weekday(r.day)
        /\ fig(Weekday(r.day)).total = u
        /\ fig(Weekday(r.day)).avg[1] = u
        /\ fig(Weekday(r.day)).avg[2] = n
    BY DEF Avg, rows, n, u
  <2> HIDE DEF row, fig
  <2> QED BY <2>3, <2>6, <2>7, <2>8 DEF SameWeekday
<1> HIDE DEF row, fig, sql, api
<1>3. \A x \in sql : \E y \in api : SameWeekday(x, y)
  BY <1>1, <1>2
<1>4. \A y \in api : \E x \in sql : SameWeekday(x, y)
  BY <1>1, <1>2
<1> QED BY <1>3, <1>4 DEF sql, api

(* The weeks of the fleet add up to the table. *)
LEMMA WeeksAddUp ==
  ASSUME NEW T, IsTable(T)
  PROVE  Totals(WeeklyFleet(T)) = Units(T)
<1> DEFINE panel == WeeklyFleet(T)
           on(k) == {r \in T : WeekStart(r.day) = k}
           fig(k) == [week |-> k, total |-> Units(on(k)),
                      avg |-> Avg(Units(on(k)), Products(on(k)))]
           part == [y \in panel |-> on(y.week)]
<1>1. panel = {fig(k) : k \in {WeekStart(r.day) : r \in T}}
  BY DEF WeeklyFleet
<1>2. \A k : fig(k).week = k /\ fig(k).total = Units(on(k))
  OBVIOUS
<1>3. \A k, r : r \in on(k) <=> r \in T /\ WeekStart(r.day) = k
  OBVIOUS
<1> HIDE DEF panel, on, fig
<1>4. /\ \A y \in panel : y = fig(y.week) /\ \E r \in T : WeekStart(r.day) = y.week
      /\ \A r \in T : fig(WeekStart(r.day)) \in panel
  BY <1>1, <1>2
<1>5. part \in [panel -> SUBSET T] /\ \A y \in panel : part[y] = on(y.week)
  BY <1>3
<1> HIDE DEF part
<1>6. \A r \in T : \E y \in panel : r \in part[y]
  BY <1>2, <1>3, <1>4, <1>5
<1>7. \A y, z \in panel : y # z => part[y] \cap part[z] = {}
  BY <1>3, <1>4, <1>5
<1>8. \A y \in panel : part[y] # {} /\ y.total = Units(part[y])
  BY <1>2, <1>3, <1>4, <1>5
<1>9. Partition(part, panel, T)
  BY <1>5, <1>6, <1>7, <1>8 DEF Partition
<1>10. Totals(panel) = Units(T)
  BY <1>8, <1>9, PanelAddsUp
<1> QED BY <1>10 DEF panel

(* A store's calendar weeks add up to its rows. *)
LEMMA StoreWeeksAddUp ==
  ASSUME NEW T, IsTable(T)
  PROVE  Totals(WeeklyAgg(T)) = Units(T)
<1> DEFINE panel == WeeklyAgg(T)
           on(k) == {r \in T : WeekStart(r.day) = k}
           fig(k) == [week |-> k, total |-> Units(on(k))]
           part == [y \in panel |-> on(y.week)]
<1>1. panel = {fig(k) : k \in {WeekStart(r.day) : r \in T}}
  BY DEF WeeklyAgg
<1>2. \A k : fig(k).week = k /\ fig(k).total = Units(on(k))
  OBVIOUS
<1>3. \A k, r : r \in on(k) <=> r \in T /\ WeekStart(r.day) = k
  OBVIOUS
<1> HIDE DEF panel, on, fig
<1>4. /\ \A y \in panel : y = fig(y.week) /\ \E r \in T : WeekStart(r.day) = y.week
      /\ \A r \in T : fig(WeekStart(r.day)) \in panel
  BY <1>1, <1>2
<1>5. part \in [panel -> SUBSET T] /\ \A y \in panel : part[y] = on(y.week)
  BY <1>3
<1> HIDE DEF part
<1>6. \A r \in T : \E y \in panel : r \in part[y]
  BY <1>2, <1>3, <1>4, <1>5
<1>7. \A y, z \in panel : y # z => part[y] \cap part[z] = {}
  BY <1>3, <1>4, <1>5
<1>8. \A y \in panel : part[y] # {} /\ y.total = Units(part[y])
  BY <1>2, <1>3, <1>4, <1>5
<1>9. Partition(part, panel, T)
  BY <1>5, <1>6, <1>7, <1>8 DEF Partition
<1>10. Totals(panel) = Units(T)
  BY <1>8, <1>9, PanelAddsUp
<1> QED BY <1>10 DEF panel

(* A product's answer, if it is one, has all of its rows. *)
LEMMA AnswerIsOfProduct ==
  ASSUME NEW T, NEW p, GetForecasts(T, p).status = 200
  PROVE  GetForecasts(T, p).rows = OfProduct(T, p)
BY DEF GetForecasts

(* A store's card and its line of the comparison have the figures of the   *)
(* network's tab, and the top store's rank is 100%.                        *)
LEMMA CardAgrees ==
  ASSUME NEW T, IsTable(T), T # {}, NEW f \in FleetSummary(T),
         GetForecasts(T, f.product).status = 200
  PROVE  LET fleet == FleetSummary(T)
             answer == GetForecasts(T, f.product)
             card == StoreCard(answer.rows, fleet)
         IN /\ card.total = f.total /\ card.avg = f.avg /\ card.peak = f.peak
            /\ CompareRow(answer.rows, fleet) =
                 [total |-> card.total, tier |-> card.tier, rank |-> card.rank]
            /\ f.total = NetworkKpis(fleet).top => card.rank[1] = 100 * card.rank[2]
<1> DEFINE fleet == FleetSummary(T)
           rows == OfProduct(T, f.product)
           card == StoreCard(rows, fleet)
<1>1. GetForecasts(T, f.product).rows = rows
  BY AnswerIsOfProduct
<1>2. /\ card.total = Units(rows) /\ card.avg = Avg(Units(rows), rows)
      /\ card.peak = Max({r.units : r \in rows})
      /\ card.rank = PctRank(Units(rows), fleet) /\ card.tier = Tier(Units(rows))
  BY DEF StoreCard
<1>3. /\ f.total = Units(rows) /\ f.avg = Avg(Units(rows), rows)
      /\ f.peak = Max({r.units : r \in rows})
  BY FleetFigures
<1>4. CompareRow(rows, fleet) = [total |-> card.total, tier |-> card.tier, rank |-> card.rank]
  BY <1>2 DEF CompareRow
<1>5. f.total = NetworkKpis(fleet).top => card.rank[1] = 100 * card.rank[2]
  <2> SUFFICES ASSUME f.total = NetworkKpis(fleet).top
               PROVE  card.rank[1] = 100 * card.rank[2]
    OBVIOUS
  <2>1. {g \in fleet : g.total <= f.total} = fleet
    BY FleetTotals
  <2>2. card.rank = Avg(100 * Cardinality({g \in fleet : g.total <= f.total}), fleet)
    BY <1>2, <1>3 DEF PctRank
  <2> HIDE DEF fleet
  <2> QED BY <2>1, <2>2 DEF Avg
<1> HIDE DEF card, rows, fleet
<1> QED BY <1>1, <1>2, <1>3, <1>4, <1>5 DEF card, fleet

(* A number of whole weeks that fits into n days is at most n \div w. *)
LEMMA WholeDivision ==
  ASSUME NEW n \in Nat, NEW w \in Nat \ {0}, NEW i \in 0..3, i * w <= n
  PROVE  n \div w \in Nat /\ i <= n \div w
OBVIOUS

(* The lower of two integers is one of them. *)
LEMMA MinOfTwo ==
  ASSUME NEW a \in Int, NEW b \in Int
  PROVE  Min({a, b}) \in {a, b} /\ Min({a, b}) <= a /\ Min({a, b}) <= b
<1>1. \E x \in {a, b} : \A y \in {a, b} : x <= y
  <2>1. CASE a <= b
    BY <2>1
  <2>2. CASE b <= a
    BY <2>2
  <2> QED BY <2>1, <2>2
<1> QED BY <1>1 DEF Min

(* The place of a row is at most the number of rows. *)
LEMMA PlaceType ==
  ASSUME NEW rows, IsFiniteSet(rows), NEW r
  PROVE  /\ Cardinality(rows) \in Nat
         /\ Place(rows, r) \in Nat
         /\ Place(rows, r) <= Cardinality(rows)
<1> DEFINE before == {q \in rows : InOrder(q, r)}
<1>1. before \in SUBSET rows
  OBVIOUS
<1>2. Place(rows, r) = Cardinality(before)
  BY DEF Place
<1> HIDE DEF before
<1> QED BY <1>1, <1>2, FS_Subset, FS_CardinalityType

(* Each of the first four weeks' rows is in one of the stretches the bars  *)
(* are counted to.                                                         *)
LEMMA WeeksOfMonth ==
  ASSUME NEW n \in Nat, NEW w \in Nat \ {0}, NEW p \in Nat, p < 4 * w, p <= n
  PROVE  \E i \in 0..Min({4, n \div w + 1}) - 1 : i * w <= p /\ p < (i + 1) * w
<1> DEFINE m == n \div w + 1
<1>1. PICK i \in 0..3 : i * w <= p /\ p < (i + 1) * w
  <2>1. CASE p < w
    BY <2>1
  <2>2. CASE w <= p /\ p < 2 * w
    BY <2>2
  <2>3. CASE 2 * w <= p /\ p < 3 * w
    BY <2>3
  <2>4. CASE 3 * w <= p
    BY <2>4
  <2> QED BY <2>1, <2>2, <2>3, <2>4
<1>2. i * w <= n
  BY <1>1
<1>3. m \in Int /\ i < m
  BY <1>2, WholeDivision
<1> HIDE DEF m
<1>4. Min({4, m}) \in {4, m}
  BY <1>3, MinOfTwo
<1>5. i \in 0..Min({4, m}) - 1
  BY <1>3, <1>4
<1> QED BY <1>1, <1>5 DEF m

(* No row is in two stretches. *)
LEMMA OneWeekEach ==
  ASSUME NEW w \in Nat \ {0}, NEW p \in Nat, NEW i \in Nat, NEW j \in Nat,
         i * w <= p, p < (i + 1) * w, j * w <= p, p < (j + 1) * w
  PROVE  i = j
<1>1. CASE i < j
  <2>1. (i + 1) * w <= j * w
    BY <1>1
  <2> QED BY <2>1
<1>2. CASE j < i
  <2>1. (j + 1) * w <= i * w
    BY <1>2
  <2> QED BY <2>1
<1> QED BY <1>1, <1>2

(* The bars of a store's weeks add up to its first four weeks, full or     *)
(* not.                                                                    *)
LEMMA WeekBarsAddUp ==
  ASSUME NEW rows, IsTable(rows)
  PROVE  Totals(WeekOverWeek(rows)) = Units(Slice(rows, 0, 4 * Week))
<1> DEFINE n == Cardinality(rows)
           numbers == 0..Min({4, n \div Week + 1}) - 1
           full == {i \in numbers : Stretch(rows, i) # {}}
           bar(i) == [week |-> i, total |-> Units(Stretch(rows, i))]
           panel == WeekOverWeek(rows)
           month == Slice(rows, 0, 4 * Week)
           part == [y \in panel |-> Stretch(rows, y.week)]
<1>1. IsFiniteSet(rows) /\ Week \in Nat \ {0} /\ n \in Nat
  BY WeekAssumption, FS_CardinalityType DEF IsTable
<1>2. panel = {bar(i) : i \in full}
  BY DEF WeekOverWeek, Bars
<1>3. \A i : bar(i).week = i /\ bar(i).total = Units(Stretch(rows, i))
  OBVIOUS
<1>4. \A i, r : r \in Stretch(rows, i) <=>
                 r \in rows /\ i * Week <= Place(rows, r) /\ Place(rows, r) < (i + 1) * Week
  BY DEF Stretch, Slice
<1>5. \A r : r \in month <=> r \in rows /\ 0 <= Place(rows, r) /\ Place(rows, r) < 4 * Week
  BY DEF Slice
<1>6. numbers \subseteq 0..3
  <2> DEFINE m == n \div Week + 1
  <2>1. m \in Int
    BY <1>1
  <2> HIDE DEF m
  <2>2. Min({4, m}) \in Int /\ Min({4, m}) <= 4
    BY <2>1, MinOfTwo
  <2>3. 0..Min({4, m}) - 1 \subseteq 0..3
    BY <2>2
  <2> QED BY <2>3 DEF m
<1>7. \A r \in rows : Place(rows, r) \in Nat /\ Place(rows, r) <= n
  BY <1>1, PlaceType
<1>8. \A i \in numbers : Stretch(rows, i) \in SUBSET month
  <2> TAKE i \in numbers
  <2>1. i \in 0..3
    BY <1>6
  <2> HIDE DEF numbers, month
  <2>2. \A r \in Stretch(rows, i) :
          r \in rows /\ Place(rows, r) \in Nat /\ Place(rows, r) < (i + 1) * Week
    BY <1>4, <1>7
  <2>3. (i + 1) * Week <= 4 * Week
    BY <1>1, <2>1
  <2>4. (i + 1) * Week \in Int /\ 4 * Week \in Int
    BY <1>1, <2>1
  <2> QED BY <1>5, <2>2, <2>3, <2>4
<1>9. \A r \in month : \E i \in full : r \in Stretch(rows, i)
  <2> TAKE r \in month
  <2>1. PICK i \in numbers : i * Week <= Place(rows, r) /\ Place(rows, r) < (i + 1) * Week
    BY <1>1, <1>5, <1>7, WeeksOfMonth
  <2>2. r \in Stretch(rows, i)
    BY <1>4, <1>5, <2>1
  <2> QED BY <2>2
<1>10. \A i, j \in numbers : i # j => Stretch(rows, i) \cap Stretch(rows, j) = {}
  <2> SUFFICES ASSUME NEW i \in numbers, NEW j \in numbers,
                      NEW r \in Stretch(rows, i) \cap Stretch(rows, j)
               PROVE  i = j
    OBVIOUS
  <2>1. i \in Nat /\ j \in Nat
    BY <1>6
  <2> HIDE DEF numbers
  <2> QED BY <1>1, <1>4, <1>7, <2>1, OneWeekEach
<1>11. full \subseteq numbers /\ \A i \in full : Stretch(rows, i) # {}
  OBVIOUS
<1> HIDE DEF n, numbers, full, bar, panel, month
<1>12. \A y \in panel : y.week \in full /\ y = bar(y.week)
  BY <1>2, <1>3
<1>13. part \in [panel -> SUBSET month] /\ \A y \in panel : part[y] = Stretch(rows, y.week)
  BY <1>8, <1>11, <1>12
<1> HIDE DEF part
<1>14. Partition(part, panel, month)
  <2>1. \A r \in month : \E y \in panel : r \in part[y]
    <3> TAKE r \in month
    <3>1. PICK i \in full : r \in Stretch(rows, i)
      BY <1>9
    <3>2. bar(i) \in panel /\ bar(i).week = i
      BY <1>2, <1>3
    <3> QED BY <1>13, <3>1, <3>2
  <2>2. \A y, z \in panel : y # z => part[y] \cap part[z] = {}
    BY <1>10, <1>11, <1>12, <1>13
  <2>3. \A y \in panel : part[y] # {}
    BY <1>11, <1>12, <1>13
  <2> QED BY <1>13, <2>1, <2>2, <2>3 DEF Partition
<1>15. \A y \in panel : y.total = Units(part[y])
  BY <1>3, <1>12, <1>13
<1>16. IsTable(month)
  BY SubTable DEF month, Slice
<1>17. Totals(panel) = Units(month)
  BY <1>14, <1>15, <1>16, PanelAddsUp
<1> QED BY <1>17 DEF panel, month

(* The rows Streamlit's trends show are a table. *)
LEMMA ShownIsTable ==
  ASSUME NEW T, IsTable(T)
  PROVE  IsTable(ShownRows(T))
<1>1. ShownRows(T) \in SUBSET T
  BY DEF ShownRows
<1> QED BY <1>1, SubTable

(* Streamlit's daily trend adds up to what it shows. *)
LEMMA ShownDaysAddUp ==
  ASSUME NEW T, IsTable(T)
  PROVE  Totals(LoadDailyTrend(T)) = Units(ShownRows(T))
BY ShownIsTable, DaysAddUp DEF LoadDailyTrend

(* Streamlit's weeks add up to what they show. *)
LEMMA ShownWeeksAddUp ==
  ASSUME NEW T, IsTable(T)
  PROVE  Totals(LoadWeeklyFleet(T)) = Units(ShownRows(T))
<1> DEFINE S == ShownRows(T)
           panel == LoadWeeklyFleet(T)
           on(k) == {r \in S : WeekStart(r.day) = k}
           fig(k) == [week |-> k, total |-> Units(on(k)), avg |-> Avg(Units(on(k)), on(k))]
           part == [y \in panel |-> on(y.week)]
<1>1. panel = {fig(k) : k \in {WeekStart(r.day) : r \in S}}
  BY DEF LoadWeeklyFleet
<1>2. \A k : fig(k).week = k /\ fig(k).total = Units(on(k))
  OBVIOUS
<1>3. \A k, r : r \in on(k) <=> r \in S /\ WeekStart(r.day) = k
  OBVIOUS
<1>4. IsTable(S)
  BY ShownIsTable
<1> HIDE DEF S, panel, on, fig
<1>5. /\ \A y \in panel : y = fig(y.week) /\ \E r \in S : WeekStart(r.day) = y.week
      /\ \A r \in S : fig(WeekStart(r.day)) \in panel
  BY <1>1, <1>2
<1>6. part \in [panel -> SUBSET S] /\ \A y \in panel : part[y] = on(y.week)
  BY <1>3
<1> HIDE DEF part
<1>7. \A r \in S : \E y \in panel : r \in part[y]
  BY <1>2, <1>3, <1>5, <1>6
<1>8. \A y, z \in panel : y # z => part[y] \cap part[z] = {}
  BY <1>3, <1>5, <1>6
<1>9. \A y \in panel : part[y] # {} /\ y.total = Units(part[y])
  BY <1>2, <1>3, <1>5, <1>6
<1>10. Partition(part, panel, S)
  BY <1>6, <1>7, <1>8, <1>9 DEF Partition
<1>11. Totals(panel) = Units(S)
  BY <1>4, <1>9, <1>10, PanelAddsUp
<1> QED BY <1>11 DEF panel, S

-----------------------------------------------------------------------------
(* The fleet's tiers.  A fleet has one entry, with its total, for each product. *)
IsFleet(fleet) ==
  /\ IsFiniteSet(fleet)
  /\ \A f \in fleet : f.product \in Int /\ f.total \in Int
  /\ \A f, g \in fleet : f.product = g.product => f = g

(* The summary of a table is a fleet. *)
LEMMA SummaryIsFleet ==
  ASSUME NEW T, IsTable(T)
  PROVE  IsFleet(FleetSummary(T))
BY FleetAddsUp, FleetTotals, FleetFigures DEF IsFleet

(* The higher of two integers is one of them. *)
LEMMA MaxOfTwo ==
  ASSUME NEW a \in Int, NEW b \in Int
  PROVE  Max({a, b}) \in {a, b} /\ Max({a, b}) >= a /\ Max({a, b}) >= b
<1>1. \E x \in {a, b} : \A y \in {a, b} : x >= y
  <2>1. CASE a <= b
    BY <2>1
  <2>2. CASE b <= a
    BY <2>2
  <2> QED BY <2>1, <2>2
<1> QED BY <1>1 DEF Max

(* The first place is High, and a better place is in no lower tier,        *)
(* however few stores there are.                                           *)
LEMMA RankTierFalls ==
  ASSUME NEW n \in Nat, NEW a \in Nat, NEW b \in Nat, a <= b
  PROVE  /\ RankTier(0, n) = "High"
         /\ RankTier(b, n) = "High" => RankTier(a, n) = "High"
         /\ RankTier(b, n) = "Mid" => RankTier(a, n) # "Low"
<1> DEFINE x == (n + 10) \div 20
           h == Max({1, x})
           y == (n + 1) \div 2
           m == Max({h + 1, y})
<1>1. x \in Int /\ y \in Int
  OBVIOUS
<1>2. \A k : RankTier(k, n) = IF k < h THEN "High" ELSE IF k < m THEN "Mid" ELSE "Low"
  BY DEF RankTier
<1> HIDE DEF x, y
<1>3. h \in Int /\ h >= 1
  <2>1. Max({1, x}) \in {1, x} /\ Max({1, x}) >= 1
    BY <1>1, MaxOfTwo
  <2> QED BY <1>1, <2>1
<1> HIDE DEF h
<1>4. m \in Int
  <2>1. h + 1 \in Int
    BY <1>3
  <2> DEFINE k == h + 1
  <2> HIDE DEF k
  <2>2. Max({k, y}) \in {k, y} /\ k \in Int
    BY <1>1, <2>1, MaxOfTwo DEF k
  <2> QED BY <1>1, <2>2 DEF k
<1> HIDE DEF m
<1> QED BY <1>2, <1>3, <1>4

(* No more stores are ahead of a store with a higher total. *)
LEMMA AheadCounts ==
  ASSUME NEW fleet, IsFleet(fleet), NEW f \in fleet
  PROVE  /\ Cardinality(Ahead(fleet, f)) \in Nat
         /\ \A g \in fleet : g.total > f.total =>
              Cardinality(Ahead(fleet, g)) <= Cardinality(Ahead(fleet, f))
<1>1. \A g \in fleet : Ahead(fleet, g) \in SUBSET fleet
  BY DEF Ahead
<1>2. \A g \in fleet : IsFiniteSet(Ahead(fleet, g))
  BY <1>1, FS_Subset DEF IsFleet
<1>3. ASSUME NEW g \in fleet, g.total > f.total
      PROVE  Cardinality(Ahead(fleet, g)) <= Cardinality(Ahead(fleet, f))
  <2>1. Ahead(fleet, g) \in SUBSET Ahead(fleet, f)
    BY <1>3 DEF Ahead, IsFleet
  <2> QED BY <1>2, <2>1, FS_Subset
<1> QED BY <1>2, <1>3, FS_CardinalityType

(* The ranked fleet has the products and totals of the fleet, each with    *)
(* the tier of its place.                                                  *)
LEMMA RankedIs ==
  ASSUME NEW fleet
  PROVE  LET ranked == ComputeStoreTiers(fleet)
             tier(f) == RankTier(Cardinality(Ahead(fleet, f)), Cardinality(fleet))
         IN /\ \A y \in ranked : \E f \in fleet :
                 y.product = f.product /\ y.total = f.total /\ y.tier = tier(f)
            /\ \A f \in fleet : \E y \in ranked :
                 y.product = f.product /\ y.total = f.total /\ y.tier = tier(f)
<1> DEFINE tier(f) == RankTier(Cardinality(Ahead(fleet, f)), Cardinality(fleet))
           ranked == ComputeStoreTiers(fleet)
           row(f) == [product |-> f.product, total |-> f.total, tier |-> tier(f)]
<1>1. ranked = {row(f) : f \in fleet}
  BY DEF ComputeStoreTiers
<1> HIDE DEF tier, ranked
<1>2. \A f : row(f).product = f.product /\ row(f).total = f.total /\ row(f).tier = tier(f)
  OBVIOUS
<1> HIDE DEF row
<1>3. /\ \A y \in ranked : \E f \in fleet :
           y.product = f.product /\ y.total = f.total /\ y.tier = tier(f)
      /\ \A f \in fleet : \E y \in ranked :
           y.product = f.product /\ y.total = f.total /\ y.tier = tier(f)
  BY <1>1, <1>2
<1> QED BY <1>3 DEF tier, ranked

(* No store has a higher total than one in a higher tier. *)
LEMMA RanksInOrder ==
  ASSUME NEW fleet, IsFleet(fleet)
  PROVE  LET ranked == ComputeStoreTiers(fleet)
         IN \A y, z \in ranked :
              /\ y.tier = "High" /\ z.tier = "Mid" => y.total >= z.total
              /\ y.tier = "Mid" /\ z.tier = "Low" => y.total >= z.total
<1> DEFINE ranked == ComputeStoreTiers(fleet)
           place(f) == Cardinality(Ahead(fleet, f))
           n == Cardinality(fleet)
<1>1. \A y \in ranked : \E f \in fleet : y.total = f.total /\ y.tier = RankTier(place(f), n)
  BY RankedIs
<1>2. n \in Nat /\ \A f \in fleet : f.total \in Int
  BY FS_CardinalityType DEF IsFleet
<1>3. \A f \in fleet : /\ place(f) \in Nat
                       /\ \A g \in fleet : g.total > f.total => place(g) <= place(f)
  BY AheadCounts
<1> HIDE DEF ranked, place, n
<1>4. \A a, b \in Nat : a <= b =>
        /\ RankTier(b, n) = "High" => RankTier(a, n) = "High"
        /\ RankTier(b, n) = "Mid" => RankTier(a, n) # "Low"
  BY <1>2, RankTierFalls
<1> SUFFICES ASSUME NEW y \in ranked, NEW z \in ranked
             PROVE  /\ y.tier = "High" /\ z.tier = "Mid" => y.total >= z.total
                    /\ y.tier = "Mid" /\ z.tier = "Low" => y.total >= z.total
  BY DEF ranked
<1>5. PICK f \in fleet : y.total = f.total /\ y.tier = RankTier(place(f), n)
  BY <1>1
<1>6. PICK g \in fleet : z.total = g.total /\ z.tier = RankTier(place(g), n)
  BY <1>1
<1>7. g.total > f.total => place(g) \in Nat /\ place(f) \in Nat /\ place(g) <= place(f)
  BY <1>3
<1>8. ~ g.total > f.total => f.total >= g.total
  BY <1>2
<1> QED BY <1>4, <1>5, <1>6, <1>7, <1>8

(* The highest total is in the highest tier: of the stores that have it,   *)
(* the one with the lowest product has no one ahead.                       *)
LEMMA TopIsHigh ==
  ASSUME NEW fleet, IsFleet(fleet), NEW top, \A f \in fleet : f.total <= top,
         NEW best \in fleet, best.total = top
  PROVE  \E y \in ComputeStoreTiers(fleet) : y.tier = "High" /\ y.total = top
<1> DEFINE tops == {f \in fleet : f.total = top}
           marks == {0 - f.product : f \in tops}
           mark == [f \in tops |-> 0 - f.product]
<1>1. IsFiniteSet(tops)
  BY FS_Subset DEF IsFleet
<1>2. IsFiniteSet(marks)
  <2>1. mark \in [tops -> marks] /\ \A y \in marks : \E f \in tops : mark[f] = y
    OBVIOUS
  <2> HIDE DEF tops, marks, mark
  <2> QED BY <1>1, <2>1, FiniteImage
<1>3. marks # {} /\ marks \subseteq Int
  BY DEF IsFleet
<1>4. PICK f \in tops : \A g \in tops : 0 - g.product <= 0 - f.product
  <2>1. \A g \in tops : 0 - g.product \in marks
    OBVIOUS
  <2>2. \A y \in marks : \E g \in tops : y = 0 - g.product
    OBVIOUS
  <2> HIDE DEF marks, tops
  <2>3. Max(marks) \in marks /\ \A y \in marks : y <= Max(marks)
    BY <1>2, <1>3, MaxOf
  <2> QED BY <2>1, <2>2, <2>3
<1>5. Ahead(fleet, f) = {}
  BY <1>4 DEF Ahead, IsFleet
<1>6. Cardinality(Ahead(fleet, f)) = 0 /\ Cardinality(fleet) \in Nat
  BY <1>5, FS_EmptySet, FS_CardinalityType DEF IsFleet
<1>7. RankTier(Cardinality(Ahead(fleet, f)), Cardinality(fleet)) = "High"
  BY <1>6, RankTierFalls
<1> QED BY <1>4, <1>7, RankedIs

(* The ranked fleet adds up to the fleet. *)
LEMMA RanksAddUp ==
  ASSUME NEW fleet, IsFleet(fleet)
  PROVE  Totals(ComputeStoreTiers(fleet)) = Totals(fleet)
<1> DEFINE ranked == ComputeStoreTiers(fleet)
           part == [y \in ranked |-> {f \in fleet : f.product = y.product}]
<1>1. /\ \A y \in ranked : \E f \in fleet : y.product = f.product /\ y.total = f.total
      /\ \A f \in fleet : \E y \in ranked : y.product = f.product
  BY RankedIs
<1>2. \A y, z \in ranked : y.product = z.product => y = z
  BY DEF ComputeStoreTiers, IsFleet
<1>3. part \in [ranked -> SUBSET fleet]
  OBVIOUS
<1>4. \A y \in ranked : \A f : f \in part[y] <=> f \in fleet /\ f.product = y.product
  OBVIOUS
<1> HIDE DEF ranked, part
<1>5. Partition(part, ranked, fleet)
  BY <1>1, <1>2, <1>3, <1>4 DEF Partition
<1>6. \A f \in fleet : TotalsIn(fleet)[f] = f.total /\ f.total \in Int
  BY DEF TotalsIn, IsFleet
<1>7. \A y \in ranked : TotalsIn(ranked)[y] = SumOver(TotalsIn(fleet), part[y])
  <2> TAKE y \in ranked
  <2>1. PICK f \in fleet : y.product = f.product /\ y.total = f.total
    BY <1>1
  <2>2. part[y] = {f}
    BY <1>4, <2>1 DEF IsFleet
  <2>3. SumOver(TotalsIn(fleet), {f}) = f.total
    BY <1>6, SumSingle
  <2> QED BY <2>1, <2>2, <2>3 DEF TotalsIn
<1>8. SumOver(TotalsIn(ranked), ranked) = SumOver(TotalsIn(fleet), fleet)
  BY <1>5, <1>6, <1>7, SumOfPartition DEF IsFleet
<1> QED BY <1>8, TotalsIs DEF ranked

(* The tiers of the KPIs add up to the fleet. *)
LEMMA TiersAddUp ==
  ASSUME NEW fleet, IsFleet(fleet)
  PROVE  Totals(TierCounts(fleet)) = Totals(fleet)
<1> DEFINE tiers == TierCounts(fleet)
           fig(t) == [tier |-> t, stores |-> Cardinality(InTier(fleet, t)),
                      total |-> Totals(InTier(fleet, t))]
           part == [y \in tiers |-> InTier(fleet, y.tier)]
<1>1. tiers = {fig(t) : t \in {Tier(f.total) : f \in fleet}}
  BY DEF TierCounts
<1>2. \A t : fig(t).tier = t /\ fig(t).total = Totals(InTier(fleet, t))
  OBVIOUS
<1>3. \A t, f : f \in InTier(fleet, t) <=> f \in fleet /\ Tier(f.total) = t
  BY DEF InTier
<1> HIDE DEF tiers, fig
<1>4. /\ \A y \in tiers : y = fig(y.tier) /\ \E f \in fleet : Tier(f.total) = y.tier
      /\ \A f \in fleet : fig(Tier(f.total)) \in tiers
  BY <1>1, <1>2
<1>5. part \in [tiers -> SUBSET fleet] /\ \A y \in tiers : part[y] = InTier(fleet, y.tier)
  BY <1>3
<1> HIDE DEF part
<1>6. Partition(part, tiers, fleet)
  <2>1. \A f \in fleet : \E y \in tiers : f \in part[y]
    BY <1>2, <1>3, <1>4, <1>5
  <2>2. \A y, z \in tiers : y # z => part[y] \cap part[z] = {}
    BY <1>3, <1>4, <1>5
  <2>3. \A y \in tiers : part[y] # {}
    BY <1>3, <1>4, <1>5
  <2> QED BY <1>5, <2>1, <2>2, <2>3 DEF Partition
<1>7. \A f \in fleet : TotalsIn(fleet)[f] = f.total /\ f.total \in Int
  BY DEF TotalsIn, IsFleet
<1>8. \A y \in tiers : TotalsIn(tiers)[y] = SumOver(TotalsIn(fleet), part[y])
  <2> TAKE y \in tiers
  <2> DEFINE some == InTier(fleet, y.tier)
  <2>1. IsFiniteSet(some) /\ some \in SUBSET fleet
    BY <1>3, FS_Subset DEF IsFleet
  <2>2. Totals(some) = SumOver(TotalsIn(some), some)
    BY TotalsIs
  <2>3. TotalsIn(tiers)[y] = Totals(some) /\ part[y] = some
    BY <1>2, <1>4, <1>5 DEF TotalsIn
  <2> HIDE DEF some
  <2>4. \A f \in some : TotalsIn(some)[f] = TotalsIn(fleet)[f]
    BY <2>1 DEF TotalsIn
  <2>5. SumOver(TotalsIn(some), some) = SumOver(TotalsIn(fleet), some)
    BY <2>1, <2>4, SumEqual
  <2> QED BY <2>2, <2>3, <2>5
<1>9. SumOver(TotalsIn(tiers), tiers) = SumOver(TotalsIn(fleet), fleet)
  BY <1>6, <1>7, <1>8, SumOfPartition DEF IsFleet
<1> QED BY <1>9, TotalsIs DEF tiers

StoresIn(tiers, t) == SumFunction([c \in {x \in tiers : x.tier = t} |-> c.stores])

(* The tier table has as many stores in a tier as the fleet. *)
LEMMA StoresCounted ==
  ASSUME NEW fleet, IsFleet(fleet), NEW t
  PROVE  StoresIn(TierCounts(fleet), t) = Cardinality(InTier(fleet, t))
<1> DEFINE tiers == TierCounts(fleet)
           fig(k) == [tier |-> k, stores |-> Cardinality(InTier(fleet, k)),
                      total |-> Totals(InTier(fleet, k))]
           chosen == {x \in tiers : x.tier = t}
           stores == [c \in chosen |-> c.stores]
<1>1. tiers = {fig(k) : k \in {Tier(f.total) : f \in fleet}}
  BY DEF TierCounts
<1>2. \A k : fig(k).tier = k /\ fig(k).stores = Cardinality(InTier(fleet, k))
  OBVIOUS
<1>3. \A f : f \in InTier(fleet, t) <=> f \in fleet /\ Tier(f.total) = t
  BY DEF InTier
<1>4. IsFiniteSet(InTier(fleet, t))
  BY FS_Subset DEF IsFleet, InTier
<1>5. StoresIn(tiers, t) = SumOver(stores, chosen)
  BY SumFunctionIsSum DEF StoresIn
<1>6. \A x : x \in chosen <=> x \in tiers /\ x.tier = t
  OBVIOUS
<1>7. \A x \in chosen : stores[x] = x.stores
  OBVIOUS
<1> HIDE DEF tiers, fig, chosen, stores
<1>8. CASE InTier(fleet, t) = {}
  <2>1. chosen = {}
    BY <1>1, <1>2, <1>3, <1>6, <1>8
  <2> QED BY <1>5, <1>8, <2>1, SumEmpty, FS_EmptySet DEF tiers
<1>9. CASE InTier(fleet, t) # {}
  <2>1. chosen = {fig(t)}
    BY <1>1, <1>2, <1>3, <1>6, <1>9
  <2>2. stores[fig(t)] = Cardinality(InTier(fleet, t)) /\ stores[fig(t)] \in Int
    BY <1>2, <1>4, <1>7, <2>1, FS_CardinalityType
  <2>3. SumOver(stores, {fig(t)}) = stores[fig(t)]
    BY <2>2, SumSingle
  <2> QED BY <1>5, <2>1, <2>2, <2>3 DEF tiers
<1> QED BY <1>8, <1>9

(* The KPIs' shares of high and low stores are those of the tier table. *)
LEMMA KpisCountTiers ==
  ASSUME NEW fleet, IsFleet(fleet)
  PROVE  /\ NetworkKpis(fleet).high[1] = 100 * StoresIn(TierCounts(fleet), "high")
         /\ NetworkKpis(fleet).low[1] = 100 * StoresIn(TierCounts(fleet), "low")
<1>1. InTier(fleet, "high") = {f \in fleet : f.total >= High}
  BY FiguresAssumption DEF InTier, Tier
<1>2. InTier(fleet, "low") = {f \in fleet : f.total < Low}
  BY FiguresAssumption DEF InTier, Tier, IsFleet
<1>3. /\ NetworkKpis(fleet).high = Avg(100 * Cardinality(InTier(fleet, "high")), fleet)
      /\ NetworkKpis(fleet).low = Avg(100 * Cardinality(InTier(fleet, "low")), fleet)
  BY <1>1, <1>2 DEF NetworkKpis
<1> QED BY <1>3, StoresCounted DEF Avg

-----------------------------------------------------------------------------
(* All of the panels together. *)

(* The panels of the whole network add up to the table. *)
LEMMA PanelsOfTable ==
  ASSUME NEW T, IsTable(T)
  PROVE  \A panel \in {FleetSummary(T), DailyTrend(T), DayOfWeekPattern(T), WeeklyFleet(T)} :
           Totals(panel) = Units(T)
BY FleetAddsUp, DaysAddUp, WeekdaysAddUp, WeeksAddUp

(* Streamlit's trends add up to the rows from Shown on. *)
LEMMA PanelsOfShown ==
  ASSUME NEW T, IsTable(T)
  PROVE  \A panel \in {LoadDailyTrend(T), LoadWeeklyFleet(T)} :
           Totals(panel) = Units({r \in T : r.day >= Shown})
<1>1. ShownRows(T) = {r \in T : r.day >= Shown}
  BY DEF ShownRows
<1> QED BY <1>1, ShownDaysAddUp, ShownWeeksAddUp

(* The list of stores has the products of the summary. *)
LEMMA StoresOfTable ==
  ASSUME NEW T
  PROVE  ListStores(T) = {f.product : f \in FleetSummary(T)}
<1> DEFINE fleet == FleetSummary(T)
<1>1. /\ \A r \in T : \E f \in fleet : f.product = r.product
      /\ \A f \in fleet : \E r \in T : f.product = r.product
  BY FleetFigures
<1> HIDE DEF fleet
<1>2. {r.product : r \in T} = {f.product : f \in fleet}
  BY <1>1
<1> QED BY <1>2 DEF ListStores, Products, fleet

(* Both panels of a store's weeks add up to what they cover. *)
LEMMA WeeksOfStore ==
  ASSUME NEW T, IsTable(T), NEW f \in FleetSummary(T),
         GetForecasts(T, f.product).status = 200
  PROVE  LET answer == GetForecasts(T, f.product)
         IN /\ Totals(WeeklyAgg(answer.rows)) = f.total
            /\ Totals(WeekOverWeek(answer.rows)) = Units(Slice(answer.rows, 0, 4 * Week))
<1> DEFINE rows == GetForecasts(T, f.product).rows
<1>1. rows = OfProduct(T, f.product)
  BY AnswerIsOfProduct
<1>2. rows \in SUBSET T
  BY <1>1 DEF OfProduct
<1>3. f.total = Units(rows)
  <2>1. f.total = Units(OfProduct(T, f.product))
    BY FleetFigures
  <2> QED BY <1>1, <2>1
<1> HIDE DEF rows
<1>4. IsTable(rows)
  BY <1>2, SubTable
<1>5. Totals(WeeklyAgg(rows)) = f.total
  BY <1>3, <1>4, StoreWeeksAddUp
<1>6. Totals(WeekOverWeek(rows)) = Units(Slice(rows, 0, 4 * Week))
  BY <1>4, WeekBarsAddUp
<1> QED BY <1>5, <1>6 DEF rows

(* The ranks add up and follow the totals, and the top store is in the     *)
(* highest tier.                                                           *)
LEMMA TiersOfTable ==
  ASSUME NEW T, IsTable(T), T # {}
  PROVE  LET fleet == FleetSummary(T)
             ranked == ComputeStoreTiers(fleet)
             totals(t) == {x.total : x \in {y \in ranked : y.tier = t}}
         IN /\ Totals(ranked) = Units(T)
            /\ NetworkKpis(fleet).top \in totals("High")
            /\ \A a \in totals("High"), b \in totals("Mid") : a >= b
            /\ \A a \in totals("Mid"), b \in totals("Low") : a >= b
<1> DEFINE fleet == FleetSummary(T)
           ranked == ComputeStoreTiers(fleet)
           totals(t) == {x.total : x \in {y \in ranked : y.tier = t}}
           top == NetworkKpis(fleet).top
<1>1. IsFleet(fleet)
  BY SummaryIsFleet
<1>2. Totals(ranked) = Units(T)
  BY <1>1, RanksAddUp, FleetAddsUp
<1>3. top \in {f.total : f \in fleet} /\ \A f \in fleet : f.total <= top
  BY FleetTotals
<1>4. \A y, z \in ranked : /\ y.tier = "High" /\ z.tier = "Mid" => y.total >= z.total
                           /\ y.tier = "Mid" /\ z.tier = "Low" => y.total >= z.total
  <2> HIDE DEF fleet
  <2> QED BY <1>1, RanksInOrder
<1>5. \E y \in ranked : y.tier = "High" /\ y.total = top
  <2>1. PICK best \in fleet : best.total = top
    BY <1>3
  <2> HIDE DEF fleet, top
  <2> QED BY <1>1, <1>3, <2>1, TopIsHigh
<1>6. \A t, a : a \in totals(t) <=> \E y \in ranked : y.tier = t /\ a = y.total
  <2> HIDE DEF ranked
  <2> QED OBVIOUS
<1>7. top \in totals("High")
  <2> HIDE DEF ranked, totals, top
  <2> QED BY <1>5, <1>6
<1>8. \A a \in totals("High"), b \in totals("Mid") : a >= b
  <2> HIDE DEF ranked, totals
  <2> QED BY <1>4, <1>6
<1>9. \A a \in totals("Mid"), b \in totals("Low") : a >= b
  <2> HIDE DEF ranked, totals
  <2> QED BY <1>4, <1>6
<1> HIDE DEF totals
<1> QED BY <1>2, <1>7, <1>8, <1>9 DEF totals

(* All panels of both dashboards speak of the same units, whichever script *)
(* or synchronisation filled the table.                                    *)
THEOREM PanelsAreOfOneTable == Spec => []PanelsAgree
<1>1. ASSUME DataHolds
      PROVE  PanelsAgree
  <2> DEFINE T == forecasts
             fleet == FleetSummary(T)
  <2>1. IsTable(T)
    BY <1>1 DEF DataHolds
  <2>2. \A panel \in {fleet, DailyTrend(T), DayOfWeekPattern(T), WeeklyFleet(T)} :
          Totals(panel) = Units(T)
    BY <2>1, PanelsOfTable
  <2>3. \A panel \in {LoadDailyTrend(T), LoadWeeklyFleet(T)} :
          Totals(panel) = Units({r \in T : r.day >= Shown})
    BY <2>1, PanelsOfShown
  <2>4. ListStores(T) = {f.product : f \in fleet}
    BY StoresOfTable
  <2>5. \A f \in fleet :
          LET answer == GetForecasts(T, f.product)
              card == StoreCard(answer.rows, fleet)
          IN answer.status = 200 =>
               /\ card.total = f.total /\ card.avg = f.avg /\ card.peak = f.peak
               /\ CompareRow(answer.rows, fleet) =
                    [total |-> card.total, tier |-> card.tier, rank |-> card.rank]
               /\ f.total = NetworkKpis(fleet).top => card.rank[1] = 100 * card.rank[2]
               /\ Totals(WeeklyAgg(answer.rows)) = f.total
               /\ Totals(WeekOverWeek(answer.rows))
                    = Units(Slice(answer.rows, 0, 4 * Week))
    <3> TAKE f \in fleet
    <3>1. T # {}
      BY FleetFigures
    <3> QED BY <2>1, <3>1, CardAgrees, WeeksOfStore
  <2>6. LET ranked == ComputeStoreTiers(fleet)
            totals(t) == {x.total : x \in {y \in ranked : y.tier = t}}
        IN T # {} => /\ Totals(ranked) = Units(T)
                     /\ NetworkKpis(fleet).top \in totals("High")
                     /\ \A a \in totals("High"), b \in totals("Mid") : a >= b
                     /\ \A a \in totals("Mid"), b \in totals("Low") : a >= b
    BY <2>1, TiersOfTable
  <2>7. LET tiers == TierCounts(fleet)
            stores(t) == SumFunction([c \in {x \in tiers : x.tier = t} |-> c.stores])
        IN T # {} => /\ NetworkKpis(fleet).high[1] = 100 * stores("high")
                     /\ NetworkKpis(fleet).low[1] = 100 * stores("low")
                     /\ Totals(tiers) = Units(T)
    <3>1. IsFleet(fleet) /\ Totals(fleet) = Units(T)
      BY <2>1, SummaryIsFleet, FleetAddsUp
    <3> HIDE DEF fleet
    <3> QED BY <3>1, KpisCountTiers, TiersAddUp DEF StoresIn
  <2>8. LET sql == LoadDowPattern(T)
            api == DayOfWeekPattern(T)
        IN /\ \A x \in sql : \E y \in api : SameWeekday(x, y)
           /\ \A y \in api : \E x \in sql : SameWeekday(x, y)
    BY <2>1, SundaysFirst
  <2> QED BY <2>2, <2>3, <2>4, <2>5, <2>6, <2>7, <2>8 DEF PanelsAgree
<1> QED BY <1>1, DataIsInOrder, PTL

-----------------------------------------------------------------------------
(* The seed's intervals: a spread of whole numbers is 0 or large, and what *)
(* a large one leaves after the root is not nothing.                       *)

(* A sum grows by what an element that joins the set counts.               *)
LEMMA SumAdd ==
  ASSUME NEW S, IsFiniteSet(S), NEW f, \A x \in S : f[x] \in Int,
         NEW R \in SUBSET S, NEW x \in S \ R
  PROVE  SumOver(f, R \cup {x}) = f[x] + SumOver(f, R)
<1> DEFINE Q == R \cup {x}
<1>1. IsFiniteSet(Q) /\ x \in Q /\ Q \ {x} = R /\ \A y \in Q : f[y] \in Int
  BY FS_Subset
<1> HIDE DEF Q
<1>2. SumOver(f, Q) = f[x] + SumOver(f, Q \ {x})
  BY <1>1, SumTake
<1> QED BY <1>1, <1>2 DEF Q

(* What counts the same everywhere sums to that many times as much.        *)
LEMMA SumOfConstant ==
  ASSUME NEW S, IsFiniteSet(S), NEW f, NEW k \in Int, \A x \in S : f[x] = k
  PROVE  SumOver(f, S) = Cardinality(S) * k
<1> DEFINE Good == {R \in SUBSET S : SumOver(f, R) = Cardinality(R) * k}
<1>1. {} \in Good
  BY SumEmpty, FS_EmptySet
<1>2. ASSUME NEW R \in Good, NEW x \in S \ R
      PROVE  R \cup {x} \in Good
  <2>1. SumOver(f, R \cup {x}) = k + SumOver(f, R)
    BY SumAdd
  <2>2. IsFiniteSet(R)
    BY FS_Subset
  <2>3. Cardinality(R \cup {x}) = Cardinality(R) + 1 /\ Cardinality(R) \in Nat
    BY <2>2, FS_AddElement, FS_CardinalityType
  <2>4. \A n \in Nat : k + n * k = (n + 1) * k
    OBVIOUS
  <2>5. SumOver(f, R \cup {x}) = Cardinality(R \cup {x}) * k
    BY <2>1, <2>3, <2>4
  <2> QED BY <2>5
<1>3. S \in Good
  <2>1. Good \in SUBSET (SUBSET S)
    OBVIOUS
  <2> HIDE DEF Good
  <2> QED BY <1>1, <1>2, <2>1, ElementInduction
<1> QED BY <1>3

(* One more sample a moves the sum of the squared distances from z as the  *)
(* expansion of the square says.                                           *)
LEMMA DistanceStep ==
  \A a, z, H, G, F, n \in Int :
    H = G - 2 * z * F + n * z * z =>
      (a - z) * (a - z) + H = (a * a + G) - 2 * z * (a + F) + (n + 1) * z * z
OBVIOUS

(* The squared distances of all samples from a number z, summed up: the    *)
(* expansion of the square, term by term.                                  *)
LEMMA DistanceOf ==
  ASSUME NEW S, IsFiniteSet(S), NEW f, \A x \in S : f[x] \in Int,
         NEW g, \A x \in S : g[x] = f[x] * f[x],
         NEW z \in Int, NEW h, \A x \in S : h[x] = (f[x] - z) * (f[x] - z)
  PROVE  SumOver(h, S) = SumOver(g, S) - 2 * z * SumOver(f, S) + Cardinality(S) * z * z
<1> DEFINE Good == {R \in SUBSET S :
                      SumOver(h, R) = SumOver(g, R) - 2 * z * SumOver(f, R)
                                        + Cardinality(R) * z * z}
<1>1. {} \in Good
  BY SumEmpty, FS_EmptySet
<1>2. \A x \in S : g[x] \in Int /\ h[x] \in Int
  OBVIOUS
<1>3. ASSUME NEW R \in Good, NEW x \in S \ R
      PROVE  R \cup {x} \in Good
  <2>1. SumOver(f, R \cup {x}) = f[x] + SumOver(f, R)
    BY SumAdd
  <2>2. SumOver(g, R \cup {x}) = f[x] * f[x] + SumOver(g, R)
    BY <1>2, SumAdd
  <2>3. SumOver(h, R \cup {x}) = (f[x] - z) * (f[x] - z) + SumOver(h, R)
    BY <1>2, SumAdd
  <2>4. IsFiniteSet(R)
    BY FS_Subset
  <2>5. Cardinality(R \cup {x}) = Cardinality(R) + 1 /\ Cardinality(R) \in Int
    BY <2>4, FS_AddElement, FS_CardinalityType
  <2>6. SumOver(f, R) \in Int
    BY <2>4, SumType
  <2>7. SumOver(g, R) \in Int
    BY <1>2, <2>4, SumType
  <2>8. SumOver(h, R) \in Int
    BY <1>2, <2>4, SumType
  <2>9. SumOver(h, R) = SumOver(g, R) - 2 * z * SumOver(f, R) + Cardinality(R) * z * z
    OBVIOUS
  <2>10. SumOver(h, R \cup {x}) = SumOver(g, R \cup {x}) - 2 * z * SumOver(f, R \cup {x})
                                    + Cardinality(R \cup {x}) * z * z
    BY <2>1, <2>2, <2>3, <2>5, <2>6, <2>7, <2>8, <2>9, DistanceStep
  <2> QED BY <2>10
<1>4. S \in Good
  <2>1. Good \in SUBSET (SUBSET S)
    OBVIOUS
  <2> HIDE DEF Good
  <2> QED BY <1>1, <1>3, <2>1, ElementInduction
<1> QED BY <1>4

(* How the spread of n samples changes with one more sample z: by the      *)
(* squared distances of the others from z.                                 *)
LEMMA SpreadStep ==
  \A z, H, G, F, n \in Int :
    H = G - 2 * z * F + n * z * z =>
      (n + 1) * (z * z + G) - (z + F) * (z + F) = (n * G - F * F) + H
OBVIOUS

(* A square is not negative, and at least 1 unless it is that of 0.        *)
LEMMA SquareIsPositive ==
  \A k \in Int : k * k \in Int /\ k * k >= 0 /\ (k # 0 => k * k >= 1)
<1>1. ASSUME NEW k \in Int PROVE k * k >= 0 /\ (k # 0 => k * k >= 1)
  <2>1. CASE k >= 0
    BY <2>1
  <2>2. CASE k < 0
    BY <2>2
  <2> QED BY <2>1, <2>2
<1> QED BY <1>1

(* All samples are alike; and the spread of samples f with squares g,      *)
(* which is their number times their squared deviations from their mean:   *)
(* what SeedHalf divides by n * (n - 1).                                   *)
Level(f, R) == \A x, y \in R : f[x] = f[y]
SpreadOver(f, g, R) == Cardinality(R) * SumOver(g, R) - SumOver(f, R) * SumOver(f, R)

(* Whole numbers that are not all alike have a spread of at least their    *)
(* number less one. By induction on the samples: one more adds its squared *)
(* distances from the others, which are 0 only if all are alike.           *)
LEMMA SpreadIsWide ==
  ASSUME NEW S, IsFiniteSet(S), NEW f, \A x \in S : f[x] \in Int,
         NEW g, \A x \in S : g[x] = f[x] * f[x]
  PROVE  SpreadOver(f, g, S) > 0 => SpreadOver(f, g, S) >= Cardinality(S) - 1
<1> DEFINE Good == {R \in SUBSET S :
                      \/ Level(f, R) /\ SpreadOver(f, g, R) = 0
                      \/ ~Level(f, R) /\ SpreadOver(f, g, R) >= Cardinality(R) - 1}
<1>1. {} \in Good
  <2>1. Level(f, {}) /\ SpreadOver(f, g, {}) = 0
    BY SumEmpty, FS_EmptySet DEF Level, SpreadOver
  <2> QED BY <2>1
<1>2. ASSUME NEW R \in Good, NEW q \in S \ R
      PROVE  R \cup {q} \in Good
  <2> DEFINE z == f[q]
             h == [x \in S |-> (f[x] - z) * (f[x] - z)]
             n == Cardinality(R)
             H == SumOver(h, R)
  <2>1. z \in Int /\ \A x \in S : h[x] = (f[x] - z) * (f[x] - z)
    OBVIOUS
  <2>2. \A x \in S : g[x] \in Int /\ h[x] \in Int /\ h[x] >= 0 /\ (f[x] # z => h[x] >= 1)
                     /\ (f[x] = z => h[x] = 0)
    <3> TAKE x \in S
    <3>1. f[x] - z \in Int /\ h[x] = (f[x] - z) * (f[x] - z) /\ g[x] \in Int
      BY <2>1
    <3> DEFINE k == f[x] - z
    <3>2. f[x] # z <=> k # 0
      BY <2>1
    <3> HIDE DEF k
    <3>3. h[x] = k * k /\ k \in Int
      BY <3>1 DEF k
    <3> QED BY <3>1, <3>2, <3>3, SquareIsPositive
  <2>3. IsFiniteSet(R) /\ R \subseteq S
    BY FS_Subset
  <2>4. n \in Nat /\ Cardinality(R \cup {q}) = n + 1
    BY <2>3, FS_AddElement, FS_CardinalityType
  <2> HIDE DEF h, z
  <2>5. H = SumOver(g, R) - 2 * z * SumOver(f, R) + n * z * z
    BY <2>1, <2>3, DistanceOf
  <2>6. /\ SumOver(f, R) \in Int
        /\ SumOver(g, R) \in Int
        /\ H \in Int /\ H >= 0
    <3>1. SumOver(f, R) \in Int
      BY <2>3, SumType
    <3>2. SumOver(g, R) \in Int
      BY <2>2, <2>3, SumType
    <3>3. H \in Int /\ H >= 0
      BY <2>2, <2>3, SumType
    <3> QED BY <3>1, <3>2, <3>3
  <2>7. SpreadOver(f, g, R \cup {q}) = SpreadOver(f, g, R) + H
    <3>1. SumOver(f, R \cup {q}) = z + SumOver(f, R)
      BY SumAdd DEF z
    <3>2. SumOver(g, R \cup {q}) = z * z + SumOver(g, R)
      BY <2>2, SumAdd DEF z
    <3> QED BY <2>1, <2>4, <2>5, <2>6, <3>1, <3>2, SpreadStep DEF SpreadOver
  <2>8. CASE Level(f, R) /\ \A x \in R : f[x] = z
    <3>1. Level(f, R \cup {q})
      BY <2>8 DEF Level, z
    <3>2. \A x \in R : h[x] = 0
      BY <2>2, <2>8
    <3>3. H = n * 0
      BY <2>3, <3>2, SumOfConstant
    <3>4. SpreadOver(f, g, R) = 0
      BY <2>8
    <3>5. SpreadOver(f, g, R \cup {q}) = 0
      BY <2>4, <2>7, <3>3, <3>4
    <3> QED BY <3>1, <3>5
  <2>9. CASE Level(f, R) /\ \E x \in R : f[x] # z
    <3>1. PICK x \in R : f[x] # z
      BY <2>9
    <3>2. ~Level(f, R \cup {q})
      BY <3>1 DEF Level, z
    <3>3. \A y \in R : h[y] = h[x]
      BY <2>1, <2>3, <2>9 DEF Level
    <3>4. H = n * h[x]
      BY <2>2, <2>3, <3>3, SumOfConstant
    <3>5. h[x] \in Int /\ h[x] >= 1
      BY <2>2, <3>1
    <3>6. H >= n
      BY <2>4, <3>4, <3>5
    <3>7. SpreadOver(f, g, R \cup {q}) >= n
      BY <2>4, <2>6, <2>7, <2>9, <3>6
    <3> QED BY <2>4, <3>2, <3>7
  <2>10. CASE ~Level(f, R)
    <3>1. ~Level(f, R \cup {q})
      BY <2>10 DEF Level
    <3>2. PICK x \in R : f[x] # z
      BY <2>10 DEF Level
    <3>3. H = h[x] + SumOver(h, R \ {x})
      BY <2>2, <2>3, SumTake
    <3>4. SumOver(h, R \ {x}) \in Int /\ SumOver(h, R \ {x}) >= 0
      <4>1. IsFiniteSet(R \ {x}) /\ \A y \in R \ {x} : h[y] \in Int /\ h[y] >= 0
        BY <2>2, <2>3, FS_Subset
      <4> DEFINE Q == R \ {x}
      <4> HIDE DEF Q
      <4>2. SumOver(h, Q) \in Int /\ SumOver(h, Q) >= 0
        BY <4>1, SumType DEF Q
      <4> QED BY <4>2 DEF Q
    <3>5. H >= 1
      BY <2>2, <2>3, <3>2, <3>3, <3>4
    <3>6. SpreadOver(f, g, R) >= n - 1 /\ SpreadOver(f, g, R) \in Int
      BY <2>4, <2>6, <2>10 DEF SpreadOver
    <3>7. SpreadOver(f, g, R \cup {q}) >= n
      BY <2>4, <2>6, <2>7, <3>5, <3>6
    <3> QED BY <2>4, <3>1, <3>7
  <2> QED BY <2>8, <2>9, <2>10
<1>3. S \in Good
  <2>1. Good \in SUBSET (SUBSET S)
    OBVIOUS
  <2> HIDE DEF Good
  <2> QED BY <1>1, <1>2, <2>1, ElementInduction
<1> QED BY <1>3

(* The rounded root of 65536 / 100 of a fraction exists, and it is not 0   *)
(* where the fraction is at least 100 / 65536: what SeedHalf makes of a    *)
(* variance.                                                               *)
LEMMA RootIs ==
  ASSUME NEW v1 \in Nat, NEW v2 \in Nat \ {0}
  PROVE  Root(<<v1, v2>>) \in Nat /\ (65536 * v1 >= 100 * v2 => Root(<<v1, v2>>) >= 1)
<1> DEFINE big == 65536 * v1
           Exceeds(h) == big < (2 * h + 1) * (2 * h + 1) * 100 * v2
           Above == {h \in 0..big : Exceeds(h)}
<1>1. big \in Nat
  OBVIOUS
<1>2. big \in Above
  <2>1. (2 * big + 1) * (2 * big + 1) >= 2 * big + 1
    BY <1>1
  <2>2. (2 * big + 1) * (2 * big + 1) \in Nat
    BY <1>1
  <2> DEFINE sq == (2 * big + 1) * (2 * big + 1)
  <2> HIDE DEF sq
  <2>3. sq * 100 * v2 >= sq * 100
    BY <2>2 DEF sq
  <2> HIDE DEF big
  <2>4. sq * 100 * v2 > big
    BY <1>1, <2>1, <2>2, <2>3 DEF sq
  <2> QED BY <1>1, <2>4 DEF sq
<1> HIDE DEF big
<1>3. IsFiniteSet(Above)
  <2>1. Above \in SUBSET (0..big) /\ IsFiniteSet(0..big)
    BY <1>1, FS_Interval
  <2> HIDE DEF Above
  <2> QED BY <2>1, FS_Subset
<1>4. PICK h \in Above : \A k \in Above : h <= k
  <2>1. Above \subseteq Int
    BY <1>1
  <2> HIDE DEF Above
  <2> QED BY <1>2, <1>3, <2>1, LeastOf
<1>5. h > 0 => (2 * h - 1) * (2 * h - 1) * 100 * v2 <= big
  <2> SUFFICES ASSUME h > 0 PROVE (2 * h - 1) * (2 * h - 1) * 100 * v2 <= big
    OBVIOUS
  <2>1. h - 1 \in 0..big /\ h \in Nat
    BY <1>1
  <2>2. h - 1 \notin Above
    BY <1>4, <2>1
  <2>3. 2 * (h - 1) + 1 = 2 * h - 1
    BY <2>1
  <2>4. ~ (big < (2 * h - 1) * (2 * h - 1) * 100 * v2)
    BY <2>1, <2>2, <2>3
  <2>5. (2 * h - 1) * (2 * h - 1) * 100 * v2 \in Int
    BY <2>1
  <2> QED BY <1>1, <2>4, <2>5
<1> DEFINE root == Root(<<v1, v2>>)
           Nearest(k) == /\ big < (2 * k + 1) * (2 * k + 1) * 100 * v2
                         /\ k > 0 => (2 * k - 1) * (2 * k - 1) * 100 * v2 <= big
<1>6. root \in 0..big /\ Nearest(root)
  <2>1. root = CHOOSE k \in 0..big : Nearest(k)
    BY DEF Root, big
  <2>2. h \in 0..big /\ Nearest(h)
    BY <1>5
  <2> HIDE DEF root, Nearest
  <2> QED BY <2>1, <2>2
<1> HIDE DEF root
<1>7. root \in Nat /\ (root = 0 => big < 100 * v2)
  BY <1>1, <1>6
<1> QED BY <1>1, <1>7 DEF big, root

(* What a quotient says of its dividend.                                   *)
LEMMA DivisionAtLeast ==
  \A n, d \in Nat : d > 0 => /\ n \div d \in Nat
                             /\ n >= d => n \div d >= 1
                             /\ n \div d >= 10 => n >= 10 * d
<1> SUFFICES ASSUME NEW n \in Nat, NEW d \in Nat, d > 0
             PROVE  /\ n \div d \in Nat
                    /\ n >= d => n \div d >= 1
                    /\ n \div d >= 10 => n >= 10 * d
  OBVIOUS
<1> DEFINE k == n \div d
<1>1. k \in Int /\ d * k <= n /\ n < d * k + d
  BY SMT
<1> HIDE DEF k
<1>2. k >= 0
  <2>1. k < 0 => d * k + d <= 0
    BY <1>1
  <2> QED BY <1>1, <2>1
<1>3. n >= d => k >= 1
  <2>1. k = 0 => d * k = 0
    OBVIOUS
  <2> QED BY <1>1, <1>2, <2>1
<1>4. k >= 10 => n >= 10 * d
  <2>1. k >= 10 => d * k >= d * 10
    BY <1>1
  <2> QED BY <1>1, <2>1
<1> QED BY <1>1, <1>2, <1>3, <1>4 DEF k

(* The tenths of a fraction: they are at least 1 from a twentieth on, and  *)
(* at most 19 twentieths of a unit make fewer than 10.                     *)
LEMMA TenthsAtLeast ==
  ASSUME NEW x \in Fractions, ~Nan(x)
  PROVE  /\ Tenths(x) \in Nat
         /\ 20 * x[1] >= x[2] => Tenths(x) >= 1
         /\ Tenths(x) >= 10 => 20 * x[1] >= 19 * x[2]
<1> DEFINE n == 20 * x[1] + x[2]
           d == 2 * x[2]
<1>1. x[1] \in Nat /\ x[2] \in Nat /\ x[2] > 0
  BY DEF Fractions, Nan
<1>2. n \in Nat /\ d \in Nat /\ d > 0 /\ Tenths(x) = n \div d
  BY <1>1 DEF Tenths
<1>3. /\ 20 * x[1] >= x[2] => n >= d
      /\ n >= 10 * d => 20 * x[1] >= 19 * x[2]
  BY <1>1
<1> HIDE DEF n, d
<1>4. /\ n \div d \in Nat
      /\ n >= d => n \div d >= 1
      /\ n \div d >= 10 => n >= 10 * d
  BY <1>2, DivisionAtLeast
<1> QED BY <1>2, <1>3, <1>4

(* A store's trend is at most 13/10, also where a mean is no number: the   *)
(* clip of seed_forecasts_local.py and its fallback.                       *)
LEMMA TrendIsClipped ==
  ASSUME NEW file, SalesFile(file), NEW rows \in SUBSET file, NEW s
  PROVE  10 * SeedTrend(rows, s)[1] <= 13 * SeedTrend(rows, s)[2]
<1> DEFINE o == Over(Mean(SeedRecent(rows, s)), Mean(SeedOlder(rows, s)))
           q == Clip(o)
<1>1. SeedRecent(rows, s) \in SUBSET file /\ SeedOlder(rows, s) \in SUBSET file
  BY DEF SeedRecent, SeedOlder, Between, OfStore
<1>2. o \in Fractions
  <2>1. Mean(SeedRecent(rows, s)) \in Fractions /\ Mean(SeedOlder(rows, s)) \in Fractions
    BY <1>1, MeanType
  <2> QED BY <2>1, FractionArithmetic
<1>3. SeedTrend(rows, s) = IF Nan(q) THEN <<1, 1>> ELSE q
  BY DEF SeedTrend
<1> HIDE DEF o
<1>4. o[1] \in Nat /\ o[2] \in Nat
  BY <1>2 DEF Fractions
<1>5. ~Nan(q) => 10 * q[1] <= 13 * q[2]
  <2>1. CASE Nan(o)
    BY <2>1 DEF Clip
  <2>2. CASE ~Nan(o) /\ 10 * o[1] < 7 * o[2]
    <3>1. q = <<7, 10>>
      BY <1>4, <2>2 DEF Clip
    <3> QED BY <3>1
  <2>3. CASE ~Nan(o) /\ ~ (10 * o[1] < 7 * o[2]) /\ 10 * o[1] > 13 * o[2]
    <3>1. q = <<13, 10>>
      BY <2>3 DEF Clip, Nan
    <3> QED BY <3>1
  <2>4. CASE ~Nan(o) /\ ~ (10 * o[1] < 7 * o[2]) /\ ~ (10 * o[1] > 13 * o[2])
    <3>1. q = o
      BY <2>4 DEF Clip, Nan
    <3> QED BY <2>4, <3>1, <1>4
  <2> QED BY <2>1, <2>2, <2>3, <2>4
<1> QED BY <1>3, <1>5

(* A level a / b whose product with a trend c / d of at most 13/10 is at   *)
(* least 19/20 is at least 19/26.                                          *)
LEMMA LevelOfUnits ==
  \A a, b, c, d \in Nat :
    b > 0 /\ d > 0 /\ 10 * c <= 13 * d /\ 20 * (a * c) >= 19 * (b * d) => 26 * a >= 19 * b
<1> SUFFICES ASSUME NEW a \in Nat, NEW b \in Nat, NEW c \in Nat, NEW d \in Nat,
                    b > 0, d > 0, 10 * c <= 13 * d, 20 * (a * c) >= 19 * (b * d)
             PROVE  26 * a >= 19 * b
  OBVIOUS
<1>1. 10 * (a * c) <= 13 * (a * d)
  OBVIOUS
<1>2. 19 * (b * d) <= 26 * (a * d)
  BY <1>1
<1>3. 26 * a < 19 * b => (19 * b - 26 * a) * d >= d
  OBVIOUS
<1>4. (19 * b - 26 * a) * d = 19 * (b * d) - 26 * (a * d)
  OBVIOUS
<1> QED BY <1>2, <1>3, <1>4

(* The samples of one weekday are at most one for each day of the window,  *)
(* since the file has one row for a store on a day.                        *)
LEMMA SamplesAreFew ==
  ASSUME NEW file, SalesFile(file), NEW rows \in SUBSET file, NEW s, NEW d
  PROVE  LET alike == {r \in SeedRecent(rows, s) : Weekday(r.day) = Weekday(d)}
         IN /\ alike \in SUBSET file /\ IsFiniteSet(alike)
            /\ Cardinality(alike) \in Nat /\ Cardinality(alike) <= Recent
            /\ Cardinality(alike) = 0 <=> alike = {}
<1> DEFINE alike == {r \in SeedRecent(rows, s) : Weekday(r.day) = Weekday(d)}
           n == Cardinality(alike)
           last == LastDay(rows)
           days == (last - Recent + 1)..last
           dayOf == [r \in alike |-> r.day]
<1>1. /\ alike \in SUBSET file /\ alike \in SUBSET rows
      /\ \A r \in alike : r.store = s /\ last - Recent < r.day /\ r.day <= last
  BY DEF SeedRecent, Between, OfStore
<1>2. IsFiniteSet(file) /\ IsFiniteSet(alike)
  <2> HIDE DEF alike
  <2> QED BY <1>1, FS_Subset DEF SalesFile
<1>3. n \in Nat /\ (n = 0 <=> alike = {})
  <2> HIDE DEF alike
  <2> QED BY <1>2, FS_CardinalityType, FS_EmptySet
<1>4. Recent \in Nat /\ Recent > 0
  BY WindowAssumption
<1>5. CASE alike = {}
  <2> HIDE DEF alike
  <2>1. n <= Recent
    BY <1>3, <1>4, <1>5
  <2> QED BY <1>1, <1>2, <1>3, <2>1 DEF alike
<1>6. CASE alike # {}
  <2>1. rows # {}
    BY <1>1, <1>6
  <2>2. last \in Int
    BY <2>1, LastDayOf
  <2> HIDE DEF last, alike
  <2>3. \A r \in alike : r.day \in days
    BY <1>1, <1>4, <2>2 DEF SalesFile
  <2>4. dayOf \in Injection(alike, days)
    BY <1>1, <2>3 DEF Injection, IsInjective, SalesFile
  <2> HIDE DEF dayOf
  <2>5. IsFiniteSet(days) /\ Cardinality(days) = Recent
    BY <1>4, <2>2, FS_Interval
  <2> HIDE DEF days
  <2>6. n <= Recent
    BY <2>4, <2>5, FS_Injection
  <2> QED BY <1>1, <1>2, <1>3, <2>6 DEF alike
<1> QED BY <1>1, <1>2, <1>3, <1>5, <1>6

(* Half of an interval's width is a number of tenths, and not 0 where a    *)
(* unit or more is expected: neither where the samples' own deviation is   *)
(* used nor where a share of the level stands in for it. With at most 655  *)
(* samples a spread of n - 1 is 100 / 65536 of n * (n - 1); with more of   *)
(* them the deviation of a single one would round to nothing.              *)
LEMMA SeedHalfIs ==
  ASSUME NEW file, SalesFile(file), NEW rows \in SUBSET file, NEW s, NEW d, Recent <= 655
  PROVE  /\ SeedUnits(rows, s, d) \in Nat
         /\ SeedHalf(rows, s, d) \in Nat
         /\ SeedUnits(rows, s, d) >= 10 => SeedHalf(rows, s, d) >= 1
<1> DEFINE alike == {r \in SeedRecent(rows, s) : Weekday(r.day) = Weekday(d)}
           n == Cardinality(alike)
           f == [r \in alike |-> r.sales]
           g == [r \in alike |-> r.sales * r.sales]
           spread == n * SumFunction(g) - SumFunction(f) * SumFunction(f)
           level == SeedLevel(rows, s, d)
           trend == SeedTrend(rows, s)
           units == SeedUnits(rows, s, d)
           half == SeedHalf(rows, s, d)
<1>1. /\ alike \in SUBSET file /\ IsFiniteSet(alike)
      /\ n \in Nat /\ n <= Recent /\ (n = 0 <=> alike = {})
  BY SamplesAreFew
<1>2. half = CASE n > 1 /\ spread > 0 -> Root(<<spread, n * (n - 1)>>)
               [] n = 0 -> Tenths(Times(<<128 * 15, 10000>>, level))
               [] OTHER -> Tenths(Times(<<128 * 12, 10000>>, level))
  BY DEF SeedHalf
<1>3. \A r \in alike : f[r] \in Int /\ g[r] = f[r] * f[r]
  BY <1>1 DEF SalesFile
<1>4. spread = SpreadOver(f, g, alike)
  BY SumFunctionIsSum DEF SpreadOver
<1> HIDE DEF f, g, alike, spread, half
<1>5. level \in Fractions /\ ~Nan(level) /\ trend \in Fractions /\ ~Nan(trend)
  BY SeedLevelType, SeedTrendType
<1>6. units = Tenths(Times(level, trend))
  BY DEF SeedUnits
<1>7. 10 * trend[1] <= 13 * trend[2]
  BY TrendIsClipped
<1> HIDE DEF level, trend, units
<1>8. /\ level[1] \in Nat /\ level[2] \in Nat /\ level[2] > 0
      /\ trend[1] \in Nat /\ trend[2] \in Nat /\ trend[2] > 0
  BY <1>5 DEF Fractions, Nan
<1>9. units \in Nat /\ (units >= 10 => 26 * level[1] >= 19 * level[2])
  <2>1. Times(level, trend) \in Fractions /\ ~Nan(Times(level, trend))
    BY <1>5, FractionArithmetic
  <2>2. Times(level, trend)[1] = level[1] * trend[1] /\ Times(level, trend)[2] = level[2] * trend[2]
    BY DEF Times
  <2>3. units \in Nat /\ (units >= 10 => 20 * (level[1] * trend[1]) >= 19 * (level[2] * trend[2]))
    BY <1>6, <2>1, <2>2, TenthsAtLeast
  <2> QED BY <1>7, <1>8, <2>3, LevelOfUnits
<1>10. ASSUME NEW w \in {128 * 15, 128 * 12}
       PROVE  LET share == Tenths(Times(<<w, 10000>>, level))
              IN share \in Nat /\ (units >= 10 => share >= 1)
  <2> DEFINE x == Times(<<w, 10000>>, level)
  <2>1. x[1] = w * level[1] /\ x[2] = 10000 * level[2]
    BY DEF Times
  <2>2. x \in Fractions /\ ~Nan(x)
    <3>1. <<w, 10000>> \in Fractions /\ ~Nan(<<w, 10000>>)
      BY DEF Fractions, Nan
    <3> HIDE DEF x
    <3> QED BY <1>5, <3>1, FractionArithmetic DEF x
  <2>3. 26 * level[1] >= 19 * level[2] => 20 * x[1] >= x[2]
    BY <1>8, <2>1
  <2> HIDE DEF x
  <2>4. Tenths(x) \in Nat /\ (20 * x[1] >= x[2] => Tenths(x) >= 1)
    BY <2>2, TenthsAtLeast
  <2> QED BY <1>9, <2>3, <2>4 DEF x
<1>11. CASE n > 1 /\ spread > 0
  <2>1. spread \in Int /\ spread >= n - 1
    <3>1. SumOver(f, alike) \in Int /\ SumOver(g, alike) \in Int
      BY <1>1, <1>3, SumType
    <3>2. SpreadOver(f, g, alike) > 0 => SpreadOver(f, g, alike) >= n - 1
      BY <1>1, <1>3, SpreadIsWide
    <3> QED BY <1>1, <1>4, <1>11, <3>1, <3>2 DEF SpreadOver
  <2>2. n * (n - 1) \in Nat \ {0}
    BY <1>1, <1>11
  <2>3. n <= 655
    BY <1>1, WindowAssumption
  <2>4. 100 * (n * (n - 1)) <= 65536 * (n - 1)
    BY <1>1, <1>11, <2>3
  <2>5. 65536 * spread >= 100 * (n * (n - 1))
    BY <1>1, <2>1, <2>2, <2>4
  <2> DEFINE v2 == n * (n - 1)
  <2>6. half = Root(<<spread, v2>>)
    BY <1>2, <1>11
  <2> HIDE DEF v2
  <2>7. half \in Nat /\ half >= 1
    BY <1>11, <2>1, <2>2, <2>5, <2>6, RootIs DEF v2
  <2> QED BY <1>9, <2>7 DEF units, half
<1>12. CASE ~ (n > 1 /\ spread > 0)
  <2>1. half \in {Tenths(Times(<<128 * 15, 10000>>, level)),
                 Tenths(Times(<<128 * 12, 10000>>, level))}
    <3>1. CASE n = 0
      BY <1>2, <1>12, <3>1
    <3>2. CASE n # 0
      BY <1>2, <1>12, <3>2
    <3> QED BY <3>1, <3>2
  <2>2. half \in Nat /\ (units >= 10 => half >= 1)
    BY <1>10, <2>1
  <2> QED BY <1>9, <2>2 DEF units, half
<1> QED BY <1>11, <1>12

(* What the seed writes for one store and day: an interval around the      *)
(* expected units, with a width where a unit or more is expected.          *)
LEMMA SeededRow ==
  ASSUME NEW file, SalesFile(file), NEW rows \in SUBSET file, NEW s, NEW d, Recent <= 655
  PROVE  LET units == SeedUnits(rows, s, d)
             lower == Max({units - SeedHalf(rows, s, d), 0})
             upper == units + SeedHalf(rows, s, d)
         IN /\ units \in Nat
            /\ lower <= units /\ units <= upper
            /\ units >= 10 => lower < upper
<1> DEFINE u == SeedUnits(rows, s, d)
           h == SeedHalf(rows, s, d)
           l == u - h
<1>1. u \in Nat /\ h \in Nat /\ (u >= 10 => h >= 1)
  BY SeedHalfIs
<1> HIDE DEF u, h
<1>2. l \in Int
  BY <1>1
<1>3. l <= u /\ 0 <= u /\ u <= u + h /\ (u >= 10 => l < u + h /\ 0 < u + h)
  BY <1>1
<1> HIDE DEF l
<1>4. Max({l, 0}) \in {l, 0}
  BY <1>2, MaxOfTwo
<1> QED BY <1>1, <1>3, <1>4 DEF l, u, h

(* The API serves a seeded store: one row for each of the days it          *)
(* forecasts, none refused by the response model.                          *)
LEMMA SeededStoreIsServed ==
  ASSUME NEW file, SalesFile(file), NEW n, SeedRows(file, n) # {},
         NEW p \in StoresOf(SeedRows(file, n)), Recent <= 655
  PROVE  LET answer == GetForecasts(BuildForecasts(file, n), p)
         IN /\ answer.status = 200
            /\ Cardinality(answer.rows) = Horizon
            /\ Cardinality({r.day : r \in answer.rows}) = Horizon
            /\ \A r \in answer.rows :
                 /\ r.lower <= r.units /\ r.units <= r.upper
                 /\ r.units >= 10 => r.lower < r.upper
<1> DEFINE rows == SeedRows(file, n)
           last == LastDay(rows)
           row(s, d) == [product |-> s, day |-> d, units |-> SeedUnits(rows, s, d),
                         lower |-> Max({SeedUnits(rows, s, d) - SeedHalf(rows, s, d), 0}),
                         upper |-> SeedUnits(rows, s, d) + SeedHalf(rows, s, d), copy |-> 1]
           T == BuildForecasts(file, n)
           mine == OfProduct(T, p)
           days == {r.day : r \in mine}
           steps == 1..Horizon
<1>1. T = {row(s, last + i) : s \in StoresOf(rows), i \in steps}
  BY DEF BuildForecasts
<1>2. rows \in SUBSET file /\ rows # {}
  BY DEF SeedRows, OpenOnes
<1>3. last \in Int
  <2> HIDE DEF rows
  <2> QED BY <1>2, LastDayOf
<1>4. \A s, d : /\ row(s, d).product = s /\ row(s, d).day = d
                /\ row(s, d).units = SeedUnits(rows, s, d)
                /\ row(s, d).lower = Max({SeedUnits(rows, s, d) - SeedHalf(rows, s, d), 0})
                /\ row(s, d).upper = SeedUnits(rows, s, d) + SeedHalf(rows, s, d)
  OBVIOUS
<1>5. p \in StoresOf(rows)
  OBVIOUS
<1> HIDE DEF row, T, rows, last
<1>6. \A s, d : /\ row(s, d).units >= 0
                /\ row(s, d).lower <= row(s, d).units /\ row(s, d).units <= row(s, d).upper
                /\ row(s, d).units >= 10 => row(s, d).lower < row(s, d).upper
  <2> TAKE s, d
  <2> DEFINE u == SeedUnits(rows, s, d)
             h == SeedHalf(rows, s, d)
  <2>1. /\ u \in Nat
        /\ Max({u - h, 0}) <= u /\ u <= u + h
        /\ u >= 10 => Max({u - h, 0}) < u + h
    BY <1>2, SeededRow
  <2>2. row(s, d).units = u /\ row(s, d).lower = Max({u - h, 0}) /\ row(s, d).upper = u + h
    BY <1>4
  <2> HIDE DEF u, h
  <2> QED BY <2>1, <2>2
<1>7. \A r : r \in mine <=> \E i \in steps : r = row(p, last + i)
  BY <1>1, <1>4, <1>5 DEF OfProduct
<1>8. Horizon \in Nat \ {0}
  BY WindowAssumption
<1>9. IsFiniteSet(steps) /\ Cardinality(steps) = Horizon
  <2>1. 1 \in Int /\ Horizon \in Int /\ ~ 1 > Horizon /\ Horizon - 1 + 1 = Horizon
    BY <1>8
  <2> QED BY <2>1, FS_Interval
<1>10. GetForecasts(T, p).status = 200 /\ GetForecasts(T, p).rows = mine
  <2>1. 1 \in steps
    BY <1>8
  <2>2. mine # {}
    BY <1>7, <2>1
  <2>3. \A r \in mine : ~ r.units < 0
    <3>1. \A s, d : row(s, d).units \in Nat
      BY <1>2, <1>4, SeedHalfIs
    <3> QED BY <1>7, <3>1
  <2> HIDE DEF mine
  <2> QED BY <2>2, <2>3 DEF GetForecasts, mine
<1> HIDE DEF mine
<1>11. Cardinality(mine) = Horizon
  <2> DEFINE h == [i \in steps |-> row(p, last + i)]
  <2>1. h \in [steps -> mine] /\ \A i \in steps : h[i] = row(p, last + i)
    BY <1>7
  <2>2. \A i, j \in steps : h[i] = h[j] => i = j
    <3> TAKE i, j \in steps
    <3>1. h[i] = h[j] => last + i = last + j
      BY <1>4, <2>1
    <3> QED BY <1>3, <3>1
  <2>3. \A r \in mine : \E i \in steps : h[i] = r
    BY <1>7
  <2> HIDE DEF h
  <2>4. h \in Bijection(steps, mine)
    BY <2>1, <2>2, <2>3 DEF Bijection, Injection, IsInjective, Surjection
  <2> QED BY <1>9, <2>4, FS_Bijection DEF ExistsBijection
<1>12. Cardinality(days) = Horizon
  <2> DEFINE h == [i \in steps |-> last + i]
  <2>1. h \in [steps -> days] /\ \A i \in steps : h[i] = last + i
    <3> SUFFICES ASSUME NEW i \in steps PROVE last + i \in days
      OBVIOUS
    <3>1. row(p, last + i) \in mine /\ row(p, last + i).day = last + i
      BY <1>4, <1>7
    <3> QED BY <3>1
  <2>2. \A i, j \in steps : h[i] = h[j] => i = j
    BY <1>3, <2>1
  <2>3. \A d \in days : \E i \in steps : h[i] = d
    BY <1>4, <1>7, <2>1
  <2> HIDE DEF h, days
  <2>4. h \in Bijection(steps, days)
    BY <2>1, <2>2, <2>3 DEF Bijection, Injection, IsInjective, Surjection
  <2> QED BY <1>9, <2>4, FS_Bijection DEF ExistsBijection
<1>13. \A r \in mine : /\ r.lower <= r.units /\ r.units <= r.upper
                       /\ r.units >= 10 => r.lower < r.upper
  BY <1>6, <1>7
<1> QED BY <1>10, <1>11, <1>12, <1>13 DEF T

(* SeedIsServed: whatever the sales file is, after a run of                *)
(* seed_forecasts_local.py the API answers for every store of its training *)
(* rows with the whole horizon and intervals that have a width wherever a  *)
(* unit or more is expected. The window may have 655 days                  *)
(* (seed_forecasts_local.py: 56).                                          *)
THEOREM SeededStoresAreServed ==
  ASSUME Recent <= 655
  PROVE  Spec => SeedIsServed
<1>1. ASSUME DataHolds
      PROVE  \A n \in {1, Cardinality(train)} : SeedForecasts(n) =>
       \A p \in StoresOf(SeedRows(train, n)) :
         LET answer == GetForecasts(forecasts', p)
         IN /\ answer.status = 200
            /\ Cardinality(answer.rows) = Horizon
            /\ Cardinality({r.day : r \in answer.rows}) = Horizon
            /\ \A r \in answer.rows :
                 /\ r.lower <= r.units /\ r.units <= r.upper
                 /\ r.units >= 10 => r.lower < r.upper
  <2> TAKE n \in {1, Cardinality(train)}
  <2> SUFFICES ASSUME SeedForecasts(n), NEW p \in StoresOf(SeedRows(train, n))
               PROVE  LET answer == GetForecasts(forecasts', p)
                      IN /\ answer.status = 200
                         /\ Cardinality(answer.rows) = Horizon
                         /\ Cardinality({r.day : r \in answer.rows}) = Horizon
                         /\ \A r \in answer.rows :
                              /\ r.lower <= r.units /\ r.units <= r.upper
                              /\ r.units >= 10 => r.lower < r.upper
    OBVIOUS
  <2>1. SalesFile(train) /\ SeedRows(train, n) # {} /\ forecasts' = BuildForecasts(train, n)
    BY <1>1 DEF DataHolds, SeedForecasts
  <2> QED BY <2>1, SeededStoreIsServed
<1> QED BY <1>1, DataIsInOrder, PTL DEF SeedIsServed

-----------------------------------------------------------------------------
(* The ETL: a row for a line.  The library has no facts about FlattenSeq   *)
(* either; they are derived like those about sums.                         *)

(* What holds of 1 and, with a number, of the next one up to n, holds up   *)
(* to n.                                                                   *)
LEMMA IntervalInduction ==
  ASSUME NEW n \in Nat, NEW Good, n > 0 => 1 \in Good,
         \A i \in 1..n : i \in Good /\ i < n => i + 1 \in Good
  PROVE  \A i \in 1..n : i \in Good
<1> DEFINE Bad == (1..n) \ Good
<1> SUFFICES ASSUME Bad # {} PROVE FALSE
  OBVIOUS
<1>1. Bad \subseteq Int /\ Bad \in SUBSET (1..n)
  OBVIOUS
<1>2. IsFiniteSet(1..n)
  BY FS_Interval
<1> HIDE DEF Bad
<1>3. IsFiniteSet(Bad)
  BY <1>1, <1>2, FS_Subset
<1>4. PICK h \in Bad : \A k \in Bad : h <= k
  BY <1>1, <1>3, LeastOf
<1>5. h \in 1..n /\ h \notin Good /\ h - 1 \notin Bad
  BY <1>4 DEF Bad
<1>6. h = 1 \/ (h - 1 \in 1..n /\ h - 1 < n /\ (h - 1) + 1 = h)
  BY <1>5
<1> QED BY <1>5, <1>6 DEF Bad

(* The table of the concatenations of the first sequences of ss, as        *)
(* FlattenSeq builds it.                                                   *)
Joins(ss, n, g) == g = [i \in 1..n |-> IF i = 1 THEN ss[i] ELSE g[i - 1] \o ss[i]]

(* There is such a table for any number of sequences.                      *)
LEMMA JoinsExist ==
  ASSUME NEW ss, NEW n \in Nat
  PROVE  \E g : Joins(ss, n, g)
<1> DEFINE Good == {m \in 1..n : \E g : Joins(ss, m, g)}
<1>1. CASE n = 0
  <2> DEFINE g == [i \in 1..0 |-> 0]
  <2>1. Joins(ss, 0, g)
    BY DEF Joins
  <2> QED BY <1>1, <2>1
<1>2. n > 0 => 1 \in Good
  <2> DEFINE g == [i \in 1..1 |-> ss[i]]
  <2>1. Joins(ss, 1, g)
    BY DEF Joins
  <2> QED BY <2>1
<1>3. ASSUME NEW m \in 1..n, m \in Good, m < n PROVE m + 1 \in Good
  <2>1. PICK g : Joins(ss, m, g)
    BY <1>3
  <2> DEFINE h == [i \in 1..(m + 1) |-> IF i = m + 1 THEN g[m] \o ss[i] ELSE g[i]]
  <2>2. \A i \in 1..m : h[i] = g[i]
    OBVIOUS
  <2>3. h[m + 1] = g[m] \o ss[m + 1] /\ h = [i \in 1..(m + 1) |-> h[i]]
    <3>1. m + 1 \in 1..(m + 1)
      OBVIOUS
    <3>2. h[m + 1] = g[m] \o ss[m + 1]
      BY <3>1
    <3>3. h = [i \in 1..(m + 1) |-> h[i]]
      OBVIOUS
    <3> QED BY <3>2, <3>3
  <2> HIDE DEF h
  <2>4. \A i \in 1..(m + 1) : h[i] = IF i = 1 THEN ss[i] ELSE h[i - 1] \o ss[i]
    <3> TAKE i \in 1..(m + 1)
    <3>1. CASE i = m + 1
      <4>1. i # 1 /\ i - 1 = m /\ m \in 1..m
        BY <3>1
      <4> QED BY <2>2, <2>3, <3>1, <4>1
    <3>2. CASE i # m + 1
      <4>1. i \in 1..m /\ (i # 1 => i - 1 \in 1..m)
        BY <3>2
      <4>2. g[i] = IF i = 1 THEN ss[i] ELSE g[i - 1] \o ss[i]
        BY <2>1, <4>1 DEF Joins
      <4> QED BY <2>2, <4>1, <4>2
    <3> QED BY <3>1, <3>2
  <2>5. Joins(ss, m + 1, h)
    BY <2>3, <2>4 DEF Joins
  <2>6. m + 1 \in 1..n
    BY <1>3
  <2> QED BY <2>5, <2>6
<1>4. CASE n > 0
  <2> HIDE DEF Good
  <2>1. \A i \in 1..n : i \in Good
    BY <1>2, <1>3, IntervalInduction
  <2>2. n \in 1..n
    BY <1>4
  <2> QED BY <2>1, <2>2 DEF Good
<1> QED BY <1>1, <1>4

(* FlattenSeq is the last entry of such a table.                           *)
LEMMA FlattenIs ==
  ASSUME NEW ss, Len(ss) \in Nat \ {0}
  PROVE  \E g : Joins(ss, Len(ss), g) /\ FlattenSeq(ss) = g[Len(ss)]
<1> DEFINE g == CHOOSE f : Joins(ss, Len(ss), f)
<1>1. FlattenSeq(ss) = g[Len(ss)]
  BY DEF FlattenSeq, Joins
<1>2. Joins(ss, Len(ss), g)
  BY JoinsExist
<1> QED BY <1>1, <1>2

(* The places in the first n sequences of ss; and a correspondence b of    *)
(* these with the positions of one sequence, flat, that has the same       *)
(* elements there.                                                         *)
Places(ss, n) == {x \in (1..n) \X Nat : x[2] \in 1..Len(ss[x[1]])}
Tracks(ss, n, flat, b) ==
  /\ \A x \in Places(ss, n) : b[x] \in 1..Len(flat) /\ flat[b[x]] = ss[x[1]][x[2]]
  /\ \A x, y \in Places(ss, n) : b[x] = b[y] => x = y
  /\ \A i \in 1..Len(flat) : \E x \in Places(ss, n) : b[x] = i

(* Nothing is lost or added when sequences are joined: the places of all   *)
(* of them correspond to the positions of the result.                      *)
LEMMA FlattenTracks ==
  ASSUME NEW T, NEW ss \in Seq(Seq(T))
  PROVE  /\ FlattenSeq(ss) \in Seq(T)
         /\ \E b : Tracks(ss, Len(ss), FlattenSeq(ss), b)
<1> DEFINE n == Len(ss)
<1>1. n \in Nat /\ \A i \in 1..n : ss[i] \in Seq(T)
  BY ElementOfSeq, LenProperties
<1>2. CASE n = 0
  <2>1. ss = <<>> /\ FlattenSeq(ss) = ss
    BY <1>2, EmptySeq DEF FlattenSeq
  <2>2. <<>> \in Seq(T) /\ Len(<<>>) = 0
    BY EmptySeq
  <2>3. Tracks(<<>>, 0, <<>>, <<>>)
    BY <2>2 DEF Tracks, Places
  <2> QED BY <1>2, <2>1, <2>2, <2>3
<1>3. CASE n > 0
  <2>1. PICK g : Joins(ss, n, g) /\ FlattenSeq(ss) = g[n]
    BY <1>1, <1>3, FlattenIs
  <2> DEFINE Good == {m \in 1..n : g[m] \in Seq(T) /\ \E b : Tracks(ss, m, g[m], b)}
  <2> HIDE DEF n
  <2>2. 1 \in Good
    <3> DEFINE b == [x \in Places(ss, 1) |-> x[2]]
    <3>1. 1 \in 1..n
      BY <1>1, <1>3
    <3>2. g[1] = ss[1] /\ ss[1] \in Seq(T) /\ Len(ss[1]) \in Nat
      BY <1>1, <2>1, <3>1, LenProperties DEF Joins
    <3>3. \A x \in Places(ss, 1) : /\ x = <<1, x[2]>> /\ x[1] = 1
                                   /\ x[2] \in 1..Len(ss[1]) /\ b[x] = x[2]
      BY DEF Places
    <3>4. \A i \in 1..Len(ss[1]) : <<1, i>> \in Places(ss, 1) /\ b[<<1, i>>] = i
      BY <3>2 DEF Places
    <3> HIDE DEF b
    <3>5. \A x, y \in Places(ss, 1) : b[x] = b[y] => x = y
      <4> SUFFICES ASSUME NEW x \in Places(ss, 1), NEW y \in Places(ss, 1), b[x] = b[y]
                   PROVE  x = y
        OBVIOUS
      <4>1. x[2] = y[2]
        BY <3>3
      <4> QED BY <3>3, <4>1
    <3>6. \A x \in Places(ss, 1) : b[x] \in 1..Len(ss[1]) /\ ss[1][b[x]] = ss[x[1]][x[2]]
      BY <3>3
    <3>7. Tracks(ss, 1, ss[1], b)
      BY <3>4, <3>5, <3>6 DEF Tracks
    <3> QED BY <3>1, <3>2, <3>7
  <2>3. ASSUME NEW m \in 1..n, m \in Good, m < n PROVE m + 1 \in Good
    <3> DEFINE s == g[m]
               t == ss[m + 1]
    <3>1. m + 1 \in 1..n /\ m + 1 # 1 /\ (m + 1) - 1 = m
      BY <2>3, <1>1
    <3>2. s \in Seq(T) /\ t \in Seq(T)
      BY <1>1, <2>3, <3>1
    <3>3. PICK b : Tracks(ss, m, s, b)
      BY <2>3
    <3>4. g[m + 1] = s \o t
      BY <2>1, <3>1 DEF Joins
    <3>5. Len(s) \in Nat /\ Len(t) \in Nat
      BY <3>2, LenProperties
    <3>6. /\ s \o t \in Seq(T)
          /\ Len(s \o t) = Len(s) + Len(t)
          /\ \A i \in 1..(Len(s) + Len(t)) :
               (s \o t)[i] = IF i <= Len(s) THEN s[i] ELSE t[i - Len(s)]
      BY <3>2, ConcatProperties
    <3> DEFINE c == [x \in Places(ss, m + 1) |-> IF x[1] = m + 1 THEN Len(s) + x[2] ELSE b[x]]
    <3> HIDE DEF s, Good
    <3>7. \A x \in Places(ss, m + 1) :
            \/ x = <<m + 1, x[2]>> /\ x[1] = m + 1 /\ x[2] \in 1..Len(t) /\ c[x] = Len(s) + x[2]
            \/ x[1] # m + 1 /\ x \in Places(ss, m) /\ c[x] = b[x]
      BY <1>1 DEF Places
    <3>8. \A k \in 1..Len(t) : <<m + 1, k>> \in Places(ss, m + 1) /\ c[<<m + 1, k>>] = Len(s) + k
      BY <3>5 DEF Places
    <3>9. \A x \in Places(ss, m) : x \in Places(ss, m + 1) /\ x[1] # m + 1 /\ c[x] = b[x]
      BY <1>1 DEF Places
    <3> HIDE DEF c, t
    <3>10. \A x \in Places(ss, m) : b[x] \in 1..Len(s) /\ s[b[x]] = ss[x[1]][x[2]]
      BY <3>3 DEF Tracks
    <3>11. ASSUME NEW x \in Places(ss, m + 1)
           PROVE  c[x] \in 1..Len(s \o t) /\ (s \o t)[c[x]] = ss[x[1]][x[2]]
      <4>1. CASE x[1] = m + 1
        <5>1. x[2] \in 1..Len(t) /\ c[x] = Len(s) + x[2]
          BY <3>7, <4>1
        <5>2. c[x] \in 1..(Len(s) + Len(t)) /\ ~ c[x] <= Len(s) /\ c[x] - Len(s) = x[2]
          BY <3>5, <5>1
        <5>3. (s \o t)[c[x]] = t[x[2]]
          BY <3>6, <5>2
        <5> QED BY <3>6, <4>1, <5>2, <5>3 DEF t
      <4>2. CASE x[1] # m + 1
        <5>1. x \in Places(ss, m) /\ c[x] = b[x]
          BY <3>7, <4>2
        <5>2. b[x] \in 1..(Len(s) + Len(t)) /\ b[x] <= Len(s)
          BY <3>5, <3>10, <5>1
        <5>3. (s \o t)[c[x]] = s[b[x]]
          BY <3>6, <5>1, <5>2
        <5> QED BY <3>6, <3>10, <5>1, <5>2, <5>3
      <4> QED BY <4>1, <4>2
    <3>12. ASSUME NEW x \in Places(ss, m + 1), NEW y \in Places(ss, m + 1), c[x] = c[y]
           PROVE  x = y
      <4>1. CASE x[1] = m + 1 /\ y[1] = m + 1
        BY <3>5, <3>7, <3>12, <4>1
      <4>2. CASE x[1] # m + 1 /\ y[1] # m + 1
        <5>1. x \in Places(ss, m) /\ y \in Places(ss, m) /\ b[x] = b[y]
          BY <3>7, <3>12, <4>2
        <5> QED BY <3>3, <5>1 DEF Tracks
      <4>3. CASE x[1] = m + 1 /\ y[1] # m + 1
        BY <3>5, <3>7, <3>10, <3>12, <4>3
      <4>4. CASE x[1] # m + 1 /\ y[1] = m + 1
        BY <3>5, <3>7, <3>10, <3>12, <4>4
      <4> QED BY <4>1, <4>2, <4>3, <4>4
    <3>13. ASSUME NEW i \in 1..Len(s \o t) PROVE \E x \in Places(ss, m + 1) : c[x] = i
      <4>1. CASE i <= Len(s)
        <5>1. i \in 1..Len(s)
          BY <3>5, <3>6, <4>1
        <5>2. PICK x \in Places(ss, m) : b[x] = i
          BY <3>3, <5>1 DEF Tracks
        <5> QED BY <3>9, <5>2
      <4>2. CASE ~ i <= Len(s)
        <5>1. i - Len(s) \in 1..Len(t) /\ Len(s) + (i - Len(s)) = i
          BY <3>5, <3>6, <4>2
        <5> QED BY <3>8, <5>1
      <4> QED BY <4>1, <4>2
    <3>14. Tracks(ss, m + 1, s \o t, c)
      BY <3>11, <3>12, <3>13 DEF Tracks
    <3> QED BY <3>1, <3>4, <3>6, <3>14 DEF Good
  <2> HIDE DEF Good
  <2>4. \A i \in 1..n : i \in Good
    BY <1>1, <2>2, <2>3, IntervalInduction
  <2>5. n \in 1..n
    BY <1>1, <1>3
  <2>6. g[n] \in Seq(T) /\ \E b : Tracks(ss, n, g[n], b)
    BY <2>4, <2>5 DEF Good
  <2> QED BY <2>1, <2>6 DEF n
<1> QED BY <1>1, <1>2, <1>3

(* The elements for which a step yields something; and a correspondence c  *)
(* of these with the positions of the collection it makes.                 *)
Kept(ss) == {k \in 1..Len(ss) : ss[k] # <<>>}
Follows(ss, flat, c) ==
  /\ \A k \in Kept(ss) : c[k] \in 1..Len(flat) /\ flat[c[k]] = ss[k][1]
  /\ \A k, l \in Kept(ss) : c[k] = c[l] => k = l
  /\ \A i \in 1..Len(flat) : \E k \in Kept(ss) : c[k] = i

(* What a step yields for an element it drops and for one it passes on.    *)
LEMMA NoneOrOne ==
  Len(<<>>) = 0 /\ \A v : Len(<<v>>) = 1 /\ <<v>>[1] = v /\ <<v>> # <<>>
<1>1. Len(<<>>) = 0
  BY EmptySeq
<1>2. \A v : Len(<<v>>) = 1 /\ <<v>>[1] = v
  OBVIOUS
<1>3. \A v : <<v>> # <<>>
  OBVIOUS
<1> QED BY <1>1, <1>2, <1>3

(* A step that yields at most one element for an element keeps those for   *)
(* which it yields one, each once.                                         *)
LEMMA ParDoFollows ==
  ASSUME NEW T, NEW ss \in Seq(Seq(T)), \A k \in 1..Len(ss) : Len(ss[k]) <= 1
  PROVE  /\ FlattenSeq(ss) \in Seq(T)
         /\ \E c : Follows(ss, FlattenSeq(ss), c)
<1> DEFINE flat == FlattenSeq(ss)
<1>1. flat \in Seq(T) /\ \E b : Tracks(ss, Len(ss), flat, b)
  BY FlattenTracks
<1> HIDE DEF flat
<1>2. PICK b : Tracks(ss, Len(ss), flat, b)
  BY <1>1
<1> DEFINE c == [k \in Kept(ss) |-> b[<<k, 1>>]]
<1>3. \A k \in 1..Len(ss) : /\ ss[k] \in Seq(T) /\ Len(ss[k]) \in Nat
                            /\ ss[k] # <<>> <=> Len(ss[k]) = 1
  <2> TAKE k \in 1..Len(ss)
  <2>1. ss[k] \in Seq(T)
    BY ElementOfSeq
  <2>2. Len(ss[k]) \in Nat /\ Len(ss[k]) <= 1
    BY <2>1, LenProperties
  <2>3. ss[k] # <<>> => Len(ss[k]) \in Nat \ {0}
    BY <2>1, EmptySeq
  <2>4. ss[k] = <<>> => Len(ss[k]) = 0
    BY NoneOrOne
  <2>5. CASE Len(ss[k]) = 0
    BY <2>1, <2>2, <2>3, <2>5
  <2>6. CASE Len(ss[k]) = 1
    BY <2>1, <2>2, <2>4, <2>6
  <2>7. \A m \in Nat : m <= 1 => m = 0 \/ m = 1
    OBVIOUS
  <2> QED BY <2>2, <2>5, <2>6, <2>7
<1>4. \A k \in Kept(ss) : <<k, 1>> \in Places(ss, Len(ss)) /\ c[k] = b[<<k, 1>>]
  BY <1>3 DEF Kept, Places
<1>5. \A x \in Places(ss, Len(ss)) : x = <<x[1], 1>> /\ x[1] \in Kept(ss)
  BY <1>3 DEF Kept, Places
<1> HIDE DEF c
<1>6. \A k \in Kept(ss) : c[k] \in 1..Len(flat) /\ flat[c[k]] = ss[k][1]
  <2> TAKE k \in Kept(ss)
  <2> DEFINE x == <<k, 1>>
  <2>1. x \in Places(ss, Len(ss)) /\ c[k] = b[x] /\ x[1] = k /\ x[2] = 1
    BY <1>4
  <2> HIDE DEF x
  <2> QED BY <1>2, <2>1 DEF Tracks
<1>7. \A k, l \in Kept(ss) : c[k] = c[l] => k = l
  <2> SUFFICES ASSUME NEW k \in Kept(ss), NEW l \in Kept(ss), c[k] = c[l] PROVE k = l
    OBVIOUS
  <2> DEFINE x == <<k, 1>>
             y == <<l, 1>>
  <2>1. /\ x \in Places(ss, Len(ss)) /\ c[k] = b[x] /\ x[1] = k
        /\ y \in Places(ss, Len(ss)) /\ c[l] = b[y] /\ y[1] = l
    BY <1>4
  <2> HIDE DEF x, y
  <2>2. x = y
    BY <1>2, <2>1 DEF Tracks
  <2> QED BY <2>1, <2>2
<1>8. \A i \in 1..Len(flat) : \E k \in Kept(ss) : c[k] = i
  <2> TAKE i \in 1..Len(flat)
  <2>1. PICK x \in Places(ss, Len(ss)) : b[x] = i
    BY <1>2 DEF Tracks
  <2>2. x[1] \in Kept(ss) /\ x = <<x[1], 1>>
    BY <1>5
  <2>3. c[x[1]] = b[<<x[1], 1>>]
    BY <1>4, <2>2
  <2> QED BY <2>1, <2>2, <2>3
<1>9. Follows(ss, flat, c)
  BY <1>6, <1>7, <1>8 DEF Follows
<1> QED BY <1>1, <1>9 DEF flat

(* ReadFromText has every line but the first, one place further up.        *)
LEMMA LinesAreRead ==
  ASSUME NEW file \in Seq(SalesLine)
  PROVE  /\ ReadFromText(file) \in Seq(SalesLine)
         /\ \A k \in Nat : k \in 1..Len(ReadFromText(file)) <=> k + 1 \in 2..Len(file)
         /\ \A k \in 1..Len(ReadFromText(file)) : ReadFromText(file)[k] = file[k + 1]
<1>1. CASE file = <<>>
  <2>1. ReadFromText(file) = file /\ Len(file) = 0
    BY <1>1, EmptySeq DEF ReadFromText
  <2>2. \A k \in Nat : k \notin 1..0 /\ k + 1 \notin 2..0
    OBVIOUS
  <2>3. \A k \in 1..0 : FALSE
    OBVIOUS
  <2> QED BY <2>1, <2>2, <2>3
<1>2. CASE file # <<>>
  <2> DEFINE t == ReadFromText(file)
  <2>1. /\ t \in Seq(SalesLine)
        /\ Len(t) = Len(file) - 1
        /\ \A i \in 1..Len(t) : t[i] = file[i + 1]
    BY <1>2, HeadTailProperties DEF ReadFromText
  <2>2. Len(file) \in Nat \ {0}
    BY <1>2, EmptySeq
  <2> HIDE DEF t
  <2>3. \A k \in Nat : k \in 1..Len(t) <=> k + 1 \in 2..Len(file)
    BY <2>1, <2>2
  <2> QED BY <2>1, <2>3 DEF t
<1> QED BY <1>1, <1>2

(* The places of the lines that are read and are no headers; of those that *)
(* can be parsed; the row of such a line; and a correspondence h of these  *)
(* places with the rows of a table.                                        *)
LinePlaces(files) == UNION {{<<i, k>> : k \in 2..Len(files[i])} : i \in DOMAIN files}
Readable(files) ==
  {x \in LinePlaces(files) : /\ IsDate(files[x[1]][x[2]].date)
                             /\ files[x[1]][x[2]].product_id # Empty
                             /\ files[x[1]][x[2]].store_id # Empty
                             /\ files[x[1]][x[2]].units_sold # "text"}
RowOf(files, x) == Row(files[x[1]][x[2]])
Corresponds(files, rows, h) ==
  /\ \A x \in Readable(files) : h[x] \in 1..Len(rows) /\ rows[h[x]] = RowOf(files, x)
  /\ \A x, y \in Readable(files) : h[x] = h[y] => x = y
  /\ \A i \in 1..Len(rows) : \E x \in Readable(files) : h[x] = i

(* Every line that can be read is a row of sales_clean, once, and every    *)
(* row is such a line: the correspondences of the three steps, one after   *)
(* the other.                                                              *)
LEMMA RowsCorrespond ==
  ASSUME NEW files \in Seq(Seq(SalesLine))
  PROVE  \E T : /\ SalesClean(files) \in Seq(T)
                /\ \E h : Corresponds(files, SalesClean(files), h)
<1> DEFINE read == [i \in DOMAIN files |-> ReadFromText(files[i])]
           lines == FlattenSeq(read)
           passed == [k \in DOMAIN lines |-> FilterHeaderLines(lines[k])]
           filtered == FlattenSeq(passed)
           parsed == [k \in DOMAIN filtered |-> ParseSalesRow(filtered[k])]
           rows == FlattenSeq(parsed)
           T == {Row(l) : l \in SalesLine}
<1>1. SalesClean(files) = rows
  BY DEF SalesClean
<1>2. /\ DOMAIN files = 1..Len(files) /\ Len(files) \in Nat
      /\ \A i \in 1..Len(files) : files[i] \in Seq(SalesLine)
  BY LenProperties, ElementOfSeq
<1>3. read \in Seq(Seq(SalesLine)) /\ Len(read) = Len(files)
      /\ \A i \in 1..Len(files) : read[i] = ReadFromText(files[i])
  <2>1. \A i \in 1..Len(files) : ReadFromText(files[i]) \in Seq(SalesLine)
    BY <1>2, LinesAreRead
  <2> QED BY <1>2, <2>1
<1> HIDE DEF read
<1>4. lines \in Seq(SalesLine) /\ \E b : Tracks(read, Len(read), lines, b)
  BY <1>3, FlattenTracks
<1> HIDE DEF lines
<1>5. /\ DOMAIN lines = 1..Len(lines) /\ Len(lines) \in Nat
      /\ \A k \in 1..Len(lines) : lines[k] \in SalesLine
  BY <1>4, LenProperties, ElementOfSeq
<1>6. /\ passed \in Seq(Seq(SalesLine)) /\ Len(passed) = Len(lines)
      /\ \A k \in 1..Len(lines) : /\ Len(passed[k]) <= 1
                                  /\ passed[k] # <<>> <=> ~IsHeader(lines[k])
                                  /\ passed[k] # <<>> => passed[k][1] = lines[k]
  <2>1. \A k \in 1..Len(lines) : passed[k] = IF IsHeader(lines[k]) THEN <<>> ELSE <<lines[k]>>
    BY <1>5 DEF FilterHeaderLines
  <2>2. passed \in Seq(Seq(SalesLine)) /\ Len(passed) = Len(lines)
    <3>1. \A k \in 1..Len(lines) : FilterHeaderLines(lines[k]) \in Seq(SalesLine)
      BY <1>5 DEF FilterHeaderLines
    <3> QED BY <1>5, <3>1
  <2> HIDE DEF passed
  <2>3. ASSUME NEW k \in 1..Len(lines)
        PROVE  /\ Len(passed[k]) <= 1
               /\ passed[k] # <<>> <=> ~IsHeader(lines[k])
               /\ passed[k] # <<>> => passed[k][1] = lines[k]
    <3>1. CASE IsHeader(lines[k])
      <4>1. passed[k] = <<>>
        BY <2>1, <3>1
      <4> QED BY <3>1, <4>1, NoneOrOne
    <3>2. CASE ~IsHeader(lines[k])
      <4>1. passed[k] = <<lines[k]>>
        BY <2>1, <3>2
      <4> QED BY <3>2, <4>1, NoneOrOne
    <3> QED BY <3>1, <3>2
  <2> QED BY <2>2, <2>3
<1> HIDE DEF passed
<1>7. filtered \in Seq(SalesLine) /\ \E c : Follows(passed, filtered, c)
  BY <1>6, ParDoFollows
<1> HIDE DEF filtered
<1>8. DOMAIN filtered = 1..Len(filtered) /\ Len(filtered) \in Nat
      /\ \A k \in 1..Len(filtered) : filtered[k] \in SalesLine
  BY <1>7, LenProperties, ElementOfSeq
<1>9. /\ parsed \in Seq(Seq(T)) /\ Len(parsed) = Len(filtered)
      /\ \A k \in 1..Len(filtered) : /\ Len(parsed[k]) <= 1
                                     /\ parsed[k] # <<>> <=> ~Refused(filtered[k])
                                     /\ parsed[k] # <<>> => parsed[k][1] = Row(filtered[k])
  <2>1. \A k \in 1..Len(filtered) :
          parsed[k] = IF Refused(filtered[k]) THEN <<>> ELSE <<Row(filtered[k])>>
    BY <1>8 DEF ParseSalesRow
  <2>2. \A k \in 1..Len(filtered) : Row(filtered[k]) \in T
    BY <1>8
  <2> HIDE DEF T
  <2>3. parsed \in Seq(Seq(T)) /\ Len(parsed) = Len(filtered)
    <3>1. \A k \in 1..Len(filtered) : ParseSalesRow(filtered[k]) \in Seq(T)
      BY <2>2 DEF ParseSalesRow
    <3> QED BY <1>8, <3>1
  <2> HIDE DEF parsed
  <2>4. ASSUME NEW k \in 1..Len(filtered)
        PROVE  /\ Len(parsed[k]) <= 1
               /\ parsed[k] # <<>> <=> ~Refused(filtered[k])
               /\ parsed[k] # <<>> => parsed[k][1] = Row(filtered[k])
    <3>1. CASE Refused(filtered[k])
      <4>1. parsed[k] = <<>>
        BY <2>1, <3>1
      <4> QED BY <3>1, <4>1, NoneOrOne
    <3>2. CASE ~Refused(filtered[k])
      <4>1. parsed[k] = <<Row(filtered[k])>>
        BY <2>1, <3>2
      <4> QED BY <3>2, <4>1, NoneOrOne
    <3> QED BY <3>1, <3>2
  <2> QED BY <2>3, <2>4
<1> HIDE DEF parsed, T
<1>10. rows \in Seq(T) /\ \E d : Follows(parsed, rows, d)
  BY <1>9, ParDoFollows
<1> HIDE DEF rows
<1>11. PICK b : Tracks(read, Len(read), lines, b)
  BY <1>4
<1>12. PICK c : Follows(passed, filtered, c)
  BY <1>7
<1>13. PICK d : Follows(parsed, rows, d)
  BY <1>10
<1> DEFINE place(x) == <<x[1], x[2] - 1>>
           at(x) == b[place(x)]
           h == [x \in Readable(files) |-> d[c[at(x)]]]
           Good(l) == /\ IsDate(l.date) /\ l.product_id # Empty /\ l.store_id # Empty
                      /\ l.units_sold # "text"
<1>14. \A l \in SalesLine : Good(l) <=> ~IsHeader(l) /\ ~Refused(l)
  BY DEF SalesLine, IsHeader, Refused, Required, IsDate
<1>15. \A x \in LinePlaces(files) : /\ place(x) \in Places(read, Len(read))
                                    /\ read[place(x)[1]][place(x)[2]] = files[x[1]][x[2]]
                                    /\ x = <<x[1], x[2]>> /\ x[2] \in Nat
  <2> SUFFICES ASSUME NEW i \in 1..Len(files), NEW k \in 2..Len(files[i])
               PROVE  LET x == <<i, k>>
                      IN /\ place(x) \in Places(read, Len(read))
                         /\ read[place(x)[1]][place(x)[2]] = files[x[1]][x[2]]
                         /\ x = <<x[1], x[2]>> /\ x[2] \in Nat
    BY <1>2 DEF LinePlaces
  <2>1. k - 1 \in Nat /\ (k - 1) + 1 = k /\ k \in Nat
    BY <1>2, LenProperties
  <2>2. k - 1 \in 1..Len(ReadFromText(files[i])) /\ ReadFromText(files[i])[k - 1] = files[i][k]
    BY <1>2, <2>1, LinesAreRead
  <2> QED BY <1>3, <2>1, <2>2 DEF Places
<1>16. \A y \in Places(read, Len(read)) : \E x \in LinePlaces(files) : place(x) = y
  <2> TAKE y \in Places(read, Len(read))
  <2> DEFINE i == y[1]
             k == y[2]
  <2>1. i \in 1..Len(files) /\ k \in Nat /\ k \in 1..Len(ReadFromText(files[i])) /\ y = <<i, k>>
    BY <1>3 DEF Places
  <2>2. k + 1 \in 2..Len(files[i]) /\ (k + 1) - 1 = k
    BY <1>2, <2>1, LinesAreRead
  <2>3. <<i, k + 1>> \in LinePlaces(files)
    BY <1>2, <2>1, <2>2 DEF LinePlaces
  <2>4. place(<<i, k + 1>>) = y
    BY <2>1, <2>2
  <2> QED BY <2>3, <2>4
<1>17. \A x \in Readable(files) : x \in LinePlaces(files) /\ Good(files[x[1]][x[2]])
  BY DEF Readable
<1>18. \A x \in LinePlaces(files) : Good(files[x[1]][x[2]]) => x \in Readable(files)
  BY DEF Readable
<1> HIDE DEF Good
<1>19. \A x \in LinePlaces(files) : at(x) \in 1..Len(lines) /\ lines[at(x)] = files[x[1]][x[2]]
  <2> TAKE x \in LinePlaces(files)
  <2> HIDE DEF place
  <2> QED BY <1>11, <1>15 DEF Tracks
<1>20. \A x, y \in LinePlaces(files) : at(x) = at(y) => x = y
  <2> SUFFICES ASSUME NEW x \in LinePlaces(files), NEW y \in LinePlaces(files), at(x) = at(y)
               PROVE  x = y
    OBVIOUS
  <2>1. place(x) = place(y)
    <3> HIDE DEF place
    <3> QED BY <1>11, <1>15 DEF Tracks
  <2>2. x[1] = y[1] /\ x[2] - 1 = y[2] - 1
    BY <2>1
  <2>3. x[2] \in Nat /\ y[2] \in Nat
    <3> HIDE DEF place
    <3> QED BY <1>15
  <2>4. x[2] = y[2]
    BY <2>2, <2>3
  <2>5. x = <<x[1], x[2]>> /\ y = <<y[1], y[2]>>
    <3> HIDE DEF place
    <3> QED BY <1>15
  <2> QED BY <2>2, <2>4, <2>5
<1>21. \A k \in 1..Len(lines) : \E x \in LinePlaces(files) : at(x) = k
  <2> TAKE k \in 1..Len(lines)
  <2>1. PICK y \in Places(read, Len(read)) : b[y] = k
    BY <1>11 DEF Tracks
  <2> QED BY <1>16, <2>1
<1>22. \A x \in Readable(files) : h[x] = d[c[at(x)]]
  OBVIOUS
<1> HIDE DEF at, h
<1>23. ASSUME NEW x \in Readable(files)
       PROVE  /\ at(x) \in Kept(passed) /\ c[at(x)] \in Kept(parsed)
              /\ h[x] \in 1..Len(rows) /\ rows[h[x]] = RowOf(files, x)
  <2> DEFINE l == files[x[1]][x[2]]
             k == at(x)
             m == c[k]
  <2>1. k \in 1..Len(lines) /\ lines[k] = l /\ Good(l)
    BY <1>17, <1>19
  <2> HIDE DEF k
  <2>2. ~IsHeader(l) /\ ~Refused(l)
    BY <1>5, <1>14, <2>1
  <2>3. k \in Kept(passed) /\ passed[k][1] = l
    BY <1>6, <2>1, <2>2 DEF Kept
  <2>4. m \in 1..Len(filtered) /\ filtered[m] = l
    BY <1>12, <2>3 DEF Follows
  <2> HIDE DEF m
  <2>5. m \in Kept(parsed) /\ parsed[m][1] = Row(l)
    BY <1>9, <2>2, <2>4 DEF Kept
  <2>6. d[m] \in 1..Len(rows) /\ rows[d[m]] = Row(l)
    BY <1>13, <2>5 DEF Follows
  <2> QED BY <1>22, <2>3, <2>5, <2>6 DEF RowOf, k, m
<1>24. ASSUME NEW x \in Readable(files), NEW y \in Readable(files), h[x] = h[y] PROVE x = y
  <2>1. c[at(x)] = c[at(y)]
    BY <1>13, <1>22, <1>23, <1>24 DEF Follows
  <2>2. at(x) = at(y)
    BY <1>12, <1>23, <2>1 DEF Follows
  <2> QED BY <1>17, <1>20, <2>2
<1>25. ASSUME NEW i \in 1..Len(rows) PROVE \E x \in Readable(files) : h[x] = i
  <2>1. PICK m \in Kept(parsed) : d[m] = i
    BY <1>13 DEF Follows
  <2>2. m \in 1..Len(filtered) /\ ~Refused(filtered[m])
    BY <1>9 DEF Kept
  <2>3. PICK k \in Kept(passed) : c[k] = m
    BY <1>12, <2>2 DEF Follows
  <2>4. k \in 1..Len(lines) /\ ~IsHeader(lines[k]) /\ filtered[m] = lines[k]
    BY <1>6, <1>12, <2>3 DEF Kept, Follows
  <2>5. PICK x \in LinePlaces(files) : at(x) = k
    BY <1>21, <2>4
  <2>6. lines[k] = files[x[1]][x[2]]
    BY <1>19, <2>5
  <2>7. x \in Readable(files)
    BY <1>5, <1>14, <1>18, <2>2, <2>4, <2>6
  <2> QED BY <1>22, <2>1, <2>3, <2>5, <2>7
<1>26. Corresponds(files, rows, h)
  BY <1>23, <1>24, <1>25 DEF Corresponds
<1> QED BY <1>1, <1>10, <1>26

(* So there are as many rows like r as lines that say so.                  *)
LEMMA CountOfRow ==
  ASSUME NEW files \in Seq(Seq(SalesLine)), NEW r
  PROVE  LET rows == SalesClean(files)
         IN Cardinality({i \in DOMAIN rows : rows[i] = r})
              = Cardinality({x \in Readable(files) : RowOf(files, x) = r})
<1> DEFINE rows == SalesClean(files)
           A == {x \in Readable(files) : RowOf(files, x) = r}
           B == {i \in DOMAIN rows : rows[i] = r}
<1>1. PICK T : rows \in Seq(T) /\ \E h : Corresponds(files, rows, h)
  BY RowsCorrespond
<1> HIDE DEF rows
<1>2. PICK h : Corresponds(files, rows, h)
  BY <1>1
<1>3. DOMAIN rows = 1..Len(rows) /\ Len(rows) \in Nat
  BY <1>1, LenProperties
<1> DEFINE g == [x \in A |-> h[x]]
<1>4. \A x \in A : h[x] \in B /\ g[x] = h[x]
  BY <1>2, <1>3 DEF Corresponds
<1>5. \A x, y \in A : h[x] = h[y] => x = y
  BY <1>2 DEF Corresponds
<1>6. \A i \in B : \E x \in A : h[x] = i
  BY <1>2, <1>3 DEF Corresponds
<1>7. g \in [A -> B]
  BY <1>4
<1>8. IsFiniteSet(B)
  <2>1. B \in SUBSET (1..Len(rows)) /\ IsFiniteSet(1..Len(rows))
    BY <1>3, FS_Interval
  <2> HIDE DEF B
  <2> QED BY <2>1, FS_Subset
<1> HIDE DEF A, B, g
<1>9. g \in Bijection(A, B)
  BY <1>4, <1>5, <1>6, <1>7 DEF Bijection, Injection, IsInjective, Surjection
<1>10. IsFiniteSet(A)
  BY <1>8, <1>9, FS_Injection DEF Bijection
<1>11. Cardinality(B) = Cardinality(A)
  BY <1>9, <1>10, FS_Bijection DEF ExistsBijection
<1> QED BY <1>11 DEF A, B, rows

(* No row has an identifier in lower case.                                 *)
LEMMA RowsAreUpper ==
  \A l : Row(l).product_id \notin DOMAIN UpperCase
<1> TAKE l
<1>1. DOMAIN UpperCase = {"sku"} /\ UpperCase["sku"] = "SKU"
  BY DEF UpperCase
<1>2. Upper(l.product_id) \notin {"sku"}
  BY <1>1 DEF Upper
<1> QED BY <1>1, <1>2 DEF Row

(* EveryLineCounts: whatever the files of the ETL are, a run leaves each   *)
(* line that can be read in the table once, except for the first line of a *)
(* file, merges no duplicates, and knows a product by one name.            *)
THEOREM LinesAreCounted == Spec => EveryLineCounts
<1> DEFINE line(x) == exports[x[1]][x[2]]
           lines == UNION {{<<i, k>> : k \in 2..Len(exports[i])} : i \in DOMAIN exports}
           readable == {x \in lines : /\ IsDate(line(x).date)
                                      /\ line(x).product_id # Empty /\ line(x).store_id # Empty
                                      /\ line(x).units_sold # "text"}
           written(l) == [date |-> l.date, product_id |-> Upper(l.product_id),
                          store_id |-> l.store_id, units_sold |-> Amount(l.units_sold)]
<1>1. readable = Readable(exports)
  BY DEF Readable, LinePlaces
<1>2. \A x : written(line(x)) = RowOf(exports, x)
  BY DEF RowOf, Row
<1> HIDE DEF readable, written
<1>3. ASSUME DataHolds, RunEtl,
             NEW r \in ToSet(sales') \cup {written(line(x)) : x \in readable}
      PROVE  /\ r.product_id \notin DOMAIN UpperCase
             /\ Cardinality({i \in DOMAIN sales' : sales'[i] = r})
                  = Cardinality({x \in readable : written(line(x)) = r})
  <2>1. exports \in Seq(Seq(SalesLine)) /\ sales' = SalesClean(exports)
    BY <1>3 DEF DataHolds, RunEtl
  <2>2. PICK T : /\ sales' \in Seq(T)
                 /\ \E h : Corresponds(exports, sales', h)
    BY <2>1, RowsCorrespond
  <2>3. PICK h : Corresponds(exports, sales', h)
    BY <2>2
  <2>4. \E x : r = RowOf(exports, x)
    <3>1. CASE r \in ToSet(sales')
      <4>1. PICK i \in DOMAIN sales' : r = sales'[i]
        BY <3>1 DEF ToSet
      <4>2. DOMAIN sales' = 1..Len(sales')
        BY <2>2, LenProperties
      <4>3. PICK x \in Readable(exports) : h[x] = i
        BY <2>3, <4>1, <4>2 DEF Corresponds
      <4>4. sales'[h[x]] = RowOf(exports, x)
        BY <2>3 DEF Corresponds
      <4> QED BY <4>1, <4>3, <4>4
    <3>2. CASE r \in {written(line(x)) : x \in readable}
      BY <1>2, <3>2
    <3> QED BY <1>3, <3>1, <3>2
  <2>5. r.product_id \notin DOMAIN UpperCase
    BY <2>4, RowsAreUpper DEF RowOf
  <2>6. Cardinality({i \in DOMAIN sales' : sales'[i] = r})
          = Cardinality({x \in Readable(exports) : RowOf(exports, x) = r})
    BY <2>1, CountOfRow
  <2>7. {x \in Readable(exports) : RowOf(exports, x) = r} = {x \in readable : written(line(x)) = r}
    BY <1>1, <1>2
  <2> QED BY <2>5, <2>6, <2>7
<1>4. ASSUME DataHolds
      PROVE  RunEtl =>
               \A r \in ToSet(sales') \cup {written(line(x)) : x \in readable} :
                 /\ r.product_id \notin DOMAIN UpperCase
                 /\ Cardinality({i \in DOMAIN sales' : sales'[i] = r})
                      = Cardinality({x \in readable : written(line(x)) = r})
  BY <1>3, <1>4
<1> QED BY <1>4, DataIsInOrder, PTL DEF EveryLineCounts, written, readable
====

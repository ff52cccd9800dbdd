-------------------------------- MODULE Sums --------------------------------
(***************************************************************************)
(* Sums over finite sets, for the proofs about amounts.  MapThenSumSet is  *)
(* a function on the subsets of its set that is defined by recursion; that *)
(* there is one such function, and only one, is shown here by taking a     *)
(* smallest subset without it, since inclusion of finite sets is           *)
(* well-founded.                                                           *)
(***************************************************************************)
EXTENDS Integers, FiniteSets, FiniteSetsExt, FiniteSetTheorems, WellFoundedInduction, TLAPS

\* The sum of w over S.
Weight(w, S) == MapThenSumSet(LAMBDA x : w[x], S)

\* The amounts of the rows ms of the table t.
Amounts(t, ms) == MapThenSumSet(LAMBDA m : t[m].amount, ms)

\* I is the function that MapThenSumSet recurs over.
Adds(I, w, S) ==
  I = [s \in SUBSET S |->
         IF s = {} THEN 0
         ELSE LET x == CHOOSE x \in s : TRUE IN w[x] + I[s \ {x}]]
-----------------------------------------------------------------------------
\* A set of subsets of a finite set has a member with no proper subset in it.
LEMMA Smallest ==
  ASSUME NEW S, IsFiniteSet(S), NEW T \in SUBSET SUBSET S, T # {}
  PROVE  \E s \in T : \A t \in T : t \subseteq s => t = s
<1>1. T \subseteq FiniteSubsetsOf(S)
  BY FS_FiniteSubsetsOfFinite
<1>2. PICK s \in T : \A t \in T : ~(<<t, s>> \in StrictSubsetOrdering(S))
  BY <1>1, FS_StrictSubsetOrderingWellFounded, WFMin
<1> QED BY <1>2 DEF StrictSubsetOrdering

LEMMA AddsOnce ==
  ASSUME NEW S, IsFiniteSet(S), NEW w, NEW I, NEW J, Adds(I, w, S), Adds(J, w, S)
  PROVE  I = J
<1> DEFINE T == {s \in SUBSET S : I[s] # J[s]}
<1>1. T = {}
  <2> SUFFICES ASSUME T # {}  PROVE FALSE
    OBVIOUS
  <2>1. PICK s \in T : \A t \in T : t \subseteq s => t = s
    <3>1. T \in SUBSET SUBSET S
      OBVIOUS
    <3> HIDE DEF T
    <3> QED BY <3>1, Smallest
  <2> DEFINE x == CHOOSE x \in s : TRUE
  <2>2. s # {}
    BY DEF Adds
  <2>3. x \in s
    BY <2>2
  <2>4. s \ {x} \in SUBSET S /\ s \ {x} \notin T
    BY <2>1, <2>3
  <2>5. I[s \ {x}] = J[s \ {x}]
    BY <2>4
  <2>6. I[s] = w[x] + I[s \ {x}] /\ J[s] = w[x] + J[s \ {x}]
    BY <2>2 DEF Adds
  <2> QED BY <2>5, <2>6
<1>2. \A s \in SUBSET S : I[s] = J[s]
  BY <1>1
<1>3. /\ DOMAIN I = SUBSET S /\ I = [s \in SUBSET S |-> I[s]]
      /\ DOMAIN J = SUBSET S /\ J = [s \in SUBSET S |-> J[s]]
  BY DEF Adds
<1> QED BY <1>2, <1>3

LEMMA AddsWithin ==
  ASSUME NEW S, NEW w, NEW I, Adds(I, w, S), NEW U \in SUBSET S
  PROVE  Adds([s \in SUBSET U |-> I[s]], w, U)
<1> DEFINE J == [s \in SUBSET U |-> I[s]]
<1>1. ASSUME NEW s \in SUBSET U
      PROVE  J[s] = IF s = {} THEN 0
                    ELSE LET x == CHOOSE x \in s : TRUE IN w[x] + J[s \ {x}]
  <2>1. \A x : J[s \ {x}] = I[s \ {x}]
    OBVIOUS
  <2>2. J[s] = I[s] /\ s \in SUBSET S
    OBVIOUS
  <2> HIDE DEF J
  <2> QED BY <2>1, <2>2 DEF Adds
<1> QED BY <1>1 DEF Adds

LEMMA AddsExists ==
  ASSUME NEW S, IsFiniteSet(S), NEW w
  PROVE  \E I : Adds(I, w, S)
<1> DEFINE T == {s \in SUBSET S : ~ \E I : Adds(I, w, s)}
<1>1. T = {}
  <2> SUFFICES ASSUME T # {}  PROVE FALSE
    OBVIOUS
  <2>1. PICK s \in T : \A t \in T : t \subseteq s => t = s
    <3>1. T \in SUBSET SUBSET S
      OBVIOUS
    <3> HIDE DEF T
    <3> QED BY <3>1, Smallest
  <2> DEFINE Of(t) == CHOOSE I : Adds(I, w, t)
             x == CHOOSE x \in s : TRUE
             J == [t \in SUBSET s |->
                     IF t = {} THEN 0
                     ELSE IF t = s THEN w[x] + Of(s \ {x})[s \ {x}] ELSE Of(t)[t]]
  <2>2. \A t \in SUBSET s : t # s => Adds(Of(t), w, t)
    <3> TAKE t \in SUBSET s
    <3>1. t # s => \E I : Adds(I, w, t)
      BY <2>1
    <3> HIDE DEF T
    <3> QED BY <3>1
  <2>3. \A t \in SUBSET s : t # s => Of(t)[t] = J[t]
    <3> TAKE t \in SUBSET s
    <3>1. t = {} /\ t # s => Of(t)[t] = 0
      <4> HIDE DEF Of
      <4> QED BY <2>2 DEF Adds
    <3> QED BY <3>1
  <2>4. IsFiniteSet(s) /\ \A t \in SUBSET s : IsFiniteSet(t)
    BY FS_Subset
  <2>5. ASSUME NEW t \in SUBSET s, t # {}, t # s
        PROVE  Of(t)[t] = LET y == CHOOSE y \in t : TRUE IN w[y] + J[t \ {y}]
    <3> DEFINE y == CHOOSE y \in t : TRUE
               u == t \ {y}
               I == [v \in SUBSET u |-> Of(t)[v]]
    <3>1. y \in t /\ u \in SUBSET t /\ u \in SUBSET s /\ u # s
      BY <2>5
    <3>2. Adds(Of(t), w, t)
      BY <2>2, <2>5
    <3>3. Adds(I, w, u)
      <4>1. \A K : Adds(K, w, t) => Adds([v \in SUBSET u |-> K[v]], w, u)
        BY <3>1, AddsWithin
      <4> HIDE DEF Of, u
      <4> QED BY <3>2, <4>1
    <3>4. Adds(Of(u), w, u) /\ Of(u)[u] = J[u]
      BY <2>2, <2>3, <3>1
    <3> HIDE DEF J, Of
    <3>5. Of(t)[t] = w[y] + Of(t)[u]
      BY <3>2, <2>5 DEF Adds
    <3>6. I = Of(u)
      <4>1. IsFiniteSet(u)
        BY <2>4, <3>1
      <4> HIDE DEF I, u
      <4> QED BY <3>3, <3>4, <4>1, AddsOnce
    <3>7. I[u] = Of(t)[u]
      OBVIOUS
    <3>8. Of(t)[u] = J[u]
      BY <3>4, <3>6, <3>7
    <3> QED BY <3>5, <3>8
  <2>6. s # {}
    <3>1. Adds([t \in SUBSET {} |-> 0], w, {})
      BY DEF Adds
    <3> QED BY <3>1
  <2>7. J[s] = w[x] + J[s \ {x}]
    <3>1. x \in s /\ s \ {x} \in SUBSET s /\ s \ {x} # s
      BY <2>6
    <3>2. Of(s \ {x})[s \ {x}] = J[s \ {x}]
      BY <2>3, <3>1
    <3>3. J[s] = w[x] + Of(s \ {x})[s \ {x}]
      BY <2>6
    <3> QED BY <3>2, <3>3
  <2>8. \A t \in SUBSET s :
          J[t] = IF t = {} THEN 0
                 ELSE LET y == CHOOSE y \in t : TRUE IN w[y] + J[t \ {y}]
    <3> TAKE t \in SUBSET s
    <3>1. CASE t = {}
      BY <3>1
    <3>2. CASE t = s
      BY <2>6, <2>7, <3>2
    <3>3. CASE t # {} /\ t # s
      <4>1. J[t] = Of(t)[t]
        BY <2>3, <3>3
      <4> HIDE DEF J, Of
      <4> QED BY <2>5, <3>3, <4>1
    <3> QED BY <3>1, <3>2, <3>3
  <2>9. Adds(J, w, s)
    <3>1. J = [t \in SUBSET s |-> J[t]]
      OBVIOUS
    <3> HIDE DEF J
    <3> QED BY <2>8, <3>1 DEF Adds
  <2> QED BY <2>9
<1> QED BY <1>1
-----------------------------------------------------------------------------
(* The sum. *)

\* Whatever function solves the recursion gives the sum.
LEMMA WeightAdds ==
  ASSUME NEW S, IsFiniteSet(S), NEW w, NEW I, Adds(I, w, S)
  PROVE  Weight(w, S) = I[S]
<1> DEFINE J == CHOOSE J : J = [s \in SUBSET S |->
                   IF s = {} THEN 0
                   ELSE LET x == CHOOSE x \in s : TRUE IN w[x] + J[s \ {x}]]
<1>1. Weight(w, S) = J[S]
  BY DEF Weight, MapThenSumSet, MapThenFoldSet
<1>2. Adds(J, w, S)
  BY DEF Adds
<1>3. J = I
  <2> HIDE DEF J
  <2> QED BY <1>2, AddsOnce
<1> QED BY <1>1, <1>3

LEMMA WeightEmpty == ASSUME NEW w  PROVE Weight(w, {}) = 0
<1>1. PICK I : Adds(I, w, {})
  BY AddsExists, FS_EmptySet
<1>2. I[{}] = 0
  BY <1>1 DEF Adds
<1> QED BY <1>1, <1>2, WeightAdds, FS_EmptySet

\* One step of the recursion.
LEMMA WeightStep ==
  ASSUME NEW S, IsFiniteSet(S), S # {}, NEW w
  PROVE  \E x \in S : Weight(w, S) = w[x] + Weight(w, S \ {x})
<1>1. PICK I : Adds(I, w, S)
  BY AddsExists
<1> DEFINE x == CHOOSE x \in S : TRUE
           U == S \ {x}
           J == [s \in SUBSET U |-> I[s]]
<1>2. I[S] = w[x] + I[U]
  BY <1>1 DEF Adds
<1>3. x \in S
  OBVIOUS
<1>4. U \in SUBSET S /\ IsFiniteSet(U)
  BY FS_Subset
<1>5. J[U] = I[U]
  OBVIOUS
<1>6. Adds(J, w, U)
  <2> HIDE DEF U
  <2> QED BY <1>1, <1>4, AddsWithin
<1>7. Weight(w, U) = I[U]
  <2> HIDE DEF J, U
  <2> QED BY <1>4, <1>5, <1>6, WeightAdds
<1>8. Weight(w, S) = I[S]
  BY <1>1, WeightAdds
<1> QED BY <1>2, <1>3, <1>7, <1>8

LEMMA WeightAgrees ==
  ASSUME NEW S, IsFiniteSet(S), NEW v, NEW w, \A x \in S : v[x] = w[x]
  PROVE  Weight(v, S) = Weight(w, S)
<1>1. PICK I : Adds(I, w, S)
  BY AddsExists
<1>2. Adds(I, v, S)
  <2>1. \A s \in SUBSET S : s # {} => v[CHOOSE x \in s : TRUE] = w[CHOOSE x \in s : TRUE]
    OBVIOUS
  <2> QED BY <1>1, <2>1 DEF Adds
<1> QED BY <1>1, <1>2, WeightAdds

\* A sum of naturals is a natural, at least each of them.
LEMMA WeightNat ==
  ASSUME NEW S, IsFiniteSet(S), NEW w, \A x \in S : w[x] \in Nat
  PROVE  Weight(w, S) \in Nat
<1> DEFINE T == {s \in SUBSET S : Weight(w, s) \notin Nat}
<1>1. T = {}
  <2> SUFFICES ASSUME T # {}  PROVE FALSE
    OBVIOUS
  <2>1. PICK s \in T : \A t \in T : t \subseteq s => t = s
    <3>1. T \in SUBSET SUBSET S
      OBVIOUS
    <3> HIDE DEF T
    <3> QED BY <3>1, Smallest
  <2>2. s # {}
    BY WeightEmpty
  <2>3. IsFiniteSet(s)
    BY FS_Subset
  <2>4. PICK x \in s : Weight(w, s) = w[x] + Weight(w, s \ {x})
    BY <2>2, <2>3, WeightStep
  <2>5. Weight(w, s \ {x}) \in Nat
    BY <2>1
  <2> QED BY <2>4, <2>5
<1> QED BY <1>1

\* Any element can be taken out first.
LEMMA WeightSplit ==
  ASSUME NEW S, IsFiniteSet(S), NEW w, \A x \in S : w[x] \in Nat, NEW x \in S
  PROVE  Weight(w, S) = w[x] + Weight(w, S \ {x})
<1> DEFINE Out(s, z) == Weight(w, s) = w[z] + Weight(w, s \ {z})
           T == {s \in SUBSET S : \E z \in s : ~Out(s, z)}
<1>1. T = {}
  <2> SUFFICES ASSUME T # {}  PROVE FALSE
    OBVIOUS
  <2>1. PICK s \in T : \A t \in T : t \subseteq s => t = s
    <3>1. T \in SUBSET SUBSET S
      OBVIOUS
    <3> HIDE DEF T
    <3> QED BY <3>1, Smallest
  <2>2. PICK z \in s : Weight(w, s) # w[z] + Weight(w, s \ {z})
    OBVIOUS
  <2>3. s \in SUBSET S /\ \A t \in SUBSET S : IsFiniteSet(t)
    BY FS_Subset
  <2>4. PICK y \in s : Weight(w, s) = w[y] + Weight(w, s \ {y})
    BY <2>2, <2>3, WeightStep
  <2>5. y # z
    BY <2>2, <2>4
  <2>6. Weight(w, s \ {y}) = w[z] + Weight(w, (s \ {y}) \ {z})
    <3>1. s \ {y} \in SUBSET S /\ z \in s \ {y} /\ s \ {y} \subseteq s /\ s \ {y} # s
      BY <2>3, <2>5
    <3> QED BY <2>1, <3>1
  <2>7. Weight(w, s \ {z}) = w[y] + Weight(w, (s \ {z}) \ {y})
    <3>1. s \ {z} \in SUBSET S /\ y \in s \ {z} /\ s \ {z} \subseteq s /\ s \ {z} # s
      BY <2>3, <2>5
    <3> QED BY <2>1, <3>1
  <2> DEFINE rest == (s \ {y}) \ {z}
  <2>8. (s \ {z}) \ {y} = rest
    OBVIOUS
  <2>9. w[y] \in Nat /\ w[z] \in Nat /\ Weight(w, rest) \in Nat
    <3>1. rest \in SUBSET S
      BY <2>3
    <3> HIDE DEF rest
    <3>2. IsFiniteSet(rest) /\ \A e \in rest : w[e] \in Nat
      BY <2>3, <3>1
    <3> QED BY <2>3, <3>2, WeightNat
  <2> HIDE DEF rest, T, Out
  <2>10. Weight(w, s) = w[y] + (w[z] + Weight(w, rest))
    BY <2>4, <2>6 DEF rest
  <2>11. Weight(w, s \ {z}) = w[y] + Weight(w, rest)
    BY <2>7, <2>8
  <2> QED BY <2>2, <2>9, <2>10, <2>11
<1>2. S \notin T
  BY <1>1
<1> QED BY <1>2
-----------------------------------------------------------------------------
(* The amounts of rows. *)

LEMMA AmountsAreWeights ==
  ASSUME NEW S, IsFiniteSet(S), NEW t
  PROVE  Amounts(t, S) = Weight([m \in S |-> t[m].amount], S)
<1> DEFINE w == [m \in S |-> t[m].amount]
           J == CHOOSE J : J = [s \in SUBSET S |->
                   IF s = {} THEN 0
                   ELSE LET x == CHOOSE x \in s : TRUE IN t[x].amount + J[s \ {x}]]
<1>1. Amounts(t, S) = J[S]
  BY DEF Amounts, MapThenSumSet, MapThenFoldSet
<1>2. \A s \in SUBSET S : s # {} => w[CHOOSE x \in s : TRUE] = t[CHOOSE x \in s : TRUE].amount
  OBVIOUS
<1>3. PICK I : Adds(I, w, S)
  <2> HIDE DEF w
  <2> QED BY AddsExists
<1>4. I = [s \in SUBSET S |->
             IF s = {} THEN 0
             ELSE LET x == CHOOSE x \in s : TRUE IN t[x].amount + I[s \ {x}]]
  <2> HIDE DEF w
  <2> QED BY <1>2, <1>3 DEF Adds
<1>5. J = [s \in SUBSET S |->
             IF s = {} THEN 0
             ELSE LET x == CHOOSE x \in s : TRUE IN t[x].amount + J[s \ {x}]]
  BY <1>4
<1> HIDE DEF w, J
<1>6. Adds(J, w, S)
  BY <1>2, <1>5 DEF Adds
<1> QED BY <1>1, <1>6, WeightAdds DEF w

LEMMA AmountsEmpty == ASSUME NEW t  PROVE Amounts(t, {}) = 0
  BY AmountsAreWeights, WeightEmpty, FS_EmptySet

\* Rows outside the set, and other columns of the rows in it, do not matter.
LEMMA AmountsAgree ==
  ASSUME NEW S, IsFiniteSet(S), NEW t, NEW u, \A m \in S : t[m].amount = u[m].amount
  PROVE  Amounts(t, S) = Amounts(u, S)
<1>1. [m \in S |-> t[m].amount] = [m \in S |-> u[m].amount]
  OBVIOUS
<1> QED BY <1>1, AmountsAreWeights

LEMMA AmountsNat ==
  ASSUME NEW S, IsFiniteSet(S), NEW t, \A m \in S : t[m].amount \in Nat
  PROVE  Amounts(t, S) \in Nat
<1> DEFINE w == [m \in S |-> t[m].amount]
<1>1. \A m \in S : w[m] \in Nat
  OBVIOUS
<1>2. Amounts(t, S) = Weight(w, S)
  BY AmountsAreWeights
<1> HIDE DEF w
<1> QED BY <1>1, <1>2, WeightNat

LEMMA AmountsSplit ==
  ASSUME NEW S, IsFiniteSet(S), NEW t, \A m \in S : t[m].amount \in Nat, NEW x \in S
  PROVE  Amounts(t, S) = t[x].amount + Amounts(t, S \ {x})
<1> DEFINE w == [m \in S |-> t[m].amount]
           v == [m \in S \ {x} |-> t[m].amount]
<1>1. IsFiniteSet(S \ {x})
  BY FS_Subset
<1>2. /\ Amounts(t, S) = Weight(w, S)
      /\ Amounts(t, S \ {x}) = Weight(v, S \ {x})
  BY <1>1, AmountsAreWeights
<1>3. /\ \A m \in S : w[m] \in Nat
      /\ \A m \in S \ {x} : v[m] = w[m]
      /\ w[x] = t[x].amount
  OBVIOUS
<1> HIDE DEF w, v
<1>4. Weight(w, S) = w[x] + Weight(w, S \ {x})
  BY <1>3, WeightSplit
<1>5. Weight(v, S \ {x}) = Weight(w, S \ {x})
  BY <1>1, <1>3, WeightAgrees
<1> QED BY <1>2, <1>3, <1>4, <1>5

\* One row more, the others with the amounts they had.
LEMMA AmountsGrow ==
  ASSUME NEW S, IsFiniteSet(S), NEW x \in S, NEW t, NEW u,
         \A m \in S : u[m].amount \in Nat,
         \A m \in S \ {x} : u[m].amount = t[m].amount
  PROVE  /\ Amounts(u, S) = u[x].amount + Amounts(t, S \ {x})
         /\ Amounts(t, S \ {x}) \in Nat
<1>1. Amounts(u, S) = u[x].amount + Amounts(u, S \ {x})
  BY AmountsSplit
<1>2. PICK R : R = S \ {x}
  OBVIOUS
<1>3. IsFiniteSet(R) /\ \A m \in R : u[m].amount = t[m].amount /\ t[m].amount \in Nat
  BY <1>2, FS_Subset
<1>4. Amounts(u, R) = Amounts(t, R)
  BY <1>3, AmountsAgree
<1>5. Amounts(t, R) \in Nat
  BY <1>3, AmountsNat
<1> QED BY <1>1, <1>2, <1>4, <1>5

\* One row of the set is among the amounts.
LEMMA AmountsAtLeast ==
  ASSUME NEW S, IsFiniteSet(S), NEW t, \A m \in S : t[m].amount \in Nat, NEW x \in S
  PROVE  t[x].amount <= Amounts(t, S)
<1>1. Amounts(t, S) = t[x].amount + Amounts(t, S \ {x})
  BY AmountsSplit
<1>2. Amounts(t, S \ {x}) \in Nat
  <2>1. IsFiniteSet(S \ {x})
    BY FS_Subset
  <2> QED BY <2>1, AmountsNat
<1> QED BY <1>1, <1>2

LEMMA ImageFinite ==
  ASSUME NEW C, IsFiniteSet(C), NEW f
  PROVE  IsFiniteSet({f[c] : c \in C})
<1> DEFINE g == [c \in C |-> f[c]]
           D == {f[c] : c \in C}
<1>1. g \in Surjection(C, D)
  BY DEF Surjection
<1> HIDE DEF g, D
<1>2. IsFiniteSet(D)
  BY <1>1, FS_Surjection
<1> QED BY <1>2 DEF D

\* Rows that stand for the members of C one for one.
LEMMA AmountsOver ==
  ASSUME NEW C, IsFiniteSet(C), NEW f, NEW t, NEW w,
         \A c, d \in C : c # d => f[c] # f[d],
         \A c \in C : t[f[c]].amount = w[c] /\ w[c] \in Nat
  PROVE  Amounts(t, {f[c] : c \in C}) = Weight(w, C)
<1> DEFINE Of(s) == {f[c] : c \in s}
           T == {s \in SUBSET C : Amounts(t, Of(s)) # Weight(w, s)}
<1>1. T = {}
  <2> SUFFICES ASSUME T # {}  PROVE FALSE
    OBVIOUS
  <2>1. PICK s \in T : \A u \in T : u \subseteq s => u = s
    <3>1. T \in SUBSET SUBSET C
      OBVIOUS
    <3> HIDE DEF T
    <3> QED BY <3>1, Smallest
  <2>2. s # {}
    <3>1. Of({}) = {}
      OBVIOUS
    <3> QED BY <3>1, AmountsEmpty, WeightEmpty
  <2>3. PICK c : c \in s
    BY <2>2
  <2> DEFINE rest == s \ {c}
  <2>4. /\ IsFiniteSet(s) /\ IsFiniteSet(rest) /\ IsFiniteSet(Of(rest))
        /\ s \in SUBSET C /\ rest \in SUBSET C
    <3>1. s \in SUBSET C /\ rest \in SUBSET C
      OBVIOUS
    <3>2. IsFiniteSet(s) /\ IsFiniteSet(rest)
      BY <3>1, FS_Subset
    <3> HIDE DEF rest
    <3>3. IsFiniteSet(Of(rest))
      BY <3>2, ImageFinite
    <3> QED BY <3>1, <3>2, <3>3
  <2>5. Of(s) = Of(rest) \cup {f[c]} /\ f[c] \notin Of(rest)
    BY <2>3
  <2>6. /\ \A m \in Of(rest) : t[m].amount \in Nat
        /\ t[f[c]].amount = w[c] /\ w[c] \in Nat /\ \A d \in s : w[d] \in Nat
    BY <2>3
  <2>7. Amounts(t, Of(rest)) = Weight(w, rest)
    BY <2>1, <2>3
  <2>8. Amounts(t, Of(s)) = Amounts(t, Of(rest)) + w[c]
    <3> DEFINE R == Of(rest)
               x == f[c]
    <3>1. /\ IsFiniteSet(R) /\ x \notin R /\ Of(s) = R \cup {x} /\ t[x].amount = w[c]
          /\ \A m \in R : t[m].amount \in Nat
          /\ t[x].amount \in Nat
      BY <2>4, <2>5, <2>6
    <3> HIDE DEF R, x, Of, rest
    <3> HIDE DEF T
    <3>2. PICK P : P = R \cup {x}
      OBVIOUS
    <3>3. IsFiniteSet(P) /\ P \ {x} = R /\ x \in P /\ \A m \in P : t[m].amount \in Nat
      BY <3>1, <3>2, FS_AddElement
    <3>4. Amounts(t, P) = t[x].amount + Amounts(t, P \ {x})
      BY <3>3, AmountsSplit
    <3>5. Amounts(t, R) \in Nat
      BY <3>1, AmountsNat
    <3>6. Amounts(t, Of(s)) = Amounts(t, P) /\ P \ {x} = R /\ t[x].amount = w[c]
      BY <3>1, <3>2, <3>3
    <3>7. Amounts(t, Of(s)) = Amounts(t, R) + w[c]
      <4>1. Amounts(t, Of(s)) = w[c] + Amounts(t, R) /\ w[c] \in Nat
        BY <3>1, <3>4, <3>6
      <4> QED BY <3>5, <4>1
    <3> QED BY <3>7 DEF R
  <2>9. Weight(w, s) = w[c] + Weight(w, rest) /\ Weight(w, rest) \in Nat
    BY <2>3, <2>4, <2>6, WeightSplit, WeightNat
  <2>10. Amounts(t, Of(s)) # Weight(w, s)
    OBVIOUS
  <2> HIDE DEF Of, rest, T
  <2> QED BY <2>6, <2>7, <2>8, <2>9, <2>10
<1> QED BY <1>1
=============================================================================

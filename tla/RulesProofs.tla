---------------------------- MODULE RulesProofs ----------------------------
(***************************************************************************)
(* Lemmas about the operators of Rules.tla, for every party, every list of *)
(* rooms and every tariff: a party that is rebalanced or spread over an    *)
(* arrangement is seated whole, in rooms of the size let to it, and every  *)
(* arrangement that is offered is one.                                     *)
(*                                                                         *)
(* Prices and parties are sums over rooms, folds over a set in an order    *)
(* nobody knows.  Two facts make them tractable: of the subsets of a       *)
(* finite set with some property one is smallest (Minimal), which is       *)
(* induction without a predicate to instantiate; and so a sum can be taken *)
(* apart at any of its elements (SumRemove).                               *)
(***************************************************************************)
EXTENDS Rules, FiniteSetTheorems, TLAPS

-----------------------------------------------------------------------------
(* Induction over the subsets of a finite set.                             *)
LEMMA Minimal ==
  ASSUME NEW S, IsFiniteSet(S), NEW C, C \subseteq SUBSET S, C # {}
  PROVE  \E T \in C : \A U \in C : U \subseteq T => U = T
<1>1. IsWellFoundedOn(StrictSubsetOrdering(S), SUBSET S)
  BY FS_StrictSubsetOrderingWellFounded, FS_FiniteSubsetsOfFinite
<1>2. PICK T \in C : \A U \in C : ~ (<<U, T>> \in StrictSubsetOrdering(S))
  BY <1>1, WFMin
<1>3. ASSUME NEW U \in C, U \subseteq T PROVE U = T
  BY <1>2, <1>3 DEF StrictSubsetOrdering
<1> QED BY <1>3

-----------------------------------------------------------------------------
(* A sum is what its recursive definition says: the function that the fold *)
(* chooses exists, by induction over the subsets on which it is defined.   *)
Pick(s) == CHOOSE x \in s : TRUE
Rest(s) == s \ {Pick(s)}
IsSum(g, fun, T) ==
  g = [s \in SUBSET T |-> IF s = {} THEN 0 ELSE fun[Pick(s)] + g[Rest(s)]]

LEMMA PickRest ==
  ASSUME NEW s, s # {}
  PROVE  Pick(s) \in s /\ Rest(s) \subseteq s /\ Rest(s) # s
<1>1. \E x \in s : TRUE
  OBVIOUS
<1>2. Pick(s) \in s
  BY <1>1 DEF Pick
<1> QED BY <1>2 DEF Rest

LEMMA SumUnique ==
  ASSUME NEW fun, NEW T, IsFiniteSet(T), NEW g, NEW h, IsSum(g, fun, T), IsSum(h, fun, T)
  PROVE  g = h
<1> DEFINE C == {s \in SUBSET T : g[s] # h[s]}
<1>1. /\ g = [s \in SUBSET T |-> g[s]] /\ h = [s \in SUBSET T |-> h[s]]
      /\ \A s \in SUBSET T : g[s] = IF s = {} THEN 0 ELSE fun[Pick(s)] + g[Rest(s)]
      /\ \A s \in SUBSET T : h[s] = IF s = {} THEN 0 ELSE fun[Pick(s)] + h[Rest(s)]
  BY DEF IsSum
<1>2. \A s : s \in C <=> s \in SUBSET T /\ g[s] # h[s]
  OBVIOUS
<1> HIDE DEF C
<1>3. ASSUME C # {} PROVE FALSE
  <2>1. PICK s \in C : \A u \in C : u \subseteq s => u = s
    BY <1>2, <1>3, Minimal
  <2>2. s # {}
    BY <1>1, <1>2
  <2>3. Rest(s) \in SUBSET T /\ Rest(s) \notin C
    BY <1>2, <2>1, <2>2, PickRest
  <2>4. s \in SUBSET T /\ g[s] # h[s] /\ g[Rest(s)] = h[Rest(s)]
    BY <1>2, <2>1, <2>3
  <2>5. g[s] = fun[Pick(s)] + g[Rest(s)]
    BY <1>1, <2>2, <2>4
  <2>6. h[s] = fun[Pick(s)] + h[Rest(s)]
    BY <1>1, <2>2, <2>4
  <2> QED BY <2>4, <2>5, <2>6
<1>4. \A s \in SUBSET T : g[s] = h[s]
  BY <1>2, <1>3
<1> QED BY <1>1, <1>4

LEMMA SumRestrict ==
  ASSUME NEW fun, NEW T, NEW g, IsSum(g, fun, T), NEW U \in SUBSET T
  PROVE  IsSum([s \in SUBSET U |-> g[s]], fun, U)
<1>1. \A s \in SUBSET T : g[s] = IF s = {} THEN 0 ELSE fun[Pick(s)] + g[Rest(s)]
  BY DEF IsSum
<1>2. \A s \in SUBSET U : s # {} => Rest(s) \in SUBSET U
  BY DEF Rest
<1> QED BY <1>1, <1>2 DEF IsSum

LEMMA SumExists ==
  ASSUME NEW fun, NEW S, IsFiniteSet(S)
  PROVE  \E g : IsSum(g, fun, S)
<1> DEFINE C == {T \in SUBSET S : ~ \E g : IsSum(g, fun, T)}
           part(U) == CHOOSE g : IsSum(g, fun, U)
<1>1. ASSUME S \in C PROVE FALSE
  <2>1. PICK T \in C : \A U \in C : U \subseteq T => U = T
    <3>1. C \subseteq SUBSET S /\ C # {}
      BY <1>1
    <3> HIDE DEF C
    <3> QED BY <3>1, Minimal
  <2>2. ASSUME NEW U \in SUBSET T, U # T
        PROVE  IsSum(part(U), fun, U) /\ IsFiniteSet(U)
    <3>1. U \notin C /\ U \in SUBSET S
      BY <2>1, <2>2
    <3>2. \E g : IsSum(g, fun, U)
      BY <3>1
    <3> QED BY <3>1, <3>2, FS_Subset
  <2> DEFINE G == [s \in SUBSET T |->
                     IF s = {} THEN 0 ELSE fun[Pick(s)] + part(Rest(s))[Rest(s)]]
  <2>3. ASSUME NEW s \in SUBSET T, s # {}
        PROVE  G[Rest(s)] = part(Rest(s))[Rest(s)]
    <3> DEFINE r == Rest(s)
    <3>1. r \in SUBSET T /\ r # T
      BY <2>3, PickRest
    <3>2. IsSum(part(r), fun, r) /\ IsFiniteSet(r)
      BY <3>1, <2>2
    <3> HIDE DEF r, part
    <3>3. part(r)[r] = IF r = {} THEN 0 ELSE fun[Pick(r)] + part(r)[Rest(r)]
      BY <3>2 DEF IsSum
    <3>4. ASSUME r = {} PROVE G[r] = part(r)[r]
      BY <3>1, <3>3, <3>4
    <3>5. ASSUME r # {} PROVE G[r] = part(r)[r]
      <4> DEFINE t == Rest(r)
      <4>1. t \in SUBSET r /\ t # r /\ t \in SUBSET T /\ t # T
        BY <3>1, <3>5, PickRest
      <4> HIDE DEF t
      <4>2. IsSum(part(t), fun, t) /\ IsFiniteSet(t)
        BY <4>1, <2>2
      <4>3. IsSum([u \in SUBSET t |-> part(r)[u]], fun, t)
        BY <3>2, <4>1, SumRestrict
      <4>4. part(t) = [u \in SUBSET t |-> part(r)[u]]
        BY <4>2, <4>3, SumUnique
      <4>5. part(t)[t] = part(r)[t]
        BY <4>4
      <4> QED BY <3>1, <3>3, <3>5, <4>5 DEF t
    <3> QED BY <3>4, <3>5 DEF r
  <2>4. IsSum(G, fun, T)
    <3> HIDE DEF part
    <3>1. \A s \in SUBSET T : G[s] = IF s = {} THEN 0 ELSE fun[Pick(s)] + G[Rest(s)]
      BY <2>3
    <3>2. G = [s \in SUBSET T |-> G[s]]
      OBVIOUS
    <3> HIDE DEF G
    <3> QED BY <3>1, <3>2 DEF IsSum
  <2> QED BY <2>1, <2>4
<1> QED BY <1>1

LEMMA SumDefined ==
  ASSUME NEW fun, NEW S, IsFiniteSet(S)
  PROVE  \E g : IsSum(g, fun, S) /\ SumFunctionOnSet(fun, S) = g[S]
<1>1. SumFunctionOnSet(fun, S) =
        (CHOOSE g : g = [s \in SUBSET S |->
           IF s = {} THEN 0 ELSE fun[Pick(s)] + g[s \ {Pick(s)}]])[S]
  BY DEF SumFunctionOnSet, FoldFunctionOnSet, MapThenFoldSet, Pick
<1>2. SumFunctionOnSet(fun, S) = (CHOOSE g : IsSum(g, fun, S))[S]
  BY <1>1 DEF IsSum, Rest
<1> QED BY <1>2, SumExists

LEMMA SumEmpty == ASSUME NEW fun PROVE SumFunctionOnSet(fun, {}) = 0
<1>1. PICK g : IsSum(g, fun, {}) /\ SumFunctionOnSet(fun, {}) = g[{}]
  BY SumDefined, FS_EmptySet
<1> QED BY <1>1 DEF IsSum

LEMMA SumPick ==
  ASSUME NEW fun, NEW S, IsFiniteSet(S), S # {}
  PROVE  SumFunctionOnSet(fun, S) = fun[Pick(S)] + SumFunctionOnSet(fun, Rest(S))
<1>1. PICK g : IsSum(g, fun, S) /\ SumFunctionOnSet(fun, S) = g[S]
  BY SumDefined
<1>2. Rest(S) \in SUBSET S /\ IsFiniteSet(Rest(S))
  BY PickRest, FS_Subset
<1>3. PICK h : IsSum(h, fun, Rest(S)) /\ SumFunctionOnSet(fun, Rest(S)) = h[Rest(S)]
  BY <1>2, SumDefined
<1>4. h = [s \in SUBSET Rest(S) |-> g[s]]
  <2>1. IsSum([s \in SUBSET Rest(S) |-> g[s]], fun, Rest(S))
    BY <1>1, <1>2, SumRestrict
  <2> QED BY <2>1, <1>2, <1>3, SumUnique
<1>5. h[Rest(S)] = g[Rest(S)]
  BY <1>4
<1>6. g[S] = fun[Pick(S)] + g[Rest(S)]
  BY <1>1 DEF IsSum
<1> QED BY <1>1, <1>3, <1>5, <1>6

-----------------------------------------------------------------------------
(* The laws of sums.                                                       *)
LEMMA SumInteger ==
  ASSUME NEW fun, NEW S, IsFiniteSet(S), \A x \in S : fun[x] \in Int
  PROVE  SumFunctionOnSet(fun, S) \in Int
<1> DEFINE C == {T \in SUBSET S : SumFunctionOnSet(fun, T) \notin Int}
<1>1. ASSUME S \in C PROVE FALSE
  <2>1. PICK T \in C : \A U \in C : U \subseteq T => U = T
    <3>1. C \subseteq SUBSET S /\ C # {}
      BY <1>1
    <3> HIDE DEF C
    <3> QED BY <3>1, Minimal
  <2>2. T \in SUBSET S /\ SumFunctionOnSet(fun, T) \notin Int
    BY <2>1
  <2>3. T # {}
    BY <2>2, SumEmpty
  <2>4. IsFiniteSet(T) /\ Rest(T) \in SUBSET S /\ fun[Pick(T)] \in Int
    BY <2>2, <2>3, PickRest, FS_Subset
  <2>5. SumFunctionOnSet(fun, Rest(T)) \in Int
    BY <2>1, <2>3, <2>4, PickRest
  <2>6. SumFunctionOnSet(fun, T) = fun[Pick(T)] + SumFunctionOnSet(fun, Rest(T))
    BY <2>3, <2>4, SumPick
  <2> QED BY <2>2, <2>4, <2>5, <2>6
<1> QED BY <1>1

(* The element that comes off first does not matter.                       *)
LEMMA SumRemove ==
  ASSUME NEW fun, NEW S, IsFiniteSet(S), \A x \in S : fun[x] \in Int, NEW y \in S
  PROVE  SumFunctionOnSet(fun, S) = fun[y] + SumFunctionOnSet(fun, S \ {y})
<1> DEFINE Off(T, z) == SumFunctionOnSet(fun, T) = fun[z] + SumFunctionOnSet(fun, T \ {z})
           C == {T \in SUBSET S : \E z \in T : ~Off(T, z)}
<1>1. ASSUME S \in C PROVE FALSE
  <2>1. PICK T \in C : \A U \in C : U \subseteq T => U = T
    <3>1. C \subseteq SUBSET S /\ C # {}
      BY <1>1
    <3> HIDE DEF C
    <3> QED BY <3>1, Minimal
  <2>2. PICK z \in T : ~Off(T, z)
    BY <2>1
  <2>3. T # {} /\ IsFiniteSet(T) /\ T \in SUBSET S
    BY <2>1, <2>2, FS_Subset
  <2>4. PICK p \in T : Off(T, p)
    <3>1. SumFunctionOnSet(fun, T) = fun[Pick(T)] + SumFunctionOnSet(fun, Rest(T))
      BY <2>3, SumPick
    <3>2. Pick(T) \in T
      BY <2>3, PickRest
    <3> QED BY <3>1, <3>2 DEF Rest
  <2>5. p # z
    BY <2>2, <2>4
  <2> DEFINE U == T \ {p}
             V == T \ {z}
             W == (T \ {p}) \ {z}
  <2>6. /\ U \in SUBSET S /\ V \in SUBSET S /\ z \in U /\ p \in V
        /\ U \ {z} = W /\ V \ {p} = W /\ U \notin C /\ V \notin C
        /\ IsFiniteSet(W) /\ W \subseteq S
    BY <2>1, <2>2, <2>3, <2>4, <2>5, FS_Subset
  <2>7. Off(U, z) /\ Off(V, p)
    BY <2>6
  <2>8. SumFunctionOnSet(fun, W) \in Int /\ fun[p] \in Int /\ fun[z] \in Int
    BY <2>3, <2>6, SumInteger
  <2>9. /\ SumFunctionOnSet(fun, T) = fun[p] + SumFunctionOnSet(fun, U)
        /\ SumFunctionOnSet(fun, U) = fun[z] + SumFunctionOnSet(fun, W)
        /\ SumFunctionOnSet(fun, V) = fun[p] + SumFunctionOnSet(fun, W)
    BY <2>4, <2>6, <2>7
  <2>10. SumFunctionOnSet(fun, T) = fun[z] + SumFunctionOnSet(fun, V)
    <3> HIDE DEF U, V, W
    <3> QED BY <2>8, <2>9
  <2> QED BY <2>2, <2>10
<1> QED BY <1>1

LEMMA SumAdd ==
  ASSUME NEW fun, NEW S, IsFiniteSet(S), NEW y, y \notin S,
         \A x \in S \cup {y} : fun[x] \in Int
  PROVE  SumFunctionOnSet(fun, S \cup {y}) = fun[y] + SumFunctionOnSet(fun, S)
<1>1. IsFiniteSet(S \cup {y}) /\ (S \cup {y}) \ {y} = S /\ y \in S \cup {y}
  BY FS_AddElement
<1> QED BY <1>1, SumRemove

(* Sums compare as their elements do.                                      *)
LEMMA SumLess ==
  ASSUME NEW f, NEW g, NEW S, IsFiniteSet(S),
         \A x \in S : f[x] \in Int /\ g[x] \in Int /\ f[x] <= g[x]
  PROVE  SumFunctionOnSet(f, S) <= SumFunctionOnSet(g, S)
<1> DEFINE C == {T \in SUBSET S : ~(SumFunctionOnSet(f, T) <= SumFunctionOnSet(g, T))}
<1>1. ASSUME S \in C PROVE FALSE
  <2>1. PICK T \in C : \A U \in C : U \subseteq T => U = T
    <3>1. C \subseteq SUBSET S /\ C # {}
      BY <1>1
    <3> HIDE DEF C
    <3> QED BY <3>1, Minimal
  <2>2. T # {} /\ IsFiniteSet(T) /\ T \in SUBSET S
    <3>1. T \in SUBSET S /\ ~(SumFunctionOnSet(f, T) <= SumFunctionOnSet(g, T))
      BY <2>1
    <3>2. SumFunctionOnSet(f, {}) = 0 /\ SumFunctionOnSet(g, {}) = 0
      BY SumEmpty
    <3>3. T # {}
      BY <3>1, <3>2
    <3>4. IsFiniteSet(T)
      BY <3>1, FS_Subset
    <3> QED BY <3>1, <3>3, <3>4
  <2>3. /\ Rest(T) \in SUBSET S /\ Rest(T) \notin C /\ Pick(T) \in S /\ IsFiniteSet(Rest(T))
    <3>1. Pick(T) \in T /\ Rest(T) \subseteq T /\ Rest(T) # T
      BY <2>2, PickRest
    <3>2. Rest(T) \in SUBSET S /\ Rest(T) \notin C
      BY <2>1, <2>2, <3>1
    <3> QED BY <2>2, <3>1, <3>2, FS_Subset
  <2>4. /\ SumFunctionOnSet(f, Rest(T)) \in Int /\ SumFunctionOnSet(g, Rest(T)) \in Int
        /\ SumFunctionOnSet(f, Rest(T)) <= SumFunctionOnSet(g, Rest(T))
    BY <2>3, SumInteger
  <2>5. /\ SumFunctionOnSet(f, T) = f[Pick(T)] + SumFunctionOnSet(f, Rest(T))
        /\ SumFunctionOnSet(g, T) = g[Pick(T)] + SumFunctionOnSet(g, Rest(T))
    BY <2>2, SumPick
  <2>6. f[Pick(T)] \in Int /\ g[Pick(T)] \in Int /\ f[Pick(T)] <= g[Pick(T)]
    BY <2>3
  <2>7. SumFunctionOnSet(f, T) <= SumFunctionOnSet(g, T)
    BY <2>4, <2>5, <2>6
  <2> QED BY <2>1, <2>7
<1> QED BY <1>1

LEMMA SumSame ==
  ASSUME NEW f, NEW g, NEW S, IsFiniteSet(S), \A x \in S : f[x] \in Int /\ f[x] = g[x]
  PROVE  SumFunctionOnSet(f, S) = SumFunctionOnSet(g, S)
<1>1. /\ SumFunctionOnSet(f, S) <= SumFunctionOnSet(g, S)
      /\ SumFunctionOnSet(g, S) <= SumFunctionOnSet(f, S)
  BY SumLess
<1>2. SumFunctionOnSet(f, S) \in Int /\ SumFunctionOnSet(g, S) \in Int
  BY SumInteger
<1> QED BY <1>1, <1>2

LEMMA SumZero ==
  ASSUME NEW f, NEW S, IsFiniteSet(S), \A x \in S : f[x] = 0
  PROVE  SumFunctionOnSet(f, S) = 0
<1> DEFINE C == {T \in SUBSET S : SumFunctionOnSet(f, T) # 0}
<1>1. ASSUME S \in C PROVE FALSE
  <2>1. PICK T \in C : \A U \in C : U \subseteq T => U = T
    <3>1. C \subseteq SUBSET S /\ C # {}
      BY <1>1
    <3> HIDE DEF C
    <3> QED BY <3>1, Minimal
  <2>2. T # {} /\ IsFiniteSet(T) /\ T \in SUBSET S
    BY <2>1, SumEmpty, FS_Subset
  <2>3. Rest(T) \in SUBSET S /\ Rest(T) \notin C /\ f[Pick(T)] = 0
    BY <2>1, <2>2, PickRest
  <2> QED BY <2>1, <2>2, <2>3, SumPick
<1> QED BY <1>1

LEMMA SumNatural ==
  ASSUME NEW fun, NEW S, IsFiniteSet(S), \A x \in S : fun[x] \in Nat
  PROVE  /\ SumFunctionOnSet(fun, S) \in Nat
         /\ \A x \in S : fun[x] <= SumFunctionOnSet(fun, S)
<1>1. ASSUME NEW T \in SUBSET S PROVE SumFunctionOnSet(fun, T) \in Nat
  <2> DEFINE zero == [x \in S |-> 0]
  <2>1. IsFiniteSet(T) /\ (\A x \in T : zero[x] = 0 /\ fun[x] \in Int /\ zero[x] <= fun[x])
    BY FS_Subset
  <2> HIDE DEF zero
  <2>2. SumFunctionOnSet(zero, T) = 0 /\ SumFunctionOnSet(zero, T) <= SumFunctionOnSet(fun, T)
    BY <2>1, SumZero, SumLess
  <2>3. SumFunctionOnSet(fun, T) \in Int
    BY <2>1, SumInteger
  <2> QED BY <2>2, <2>3
<1>2. ASSUME NEW x \in S PROVE fun[x] <= SumFunctionOnSet(fun, S)
  <2>1. SumFunctionOnSet(fun, S) = fun[x] + SumFunctionOnSet(fun, S \ {x})
    BY SumRemove
  <2>2. SumFunctionOnSet(fun, S \ {x}) \in Nat
    BY <1>1
  <2> QED BY <2>1, <2>2
<1> QED BY <1>1, <1>2

LEMMA SumPlus ==
  ASSUME NEW f, NEW g, NEW h, NEW S, IsFiniteSet(S),
         \A x \in S : f[x] \in Int /\ g[x] \in Int /\ h[x] = f[x] + g[x]
  PROVE  SumFunctionOnSet(h, S) = SumFunctionOnSet(f, S) + SumFunctionOnSet(g, S)
<1> DEFINE Bad(T) == SumFunctionOnSet(h, T) # SumFunctionOnSet(f, T) + SumFunctionOnSet(g, T)
           C == {T \in SUBSET S : Bad(T)}
<1>1. ASSUME S \in C PROVE FALSE
  <2>1. PICK T \in C : \A U \in C : U \subseteq T => U = T
    <3>1. C \subseteq SUBSET S /\ C # {}
      BY <1>1
    <3> HIDE DEF C
    <3> QED BY <3>1, Minimal
  <2>2. T \in SUBSET S /\ Bad(T)
    BY <2>1
  <2>3. T # {}
    BY <2>2, SumEmpty
  <2> DEFINE x == Pick(T)
             R == Rest(T)
  <2>4. x \in T /\ R \subseteq T /\ R # T
    BY <2>3, PickRest
  <2>5. ~Bad(R)
    BY <2>1, <2>2, <2>4
  <2>6. IsFiniteSet(T) /\ IsFiniteSet(R)
    BY <2>2, <2>4, FS_Subset
  <2>7. /\ SumFunctionOnSet(f, T) = f[x] + SumFunctionOnSet(f, R)
        /\ SumFunctionOnSet(g, T) = g[x] + SumFunctionOnSet(g, R)
        /\ SumFunctionOnSet(h, T) = h[x] + SumFunctionOnSet(h, R)
    BY <2>3, <2>6, SumPick
  <2>8. f[x] \in Int /\ g[x] \in Int /\ h[x] = f[x] + g[x]
    BY <2>2, <2>4
  <2>9. SumFunctionOnSet(f, R) \in Int /\ SumFunctionOnSet(g, R) \in Int
    <3>1. \A y \in R : f[y] \in Int /\ g[y] \in Int
      BY <2>2, <2>4
    <3> QED BY <2>6, <3>1, SumInteger
  <2> HIDE DEF x, R
  <2> QED BY <2>2, <2>5, <2>7, <2>8, <2>9
<1> QED BY <1>1

LEMMA SumSplit ==
  ASSUME NEW fun, NEW S, IsFiniteSet(S), \A x \in S : fun[x] \in Int, NEW T \in SUBSET S
  PROVE  SumFunctionOnSet(fun, S) = SumFunctionOnSet(fun, T) + SumFunctionOnSet(fun, S \ T)
<1> DEFINE Bad(U) == SumFunctionOnSet(fun, S) # SumFunctionOnSet(fun, U) + SumFunctionOnSet(fun, S \ U)
           C == {U \in SUBSET S : Bad(U)}
<1>1. ASSUME T \in C PROVE FALSE
  <2>1. PICK U \in C : \A V \in C : V \subseteq U => V = U
    <3>1. C \subseteq SUBSET S /\ C # {}
      BY <1>1
    <3> HIDE DEF C
    <3> QED BY <3>1, Minimal
  <2>2. U \in SUBSET S /\ Bad(U)
    BY <2>1
  <2>3. U # {}
    <3>1. S \ {} = S /\ SumFunctionOnSet(fun, S) \in Int
      BY SumInteger
    <3> QED BY <2>2, <3>1, SumEmpty
  <2> DEFINE x == Pick(U)
             R == Rest(U)
  <2>4. x \in U /\ R \subseteq U /\ R # U /\ U \subseteq S
    BY <2>2, <2>3, PickRest
  <2>5. ~Bad(R)
    BY <2>1, <2>4
  <2>6. x \in S \ R /\ (S \ R) \ {x} = S \ U
    BY <2>4 DEF Rest
  <2>7. IsFiniteSet(U) /\ IsFiniteSet(R) /\ IsFiniteSet(S \ R) /\ IsFiniteSet(S \ U)
    BY <2>4, FS_Subset
  <2>8. SumFunctionOnSet(fun, U) = fun[x] + SumFunctionOnSet(fun, R)
    BY <2>3, <2>7, SumPick
  <2> HIDE DEF x, R
  <2>9. SumFunctionOnSet(fun, S \ R) = fun[x] + SumFunctionOnSet(fun, S \ U)
    <3>1. SumFunctionOnSet(fun, S \ R) = fun[x] + SumFunctionOnSet(fun, (S \ R) \ {x})
      BY <2>6, <2>7, SumRemove
    <3> QED BY <2>6, <3>1
  <2>10. /\ SumFunctionOnSet(fun, R) \in Int /\ SumFunctionOnSet(fun, S \ U) \in Int
         /\ fun[x] \in Int
    <3>1. \A y \in R : fun[y] \in Int
      BY <2>4
    <3>2. \A y \in S \ U : fun[y] \in Int
      BY <2>4
    <3> QED BY <2>4, <2>7, <3>1, <3>2, SumInteger
  <2> QED BY <2>2, <2>5, <2>8, <2>9, <2>10
<1> QED BY <1>1

(* A number of some kind is least among those of its kind.                 *)
LEMMA LeastNumber ==
  ASSUME NEW n \in Nat, NEW K, K \subseteq 0..n, K # {}
  PROVE  \E k \in K : \A m \in K : k <= m
<1> DEFINE C == {T \in SUBSET (1..n) : \E k \in K : T = 1..k}
<1>1. \A k \in K : k \in Nat /\ 1..k \in SUBSET (1..n)
  OBVIOUS
<1>2. PICK T \in C : \A U \in C : U \subseteq T => U = T
  <2> DEFINE S == 1..n
  <2>1. C \subseteq SUBSET S /\ C # {}
    BY <1>1
  <2>2. IsFiniteSet(S)
    BY FS_Interval
  <2> HIDE DEF C, S
  <2> QED BY <2>1, <2>2, Minimal
<1>3. PICK k \in K : T = 1..k
  OBVIOUS
<1>4. ASSUME NEW m \in K, m < k PROVE FALSE
  <2>1. 1..m \in C
    BY <1>1
  <2>2. 1..m \subseteq 1..k /\ k \in 1..k /\ k \notin 1..m
    BY <1>1, <1>4
  <2> HIDE DEF C
  <2>3. 1..m = 1..k
    BY <1>2, <1>3, <2>1, <2>2
  <2> QED BY <2>2, <2>3
<1>5. \A m \in K : ~(m < k)
  BY <1>4
<1> QED BY <1>1, <1>5

(* The sum of the steps from c[0] to c[n] is the way from c[0] to c[n].    *)
Totals(f, c, n) == \A k \in 0..n : SumFunctionOnSet(f, 1..k) = c[k] - c[0]
LEMMA Telescope ==
  ASSUME NEW n \in Nat, NEW f, NEW c, \A k \in 0..n : c[k] \in Int,
         \A i \in 1..n : f[i] = c[i] - c[i - 1]
  PROVE  Totals(f, c, n)
<1> DEFINE Bad(k) == SumFunctionOnSet(f, 1..k) # c[k] - c[0]
           K == {k \in 0..n : Bad(k)}
<1>1. ASSUME K # {} PROVE FALSE
  <2>1. PICK k \in K : \A m \in K : k <= m
    <3>1. K \subseteq 0..n
      OBVIOUS
    <3> HIDE DEF K
    <3> QED BY <1>1, <3>1, LeastNumber
  <2>2. k \in 0..n /\ Bad(k)
    BY <2>1
  <2>3. k # 0
    <3>1. 1..0 = {}
      OBVIOUS
    <3> QED BY <2>2, <3>1, SumEmpty
  <2>4. k - 1 \in 0..n /\ k - 1 \notin K
    BY <2>1, <2>2, <2>3
  <2>5. SumFunctionOnSet(f, 1..(k - 1)) = c[k - 1] - c[0]
    BY <2>4
  <2>6. 1..k = 1..(k - 1) \cup {k} /\ k \notin 1..(k - 1) /\ IsFiniteSet(1..(k - 1))
    <3>1. 1..k = 1..(k - 1) \cup {k} /\ k \notin 1..(k - 1)
      BY <2>2, <2>3
    <3> DEFINE j == k - 1
    <3>2. j \in Int
      BY <2>2
    <3>3. IsFiniteSet(1..j)
      <4> HIDE DEF j
      <4> QED BY <3>2, FS_Interval
    <3> QED BY <3>1, <3>3
  <2>7. \A i \in 1..(k - 1) \cup {k} : f[i] \in Int
    BY <2>2, <2>3
  <2>8. SumFunctionOnSet(f, 1..k) = f[k] + SumFunctionOnSet(f, 1..(k - 1))
    <3> DEFINE P == 1..(k - 1)
    <3> HIDE DEF P
    <3>1. IsFiniteSet(P) /\ k \notin P /\ \A i \in P \cup {k} : f[i] \in Int
      BY <2>6, <2>7 DEF P
    <3>2. SumFunctionOnSet(f, P \cup {k}) = f[k] + SumFunctionOnSet(f, P)
      BY <3>1, SumAdd
    <3> QED BY <2>6, <3>2 DEF P
  <2>9. f[k] = c[k] - c[k - 1] /\ c[k] \in Int /\ c[k - 1] \in Int /\ c[0] \in Int
    BY <2>2, <2>3
  <2>10. SumFunctionOnSet(f, 1..k) = c[k] - c[0]
    BY <2>5, <2>8, <2>9
  <2> QED BY <2>2, <2>10
<1> QED BY <1>1 DEF Totals
-----------------------------------------------------------------------------
(* Even parts.  Filled counts the guests in the first k rooms.             *)
Filled(total, count, k) ==
  k * (total \div count) + (IF k <= total % count THEN k ELSE total % count)

LEMMA Division ==
  ASSUME NEW total \in Nat, NEW count \in Nat, count # 0
  PROVE  /\ total \div count \in Nat /\ total % count \in 0..(count - 1)
         /\ total = count * (total \div count) + (total % count)
<1>1. total % count \in Int
  OBVIOUS
<1>2. total % count >= 0
  OBVIOUS
<1>3. total % count < count
  OBVIOUS
<1>4. total \div count \in Nat
  OBVIOUS
<1>5. total = count * (total \div count) + (total % count)
  OBVIOUS
<1> QED BY <1>1, <1>2, <1>3, <1>4, <1>5

LEMMA Monotone ==
  ASSUME NEW k \in Nat, NEW a \in Int, NEW b \in Int, a <= b
  PROVE  k * a <= k * b /\ k * a \in Int /\ k * b \in Int
OBVIOUS

LEMMA PartsFilled ==
  ASSUME NEW total \in Nat, NEW count \in Nat, count # 0
  PROVE  /\ Filled(total, count, 0) = 0 /\ Filled(total, count, count) = total
         /\ \A k \in 0..count : Filled(total, count, k) \in Int
         /\ \A i \in 1..count : /\ EvenParts(total, count)[i] \in Nat
                                /\ EvenParts(total, count)[i]
                                     = Filled(total, count, i) - Filled(total, count, i - 1)
<1> DEFINE q == total \div count
           r == total % count
<1>1. q \in Nat /\ r \in 0..(count - 1) /\ total = count * q + r
  BY Division
<1>2. \A i \in 1..count : EvenParts(total, count)[i] = q + (IF i <= r THEN 1 ELSE 0)
  BY DEF EvenParts
<1>3. \A k : Filled(total, count, k) = k * q + (IF k <= r THEN k ELSE r)
  BY DEF Filled
<1> HIDE DEF q, r
<1>4. ASSUME NEW k \in 0..count PROVE k * q \in Int
  BY <1>1
<1>5. ASSUME NEW i \in 1..count PROVE i * q = (i - 1) * q + q
  BY <1>1
<1>6. 0 * q = 0
  BY <1>1
<1>7. ASSUME NEW i \in 1..count
      PROVE  /\ EvenParts(total, count)[i] \in Nat
             /\ EvenParts(total, count)[i]
                  = Filled(total, count, i) - Filled(total, count, i - 1)
  <2>1. i - 1 \in 0..count /\ i \in 0..count
    OBVIOUS
  <2> QED BY <1>1, <1>2, <1>3, <1>4, <1>5, <2>1
<1> QED BY <1>1, <1>3, <1>4, <1>6, <1>7

(* No room of a fitting total is filled too little or too much.            *)
LEMMA PartsInRange ==
  ASSUME NEW total \in Nat, NEW count \in Nat, count # 0, NEW g \in Group,
         PartsFit(total, count, g), NEW i \in 1..count
  PROVE  EvenParts(total, count)[i] \in Guests(g)
<1> DEFINE q == total \div count
           r == total % count
           least == Least(g)
           most == Most(g)
<1>1. q \in Nat /\ r \in 0..(count - 1) /\ total = count * q + r
  BY Division
<1>2. EvenParts(total, count)[i] = q + (IF i <= r THEN 1 ELSE 0)
  BY DEF EvenParts
<1>3. least \in Nat /\ most \in Nat
  BY DEF Least, Most, Group
<1>4. count * least <= total /\ total <= count * most
  <2>1. count * least \in Int /\ count * most \in Int
    BY <1>3
  <2> QED BY <2>1 DEF PartsFit
<1> HIDE DEF q, r, least, most
<1>5. q >= least
  <2> SUFFICES ASSUME q + 1 <= least PROVE FALSE
    BY <1>1, <1>3
  <2>1. count * (q + 1) <= count * least
    BY <1>1, <1>3, Monotone
  <2>2. count * (q + 1) = count * q + count /\ count * q \in Int /\ count * least \in Int
    BY <1>1, <1>3
  <2> QED BY <1>1, <1>4, <2>1, <2>2
<1>6. q + (IF i <= r THEN 1 ELSE 0) <= most
  <2> SUFFICES ASSUME IF i <= r THEN most <= q ELSE most + 1 <= q PROVE FALSE
    BY <1>1, <1>3
  <2>1. count * q \in Int /\ count * most \in Int
    BY <1>1, <1>3
  <2>2. CASE i <= r
    <3>1. count * most <= count * q
      BY <1>1, <1>3, <2>2, Monotone
    <3> QED BY <1>1, <1>4, <2>1, <2>2, <3>1
  <2>3. CASE ~(i <= r)
    <3>1. count * (most + 1) <= count * q
      BY <1>1, <1>3, <2>3, Monotone
    <3>2. count * (most + 1) = count * most + count
      BY <1>3
    <3> QED BY <1>1, <1>4, <2>1, <3>1, <3>2
  <2> QED BY <2>2, <2>3
<1> QED BY <1>1, <1>2, <1>3, <1>5, <1>6 DEF Guests, least, most

-----------------------------------------------------------------------------
(* The running sum of natural numbers.                                     *)
LEMMA RunningSum ==
  ASSUME NEW n \in Nat, NEW f, \A i \in 1..n : f[i] \in Nat
  PROVE  /\ SumFunctionOnSet(f, 1..0) = 0
         /\ \A k \in 0..n : /\ SumFunctionOnSet(f, 1..k) \in Nat
                            /\ SumFunctionOnSet(f, 1..k) <= SumFunctionOnSet(f, 1..n)
         /\ \A i \in 1..n : SumFunctionOnSet(f, 1..i) = SumFunctionOnSet(f, 1..(i - 1)) + f[i]
<1>1. SumFunctionOnSet(f, 1..0) = 0
  <2>1. 1..0 = {}
    OBVIOUS
  <2> QED BY <2>1, SumEmpty
<1>2. ASSUME NEW k \in 0..n
      PROVE  /\ SumFunctionOnSet(f, 1..k) \in Nat
             /\ SumFunctionOnSet(f, 1..k) <= SumFunctionOnSet(f, 1..n)
  <2> DEFINE S == 1..n
             T == 1..k
             U == S \ T
  <2>1. T \in SUBSET S /\ IsFiniteSet(S) /\ IsFiniteSet(T)
    BY FS_Interval
  <2>2. \A i \in S : f[i] \in Nat
    OBVIOUS
  <2>3. IsFiniteSet(U)
    BY <2>1, FS_Subset
  <2> HIDE DEF S, T
  <2>4. SumFunctionOnSet(f, S) = SumFunctionOnSet(f, T) + SumFunctionOnSet(f, U)
    BY <2>1, <2>2, SumSplit
  <2>5. SumFunctionOnSet(f, T) \in Nat /\ SumFunctionOnSet(f, U) \in Nat
    <3>1. (\A i \in T : f[i] \in Nat) /\ (\A i \in U : f[i] \in Nat)
      BY <2>1, <2>2
    <3> HIDE DEF U
    <3> QED BY <2>1, <2>3, <3>1, SumNatural
  <2> HIDE DEF U
  <2>6. SumFunctionOnSet(f, T) \in Nat /\ SumFunctionOnSet(f, T) <= SumFunctionOnSet(f, S)
    BY <2>4, <2>5
  <2> QED BY <2>6 DEF S, T
<1>3. ASSUME NEW i \in 1..n
      PROVE  SumFunctionOnSet(f, 1..i) = SumFunctionOnSet(f, 1..(i - 1)) + f[i]
  <2> DEFINE P == 1..(i - 1)
  <2>1. 1..i = P \cup {i} /\ i \notin P
    OBVIOUS
  <2>2. IsFiniteSet(P) /\ \A j \in P \cup {i} : f[j] \in Int
    BY FS_Interval
  <2>3. SumFunctionOnSet(f, P) \in Nat
    <3>1. i - 1 \in 0..n
      OBVIOUS
    <3> QED BY <1>2, <3>1
  <2> HIDE DEF P
  <2>4. SumFunctionOnSet(f, P \cup {i}) = f[i] + SumFunctionOnSet(f, P)
    BY <2>1, <2>2, SumAdd
  <2>5. SumFunctionOnSet(f, P \cup {i}) = SumFunctionOnSet(f, P) + f[i]
    BY <2>3, <2>4
  <2> QED BY <2>1, <2>5 DEF P
<1> QED BY <1>1, <1>2, <1>3

(* How much of the stretch from..to is among the first k in line.          *)
Passed(from, to, k) ==
  IF k < from THEN 0 ELSE IF k <= to THEN k - from + 1 ELSE to - from + 1

LEMMA RoomTakes ==
  ASSUME NEW from \in Nat, NEW to \in Nat, 1 <= from, from <= to + 1,
         NEW before \in Nat, NEW last \in Nat, before <= last, NEW first, first = before + 1
  PROVE  /\ InLine(from, to, first, last) \in Nat
         /\ InLine(from, to, first, last) = Passed(from, to, last) - Passed(from, to, before)
<1> DEFINE low == IF from <= first THEN first ELSE from
           high == IF to <= last THEN to ELSE last
           len == InLine(from, to, first, last)
<1>1. /\ low \in Int /\ high \in Int /\ from <= low /\ first <= low /\ high <= to /\ high <= last
      /\ (low = from \/ low = first) /\ (high = to \/ high = last)
  OBVIOUS
<1>2. (from..to) \cap (first..last) = low..high
  OBVIOUS
<1> HIDE DEF low, high
<1>3. len = IF low > high THEN 0 ELSE high - low + 1
  BY <1>1, <1>2, FS_Interval DEF InLine
<1> HIDE DEF len
<1>4. len \in Nat /\ len = Passed(from, to, last) - Passed(from, to, before)
  BY <1>1, <1>3 DEF Passed
<1> QED BY <1>4 DEF len

LEMMA PassedIs ==
  ASSUME NEW from \in Nat, NEW to \in Nat, 1 <= from, from <= to + 1, NEW k \in Nat
  PROVE  /\ Passed(from, to, 0) = 0 /\ Passed(from, to, k) \in Nat
         /\ to <= k => Passed(from, to, k) = to - from + 1
BY DEF Passed

(* However the line is cut into rooms, its stretch from..to is spread over *)
(* them whole.                                                             *)
Part(occ, from, to, i) ==
  LET before == SumFunctionOnSet(occ, 1..(i - 1))
  IN InLine(from, to, before + 1, before + occ[i])
Spread(n, occ, from, to, f) ==
  /\ \A i \in 1..n : occ[i] \in Nat
  /\ to <= SumFunctionOnSet(occ, 1..n)
  /\ \A i \in 1..n : f[i] = Part(occ, from, to, i)
  => SumFunctionOnSet(f, 1..n) = to - from + 1
LEMMA StretchSpread ==
  ASSUME NEW n \in Nat, NEW occ, NEW from \in Nat, NEW to \in Nat, 1 <= from, from <= to + 1,
         NEW f
  PROVE  Spread(n, occ, from, to, f)
<1> DEFINE b(k) == SumFunctionOnSet(occ, 1..k)
           c == [k \in 0..n |-> Passed(from, to, b(k))]
<1>0. SUFFICES
        ASSUME /\ \A i \in 1..n : occ[i] \in Nat
               /\ to <= b(n)
               /\ \A i \in 1..n : f[i] = InLine(from, to, b(i - 1) + 1, b(i - 1) + occ[i])
        PROVE  SumFunctionOnSet(f, 1..n) = to - from + 1
  BY DEF Part, Spread
<1>1. /\ b(0) = 0 /\ to <= b(n)
      /\ \A k \in 0..n : b(k) \in Nat
      /\ \A i \in 1..n : b(i) = b(i - 1) + occ[i]
  BY <1>0, RunningSum
<1>2. \A i \in 1..n : f[i] = InLine(from, to, b(i - 1) + 1, b(i - 1) + occ[i])
  BY <1>0
<1> HIDE DEF b
<1>3. \A k \in 0..n : c[k] = Passed(from, to, b(k)) /\ c[k] \in Int
  <2>1. ASSUME NEW k \in 0..n PROVE Passed(from, to, b(k)) \in Nat
    BY <1>1, PassedIs
  <2> QED BY <2>1
<1>4. ASSUME NEW i \in 1..n PROVE f[i] = c[i] - c[i - 1]
  <2>1. i \in 0..n /\ i - 1 \in 0..n
    OBVIOUS
  <2> DEFINE u == b(i - 1)
             v == b(i)
             first == u + 1
  <2>2. v = u + occ[i] /\ occ[i] \in Nat
    BY <1>0, <1>1
  <2>3. u \in Nat /\ v \in Nat
    BY <1>1, <2>1
  <2>4. u \in Nat /\ v \in Nat /\ u <= v
    BY <2>2, <2>3
  <2>5. f[i] = InLine(from, to, first, v)
    BY <1>2, <2>2
  <2>6. c[i] = Passed(from, to, v) /\ c[i - 1] = Passed(from, to, u)
    BY <1>3, <2>1
  <2>7. first = u + 1
    OBVIOUS
  <2> HIDE DEF c, u, v, first
  <2>8. InLine(from, to, first, v) = Passed(from, to, v) - Passed(from, to, u)
    BY <2>4, <2>7, RoomTakes
  <2> QED BY <2>5, <2>6, <2>8
<1>5. n \in 0..n /\ 0 \in 0..n
  OBVIOUS
<1>6. c[n] = to - from + 1 /\ c[0] = 0
  <2>1. c[n] = Passed(from, to, b(n)) /\ c[0] = Passed(from, to, b(0))
    BY <1>3, <1>5
  <2>2. Passed(from, to, 0) = 0 /\ Passed(from, to, b(n)) = to - from + 1
    <3>1. b(n) \in Nat /\ to <= b(n)
      BY <1>1, <1>5
    <3> QED BY <3>1, PassedIs
  <2> HIDE DEF c
  <2> QED BY <1>1, <2>1, <2>2
<1> HIDE DEF c
<1>7. SumFunctionOnSet(f, 1..n) = c[n] - c[0]
  <2>1. (\A k \in 0..n : c[k] \in Int) /\ (\A i \in 1..n : f[i] = c[i] - c[i - 1])
    BY <1>3, <1>4
  <2>2. \A k \in 0..n : SumFunctionOnSet(f, 1..k) = c[k] - c[0]
    BY <2>1, Telescope DEF Totals
  <2> QED BY <1>5, <2>2
<1> QED BY <1>6, <1>7
(* A room takes the next of the line, of whatever age.                     *)
LEMMA RoomFilled ==
  ASSUME NEW x \in Nat, NEW y \in Nat, NEW z \in Nat, x <= y, y <= z,
         NEW before \in Nat, NEW last \in Nat, before <= last, last <= z,
         NEW first, first = before + 1
  PROVE  /\ InLine(1, x, first, last) \in Nat
         /\ InLine(x + 1, y, first, last) \in Nat
         /\ InLine(y + 1, z, first, last) \in Nat
         /\ InLine(1, x, first, last) + InLine(x + 1, y, first, last)
              + InLine(y + 1, z, first, last) = last - before
<1>1. ASSUME NEW from \in Nat, NEW to \in Nat, 1 <= from, from <= to + 1
      PROVE  /\ InLine(from, to, first, last) \in Nat
             /\ InLine(from, to, first, last) = Passed(from, to, last) - Passed(from, to, before)
             /\ Passed(from, to, last) \in Nat /\ Passed(from, to, before) \in Nat
  BY <1>1, RoomTakes, PassedIs
<1> DEFINE p == InLine(1, x, first, last)
           q == InLine(x + 1, y, first, last)
           r == InLine(y + 1, z, first, last)
<1>2. p \in Nat /\ p = Passed(1, x, last) - Passed(1, x, before)
  <2>1. 1 \in Nat /\ 1 <= 1 /\ 1 <= x + 1
    OBVIOUS
  <2> QED BY <1>1, <2>1
<1>3. q \in Nat /\ q = Passed(x + 1, y, last) - Passed(x + 1, y, before)
  <2>1. x + 1 \in Nat /\ 1 <= x + 1 /\ x + 1 <= y + 1
    OBVIOUS
  <2> QED BY <1>1, <2>1
<1>4. r \in Nat /\ r = Passed(y + 1, z, last) - Passed(y + 1, z, before)
  <2>1. y + 1 \in Nat /\ 1 <= y + 1 /\ y + 1 <= z + 1
    OBVIOUS
  <2> QED BY <1>1, <2>1
<1>5. \A k \in 0..z : Passed(1, x, k) + Passed(x + 1, y, k) + Passed(y + 1, z, k) = k
  BY DEF Passed
<1>6. \A k \in 0..z : /\ Passed(1, x, k) \in Int /\ Passed(x + 1, y, k) \in Int
                      /\ Passed(y + 1, z, k) \in Int
  BY DEF Passed
<1>7. before \in 0..z /\ last \in 0..z
  OBVIOUS
<1> HIDE DEF p, q, r
<1>8. p + q + r = last - before
  BY <1>2, <1>3, <1>4, <1>5, <1>6, <1>7
<1> QED BY <1>2, <1>3, <1>4, <1>8 DEF p, q, r

(* A party in line is seated whole, and every room gets as many guests as  *)
(* it is to hold (distributeGuests).                                       *)
LEMMA PartySeated ==
  ASSUME NEW n \in Nat, NEW occ, DOMAIN occ = 1..n, NEW party \in Party
  PROVE  /\ \A i \in 1..n : occ[i] \in Nat
         /\ SumFunctionOnSet(occ, 1..n) = PhysicalOccupancy(party)
         => /\ \A i \in 1..n : /\ DistributeGuests(party, occ)[i] \in Party
                               /\ PhysicalOccupancy(DistributeGuests(party, occ)[i]) = occ[i]
            /\ \A f : (\A i \in 1..n : f[i] = DistributeGuests(party, occ)[i].adults)
                        => SumFunctionOnSet(f, 1..n) = party.adults
            /\ \A f : (\A i \in 1..n : f[i] = DistributeGuests(party, occ)[i].children5to10)
                        => SumFunctionOnSet(f, 1..n) = party.children5to10
            /\ \A f : (\A i \in 1..n : f[i] = DistributeGuests(party, occ)[i].childrenUnder5)
                        => SumFunctionOnSet(f, 1..n) = party.childrenUnder5
<1> DEFINE b(k) == SumFunctionOnSet(occ, 1..k)
           spread == DistributeGuests(party, occ)
           grown == party.adults + party.children5to10
           all == grown + party.childrenUnder5
<1>1. SUFFICES
        ASSUME (\A i \in 1..n : occ[i] \in Nat) /\ b(n) = PhysicalOccupancy(party)
        PROVE  /\ \A i \in 1..n : spread[i] \in Party /\ PhysicalOccupancy(spread[i]) = occ[i]
               /\ \A f : (\A i \in 1..n : f[i] = spread[i].adults)
                           => SumFunctionOnSet(f, 1..n) = party.adults
               /\ \A f : (\A i \in 1..n : f[i] = spread[i].children5to10)
                           => SumFunctionOnSet(f, 1..n) = party.children5to10
               /\ \A f : (\A i \in 1..n : f[i] = spread[i].childrenUnder5)
                           => SumFunctionOnSet(f, 1..n) = party.childrenUnder5
  OBVIOUS
<1>2. /\ party.adults \in Nat /\ grown \in Nat /\ all \in Nat
      /\ party.adults <= grown /\ grown <= all /\ b(n) = all
  BY <1>1 DEF PhysicalOccupancy, Party
<1>3. /\ b(0) = 0
      /\ \A k \in 0..n : b(k) \in Nat /\ b(k) <= b(n)
      /\ \A i \in 1..n : b(i) = b(i - 1) + occ[i]
  BY <1>1, RunningSum
<1>4. spread = [i \in 1..n |->
                  [adults |-> Part(occ, 1, party.adults, i),
                   children5to10 |-> Part(occ, party.adults + 1, grown, i),
                   childrenUnder5 |-> Part(occ, grown + 1, all, i)]]
  BY DEF DistributeGuests, Part
<1>5. ASSUME NEW from \in Nat, NEW to \in Nat, 1 <= from, from <= to + 1, to <= all,
             NEW f, \A i \in 1..n : f[i] = Part(occ, from, to, i)
      PROVE  SumFunctionOnSet(f, 1..n) = to - from + 1
  <2>1. (\A i \in 1..n : occ[i] \in Nat) /\ to <= SumFunctionOnSet(occ, 1..n)
    BY <1>1, <1>2, <1>5
  <2>2. Spread(n, occ, from, to, f)
    BY <1>5, StretchSpread
  <2> QED BY <1>5, <2>1, <2>2 DEF Spread
<1> HIDE DEF spread, grown, all
<1>6. \A i \in 1..n : spread[i] \in Party /\ PhysicalOccupancy(spread[i]) = occ[i]
  <2> TAKE i \in 1..n
  <2> DEFINE u == b(i - 1)
             v == b(i)
             first == u + 1
  <2>1. i \in 0..n /\ i - 1 \in 0..n
    OBVIOUS
  <2>2. v = u + occ[i] /\ occ[i] \in Nat
    BY <1>1, <1>3
  <2>3. u \in Nat /\ v \in Nat /\ v <= all
    BY <1>2, <1>3, <2>1
  <2>4. u <= v /\ first = u + 1
    BY <2>2, <2>3
  <2>5. spread[i] = [adults |-> InLine(1, party.adults, first, v),
                     children5to10 |-> InLine(party.adults + 1, grown, first, v),
                     childrenUnder5 |-> InLine(grown + 1, all, first, v)]
    BY <1>4, <2>2 DEF Part
  <2> HIDE DEF u, v, first, b
  <2> DEFINE x == party.adults
             p == InLine(1, x, first, v)
             q == InLine(x + 1, grown, first, v)
             r == InLine(grown + 1, all, first, v)
  <2>6. x \in Nat /\ grown \in Nat /\ all \in Nat /\ x <= grown /\ grown <= all
    BY <1>2
  <2> HIDE DEF x
  <2>7. p \in Nat /\ q \in Nat /\ r \in Nat /\ p + q + r = v - u
    BY <2>3, <2>4, <2>6, RoomFilled
  <2>8. spread[i] = [adults |-> p, children5to10 |-> q, childrenUnder5 |-> r]
    BY <2>5 DEF x
  <2> HIDE DEF p, q, r
  <2> QED BY <2>2, <2>3, <2>7, <2>8 DEF Party, PhysicalOccupancy
<1>7. ASSUME NEW f, \A i \in 1..n : f[i] = spread[i].adults
      PROVE  SumFunctionOnSet(f, 1..n) = party.adults
  <2>1. \A i \in 1..n : f[i] = Part(occ, 1, party.adults, i)
    BY <1>4, <1>7
  <2> QED BY <1>2, <1>5, <2>1
<1>8. ASSUME NEW f, \A i \in 1..n : f[i] = spread[i].children5to10
      PROVE  SumFunctionOnSet(f, 1..n) = party.children5to10
  <2>1. \A i \in 1..n : f[i] = Part(occ, party.adults + 1, grown, i)
    BY <1>4, <1>8
  <2> DEFINE from == party.adults + 1
  <2>2. from \in Nat /\ 1 <= from /\ from <= grown + 1
    BY <1>2
  <2>3. SumFunctionOnSet(f, 1..n) = grown - from + 1
    <3> HIDE DEF from
    <3> QED BY <1>2, <1>5, <2>1, <2>2 DEF from
  <2> QED BY <1>2, <2>3 DEF grown, Party
<1>9. ASSUME NEW f, \A i \in 1..n : f[i] = spread[i].childrenUnder5
      PROVE  SumFunctionOnSet(f, 1..n) = party.childrenUnder5
  <2>1. \A i \in 1..n : f[i] = Part(occ, grown + 1, all, i)
    BY <1>4, <1>9
  <2> DEFINE from == grown + 1
  <2>2. from \in Nat /\ 1 <= from /\ from <= all + 1
    BY <1>2
  <2>3. SumFunctionOnSet(f, 1..n) = all - from + 1
    <3> HIDE DEF from
    <3> QED BY <1>2, <1>5, <2>1, <2>2 DEF from
  <2> QED BY <1>2, <2>3 DEF all, Party
<1> QED BY <1>6, <1>7, <1>8, <1>9
-----------------------------------------------------------------------------
(* The rank of a room among those of its group.                            *)
RankIn(S, k) == Cardinality({j \in S : j <= k})
LEMMA Ranks ==
  ASSUME NEW n \in Nat, NEW S \in SUBSET (1..n)
  PROVE  /\ IsFiniteSet(S) /\ Cardinality(S) \in Nat
         /\ RankIn(S, 0) = 0 /\ RankIn(S, n) = Cardinality(S)
         /\ \A k \in 0..n : RankIn(S, k) \in 0..Cardinality(S)
         /\ \A i \in 1..n : RankIn(S, i) = RankIn(S, i - 1) + (IF i \in S THEN 1 ELSE 0)
<1> DEFINE upTo(k) == {j \in S : j <= k}
<1>1. IsFiniteSet(S) /\ Cardinality(S) \in Nat
  <2>1. IsFiniteSet(1..n)
    BY FS_Interval
  <2>2. IsFiniteSet(S)
    BY <2>1, FS_Subset
  <2> QED BY <2>2, FS_CardinalityType
<1>2. \A k : /\ IsFiniteSet(upTo(k)) /\ Cardinality(upTo(k)) \in Nat
             /\ Cardinality(upTo(k)) <= Cardinality(S)
  <2> TAKE k
  <2>1. upTo(k) \subseteq S
    OBVIOUS
  <2> HIDE DEF upTo
  <2> QED BY <1>1, <2>1, FS_Subset, FS_CardinalityType
<1>3. upTo(0) = {} /\ upTo(n) = S
  <2>1. \A j \in S : j \in Nat /\ 1 <= j /\ j <= n
    OBVIOUS
  <2>2. upTo(0) = {}
    <3>1. \A j \in S : ~(j <= 0)
      BY <2>1
    <3> QED BY <3>1
  <2>3. upTo(n) = S
    BY <2>1
  <2> QED BY <2>2, <2>3
<1>4. ASSUME NEW i \in 1..n
      PROVE  Cardinality(upTo(i)) = Cardinality(upTo(i - 1)) + (IF i \in S THEN 1 ELSE 0)
  <2>0. \A j \in S : j \in Nat /\ (j <= i <=> j <= i - 1 \/ j = i)
    OBVIOUS
  <2>1. CASE i \in S
    <3>1. upTo(i) = upTo(i - 1) \cup {i}
      BY <2>0, <2>1
    <3>2. i \notin upTo(i - 1)
      OBVIOUS
    <3> HIDE DEF upTo
    <3>3. Cardinality(upTo(i - 1) \cup {i}) = Cardinality(upTo(i - 1)) + 1
      BY <1>2, <3>2, FS_AddElement
    <3> QED BY <2>1, <3>1, <3>3
  <2>2. CASE i \notin S
    <3>1. upTo(i) = upTo(i - 1)
      BY <2>0, <2>2
    <3> HIDE DEF upTo
    <3> QED BY <1>2, <2>2, <3>1
  <2> QED BY <2>1, <2>2
<1>5. \A k : RankIn(S, k) = Cardinality(upTo(k))
  BY DEF RankIn
<1> HIDE DEF upTo
<1>6. RankIn(S, 0) = 0 /\ RankIn(S, n) = Cardinality(S)
  BY <1>3, <1>5, FS_EmptySet
<1> QED BY <1>1, <1>2, <1>4, <1>5, <1>6

(* The rooms of one group take all that the group is to take.              *)
SeatsOf(S, total, i) ==
  IF i \in S THEN EvenParts(total, Cardinality(S))[RankIn(S, i)] ELSE 0
LEMMA GroupSeats ==
  ASSUME NEW n \in Nat, NEW S \in SUBSET (1..n), NEW total \in Nat,
         Cardinality(S) = 0 => total = 0,
         NEW f, \A i \in 1..n : f[i] = SeatsOf(S, total, i)
  PROVE  SumFunctionOnSet(f, 1..n) = total /\ \A i \in 1..n : f[i] \in Nat
<1> DEFINE count == Cardinality(S)
           rank(k) == RankIn(S, k)
           c == [k \in 0..n |-> Filled(total, count, rank(k))]
<1>1. /\ IsFiniteSet(S) /\ count \in Nat /\ rank(0) = 0 /\ rank(n) = count
      /\ \A k \in 0..n : rank(k) \in 0..count
      /\ \A i \in 1..n : rank(i) = rank(i - 1) + (IF i \in S THEN 1 ELSE 0)
  BY Ranks
<1>2. CASE count = 0
  <2>1. S = {}
    BY <1>1, <1>2, FS_EmptySet
  <2>2. \A i \in 1..n : f[i] = 0
    BY <2>1 DEF SeatsOf
  <2>3. IsFiniteSet(1..n)
    BY FS_Interval
  <2>4. SumFunctionOnSet(f, 1..n) = 0
    BY <2>2, <2>3, SumZero
  <2> QED BY <1>2, <2>2, <2>4
<1>3. CASE count # 0
  <2>1. /\ Filled(total, count, 0) = 0 /\ Filled(total, count, count) = total
        /\ \A k \in 0..count : Filled(total, count, k) \in Int
        /\ \A i \in 1..count : /\ EvenParts(total, count)[i] \in Nat
                               /\ EvenParts(total, count)[i]
                                    = Filled(total, count, i) - Filled(total, count, i - 1)
    <3> HIDE DEF count
    <3> QED BY <1>1, <1>3, PartsFilled
  <2>2. \A i \in 1..n : f[i] = IF i \in S THEN EvenParts(total, count)[rank(i)] ELSE 0
    BY DEF SeatsOf
  <2> HIDE DEF count, rank
  <2>3. \A k \in 0..n : c[k] = Filled(total, count, rank(k)) /\ c[k] \in Int
    BY <1>1, <2>1
  <2>4. ASSUME NEW i \in 1..n PROVE f[i] = c[i] - c[i - 1] /\ f[i] \in Nat
    <3>1. i \in 0..n /\ i - 1 \in 0..n
      OBVIOUS
    <3>2. c[i] = Filled(total, count, rank(i)) /\ c[i - 1] = Filled(total, count, rank(i - 1))
      BY <2>3, <3>1
    <3>3. rank(i - 1) \in 0..count /\ rank(i) \in 0..count
      BY <1>1, <3>1
    <3>4. CASE i \in S
      <4>1. rank(i) = rank(i - 1) + 1
        BY <1>1, <3>4
      <4>2. rank(i) \in 1..count /\ rank(i) - 1 = rank(i - 1)
        BY <1>1, <3>3, <4>1
      <4>3. f[i] = EvenParts(total, count)[rank(i)]
        BY <2>2, <3>4
      <4> HIDE DEF c
      <4> QED BY <2>1, <3>2, <4>2, <4>3
    <3>5. CASE i \notin S
      <4>1. rank(i) = rank(i - 1)
        BY <1>1, <3>3, <3>5
      <4>2. c[i] \in Int /\ c[i - 1] \in Int /\ f[i] = 0
        BY <2>2, <2>3, <3>1, <3>5
      <4> HIDE DEF c
      <4> QED BY <3>2, <4>1, <4>2
    <3> QED BY <3>4, <3>5
  <2>5. n \in 0..n /\ 0 \in 0..n
    OBVIOUS
  <2>6. c[n] = total /\ c[0] = 0
    <3>1. c[n] = Filled(total, count, rank(n)) /\ c[0] = Filled(total, count, rank(0))
      BY <2>3, <2>5
    <3>2. rank(n) = count /\ rank(0) = 0
      BY <1>1
    <3> HIDE DEF c
    <3> QED BY <2>1, <3>1, <3>2
  <2> HIDE DEF c
  <2>7. \A k \in 0..n : SumFunctionOnSet(f, 1..k) = c[k] - c[0]
    <3>1. (\A k \in 0..n : c[k] \in Int) /\ (\A i \in 1..n : f[i] = c[i] - c[i - 1])
      BY <2>3, <2>4
    <3>2. Totals(f, c, n)
      BY <3>1, Telescope
    <3> QED BY <3>2 DEF Totals
  <2>8. SumFunctionOnSet(f, 1..n) = c[n] - c[0]
    BY <2>5, <2>7
  <2> QED BY <2>4, <2>6, <2>8
<1> QED BY <1>2, <1>3
-----------------------------------------------------------------------------
(* Rooms for another party.                                                *)
Count(rooms, g) == Cardinality(InGroup(rooms, g))

(* A total that fits no room is zero.                                      *)
LEMMA NoRoomsNoGuests ==
  ASSUME NEW total \in Nat, NEW g \in Group, PartsFit(total, 0, g)
  PROVE  total = 0
<1>1. Least(g) \in Nat /\ Most(g) \in Nat
  BY DEF Least, Most, Group
<1>2. 0 * Least(g) = 0 /\ 0 * Most(g) = 0
  BY <1>1
<1> QED BY <1>2 DEF PartsFit

(* The split of the party over the groups.                                 *)
LEMMA SplitChosen ==
  ASSUME NEW rooms, NEW party \in Party, CanRebalance(rooms, party), NEW m,
         m = CHOOSE n \in Splits(rooms, party) : \A k \in Splits(rooms, party) : n <= k
  PROVE  /\ PhysicalOccupancy(party) \in Nat /\ m \in 0..PhysicalOccupancy(party)
         /\ PartsFit(m, Count(rooms, "double-bed"), "double-bed")
         /\ PartsFit(PhysicalOccupancy(party) - m, Count(rooms, "single-bed"), "single-bed")
<1> DEFINE total == PhysicalOccupancy(party)
           K == Splits(rooms, party)
<1>1. total \in Nat
  BY DEF PhysicalOccupancy, Party
<1>2. K \subseteq 0..total /\ K # {}
  BY DEF Splits, CanRebalance
<1> HIDE DEF K, total
<1>3. \E n \in K : \A k \in K : n <= k
  BY <1>1, <1>2, LeastNumber
<1>4. m \in K
  BY <1>3 DEF K
<1> QED BY <1>1, <1>4 DEF K, total, Splits, Count

(* The seats of a room whose group is to take total guests.                *)
Seat(rooms, split, i) ==
  EvenParts(split[rooms[i].group], Count(rooms, rooms[i].group))
           [RankIn(InGroup(rooms, rooms[i].group), i)]
LEMMA SeatsFit ==
  ASSUME NEW n \in Nat, NEW rooms, DOMAIN rooms = 1..n, \A i \in 1..n : rooms[i] \in Room,
         NEW split \in [Group -> Nat], \A g \in Group : PartsFit(split[g], Count(rooms, g), g),
         NEW seats, \A i \in 1..n : seats[i] = Seat(rooms, split, i)
  PROVE  /\ SumFunctionOnSet(seats, 1..n) = split["single-bed"] + split["double-bed"]
         /\ \A i \in 1..n : seats[i] \in Guests(rooms[i].group)
<1> DEFINE S(g) == InGroup(rooms, g)
           f(g) == [i \in 1..n |-> SeatsOf(S(g), split[g], i)]
<1>1. ASSUME NEW g \in Group
      PROVE  /\ S(g) \in SUBSET (1..n) /\ split[g] \in Nat
             /\ Cardinality(S(g)) = Count(rooms, g)
             /\ PartsFit(split[g], Cardinality(S(g)), g)
  BY DEF InGroup, Count
<1>2. ASSUME NEW i \in 1..n, NEW g \in Group PROVE i \in S(g) <=> rooms[i].group = g
  BY DEF InGroup
<1>3. \A i \in 1..n : rooms[i].group \in Group
  BY DEF Room
<1> HIDE DEF S
<1>4. ASSUME NEW g \in Group
      PROVE  SumFunctionOnSet(f(g), 1..n) = split[g] /\ \A i \in 1..n : f(g)[i] \in Nat
  <2> DEFINE T == S(g)
             total == split[g]
             h == f(g)
  <2>1. T \in SUBSET (1..n) /\ total \in Nat /\ PartsFit(total, Cardinality(T), g)
    BY <1>1
  <2>2. Cardinality(T) = 0 => total = 0
    BY <2>1, NoRoomsNoGuests
  <2>3. \A i \in 1..n : h[i] = SeatsOf(T, total, i)
    OBVIOUS
  <2> HIDE DEF T, total, h
  <2>4. SumFunctionOnSet(h, 1..n) = total /\ \A i \in 1..n : h[i] \in Nat
    BY <2>1, <2>2, <2>3, GroupSeats
  <2> QED BY <2>4 DEF h, total
<1>5. ASSUME NEW i \in 1..n
      PROVE  /\ seats[i] = f("single-bed")[i] + f("double-bed")[i]
             /\ seats[i] \in Guests(rooms[i].group)
  <2> DEFINE g == rooms[i].group
             T == S(g)
             count == Cardinality(T)
             rank == RankIn(T, i)
             total == split[g]
  <2>1. g \in Group /\ i \in T
    BY <1>2, <1>3
  <2>2. seats[i] = EvenParts(total, count)[rank]
    BY DEF Seat, Count, S
  <2>3. T \in SUBSET (1..n) /\ total \in Nat /\ PartsFit(total, count, g)
    BY <1>1, <2>1
  <2>4. count \in Nat /\ count # 0 /\ rank \in 1..count
    <3> HIDE DEF g, T, total, count, rank
    <3>1. /\ Cardinality(T) \in Nat
          /\ \A k \in 0..n : RankIn(T, k) \in 0..Cardinality(T)
          /\ \A k \in 1..n : RankIn(T, k) = RankIn(T, k - 1) + (IF k \in T THEN 1 ELSE 0)
      BY <2>3, Ranks
    <3>2. i \in 0..n /\ i - 1 \in 0..n
      OBVIOUS
    <3>3. RankIn(T, i) = RankIn(T, i - 1) + 1
      BY <2>1, <3>1
    <3> QED BY <3>1, <3>2, <3>3 DEF count, rank
  <2>5. seats[i] \in Guests(g)
    <3> HIDE DEF g, T, total, count, rank
    <3> QED BY <2>1, <2>2, <2>3, <2>4, PartsInRange
  <2>6. f(g)[i] = seats[i]
    BY <2>1, <2>2 DEF SeatsOf
  <2>7. \A h \in Group : h # g => f(h)[i] = 0
    BY <1>2 DEF SeatsOf
  <2>8. seats[i] \in Nat
    <3>1. Guests(g) \subseteq Nat
      BY <2>1 DEF Guests, Least, Most, Group
    <3> HIDE DEF g
    <3> QED BY <2>5, <3>1
  <2> HIDE DEF f
  <2>9. seats[i] = f("single-bed")[i] + f("double-bed")[i]
    <3>1. CASE g = "single-bed"
      BY <2>6, <2>7, <2>8, <3>1 DEF Group
    <3>2. CASE g = "double-bed"
      BY <2>6, <2>7, <2>8, <3>2 DEF Group
    <3> QED BY <2>1, <3>1, <3>2 DEF Group
  <2> QED BY <2>5, <2>9
<1>6. "single-bed" \in Group /\ "double-bed" \in Group
  BY DEF Group
<1>7. SumFunctionOnSet(seats, 1..n) = split["single-bed"] + split["double-bed"]
  <2> DEFINE a == f("single-bed")
             b == f("double-bed")
             R == 1..n
  <2>1. IsFiniteSet(R)
    BY FS_Interval
  <2>2. SumFunctionOnSet(a, R) = split["single-bed"] /\ SumFunctionOnSet(b, R) = split["double-bed"]
    BY <1>4, <1>6
  <2>3. \A i \in R : a[i] \in Int /\ b[i] \in Int /\ seats[i] = a[i] + b[i]
    <3> HIDE DEF f
    <3>1. \A i \in R : a[i] \in Nat /\ b[i] \in Nat
      BY <1>4, <1>6
    <3>2. \A i \in R : seats[i] = a[i] + b[i]
      BY <1>5
    <3> QED BY <3>1, <3>2
  <2> HIDE DEF a, b, R
  <2>4. SumFunctionOnSet(seats, R) = SumFunctionOnSet(a, R) + SumFunctionOnSet(b, R)
    BY <2>1, <2>3, SumPlus
  <2> QED BY <2>2, <2>4 DEF R
<1> QED BY <1>5, <1>7

(* Rooms whose guests are the party in line hold the party.                *)
LEMMA LineHoldsParty ==
  ASSUME NEW n \in Nat, NEW seats, DOMAIN seats = 1..n, NEW party \in Party,
         SumFunctionOnSet(seats, 1..n) = PhysicalOccupancy(party),
         NEW new, DOMAIN new = 1..n,
         \A i \in 1..n : /\ new[i].group \in Group /\ seats[i] \in Guests(new[i].group)
                         /\ new[i].guests = DistributeGuests(party, seats)[i]
  PROVE  /\ \A i \in 1..n : new[i].guests \in Party /\ RoomFits(new[i])
         /\ PartyOf(new) = party
<1> DEFINE spread == DistributeGuests(party, seats)
           all == PhysicalOccupancy(party)
<1>1. \A i \in 1..n : seats[i] \in Nat
  <2> TAKE i \in 1..n
  <2> DEFINE g == new[i].group
  <2>1. g \in Group /\ seats[i] \in Guests(g)
    OBVIOUS
  <2> HIDE DEF g
  <2> QED BY <2>1 DEF Guests, Least, Most, Group
<1>2. /\ \A i \in 1..n : spread[i] \in Party /\ PhysicalOccupancy(spread[i]) = seats[i]
      /\ \A f : (\A i \in 1..n : f[i] = spread[i].adults)
                  => SumFunctionOnSet(f, 1..n) = party.adults
      /\ \A f : (\A i \in 1..n : f[i] = spread[i].children5to10)
                  => SumFunctionOnSet(f, 1..n) = party.children5to10
      /\ \A f : (\A i \in 1..n : f[i] = spread[i].childrenUnder5)
                  => SumFunctionOnSet(f, 1..n) = party.childrenUnder5
  BY <1>1, PartySeated
<1> HIDE DEF spread
<1>3. \A i \in 1..n : new[i].guests \in Party /\ RoomFits(new[i])
  BY <1>2 DEF RoomFits, spread
<1>4. PartyOf(new) = party
  <2> DEFINE a == [i \in DOMAIN new |-> new[i].guests.adults]
             o == [i \in DOMAIN new |-> new[i].guests.children5to10]
             y == [i \in DOMAIN new |-> new[i].guests.childrenUnder5]
  <2>1. \A i \in 1..n : new[i].guests = spread[i]
    BY DEF spread
  <2>2. /\ DOMAIN a = 1..n /\ DOMAIN o = 1..n /\ DOMAIN y = 1..n
        /\ \A i \in 1..n : /\ a[i] = spread[i].adults /\ o[i] = spread[i].children5to10
                           /\ y[i] = spread[i].childrenUnder5
    BY <2>1
  <2>3. PartyOf(new) = [adults |-> SumFunction(a), children5to10 |-> SumFunction(o),
                        childrenUnder5 |-> SumFunction(y)]
    BY DEF PartyOf
  <2> HIDE DEF a, o, y
  <2>4. /\ SumFunction(a) = party.adults /\ SumFunction(o) = party.children5to10
        /\ SumFunction(y) = party.childrenUnder5
    BY <1>2, <2>2 DEF SumFunction
  <2> QED BY <2>3, <2>4 DEF Party
<1> QED BY <1>3, <1>4

(* The rooms of a booking, rebalanced for a party they can hold, are the   *)
(* same rooms, each let to a number of guests it takes, and seat exactly   *)
(* that party (rebalanceRooms, evenParts, distributeGuests).               *)
THEOREM RebalancedFits ==
  ASSUME NEW n \in Nat, NEW rooms, DOMAIN rooms = 1..n, \A i \in 1..n : rooms[i] \in Room,
         NEW party \in Party, CanRebalance(rooms, party)
  PROVE  /\ DOMAIN RebalanceRooms(rooms, party) = 1..n
         /\ \A i \in 1..n :
              LET room == RebalanceRooms(rooms, party)[i]
              IN /\ room \in Room /\ RoomFits(room)
                 /\ room.group = rooms[i].group /\ room.ac = rooms[i].ac
         /\ PartyOf(RebalanceRooms(rooms, party)) = party
<1> DEFINE all == PhysicalOccupancy(party)
           inDoubles == CHOOSE m \in Splits(rooms, party) :
                          \A k \in Splits(rooms, party) : m <= k
           split == [g \in Group |-> IF g = "double-bed" THEN inDoubles ELSE all - inDoubles]
           seats == [i \in 1..n |-> Seat(rooms, split, i)]
           spread == DistributeGuests(party, seats)
           new == RebalanceRooms(rooms, party)
<1>1. new = [i \in 1..n |-> [rooms[i] EXCEPT !.guests = spread[i]]]
  <2>1. \A i \in 1..n : rooms[i].group \in Group
    BY DEF Room
  <2>2. seats = [i \in 1..n |->
          [g \in Group |-> EvenParts(split[g], Cardinality(InGroup(rooms, g)))]
            [rooms[i].group][Cardinality({j \in InGroup(rooms, rooms[i].group) : j <= i})]]
    BY <2>1 DEF Seat, Count, RankIn
  <2> HIDE DEF seats, split
  <2> QED BY <2>2 DEF RebalanceRooms, split
<1>2. /\ all \in Nat /\ inDoubles \in 0..all
      /\ PartsFit(inDoubles, Count(rooms, "double-bed"), "double-bed")
      /\ PartsFit(all - inDoubles, Count(rooms, "single-bed"), "single-bed")
  <2> HIDE DEF inDoubles, all
  <2> QED BY SplitChosen DEF inDoubles, all
<1> HIDE DEF inDoubles, all, new, spread
<1>3. /\ split \in [Group -> Nat]
      /\ split["double-bed"] = inDoubles /\ split["single-bed"] = all - inDoubles
  BY <1>2 DEF Group
<1>4. \A g \in Group : PartsFit(split[g], Count(rooms, g), g)
  BY <1>2, <1>3 DEF Group
<1>5. DOMAIN seats = 1..n /\ \A i \in 1..n : seats[i] = Seat(rooms, split, i)
  OBVIOUS
<1> HIDE DEF split, seats
<1>6. /\ SumFunctionOnSet(seats, 1..n) = all
      /\ \A i \in 1..n : seats[i] \in Guests(rooms[i].group)
  <2>1. /\ SumFunctionOnSet(seats, 1..n) = split["single-bed"] + split["double-bed"]
        /\ \A i \in 1..n : seats[i] \in Guests(rooms[i].group)
    BY <1>3, <1>4, <1>5, SeatsFit
  <2> QED BY <1>2, <1>3, <2>1
<1>7. DOMAIN new = 1..n /\ \A i \in 1..n : new[i] = [rooms[i] EXCEPT !.guests = spread[i]]
  BY <1>1
<1>8. \A i \in 1..n : /\ new[i].group = rooms[i].group /\ new[i].ac = rooms[i].ac
                      /\ new[i].guests = spread[i]
                      /\ new[i].guests \in Party => new[i] \in Room
  BY <1>7 DEF Room
<1>9. \A i \in 1..n : new[i].group \in Group
  BY <1>8 DEF Room
<1>10. /\ \A i \in 1..n : new[i].guests \in Party /\ RoomFits(new[i])
       /\ PartyOf(new) = party
  BY <1>5, <1>6, <1>7, <1>8, <1>9, LineHoldsParty DEF spread, all
<1> QED BY <1>7, <1>8, <1>10 DEF new

-----------------------------------------------------------------------------
(* Prices are natural numbers.                                             *)
LEMMA PriceOfOne ==
  ASSUME NEW room \in Room, RoomFits(room)
  PROVE  RoomPrice(room) \in Nat
<1> DEFINE g == room.group
           n == PhysicalOccupancy(room.guests)
           rate == Rate[g][room.ac][n]
           units == BillingHalfUnits(room.guests)
<1>1. g \in Group /\ room.ac \in BOOLEAN /\ n \in Guests(g) /\ units \in Nat
  BY DEF Room, RoomFits, BillingHalfUnits, Party
<1>2. n \in 1..6
  BY <1>1 DEF Guests, Least, Most, Group
<1>3. rate \in Nat
  <2> HIDE DEF g, n
  <2> QED BY <1>1, <1>2, TariffAssumption DEF TariffAssumption
<1>4. RoomPrice(room) = (rate * units) \div 2
  BY DEF RoomPrice
<1> HIDE DEF rate, units
<1>5. rate * units \in Nat
  BY <1>1, <1>3
<1>6. \A x \in Nat : x \div 2 \in Nat
  OBVIOUS
<1> QED BY <1>4, <1>5, <1>6

(* The price of rooms that are each let to a number of guests they take is *)
(* a natural number (priceBooking).                                        *)
THEOREM PriceOfFitting ==
  ASSUME NEW n \in Nat, NEW rooms, DOMAIN rooms = 1..n,
         \A i \in 1..n : rooms[i] \in Room /\ RoomFits(rooms[i])
  PROVE  PriceBooking(rooms) \in Nat
<1> DEFINE f == [i \in DOMAIN rooms |-> RoomPrice(rooms[i])]
           D == 1..n
<1>1. DOMAIN f = D /\ IsFiniteSet(D)
  BY FS_Interval
<1>2. \A i \in D : f[i] \in Nat
  BY PriceOfOne
<1>3. PriceBooking(rooms) = SumFunction(f)
  BY DEF PriceBooking
<1> HIDE DEF f, D
<1>4. SumFunctionOnSet(f, D) \in Nat
  BY <1>1, <1>2, SumNatural
<1> QED BY <1>1, <1>3, <1>4 DEF SumFunction

-----------------------------------------------------------------------------
(* Arrangements.                                                           *)
LEMMA LenOf == ASSUME NEW n \in Nat, NEW f, f = [i \in 1..n |-> f[i]] PROVE Len(f) = n
OBVIOUS

(* One list after another.                                                 *)
LEMMA Joined ==
  ASSUME NEW m \in Nat, NEW n \in Nat, NEW f, NEW g,
         f = [i \in 1..m |-> f[i]], g = [i \in 1..n |-> g[i]]
  PROVE  f \o g = [i \in 1..(m + n) |-> IF i <= m THEN f[i] ELSE g[i - m]]
<1>1. f \in Seq({f[i] : i \in 1..m} \cup {g[i] : i \in 1..n})
  OBVIOUS
<1>2. g \in Seq({f[i] : i \in 1..m} \cup {g[i] : i \in 1..n})
  OBVIOUS
<1>3. Len(f) = m /\ Len(g) = n
  BY LenOf
<1> QED BY <1>1, <1>2, <1>3

(* What is offered is made of double-bed rooms, then single-bed rooms.     *)
LEMMA ShapesAre ==
  ASSUME NEW party, NEW a, a.doubles \in Nat, a.singles \in Nat
  PROVE  LET occ == [i \in 1..(a.doubles + a.singles) |->
                       IF i <= a.doubles THEN EvenParts(a.inDoubles, a.doubles)[i]
                       ELSE EvenParts(PhysicalOccupancy(party) - a.inDoubles, a.singles)
                                     [i - a.doubles]]
         IN Shapes(party, a) =
              [i \in 1..(a.doubles + a.singles) |->
                 [group |-> IF i <= a.doubles THEN "double-bed" ELSE "single-bed",
                  occupancy |-> occ[i]]]
<1> DEFINE d == a.doubles
           s == a.singles
           f == [i \in 1..d |-> [group |-> "double-bed",
                                 occupancy |-> EvenParts(a.inDoubles, d)[i]]]
           g == [i \in 1..s |-> [group |-> "single-bed", occupancy |->
                   EvenParts(PhysicalOccupancy(party) - a.inDoubles, s)[i]]]
<1>1. Shapes(party, a) = f \o g
  BY DEF Shapes
<1>2. f = [i \in 1..d |-> f[i]] /\ g = [i \in 1..s |-> g[i]]
  OBVIOUS
<1>3. f \o g = [i \in 1..(d + s) |-> IF i <= d THEN f[i] ELSE g[i - d]]
  <2> HIDE DEF f, g
  <2> QED BY <1>2, Joined
<1>4. \A i \in 1..(d + s) : (i <= d => i \in 1..d) /\ (~(i <= d) => i - d \in 1..s)
  OBVIOUS
<1> QED BY <1>1, <1>3, <1>4

(* The rooms an arrangement becomes: as many of each group as it says.     *)
LEMMA ArrangementSeats ==
  ASSUME NEW party \in Party, NEW a, a.doubles \in Nat, a.singles \in Nat,
         a.inDoubles \in 0..PhysicalOccupancy(party),
         PartsFit(a.inDoubles, a.doubles, "double-bed"),
         PartsFit(PhysicalOccupancy(party) - a.inDoubles, a.singles, "single-bed"),
         NEW n, n = a.doubles + a.singles
  PROVE  LET rooms == RoomsOf(party, a)
         IN /\ DOMAIN rooms = 1..n
            /\ \A i \in 1..n : rooms[i] \in Room /\ RoomFits(rooms[i])
            /\ PartyOf(rooms) = party
            /\ Count(rooms, "double-bed") = a.doubles /\ Count(rooms, "single-bed") = a.singles
<1> DEFINE d == a.doubles
           s == a.singles
           all == PhysicalOccupancy(party)
           kind(i) == IF i <= d THEN "double-bed" ELSE "single-bed"
           blank == [i \in 1..n |-> [group |-> kind(i), ac |-> FALSE, guests |-> party]]
           split == [g \in Group |-> IF g = "double-bed" THEN a.inDoubles ELSE all - a.inDoubles]
           seats == [i \in 1..n |-> IF i <= d THEN EvenParts(a.inDoubles, d)[i]
                                    ELSE EvenParts(all - a.inDoubles, s)[i - d]]
           spread == DistributeGuests(party, seats)
           rooms == RoomsOf(party, a)
<1>1. n \in Nat /\ d \in Nat /\ s \in Nat /\ n = d + s
  OBVIOUS
<1>2. all \in Nat /\ a.inDoubles \in 0..all
  BY DEF PhysicalOccupancy, Party
<1>3. rooms = [i \in 1..n |-> [group |-> kind(i), ac |-> FALSE, guests |-> spread[i]]]
  <2> DEFINE shapes == Shapes(party, a)
  <2>1. shapes = [i \in 1..n |-> [group |-> kind(i), occupancy |-> seats[i]]]
    BY ShapesAre
  <2> HIDE DEF shapes
  <2>2. [i \in DOMAIN shapes |-> shapes[i].occupancy] = seats
    BY <2>1
  <2>3. rooms = [i \in DOMAIN shapes |->
                   [group |-> shapes[i].group, ac |-> FALSE, guests |->
                      DistributeGuests(party, [j \in DOMAIN shapes |-> shapes[j].occupancy])[i]]]
    BY DEF RoomsOf, shapes
  <2> HIDE DEF seats
  <2> QED BY <2>1, <2>2, <2>3
<1>4. \A i \in 1..n : /\ kind(i) \in Group
                      /\ blank[i] \in Room /\ blank[i].group = kind(i)
  BY DEF Group, Room
<1>5. InGroup(blank, "double-bed") = 1..d /\ InGroup(blank, "single-bed") = (d + 1)..n
  BY <1>1 DEF InGroup
<1>6. Count(blank, "double-bed") = d /\ Count(blank, "single-bed") = s
  <2>1. Cardinality(1..d) = d
    <3> HIDE DEF d
    <3>1. d \in Int /\ 1 \in Int /\ (IF 1 > d THEN 0 ELSE d - 1 + 1) = d
      BY <1>1
    <3> QED BY <3>1, FS_Interval
  <2>2. Cardinality((d + 1)..n) = s
    <3> DEFINE e == d + 1
    <3>1. e \in Int /\ n \in Int /\ (IF e > n THEN 0 ELSE n - e + 1) = s
      BY <1>1
    <3> HIDE DEF e
    <3>2. Cardinality(e..n) = s
      BY <3>1, FS_Interval
    <3> QED BY <3>2 DEF e
  <2> QED BY <1>5, <2>1, <2>2 DEF Count
<1>7. /\ split \in [Group -> Nat] /\ \A g \in Group : PartsFit(split[g], Count(blank, g), g)
      /\ split["double-bed"] = a.inDoubles /\ split["single-bed"] = all - a.inDoubles
  BY <1>2, <1>6 DEF Group
<1>8. ASSUME NEW i \in 1..n PROVE seats[i] = Seat(blank, split, i)
  <2>1. CASE i <= d
    <3>1. {j \in 1..d : j <= i} = 1..i
      BY <1>1, <2>1
    <3>2. RankIn(1..d, i) = i
      <4>1. Cardinality(1..i) = i
        BY FS_Interval
      <4> QED BY <3>1, <4>1 DEF RankIn
    <3> QED BY <1>4, <1>5, <1>6, <1>7, <2>1, <3>2 DEF Seat
  <2>2. CASE ~(i <= d)
    <3>1. {j \in (d + 1)..n : j <= i} = (d + 1)..i
      BY <1>1, <2>2
    <3>2. RankIn((d + 1)..n, i) = i - d
      <4> DEFINE e == d + 1
      <4>1. e \in Int /\ i \in Int /\ (IF e > i THEN 0 ELSE i - e + 1) = i - d
        BY <1>1, <2>2
      <4> HIDE DEF e
      <4>2. Cardinality(e..i) = i - d
        BY <4>1, FS_Interval
      <4> QED BY <3>1, <4>2 DEF e, RankIn
    <3>3. seats[i] = EvenParts(all - a.inDoubles, s)[i - d]
      BY <2>2
    <3>4. blank[i].group = "single-bed"
      BY <1>4, <2>2
    <3> HIDE DEF seats, blank, split
    <3> QED BY <1>5, <1>6, <1>7, <3>2, <3>3, <3>4 DEF Seat
  <2> QED BY <2>1, <2>2
<1>9. /\ DOMAIN blank = 1..n /\ DOMAIN seats = 1..n /\ DOMAIN rooms = 1..n
      /\ \A i \in 1..n : /\ rooms[i].group = kind(i) /\ rooms[i].guests = spread[i]
                         /\ spread[i] \in Party => rooms[i] \in Room
  <2>1. DOMAIN blank = 1..n /\ DOMAIN seats = 1..n
    OBVIOUS
  <2> HIDE DEF rooms, spread, seats, blank
  <2>2. DOMAIN rooms = 1..n
    BY <1>3
  <2>3. ASSUME NEW i \in 1..n
        PROVE  /\ rooms[i].group = kind(i) /\ rooms[i].guests = spread[i]
               /\ spread[i] \in Party => rooms[i] \in Room
    <3>1. rooms[i] = [group |-> kind(i), ac |-> FALSE, guests |-> spread[i]]
      BY <1>3
    <3>2. kind(i) \in Group
      BY <1>4
    <3> HIDE DEF kind
    <3> QED BY <3>1, <3>2 DEF Room
  <2> QED BY <2>1, <2>2, <2>3
<1> HIDE DEF blank, split, seats, rooms, all
<1>10. /\ SumFunctionOnSet(seats, 1..n) = split["single-bed"] + split["double-bed"]
       /\ \A i \in 1..n : seats[i] \in Guests(blank[i].group)
  BY <1>1, <1>4, <1>7, <1>8, <1>9, SeatsFit
<1>11. SumFunctionOnSet(seats, 1..n) = all
  BY <1>2, <1>7, <1>10
<1>12. \A i \in 1..n : rooms[i].group \in Group /\ seats[i] \in Guests(rooms[i].group)
  BY <1>4, <1>9, <1>10
<1>13. /\ \A i \in 1..n : rooms[i].guests \in Party /\ RoomFits(rooms[i])
       /\ PartyOf(rooms) = party
  BY <1>1, <1>9, <1>11, <1>12, LineHoldsParty DEF all
<1>14. \A g : InGroup(rooms, g) = InGroup(blank, g)
  BY <1>4, <1>9 DEF InGroup
<1>15. Count(rooms, "double-bed") = d /\ Count(rooms, "single-bed") = s
  BY <1>6, <1>14 DEF Count
<1> QED BY <1>9, <1>13, <1>15 DEF rooms

(* Every candidate arrangement seats the party, in as many rooms of each   *)
(* group as are available at most (generateServerArrangements).            *)
THEOREM CandidatesFit ==
  ASSUME NEW party \in Party, NEW available \in [Group -> Int],
         NEW a \in Candidates(party, available)
  PROVE  LET rooms == RoomsOf(party, a)
         IN /\ \E n \in Nat : DOMAIN rooms = 1..n
            /\ \A i \in DOMAIN rooms : rooms[i] \in Room /\ RoomFits(rooms[i])
            /\ PartyOf(rooms) = party
            /\ \A g \in Group : Count(rooms, g) <= available[g]
<1> DEFINE n == a.doubles + a.singles
<1>1. available["double-bed"] \in Int /\ available["single-bed"] \in Int
  BY DEF Group
<1>2. /\ a.doubles \in 0..available["double-bed"] /\ a.singles \in 0..available["single-bed"]
      /\ a.inDoubles \in 0..PhysicalOccupancy(party)
      /\ PartsFit(a.inDoubles, a.doubles, "double-bed")
      /\ PartsFit(PhysicalOccupancy(party) - a.inDoubles, a.singles, "single-bed")
  BY DEF Candidates
<1>3. a.doubles \in Nat /\ a.singles \in Nat /\ n \in Nat
  BY <1>1, <1>2
<1> DEFINE rooms == RoomsOf(party, a)
<1>4. /\ DOMAIN rooms = 1..n
      /\ \A i \in 1..n : rooms[i] \in Room /\ RoomFits(rooms[i])
      /\ PartyOf(rooms) = party
      /\ Count(rooms, "double-bed") = a.doubles /\ Count(rooms, "single-bed") = a.singles
  BY <1>2, <1>3, ArrangementSeats
<1> HIDE DEF n, rooms
<1>5. \A g \in Group : Count(rooms, g) <= available[g]
  BY <1>1, <1>2, <1>4 DEF Group
<1> QED BY <1>3, <1>4, <1>5 DEF rooms

(* Among finitely or infinitely many things with a natural number each,    *)
(* some have the least.                                                    *)
Least1(S, f) == {a \in S : \A b \in S : f[a] <= f[b]}
LEMMA SomeLeast ==
  ASSUME NEW S, S # {}, NEW f, \A a \in S : f[a] \in Nat
  PROVE  Least1(S, f) # {} /\ Least1(S, f) \subseteq S
<1>1. PICK x \in S : TRUE
  OBVIOUS
<1> DEFINE n == f[x]
           K == {k \in 0..n : \E a \in S : f[a] = k}
<1>2. n \in Nat /\ K \subseteq 0..n /\ K # {}
  OBVIOUS
<1>3. PICK k \in K : \A m \in K : k <= m
  <2> HIDE DEF n, K
  <2> QED BY <1>2, LeastNumber
<1>4. PICK a \in S : f[a] = k
  BY <1>3
<1>5. ASSUME NEW b \in S PROVE f[a] <= f[b]
  <2>1. f[a] \in 0..n /\ f[b] \in Nat
    BY <1>2, <1>4
  <2>2. CASE f[b] \in 0..n
    <3>1. f[b] \in K
      BY <2>2
    <3> QED BY <1>3, <1>4, <3>1
  <2>3. CASE f[b] \notin 0..n
    <3> HIDE DEF n
    <3> QED BY <1>2, <2>1, <2>3
  <2> QED BY <2>2, <2>3
<1> QED BY <1>5 DEF Least1

(* Of tuples of five numbers that belong to something, one comes first.    *)
LEMMA SomeFirst ==
  ASSUME NEW S, S # {}, NEW r,
         \A a \in S : DOMAIN r[a] = 1..5 /\ \A i \in 1..5 : r[a][i] \in Nat
  PROVE  \E a \in S : \A b \in S : ~Less(r[b], r[a])
<1> DEFINE f(i) == [a \in S |-> r[a][i]]
           S1 == Least1(S, f(1))
           S2 == Least1(S1, f(2))
           S3 == Least1(S2, f(3))
           S4 == Least1(S3, f(4))
           S5 == Least1(S4, f(5))
<1>1. \A i \in 1..5 : \A a \in S : f(i)[a] \in Nat /\ f(i)[a] = r[a][i]
  OBVIOUS
<1>2. \A i \in 1..5 : i = 1 \/ i = 2 \/ i = 3 \/ i = 4 \/ i = 5
  OBVIOUS
<1> HIDE DEF f
<1>3. S1 # {} /\ S1 \subseteq S
  BY <1>1, SomeLeast
<1>4. S2 # {} /\ S2 \subseteq S1
  <2> HIDE DEF S1
  <2> QED BY <1>1, <1>3, SomeLeast
<1>5. S3 # {} /\ S3 \subseteq S2
  <2> HIDE DEF S1, S2
  <2> QED BY <1>1, <1>3, <1>4, SomeLeast
<1>6. S4 # {} /\ S4 \subseteq S3
  <2> HIDE DEF S1, S2, S3
  <2> QED BY <1>1, <1>3, <1>4, <1>5, SomeLeast
<1>7. S5 # {} /\ S5 \subseteq S4
  <2> HIDE DEF S1, S2, S3, S4
  <2> QED BY <1>1, <1>3, <1>4, <1>5, <1>6, SomeLeast
<1>8. PICK a \in S5 : TRUE
  BY <1>7
<1>9. a \in S
  BY <1>3, <1>4, <1>5, <1>6, <1>7
<1>10. ASSUME NEW b \in S, Less(r[b], r[a]) PROVE FALSE
  <2>1. PICK i \in 1..5 : r[b][i] < r[a][i] /\ \A j \in 1..(i - 1) : r[b][j] = r[a][j]
    BY <1>10 DEF Less
  <2>2. \A j \in 1..5 : f(j)[a] \in Nat /\ f(j)[b] \in Nat
    BY <1>1, <1>9
  <2>3. f(i)[b] < f(i)[a] /\ \A j \in 1..5 : j < i => f(j)[b] = f(j)[a]
    BY <1>1, <1>9, <2>1
  <2>4. a \in S1 /\ a \in S2 /\ a \in S3 /\ a \in S4 /\ a \in S5
    BY <1>4, <1>5, <1>6, <1>7
  <2>5. ASSUME NEW T, NEW j \in 1..5, a \in Least1(T, f(j)), b \in T
        PROVE  i # j /\ (j < i => b \in Least1(T, f(j)))
    BY <2>2, <2>3, <2>5 DEF Least1
  <2> HIDE DEF S1, S2, S3, S4, S5
  <2>6. i # 1 /\ b \in S1
    <3>1. i # 1 /\ (1 < i => b \in S1)
      BY <2>4, <2>5 DEF S1
    <3> QED BY <3>1
  <2>7. i # 2 /\ b \in S2
    <3>1. i # 2 /\ (2 < i => b \in S2)
      BY <2>4, <2>5, <2>6 DEF S2
    <3> QED BY <2>6, <3>1
  <2>8. i # 3 /\ b \in S3
    <3>1. i # 3 /\ (3 < i => b \in S3)
      BY <2>4, <2>5, <2>7 DEF S3
    <3> QED BY <2>6, <2>7, <3>1
  <2>9. i # 4 /\ b \in S4
    <3>1. i # 4 /\ (4 < i => b \in S4)
      BY <2>4, <2>5, <2>8 DEF S4
    <3> QED BY <2>6, <2>7, <2>8, <3>1
  <2>10. i # 5
    BY <2>4, <2>5, <2>9 DEF S5
  <2> QED BY <1>2, <2>6, <2>7, <2>8, <2>9, <2>10
<1> QED BY <1>9, <1>10

(* A party is offered an arrangement whenever there is one, and only       *)
(* arrangements there are: whatever the order of the candidates, the       *)
(* filters of generateServerArrangements leave the first of them.          *)
THEOREM SomethingIsOffered ==
  ASSUME NEW party \in Party, NEW available \in [Group -> Int]
  PROVE  /\ Offers(party, available) \subseteq Candidates(party, available)
         /\ Offers(party, available) = {} <=> Candidates(party, available) = {}
<1> DEFINE pool == Pool(party, available)
           rank == [a \in pool |-> Rank(party, a)]
           place(a) == Cardinality({b \in pool : Less(Rank(party, b), Rank(party, a))})
<1>1. /\ pool \subseteq Candidates(party, available)
      /\ Candidates(party, available) # {} => pool # {}
  BY DEF Pool
<1>2. Offers(party, available) \subseteq pool
  BY DEF Offers
<1>3. ASSUME NEW a \in pool
      PROVE  /\ rank[a] = Rank(party, a) /\ DOMAIN rank[a] = 1..5
             /\ \A i \in 1..5 : rank[a][i] \in Nat
  <2>1. rank[a] = <<a.doubles + a.singles, Estimate(party, a), a.doubles, a.singles, a.inDoubles>>
    BY DEF Rank
  <2>2. a \in Candidates(party, available)
    BY <1>1
  <2>3. a.doubles \in Nat /\ a.singles \in Nat /\ a.inDoubles \in Nat
    <3>1. /\ available["double-bed"] \in Int /\ available["single-bed"] \in Int
          /\ PhysicalOccupancy(party) \in Nat
      BY DEF Group, PhysicalOccupancy, Party
    <3> QED BY <2>2, <3>1 DEF Candidates
  <2>4. Estimate(party, a) \in Nat
    <3> DEFINE rooms == RoomsOf(party, a)
    <3>1. /\ \E n \in Nat : DOMAIN rooms = 1..n
          /\ \A i \in DOMAIN rooms : rooms[i] \in Room /\ RoomFits(rooms[i])
      BY <2>2, CandidatesFit
    <3> HIDE DEF rooms
    <3>2. PriceBooking(rooms) \in Nat
      BY <3>1, PriceOfFitting
    <3> QED BY <3>2 DEF Estimate, rooms
  <2>5. DOMAIN rank[a] = 1..5
    BY <2>1
  <2>6. \A i \in 1..5 : i = 1 \/ i = 2 \/ i = 3 \/ i = 4 \/ i = 5
    OBVIOUS
  <2>7. \A i \in 1..5 : rank[a][i] \in Nat
    BY <2>1, <2>3, <2>4, <2>6
  <2> QED BY <2>5, <2>7
<1>4. ASSUME pool # {} PROVE Offers(party, available) # {}
  <2>1. PICK a \in pool : \A b \in pool : ~Less(rank[b], rank[a])
    <3> HIDE DEF pool, rank
    <3> QED BY <1>3, <1>4, SomeFirst
  <2>2. {b \in pool : Less(Rank(party, b), Rank(party, a))} = {}
    BY <1>3, <2>1
  <2>3. place(a) = 0
    BY <2>2, FS_EmptySet
  <2>4. a \in Offers(party, available)
    BY <2>1, <2>3 DEF Offers
  <2> QED BY <2>4
<1> QED BY <1>1, <1>2, <1>4

-----------------------------------------------------------------------------
(* What is refused is impossible.  A list of rooms that lodges a party at  *)
(* all says how many rooms of each group are enough, and how many guests   *)
(* they take.                                                              *)
LEMMA SumConstant ==
  ASSUME NEW f, NEW S, IsFiniteSet(S), NEW c \in Nat, \A x \in S : f[x] = c
  PROVE  SumFunctionOnSet(f, S) = Cardinality(S) * c
<1> DEFINE Bad(T) == SumFunctionOnSet(f, T) # Cardinality(T) * c
           C == {T \in SUBSET S : Bad(T)}
<1>1. ASSUME S \in C PROVE FALSE
  <2>1. PICK T \in C : \A U \in C : U \subseteq T => U = T
    <3>1. C \subseteq SUBSET S /\ C # {}
      BY <1>1
    <3> HIDE DEF C
    <3> QED BY <3>1, Minimal
  <2>2. T # {} /\ IsFiniteSet(T) /\ T \in SUBSET S
    <3>1. SumFunctionOnSet(f, {}) = 0 /\ Cardinality({}) = 0
      BY SumEmpty, FS_EmptySet
    <3>2. ~Bad({})
      BY <3>1
    <3> QED BY <2>1, <3>2, FS_Subset
  <2>3. Rest(T) \in SUBSET S /\ ~Bad(Rest(T)) /\ f[Pick(T)] = c
    BY <2>1, <2>2, PickRest
  <2>4. Cardinality(T) = Cardinality(Rest(T)) + 1 /\ Cardinality(Rest(T)) \in Nat
    <3>1. Pick(T) \in T /\ Rest(T) = T \ {Pick(T)}
      BY <2>2, PickRest DEF Rest
    <3>2. /\ IsFiniteSet(Rest(T)) /\ Cardinality(Rest(T)) = Cardinality(T) - 1
          /\ Cardinality(T) \in Nat
      BY <3>1, <2>2, FS_RemoveElement, FS_CardinalityType
    <3>3. Cardinality(Rest(T)) \in Nat
      BY <3>2, FS_CardinalityType
    <3> QED BY <3>2, <3>3
  <2>5. SumFunctionOnSet(f, T) = c + SumFunctionOnSet(f, Rest(T))
    BY <2>2, <2>3, SumPick
  <2>6. SumFunctionOnSet(f, T) = c + Cardinality(Rest(T)) * c
    BY <2>3, <2>5
  <2>7. \A k \in Nat : c + k * c = (k + 1) * c
    OBVIOUS
  <2> QED BY <2>1, <2>4, <2>6, <2>7
<1> QED BY <1>1

(* So many rooms of a group, each let as it may be, take so many guests.   *)
LEMMA LodgedFit ==
  ASSUME NEW f, NEW S, IsFiniteSet(S), NEW g \in Group, \A x \in S : f[x] \in Guests(g)
  PROVE  /\ PartsFit(SumFunctionOnSet(f, S), Cardinality(S), g)
         /\ SumFunctionOnSet(f, S) \in Nat
<1> DEFINE least == [x \in S |-> Least(g)]
           most == [x \in S |-> Most(g)]
<1>1. Least(g) \in Nat /\ Most(g) \in Nat
  BY DEF Least, Most, Group
<1>2. /\ \A x \in S : least[x] = Least(g) /\ least[x] \in Int /\ f[x] \in Nat /\ least[x] <= f[x]
      /\ \A x \in S : most[x] = Most(g) /\ most[x] \in Int /\ f[x] <= most[x]
  BY <1>1 DEF Guests
<1> HIDE DEF least, most
<1>3. /\ SumFunctionOnSet(least, S) = Cardinality(S) * Least(g)
      /\ SumFunctionOnSet(most, S) = Cardinality(S) * Most(g)
  BY <1>1, <1>2, SumConstant
<1>4. /\ SumFunctionOnSet(least, S) <= SumFunctionOnSet(f, S)
      /\ SumFunctionOnSet(f, S) <= SumFunctionOnSet(most, S)
  BY <1>2, SumLess
<1>5. SumFunctionOnSet(f, S) \in Nat
  BY <1>2, SumNatural
<1>6. Cardinality(S) * Least(g) \in Int /\ Cardinality(S) * Most(g) \in Int
  <2>1. Cardinality(S) \in Nat
    BY FS_CardinalityType
  <2> QED BY <1>1, <2>1
<1> QED BY <1>3, <1>4, <1>5, <1>6 DEF PartsFit

(* The guests of a list of rooms, by group.                                *)
LEMMA GuestsByGroup ==
  ASSUME NEW n \in Nat, NEW rooms, DOMAIN rooms = 1..n,
         \A i \in 1..n : rooms[i] \in Room /\ RoomFits(rooms[i])
  PROVE  \E d, s \in Nat :
           /\ d + s = PhysicalOccupancy(PartyOf(rooms))
           /\ PartsFit(d, Count(rooms, "double-bed"), "double-bed")
           /\ PartsFit(s, Count(rooms, "single-bed"), "single-bed")
<1> DEFINE D == 1..n
           a == [i \in DOMAIN rooms |-> rooms[i].guests.adults]
           b == [i \in DOMAIN rooms |-> rooms[i].guests.children5to10]
           c == [i \in DOMAIN rooms |-> rooms[i].guests.childrenUnder5]
           ab == [i \in D |-> a[i] + b[i]]
           all == [i \in D |-> ab[i] + c[i]]
           doubles == InGroup(rooms, "double-bed")
           singles == InGroup(rooms, "single-bed")
<1>1. /\ IsFiniteSet(D) /\ DOMAIN a = D /\ DOMAIN b = D /\ DOMAIN c = D
      /\ \A i \in D : rooms[i].group \in Group /\ rooms[i].guests \in Party
      /\ \A i \in D : a[i] \in Nat /\ b[i] \in Nat /\ c[i] \in Nat
  <2>1. IsFiniteSet(D) /\ DOMAIN a = D /\ DOMAIN b = D /\ DOMAIN c = D
    BY FS_Interval
  <2>2. \A i \in D : rooms[i].group \in Group /\ rooms[i].guests \in Party
    BY DEF Room
  <2>3. \A i \in D : a[i] \in Nat /\ b[i] \in Nat /\ c[i] \in Nat
    BY <2>2 DEF Party
  <2> QED BY <2>1, <2>2, <2>3
<1>2. \A i \in D : all[i] \in Guests(rooms[i].group)
  BY DEF RoomFits, PhysicalOccupancy
<1>3. PartyOf(rooms) = [adults |-> SumFunction(a), children5to10 |-> SumFunction(b),
                        childrenUnder5 |-> SumFunction(c)]
  BY DEF PartyOf
<1>4. doubles \in SUBSET D /\ singles = D \ doubles
  BY <1>1 DEF InGroup, Group
<1>5. /\ \A i \in D : ab[i] = a[i] + b[i] /\ ab[i] \in Int
      /\ \A i \in D : all[i] = ab[i] + c[i] /\ all[i] \in Int
  BY <1>1
<1>6. /\ \A i \in doubles : all[i] \in Guests("double-bed")
      /\ \A i \in singles : all[i] \in Guests("single-bed")
  BY <1>2, <1>4 DEF InGroup
<1> HIDE DEF D, a, b, c, ab, all, doubles, singles
<1> DEFINE A == SumFunctionOnSet(a, D)
           B == SumFunctionOnSet(b, D)
           K == SumFunctionOnSet(c, D)
<1>7. PartyOf(rooms) = [adults |-> A, children5to10 |-> B, childrenUnder5 |-> K]
  BY <1>1, <1>3 DEF SumFunction
<1>8. SumFunctionOnSet(ab, D) = A + B
  BY <1>1, <1>5, SumPlus
<1>9. SumFunctionOnSet(all, D) = SumFunctionOnSet(ab, D) + K
  BY <1>1, <1>5, SumPlus
<1>10. SumFunctionOnSet(all, D) = PhysicalOccupancy(PartyOf(rooms))
  BY <1>7, <1>8, <1>9 DEF PhysicalOccupancy
<1>11. SumFunctionOnSet(all, D) = SumFunctionOnSet(all, doubles) + SumFunctionOnSet(all, singles)
  BY <1>1, <1>4, <1>5, SumSplit
<1>12. IsFiniteSet(doubles) /\ IsFiniteSet(singles)
  BY <1>1, <1>4, FS_Subset
<1>13. "double-bed" \in Group /\ "single-bed" \in Group
  BY DEF Group
<1>14. /\ PartsFit(SumFunctionOnSet(all, doubles), Cardinality(doubles), "double-bed")
       /\ SumFunctionOnSet(all, doubles) \in Nat
  BY <1>6, <1>12, <1>13, LodgedFit
<1>15. /\ PartsFit(SumFunctionOnSet(all, singles), Cardinality(singles), "single-bed")
       /\ SumFunctionOnSet(all, singles) \in Nat
  BY <1>6, <1>12, <1>13, LodgedFit
<1>16. Count(rooms, "double-bed") = Cardinality(doubles) /\ Count(rooms, "single-bed") = Cardinality(singles)
  BY DEF Count, doubles, singles
<1> QED BY <1>10, <1>11, <1>14, <1>15, <1>16

(* rebalanceRooms refuses a party only where no seating of it in the same  *)
(* rooms keeps to the number of guests each of them is let to.             *)
THEOREM RefusedIfImpossible ==
  ASSUME NEW n \in Nat, NEW rooms, DOMAIN rooms = 1..n, \A i \in 1..n : rooms[i] \in Room,
         NEW party \in Party,
         NEW other, DOMAIN other = 1..n, PartyOf(other) = party,
         \A i \in 1..n : /\ other[i] \in Room /\ RoomFits(other[i])
                         /\ other[i].group = rooms[i].group
  PROVE  CanRebalance(rooms, party)
<1>1. PICK d \in Nat, s \in Nat :
        /\ d + s = PhysicalOccupancy(party)
        /\ PartsFit(d, Count(other, "double-bed"), "double-bed")
        /\ PartsFit(s, Count(other, "single-bed"), "single-bed")
  BY GuestsByGroup
<1>2. \A g : InGroup(other, g) = InGroup(rooms, g)
  BY DEF InGroup
<1>3. \A g : Count(other, g) = Cardinality(InGroup(rooms, g))
  BY <1>2 DEF Count
<1>4. d \in 0..PhysicalOccupancy(party) /\ PhysicalOccupancy(party) - d = s
  BY <1>1
<1>5. d \in Splits(rooms, party)
  BY <1>1, <1>3, <1>4 DEF Splits
<1> QED BY <1>5 DEF CanRebalance

(* Rooms that are free and lodge the party make an arrangement.            *)
LEMMA LodgedIsCandidate ==
  ASSUME NEW party \in Party, NEW available \in [Group -> Int],
         NEW k \in 0..available["double-bed"], NEW m \in 0..available["single-bed"], k + m > 0,
         NEW d \in Nat, NEW s \in Nat, d + s = PhysicalOccupancy(party),
         PartsFit(d, k, "double-bed"), PartsFit(s, m, "single-bed")
  PROVE  Candidates(party, available) # {}
<1> DEFINE a == [doubles |-> k, singles |-> m, inDoubles |-> d]
<1>1. d \in 0..PhysicalOccupancy(party) /\ PhysicalOccupancy(party) - d = s
  OBVIOUS
<1>2. a \in [doubles : 0..available["double-bed"], singles : 0..available["single-bed"],
             inDoubles : 0..PhysicalOccupancy(party)]
  BY <1>1
<1>3. /\ a.doubles + a.singles > 0
      /\ PartsFit(a.inDoubles, a.doubles, "double-bed")
      /\ PartsFit(PhysicalOccupancy(party) - a.inDoubles, a.singles, "single-bed")
  BY <1>1
<1> HIDE DEF a
<1>4. a \in Candidates(party, available)
  BY <1>2, <1>3 DEF Candidates
<1> QED BY <1>4

(* generateServerArrangements finds something for every party that can be  *)
(* lodged at all: for any list of rooms, no more than are free, that each  *)
(* hold as many guests as they are let to and together hold the party.     *)
THEOREM LodgedIsOffered ==
  ASSUME NEW party \in Party, NEW available \in [Group -> Int],
         NEW n \in Nat, n > 0, NEW rooms, DOMAIN rooms = 1..n, PartyOf(rooms) = party,
         \A i \in 1..n : rooms[i] \in Room /\ RoomFits(rooms[i]),
         \A g \in Group : Count(rooms, g) <= available[g]
  PROVE  Offers(party, available) # {}
<1> DEFINE k == Count(rooms, "double-bed")
           m == Count(rooms, "single-bed")
<1>1. PICK d \in Nat, s \in Nat :
        /\ d + s = PhysicalOccupancy(party)
        /\ PartsFit(d, k, "double-bed") /\ PartsFit(s, m, "single-bed")
  BY GuestsByGroup
<1>2. /\ IsFiniteSet(1..n)
      /\ InGroup(rooms, "double-bed") \subseteq 1..n /\ InGroup(rooms, "single-bed") \subseteq 1..n
  BY FS_Interval DEF InGroup
<1>3. IsFiniteSet(InGroup(rooms, "double-bed")) /\ IsFiniteSet(InGroup(rooms, "single-bed"))
  BY <1>2, FS_Subset
<1>4. k \in Nat /\ m \in Nat
  BY <1>3, FS_CardinalityType DEF Count
<1>5. k + m > 0
  <2>1. 1 \in 1..n /\ rooms[1].group \in Group
    BY DEF Room
  <2>2. 1 \in InGroup(rooms, "double-bed") \/ 1 \in InGroup(rooms, "single-bed")
    BY <2>1 DEF InGroup, Group
  <2>3. k # 0 \/ m # 0
    BY <2>2, <1>3, FS_EmptySet DEF Count
  <2> QED BY <2>3, <1>4
<1>6. k <= available["double-bed"] /\ m <= available["single-bed"]
      /\ available["double-bed"] \in Int /\ available["single-bed"] \in Int
  BY DEF Group
<1> HIDE DEF k, m
<1>7. k \in 0..available["double-bed"] /\ m \in 0..available["single-bed"]
  BY <1>4, <1>6
<1>8. Candidates(party, available) # {}
  BY <1>1, <1>5, <1>7, LodgedIsCandidate
<1> QED BY <1>8, SomethingIsOffered

(* Even parts are a seating: each room gets a number it is let to, and     *)
(* together they get all.                                                  *)
LEMMA EvenPartsSeat ==
  ASSUME NEW total \in Nat, NEW count \in Nat, NEW g \in Group, PartsFit(total, count, g)
  PROVE  /\ EvenParts(total, count) \in [1..count -> Guests(g)]
         /\ SumFunction(EvenParts(total, count)) = total
<1> DEFINE f == EvenParts(total, count)
           D == 1..count
<1>1. f = [i \in D |-> f[i]] /\ DOMAIN f = D /\ IsFiniteSet(D)
  BY FS_Interval DEF EvenParts
<1>2. CASE count = 0
  <2>1. total = 0 /\ D = {}
    BY <1>2, NoRoomsNoGuests
  <2> HIDE DEF f, D
  <2>2. SumFunction(f) = 0
    BY <1>1, <2>1, SumEmpty DEF SumFunction
  <2>3. f \in [D -> Guests(g)]
    BY <1>1, <2>1
  <2> QED BY <2>1, <2>2, <2>3 DEF f, D
<1>3. CASE count # 0
  <2>1. \A i \in D : f[i] \in Guests(g)
    BY <1>3, PartsInRange
  <2>2. SumFunctionOnSet(f, D) = total
    <3> DEFINE c == [k \in 0..count |-> Filled(total, count, k)]
    <3> HIDE DEF f, D
    <3>1. /\ Filled(total, count, 0) = 0 /\ Filled(total, count, count) = total
          /\ \A k \in 0..count : Filled(total, count, k) \in Int
          /\ \A i \in 1..count : f[i] = Filled(total, count, i) - Filled(total, count, i - 1)
      BY <1>3, PartsFilled DEF f
    <3>2. \A k \in 0..count : c[k] = Filled(total, count, k) /\ c[k] \in Int
      BY <3>1
    <3>3. ASSUME NEW i \in 1..count PROVE f[i] = c[i] - c[i - 1]
      <4>1. i \in 0..count /\ i - 1 \in 0..count
        OBVIOUS
      <4>2. c[i] = Filled(total, count, i) /\ c[i - 1] = Filled(total, count, i - 1)
        BY <3>2, <4>1
      <4> HIDE DEF c
      <4> QED BY <3>1, <4>2
    <3>4. 0 \in 0..count /\ count \in 0..count
      OBVIOUS
    <3>5. c[0] = 0 /\ c[count] = total
      BY <3>1, <3>2, <3>4
    <3> HIDE DEF c
    <3>6. (\A k \in 0..count : c[k] \in Int) /\ (\A i \in 1..count : f[i] = c[i] - c[i - 1])
      BY <3>2, <3>3
    <3>7. Totals(f, c, count)
      BY <3>6, Telescope
    <3>8. SumFunctionOnSet(f, 1..count) = c[count] - c[0]
      BY <3>4, <3>7 DEF Totals
    <3> QED BY <3>5, <3>8 DEF D
  <2> HIDE DEF f, D
  <2>3. f \in [D -> Guests(g)]
    BY <1>1, <2>1
  <2>4. SumFunction(f) = total
    BY <1>1, <2>2 DEF SumFunction
  <2> QED BY <2>3, <2>4 DEF f, D
<1> QED BY <1>2, <1>3

(* The same by numbers of rooms and guests alone, and only then.           *)
THEOREM SeatableIsOffered ==
  ASSUME NEW party \in Party, NEW available \in [Group -> Int]
  PROVE  Offers(party, available) = {} <=> ~Seatable(party, available)
<1>1. ASSUME Seatable(party, available) PROVE Candidates(party, available) # {}
  <2>1. PICK k \in 0..available["double-bed"], m \in 0..available["single-bed"] :
          /\ k + m > 0
          /\ \E f \in [1..k -> Guests("double-bed")], g \in [1..m -> Guests("single-bed")] :
               SumFunction(f) + SumFunction(g) = PhysicalOccupancy(party)
    BY <1>1 DEF Seatable
  <2>2. PICK f \in [1..k -> Guests("double-bed")], g \in [1..m -> Guests("single-bed")] :
          SumFunction(f) + SumFunction(g) = PhysicalOccupancy(party)
    BY <2>1
  <2>3. k \in Nat /\ m \in Nat /\ "double-bed" \in Group /\ "single-bed" \in Group
    BY DEF Group
  <2>4. /\ IsFiniteSet(1..k) /\ Cardinality(1..k) = k
        /\ IsFiniteSet(1..m) /\ Cardinality(1..m) = m
    <3>1. IsFiniteSet(1..k) /\ IsFiniteSet(1..m)
      BY <2>3, FS_Interval
    <3>2. (IF 1 > k THEN 0 ELSE k - 1 + 1) = k /\ (IF 1 > m THEN 0 ELSE m - 1 + 1) = m
      BY <2>3
    <3>3. Cardinality(1..k) = k /\ Cardinality(1..m) = m
      BY <2>3, <3>2, FS_Interval
    <3> QED BY <3>1, <3>3
  <2> DEFINE d == SumFunctionOnSet(f, 1..k)
             s == SumFunctionOnSet(g, 1..m)
  <2>5. PartsFit(d, k, "double-bed") /\ d \in Nat
    BY <2>2, <2>3, <2>4, LodgedFit
  <2>6. PartsFit(s, m, "single-bed") /\ s \in Nat
    BY <2>2, <2>3, <2>4, LodgedFit
  <2>7. d + s = PhysicalOccupancy(party)
    BY <2>2 DEF SumFunction
  <2> HIDE DEF d, s
  <2> QED BY <2>1, <2>5, <2>6, <2>7, LodgedIsCandidate
<1>2. ASSUME NEW a \in Candidates(party, available) PROVE Seatable(party, available)
  <2> DEFINE all == PhysicalOccupancy(party)
             k == a.doubles
             m == a.singles
             d == a.inDoubles
             s == all - d
             f == EvenParts(d, k)
             g == EvenParts(s, m)
  <2>1. /\ k \in 0..available["double-bed"] /\ m \in 0..available["single-bed"] /\ k + m > 0
        /\ d \in 0..all /\ PartsFit(d, k, "double-bed") /\ PartsFit(s, m, "single-bed")
    BY DEF Candidates
  <2>2. all \in Nat /\ k \in Nat /\ m \in Nat /\ d \in Nat /\ s \in Nat /\ d + s = all
    <3>1. all \in Nat
      BY DEF PhysicalOccupancy, Party
    <3>2. available["double-bed"] \in Int /\ available["single-bed"] \in Int
      BY DEF Group
    <3> HIDE DEF all
    <3> QED BY <2>1, <3>1, <3>2
  <2>3. "double-bed" \in Group /\ "single-bed" \in Group
    BY DEF Group
  <2> HIDE DEF all, k, m, d, s
  <2>4. f \in [1..k -> Guests("double-bed")] /\ SumFunction(f) = d
    BY <2>1, <2>2, <2>3, EvenPartsSeat
  <2>5. g \in [1..m -> Guests("single-bed")] /\ SumFunction(g) = s
    BY <2>1, <2>2, <2>3, EvenPartsSeat
  <2>6. SumFunction(f) + SumFunction(g) = PhysicalOccupancy(party)
    BY <2>2, <2>4, <2>5 DEF all
  <2> HIDE DEF f, g
  <2> QED BY <2>1, <2>4, <2>5, <2>6 DEF Seatable
<1> QED BY <1>1, <1>2, SomethingIsOffered
=============================================================================

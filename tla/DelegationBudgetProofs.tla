------------------------- MODULE DelegationBudgetProofs -------------------------
(***************************************************************************)
(* Proofs about the delegation budget tree.  The audit of the balances is   *)
(* about sums over subtrees, so the sums of the community modules come       *)
(* first: they are folds over a finite set whose element order is hidden in  *)
(* a CHOOSE, and what a fold returns is shown by taking a smallest set for   *)
(* which it would return something else.                                    *)
(***************************************************************************)
EXTENDS DelegationBudget, FiniteSetTheorems, WellFoundedInduction, TLAPS

-----------------------------------------------------------------------------
(* Sums over a finite set. *)

Sum(f, S) == SumFunctionOnSet(f, S)
Pick(s)   == CHOOSE x \in s : TRUE
IsSumming(g, f, S) ==
    g = [s \in SUBSET S |-> IF s = {} THEN 0 ELSE f[Pick(s)] + g[s \ {Pick(s)}]]

(* The sum of the community modules is that of a function that sums every subset. *)
LEMMA SumIsChosen ==
    ASSUME NEW f, NEW S
    PROVE  Sum(f, S) = (CHOOSE g : IsSumming(g, f, S))[S]
BY DEF Sum, SumFunctionOnSet, FoldFunctionOnSet, MapThenFoldSet, IsSumming, Pick

(* A set of finite sets that is not empty has a smallest member. *)
LEMMA SmallestSet ==
    ASSUME NEW Z, Z # {}, \A s \in Z : IsFiniteSet(s)
    PROVE  \E s \in Z : \A t \in Z : Cardinality(s) <= Cardinality(t)
<1> DEFINE T == {Cardinality(s) : s \in Z}
<1>1. T \in SUBSET Nat /\ T # {}
    BY FS_CardinalityType
<1>2. PICK n \in T : \A m \in T : ~(<<m, n>> \in OpToRel(<, Nat))
    <2> HIDE DEF T
    <2>1. IsWellFoundedOn(OpToRel(<, Nat), Nat)
        BY NatLessThanWellFounded
    <2> QED BY <1>1, <2>1, WFMin, ZenonT(60)
<1>3. \A m \in T : ~(m < n)
    BY <1>1, <1>2 DEF OpToRel
<1>4. PICK s \in Z : n = Cardinality(s)
    OBVIOUS
<1>5. ASSUME NEW t \in Z
      PROVE  Cardinality(s) <= Cardinality(t)
    <2>1. Cardinality(t) \in T /\ Cardinality(t) \in Nat /\ Cardinality(s) \in Nat
        BY <1>1, <1>4
    <2> QED BY <1>3, <1>4, <2>1
<1> QED
    BY <1>5

(* Taking an element away leaves a finite set with one element less. *)
LEMMA TakenAway ==
    ASSUME NEW s, IsFiniteSet(s), NEW x \in s
    PROVE  /\ IsFiniteSet(s \ {x}) /\ Cardinality(s \ {x}) < Cardinality(s)
           /\ s \ {x} # s
<1>1. Cardinality(s) \in Nat
    BY FS_CardinalityType
<1>2. IsFiniteSet(s \ {x}) /\ Cardinality(s \ {x}) = Cardinality(s) - 1
    BY FS_RemoveElement
<1> QED
    BY <1>1, <1>2

(* Two functions that sum the subsets of a finite set agree on all of them. *)
LEMMA SummingIsUnique ==
    ASSUME NEW f, NEW S, IsFiniteSet(S), NEW g, NEW h,
           IsSumming(g, f, S), IsSumming(h, f, S)
    PROVE  \A s \in SUBSET S : g[s] = h[s]
<1> DEFINE Z == {s \in SUBSET S : g[s] # h[s]}
<1>1. SUFFICES ASSUME Z # {} PROVE FALSE
    OBVIOUS
<1>2. \A s \in Z : IsFiniteSet(s)
    BY FS_Subset
<1>3. PICK s \in Z : \A t \in Z : Cardinality(s) <= Cardinality(t)
    BY <1>1, <1>2, SmallestSet
<1>4. /\ g[s] = IF s = {} THEN 0 ELSE f[Pick(s)] + g[s \ {Pick(s)}]
      /\ h[s] = IF s = {} THEN 0 ELSE f[Pick(s)] + h[s \ {Pick(s)}]
    BY DEF IsSumming
<1>5. s # {} /\ Pick(s) \in s
    BY <1>4 DEF Pick
<1>6. s \ {Pick(s)} \notin Z
    BY <1>2, <1>3, <1>5, TakenAway, FS_CardinalityType
<1> QED
    BY <1>4, <1>5, <1>6

(* The sum over a finite set: nothing, or a picked element's value and the rest. *)
LEMMA SumStep ==
    ASSUME NEW f, NEW S, IsFiniteSet(S)
    PROVE  Sum(f, S) = IF S = {} THEN 0 ELSE f[Pick(S)] + Sum(f, S \ {Pick(S)})
<1> DEFINE Steps(s) == Sum(f, s) = IF s = {} THEN 0 ELSE f[Pick(s)] + Sum(f, s \ {Pick(s)})
           Z == {s \in SUBSET S : ~Steps(s)}
<1>1. SUFFICES ASSUME Z # {} PROVE FALSE
    OBVIOUS
<1>2. \A s \in SUBSET S : IsFiniteSet(s)
    BY FS_Subset
<1>3. PICK s \in Z : \A t \in Z : Cardinality(s) <= Cardinality(t)
    BY <1>1, <1>2, SmallestSet
<1>4. \A t \in SUBSET s : t # s => Steps(t)
    <2> TAKE t \in SUBSET s
    <2> HAVE t # s
    <2>1. Cardinality(t) < Cardinality(s) /\ Cardinality(t) \in Nat /\ Cardinality(s) \in Nat
        BY <1>2, FS_Subset, FS_CardinalityType
    <2> QED BY <2>1, <1>3
<1> DEFINE Rest == s \ {Pick(s)}
           G == [t \in SUBSET s |-> IF t = s /\ s # {} THEN f[Pick(s)] + Sum(f, Rest)
                                    ELSE IF t = {} THEN 0 ELSE Sum(f, t)]
<1>5. IsSumming(G, f, s)
    <2>1. ASSUME NEW t \in SUBSET s
          PROVE  G[t] = IF t = {} THEN 0 ELSE f[Pick(t)] + G[t \ {Pick(t)}]
        <3>1. CASE t = {}
            BY <3>1
        <3>2. CASE t # {}
            <4>1. Pick(t) \in t
                BY <3>2 DEF Pick
            <4>2. t \ {Pick(t)} # s /\ t \ {Pick(t)} \in SUBSET s
                BY <4>1
            <4>3. Sum(f, {}) = 0
                BY <1>4, <3>2
            <4>4. G[t \ {Pick(t)}] = Sum(f, t \ {Pick(t)})
                BY <4>2, <4>3
            <4>5. t # s => Sum(f, t) = f[Pick(t)] + Sum(f, t \ {Pick(t)})
                BY <1>4, <3>2
            <4> QED BY <3>2, <4>4, <4>5
        <3> QED BY <3>1, <3>2
    <2> HIDE DEF G
    <2>2. G = [t \in SUBSET s |-> G[t]]
        BY DEF G
    <2> QED BY <2>1, <2>2 DEF IsSumming
<1> DEFINE C == CHOOSE g : IsSumming(g, f, s)
<1>6. IsSumming(C, f, s) /\ Sum(f, s) = C[s]
    BY <1>5, SumIsChosen
<1> HIDE DEF C, G
<1>7. C[s] = G[s]
    BY <1>2, <1>5, <1>6, SummingIsUnique
<1>8. s # {} => Steps(s)
    BY <1>6, <1>7 DEF G
<1>9. s = {} => C[s] = 0
    BY <1>6 DEF IsSumming
<1> QED
    BY <1>3, <1>6, <1>8, <1>9

(* A sum does not depend on which element is picked first. *)
LEMMA SumWithout ==
    ASSUME NEW f, NEW S, IsFiniteSet(S), \A x \in S : f[x] \in Int
    PROVE  /\ Sum(f, S) \in Int
           /\ \A x \in S : Sum(f, S) = f[x] + Sum(f, S \ {x})
<1> DEFINE Good(s) == Sum(f, s) \in Int /\ \A x \in s : Sum(f, s) = f[x] + Sum(f, s \ {x})
           Z == {s \in SUBSET S : ~Good(s)}
<1> SUFFICES Good(S)
    OBVIOUS
<1> HIDE DEF Good
<1>1. SUFFICES ASSUME Z # {} PROVE FALSE
    OBVIOUS
<1>2. \A s \in SUBSET S : IsFiniteSet(s)
    BY FS_Subset
<1>3. PICK s \in Z : \A t \in Z : Cardinality(s) <= Cardinality(t)
    BY <1>1, <1>2, SmallestSet
<1>4. ASSUME NEW t \in SUBSET s, NEW x \in t PROVE Good(t \ {x})
    <2>1. IsFiniteSet(t) /\ Cardinality(t) \in Nat /\ Cardinality(s) \in Nat
          /\ Cardinality(t) <= Cardinality(s)
        BY <1>2, FS_Subset, FS_CardinalityType
    <2>2. Cardinality(t \ {x}) < Cardinality(t) /\ IsFiniteSet(t \ {x})
        BY <2>1, TakenAway
    <2>3. t \ {x} \notin Z
        BY <2>1, <2>2, <1>3, FS_CardinalityType
    <2> QED BY <2>3
<1>5. CASE s = {}
    <2>1. IsFiniteSet({}) /\ Sum(f, {}) = 0
        BY FS_EmptySet, SumStep
    <2>2. Good({})
        BY <2>1 DEF Good
    <2> QED BY <1>3, <1>5, <2>2
<1>6. CASE s # {}
    <2> DEFINE y == Pick(s)
    <2>1. y \in s /\ f[y] \in Int
        BY <1>6 DEF Pick
    <2>2. Sum(f, s) = f[y] + Sum(f, s \ {y})
        BY <1>2, <1>6, SumStep
    <2> HIDE DEF y
    <2>3. Sum(f, s) \in Int
        <3>1. Good(s \ {y})
            BY <1>4, <2>1
        <3> QED BY <2>1, <2>2, <3>1 DEF Good
    <2>4. ASSUME NEW x \in s, x # y
          PROVE  Sum(f, s) = f[x] + Sum(f, s \ {x})
        <3> DEFINE R == Sum(f, (s \ {y}) \ {x})
        <3>0. x \in s \ {y} /\ y \in s \ {x} /\ s \ {y} \in SUBSET s /\ s \ {x} \in SUBSET s
            BY <2>1, <2>4
        <3>a. Good(s \ {y}) /\ Good(s \ {x}) /\ Good((s \ {y}) \ {x})
            BY <1>4, <2>1, <3>0
        <3>1. Sum(f, s \ {y}) = f[x] + R /\ R \in Int
            BY <3>a, <3>0 DEF Good
        <3>2. (s \ {x}) \ {y} = (s \ {y}) \ {x}
            OBVIOUS
        <3>3. Sum(f, s \ {x}) = f[y] + R
            BY <3>a, <3>0, <3>2 DEF Good
        <3>4. f[x] \in Int
            OBVIOUS
        <3> HIDE DEF R
        <3> QED BY <2>1, <2>2, <3>1, <3>3, <3>4
    <2>5. Good(s)
        BY <2>2, <2>3, <2>4 DEF Good
    <2> QED BY <2>5
<1> QED
    BY <1>5, <1>6

(* The sums over no element and over one. *)
LEMMA SumSmall ==
    ASSUME NEW f
    PROVE  Sum(f, {}) = 0 /\ \A a : f[a] \in Int => Sum(f, {a}) = f[a]
<1>1. Sum(f, {}) = 0
    BY FS_EmptySet, SumStep
<1>2. ASSUME NEW a, f[a] \in Int PROVE Sum(f, {a}) = f[a]
    <2>1. IsFiniteSet({a}) /\ {a} # {} /\ Pick({a}) = a /\ {a} \ {a} = {}
        BY FS_Singleton DEF Pick
    <2> QED BY <1>1, <1>2, <2>1, SumStep
<1> QED
    BY <1>1, <1>2

(* Two functions that agree on a finite set have the same sum over it. *)
LEMMA SumAgrees ==
    ASSUME NEW f, NEW g, NEW S, IsFiniteSet(S), \A x \in S : f[x] = g[x]
    PROVE  Sum(f, S) = Sum(g, S)
<1> DEFINE Z == {s \in SUBSET S : Sum(f, s) # Sum(g, s)}
<1>1. SUFFICES ASSUME Z # {} PROVE FALSE
    OBVIOUS
<1>2. \A s \in SUBSET S : IsFiniteSet(s)
    BY FS_Subset
<1>3. PICK s \in Z : \A t \in Z : Cardinality(s) <= Cardinality(t)
    BY <1>1, <1>2, SmallestSet
<1>4. /\ Sum(f, s) = IF s = {} THEN 0 ELSE f[Pick(s)] + Sum(f, s \ {Pick(s)})
      /\ Sum(g, s) = IF s = {} THEN 0 ELSE g[Pick(s)] + Sum(g, s \ {Pick(s)})
    BY <1>2, SumStep
<1>5. s # {} /\ Pick(s) \in s /\ IsFiniteSet(s)
    BY <1>2, <1>3, <1>4 DEF Pick
<1> DEFINE rest == s \ {Pick(s)}
<1>6. rest \notin Z
    <2>1. Cardinality(rest) < Cardinality(s) /\ IsFiniteSet(rest)
        BY <1>5, TakenAway
    <2>2. Cardinality(rest) \in Nat /\ Cardinality(s) \in Nat
        BY <2>1, <1>5, FS_CardinalityType
    <2> HIDE DEF rest
    <2> QED BY <1>3, <2>1, <2>2
<1>7. Sum(f, rest) = Sum(g, rest)
    BY <1>6
<1> HIDE DEF rest
<1>8. f[Pick(s)] = g[Pick(s)]
    BY <1>5
<1> QED
    BY <1>3, <1>4, <1>5, <1>7, <1>8 DEF rest

(* Raising one value of a function raises the sums over the sets that hold it. *)
LEMMA SumRaised ==
    ASSUME NEW f, NEW g, NEW S, IsFiniteSet(S), \A x \in S : f[x] \in Int,
           NEW a, NEW n \in Int, \A x \in S : g[x] = IF x = a THEN f[x] + n ELSE f[x]
    PROVE  Sum(g, S) = Sum(f, S) + (IF a \in S THEN n ELSE 0)
<1>1. IsFiniteSet(S \ {a})
    BY FS_RemoveElement, FS_Subset
<1>2. Sum(f, S) \in Int /\ Sum(f, S \ {a}) \in Int
    BY <1>1, SumWithout
<1>3. Sum(g, S \ {a}) = Sum(f, S \ {a})
    BY <1>1, SumAgrees
<1>4. CASE a \in S
    <2>1. \A x \in S : g[x] \in Int
        OBVIOUS
    <2>2. Sum(f, S) = f[a] + Sum(f, S \ {a})
        BY <1>4, SumWithout
    <2>3. Sum(g, S) = g[a] + Sum(g, S \ {a})
        BY <1>4, <2>1, SumWithout
    <2> QED BY <1>2, <1>3, <1>4, <2>2, <2>3
<1>5. CASE a \notin S
    BY <1>2, <1>3, <1>5, SumAgrees
<1> QED
    BY <1>4, <1>5

(* A new element adds its value. *)
LEMMA SumGrown ==
    ASSUME NEW f, NEW S, IsFiniteSet(S), NEW a, a \notin S,
           \A x \in S \cup {a} : f[x] \in Int
    PROVE  Sum(f, S \cup {a}) = f[a] + Sum(f, S)
<1>1. IsFiniteSet(S \cup {a}) /\ (S \cup {a}) \ {a} = S
    BY FS_AddElement
<1>2. \A x \in S \cup {a} : Sum(f, S \cup {a}) = f[x] + Sum(f, (S \cup {a}) \ {x})
    BY <1>1, SumWithout
<1> QED
    BY <1>1, <1>2

(* A sum of natural numbers grows with the set, and sums of zeroes are zero. *)
LEMMA SumGrows ==
    ASSUME NEW f, NEW T, IsFiniteSet(T), \A x \in T : f[x] \in Nat, NEW S \in SUBSET T
    PROVE  Sum(f, S) <= Sum(f, T)
<1> DEFINE Good(t) == Sum(f, S) <= Sum(f, t)
           Z == {t \in SUBSET T : S \subseteq t /\ ~Good(t)}
<1> SUFFICES Good(T)
    OBVIOUS
<1>1. \A t \in SUBSET T : IsFiniteSet(t) /\ Sum(f, t) \in Int
    BY FS_Subset, SumWithout
<1>2. Good(S)
    BY <1>1
<1>3. ASSUME NEW t \in SUBSET T, NEW x \in t, Good(t \ {x}) PROVE Good(t)
    <2>1. Sum(f, t) = f[x] + Sum(f, t \ {x})
        BY <1>1, SumWithout
    <2> QED BY <2>1, <1>1, <1>3
<1> HIDE DEF Good
<1>4. SUFFICES ASSUME Z # {} PROVE FALSE
    OBVIOUS
<1>5. PICK t \in Z : \A u \in Z : Cardinality(t) <= Cardinality(u)
    BY <1>1, <1>4, SmallestSet
<1>6. PICK x \in t : x \notin S
    BY <1>2, <1>5
<1>7. t \ {x} \notin Z
    <2>1. IsFiniteSet(t) /\ IsFiniteSet(t \ {x}) /\ Cardinality(t \ {x}) < Cardinality(t)
        BY <1>1, TakenAway
    <2> QED BY <2>1, <1>5, FS_CardinalityType
<1> QED
    BY <1>3, <1>5, <1>6, <1>7

LEMMA SumOfZeroes ==
    ASSUME NEW f, NEW S, IsFiniteSet(S), \A x \in S : f[x] = 0
    PROVE  Sum(f, S) = 0
<1> DEFINE Z == {s \in SUBSET S : Sum(f, s) # 0}
<1>1. SUFFICES ASSUME Z # {} PROVE FALSE
    OBVIOUS
<1>2. \A s \in SUBSET S : IsFiniteSet(s)
    BY FS_Subset
<1>3. PICK s \in Z : \A t \in Z : Cardinality(s) <= Cardinality(t)
    BY <1>1, <1>2, SmallestSet
<1>4. PICK x \in s : TRUE
    BY <1>3, SumSmall
<1>5. Sum(f, s) = 0 + Sum(f, s \ {x})
    BY <1>2, SumWithout
<1>6. s \ {x} \notin Z
    <2>1. IsFiniteSet(s \ {x}) /\ Cardinality(s \ {x}) < Cardinality(s) /\ IsFiniteSet(s)
        BY <1>2, TakenAway
    <2> QED BY <2>1, <1>3, FS_CardinalityType
<1> QED
    BY <1>3, <1>5, <1>6

-----------------------------------------------------------------------------
(* What a call does to the file: nothing, or one of these. *)

Answers == reply' \in Replies
           /\ UNCHANGED <<shape, flags, balances, operations, events, mutations>>

Creates(t, a, n) ==
    /\ a \notin live /\ t \notin tasks
    /\ tasks' = tasks \cup {t} /\ live' = live \cup {a}
    /\ task' = [task EXCEPT ![a] = t]
    /\ effects' = [effects EXCEPT ![a] = n]
    /\ UNCHANGED <<parent, lineage, flags, balances, events>>

Gives(a, p, n) ==
    /\ p \in live /\ a \notin live /\ Active(p) /\ n <= Capacity(p)
    /\ live' = live \cup {a}
    /\ task' = [task EXCEPT ![a] = task[p]]
    /\ parent' = [parent EXCEPT ![a] = p]
    /\ lineage' = [lineage EXCEPT ![a] = {p} \cup lineage[p]]
    /\ effects' = [effects EXCEPT ![a] = n]
    /\ reserved' = AddTo(reserved, {p} \cup lineage[p], n)
    /\ UNCHANGED <<tasks, flags, consumed, returned, events>>

Consumes(a, n) ==
    /\ a \in live /\ Active(a) /\ n <= Consumable(a) /\ \A p \in lineage[a] : n <= reserved[p]
    /\ consumed' = AddTo(consumed, {a} \cup lineage[a], n)
    /\ reserved' = AddTo(reserved, lineage[a], -n)
    /\ Log("consumed", a, n)
    /\ UNCHANGED <<shape, flags, returned>>

Returns(a, n) ==
    /\ a \in live /\ n <= Consumable(a) /\ \A p \in lineage[a] : n <= reserved[p]
    /\ returned' = AddTo(returned, {a} \cup lineage[a], n)
    /\ reserved' = AddTo(reserved, lineage[a], -n)
    /\ Log("returned", a, n)
    /\ UNCHANGED <<shape, flags, consumed>>

Releases(a, n) ==
    /\ a \in live /\ \A p \in {a} \cup lineage[a] : n <= consumed[p]
    /\ consumed' = AddTo(consumed, {a} \cup lineage[a], -n)
    /\ Log("released", a, n)
    /\ UNCHANGED <<shape, flags, reserved, returned>>

Revokes(t) ==
    /\ t \in tasks
    /\ revokedTasks' = revokedTasks \cup {t}
    /\ revoked' = revoked \cup {a \in live : task[a] = t}
    /\ UNCHANGED <<shape, balances, events>>

Writes ==
    \/ \E t \in Tasks, a \in Allocations, n \in Amounts : Creates(t, a, n)
    \/ \E a, p \in Allocations, n \in Amounts \cup {0} : Gives(a, p, n)
    \/ \E a \in Allocations, n \in Amounts : Consumes(a, n) \/ Returns(a, n) \/ Releases(a, n)
    \/ \E t \in Tasks : Revokes(t)

(* The balances and the log are natural numbers, the tree is made of allocations of *)
(* the file, and a call that throws leaves all of it alone.                       *)
LEMMA CallsWrite ==
    ASSUME BudgetTypeOK, BudgetNext
    PROVE  Answers \/ (Mutated /\ Writes)
<1> USE DEF Answers
<1>1. ASSUME NEW t \in Tasks, NEW a \in Allocations, NEW n \in Amounts, CreateRoot(t, a, n)
      PROVE  Answers \/ (Mutated /\ Creates(t, a, n))
    BY <1>1 DEF CreateRoot, Creates, Answer, Replies
<1>2. ASSUME NEW a \in Allocations, NEW p \in Allocations, NEW n \in Amounts \cup {0},
             NEW fanOut \in FanOuts, Allocate(a, p, n, fanOut)
      PROVE  Answers \/ (Mutated /\ Gives(a, p, n))
    <2> n \in Nat
        BY BudgetAssumption
    <2>1. p \in live => Capacity(p) \in Int
        BY DEF BudgetTypeOK, Capacity
    <2> QED BY <1>2, <2>1 DEF Allocate, Gives, Answer, Replies, Reservers, Fits
<1>3. ASSUME NEW r \in Reservations \cup {NoReservation}, NEW a \in Allocations,
             NEW n \in Amounts, Consume(r, a, n)
      PROVE  Answers \/ (Mutated /\ Consumes(a, n))
    <2> n \in Nat /\ \A p \in Allocations : reserved[p] \in Nat
        BY BudgetAssumption DEF BudgetTypeOK
    <2>1. a \in live => lineage[a] \subseteq Allocations /\ Consumable(a) \in Int
        BY DEF BudgetTypeOK, Consumable, Capacity
    <2> QED BY <1>3, <2>1 DEF Consume, Consumes, Answer, Retried, Replies, Underflows, Unreserve
<1>4. ASSUME NEW r \in Reservations \cup {NoReservation}, NEW a \in Allocations,
             NEW n \in Amounts, Return(r, a, n)
      PROVE  Answers \/ (Mutated /\ Returns(a, n))
    <2> n \in Nat /\ \A p \in Allocations : reserved[p] \in Nat
        BY BudgetAssumption DEF BudgetTypeOK
    <2>1. a \in live => lineage[a] \subseteq Allocations /\ Consumable(a) \in Int
        BY DEF BudgetTypeOK, Consumable, Capacity
    <2> QED BY <1>4, <2>1 DEF Return, Returns, Answer, Retried, Replies, Underflows, Unreserve
<1>5. ASSUME NEW r \in Reservations, NEW a \in Allocations,
             NEW n \in Amounts, Release(r, a, n)
      PROVE  Answers \/ (Mutated /\ Releases(a, n))
    <2> n \in Nat /\ \A p \in Allocations : consumed[p] \in Nat
        BY BudgetAssumption DEF BudgetTypeOK
    <2>1. a \in live => lineage[a] \subseteq Allocations
        BY DEF BudgetTypeOK
    <2> QED BY <1>5, <2>1 DEF Release, Releases, Answer, Retried, Replies
<1>6. ASSUME NEW t \in Tasks, RevokeTask(t)
      PROVE  Answers \/ (Mutated /\ Revokes(t))
    BY <1>6 DEF RevokeTask, Revokes, Answer, Replies
<1> HIDE DEF Answers
<1> QED
    BY <1>1, <1>2, <1>3, <1>4, <1>5, <1>6
    DEF BudgetNext, CreateRootCall, AllocateCall, ConsumeCall, ReturnCall, ReleaseCall,
        RevokeCall, Writes

-----------------------------------------------------------------------------
(* Typing. *)

LEMMA BudgetTypeOKStep ==
    ASSUME BudgetTypeOK, [BudgetNext]_budgetVars
    PROVE  BudgetTypeOK'
<1> USE BudgetAssumption DEF BudgetTypeOK, AddTo, shape, flags, balances
<1>1. CASE UNCHANGED budgetVars
    BY <1>1 DEF budgetVars
<1>2. CASE Answers
    BY <1>2 DEF Answers
<1>3. ASSUME Mutated
      PROVE  mutations' \in 0..MaxMutations /\ reply' \in Replies
    BY <1>3 DEF Mutated, Replies
<1>4. ASSUME Mutated, NEW t \in Tasks, NEW a \in Allocations, NEW n \in Amounts, Creates(t, a, n)
      PROVE  BudgetTypeOK'
    BY <1>3, <1>4 DEF Creates
<1>5. ASSUME Mutated, NEW a \in Allocations, NEW p \in Allocations, NEW n \in Amounts \cup {0},
             Gives(a, p, n)
      PROVE  BudgetTypeOK'
    <2>1. n \in Nat
        OBVIOUS
    <2>2. /\ parent' \in [Allocations -> live' \cup {NoParent}]
          /\ lineage' \in [Allocations -> SUBSET live']
        BY <1>5 DEF Gives
    <2>3. reserved' \in [Allocations -> Nat] /\ effects' \in [Allocations -> Nat]
        BY <1>5, <2>1 DEF Gives
    <2> QED BY <1>3, <1>5, <2>2, <2>3 DEF Gives
<1>6. ASSUME Mutated, NEW a \in Allocations, NEW n \in Amounts, Consumes(a, n)
      PROVE  BudgetTypeOK'
    <2>1. reserved' \in [Allocations -> Nat] /\ consumed' \in [Allocations -> Nat]
        BY <1>6 DEF Consumes
    <2>2. events' \in [EventTypes -> [Allocations -> Nat]]
        BY <1>6 DEF Consumes, Log, EventTypes
    <2> QED BY <1>3, <1>6, <2>1, <2>2 DEF Consumes
<1>7. ASSUME Mutated, NEW a \in Allocations, NEW n \in Amounts, Returns(a, n)
      PROVE  BudgetTypeOK'
    <2>1. reserved' \in [Allocations -> Nat] /\ returned' \in [Allocations -> Nat]
        BY <1>7 DEF Returns
    <2>2. events' \in [EventTypes -> [Allocations -> Nat]]
        BY <1>7 DEF Returns, Log, EventTypes
    <2> QED BY <1>3, <1>7, <2>1, <2>2 DEF Returns
<1>8. ASSUME Mutated, NEW a \in Allocations, NEW n \in Amounts, Releases(a, n)
      PROVE  BudgetTypeOK'
    <2>1. consumed' \in [Allocations -> Nat]
        BY <1>8 DEF Releases
    <2>2. events' \in [EventTypes -> [Allocations -> Nat]]
        BY <1>8 DEF Releases, Log, EventTypes
    <2> QED BY <1>3, <1>8, <2>1, <2>2 DEF Releases
<1>9. ASSUME Mutated, NEW t \in Tasks, Revokes(t)
      PROVE  BudgetTypeOK'
    BY <1>3, <1>9 DEF Revokes
<1> HIDE DEF BudgetTypeOK
<1> QED
    BY <1>1, <1>2, <1>4, <1>5, <1>6, <1>7, <1>8, <1>9, CallsWrite DEF Writes

(* Every balance of the file is a natural number whatever is called in whatever    *)
(* order: no consumption, return or release takes one below nothing (checkAncestors *)
(* and the underflow checks, src/authority/host/delegation-budget.ts).             *)
THEOREM BudgetTyping == BudgetSpec => []BudgetTypeOK
<1>1. BudgetInit => BudgetTypeOK
    <2> SUFFICES ASSUME BudgetInit PROVE BudgetTypeOK
        OBVIOUS
    <2>1. (CHOOSE t \in Tasks : TRUE) \in Tasks
        BY BudgetAssumption
    <2> QED BY <2>1, BudgetAssumption DEF BudgetInit, BudgetTypeOK, Replies, EventTypes
<1> QED
    BY <1>1, BudgetTypeOKStep, PTL DEF BudgetSpec

-----------------------------------------------------------------------------
(* The shape of the tree. *)

(* An allocation that is not in the file carries nothing. *)
Untouched ==
    \A a \in Allocations \ live :
        /\ lineage[a] = {} /\ reserved[a] = 0 /\ consumed[a] = 0 /\ returned[a] = 0
        /\ \A type \in EventTypes : events[type][a] = 0

(* An allocation belongs to the task of every ancestor. *)
OneTask == \A a \in live : \A p \in lineage[a] : task[p] = task[a]

TreeInv == BudgetTypeOK /\ IsFiniteSet(live) /\ Untouched /\ OneTask

LEMMA TreeStep ==
    ASSUME TreeInv, [BudgetNext]_budgetVars
    PROVE  TreeInv'
<1> BudgetTypeOK /\ BudgetTypeOK'
    BY BudgetTypeOKStep DEF TreeInv
<1> USE DEF shape, flags, balances
<1>1. CASE UNCHANGED budgetVars
    BY <1>1 DEF budgetVars, TreeInv, Untouched, OneTask
<1>2. CASE Answers
    BY <1>2 DEF Answers, TreeInv, Untouched, OneTask
<1>3. CASE Writes
    <2> USE BudgetAssumption DEF BudgetTypeOK, AddTo
    <2>1. ASSUME NEW t \in Tasks, NEW a \in Allocations, NEW n \in Amounts, Creates(t, a, n)
          PROVE  IsFiniteSet(live') /\ Untouched' /\ OneTask'
        <3>1. IsFiniteSet(live')
            BY <2>1, FS_AddElement DEF TreeInv, Creates
        <3>2. Untouched'
            BY <2>1 DEF TreeInv, Untouched, Creates
        <3>3. OneTask'
            BY <2>1 DEF TreeInv, Untouched, OneTask, Creates
        <3> QED BY <3>1, <3>2, <3>3
    <2>2. ASSUME NEW a \in Allocations, NEW p \in Allocations, NEW n \in Amounts \cup {0},
                 Gives(a, p, n)
          PROVE  IsFiniteSet(live') /\ Untouched' /\ OneTask'
        <3>1. IsFiniteSet(live')
            BY <2>2, FS_AddElement DEF TreeInv, Gives
        <3>2. Untouched'
            BY <2>2 DEF TreeInv, Untouched, Gives
        <3>3. OneTask'
            BY <2>2 DEF TreeInv, OneTask, Gives
        <3> QED BY <3>1, <3>2, <3>3
    <2>3. ASSUME NEW a \in Allocations, NEW n \in Amounts,
                 Consumes(a, n) \/ Returns(a, n) \/ Releases(a, n)
          PROVE  IsFiniteSet(live') /\ Untouched' /\ OneTask'
        <3>1. UNCHANGED shape /\ a \in live
            BY <2>3 DEF Consumes, Returns, Releases
        <3>2. \A b \in Allocations \ live : b \notin {a} \cup lineage[a]
            BY <3>1
        <3>3. CASE Consumes(a, n)
            BY <3>1, <3>2, <3>3 DEF TreeInv, Untouched, OneTask, Consumes, Log
        <3>4. CASE Returns(a, n)
            BY <3>1, <3>2, <3>4 DEF TreeInv, Untouched, OneTask, Returns, Log
        <3>5. CASE Releases(a, n)
            BY <3>1, <3>2, <3>5 DEF TreeInv, Untouched, OneTask, Releases, Log
        <3> QED BY <2>3, <3>3, <3>4, <3>5
    <2>4. ASSUME NEW t \in Tasks, Revokes(t)
          PROVE  IsFiniteSet(live') /\ Untouched' /\ OneTask'
        BY <2>4 DEF TreeInv, Untouched, OneTask, Revokes
    <2> HIDE DEF BudgetTypeOK, AddTo, shape, flags, balances
    <2> QED BY <1>3, <2>1, <2>2, <2>3, <2>4 DEF Writes, TreeInv
<1> QED
    BY <1>1, <1>2, <1>3, CallsWrite

LEMMA TreeInductive == BudgetSpec => []TreeInv
<1>1. BudgetInit => Untouched /\ OneTask /\ IsFiniteSet(live)
    BY FS_EmptySet DEF BudgetInit, Untouched, OneTask, EventTypes
<1>2. TreeInv /\ [BudgetNext]_budgetVars => TreeInv'
    BY TreeStep
<1>3. BudgetTypeOK /\ Untouched /\ OneTask /\ IsFiniteSet(live) => TreeInv
    BY DEF TreeInv
<1> QED
    BY <1>1, <1>2, <1>3, BudgetTyping, PTL DEF BudgetSpec

(* Once a task is revoked nothing more is consumed in its tree and nothing is       *)
(* allocated in it, whatever was delegated before and however deep (assertActive,   *)
(* src/authority/host/delegation-budget.ts).                                      *)
THEOREM RevocationFreezes == BudgetSpec => RevokedIsFrozen
<1> DEFINE Frozen == \A t \in revokedTasks :
                        /\ \A a \in live' : task'[a] = t => a \in live
                        /\ \A a \in live : task[a] = t => consumed'[a] <= consumed[a]
<1>1. ASSUME TreeInv, [BudgetNext]_budgetVars PROVE [Frozen]_budgetVars
    <2> USE <1>1 DEF TreeInv
    <2> SUFFICES ASSUME BudgetNext PROVE Frozen
        OBVIOUS
    <2> SUFFICES ASSUME NEW t \in revokedTasks
                 PROVE  /\ \A a \in live' : task'[a] = t => a \in live
                        /\ \A a \in live : task[a] = t => consumed'[a] <= consumed[a]
        OBVIOUS
    <2> USE BudgetAssumption DEF BudgetTypeOK, AddTo, shape, flags, balances
    <2>1. CASE Answers
        BY <2>1 DEF Answers
    <2>2. ASSUME NEW u \in Tasks, NEW a \in Allocations, NEW n \in Amounts, Creates(u, a, n)
          PROVE  live' = live \cup {a} /\ task'[a] # t /\ consumed' = consumed
        BY <2>2 DEF Creates
    <2>3. ASSUME NEW a \in Allocations, NEW p \in Allocations, NEW n \in Amounts \cup {0},
                 Gives(a, p, n)
          PROVE  live' = live \cup {a} /\ task'[a] # t /\ consumed' = consumed
        BY <2>3 DEF Gives, Active
    <2>4. ASSUME NEW a \in Allocations, NEW n \in Amounts, Consumes(a, n)
          PROVE  UNCHANGED shape /\ \A b \in live : task[b] = t => consumed'[b] = consumed[b]
        BY <2>4 DEF Consumes, Active, OneTask
    <2>5. ASSUME NEW a \in Allocations, NEW n \in Amounts, Returns(a, n) \/ Releases(a, n)
          PROVE  UNCHANGED shape /\ \A b \in live : consumed'[b] <= consumed[b]
        BY <2>5 DEF Returns, Releases
    <2>6. ASSUME NEW u \in Tasks, Revokes(u)
          PROVE  UNCHANGED shape /\ consumed' = consumed
        BY <2>6 DEF Revokes
    <2>7. CASE Writes
        <3> HIDE DEF AddTo
        <3> QED BY <2>2, <2>3, <2>4, <2>5, <2>6, <2>7 DEF Writes
    <2> QED BY <2>1, <2>7, CallsWrite DEF TreeInv
<1> QED
    BY <1>1, TreeInductive, PTL DEF BudgetSpec, RevokedIsFrozen

-----------------------------------------------------------------------------
(* The audit. *)

Subtree(b) == {b} \cup Descendants(b)

(* Subtrees are finite, and the log and the outstanding effects are integers. *)
LEMMA AuditTypes ==
    ASSUME TreeInv
    PROVE  /\ \A b \in live : /\ Descendants(b) \subseteq live /\ Subtree(b) \subseteq live
                             /\ IsFiniteSet(Descendants(b)) /\ IsFiniteSet(Subtree(b))
           /\ \A type \in EventTypes : \A b \in Allocations : events[type][b] \in Nat
           /\ \A b \in Allocations : Outstanding[b] \in Int
           /\ \A type \in EventTypes : \A b \in live : Below(type, b) = Sum(events[type], Subtree(b))
           /\ \A b \in live : SumFunctionOnSet(Outstanding, Descendants(b)) = Sum(Outstanding, Descendants(b))
<1>1. \A b \in live : Descendants(b) \subseteq live /\ Subtree(b) \subseteq live
    BY DEF Descendants, Subtree
<1>2. \A b \in live : IsFiniteSet(Descendants(b)) /\ IsFiniteSet(Subtree(b))
    BY <1>1, FS_Subset DEF TreeInv
<1>3. \A type \in EventTypes : \A b \in Allocations : events[type][b] \in Nat
    BY DEF TreeInv, BudgetTypeOK
<1>4. \A b \in Allocations : Outstanding[b] \in Int
    BY <1>3 DEF TreeInv, BudgetTypeOK, Outstanding, EventTypes
<1>5. /\ \A type \in EventTypes : \A b \in live : Below(type, b) = Sum(events[type], Subtree(b))
      /\ \A b \in live : SumFunctionOnSet(Outstanding, Descendants(b)) = Sum(Outstanding, Descendants(b))
    BY DEF Below, Subtree, Sum
<1> QED
    BY <1>1, <1>2, <1>3, <1>4, <1>5

AuditOf(b) ==
    /\ consumed[b] = Sum(events["consumed"], Subtree(b)) - Sum(events["released"], Subtree(b))
    /\ returned[b] = Sum(events["returned"], Subtree(b))
    /\ reserved[b] = Sum(Outstanding, Descendants(b))

LEMMA AuditIsOfEach ==
    ASSUME TreeInv
    PROVE  AuditAgrees <=> \A b \in live : AuditOf(b)
BY AuditTypes DEF AuditAgrees, AuditOf, EventTypes

(* A new leaf brings an empty subtree and is one more descendant of each ancestor. *)
LEMMA AuditOfNewLeaf ==
    ASSUME TreeInv, TreeInv', \A b \in live : AuditOf(b),
           NEW a \in Allocations, a \notin live, live' = live \cup {a},
           NEW n \in Nat, NEW L \in SUBSET live,
           lineage' = [lineage EXCEPT ![a] = L], effects' = [effects EXCEPT ![a] = n],
           reserved' = AddTo(reserved, L, n),
           UNCHANGED <<consumed, returned, events>>
    PROVE  \A b \in live' : AuditOf(b)'
<1> USE DEF TreeInv, BudgetTypeOK
<1>1. \A b \in live : /\ Descendants(b)' = Descendants(b) \cup (IF b \in L THEN {a} ELSE {})
                     /\ Subtree(b)' = Subtree(b) \cup (IF b \in L THEN {a} ELSE {})
    BY DEF Descendants, Subtree
<1>2. Descendants(a)' = {} /\ Subtree(a)' = {a}
    BY DEF Descendants, Subtree
<1>3. /\ \A type \in EventTypes : events[type][a] = 0
      /\ consumed[a] = 0 /\ returned[a] = 0 /\ reserved[a] = 0
    BY DEF Untouched
<1>4. /\ Outstanding'[a] = n
      /\ \A b \in live : Outstanding'[b] = Outstanding[b]
      /\ \A b \in Allocations : Outstanding'[b] \in Int
    <2>1. \A b \in Allocations : Outstanding'[b] \in Int
        BY DEF Outstanding, EventTypes
    <2>2. Outstanding'[a] = n
        BY <1>3 DEF Outstanding, EventTypes
    <2>3. \A b \in live : Outstanding'[b] = Outstanding[b]
        BY DEF Outstanding
    <2> QED BY <2>1, <2>2, <2>3
<1>5. ASSUME NEW b \in live
      PROVE  /\ \A type \in EventTypes : Sum(events[type], Subtree(b)') = Sum(events[type], Subtree(b))
             /\ Sum(Outstanding', Descendants(b)') = Sum(Outstanding, Descendants(b))
                                                      + IF b \in L THEN n ELSE 0
    <2>1. /\ Descendants(b) \subseteq live /\ Subtree(b) \subseteq live
          /\ IsFiniteSet(Descendants(b)) /\ IsFiniteSet(Subtree(b))
          /\ a \notin Descendants(b) /\ a \notin Subtree(b)
        BY AuditTypes
    <2>2. /\ \A type \in EventTypes : \A x \in Subtree(b) \cup {a} : events[type][x] \in Int
          /\ \A x \in Descendants(b) \cup {a} : Outstanding'[x] \in Int /\ Outstanding[x] \in Int
        BY <2>1, <1>4, AuditTypes
    <2>3. Sum(Outstanding', Descendants(b)) = Sum(Outstanding, Descendants(b))
        BY <2>1, <1>4, SumAgrees
    <2>4. /\ \A type \in EventTypes : Sum(events[type], Subtree(b)) \in Int
          /\ Sum(Outstanding, Descendants(b)) \in Int
        BY <2>1, <2>2, SumWithout
    <2>5. CASE b \in L
        <3>1. \A type \in EventTypes :
                 Sum(events[type], Subtree(b) \cup {a}) = events[type][a] + Sum(events[type], Subtree(b))
            BY <2>1, <2>2, SumGrown
        <3>2. Sum(Outstanding', Descendants(b) \cup {a}) = Outstanding'[a] + Sum(Outstanding', Descendants(b))
            BY <2>1, <2>2, SumGrown
        <3>3. Descendants(b)' = Descendants(b) \cup {a} /\ Subtree(b)' = Subtree(b) \cup {a}
            BY <1>1, <2>5
        <3> HIDE DEF TreeInv, BudgetTypeOK
        <3>4. \A type \in EventTypes : Sum(events[type], Subtree(b)') = Sum(events[type], Subtree(b))
            BY <1>3, <2>4, <3>1, <3>3
        <3>5. Sum(Outstanding', Descendants(b)') = n + Sum(Outstanding, Descendants(b))
            BY <1>4, <2>3, <3>2, <3>3
        <3> QED BY <2>4, <2>5, <3>4, <3>5
    <2>6. CASE b \notin L
        <3> HIDE DEF TreeInv, BudgetTypeOK
        <3>1. Descendants(b)' = Descendants(b) /\ Subtree(b)' = Subtree(b)
            BY <1>1, <2>6
        <3>2. Sum(Outstanding', Descendants(b)') = Sum(Outstanding, Descendants(b))
            BY <2>3, <3>1
        <3> QED BY <2>4, <2>6, <3>1, <3>2
    <2> QED BY <2>5, <2>6
<1>6. ASSUME NEW b \in live PROVE AuditOf(b)'
    <2>1. AuditOf(b) /\ reserved'[b] = reserved[b] + IF b \in L THEN n ELSE 0
        BY DEF AddTo
    <2> QED BY <1>5, <2>1 DEF AuditOf, EventTypes
<1>7. AuditOf(a)'
    <2>1. /\ \A type \in EventTypes : Sum(events[type], {a}) = 0
          /\ Sum(Outstanding', {}) = 0
        <3> HIDE DEF TreeInv, BudgetTypeOK
        <3> QED BY <1>3, SumSmall
    <2>2. reserved'[a] = 0 /\ consumed'[a] = 0 /\ returned'[a] = 0
        BY <1>3 DEF AddTo
    <2> QED BY <1>2, <2>1, <2>2 DEF AuditOf, EventTypes
<1> QED
    BY <1>6, <1>7

(* Logging n against an allocation raises the logged sums of its ancestors and its  *)
(* own by n, and the outstanding effects below its ancestors fall by what was        *)
(* consumed or returned.                                                          *)
LEMMA LoggedSums ==
    ASSUME TreeInv, NEW a \in live, NEW n \in Nat, NEW logged \in EventTypes,
           Log(logged, a, n), UNCHANGED shape, NEW b \in live
    PROVE  /\ \A type \in EventTypes :
                 Sum(events'[type], Subtree(b)') =
                     Sum(events[type], Subtree(b))
                     + (IF type = logged /\ b \in {a} \cup lineage[a] THEN n ELSE 0)
           /\ Sum(Outstanding', Descendants(b)') =
                     Sum(Outstanding, Descendants(b))
                     - (IF logged # "released" /\ b \in lineage[a] THEN n ELSE 0)
<1>1. Descendants(b)' = Descendants(b) /\ Subtree(b)' = Subtree(b)
    BY DEF Descendants, Subtree, shape
<1>2. (a \in Subtree(b) <=> b \in {a} \cup lineage[a]) /\ (a \in Descendants(b) <=> b \in lineage[a])
    BY DEF Descendants, Subtree
<1>3. /\ Descendants(b) \subseteq Allocations /\ Subtree(b) \subseteq Allocations
      /\ IsFiniteSet(Descendants(b)) /\ IsFiniteSet(Subtree(b))
    BY AuditTypes DEF TreeInv, BudgetTypeOK
<1>4. \A type \in EventTypes : \A x \in Allocations :
          /\ events[type][x] \in Int
          /\ events'[type][x] = IF type = logged /\ x = a THEN events[type][x] + n ELSE events[type][x]
    BY DEF TreeInv, BudgetTypeOK, Log
<1>5. \A x \in Allocations :
          /\ Outstanding[x] \in Int
          /\ Outstanding'[x] = IF x = a THEN Outstanding[x] + (IF logged = "released" THEN 0 ELSE -n)
                               ELSE Outstanding[x]
    <2>1. \A x \in Allocations : effects[x] \in Nat
        BY DEF TreeInv, BudgetTypeOK
    <2>2. effects' = effects
        BY DEF shape
    <2> QED BY <1>4, <2>1, <2>2 DEF Outstanding, EventTypes
<1>6. ASSUME NEW type \in EventTypes
      PROVE  Sum(events'[type], Subtree(b)) =
                 Sum(events[type], Subtree(b)) + (IF type = logged /\ a \in Subtree(b) THEN n ELSE 0)
    <2> DEFINE f == events[type]
               g == events'[type]
    <2>1. \A x \in Subtree(b) : f[x] \in Int
        BY <1>3, <1>4
    <2>2. CASE type = logged
        <3>1. \A x \in Subtree(b) : g[x] = IF x = a THEN f[x] + n ELSE f[x]
            BY <1>3, <1>4, <2>2
        <3> HIDE DEF f, g
        <3> QED BY <1>3, <2>1, <2>2, <3>1, SumRaised DEF f, g
    <2>3. CASE type # logged
        <3>1. \A x \in Subtree(b) : g[x] = f[x]
            BY <1>3, <1>4, <2>3
        <3>2. Sum(f, Subtree(b)) \in Int
            BY <1>3, <2>1, SumWithout
        <3>3. Sum(g, Subtree(b)) = Sum(f, Subtree(b))
            BY <1>3, <3>1, SumAgrees
        <3> QED BY <2>3, <3>2, <3>3
    <2> QED BY <2>2, <2>3
<1>7. Sum(Outstanding', Descendants(b)) =
          Sum(Outstanding, Descendants(b))
          + (IF a \in Descendants(b) THEN (IF logged = "released" THEN 0 ELSE -n) ELSE 0)
    <2> DEFINE f == Outstanding
               g == Outstanding'
               m == IF logged = "released" THEN 0 ELSE -n
    <2>1. m \in Int /\ \A x \in Descendants(b) : f[x] \in Int /\ g[x] = IF x = a THEN f[x] + m ELSE f[x]
        BY <1>3, <1>5
    <2> HIDE DEF f, g, m
    <2>2. Sum(g, Descendants(b)) = Sum(f, Descendants(b)) + (IF a \in Descendants(b) THEN m ELSE 0)
        BY <1>3, <2>1, SumRaised
    <2> QED BY <2>2 DEF f, g, m
<1>8. Sum(Outstanding, Descendants(b)) \in Int
    BY <1>3, <1>5, SumWithout
<1> QED
    BY <1>1, <1>2, <1>6, <1>7, <1>8

LEMMA AuditStep ==
    ASSUME TreeInv, TreeInv', \A b \in live : AuditOf(b), [BudgetNext]_budgetVars
    PROVE  \A b \in live' : AuditOf(b)'
<1> USE BudgetAssumption
<1>1. ASSUME UNCHANGED <<shape, balances, events>>
      PROVE  \A b \in live' : AuditOf(b)'
    BY <1>1 DEF AuditOf, Subtree, Descendants, Outstanding, shape, balances
<1>2. ASSUME NEW t \in Tasks, NEW a \in Allocations, NEW n \in Amounts, Creates(t, a, n)
      PROVE  \A b \in live' : AuditOf(b)'
    <2>1. a \notin live /\ live' = live \cup {a} /\ n \in Nat
          /\ effects' = [effects EXCEPT ![a] = n]
          /\ UNCHANGED <<consumed, returned, reserved, lineage, events>>
        BY <1>2 DEF Creates, balances
    <2>2. lineage' = [lineage EXCEPT ![a] = {}]
        BY <2>1 DEF TreeInv, BudgetTypeOK, Untouched
    <2>3. reserved' = AddTo(reserved, {}, n)
        BY <2>1 DEF TreeInv, BudgetTypeOK, AddTo
    <2> QED BY <2>1, <2>2, <2>3, AuditOfNewLeaf
<1>3. ASSUME NEW a \in Allocations, NEW p \in Allocations, NEW n \in Amounts \cup {0}, Gives(a, p, n)
      PROVE  \A b \in live' : AuditOf(b)'
    <2> DEFINE L == {p} \cup lineage[p]
    <2>1. a \notin live /\ live' = live \cup {a} /\ n \in Nat
          /\ effects' = [effects EXCEPT ![a] = n] /\ lineage' = [lineage EXCEPT ![a] = L]
          /\ reserved' = AddTo(reserved, L, n)
          /\ UNCHANGED <<consumed, returned, events>>
        BY <1>3 DEF Gives
    <2>2. L \in SUBSET live
        BY <1>3 DEF Gives, TreeInv, BudgetTypeOK
    <2> HIDE DEF L
    <2> QED BY <2>1, <2>2, AuditOfNewLeaf
<1>4. ASSUME NEW a \in Allocations, NEW n \in Amounts,
             Consumes(a, n) \/ Returns(a, n) \/ Releases(a, n)
      PROVE  \A b \in live' : AuditOf(b)'
    <2>1. a \in live /\ n \in Nat /\ UNCHANGED shape
        BY <1>4 DEF Consumes, Returns, Releases
    <2> SUFFICES ASSUME NEW b \in live PROVE AuditOf(b)'
        BY <2>1 DEF shape
    <2>2. /\ AuditOf(b) /\ b \in Allocations
          /\ consumed[b] \in Int /\ returned[b] \in Int /\ reserved[b] \in Int
        BY DEF TreeInv, BudgetTypeOK
    <2>3. /\ Sum(events["consumed"], Subtree(b)) \in Int
          /\ Sum(events["released"], Subtree(b)) \in Int
        <3>1. Subtree(b) \subseteq Allocations /\ IsFiniteSet(Subtree(b))
            BY AuditTypes DEF TreeInv, BudgetTypeOK
        <3>2. \A type \in EventTypes : \A x \in Subtree(b) : events[type][x] \in Int
            BY <3>1, AuditTypes
        <3>3. \A type \in EventTypes : Sum(events[type], Subtree(b)) \in Int
            BY <3>1, <3>2, SumWithout
        <3> QED BY <3>3 DEF EventTypes
    <2>4. CASE Consumes(a, n)
        <3>1. Log("consumed", a, n) /\ UNCHANGED returned
              /\ consumed'[b] = consumed[b] + (IF b \in {a} \cup lineage[a] THEN n ELSE 0)
              /\ reserved'[b] = reserved[b] - (IF b \in lineage[a] THEN n ELSE 0)
            BY <2>1, <2>2, <2>4 DEF Consumes, AddTo
        <3>2. "consumed" \in EventTypes /\ "returned" \in EventTypes /\ "released" \in EventTypes
            BY DEF EventTypes
        <3> QED BY <2>1, <2>2, <2>3, <3>1, <3>2, LoggedSums DEF AuditOf
    <2>5. CASE Returns(a, n)
        <3>1. Log("returned", a, n) /\ UNCHANGED consumed
              /\ returned'[b] = returned[b] + (IF b \in {a} \cup lineage[a] THEN n ELSE 0)
              /\ reserved'[b] = reserved[b] - (IF b \in lineage[a] THEN n ELSE 0)
            BY <2>1, <2>2, <2>5 DEF Returns, AddTo
        <3>2. "consumed" \in EventTypes /\ "returned" \in EventTypes /\ "released" \in EventTypes
            BY DEF EventTypes
        <3> QED BY <2>1, <2>2, <2>3, <3>1, <3>2, LoggedSums DEF AuditOf
    <2>6. CASE Releases(a, n)
        <3>1. Log("released", a, n) /\ UNCHANGED <<reserved, returned>>
              /\ consumed'[b] = consumed[b] - (IF b \in {a} \cup lineage[a] THEN n ELSE 0)
            BY <2>1, <2>2, <2>6 DEF Releases, AddTo
        <3>2. "consumed" \in EventTypes /\ "returned" \in EventTypes /\ "released" \in EventTypes
            BY DEF EventTypes
        <3> QED BY <2>1, <2>2, <2>3, <3>1, <3>2, LoggedSums DEF AuditOf
    <2> QED BY <1>4, <2>4, <2>5, <2>6
<1>5. CASE UNCHANGED budgetVars
    BY <1>1, <1>5 DEF budgetVars
<1>6. CASE Answers
    BY <1>1, <1>6 DEF Answers
<1>7. CASE Writes
    <2>1. ASSUME NEW t \in Tasks, Revokes(t) PROVE UNCHANGED <<shape, balances, events>>
        BY <2>1 DEF Revokes
    <2> QED BY <1>1, <1>2, <1>3, <1>4, <1>7, <2>1 DEF Writes
<1> QED
    BY <1>5, <1>6, <1>7, CallsWrite DEF TreeInv

Audited == \A b \in live : AuditOf(b)

LEMMA AuditInductive == BudgetSpec => []Audited
<1>1. BudgetInit => Audited
    BY DEF BudgetInit, Audited
<1>2. ASSUME TreeInv, TreeInv', Audited, [BudgetNext]_budgetVars PROVE Audited'
    BY <1>2, AuditStep DEF Audited
<1> QED
    BY <1>1, <1>2, TreeInductive, PTL DEF BudgetSpec

(* However deep the tree and in whatever order effects were given, consumed,        *)
(* returned and released, the balances of every allocation are the sums of the       *)
(* events logged below it (checkAncestors and appendEvent,                         *)
(* src/authority/host/delegation-budget.ts).                                      *)
THEOREM AuditHolds == BudgetSpec => []AuditAgrees
<1>1. TreeInv /\ Audited => AuditAgrees
    BY AuditIsOfEach DEF Audited
<1> QED
    BY <1>1, TreeInductive, AuditInductive, PTL

-----------------------------------------------------------------------------
(* What the checks of one parent's capacity are worth. *)

(* Ancestors of an ancestor are ancestors, and every ancestor but the parent has a  *)
(* child on the way down.                                                        *)
Nested == \A d \in live : \A a \in lineage[d] : lineage[a] \subseteq lineage[d] /\ ~IsRoot(d)
Linked == \A d \in live : \A a \in lineage[d] :
              parent[d] = a \/ \E c \in lineage[d] : parent[c] = a
NestInv == Nested /\ Linked

LEMMA NestInductive == BudgetSpec => []NestInv
<1>1. BudgetInit => NestInv
    BY DEF BudgetInit, NestInv, Nested, Linked
<1>2. ASSUME TreeInv, NestInv, [BudgetNext]_budgetVars PROVE NestInv'
    <2> USE <1>2, BudgetAssumption DEF TreeInv, BudgetTypeOK
    <2>1. ASSUME UNCHANGED shape PROVE NestInv'
        BY <2>1 DEF NestInv, Nested, Linked, IsRoot, shape
    <2>2. ASSUME NEW t \in Tasks, NEW a \in Allocations, NEW n \in Amounts, Creates(t, a, n)
          PROVE  NestInv'
        <3>1. lineage[a] = {} /\ live' = live \cup {a} /\ lineage' = lineage /\ parent' = parent
            BY <2>2 DEF Creates, Untouched
        <3> QED BY <3>1 DEF NestInv, Nested, Linked, IsRoot
    <2>3. ASSUME NEW a \in Allocations, NEW p \in Allocations, NEW n \in Amounts \cup {0}, Gives(a, p, n)
          PROVE  NestInv'
        <3>1. /\ a \notin live /\ p \in live /\ live' = live \cup {a}
              /\ lineage'[a] = {p} \cup lineage[p] /\ parent'[a] = p
              /\ \A d \in live : lineage'[d] = lineage[d] /\ parent'[d] = parent[d]
            BY <2>3 DEF Gives
        <3>2. \A d \in live : lineage[d] \subseteq live
            OBVIOUS
        <3>3. Nested'
            BY <3>1, <3>2 DEF NestInv, Nested, IsRoot
        <3>4. Linked'
            BY <3>1, <3>2 DEF NestInv, Linked
        <3> QED BY <3>3, <3>4 DEF NestInv
    <2>4. ASSUME NEW a \in Allocations, NEW n \in Amounts,
                 Consumes(a, n) \/ Returns(a, n) \/ Releases(a, n)
          PROVE  UNCHANGED shape
        BY <2>4 DEF Consumes, Returns, Releases
    <2>5. ASSUME NEW t \in Tasks, Revokes(t) PROVE UNCHANGED shape
        BY <2>5 DEF Revokes
    <2>6. CASE UNCHANGED budgetVars
        BY <2>1, <2>6 DEF budgetVars
    <2>7. CASE Answers
        BY <2>1, <2>7 DEF Answers
    <2>8. CASE Writes
        BY <2>1, <2>2, <2>3, <2>4, <2>5, <2>8 DEF Writes
    <2> HIDE DEF BudgetTypeOK
    <2> QED BY <2>6, <2>7, <2>8, CallsWrite
<1> QED
    BY <1>1, <1>2, TreeInductive, PTL DEF BudgetSpec

(* An allocation whose descendants are all its children never has more consumed and  *)
(* reserved than it holds: comparing a call with the one allocation's own capacity    *)
(* is enough there, and only there (allocate and consume,                          *)
(* src/authority/host/delegation-budget.ts).                                      *)
THEOREM ChildrenFit == BudgetSpec => []WithinEffects
<1>1. BudgetInit => WithinEffects
    BY DEF BudgetInit, WithinEffects
<1> DEFINE Flat(b) == \A c \in Children(b) : Children(c) = {}
           Fit(b) == consumed[b] + reserved[b] <= effects[b]
<1>2. ASSUME TreeInv, TreeInv', NestInv, WithinEffects, [BudgetNext]_budgetVars PROVE WithinEffects'
    <2> USE <1>2, BudgetAssumption
    <2> SUFFICES ASSUME NEW b \in live', Flat(b)' PROVE Fit(b)'
        BY DEF WithinEffects
    <2>1. \A c \in live : /\ effects[c] \in Nat /\ consumed[c] \in Nat /\ reserved[c] \in Nat
                         /\ returned[c] \in Nat /\ lineage[c] \subseteq live
        BY DEF TreeInv, BudgetTypeOK
    <2>2. ASSUME UNCHANGED <<shape, balances>> PROVE Fit(b)'
        BY <2>2 DEF WithinEffects, Children, shape, balances
    <2>3. ASSUME NEW a \in live, NEW n \in Amounts,
                 Consumes(a, n) \/ Returns(a, n) \/ Releases(a, n)
          PROVE  Fit(b)'
        <3>1. UNCHANGED shape
            BY <2>3 DEF Consumes, Returns, Releases
        <3>2. b \in live /\ Fit(b) /\ effects'[b] = effects[b] /\ n \in Nat /\ b \in Allocations
            BY <3>1 DEF WithinEffects, Children, shape, TreeInv, BudgetTypeOK
        <3>3. CASE Consumes(a, n)
            BY <2>1, <3>2, <3>3 DEF Consumes, AddTo, Consumable, Capacity
        <3>4. CASE Returns(a, n)
            BY <2>1, <3>2, <3>4 DEF Returns, AddTo
        <3>5. CASE Releases(a, n)
            BY <2>1, <3>2, <3>5 DEF Releases, AddTo
        <3> QED BY <2>3, <3>3, <3>4, <3>5
    <2>4. ASSUME NEW t \in Tasks, NEW a \in Allocations, NEW n \in Amounts, Creates(t, a, n)
          PROVE  Fit(b)'
        <3>1. /\ a \notin live /\ live' = live \cup {a} /\ parent' = parent /\ lineage' = lineage
              /\ effects'[a] = n /\ \A c \in live : effects'[c] = effects[c]
              /\ consumed' = consumed /\ reserved' = reserved
            BY <2>4 DEF Creates, balances, TreeInv, BudgetTypeOK
        <3>2. CASE b = a
            BY <3>1, <3>2 DEF TreeInv, Untouched
        <3>3. CASE b # a
            <4>1. Flat(b) /\ b \in live
                BY <3>1, <3>3 DEF Children
            <4> QED BY <3>1, <4>1 DEF WithinEffects
        <3> QED BY <3>2, <3>3
    <2>5. ASSUME NEW a \in Allocations, NEW p \in Allocations, NEW n \in Amounts \cup {0}, Gives(a, p, n)
          PROVE  Fit(b)'
        <3>1. /\ a \notin live /\ p \in live /\ live' = live \cup {a}
              /\ parent'[a] = p /\ \A c \in live : parent'[c] = parent[c]
              /\ effects'[a] = n /\ \A c \in live : effects'[c] = effects[c]
              /\ consumed' = consumed /\ n \in Nat /\ n <= Capacity(p)
              /\ reserved' = AddTo(reserved, {p} \cup lineage[p], n)
            BY <2>5 DEF Gives, TreeInv, BudgetTypeOK
        <3>2. CASE b = a
            BY <2>1, <3>1, <3>2 DEF TreeInv, Untouched, AddTo
        <3>3. CASE b # a
            <4>1. b \in live /\ Flat(b) /\ b \in Allocations
                BY <3>1, <3>3 DEF Children, TreeInv, BudgetTypeOK
            <4>2. b \notin lineage[p]
                <5>1. SUFFICES ASSUME b \in lineage[p] PROVE FALSE
                    OBVIOUS
                <5>2. CASE parent[p] = b
                    <6>1. p \in Children(b)' /\ a \in Children(p)'
                        BY <3>1, <5>2 DEF Children
                    <6> QED BY <6>1
                <5>3. CASE \E c \in lineage[p] : parent[c] = b
                    <6>1. PICK c \in lineage[p] : parent[c] = b
                        BY <5>3
                    <6>2. \E d \in live : parent[d] = c
                        BY <2>1, <3>1, <6>1 DEF NestInv, Linked
                    <6>3. c \in Children(b) /\ Children(c) # {}
                        BY <2>1, <3>1, <6>1, <6>2 DEF Children
                    <6> QED BY <4>1, <6>3
                <5> QED BY <3>1, <5>1, <5>2, <5>3 DEF NestInv, Linked
            <4>3. Fit(b)
                BY <4>1 DEF WithinEffects
            <4> QED BY <2>1, <3>1, <4>1, <4>2, <4>3 DEF AddTo, Capacity
        <3> QED BY <3>2, <3>3
    <2>6. CASE UNCHANGED budgetVars
        BY <2>2, <2>6 DEF budgetVars
    <2>7. CASE Answers
        BY <2>2, <2>7 DEF Answers
    <2>8. CASE Writes
        <3>1. ASSUME NEW t \in Tasks, Revokes(t) PROVE UNCHANGED <<shape, balances>>
            BY <3>1 DEF Revokes
        <3>2. \A a, n : Consumes(a, n) \/ Returns(a, n) \/ Releases(a, n) => a \in live
            BY DEF Consumes, Returns, Releases
        <3> HIDE DEF Fit
        <3> QED BY <2>2, <2>3, <2>4, <2>5, <2>8, <3>1, <3>2 DEF Writes
    <2> QED BY <2>6, <2>7, <2>8, CallsWrite DEF TreeInv
<1> QED
    BY <1>1, <1>2, TreeInductive, NestInductive, PTL DEF BudgetSpec

(* Until something is released, an allocation that is no root has not consumed and   *)
(* returned more than it was given.                                              *)
Unreleased  == \A a \in Allocations : events["released"][a] = 0
Unspent     == \A d \in live : ~IsRoot(d) => Outstanding[d] >= 0
SpentWithin == Unreleased => Unspent

(* What the audit says of the balances as long as nothing was released. *)
LEMMA AuditUnreleased ==
    ASSUME TreeInv, Audited, Unreleased, NEW b \in live
    PROVE  /\ consumed[b] = Sum(events["consumed"], Subtree(b))
           /\ events["consumed"][b] <= consumed[b] /\ events["returned"][b] <= returned[b]
<1>1. Subtree(b) \subseteq Allocations /\ IsFiniteSet(Subtree(b)) /\ b \in Subtree(b)
    BY AuditTypes DEF TreeInv, BudgetTypeOK, Subtree
<1>2. \A type \in EventTypes : \A x \in Subtree(b) : events[type][x] \in Nat
    BY <1>1, AuditTypes
<1>3. \A type \in EventTypes : /\ Sum(events[type], Subtree(b)) \in Int
                              /\ events[type][b] <= Sum(events[type], Subtree(b))
    <2> TAKE type \in EventTypes
    <2>1. Sum(events[type], {b}) <= Sum(events[type], Subtree(b))
        BY <1>1, <1>2, SumGrows
    <2>2. Sum(events[type], {b}) = events[type][b]
        BY <1>1, <1>2, SumSmall
    <2>3. Sum(events[type], Subtree(b)) \in Int
        BY <1>1, <1>2, SumWithout
    <2> QED BY <2>1, <2>2, <2>3
<1>4. Sum(events["released"], Subtree(b)) = 0
    BY <1>1, SumOfZeroes DEF Unreleased
<1> QED
    BY <1>3, <1>4 DEF Audited, AuditOf, EventTypes

LEMMA SpentWithinInductive == BudgetSpec => []SpentWithin
<1>1. BudgetInit => SpentWithin
    BY DEF BudgetInit, SpentWithin, Unspent
<1>2. ASSUME TreeInv, Audited, SpentWithin, [BudgetNext]_budgetVars PROVE SpentWithin'
    <2> USE <1>2, BudgetAssumption
    <2> SUFFICES ASSUME Unreleased', NEW d \in live', ~IsRoot(d)' PROVE Outstanding'[d] >= 0
        BY DEF SpentWithin, Unspent
    <2>1. /\ live \subseteq Allocations
          /\ \A c \in Allocations :
               /\ effects[c] \in Nat /\ consumed[c] \in Nat /\ reserved[c] \in Nat
               /\ returned[c] \in Nat /\ lineage[c] \subseteq live
               /\ \A type \in EventTypes : events[type][c] \in Nat
          /\ \A c \in Allocations : Outstanding[c] \in Int
        BY AuditTypes DEF TreeInv, BudgetTypeOK
    <2>2. ASSUME UNCHANGED <<shape, balances, events>> PROVE Outstanding'[d] >= 0
        BY <2>2 DEF SpentWithin, Unspent, Unreleased, IsRoot, Outstanding, shape
    <2>3. ASSUME NEW t \in Tasks, NEW a \in Allocations, NEW n \in Amounts, Creates(t, a, n)
          PROVE  Outstanding'[d] >= 0
        <3>1. /\ live' = live \cup {a} /\ parent' = parent /\ events' = events
              /\ effects' = [effects EXCEPT ![a] = n] /\ n \in Nat
              /\ \A type \in EventTypes : events[type][a] = 0
            BY <2>3 DEF Creates, TreeInv, BudgetTypeOK, Untouched
        <3>2. Outstanding'[d] = IF d = a THEN n ELSE Outstanding[d]
            BY <2>1, <3>1 DEF Outstanding, EventTypes, TreeInv, BudgetTypeOK
        <3>3. d # a => d \in live /\ ~IsRoot(d) /\ Unreleased
            BY <3>1 DEF IsRoot, Unreleased
        <3> QED BY <3>1, <3>2, <3>3 DEF SpentWithin, Unspent
    <2>4. ASSUME NEW a \in Allocations, NEW p \in Allocations, NEW n \in Amounts \cup {0}, Gives(a, p, n)
          PROVE  Outstanding'[d] >= 0
        <3>1. /\ live' = live \cup {a} /\ events' = events
              /\ \A c \in live : parent'[c] = parent[c]
              /\ effects' = [effects EXCEPT ![a] = n] /\ n \in Nat
              /\ \A type \in EventTypes : events[type][a] = 0
            BY <2>4 DEF Gives, TreeInv, BudgetTypeOK, Untouched
        <3>2. Outstanding'[d] = IF d = a THEN n ELSE Outstanding[d]
            BY <2>1, <3>1 DEF Outstanding, EventTypes, TreeInv, BudgetTypeOK
        <3>3. d # a => d \in live /\ ~IsRoot(d) /\ Unreleased
            BY <3>1 DEF IsRoot, Unreleased
        <3> QED BY <3>1, <3>2, <3>3 DEF SpentWithin, Unspent
    <2>5. ASSUME NEW a \in live, NEW n \in Amounts, NEW logged \in EventTypes, Log(logged, a, n),
                 UNCHANGED shape, logged # "released" => n <= Consumable(a)
          PROVE  Outstanding'[d] >= 0
        <3>1. d \in live /\ ~IsRoot(d) /\ effects' = effects /\ n \in Nat
            BY <2>5 DEF IsRoot, shape
        <3>2. \A type \in EventTypes : \A c \in Allocations :
                events'[type][c] = IF type = logged /\ c = a THEN events[type][c] + n ELSE events[type][c]
            BY <2>1, <2>5 DEF Log, TreeInv, BudgetTypeOK
        <3>3. Unreleased
            BY <2>1, <3>1, <3>2 DEF Unreleased, EventTypes
        <3>4. Outstanding[d] >= 0
            BY <3>1, <3>3 DEF SpentWithin, Unspent
        <3>5. d # a \/ logged = "released" => Outstanding'[d] = Outstanding[d]
            BY <2>1, <3>1, <3>2 DEF Outstanding, EventTypes
        <3>6. d = a /\ logged # "released" =>
                Outstanding'[d] = effects[d] - events["consumed"][d] - events["returned"][d] - n
            BY <2>1, <3>1, <3>2 DEF Outstanding, EventTypes
        <3>7. d = a /\ logged # "released" =>
                n <= effects[d] - consumed[d] - reserved[d] - returned[d]
            BY <2>5, <3>1 DEF Consumable, Capacity
        <3> QED BY <2>1, <3>1, <3>3, <3>4, <3>5, <3>6, <3>7, AuditUnreleased DEF EventTypes
    <2>6. ASSUME NEW a \in Allocations, NEW n \in Amounts,
                 Consumes(a, n) \/ Returns(a, n) \/ Releases(a, n)
          PROVE  Outstanding'[d] >= 0
        <3>1. a \in live /\ UNCHANGED shape
            BY <2>6 DEF Consumes, Returns, Releases
        <3>2. CASE Consumes(a, n)
            BY <2>5, <3>1, <3>2 DEF Consumes, EventTypes
        <3>3. CASE Returns(a, n)
            BY <2>5, <3>1, <3>3 DEF Returns, EventTypes
        <3>4. CASE Releases(a, n)
            BY <2>5, <3>1, <3>4 DEF Releases, EventTypes
        <3> QED BY <2>6, <3>2, <3>3, <3>4
    <2>7. CASE UNCHANGED budgetVars
        BY <2>2, <2>7 DEF budgetVars
    <2>8. CASE Answers
        BY <2>2, <2>8 DEF Answers
    <2>9. CASE Writes
        <3>1. ASSUME NEW t \in Tasks, Revokes(t) PROVE UNCHANGED <<shape, balances, events>>
            BY <3>1 DEF Revokes
        <3> QED BY <2>2, <2>3, <2>4, <2>6, <2>9, <3>1 DEF Writes
    <2> QED BY <2>7, <2>8, <2>9, CallsWrite DEF TreeInv
<1> QED
    BY <1>1, <1>2, TreeInductive, AuditInductive, PTL DEF BudgetSpec

(* Which calls answer an underflow. *)
LEMMA UnderflowStep ==
    ASSUME TreeInv, BudgetNext, reply' = "underflow"
    PROVE  /\ events' = events
           /\ \E a \in live, n \in Amounts :
                  \/ n <= Consumable(a) /\ \E p \in lineage[a] : reserved[p] < n
                  \/ n <= consumed[a] /\ \E p \in lineage[a] : consumed[p] < n
<1> USE BudgetAssumption DEF Answer, Mutated
<1>1. \A a \in live : Consumable(a) \in Int /\ consumed[a] \in Int
    BY DEF TreeInv, BudgetTypeOK, Consumable, Capacity
<1>2. ASSUME CreateRootCall \/ AllocateCall \/ RevokeCall PROVE FALSE
    BY <1>2 DEF CreateRootCall, AllocateCall, RevokeCall, CreateRoot, Allocate, RevokeTask
<1>3. CASE ConsumeCall
    <2>1. PICK r \in Reservations \cup {NoReservation}, a \in Allocations, n \in Amounts : Consume(r, a, n)
        BY <1>3 DEF ConsumeCall
    <2>2. events' = events /\ a \in live
        BY <2>1 DEF Consume, Retried
    <2> QED BY <1>1, <2>1, <2>2 DEF Consume, Retried, Underflows
<1>4. CASE ReturnCall
    <2>1. PICK r \in Reservations \cup {NoReservation}, a \in Allocations, n \in Amounts : Return(r, a, n)
        BY <1>4 DEF ReturnCall
    <2>2. events' = events /\ a \in live
        BY <2>1 DEF Return, Retried
    <2> QED BY <1>1, <2>1, <2>2 DEF Return, Retried, Underflows
<1>5. CASE ReleaseCall
    <2>1. PICK r \in Reservations, a \in Allocations, n \in Amounts : Release(r, a, n)
        BY <1>5 DEF ReleaseCall
    <2>2. events' = events /\ a \in live
        BY <2>1 DEF Release, Retried
    <2> QED BY <1>1, <2>1, <2>2 DEF Release, Retried
<1> QED
    BY <1>2, <1>3, <1>4, <1>5 DEF BudgetNext

(* "budget reservation underflow" is never the ledger's own bookkeeping error: until  *)
(* a consumption is released, an allocation that reports effects left can use them     *)
(* (consume and returnUnused, src/authority/host/delegation-budget.ts).               *)
THEOREM UnderflowIsAfterRelease == BudgetSpec => []UnderflowOnlyAfterRelease
<1>1. BudgetInit => UnderflowOnlyAfterRelease
    BY DEF BudgetInit, UnderflowOnlyAfterRelease
<1>2. ASSUME TreeInv, TreeInv', NestInv, Audited, SpentWithin, UnderflowOnlyAfterRelease,
             [BudgetNext]_budgetVars
      PROVE  UnderflowOnlyAfterRelease'
    <2> USE <1>2, BudgetAssumption
    <2>1. CASE UNCHANGED budgetVars
        BY <2>1 DEF budgetVars, UnderflowOnlyAfterRelease
    <2>2. SUFFICES ASSUME BudgetNext, reply' = "underflow", Unreleased PROVE FALSE
        <3>1. \A a \in Allocations : events["released"][a] \in Nat
            BY DEF TreeInv, BudgetTypeOK, EventTypes
        <3> QED BY <2>1, <2>2, <3>1, UnderflowStep DEF UnderflowOnlyAfterRelease, Unreleased
    <2>3. PICK a \in live, n \in Amounts :
                  \/ n <= Consumable(a) /\ \E p \in lineage[a] : reserved[p] < n
                  \/ n <= consumed[a] /\ \E p \in lineage[a] : consumed[p] < n
        BY <2>2, UnderflowStep
    <2>4. \A c \in live : /\ c \in Allocations /\ effects[c] \in Nat /\ consumed[c] \in Nat
                         /\ reserved[c] \in Nat /\ returned[c] \in Nat /\ lineage[c] \subseteq live
                         /\ \A type \in EventTypes : events[type][c] \in Nat
        BY DEF TreeInv, BudgetTypeOK
    <2>5. ASSUME n <= Consumable(a), NEW p \in lineage[a] PROVE n <= reserved[p]
        <3>1. p \in live /\ a \in Descendants(p) /\ ~IsRoot(a)
            BY <2>4 DEF Descendants, NestInv, Nested
        <3>2. n <= effects[a] - consumed[a] - reserved[a] - returned[a]
            BY <2>5, <3>1 DEF Consumable, Capacity
        <3>3. n <= Outstanding[a]
            <4>1. events["consumed"][a] <= consumed[a] /\ events["returned"][a] <= returned[a]
                BY <2>2, AuditUnreleased
            <4>2. Outstanding[a] = effects[a] - events["consumed"][a] - events["returned"][a]
                BY <2>4 DEF Outstanding
            <4>3. /\ events["consumed"][a] \in Nat /\ events["returned"][a] \in Nat
                  /\ effects[a] \in Nat /\ consumed[a] \in Nat /\ reserved[a] \in Nat
                  /\ returned[a] \in Nat /\ n \in Nat
                BY <2>4 DEF EventTypes
            <4> QED BY <3>2, <4>1, <4>2, <4>3
        <3>4. IsFiniteSet(Descendants(p)) /\ \A x \in Descendants(p) : Outstanding[x] \in Nat
            <4>1. Descendants(p) \subseteq live /\ IsFiniteSet(Descendants(p))
                BY <3>1, AuditTypes
            <4>2. \A x \in Descendants(p) : Outstanding[x] >= 0 /\ Outstanding[x] \in Int
                <5>1. \A x \in Descendants(p) : x \in live /\ ~IsRoot(x)
                    BY DEF Descendants, NestInv, Nested
                <5> QED BY <2>2, <2>4, <5>1, AuditTypes DEF SpentWithin, Unspent
            <4> QED BY <4>1, <4>2
        <3>5. Sum(Outstanding, {a}) <= Sum(Outstanding, Descendants(p))
            BY <3>1, <3>4, SumGrows
        <3>6. Sum(Outstanding, {a}) = Outstanding[a] /\ Outstanding[a] \in Nat
            <4>1. Outstanding[a] \in Nat
                BY <3>1, <3>4
            <4> QED BY <4>1, SumSmall
        <3>7. reserved[p] = Sum(Outstanding, Descendants(p))
            BY <3>1 DEF Audited, AuditOf
        <3> QED BY <2>4, <3>1, <3>3, <3>5, <3>6, <3>7
    <2>6. ASSUME n <= consumed[a], NEW p \in lineage[a] PROVE n <= consumed[p]
        <3>1. p \in live /\ Subtree(a) \subseteq Subtree(p)
            BY <2>4 DEF Subtree, Descendants, NestInv, Nested
        <3>2. IsFiniteSet(Subtree(p)) /\ \A x \in Subtree(p) : events["consumed"][x] \in Nat
            BY <2>4, <3>1, AuditTypes DEF EventTypes
        <3>3. Sum(events["consumed"], Subtree(a)) <= Sum(events["consumed"], Subtree(p))
            BY <3>1, <3>2, SumGrows
        <3>4. /\ consumed[a] = Sum(events["consumed"], Subtree(a))
              /\ consumed[p] = Sum(events["consumed"], Subtree(p))
            BY <2>2, <3>1, AuditUnreleased
        <3> QED BY <2>4, <2>6, <3>1, <3>3, <3>4
    <2>7. n \in Nat /\ \A p \in lineage[a] : reserved[p] \in Nat /\ consumed[p] \in Nat
        BY <2>4
    <2> QED BY <2>3, <2>5, <2>6, <2>7
<1> QED
    BY <1>1, <1>2, TreeInductive, NestInductive, AuditInductive, SpentWithinInductive, PTL DEF BudgetSpec

=============================================================================

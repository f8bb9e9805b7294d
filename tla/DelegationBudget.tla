---------------------------- MODULE DelegationBudget ----------------------------
(***************************************************************************)
(* The delegation budget tree: src/authority/host/delegation-budget.ts.     *)
(*                                                                         *)
(* A task's root allocation holds a number of effects; children take theirs *)
(* out of their parent's.  Every mutation reads the whole file, changes it  *)
(* in memory and renames a new file over it, under one lock: it is a single *)
(* step here, and an error it throws leaves the file as it was.             *)
(***************************************************************************)
EXTENDS Integers, FiniteSets, FiniteSetsExt

CONSTANTS
    Allocations,    \* allocation ids
    Tasks,          \* task ids
    Reservations,   \* reservation ids that key the once-only operations
    Amounts,        \* the effects a call may name
    FanOuts,        \* the maxFanOut a parent's grant may carry
    MaxMutations,   \* bound: mutations that change the file
    NoParent,       \* a root allocation has no parent
    NoReservation   \* an unkeyed consume or return

ASSUME BudgetAssumption ==
    /\ NoParent \notin Allocations /\ NoReservation \notin Reservations /\ Tasks # {}
    /\ Amounts \subseteq Nat \ {0} /\ FanOuts \subseteq Nat /\ MaxMutations \in Nat

VARIABLES
    tasks,        \* tasks that have a root allocation
    revokedTasks, \* tasks whose flag says revoked
    live,         \* allocations in the file
    task,         \* the task of each of them
    parent,       \* its parent allocation
    lineage,      \* what walking parentAllocationId upwards visits
    effects, reserved, consumed, returned,
    revoked,      \* allocations whose flag says revoked
    operations,   \* keyed operations already done
    events,       \* the event log, folded: effects logged per type and allocation
    mutations,    \* mutations so far
    reply         \* what the last call answered

balances == <<reserved, consumed, returned>>
shape    == <<tasks, live, task, parent, lineage, effects>>
flags    == <<revokedTasks, revoked>>
budgetVars     == <<shape, flags, balances, operations, events, mutations, reply>>

EventTypes == {"consumed", "returned", "released"}
Replies == {"none", "ok", "prior", "identity-conflict", "not-found", "revoked", "fan-out",
            "exceeds", "has-root", "underflow"}

-----------------------------------------------------------------------------
(* How much of an allocation is left. *)

IsRoot(a)     == parent[a] = NoParent
Capacity(a)   == effects[a] - consumed[a] - reserved[a]
Consumable(a) == IF IsRoot(a) THEN Capacity(a) ELSE Capacity(a) - returned[a]
Children(a)   == {c \in live : parent[c] = a}
ActiveBelowRoot(a) == ~IsRoot(a) \/ a \notin revoked  \* mutant: only the root is stopped
Active(a)     == a \notin revoked /\ task[a] \notin revokedTasks

(* Adding n to a balance of every allocation in a set. *)
AddTo(balance, S, n) == [a \in Allocations |-> IF a \in S THEN balance[a] + n ELSE balance[a]]
Log(type, a, n)      == events' = [events EXCEPT ![type][a] = @ + n]

BudgetInit ==
    /\ tasks = {} /\ revokedTasks = {} /\ live = {} /\ revoked = {}
    /\ task = [a \in Allocations |-> CHOOSE t \in Tasks : TRUE]
    /\ parent = [a \in Allocations |-> NoParent]
    /\ lineage = [a \in Allocations |-> {}]
    /\ effects = [a \in Allocations |-> 0]
    /\ reserved = [a \in Allocations |-> 0] /\ consumed = [a \in Allocations |-> 0]
    /\ returned = [a \in Allocations |-> 0]
    /\ operations = {} /\ events = [type \in EventTypes |-> [a \in Allocations |-> 0]]
    /\ mutations = 0 /\ reply = "none"

(* A call that throws, or that finds its work done, changes nothing.  A second  *)
(* identical answer would be a stutter, so none is recorded.                    *)
Answer(r) ==
    /\ reply' = r
    /\ UNCHANGED <<shape, flags, balances, operations, events, mutations>>
Mutated == mutations < MaxMutations /\ mutations' = mutations + 1 /\ reply' = "ok"

-----------------------------------------------------------------------------
(* createRoot and allocate. *)

RootConflict(t, a, n) == ~IsRoot(a) \/ task[a] # t \/ effects[a] # n

CreateRoot(t, a, n) ==
    IF a \in live THEN Answer(IF RootConflict(t, a, n) THEN "identity-conflict" ELSE "prior")
    ELSE IF t \in tasks THEN Answer("has-root")
    ELSE /\ Mutated
         /\ tasks' = tasks \cup {t} /\ live' = live \cup {a}
         /\ task' = [task EXCEPT ![a] = t]
         /\ effects' = [effects EXCEPT ![a] = n]
         /\ UNCHANGED <<parent, lineage, flags, balances, operations, events>>

FitsEffects(n, p) == n <= effects[p] - reserved[p]  \* mutant: p's own consumption is ignored
Fits(n, p) == n <= Capacity(p)

ReserversParentOnly(p) == {p}  \* mutant: only the parent reserves what a child is given
Reservers(p) == {p} \cup lineage[p]

(* A child may hold no effects at all.  Its effects are reserved in every        *)
(* ancestor, though only the parent's own capacity was compared.                 *)
Allocate(a, p, n, fanOut) ==
    IF p \notin live THEN Answer("not-found")
    ELSE IF a \in live THEN
        Answer(IF ~Active(a) THEN "revoked"
               ELSE IF parent[a] # p \/ effects[a] # n THEN "identity-conflict" ELSE "prior")
    ELSE IF ~Active(p) THEN Answer("revoked")
    ELSE IF Cardinality(Children(p) \ revoked) >= fanOut THEN Answer("fan-out")
    ELSE IF ~Fits(n, p) THEN Answer("exceeds")
    ELSE /\ Mutated
         /\ live' = live \cup {a}
         /\ task' = [task EXCEPT ![a] = task[p]]
         /\ parent' = [parent EXCEPT ![a] = p]
         /\ lineage' = [lineage EXCEPT ![a] = {p} \cup lineage[p]]
         /\ effects' = [effects EXCEPT ![a] = n]
         /\ reserved' = AddTo(reserved, Reservers(p), n)
         /\ UNCHANGED <<tasks, flags, consumed, returned, operations, events>>

-----------------------------------------------------------------------------
(* Keyed and unkeyed consumption, return and release. *)

Operation(kind, r, a, n) == [kind |-> kind, reservation |-> r, allocation |-> a, effects |-> n]
Prior(kind, r) == {o \in operations : o.kind = kind /\ o.reservation = r}
Record(kind, r, a, n) ==
    operations' = IF r = NoReservation THEN operations
                  ELSE operations \cup {Operation(kind, r, a, n)}

(* A retried keyed operation answers as before, unless it names other work. *)
Retried(kind, r, a, n) ==
    Answer(IF Operation(kind, r, a, n) \in operations THEN "prior" ELSE "identity-conflict")

UnderflowsIgnored(a, n) == FALSE  \* mutant: the underflow is not looked for
Underflows(a, n) == \E p \in lineage[a] : reserved[p] < n

KeepReserved(a, n) == UNCHANGED reserved  \* mutant: the ancestors keep the effects reserved
Unreserve(a, n) == reserved' = AddTo(reserved, lineage[a], -n)

Consume(r, a, n) ==
    IF Prior("consume", r) # {} THEN Retried("consume", r, a, n)
    ELSE IF a \notin live THEN Answer("not-found")
    ELSE IF ~Active(a) THEN Answer("revoked")
    ELSE IF n > Consumable(a) THEN Answer("exceeds")
    ELSE IF Underflows(a, n) THEN Answer("underflow")
    ELSE /\ Mutated
         /\ consumed' = AddTo(consumed, {a} \cup lineage[a], n)
         /\ Unreserve(a, n)
         /\ Record("consume", r, a, n) /\ Log("consumed", a, n)
         /\ UNCHANGED <<shape, flags, returned>>

(* A revoked allocation may still give back what it holds. *)
Return(r, a, n) ==
    IF Prior("return", r) # {} THEN Retried("return", r, a, n)
    ELSE IF a \notin live THEN Answer("not-found")
    ELSE IF n > Consumable(a) THEN Answer("exceeds")
    ELSE IF Underflows(a, n) THEN Answer("underflow")
    ELSE /\ Mutated
         /\ returned' = AddTo(returned, {a} \cup lineage[a], n)
         /\ Unreserve(a, n)
         /\ Record("return", r, a, n) /\ Log("returned", a, n)
         /\ UNCHANGED <<shape, flags, consumed>>

(* releaseConsumedOnce: the ancestors' consumption goes down with it, their      *)
(* reservation does not come back.  It is always keyed.                          *)
Release(r, a, n) ==
    IF Prior("release", r) # {} THEN Retried("release", r, a, n)
    ELSE IF a \notin live THEN Answer("not-found")
    ELSE IF n > consumed[a] THEN Answer("exceeds")
    ELSE IF \E p \in lineage[a] : consumed[p] < n THEN Answer("underflow")
    ELSE /\ Mutated
         /\ consumed' = AddTo(consumed, {a} \cup lineage[a], -n)
         /\ Record("release", r, a, n) /\ Log("released", a, n)
         /\ UNCHANGED <<shape, flags, reserved, returned>>

RevokeTask(t) ==
    IF t \notin tasks THEN Answer("not-found")
    ELSE /\ Mutated
         /\ revokedTasks' = revokedTasks \cup {t}
         /\ revoked' = revoked \cup {a \in live : task[a] = t}
         /\ UNCHANGED <<shape, balances, operations, events>>

-----------------------------------------------------------------------------
CreateRootCall == \E t \in Tasks, a \in Allocations, n \in Amounts : CreateRoot(t, a, n)
AllocateCall   == \E a, p \in Allocations, n \in Amounts \cup {0}, fanOut \in FanOuts :
                      Allocate(a, p, n, fanOut)
ConsumeCall    == \E r \in Reservations \cup {NoReservation}, a \in Allocations, n \in Amounts :
                      Consume(r, a, n)
ReturnCall     == \E r \in Reservations \cup {NoReservation}, a \in Allocations, n \in Amounts :
                      Return(r, a, n)
ReleaseCall    == \E r \in Reservations, a \in Allocations, n \in Amounts : Release(r, a, n)
RevokeCall     == \E t \in Tasks : RevokeTask(t)

BudgetNext == CreateRootCall \/ AllocateCall \/ ConsumeCall \/ ReturnCall \/ ReleaseCall \/ RevokeCall
BudgetSpec == BudgetInit /\ [][BudgetNext]_budgetVars

-----------------------------------------------------------------------------
(* Properties. *)

Descendants(a) == {d \in live : a \in lineage[d]}

(* The file holds what PersistedState declares, and no balance is ever negative. *)
BudgetTypeOK ==
    /\ tasks \subseteq Tasks /\ revokedTasks \subseteq tasks
    /\ live \subseteq Allocations /\ revoked \subseteq live
    /\ task \in [Allocations -> Tasks]
    /\ parent \in [Allocations -> live \cup {NoParent}]
    /\ lineage \in [Allocations -> SUBSET live]
    /\ effects \in [Allocations -> Nat] /\ reserved \in [Allocations -> Nat]
    /\ consumed \in [Allocations -> Nat] /\ returned \in [Allocations -> Nat]
    /\ events \in [EventTypes -> [Allocations -> Nat]]
    /\ mutations \in 0..MaxMutations /\ reply \in Replies

(* The event log that a delegation's evidence is built from accounts for every   *)
(* balance: an allocation's consumption and returns are those logged in its       *)
(* subtree, and what is reserved in it is what its descendants were given and     *)
(* have not yet consumed or returned.                                            *)
Below(type, a)  == SumFunctionOnSet(events[type], {a} \cup Descendants(a))
Outstanding     == [d \in Allocations |-> effects[d] - events["consumed"][d] - events["returned"][d]]
AuditAgrees ==
    \A a \in live :
        /\ consumed[a] = Below("consumed", a) - Below("released", a)
        /\ returned[a] = Below("returned", a)
        /\ reserved[a] = SumFunctionOnSet(Outstanding, Descendants(a))

(* An allocation without grandchildren is never overcommitted: what it and its   *)
(* children consumed and what its children still hold fit in its effects.        *)
WithinEffects ==
    \A a \in live :
        (\A c \in Children(a) : Children(c) = {}) => consumed[a] + reserved[a] <= effects[a]

(* "budget reservation underflow" guards against a bookkeeping error of the      *)
(* ledger's own: an allocation that reports effects left can use them, unless    *)
(* some consumption was released.                                               *)
UnderflowOnlyAfterRelease ==
    reply = "underflow" => \E a \in Allocations : events["released"][a] > 0

(* Revoking a task freezes its whole tree: nothing is consumed or allocated in   *)
(* it from then on, whatever was delegated before.                              *)
RevokedIsFrozen ==
    [][\A t \in revokedTasks :
         /\ \A a \in live' : task'[a] = t => a \in live
         /\ \A a \in live : task[a] = t => consumed'[a] <= consumed[a]]_budgetVars

(* A root allocation's effects bound what its tree consumes: "delegation budgets  *)
(* conserve effects across nested children and return unused allocation".        *)
RootConserves == \A a \in live : IsRoot(a) => consumed[a] <= effects[a]

=============================================================================

------------------------------- MODULE MCStores -------------------------------
(* Two signed stores of the host: a request's journal and the delegation budget.   *)
(* A behaviour is a behaviour of one of them, chosen in the initial state.          *)
EXTENDS SignedJournal, DelegationBudget

VARIABLE part

(* Allocations are numbered in the order in which they enter the file: which names   *)
(* they have makes no difference to the budget.                                  *)
InOrder == live' = 1..Cardinality(live')

StoresInit == part \in {"journal", "budget"} /\ Init /\ BudgetInit

Journaling(step) == part = "journal" /\ step /\ UNCHANGED <<part, budgetVars>>
Budgeting == part = "budget" /\ BudgetNext /\ InOrder /\ UNCHANGED <<part, vars>>

StoresNext == Journaling(Next) \/ Budgeting

storesVars == <<part, vars, budgetVars>>

(* A process that is in the middle of an append goes on with it, and a writer that   *)
(* waits for the lease gets it when it is free again and again.                     *)
StoresSpec ==
    /\ StoresInit /\ [][StoresNext]_storesVars
    /\ \A a \in Actors : /\ WF_storesVars(Journaling(Step(a)))
                         /\ SF_storesVars(Journaling(a \in Writers /\ Start(a)))

(* Whatever crashes, a writer gets its event into the journal, or the journal is     *)
(* full, or a file is torn (append, src/authority/host/signed-journal.ts).           *)
JournalGoesOn == part = "journal" => AppendsGoOn

=============================================================================

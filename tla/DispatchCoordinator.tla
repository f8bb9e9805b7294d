-------------------------- MODULE DispatchCoordinator --------------------------
(***************************************************************************)
(* The dispatch coordinator: src/authority/host/dispatch.ts.                *)
(*                                                                         *)
(* It drives one reservation through four stores that fail separately: the  *)
(* authority ledger, the delegation budget, the receipt chain and the       *)
(* provider.  Every await is a step of its own here.  The budget is the     *)
(* module DelegationBudget itself; the ledger is the atomic registry that   *)
(* AuthorityLedger is shown to implement, with its send-started marker.     *)
(*                                                                         *)
(* One process serves a ledger, and recover() runs when none of its calls   *)
(* is under way and it holds no handle, as after a restart.  A process that *)
(* dies holding the ledger lock makes the next operation settle, inside the *)
(* ledger, whatever it finds open (withLock, AuthorityLedger's sweep).      *)
(***************************************************************************)
EXTENDS Integers, FiniteSets, FiniteSetsExt

CONSTANTS
    Reservations,   \* reservation ids; recover() takes them in increasing order
    Allocations, Tasks, Amounts, FanOuts, MaxMutations, NoParent, NoReservation,
    Root, Child,    \* a task's root allocation, and the one delegated out of it
    Grants,         \* the effects each of the two holds
    Accounts,       \* the allocations requests name, NoParent for no execution context
    Wirings,        \* how the host may have wired the coordinator
    MaxFaults       \* bound: crashes and failing calls under each wiring

ASSUME CoordinatorAssumption ==
    /\ Reservations \subseteq Nat \ {0} /\ NoReservation = 0
    /\ Root # Child /\ {Root, Child} \subseteq Allocations
    /\ Grants \in [{Root, Child} -> Nat] /\ Grants[Child] <= Grants[Root]
    /\ Wirings \subseteq [prepares : BOOLEAN, durable : BOOLEAN, readback : BOOLEAN]
    /\ \A w \in Wirings : w.durable => w.prepares  \* only a prepared dispatch opens a chain
    /\ MaxFaults \in [Wirings -> Nat]

VARIABLES
    tasks, revokedTasks, live, task, parent, lineage, effects, reserved, consumed,
    returned, revoked, operations, events, mutations, reply,   \* the budget file
    wiring,             \* the adapter prepares, receipts form a chain, a readback exists
    status, marked,     \* the ledger's state of a reservation, and its send-started
    account,            \* the allocation in its execution context, or NoParent
    receipts, verdict,  \* the receipts published, and what the reconcile one says
    sends, applied,     \* the provider: requests received, and the effect they had
    handles,            \* reservations whose one-shot handle is still unused
    call, at,           \* the call working on a reservation, and its next await
    outcome, seen,      \* that call's provider outcome and readback verdict
    todo,               \* what is left of recover()'s list
    residue,            \* the ledger lock is still that of a dead process
    swept,              \* history: reservations that the ledger settled by itself
    faults

Budget == INSTANCE DelegationBudget

budget == <<tasks, revokedTasks, live, task, parent, lineage, effects, reserved, consumed,
            returned, revoked, operations, events, mutations, reply>>
ledger   == <<status, marked, account>>
chain    == <<receipts, verdict>>
provider == <<sends, applied>>
volatile == <<handles, call, at, todo>>
locals   == <<outcome, seen>>
locking  == <<residue, swept>>
vars == <<budget, wiring, ledger, chain, provider, volatile, locals, locking, faults>>

Statuses == {"none", "reserved", "dispatched", "acknowledged", "definitive-failure",
             "ambiguous", "cancelled", "reconciled"}
Outcomes == {"acknowledged", "definitive-failure", "ambiguous"}
Verdicts == {"matched", "not-applied", "conflict", "unavailable"}
Calls    == {"none", "dispatch", "cancel", "reconcile", "recover"}
Awaits   == {"none", "mark", "charge", "commit", "check", "root", "send", "readback", "refund",
             "publish", "settle", "publish-verdict", "settle-verdict", "return",
             "publish-cancel", "settle-cancel"}

Init ==
    /\ tasks = Tasks /\ revokedTasks = {} /\ live = {Root, Child} /\ revoked = {}
    /\ task \in [Allocations -> Tasks] /\ task[Root] = task[Child]
    /\ parent = [a \in Allocations |-> IF a = Child THEN Root ELSE NoParent]
    /\ lineage = [a \in Allocations |-> IF a = Child THEN {Root} ELSE {}]
    /\ effects = [a \in Allocations |-> IF a \in {Root, Child} THEN Grants[a] ELSE 0]
    /\ reserved = [a \in Allocations |-> IF a = Root THEN Grants[Child] ELSE 0]
    /\ consumed = [a \in Allocations |-> 0] /\ returned = [a \in Allocations |-> 0]
    /\ operations = {} /\ events = [type \in Budget!EventTypes |-> [a \in Allocations |-> 0]]
    /\ mutations = 0 /\ reply = "none"
    /\ wiring \in Wirings
    /\ status = [r \in Reservations |-> "none"] /\ marked = [r \in Reservations |-> FALSE]
    /\ account = [r \in Reservations |-> NoParent]
    /\ receipts = [r \in Reservations |-> {}] /\ verdict = [r \in Reservations |-> "none"]
    /\ sends = [r \in Reservations |-> 0] /\ applied = [r \in Reservations |-> FALSE]
    /\ handles = {} /\ todo = {} /\ faults = 0 /\ residue = FALSE /\ swept = {}
    /\ call = [r \in Reservations |-> "none"] /\ at = [r \in Reservations |-> "none"]
    /\ outcome = [r \in Reservations |-> "none"] /\ seen = [r \in Reservations |-> "none"]

-----------------------------------------------------------------------------
(* How a call moves on. *)

Move(r, await) == at' = [at EXCEPT ![r] = await] /\ UNCHANGED <<handles, call, todo>>
Goto(r, await) == Move(r, await) /\ UNCHANGED locals
Leave(r) ==
    /\ at' = [at EXCEPT ![r] = "none"] /\ call' = [call EXCEPT ![r] = "none"]
    /\ outcome' = [outcome EXCEPT ![r] = "none"] /\ seen' = [seen EXCEPT ![r] = "none"]
End(r)   == Leave(r) /\ UNCHANGED <<handles, todo>>

(* An error ends the call; one that recover() meets ends the whole recovery. *)
Throw(r) ==
    /\ Leave(r) /\ UNCHANGED handles
    /\ todo' = IF call[r] = "recover" THEN {} ELSE todo

Enter(r, c, await) == call' = [call EXCEPT ![r] = c] /\ at' = [at EXCEPT ![r] = await]
Locked == ~residue  \* an operation of the ledger retires a dead owner first
Record(r, s) == status' = [status EXCEPT ![r] = s] /\ UNCHANGED <<marked, account>>
Issue(r, p)  == receipts' = [receipts EXCEPT ![r] = @ \cup {p}]
Recovering   == todo # {} \/ \E r \in Reservations : call[r] = "recover"
AtRest       == handles = {} /\ todo = {} /\ \A r \in Reservations : call[r] = "none"

(* Only a reservation with an execution context draws on a budget. *)
Draw(r, kind) ==
    IF account[r] = NoParent THEN UNCHANGED budget
    ELSE CASE kind = "consume" -> Budget!Consume(r, account[r], 1)
           [] kind = "return"  -> Budget!Return(r, account[r], 1)
           [] kind = "release" -> Budget!Release(r, account[r], 1)
Drawn(r) == account[r] = NoParent \/ reply' \in {"ok", "prior"}

(* The chain admits one successor of the reservation root, and one of an         *)
(* ambiguity.  Without a chain every receipt is a file of its own.               *)
Head(r) ==
    IF "reconcile" \in receipts[r] THEN "reconcile"
    ELSE IF receipts[r] \cap Outcomes # {} THEN CHOOSE o \in Outcomes : o \in receipts[r]
    ELSE IF "reservation" \in receipts[r] THEN "reservation" ELSE "none"
Admits(r, prior) == ~wiring.durable \/ Head(r) = prior

-----------------------------------------------------------------------------
(* The gate hands out a handle; dispatch() and cancel() consume it. *)

Reserve(r) ==
    /\ status[r] = "none" /\ ~Recovering /\ Locked
    /\ status' = [status EXCEPT ![r] = "reserved"] /\ handles' = handles \cup {r}
    /\ \E a \in Accounts : account' = [account EXCEPT ![r] = a]
    /\ UNCHANGED <<budget, wiring, marked, chain, provider, call, at, todo, locals,
                   locking, faults>>

(* mutant: the handle is not used up *)
DispatchAgain(r) ==
    /\ r \in handles /\ UNCHANGED handles
    /\ Enter(r, "dispatch", IF wiring.prepares THEN "charge" ELSE "mark")
    /\ UNCHANGED <<budget, wiring, ledger, chain, provider, todo, locals, locking, faults>>

Dispatch(r) ==
    /\ r \in handles /\ handles' = handles \ {r}
    /\ Enter(r, "dispatch", IF wiring.prepares THEN "charge" ELSE "mark")
    /\ UNCHANGED <<budget, wiring, ledger, chain, provider, todo, locals, locking, faults>>

Cancel(r) ==
    /\ r \in handles /\ handles' = handles \ {r}
    /\ Enter(r, "cancel", "return")
    /\ UNCHANGED <<budget, wiring, ledger, chain, provider, todo, locals, locking, faults>>

RevokeTask ==
    /\ \E t \in Tasks \ revokedTasks : Budget!RevokeTask(t)
    /\ UNCHANGED <<wiring, ledger, chain, provider, volatile, locals, locking, faults>>

-----------------------------------------------------------------------------
(* dispatch(). *)

Mark(r) ==
    /\ at[r] = "mark" /\ Locked
    /\ IF status[r] = "reserved" THEN Record(r, "dispatched") /\ Goto(r, "charge")
       ELSE Throw(r) /\ UNCHANGED ledger
    /\ UNCHANGED <<budget, wiring, chain, provider, locking, faults>>

(* mutant: a refused consumption does not stop the dispatch *)
ChargeAnyway(r) ==
    /\ at[r] = "charge"
    /\ Draw(r, "consume")
    /\ Goto(r, IF wiring.prepares THEN "commit" ELSE "send")
    /\ UNCHANGED <<wiring, ledger, chain, provider, locking, faults>>

Charge(r) ==
    /\ at[r] = "charge"
    /\ Draw(r, "consume")
    /\ IF Drawn(r) THEN Goto(r, IF wiring.prepares THEN "commit" ELSE "send") ELSE Throw(r)
    /\ UNCHANGED <<wiring, ledger, chain, provider, locking, faults>>

Commit(r) ==
    /\ at[r] = "commit" /\ Locked /\ status[r] = "reserved"
    /\ status' = [status EXCEPT ![r] = "dispatched"] /\ marked' = [marked EXCEPT ![r] = TRUE]
    /\ Goto(r, IF wiring.durable THEN "root" ELSE "send")
    /\ UNCHANGED <<budget, wiring, account, chain, provider, locking, faults>>

(* The ledger refuses: out of validity, busy, past its deadline, not reserved. *)
CommitRefused(r) ==
    /\ at[r] = "commit" /\ Locked /\ Goto(r, "check")
    /\ UNCHANGED <<budget, wiring, ledger, chain, provider, locking, faults>>

(* An I/O error between the ledger's two events. *)
CommitTorn(r) ==
    /\ at[r] = "commit" /\ Locked /\ status[r] = "reserved"
    /\ faults < MaxFaults[wiring] /\ faults' = faults + 1
    /\ Record(r, "dispatched") /\ Goto(r, "check")
    /\ UNCHANGED <<budget, wiring, chain, provider, locking>>

(* The consumption is kept when the ledger shows that the commit took place. *)
Check(r) ==
    /\ at[r] = "check" /\ Locked
    /\ IF status[r] = "reserved" THEN Goto(r, "refund") ELSE Throw(r)
    /\ UNCHANGED <<budget, wiring, ledger, chain, provider, locking, faults>>

PublishRoot(r) ==
    /\ at[r] = "root" /\ Locked
    /\ IF status[r] = "dispatched" /\ marked[r] THEN Issue(r, "reservation") /\ Goto(r, "send")
       ELSE Throw(r) /\ UNCHANGED receipts
    /\ UNCHANGED <<budget, wiring, ledger, verdict, provider, locking, faults>>

(* The provider acts on a request or refuses it, and its answer tells which or   *)
(* is lost.  A prepared request whose deadline has passed is not sent at all,    *)
(* and ambiguous all the same; so is one whose adapter throws.                   *)
Send(r) ==
    /\ at[r] = "send"
    /\ \/ outcome' = [outcome EXCEPT ![r] = "ambiguous"] /\ UNCHANGED provider
       \/ \E acts \in BOOLEAN :
            /\ sends' = [sends EXCEPT ![r] = @ + 1]
            /\ applied' = [applied EXCEPT ![r] = @ \/ acts]
            /\ \E answer \in {"ambiguous", IF acts THEN "acknowledged" ELSE "definitive-failure"} :
                  outcome' = [outcome EXCEPT ![r] = answer]
    /\ Move(r, IF ~wiring.prepares /\ wiring.readback /\ outcome'[r] # "ambiguous"
               THEN "readback" ELSE "publish")
    /\ UNCHANGED <<budget, wiring, ledger, chain, seen, locking, faults>>

(* An authoritative read-back is never wrong about an effect, but may not get an *)
(* answer, or find the target in yet another state.                             *)
Readings(r) == {"unavailable", "conflict", IF applied[r] THEN "matched" ELSE "not-applied"}
OutcomeOfSilence(v) ==  \* mutant: no answer counts as a match
    IF v \in {"matched", "unavailable"} THEN "acknowledged" ELSE "definitive-failure"
OutcomeOf(v) == IF v = "matched" THEN "acknowledged"
                ELSE IF v = "unavailable" THEN "ambiguous" ELSE "definitive-failure"

RefundsUnlessMatched(v) == v # "matched"  \* mutant: no answer counts as not applied
Refunds(v) == v = "not-applied"

Readback(r) ==
    /\ at[r] = "readback"
    /\ \E v \in Readings(r) :
          /\ seen' = [seen EXCEPT ![r] = v]
          /\ IF call[r] = "dispatch"
             THEN outcome' = [outcome EXCEPT ![r] = OutcomeOf(v)] /\ Move(r, "publish")
             ELSE Move(r, IF Refunds(v) THEN "refund" ELSE "publish-verdict") /\ UNCHANGED outcome
    /\ UNCHANGED <<budget, wiring, ledger, chain, provider, locking, faults>>

(* releaseConsumedOnce: for a commit that failed, whose error is then rethrown,  *)
(* or for an effect that was not applied.                                       *)
Refund(r) ==
    /\ at[r] = "refund"
    /\ Draw(r, "release")
    /\ IF Drawn(r) /\ call[r] = "reconcile" THEN Goto(r, "publish-verdict") ELSE Throw(r)
    /\ UNCHANGED <<wiring, ledger, chain, provider, locking, faults>>

Publish(r) ==
    /\ at[r] = "publish"
    /\ IF Admits(r, "reservation") THEN Issue(r, outcome[r]) /\ Goto(r, "settle")
       ELSE Throw(r) /\ UNCHANGED receipts
    /\ UNCHANGED <<budget, wiring, ledger, verdict, provider, locking, faults>>

Settle(r) ==
    /\ at[r] = "settle" /\ Locked
    /\ IF status[r] # "dispatched" THEN Throw(r) /\ UNCHANGED ledger
       ELSE /\ Record(r, outcome[r])
            /\ IF call[r] = "dispatch" /\ seen[r] # "none" THEN Goto(r, "publish-verdict") ELSE End(r)
    /\ UNCHANGED <<budget, wiring, chain, provider, locking, faults>>

PublishVerdict(r) ==
    /\ at[r] = "publish-verdict"
    /\ IF Admits(r, "ambiguous")
       THEN Issue(r, "reconcile") /\ verdict' = [verdict EXCEPT ![r] = seen[r]] /\ Goto(r, "settle-verdict")
       ELSE Throw(r) /\ UNCHANGED chain
    /\ UNCHANGED <<budget, wiring, ledger, provider, locking, faults>>

SettleVerdict(r) ==
    /\ at[r] = "settle-verdict" /\ Locked
    /\ IF status[r] = "ambiguous" \/ (call[r] = "dispatch" /\ status[r] = "acknowledged")
       THEN Record(r, "reconciled") /\ End(r)
       ELSE Throw(r) /\ UNCHANGED ledger
    /\ UNCHANGED <<budget, wiring, chain, provider, locking, faults>>

-----------------------------------------------------------------------------
(* cancel(), and what recover() does with a reservation never dispatched. *)

(* mutant: the ledger is settled before the receipt *)
GiveBackUnpublished(r) ==
    /\ at[r] = "return"
    /\ Draw(r, "return")
    /\ IF Drawn(r) THEN Goto(r, "settle-cancel") ELSE Throw(r)
    /\ UNCHANGED <<wiring, ledger, chain, provider, locking, faults>>

GiveBack(r) ==
    /\ at[r] = "return"
    /\ Draw(r, "return")
    /\ IF Drawn(r) THEN Goto(r, "publish-cancel") ELSE Throw(r)
    /\ UNCHANGED <<wiring, ledger, chain, provider, locking, faults>>

PublishCancel(r) ==
    /\ at[r] = "publish-cancel"
    /\ Issue(r, "cancelled") /\ Goto(r, "settle-cancel")
    /\ UNCHANGED <<budget, wiring, ledger, verdict, provider, locking, faults>>

SettleCancel(r) ==
    /\ at[r] = "settle-cancel" /\ Locked
    /\ IF status[r] = "reserved" THEN Record(r, "cancelled") /\ End(r)
       ELSE Throw(r) /\ UNCHANGED ledger
    /\ UNCHANGED <<budget, wiring, chain, provider, locking, faults>>

-----------------------------------------------------------------------------
(* reconcile() and recover(). *)

Unproven(r) == wiring.durable /\ (~marked[r] \/ Head(r) = "none")
Incompatible(r, listed) ==
    wiring.durable /\ Head(r) \notin IF listed = "dispatched" THEN Outcomes \cup {"reservation"}
                                    ELSE {"ambiguous", "reconcile"}

(* A chain that already ends in a verdict is adopted, and reported as a match.   *)
(* A chain that is refused changes nothing.                                     *)
Reconcile(r) ==
    /\ wiring.readback /\ call[r] = "none" /\ ~Recovering /\ Locked /\ status[r] = "ambiguous"
    /\ \/ /\ ~wiring.durable \/ (~Unproven(r) /\ Head(r) = "ambiguous")
          /\ Enter(r, "reconcile", "readback") /\ UNCHANGED seen
       \/ /\ wiring.durable /\ ~Unproven(r) /\ Head(r) = "reconcile"
          /\ Enter(r, "reconcile", "settle-verdict") /\ seen' = [seen EXCEPT ![r] = "matched"]
    /\ UNCHANGED <<budget, wiring, ledger, chain, provider, handles, todo, outcome, locking, faults>>

Open == {r \in Reservations : status[r] \in {"reserved", "dispatched", "ambiguous"}}

(* recover() works through the list that ledger.recover() returned.  That one    *)
(* operation may go ahead without retiring a dead owner.                        *)
Recover ==
    /\ AtRest /\ Open # {} /\ todo' = {<<r, status[r]>> : r \in Open}
    /\ UNCHANGED <<budget, wiring, ledger, chain, provider, handles, call, at, locals,
                   locking, faults>>

Resume(r, await) == Enter(r, "recover", await)

RecoverReserved(r, listed) ==
    /\ listed = "reserved"
    /\ Resume(r, "return") /\ UNCHANGED outcome

(* mutant: an interrupted send is sent again *)
RecoverBySending(r, listed) ==
    /\ listed = "dispatched" /\ ~Unproven(r) /\ ~Incompatible(r, listed)
    /\ Resume(r, "send") /\ UNCHANGED outcome

(* mutant: the head of the chain is not looked at *)
RecoverWithoutHead(r, listed) ==
    /\ listed = "dispatched" /\ ~Unproven(r) /\ ~Incompatible(r, listed)
    /\ outcome' = [outcome EXCEPT ![r] = "ambiguous"] /\ Resume(r, "publish")

(* A terminal receipt that was published is adopted; short of one, the effect    *)
(* may have happened, and is published as ambiguous.                            *)
RecoverDispatched(r, listed) ==
    /\ listed = "dispatched" /\ ~Unproven(r) /\ ~Incompatible(r, listed)
    /\ LET adopts == wiring.durable /\ Head(r) \in Outcomes
       IN  /\ outcome' = [outcome EXCEPT ![r] = IF adopts THEN Head(r) ELSE "ambiguous"]
           /\ Resume(r, IF adopts THEN "settle" ELSE "publish")

RecoverAmbiguous(r, listed) ==
    /\ listed = "ambiguous" /\ ~Unproven(r) /\ ~Incompatible(r, listed) /\ UNCHANGED outcome
    /\ IF wiring.durable /\ Head(r) = "reconcile" THEN Resume(r, "settle-verdict")
       ELSE UNCHANGED <<call, at>>

(* recover() refuses a reservation it cannot account for, and those after it. *)
RecoverRefused(r, listed) ==
    /\ listed \in {"dispatched", "ambiguous"} /\ (Unproven(r) \/ Incompatible(r, listed))
    /\ UNCHANGED <<call, at, outcome>>

RecoverNext ==
    /\ \A r \in Reservations : call[r] = "none"
    /\ \E entry \in todo :
          LET r == entry[1]
              listed == entry[2]
          IN  /\ \A other \in todo : r <= other[1]
              /\ \/ /\ RecoverReserved(r, listed) \/ RecoverDispatched(r, listed)
                         \/ RecoverAmbiguous(r, listed)
                    /\ todo' = todo \ {entry}
                 \/ RecoverRefused(r, listed) /\ todo' = {}
    /\ UNCHANGED <<budget, wiring, ledger, chain, provider, handles, seen, locking, faults>>

-----------------------------------------------------------------------------
(* Failures: an awaited call throws before it did anything, or the process dies. *)

Fails(r) ==
    /\ at[r] \notin {"none", "commit", "send"} /\ (at[r] = "readback" => call[r] = "reconcile")
    /\ faults < MaxFaults[wiring] /\ faults' = faults + 1
    /\ Throw(r)
    /\ UNCHANGED <<budget, wiring, ledger, chain, provider, locking>>

Crash ==
    /\ ~AtRest /\ faults < MaxFaults[wiring] /\ faults' = faults + 1
    /\ residue' \in {residue, TRUE}
    /\ handles' = {} /\ todo' = {}
    /\ call' = [r \in Reservations |-> "none"] /\ at' = [r \in Reservations |-> "none"]
    /\ outcome' = [r \in Reservations |-> "none"] /\ seen' = [r \in Reservations |-> "none"]
    /\ UNCHANGED <<budget, wiring, ledger, chain, provider, swept>>

(* What the operation that retires a dead owner does first: the ledger cancels   *)
(* what is reserved, and a dispatch without a marker becomes ambiguous.          *)
Retire ==
    /\ residue /\ residue' = FALSE
    /\ status' = [r \in Reservations |->
                     CASE status[r] = "reserved" -> "cancelled"
                       [] status[r] = "dispatched" /\ ~marked[r] -> "ambiguous"
                       [] OTHER -> status[r]]
    /\ swept' = swept \cup {r \in Reservations : status'[r] # status[r]}
    /\ UNCHANGED <<budget, wiring, marked, account, chain, provider, volatile, locals,
                   faults>>

Proceed(r) ==
    \/ Mark(r) \/ Charge(r) \/ Commit(r) \/ CommitRefused(r) \/ Check(r) \/ PublishRoot(r)
    \/ Send(r) \/ Readback(r) \/ Refund(r) \/ Publish(r) \/ Settle(r)
    \/ PublishVerdict(r) \/ SettleVerdict(r) \/ GiveBack(r) \/ PublishCancel(r) \/ SettleCancel(r)

Next ==
    \/ \E r \in Reservations :
          \/ Reserve(r) \/ Dispatch(r) \/ Cancel(r) \/ Proceed(r) \/ Reconcile(r)
          \/ CommitTorn(r) \/ Fails(r)
    \/ RevokeTask \/ Recover \/ RecoverNext \/ Retire \/ Crash

(* The event loop runs what it awaits, a handle is used by the runtime it was     *)
(* returned to, and a process at rest with open reservations is recovered again.  *)
Spec == Init /\ [][Next]_vars
FairSpec ==
    /\ Spec /\ WF_vars(RecoverNext) /\ SF_vars(Recover) /\ WF_vars(Retire)
    /\ \A r \in Reservations : WF_vars(Proceed(r)) /\ WF_vars(Dispatch(r) \/ Cancel(r))

-----------------------------------------------------------------------------
(* Properties. *)

Did(kind, r) == \E o \in operations : o.kind = kind /\ o.reservation = r

(* A coordinator at work: at most one call has a reservation, and only a call     *)
(* under way has a next await.                                                   *)
TypeOK ==
    /\ wiring \in Wirings
    /\ status \in [Reservations -> Statuses] /\ marked \in [Reservations -> BOOLEAN]
    /\ account \in [Reservations -> Accounts \cup {NoParent}]
    /\ receipts \in [Reservations -> SUBSET (Outcomes \cup {"reservation", "cancelled", "reconcile"})]
    /\ verdict \in [Reservations -> Verdicts \cup {"none"}]
    /\ sends \in [Reservations -> Nat] /\ applied \in [Reservations -> BOOLEAN]
    /\ handles \subseteq {r \in Reservations : status[r] = "reserved" /\ call[r] = "none"}
    /\ call \in [Reservations -> Calls] /\ at \in [Reservations -> Awaits]
    /\ \A r \in Reservations : call[r] = "none" <=> at[r] = "none"
    /\ outcome \in [Reservations -> Outcomes \cup {"none"}]
    /\ seen \in [Reservations -> Verdicts \cup {"none"}]
    /\ todo \subseteq Reservations \X {"reserved", "dispatched", "ambiguous"}
    /\ residue \in BOOLEAN /\ swept \subseteq Reservations /\ faults \in 0..MaxFaults[wiring]

(* "Restart never resends automatically": whatever crashes, fails and is          *)
(* recovered or reconciled, the provider gets at most one request for a           *)
(* reservation, and none for one that is cancelled.                              *)
SentOnce == \A r \in Reservations : sends[r] <= (IF status[r] = "cancelled" THEN 0 ELSE 1)

(* "Refusal before possible send returns budget only when non-application is      *)
(* proven": what an applied effect consumed is never given back.                  *)
RefundOnlyIfUnapplied ==
    \A r \in Reservations : Did("return", r) \/ Did("release", r) => ~applied[r]

(* Where dispatch is prepared, nothing is sent that was not paid for, and nothing *)
(* is released that was not consumed, whichever step was the last before a crash. *)
PaidWhenPrepared ==
    \A r \in Reservations : wiring.prepares /\ account[r] # NoParent =>
        /\ sends[r] > 0 => Did("consume", r)
        /\ Did("release", r) => Did("consume", r)

(* The coordinator publishes before it settles: no end that it gave a reservation, *)
(* directly or in recovery, is in the ledger without a receipt that shows it.      *)
ReceiptFirst ==
    \A r \in Reservations :
        /\ status[r] \in Outcomes \cup {"cancelled"} => status[r] \in receipts[r] \/ r \in swept
        /\ status[r] = "reconciled" => "reconcile" \in receipts[r]

(* "Publication is durable before acknowledged, cancelled, and recovered terminal *)
(* transitions", whoever makes the transition.                                   *)
PublishedBeforeSettled ==
    \A r \in Reservations : status[r] = "cancelled" => "cancelled" \in receipts[r]

(* The ledger does not contradict the provider: an acknowledged effect happened,  *)
(* a cancelled one did not, and neither is decided by a lost answer.              *)
StatusIsTrue ==
    \A r \in Reservations :
        /\ status[r] = "acknowledged" => applied[r]
        /\ status[r] = "cancelled" => ~applied[r]

(* The allocation pays for what was sent and only for that, through every failure between  *)
(* the budget's writes and the ledger's.                                                *)
BudgetFollowsEffect == RefundOnlyIfUnapplied /\ PaidWhenPrepared

(* The ledger's ends agree with the receipts before them and with the provider.          *)
EndsAreTrue == ReceiptFirst /\ StatusIsTrue

(* What recover() cannot get past: a reservation without its marker or root, and  *)
(* one whose effect its allocation refuses to take back.                          *)
Unreturnable(r) ==
    /\ status[r] = "reserved" /\ account[r] # NoParent /\ ~Did("return", r)
    /\ 1 > Budget!Consumable(account[r]) \/ Budget!Underflows(account[r], 1)
Wedged == \E r \in Reservations :
              \/ status[r] \in {"dispatched", "ambiguous"} /\ Unproven(r)
              \/ Unreturnable(r)

(* Short of those two, no crash or failure leaves a reservation hanging: each is  *)
(* in the end cancelled, terminal or ambiguous.                                   *)
SettlesUnlessWedged ==
    <>[]~Wedged => <>[](\A r \in Reservations : status[r] \notin {"reserved", "dispatched"})

(* What reconcile() tells its caller is the verdict that the receipt records:     *)
(* "reconciliation unavailable or conflicting never becomes acknowledged".        *)
AnswerIsVerdict ==
    \A r \in Reservations :
        call[r] = "reconcile" /\ at[r] = "settle-verdict" => seen[r] = verdict[r]

(* Cancelling gives the budget back ("binds one effect to the authenticated       *)
(* allocation and returns it on cancellation"): nothing that a reservation         *)
(* consumed stays consumed once it is cancelled.                                   *)
CancelledIsRefunded ==
    \A r \in Reservations \ swept :
        status[r] = "cancelled" /\ Did("consume", r) => Did("release", r)

=============================================================================

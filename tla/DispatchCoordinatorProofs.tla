----------------------- MODULE DispatchCoordinatorProofs -----------------------
(***************************************************************************)
(* Proofs about DispatchCoordinator, for any set of reservations, any budget *)
(* tree, every wiring and any number of crashes and failing calls.           *)
(*                                                                         *)
(* The invariant says of each reservation what its status, its receipts, its *)
(* requests and its budget operations may be at each await of each call, and *)
(* of the process which calls exclude each other.  The point of it is Past:   *)
(* a reservation whose effects were given back can never send again.         *)
(***************************************************************************)
EXTENDS DispatchCoordinator, TLAPS

-----------------------------------------------------------------------------
(* The awaits of each call. *)

AwaitsOf(c) ==
    CASE c = "none"      -> {"none"}
      [] c = "dispatch"  -> {"mark", "charge", "commit", "check", "root", "send", "readback", "refund",
                             "publish", "settle", "publish-verdict", "settle-verdict"}
      [] c = "cancel"    -> {"return", "publish-cancel", "settle-cancel"}
      [] c = "reconcile" -> {"readback", "refund", "publish-verdict", "settle-verdict"}
      [] c = "recover"   -> {"return", "publish-cancel", "settle-cancel", "publish", "settle",
                             "settle-verdict"}

Cancelling == {"return", "publish-cancel", "settle-cancel"}
Sending    == {"mark", "charge", "commit", "root", "send"}
Unsent     == {"none", "reserved", "cancelled"}
Returned(r) == Did("return", r) \/ Did("release", r)

(* A reservation that cannot send any more. *)
Past(r) ==
    /\ status[r] # "none" /\ r \notin handles
    /\ ~(call[r] = "dispatch" /\ at[r] \in Sending)

(* What a call under way stands on. *)
Standing(r) ==
    /\ at[r] \in AwaitsOf(call[r])
    /\ r \in handles => status[r] = "reserved" /\ call[r] = "none"
    /\ status[r] = "none" => call[r] = "none"
    /\ call[r] = "reconcile" => status[r] = "ambiguous"
    /\ at[r] \in Cancelling => status[r] \in {"reserved", "cancelled"}
    /\ call[r] = "dispatch" =>
        /\ at[r] = "mark" => status[r] = "reserved" /\ ~wiring.prepares
        /\ at[r] \in {"commit", "refund"} => status[r] = "reserved"
        /\ at[r] = "charge" => status[r] = IF wiring.prepares THEN "reserved" ELSE "dispatched"
        /\ at[r] = "check" => status[r] \in {"reserved", "dispatched"}
        /\ at[r] \in {"root", "send"} => status[r] = "dispatched"
    /\ at[r] \in {"publish", "settle"} => outcome[r] \in Outcomes
    /\ at[r] = "publish-verdict" \/ (call[r] = "reconcile" /\ at[r] = "refund") => seen[r] \in Verdicts

(* What was sent and what it did. *)
Sent(r) ==
    /\ sends[r] <= 1 /\ (applied[r] => sends[r] > 0)
    /\ sends[r] > 0 => status[r] \notin Unsent
    /\ call[r] = "dispatch" /\ at[r] \in Sending \cup {"check"} => sends[r] = 0
    /\ outcome[r] = "acknowledged" => applied[r]
    /\ "acknowledged" \in receipts[r] => applied[r]
    /\ status[r] = "acknowledged" => applied[r]
    /\ at[r] = "refund" => ~applied[r]

(* What was published. *)
Published(r) ==
    /\ at[r] = "settle" => outcome[r] \in receipts[r]
    /\ at[r] = "settle-cancel" => "cancelled" \in receipts[r]
    /\ at[r] = "settle-verdict" => "reconcile" \in receipts[r]
    /\ status[r] \in Outcomes \cup {"cancelled"} => status[r] \in receipts[r] \/ r \in swept
    /\ status[r] = "reconciled" => "reconcile" \in receipts[r]

(* What was paid for and given back. *)
Paid(r) ==
    /\ Returned(r) => ~applied[r] /\ Past(r)
    /\ wiring.prepares /\ account[r] # NoParent =>
        /\ status[r] \notin Unsent => Did("consume", r)
        /\ call[r] = "dispatch" /\ at[r] \in {"commit", "check", "refund", "root", "send"} =>
              Did("consume", r)
        /\ Did("release", r) => Did("consume", r)

Settled(r) == Standing(r) /\ Sent(r) /\ Published(r) /\ Paid(r)

(* Recovery has the process to itself, each entry of its list is about a reservation  *)
(* of its own, and only a lock's residue lets the ledger change what was listed.      *)
Alone ==
    /\ Recovering \/ residue =>
          handles = {} /\ \A r \in Reservations : call[r] \in {"none", "recover"}
    /\ \A e \in todo : call[e[1]] = "none" /\ status[e[1]] # "none"
    /\ \A e, f \in todo : e[1] = f[1] => e = f
    /\ \A r \in Reservations : <<r, "reserved">> \in todo => status[r] \in {"reserved", "cancelled"}

CoordinatorInv == TypeOK /\ Alone /\ \A r \in Reservations : Settled(r)

-----------------------------------------------------------------------------
(* Lemmas about the operators of the coordinator. *)

(* The head of a chain is one of its receipts. *)
LEMMA HeadIsPublished ==
    ASSUME NEW r
    PROVE  /\ Head(r) \in Outcomes => Head(r) \in receipts[r]
           /\ Head(r) = "reconcile" => "reconcile" \in receipts[r]
           /\ Head(r) = "ambiguous" => "ambiguous" \in receipts[r]
<1>1. CASE receipts[r] \cap Outcomes # {}
    <2>1. \E o \in Outcomes : o \in receipts[r]
        BY <1>1
    <2> DEFINE c == CHOOSE o \in Outcomes : o \in receipts[r]
    <2>2. c \in Outcomes /\ c \in receipts[r]
        BY <2>1
    <2> HIDE DEF c
    <2>3. Head(r) \in {"reconcile", c} /\ (Head(r) = "reconcile" => "reconcile" \in receipts[r])
        BY <1>1, <2>2 DEF Head, c, Outcomes
    <2> QED BY <2>2, <2>3 DEF Outcomes
<1>2. CASE receipts[r] \cap Outcomes = {}
    BY <1>2 DEF Head, Outcomes
<1> QED
    BY <1>1, <1>2

(* A keyed operation of the budget records itself and nothing else, and an answer that *)
(* lets the call go on means that it is recorded.                                   *)
LEMMA DrawRecords ==
    ASSUME NEW r \in Reservations, NEW kind \in {"consume", "return", "release"}, Draw(r, kind)
    PROVE  /\ \A q \in Reservations, k \in {"consume", "return", "release"} :
                 Did(k, q) => Did(k, q)'
           /\ \A q \in Reservations, k \in {"consume", "return", "release"} :
                 Did(k, q)' => Did(k, q) \/ (k = kind /\ q = r)
           /\ Drawn(r) /\ account[r] # NoParent => Did(kind, r)'
<1> r # NoReservation
    BY CoordinatorAssumption
<1> DEFINE done == [kind |-> kind, reservation |-> r, allocation |-> account[r], effects |-> 1]
<1>1. account[r] # NoParent =>
        /\ operations' = operations \/ operations' = operations \cup {done}
        /\ reply' \in {"ok", "prior"} => done \in operations'
    <2> SUFFICES ASSUME account[r] # NoParent
                 PROVE  /\ operations' = operations \/ operations' = operations \cup {done}
                        /\ reply' \in {"ok", "prior"} => done \in operations'
        OBVIOUS
    <2> USE DEF Budget!Answer, Budget!Mutated, Budget!Record, Budget!Operation, Budget!Retried
    <2>1. CASE kind = "consume"
        BY <2>1 DEF Draw, Budget!Consume
    <2>2. CASE kind = "return"
        BY <2>2 DEF Draw, Budget!Return
    <2>3. CASE kind = "release"
        BY <2>3 DEF Draw, Budget!Release
    <2> QED BY <2>1, <2>2, <2>3
<1>2. account[r] = NoParent => operations' = operations
    BY DEF Draw, budget
<1>3. done.kind = kind /\ done.reservation = r
    OBVIOUS
<1> HIDE DEF done
<1>4. operations' = operations \/ operations' = operations \cup {done}
    BY <1>1, <1>2
<1>5. \A k, q : Did(k, q) => Did(k, q)'
    BY <1>4 DEF Did
<1>6. \A k, q : Did(k, q)' => Did(k, q) \/ (k = kind /\ q = r)
    BY <1>3, <1>4 DEF Did
<1>7. done \in operations' => Did(kind, r)'
    BY <1>3 DEF Did
<1> QED
    BY <1>1, <1>5, <1>6, <1>7 DEF Drawn

LEMMA DidKept ==
    ASSUME operations' = operations
    PROVE  \A k, q : Did(k, q)' <=> Did(k, q)
BY DEF Did

-----------------------------------------------------------------------------
(* A step of a call under way. *)

(* Which calls may stand at an await. *)
LEMMA CallAt ==
    ASSUME NEW r \in Reservations, TypeOK, Standing(r)
    PROVE  /\ at[r] \in {"mark", "charge", "commit", "check", "root", "send"} => call[r] = "dispatch"
           /\ at[r] \in {"readback", "refund", "publish-verdict"} => call[r] \in {"dispatch", "reconcile"}
           /\ at[r] \in {"publish", "settle"} => call[r] \in {"dispatch", "recover"}
           /\ at[r] = "settle-verdict" => call[r] \in {"dispatch", "reconcile", "recover"}
           /\ at[r] \in Cancelling => call[r] \in {"cancel", "recover"}
<1>1. call[r] \in Calls
    BY DEF TypeOK
<1>2. CASE call[r] = "none"
    BY <1>2 DEF Standing, AwaitsOf, Cancelling
<1>3. CASE call[r] = "dispatch"
    BY <1>3 DEF Standing, AwaitsOf, Cancelling
<1>4. CASE call[r] = "cancel"
    BY <1>4 DEF Standing, AwaitsOf, Cancelling
<1>5. CASE call[r] = "reconcile"
    BY <1>5 DEF Standing, AwaitsOf, Cancelling
<1>6. CASE call[r] = "recover"
    BY <1>6 DEF Standing, AwaitsOf, Cancelling
<1> QED
    BY <1>1, <1>2, <1>3, <1>4, <1>5, <1>6 DEF Calls

LEMMA AwaitsAre ==
    /\ AwaitsOf("none") = {"none"}
    /\ AwaitsOf("dispatch") = {"mark", "charge", "commit", "check", "root", "send", "readback", "refund",
                               "publish", "settle", "publish-verdict", "settle-verdict"}
    /\ AwaitsOf("cancel") = {"return", "publish-cancel", "settle-cancel"}
    /\ AwaitsOf("reconcile") = {"readback", "refund", "publish-verdict", "settle-verdict"}
    /\ AwaitsOf("recover") = {"return", "publish-cancel", "settle-cancel", "publish", "settle",
                              "settle-verdict"}
BY DEF AwaitsOf

(* What is left alone by a step that works on the reservation r.  *)
Working(r) ==
    /\ call[r] # "none" /\ call'[r] \in {call[r], "none"}
    /\ wiring' = wiring /\ account' = account /\ swept' = swept /\ residue' = residue
    /\ handles' = handles /\ (todo' = todo \/ todo' = {})
    /\ \A q \in Reservations \ {r} :
        /\ status'[q] = status[q] /\ receipts'[q] = receipts[q]
        /\ sends'[q] = sends[q] /\ applied'[q] = applied[q]
        /\ call'[q] = call[q] /\ at'[q] = at[q] /\ outcome'[q] = outcome[q] /\ seen'[q] = seen[q]
        /\ \A k \in {"consume", "return", "release"} : Did(k, q)' <=> Did(k, q)

(* The records of a step's new state. *)
Typed ==
    /\ status \in [Reservations -> Statuses] /\ marked \in [Reservations -> BOOLEAN]
    /\ receipts \in [Reservations -> SUBSET (Outcomes \cup {"reservation", "cancelled", "reconcile"})]
    /\ verdict \in [Reservations -> Verdicts \cup {"none"}]
    /\ sends \in [Reservations -> Nat] /\ applied \in [Reservations -> BOOLEAN]
    /\ call \in [Reservations -> Calls] /\ at \in [Reservations -> Awaits]
    /\ \A r \in Reservations : call[r] = "none" <=> at[r] = "none"
    /\ outcome \in [Reservations -> Outcomes \cup {"none"}]
    /\ seen \in [Reservations -> Verdicts \cup {"none"}]
    /\ faults \in 0..MaxFaults[wiring]

LEMMA OthersSettled ==
    ASSUME NEW q \in Reservations, NEW r \in Reservations, q # r, Working(r), Settled(q)
    PROVE  Settled(q)'
<1>1. Standing(q)'
    BY DEF Settled, Standing, Working
<1>2. Sent(q)'
    BY DEF Settled, Sent, Working
<1>3. Published(q)'
    BY DEF Settled, Published, Working
<1>4. Paid(q)'
    BY DEF Settled, Paid, Returned, Past, Working
<1> QED
    BY <1>1, <1>2, <1>3, <1>4 DEF Settled

LEMMA WorkingStep ==
    ASSUME CoordinatorInv, NEW r \in Reservations, Working(r), Typed', Settled(r)'
    PROVE  CoordinatorInv'
<1> TypeOK /\ Alone /\ r \notin handles
    BY DEF CoordinatorInv, TypeOK, Working
<1>1. TypeOK'
    BY DEF TypeOK, Working, Typed
<1>2. Alone'
    <2>1. Recovering' => Recovering
        BY DEF Recovering, Working
    <2>2. \A q \in Reservations : call'[q] \in {call[q], "none"}
        BY DEF Working
    <2>3. \A e \in todo : e[1] \in Reservations
        BY DEF TypeOK
    <2>4. \A q \in Reservations : <<q, "reserved">> \in todo => q # r
        BY DEF Alone, Working
    <2> QED BY <2>1, <2>2, <2>3, <2>4 DEF Alone, Working
<1>3. \A q \in Reservations : q # r => Settled(q)'
    BY OthersSettled DEF CoordinatorInv
<1> QED
    BY <1>1, <1>2, <1>3 DEF CoordinatorInv

(* A call that is not recover()'s is never under way beside recovery or a residue. *)
LEMMA OneCall ==
    ASSUME CoordinatorInv, NEW r \in Reservations, call[r] # "none", call[r] # "recover"
    PROVE  ~residue /\ todo = {} /\ ~Recovering
BY DEF CoordinatorInv, Alone, Recovering

(* A call that gives up leaves its reservation settled. *)
LEMMA LeavingSettles ==
    ASSUME CoordinatorInv, NEW r \in Reservations, call[r] # "none", Leave(r),
           UNCHANGED <<wiring, account, swept, handles, status, receipts, sends, applied>>,
           Returned(r)' => Returned(r) \/ (~applied[r] /\ status[r] # "none"),
           Did("consume", r) => Did("consume", r)',
           wiring.prepares /\ account[r] # NoParent /\ Did("release", r)' => Did("consume", r)'
    PROVE  Settled(r)'
<1> Settled(r) /\ r \notin handles
    BY DEF CoordinatorInv, TypeOK
<1>1. at'[r] = "none" /\ call'[r] = "none" /\ outcome'[r] = "none" /\ seen'[r] = "none"
    BY DEF Leave, CoordinatorInv, TypeOK
<1>2. Standing(r)'
    BY <1>1, AwaitsAre DEF Settled, Standing, Cancelling
<1>3. Sent(r)'
    BY <1>1 DEF Settled, Sent
<1>4. Published(r)'
    BY <1>1 DEF Settled, Published
<1>5. Paid(r)'
    BY <1>1 DEF Settled, Paid, Returned, Past, Sending
<1> QED
    BY <1>2, <1>3, <1>4, <1>5 DEF Settled

(* ... and so does one whose awaited call throws. *)
LEMMA ThrowingSteps ==
    ASSUME CoordinatorInv, NEW r \in Reservations, call[r] # "none", Throw(r),
           faults' \in 0..MaxFaults[wiring],
           UNCHANGED <<wiring, account, swept, residue, status, marked, verdict, receipts, sends,
                       applied>>,
           \A q \in Reservations \ {r}, k \in {"consume", "return", "release"} : Did(k, q)' <=> Did(k, q),
           Returned(r)' => Returned(r) \/ (~applied[r] /\ status[r] # "none"),
           Did("consume", r) => Did("consume", r)',
           wiring.prepares /\ account[r] # NoParent /\ Did("release", r)' => Did("consume", r)'
    PROVE  CoordinatorInv'
<1> TypeOK
    BY DEF CoordinatorInv
<1>1. Settled(r)'
    BY LeavingSettles DEF Throw
<1>2. Typed'
    BY DEF TypeOK, Typed, Throw, Leave, Calls, Awaits
<1>3. Working(r)
    BY DEF TypeOK, Working, Throw, Leave
<1> QED
    BY <1>1, <1>2, <1>3, WorkingStep

(* A throw that changed no store leaves everything settled. *)
LEMMA ThrowingAlone ==
    ASSUME CoordinatorInv, NEW r \in Reservations, call[r] # "none", Throw(r),
           faults' \in 0..MaxFaults[wiring],
           UNCHANGED <<budget, wiring, ledger, chain, provider, locking>>
    PROVE  CoordinatorInv'
<1> operations' = operations
    BY DEF budget
<1>1. \A k, q : Did(k, q)' <=> Did(k, q)
    BY DidKept
<1>2. Returned(r)' <=> Returned(r)
    BY <1>1 DEF Returned
<1>3. wiring.prepares /\ account[r] # NoParent /\ Did("release", r) => Did("consume", r)
    BY DEF CoordinatorInv, Settled, Paid
<1>4. UNCHANGED <<wiring, account, swept, residue, status, marked, verdict, receipts, sends, applied>>
    BY DEF ledger, chain, provider, locking
<1> QED
    BY <1>1, <1>2, <1>3, <1>4, ThrowingSteps

LEMMA BudgetAlone ==
    ASSUME UNCHANGED budget
    PROVE  \A k, q : Did(k, q)' <=> Did(k, q)
BY DidKept DEF budget

(* A step within a call: the next await, and what becomes of the reservation. *)
Moved(r, await, s, p, n, b, o, v) ==
    /\ Working(r) /\ Typed'
    /\ at'[r] = await /\ call'[r] = call[r] /\ handles' = handles /\ account' = account
    /\ wiring' = wiring /\ swept' = swept
    /\ status'[r] = s /\ receipts'[r] = receipts[r] \cup p /\ sends'[r] = n
    /\ applied'[r] = b /\ outcome'[r] = o /\ seen'[r] = v

LEMMA MovingOn ==
    ASSUME CoordinatorInv, NEW r \in Reservations, call[r] # "none", NEW await \in Awaits \ {"none"},
           Move(r, await), UNCHANGED <<wiring, locking>>, faults' \in 0..MaxFaults[wiring],
           \A q \in Reservations \ {r}, k \in {"consume", "return", "release"} : Did(k, q)' <=> Did(k, q),
           NEW s \in Statuses, status' = [status EXCEPT ![r] = s], account' = account,
           marked' \in [Reservations -> BOOLEAN],
           NEW p \in SUBSET (Outcomes \cup {"reservation", "cancelled", "reconcile"}),
           receipts' = [receipts EXCEPT ![r] = @ \cup p],
           verdict' \in [Reservations -> Verdicts \cup {"none"}],
           NEW n \in Nat, sends' = [sends EXCEPT ![r] = n],
           NEW b \in BOOLEAN, applied' = [applied EXCEPT ![r] = b],
           NEW o \in Outcomes \cup {"none"}, outcome' = [outcome EXCEPT ![r] = o],
           NEW v \in Verdicts \cup {"none"}, seen' = [seen EXCEPT ![r] = v]
    PROVE  Moved(r, await, s, p, n, b, o, v)
<1> TypeOK
    BY DEF CoordinatorInv
<1>1. Working(r)
    BY DEF TypeOK, Working, Move, locking
<1>2. Typed'
    BY DEF TypeOK, Typed, Move
<1> QED
    BY <1>1, <1>2 DEF TypeOK, Move, Moved, locking

(* The same when nothing but the await, and perhaps the status, changes. *)
LEMMA GoingTo ==
    ASSUME CoordinatorInv, NEW r \in Reservations, call[r] # "none", NEW await \in Awaits \ {"none"},
           Goto(r, await), UNCHANGED <<wiring, chain, provider, locking>>, faults' \in 0..MaxFaults[wiring],
           \A q \in Reservations \ {r}, k \in {"consume", "return", "release"} : Did(k, q)' <=> Did(k, q),
           NEW s \in Statuses, status' = [status EXCEPT ![r] = s], account' = account,
           marked' \in [Reservations -> BOOLEAN]
    PROVE  Moved(r, await, s, {}, sends[r], applied[r], outcome[r], seen[r])
<1> TypeOK
    BY DEF CoordinatorInv
<1>1. /\ receipts' = [receipts EXCEPT ![r] = @ \cup {}] /\ verdict' = verdict
      /\ sends' = [sends EXCEPT ![r] = sends[r]] /\ applied' = [applied EXCEPT ![r] = applied[r]]
      /\ outcome' = [outcome EXCEPT ![r] = outcome[r]] /\ seen' = [seen EXCEPT ![r] = seen[r]]
    BY DEF TypeOK, Goto, chain, provider, locals
<1>2. /\ sends[r] \in Nat /\ applied[r] \in BOOLEAN /\ outcome[r] \in Outcomes \cup {"none"}
      /\ seen[r] \in Verdicts \cup {"none"} /\ verdict' \in [Reservations -> Verdicts \cup {"none"}]
    BY <1>1 DEF TypeOK
<1>3. Move(r, await)
    BY DEF Goto
<1> QED
    BY <1>1, <1>2, <1>3, MovingOn

-----------------------------------------------------------------------------
(* The steps of dispatch(). *)

LEMMA MarkKeeps ==
    ASSUME CoordinatorInv, NEW r \in Reservations, Mark(r)
    PROVE  CoordinatorInv'
<1> TypeOK /\ Settled(r)
    BY DEF CoordinatorInv
<1>1. call[r] = "dispatch" /\ faults' \in 0..MaxFaults[wiring]
    BY CallAt DEF Mark, Settled, TypeOK
<1>2. CASE Throw(r) /\ UNCHANGED ledger
    BY <1>1, <1>2, ThrowingAlone DEF Mark
<1>3. CASE status[r] = "reserved" /\ Record(r, "dispatched") /\ Goto(r, "charge")
    <2>1. \A k, q : Did(k, q)' <=> Did(k, q)
        BY BudgetAlone DEF Mark
    <2>2. marked' \in [Reservations -> BOOLEAN] /\ account' = account
        BY <1>3 DEF Record, TypeOK
    <2>3. Moved(r, "charge", "dispatched", {}, sends[r], applied[r], outcome[r], seen[r])
        BY <1>1, <1>3, <2>1, <2>2, GoingTo DEF Mark, Record, Awaits, Statuses
    <2>4. Standing(r)'
        BY <1>1, <1>3, <2>3, AwaitsAre DEF Settled, Standing, Moved, Mark, Cancelling
    <2>5. Sent(r)'
        BY <1>1, <1>3, <2>3 DEF Settled, Sent, Moved, Mark, Sending, Unsent
    <2>6. Published(r)'
        BY <1>1, <1>3, <2>3 DEF Settled, Published, Moved, Mark, Outcomes
    <2>7. Paid(r)'
        BY <1>1, <1>3, <2>1, <2>3 DEF Settled, Standing, Paid, Returned, Past, Moved, Mark, Sending
    <2> QED BY <2>3, <2>4, <2>5, <2>6, <2>7, WorkingStep DEF Moved, Settled
<1> QED
    BY <1>2, <1>3 DEF Mark

LEMMA CommitKeeps ==
    ASSUME CoordinatorInv, NEW r \in Reservations, Commit(r)
    PROVE  CoordinatorInv'
<1> TypeOK /\ Settled(r)
    BY DEF CoordinatorInv
<1>1. /\ call[r] = "dispatch"
      /\ faults' \in 0..MaxFaults[wiring]
    BY CallAt DEF Commit, Settled, TypeOK, Cancelling
<1>2. status[r] = "reserved"
    BY <1>1 DEF Commit, Settled, Standing
<1>3. \A k, q : Did(k, q)' <=> Did(k, q)
    BY BudgetAlone DEF Commit
<1> DEFINE await == IF wiring.durable THEN "root" ELSE "send"
<1>4. Moved(r, await, "dispatched", {}, sends[r], applied[r], outcome[r], seen[r])
    <2>1. marked' \in [Reservations -> BOOLEAN] /\ account' = account
        BY DEF Commit, Record, ledger, TypeOK
    <2>2. status' = [status EXCEPT ![r] = "dispatched"] /\ Goto(r, await)
        BY DEF Commit, Record, ledger, TypeOK
    <2>3. await \in Awaits \ {"none"} /\ "dispatched" \in Statuses
        BY <1>2 DEF Awaits, Statuses
    <2> HIDE DEF await
    <2> QED BY <1>1, <1>3, <2>1, <2>2, <2>3, GoingTo DEF Commit
<1>5. Standing(r)'
    BY <1>1, <1>2, <1>4, AwaitsAre DEF Settled, Standing, Moved, Commit, Cancelling
<1>6. Sent(r)'
    BY <1>1, <1>2, <1>4 DEF Settled, Sent, Moved, Commit, Sending, Unsent
<1>7. Published(r)'
    BY <1>1, <1>2, <1>4 DEF Settled, Published, Moved, Commit, Outcomes
<1>8. Paid(r)'
    BY <1>1, <1>2, <1>3, <1>4 DEF Settled, Paid, Returned, Past, Moved, Commit, Sending, Unsent
<1> QED
    BY <1>4, <1>5, <1>6, <1>7, <1>8, WorkingStep DEF Moved, Settled

LEMMA CommitRefusedKeeps ==
    ASSUME CoordinatorInv, NEW r \in Reservations, CommitRefused(r)
    PROVE  CoordinatorInv'
<1> TypeOK /\ Settled(r)
    BY DEF CoordinatorInv
<1>1. /\ call[r] = "dispatch"
      /\ faults' \in 0..MaxFaults[wiring]
    BY CallAt DEF CommitRefused, Settled, TypeOK, Cancelling
<1>2. status[r] = "reserved"
    BY <1>1 DEF CommitRefused, Settled, Standing
<1>3. \A k, q : Did(k, q)' <=> Did(k, q)
    BY BudgetAlone DEF CommitRefused
<1> DEFINE await == "check"
<1>4. Moved(r, await, status[r], {}, sends[r], applied[r], outcome[r], seen[r])
    <2>1. marked' \in [Reservations -> BOOLEAN] /\ account' = account
        BY DEF CommitRefused, Record, ledger, TypeOK
    <2>2. status' = [status EXCEPT ![r] = status[r]] /\ Goto(r, await)
        BY DEF CommitRefused, Record, ledger, TypeOK
    <2>3. await \in Awaits \ {"none"} /\ status[r] \in Statuses
        BY <1>2 DEF Awaits, Statuses
    <2> HIDE DEF await
    <2> QED BY <1>1, <1>3, <2>1, <2>2, <2>3, GoingTo DEF CommitRefused
<1>5. Standing(r)'
    BY <1>1, <1>2, <1>4, AwaitsAre DEF Settled, Standing, Moved, CommitRefused, Cancelling
<1>6. Sent(r)'
    BY <1>1, <1>2, <1>4 DEF Settled, Sent, Moved, CommitRefused, Sending, Unsent
<1>7. Published(r)'
    BY <1>1, <1>2, <1>4 DEF Settled, Published, Moved, CommitRefused, Outcomes
<1>8. Paid(r)'
    BY <1>1, <1>2, <1>3, <1>4 DEF Settled, Paid, Returned, Past, Moved, CommitRefused, Sending, Unsent
<1> QED
    BY <1>4, <1>5, <1>6, <1>7, <1>8, WorkingStep DEF Moved, Settled

LEMMA CommitTornKeeps ==
    ASSUME CoordinatorInv, NEW r \in Reservations, CommitTorn(r)
    PROVE  CoordinatorInv'
<1> TypeOK /\ Settled(r)
    BY DEF CoordinatorInv
<1>1. /\ call[r] = "dispatch"
      /\ faults' \in 0..MaxFaults[wiring]
    BY CallAt, CoordinatorAssumption DEF CommitTorn, Settled, TypeOK, Cancelling
<1>2. status[r] = "reserved"
    BY <1>1 DEF CommitTorn, Settled, Standing
<1>3. \A k, q : Did(k, q)' <=> Did(k, q)
    BY BudgetAlone DEF CommitTorn
<1> DEFINE await == "check"
<1>4. Moved(r, await, "dispatched", {}, sends[r], applied[r], outcome[r], seen[r])
    <2>1. marked' \in [Reservations -> BOOLEAN] /\ account' = account
        BY DEF CommitTorn, Record, ledger, TypeOK
    <2>2. status' = [status EXCEPT ![r] = "dispatched"] /\ Goto(r, await)
        BY DEF CommitTorn, Record, ledger, TypeOK
    <2>3. await \in Awaits \ {"none"} /\ "dispatched" \in Statuses
        BY <1>2 DEF Awaits, Statuses
    <2> HIDE DEF await
    <2> QED BY <1>1, <1>3, <2>1, <2>2, <2>3, GoingTo DEF CommitTorn
<1>5. Standing(r)'
    BY <1>1, <1>2, <1>4, AwaitsAre DEF Settled, Standing, Moved, CommitTorn, Cancelling
<1>6. Sent(r)'
    BY <1>1, <1>2, <1>4 DEF Settled, Sent, Moved, CommitTorn, Sending, Unsent
<1>7. Published(r)'
    BY <1>1, <1>2, <1>4 DEF Settled, Published, Moved, CommitTorn, Outcomes
<1>8. Paid(r)'
    BY <1>1, <1>2, <1>3, <1>4 DEF Settled, Paid, Returned, Past, Moved, CommitTorn, Sending, Unsent
<1> QED
    BY <1>4, <1>5, <1>6, <1>7, <1>8, WorkingStep DEF Moved, Settled

LEMMA CheckKeeps ==
    ASSUME CoordinatorInv, NEW r \in Reservations, Check(r)
    PROVE  CoordinatorInv'
<1> TypeOK /\ Settled(r)
    BY DEF CoordinatorInv
<1>1. /\ call[r] = "dispatch"
      /\ faults' \in 0..MaxFaults[wiring]
    BY CallAt DEF Check, Settled, TypeOK, Cancelling
<1>2. CASE Throw(r)
    BY <1>1, <1>2, ThrowingAlone DEF Check, ledger, chain
<1>3. CASE status[r] = "reserved" /\ Goto(r, "refund")
    <2>1. \A k, q : Did(k, q)' <=> Did(k, q)
        BY BudgetAlone DEF Check
    <2>2. marked' \in [Reservations -> BOOLEAN] /\ account' = account
        BY <1>3 DEF Check, ledger, TypeOK
    <2>3. Moved(r, "refund", status[r], {}, sends[r], applied[r], outcome[r], seen[r])
        BY <1>1, <1>3, <2>1, <2>2, GoingTo DEF Check, ledger, TypeOK, Awaits, Statuses
    <2>4. Standing(r)'
        BY <1>1, <1>3, <2>3, AwaitsAre DEF Settled, Standing, Moved, Check, Cancelling
    <2>5. Sent(r)'
        BY <1>1, <1>3, <2>3 DEF Settled, Standing, Sent, Moved, Check, Sending, Unsent
    <2>6. Published(r)'
        BY <1>1, <1>3, <2>3 DEF Settled, Published, Moved, Check, Outcomes
    <2>7. Paid(r)'
        BY <1>1, <1>3, <2>1, <2>3 DEF Settled, Standing, Paid, Returned, Past, Moved, Check, Unsent, Sending
    <2> QED BY <2>3, <2>4, <2>5, <2>6, <2>7, WorkingStep DEF Moved, Settled
<1> QED
    BY <1>2, <1>3 DEF Check

LEMMA PublishRootKeeps ==
    ASSUME CoordinatorInv, NEW r \in Reservations, PublishRoot(r)
    PROVE  CoordinatorInv'
<1> TypeOK /\ Settled(r)
    BY DEF CoordinatorInv
<1>1. /\ call[r] = "dispatch"
      /\ faults' \in 0..MaxFaults[wiring]
    BY CallAt DEF PublishRoot, Settled, TypeOK, Cancelling
<1>2. CASE Throw(r) /\ UNCHANGED receipts
    BY <1>1, <1>2, ThrowingAlone DEF PublishRoot, ledger, chain
<1>3. CASE Issue(r, "reservation") /\ Goto(r, "send")
    <2>1. \A k, q : Did(k, q)' <=> Did(k, q)
        BY BudgetAlone DEF PublishRoot
    <2>2. /\ status' = [status EXCEPT ![r] = status[r]] /\ account' = account /\ verdict' = verdict
          /\ marked' = marked /\ sends' = [sends EXCEPT ![r] = sends[r]]
          /\ applied' = [applied EXCEPT ![r] = applied[r]]
          /\ outcome' = [outcome EXCEPT ![r] = outcome[r]] /\ seen' = [seen EXCEPT ![r] = seen[r]]
          /\ receipts' = [receipts EXCEPT ![r] = @ \cup {"reservation"}] /\ Move(r, "send")
        BY <1>3 DEF PublishRoot, Issue, Goto, ledger, provider, locals, TypeOK
    <2>3. Moved(r, "send", status[r], {"reservation"}, sends[r], applied[r], outcome[r], seen[r])
        <3>1. /\ status[r] \in Statuses /\ sends[r] \in Nat /\ applied[r] \in BOOLEAN
              /\ outcome[r] \in Outcomes \cup {"none"} /\ seen[r] \in Verdicts \cup {"none"}
              /\ marked' \in [Reservations -> BOOLEAN]
              /\ verdict' \in [Reservations -> Verdicts \cup {"none"}] /\ "send" \in Awaits \ {"none"}
              /\ UNCHANGED <<wiring, locking>>
            BY <2>2 DEF TypeOK, Awaits, PublishRoot
        <3> QED BY <1>1, <2>1, <2>2, <3>1, MovingOn, ZenonT(60)
    <2>4. Standing(r)'
        BY <1>1, <1>3, <2>3, AwaitsAre DEF Settled, Standing, Moved, PublishRoot, Cancelling
    <2>5. Sent(r)'
        BY <1>1, <1>3, <2>3 DEF Settled, Standing, Sent, Moved, PublishRoot, Sending, Unsent
    <2>6. Published(r)'
        BY <1>1, <1>3, <2>3 DEF Settled, Published, Moved, PublishRoot, Outcomes
    <2>7. Paid(r)'
        BY <1>1, <1>3, <2>1, <2>3 DEF Settled, Standing, Paid, Returned, Past, Moved, PublishRoot, Unsent, Sending
    <2> QED BY <2>3, <2>4, <2>5, <2>6, <2>7, WorkingStep DEF Moved, Settled
<1> QED
    BY <1>2, <1>3 DEF PublishRoot

LEMMA ChargeKeeps ==
    ASSUME CoordinatorInv, NEW r \in Reservations, Charge(r)
    PROVE  CoordinatorInv'
<1> TypeOK /\ Settled(r)
    BY DEF CoordinatorInv
<1>1. call[r] = "dispatch" /\ faults' \in 0..MaxFaults[wiring]
    BY CallAt DEF Charge, Settled, TypeOK
<1>2. /\ \A q \in Reservations, k \in {"consume", "return", "release"} : Did(k, q) => Did(k, q)'
      /\ \A q \in Reservations, k \in {"consume", "return", "release"} :
            Did(k, q)' => Did(k, q) \/ (k = "consume" /\ q = r)
      /\ Drawn(r) /\ account[r] # NoParent => Did("consume", r)'
    BY DrawRecords DEF Charge
<1>3. CASE Throw(r)
    <2>1. UNCHANGED <<wiring, account, swept, residue, status, marked, verdict, receipts, sends, applied>>
        BY DEF Charge, ledger, chain, provider, locking
    <2>2. Returned(r)' => Returned(r)
        BY <1>2 DEF Returned
    <2>3. wiring.prepares /\ account[r] # NoParent /\ Did("release", r)' => Did("consume", r)'
        BY <1>2 DEF Settled, Paid
    <2> QED BY <1>1, <1>2, <1>3, <2>1, <2>2, <2>3, ThrowingSteps
<1>4. CASE Drawn(r) /\ Goto(r, IF wiring.prepares THEN "commit" ELSE "send")
    <2> DEFINE await == IF wiring.prepares THEN "commit" ELSE "send"
    <2>1. Moved(r, await, status[r], {}, sends[r], applied[r], outcome[r], seen[r])
        <3>1. /\ status' = [status EXCEPT ![r] = status[r]] /\ account' = account
              /\ marked' \in [Reservations -> BOOLEAN] /\ Goto(r, await)
            BY <1>4 DEF Charge, ledger, TypeOK
        <3>2. await \in Awaits \ {"none"} /\ status[r] \in Statuses
            BY DEF Awaits, TypeOK
        <3> HIDE DEF await
        <3> QED BY <1>1, <1>2, <3>1, <3>2, GoingTo DEF Charge
    <2>2. Standing(r)'
        BY <1>1, <2>1, AwaitsAre DEF Settled, Standing, Moved, Charge, Cancelling
    <2>3. Sent(r)'
        BY <1>1, <2>1 DEF Settled, Sent, Moved, Charge, Sending, Unsent
    <2>4. Published(r)'
        BY <1>1, <2>1 DEF Settled, Published, Moved, Charge, Outcomes
    <2>5. Paid(r)'
        BY <1>1, <1>2, <1>4, <2>1 DEF Settled, Paid, Returned, Past, Moved, Charge, Sending
    <2> QED BY <2>1, <2>2, <2>3, <2>4, <2>5, WorkingStep DEF Moved, Settled
<1> QED
    BY <1>3, <1>4 DEF Charge

LEMMA SendKeeps ==
    ASSUME CoordinatorInv, NEW r \in Reservations, Send(r)
    PROVE  CoordinatorInv'
<1> TypeOK /\ Settled(r)
    BY DEF CoordinatorInv
<1>1. /\ call[r] = "dispatch" /\ faults' \in 0..MaxFaults[wiring] /\ status[r] = "dispatched"
      /\ sends[r] = 0 /\ applied[r] = FALSE
    <2>1. call[r] = "dispatch"
        BY CallAt DEF Send, Settled
    <2> QED BY <2>1 DEF Send, Settled, Standing, Sent, Sending, TypeOK
<1>2. \A k, q : Did(k, q)' <=> Did(k, q)
    BY BudgetAlone DEF Send
<1>3. PICK n \in {0, 1}, b \in BOOLEAN, o \in Outcomes :
        /\ sends' = [sends EXCEPT ![r] = n] /\ applied' = [applied EXCEPT ![r] = b]
        /\ outcome' = [outcome EXCEPT ![r] = o]
        /\ b => n = 1
        /\ o = "acknowledged" => b
    <2>1. CASE outcome' = [outcome EXCEPT ![r] = "ambiguous"] /\ UNCHANGED provider
        <3>1. sends' = [sends EXCEPT ![r] = 0] /\ applied' = [applied EXCEPT ![r] = FALSE]
            BY <1>1, <2>1 DEF provider, TypeOK
        <3> QED BY <2>1, <3>1 DEF Outcomes
    <2>2. CASE \E acts \in BOOLEAN :
                  /\ sends' = [sends EXCEPT ![r] = @ + 1]
                  /\ applied' = [applied EXCEPT ![r] = @ \/ acts]
                  /\ \E answer \in {"ambiguous", IF acts THEN "acknowledged" ELSE "definitive-failure"} :
                        outcome' = [outcome EXCEPT ![r] = answer]
        <3>1. PICK acts \in BOOLEAN :
                /\ sends' = [sends EXCEPT ![r] = @ + 1]
                /\ applied' = [applied EXCEPT ![r] = @ \/ acts]
                /\ \E answer \in {"ambiguous", IF acts THEN "acknowledged" ELSE "definitive-failure"} :
                      outcome' = [outcome EXCEPT ![r] = answer]
            BY <2>2
        <3>2. PICK answer \in {"ambiguous", IF acts THEN "acknowledged" ELSE "definitive-failure"} :
                outcome' = [outcome EXCEPT ![r] = answer]
            BY <3>1
        <3>3. sends' = [sends EXCEPT ![r] = 1]
            BY <1>1, <3>1
        <3>4. applied' = [applied EXCEPT ![r] = acts]
            BY <1>1, <3>1, Zenon
        <3>5. answer \in Outcomes /\ (answer = "acknowledged" => acts)
            BY DEF Outcomes
        <3> QED BY <3>2, <3>3, <3>4, <3>5
    <2> QED BY <2>1, <2>2 DEF Send
<1> DEFINE await == IF ~wiring.prepares /\ wiring.readback /\ outcome'[r] # "ambiguous"
                    THEN "readback" ELSE "publish"
<1>4. Moved(r, await, status[r], {}, n, b, o, seen[r])
    <2>1. /\ status' = [status EXCEPT ![r] = status[r]] /\ account' = account
          /\ receipts' = [receipts EXCEPT ![r] = @ \cup {}] /\ verdict' = verdict /\ marked' = marked
          /\ seen' = [seen EXCEPT ![r] = seen[r]] /\ Move(r, await)
          /\ UNCHANGED <<wiring, locking>>
        BY DEF Send, ledger, chain, TypeOK
    <2>2. /\ await \in Awaits \ {"none"} /\ status[r] \in Statuses /\ seen[r] \in Verdicts \cup {"none"}
          /\ n \in Nat /\ marked' \in [Reservations -> BOOLEAN]
          /\ verdict' \in [Reservations -> Verdicts \cup {"none"}]
        BY <2>1 DEF Awaits, TypeOK
    <2>3. o \in Outcomes \cup {"none"} /\ call[r] # "none"
        BY <1>1
    <2>4. {} \in SUBSET (Outcomes \cup {"reservation", "cancelled", "reconcile"})
        OBVIOUS
    <2> HIDE DEF await
    <2>5. Working(r)
        BY <1>1, <1>2, <1>3, <2>1 DEF TypeOK, Working, Move, locking
    <2>6. Typed'
        BY <1>1, <1>3, <2>1, <2>2, <2>3 DEF TypeOK, Typed, Move
    <2> QED BY <1>3, <2>1, <2>5, <2>6 DEF TypeOK, Move, Moved, locking
<1>5. await \in {"readback", "publish"}
    OBVIOUS
<1> HIDE DEF await
<1>6. Standing(r)'
    BY <1>1, <1>2, <1>3, <1>4, <1>5, AwaitsAre DEF Settled, Standing, Moved, Send, Cancelling, Outcomes, Verdicts
<1>7. Sent(r)'
    BY <1>1, <1>2, <1>3, <1>4, <1>5 DEF Settled, Standing, Sent, Moved, Send, Sending, Unsent, Outcomes
<1>8. Published(r)'
    BY <1>1, <1>2, <1>3, <1>4, <1>5 DEF Settled, Published, Moved, Send, Outcomes
<1>9. Paid(r)'
    BY <1>1, <1>2, <1>3, <1>4, <1>5 DEF Settled, Standing, Paid, Returned, Past, Moved, Send, Sending, Unsent, Cancelling
<1> QED
    BY <1>4, <1>6, <1>7, <1>8, <1>9, WorkingStep DEF Moved, Settled

LEMMA ReadbackKeeps ==
    ASSUME CoordinatorInv, NEW r \in Reservations, Readback(r)
    PROVE  CoordinatorInv'
<1> TypeOK /\ Settled(r)
    BY DEF CoordinatorInv
<1>1. call[r] \in {"dispatch", "reconcile"} /\ faults' \in 0..MaxFaults[wiring]
    BY CallAt DEF Readback, Settled, TypeOK
<1>2. \A k, q : Did(k, q)' <=> Did(k, q)
    BY BudgetAlone DEF Readback
<1>3. PICK v \in Readings(r) :
        /\ seen' = [seen EXCEPT ![r] = v]
        /\ IF call[r] = "dispatch"
           THEN outcome' = [outcome EXCEPT ![r] = OutcomeOf(v)] /\ Move(r, "publish")
           ELSE Move(r, IF Refunds(v) THEN "refund" ELSE "publish-verdict") /\ UNCHANGED outcome
    BY DEF Readback
<1>4. /\ v \in Verdicts /\ (v = "matched" => applied[r]) /\ (v = "not-applied" => ~applied[r])
      /\ v # "none"
    BY DEF Readings, Verdicts
<1> DEFINE await == IF call[r] = "dispatch" THEN "publish"
                    ELSE IF Refunds(v) THEN "refund" ELSE "publish-verdict"
           o == IF call[r] = "dispatch" THEN OutcomeOf(v) ELSE outcome[r]
<1>5. o \in Outcomes \cup {"none"} /\ await \in {"publish", "refund", "publish-verdict"}
    BY DEF TypeOK, OutcomeOf, Outcomes
<1>6. /\ await = "publish" <=> call[r] = "dispatch"
      /\ await = "refund" => ~applied[r]
      /\ await = "publish" => o \in Outcomes
      /\ o = "acknowledged" => applied[r]
    BY <1>4 DEF Refunds, OutcomeOf, Outcomes, Settled, Sent
<1>7. Move(r, await) /\ outcome' = [outcome EXCEPT ![r] = o]
    BY <1>3 DEF TypeOK
<1> HIDE DEF await, o
<1>8. Moved(r, await, status[r], {}, sends[r], applied[r], o, v)
    <2>1. /\ status' = [status EXCEPT ![r] = status[r]] /\ account' = account
          /\ receipts' = [receipts EXCEPT ![r] = @ \cup {}] /\ verdict' = verdict /\ marked' = marked
          /\ sends' = [sends EXCEPT ![r] = sends[r]] /\ applied' = [applied EXCEPT ![r] = applied[r]]
          /\ UNCHANGED <<wiring, locking>>
        BY DEF Readback, ledger, chain, provider, TypeOK
    <2>2. /\ await \in Awaits \ {"none"} /\ status[r] \in Statuses
          /\ sends[r] \in Nat /\ applied[r] \in BOOLEAN /\ marked' \in [Reservations -> BOOLEAN]
          /\ verdict' \in [Reservations -> Verdicts \cup {"none"}]
        BY <1>5, <2>1 DEF Awaits, TypeOK
    <2>3. v \in Verdicts \cup {"none"}
        BY <1>4
    <2>4. {} \in SUBSET (Outcomes \cup {"reservation", "cancelled", "reconcile"})
        OBVIOUS
    <2>5. call[r] # "none" /\ seen' = [seen EXCEPT ![r] = v] /\ o \in Outcomes \cup {"none"}
        BY <1>1, <1>3, <1>5
    <2>6. faults' \in 0..MaxFaults[wiring]
        BY <1>1
    <2>7. Working(r)
        BY <1>2, <1>7, <2>1, <2>5 DEF TypeOK, Working, Move, locking
    <2>8. Typed'
        BY <1>1, <1>7, <2>1, <2>2, <2>3, <2>5 DEF TypeOK, Typed, Move
    <2> QED BY <1>7, <2>1, <2>5, <2>7, <2>8 DEF TypeOK, Move, Moved, locking
<1>9. Standing(r)'
    BY <1>1, <1>2, <1>4, <1>5, <1>6, <1>8, AwaitsAre DEF Settled, Standing, Moved, Readback, Cancelling, Outcomes, Verdicts
<1>10. Sent(r)'
    BY <1>1, <1>2, <1>4, <1>5, <1>6, <1>8 DEF Settled, Standing, Sent, Moved, Readback, Sending, Unsent, Outcomes
<1>11. Published(r)'
    BY <1>1, <1>2, <1>4, <1>5, <1>6, <1>8 DEF Settled, Published, Moved, Readback, Outcomes
<1>12. Paid(r)'
    BY <1>1, <1>2, <1>4, <1>5, <1>6, <1>8 DEF Settled, Standing, Paid, Returned, Past, Moved, Readback, Sending, Unsent, Cancelling
<1> QED
    BY <1>8, <1>9, <1>10, <1>11, <1>12, WorkingStep DEF Moved, Settled

LEMMA RefundKeeps ==
    ASSUME CoordinatorInv, NEW r \in Reservations, Refund(r)
    PROVE  CoordinatorInv'
<1> TypeOK /\ Settled(r)
    BY DEF CoordinatorInv
<1>1. call[r] \in {"dispatch", "reconcile"} /\ faults' \in 0..MaxFaults[wiring]
    BY CallAt DEF Refund, Settled, TypeOK
<1>2. /\ \A q \in Reservations, k \in {"consume", "return", "release"} : Did(k, q) => Did(k, q)'
      /\ \A q \in Reservations, k \in {"consume", "return", "release"} :
            Did(k, q)' => Did(k, q) \/ (k = "release" /\ q = r)
    BY DrawRecords DEF Refund
<1>3. ~applied[r] /\ status[r] # "none"
    BY <1>1 DEF Refund, Settled, Sent, Standing
<1>4. wiring.prepares /\ account[r] # NoParent => Did("consume", r)
    BY <1>1 DEF Refund, Settled, Standing, Paid, Unsent
<1>5. CASE Throw(r)
    <2>1. UNCHANGED <<wiring, account, swept, residue, status, marked, verdict, receipts, sends, applied>>
        BY DEF Refund, ledger, chain, provider, locking
    <2>2. wiring.prepares /\ account[r] # NoParent /\ Did("release", r)' => Did("consume", r)'
        BY <1>2, <1>4
    <2> QED BY <1>1, <1>2, <1>3, <1>5, <2>1, <2>2, ThrowingSteps
<1>6. CASE call[r] = "reconcile" /\ Goto(r, "publish-verdict")
    <2>1. Moved(r, "publish-verdict", status[r], {}, sends[r], applied[r], outcome[r], seen[r])
        <3>1. /\ status' = [status EXCEPT ![r] = status[r]] /\ account' = account
              /\ marked' \in [Reservations -> BOOLEAN]
            BY <1>6 DEF Refund, ledger, TypeOK
        <3>2. "publish-verdict" \in Awaits \ {"none"} /\ status[r] \in Statuses
            BY DEF Awaits, TypeOK
        <3> QED BY <1>1, <1>2, <1>6, <3>1, <3>2, GoingTo DEF Refund
    <2>2. Standing(r)'
        BY <1>1, <1>3, <1>6, <2>1, AwaitsAre DEF Settled, Standing, Moved, Refund, Cancelling, Outcomes, Verdicts
    <2>3. Sent(r)'
        BY <1>1, <1>3, <1>6, <2>1 DEF Settled, Standing, Sent, Moved, Refund, Sending, Unsent, Outcomes
    <2>4. Published(r)'
        BY <1>1, <1>3, <1>6, <2>1 DEF Settled, Standing, Published, Moved, Refund, Outcomes
    <2>5. Paid(r)'
        BY <1>1, <1>3, <1>6, <2>1, <1>2, <1>4 DEF Settled, Standing, Paid, Returned, Past, Moved, Refund, Sending, Unsent, Cancelling
    <2> QED BY <2>1, <2>2, <2>3, <2>4, <2>5, WorkingStep DEF Moved, Settled
<1> QED
    BY <1>5, <1>6 DEF Refund

-----------------------------------------------------------------------------
(* The steps that publish a receipt. *)

LEMMA Issuing ==
    ASSUME CoordinatorInv, NEW r \in Reservations, call[r] # "none", NEW await \in Awaits \ {"none"},
           NEW p \in Outcomes \cup {"reservation", "cancelled", "reconcile"}, Issue(r, p), Goto(r, await),
           UNCHANGED <<budget, wiring, ledger, provider, locking, faults>>,
           verdict' \in [Reservations -> Verdicts \cup {"none"}]
    PROVE  Moved(r, await, status[r], {p}, sends[r], applied[r], outcome[r], seen[r])
<1> TypeOK
    BY DEF CoordinatorInv
<1>1. \A k, q : Did(k, q)' <=> Did(k, q)
    BY BudgetAlone
<1>2. /\ status' = [status EXCEPT ![r] = status[r]] /\ account' = account
      /\ marked' = marked /\ sends' = [sends EXCEPT ![r] = sends[r]]
      /\ applied' = [applied EXCEPT ![r] = applied[r]]
      /\ outcome' = [outcome EXCEPT ![r] = outcome[r]] /\ seen' = [seen EXCEPT ![r] = seen[r]]
      /\ receipts' = [receipts EXCEPT ![r] = @ \cup {p}] /\ Move(r, await)
    BY DEF Issue, Goto, ledger, provider, locals, TypeOK
<1>3. /\ status[r] \in Statuses /\ sends[r] \in Nat /\ applied[r] \in BOOLEAN
      /\ outcome[r] \in Outcomes \cup {"none"} /\ seen[r] \in Verdicts \cup {"none"}
      /\ marked' \in [Reservations -> BOOLEAN] /\ UNCHANGED <<wiring, locking>>
      /\ {p} \in SUBSET (Outcomes \cup {"reservation", "cancelled", "reconcile"})
      /\ faults' \in 0..MaxFaults[wiring]
    BY <1>2 DEF TypeOK
<1> QED
    BY <1>1, <1>2, <1>3, MovingOn, ZenonT(60)

LEMMA PublishKeeps ==
    ASSUME CoordinatorInv, NEW r \in Reservations, Publish(r)
    PROVE  CoordinatorInv'
<1> TypeOK /\ Settled(r)
    BY DEF CoordinatorInv
<1>1. /\ call[r] \in {"dispatch", "recover"}
      /\ faults' \in 0..MaxFaults[wiring]
    BY CallAt DEF Publish, Settled, TypeOK, Cancelling
<1>2. CASE Throw(r) /\ UNCHANGED receipts
    BY <1>1, <1>2, ThrowingAlone DEF Publish, ledger, chain
<1>3. CASE Issue(r, outcome[r]) /\ Goto(r, "settle")
    <2>1. \A k, q : Did(k, q)' <=> Did(k, q)
        BY BudgetAlone DEF Publish
    <2>2. outcome[r] \in Outcomes \cup {"reservation", "cancelled", "reconcile"}
        BY <1>1 DEF Publish, Settled, Standing
    <2>3. Moved(r, "settle", status[r], {outcome[r]}, sends[r], applied[r], outcome[r], seen[r])
        <3>1. verdict' \in [Reservations -> Verdicts \cup {"none"}]
            BY <1>3 DEF Publish, TypeOK
        <3>2. "settle" \in Awaits \ {"none"} /\ call[r] # "none"
            BY <1>1 DEF Awaits
        <3>3. Issue(r, outcome[r]) /\ Goto(r, "settle")
              /\ UNCHANGED <<budget, wiring, ledger, provider, locking, faults>>
            BY <1>3 DEF Publish
        <3> QED BY <2>2, <3>1, <3>2, <3>3, Issuing
    <2>4. Standing(r)'
        BY <1>1, <1>3, <2>2, <2>3, AwaitsAre DEF Settled, Standing, Moved, Publish, Cancelling, Outcomes, Verdicts
    <2>5. Sent(r)'
        BY <1>1, <1>3, <2>2, <2>3 DEF Settled, Standing, Sent, Moved, Publish, Sending, Unsent, Outcomes
    <2>6. Published(r)'
        BY <1>1, <1>3, <2>2, <2>3 DEF Settled, Standing, Published, Moved, Publish, Outcomes
    <2>7. Paid(r)'
        BY <1>1, <1>3, <2>2, <2>3, <2>1 DEF Settled, Standing, Paid, Returned, Past, Moved, Publish, Sending, Unsent, Cancelling
    <2> QED BY <2>3, <2>4, <2>5, <2>6, <2>7, WorkingStep DEF Moved, Settled
<1> QED
    BY <1>2, <1>3 DEF Publish

LEMMA PublishVerdictKeeps ==
    ASSUME CoordinatorInv, NEW r \in Reservations, PublishVerdict(r)
    PROVE  CoordinatorInv'
<1> TypeOK /\ Settled(r)
    BY DEF CoordinatorInv
<1>1. /\ call[r] \in {"dispatch", "reconcile"}
      /\ faults' \in 0..MaxFaults[wiring]
    BY CallAt DEF PublishVerdict, Settled, TypeOK, Cancelling
<1>2. CASE Throw(r) /\ UNCHANGED chain
    BY <1>1, <1>2, ThrowingAlone DEF PublishVerdict, ledger, chain
<1>3. CASE Issue(r, "reconcile") /\ verdict' = [verdict EXCEPT ![r] = seen[r]] /\ Goto(r, "settle-verdict")
    <2>1. \A k, q : Did(k, q)' <=> Did(k, q)
        BY BudgetAlone DEF PublishVerdict
    <2>2. "reconcile" \in Outcomes \cup {"reservation", "cancelled", "reconcile"}
        BY <1>1 DEF PublishVerdict, Settled, Standing
    <2>3. Moved(r, "settle-verdict", status[r], {"reconcile"}, sends[r], applied[r], outcome[r], seen[r])
        <3>1. verdict' \in [Reservations -> Verdicts \cup {"none"}]
            BY <1>3 DEF PublishVerdict, TypeOK
        <3>2. "settle-verdict" \in Awaits \ {"none"} /\ call[r] # "none"
            BY <1>1 DEF Awaits
        <3>3. Issue(r, "reconcile") /\ Goto(r, "settle-verdict")
              /\ UNCHANGED <<budget, wiring, ledger, provider, locking, faults>>
            BY <1>3 DEF PublishVerdict
        <3> QED BY <2>2, <3>1, <3>2, <3>3, Issuing
    <2>4. Standing(r)'
        BY <1>1, <1>3, <2>2, <2>3, AwaitsAre DEF Settled, Standing, Moved, PublishVerdict, Cancelling, Outcomes, Verdicts
    <2>5. Sent(r)'
        BY <1>1, <1>3, <2>2, <2>3 DEF Settled, Standing, Sent, Moved, PublishVerdict, Sending, Unsent, Outcomes
    <2>6. Published(r)'
        BY <1>1, <1>3, <2>2, <2>3 DEF Settled, Standing, Published, Moved, PublishVerdict, Outcomes
    <2>7. Paid(r)'
        BY <1>1, <1>3, <2>2, <2>3, <2>1 DEF Settled, Standing, Paid, Returned, Past, Moved, PublishVerdict, Sending, Unsent, Cancelling
    <2> QED BY <2>3, <2>4, <2>5, <2>6, <2>7, WorkingStep DEF Moved, Settled
<1> QED
    BY <1>2, <1>3 DEF PublishVerdict

LEMMA PublishCancelKeeps ==
    ASSUME CoordinatorInv, NEW r \in Reservations, PublishCancel(r)
    PROVE  CoordinatorInv'
<1> TypeOK /\ Settled(r)
    BY DEF CoordinatorInv
<1>1. /\ call[r] \in {"cancel", "recover"}
      /\ faults' \in 0..MaxFaults[wiring]
    BY CallAt DEF PublishCancel, Settled, TypeOK, Cancelling
<1>3. CASE Issue(r, "cancelled") /\ Goto(r, "settle-cancel")
    <2>1. \A k, q : Did(k, q)' <=> Did(k, q)
        BY BudgetAlone DEF PublishCancel
    <2>2. "cancelled" \in Outcomes \cup {"reservation", "cancelled", "reconcile"}
        BY <1>1 DEF PublishCancel, Settled, Standing
    <2>3. Moved(r, "settle-cancel", status[r], {"cancelled"}, sends[r], applied[r], outcome[r], seen[r])
        <3>1. verdict' \in [Reservations -> Verdicts \cup {"none"}]
            BY <1>3 DEF PublishCancel, TypeOK
        <3>2. "settle-cancel" \in Awaits \ {"none"} /\ call[r] # "none"
            BY <1>1 DEF Awaits
        <3>3. Issue(r, "cancelled") /\ Goto(r, "settle-cancel")
              /\ UNCHANGED <<budget, wiring, ledger, provider, locking, faults>>
            BY <1>3 DEF PublishCancel
        <3> QED BY <2>2, <3>1, <3>2, <3>3, Issuing
    <2>4. Standing(r)'
        BY <1>1, <1>3, <2>2, <2>3, AwaitsAre DEF Settled, Standing, Moved, PublishCancel, Cancelling, Outcomes, Verdicts
    <2>5. Sent(r)'
        BY <1>1, <1>3, <2>2, <2>3 DEF Settled, Standing, Sent, Moved, PublishCancel, Sending, Unsent, Outcomes
    <2>6. Published(r)'
        BY <1>1, <1>3, <2>2, <2>3 DEF Settled, Standing, Published, Moved, PublishCancel, Outcomes
    <2>7. Paid(r)'
        BY <1>1, <1>3, <2>2, <2>3, <2>1 DEF Settled, Standing, Paid, Returned, Past, Moved, PublishCancel, Sending, Unsent, Cancelling
    <2> QED BY <2>3, <2>4, <2>5, <2>6, <2>7, WorkingStep DEF Moved, Settled
<1> QED
    BY <1>3 DEF PublishCancel

LEMMA GiveBackKeeps ==
    ASSUME CoordinatorInv, NEW r \in Reservations, GiveBack(r)
    PROVE  CoordinatorInv'
<1> TypeOK /\ Settled(r)
    BY DEF CoordinatorInv
<1>1. call[r] \in {"cancel", "recover"} /\ faults' \in 0..MaxFaults[wiring]
    BY CallAt DEF GiveBack, Settled, TypeOK, Cancelling
<1>2. /\ \A q \in Reservations, k \in {"consume", "return", "release"} : Did(k, q) => Did(k, q)'
      /\ \A q \in Reservations, k \in {"consume", "return", "release"} :
            Did(k, q)' => Did(k, q) \/ (k = "return" /\ q = r)
    BY DrawRecords DEF GiveBack
<1>3. ~applied[r] /\ status[r] \in {"reserved", "cancelled"}
    BY DEF GiveBack, Settled, Sent, Standing, Cancelling, Unsent, TypeOK
<1>4. CASE Throw(r)
    <2>1. UNCHANGED <<wiring, account, swept, residue, status, marked, verdict, receipts, sends, applied>>
        BY DEF GiveBack, ledger, chain, provider, locking
    <2>2. wiring.prepares /\ account[r] # NoParent /\ Did("release", r)' => Did("consume", r)'
        BY <1>2 DEF Settled, Paid
    <2> QED BY <1>1, <1>2, <1>3, <1>4, <2>1, <2>2, ThrowingSteps
<1>5. CASE Goto(r, "publish-cancel")
    <2>1. Moved(r, "publish-cancel", status[r], {}, sends[r], applied[r], outcome[r], seen[r])
        <3>1. /\ status' = [status EXCEPT ![r] = status[r]] /\ account' = account
              /\ marked' \in [Reservations -> BOOLEAN]
            BY <1>5 DEF GiveBack, ledger, TypeOK
        <3>2. "publish-cancel" \in Awaits \ {"none"} /\ status[r] \in Statuses
            BY DEF Awaits, TypeOK
        <3> QED BY <1>1, <1>2, <1>5, <3>1, <3>2, GoingTo DEF GiveBack
    <2>2. Standing(r)'
        BY <1>1, <1>3, <1>5, <2>1, AwaitsAre DEF Settled, Standing, Moved, GiveBack, Cancelling, Outcomes, Verdicts
    <2>3. Sent(r)'
        BY <1>1, <1>3, <1>5, <2>1 DEF Settled, Standing, Sent, Moved, GiveBack, Sending, Unsent, Outcomes
    <2>4. Published(r)'
        BY <1>1, <1>3, <1>5, <2>1 DEF Settled, Standing, Published, Moved, GiveBack, Outcomes
    <2>5. Paid(r)'
        BY <1>1, <1>3, <1>5, <2>1, <1>2 DEF Settled, Standing, Paid, Returned, Past, Moved, GiveBack, Sending, Unsent, Cancelling
    <2> QED BY <2>1, <2>2, <2>3, <2>4, <2>5, WorkingStep DEF Moved, Settled
<1> QED
    BY <1>4, <1>5 DEF GiveBack

-----------------------------------------------------------------------------
(* The steps that settle a reservation in the ledger. *)

(* A call that ends: what becomes of the reservation. *)
Ended(r, s) ==
    /\ Working(r) /\ Typed'
    /\ at'[r] = "none" /\ call'[r] = "none" /\ outcome'[r] = "none" /\ seen'[r] = "none"
    /\ handles' = handles /\ account' = account /\ wiring' = wiring /\ swept' = swept
    /\ status'[r] = s /\ receipts'[r] = receipts[r] /\ sends'[r] = sends[r] /\ applied'[r] = applied[r]
    /\ \A k \in {"consume", "return", "release"} : Did(k, r)' <=> Did(k, r)

LEMMA Ending ==
    ASSUME CoordinatorInv, NEW r \in Reservations, call[r] # "none", NEW s \in Statuses,
           Record(r, s), End(r), UNCHANGED <<budget, wiring, chain, provider, locking, faults>>
    PROVE  Ended(r, s)
<1> TypeOK
    BY DEF CoordinatorInv
<1>1. \A k, q : Did(k, q)' <=> Did(k, q)
    BY BudgetAlone
<1>2. Working(r)
    BY <1>1 DEF TypeOK, Working, End, Leave, Record, chain, provider, locking
<1>3. Typed'
    BY DEF TypeOK, Typed, End, Leave, Record, chain, provider, Calls, Awaits
<1> QED
    BY <1>1, <1>2, <1>3 DEF TypeOK, Ended, End, Leave, Record, chain, provider, locking

LEMMA SettleVerdictKeeps ==
    ASSUME CoordinatorInv, NEW r \in Reservations, SettleVerdict(r)
    PROVE  CoordinatorInv'
<1> TypeOK /\ Settled(r)
    BY DEF CoordinatorInv
<1>1. /\ call[r] \in {"dispatch", "reconcile", "recover"}
      /\ faults' \in 0..MaxFaults[wiring]
    BY CallAt DEF SettleVerdict, Settled, TypeOK, Cancelling
<1>2. CASE Throw(r) /\ UNCHANGED ledger
    BY <1>1, <1>2, ThrowingAlone DEF SettleVerdict, ledger, chain
<1>3. CASE /\ status[r] \in {"ambiguous", "acknowledged"} /\ Record(r, "reconciled") /\ End(r)
    <2>1. Ended(r, "reconciled")
        BY <1>1, <1>3, Ending DEF SettleVerdict, Statuses
    <2>2. Standing(r)'
        BY <1>1, <1>3, <2>1, AwaitsAre DEF Settled, Standing, Ended, Cancelling
    <2>3. Sent(r)'
        BY <1>1, <1>3, <2>1 DEF Settled, Standing, Sent, Ended, SettleVerdict, Unsent, Outcomes, Cancelling
    <2>4. Published(r)'
        BY <1>1, <1>3, <2>1 DEF Settled, Standing, Published, Ended, SettleVerdict, Outcomes
    <2>5. Paid(r)'
        BY <1>1, <1>3, <2>1 DEF Settled, Standing, Paid, Returned, Past, Ended, SettleVerdict, Unsent, Sending
    <2> QED BY <2>1, <2>2, <2>3, <2>4, <2>5, WorkingStep DEF Ended, Settled
<1> QED
    BY <1>2, <1>3 DEF SettleVerdict

LEMMA SettleCancelKeeps ==
    ASSUME CoordinatorInv, NEW r \in Reservations, SettleCancel(r)
    PROVE  CoordinatorInv'
<1> TypeOK /\ Settled(r)
    BY DEF CoordinatorInv
<1>1. /\ call[r] \in {"cancel", "recover"}
      /\ faults' \in 0..MaxFaults[wiring]
    BY CallAt DEF SettleCancel, Settled, TypeOK, Cancelling
<1>2. CASE Throw(r) /\ UNCHANGED ledger
    BY <1>1, <1>2, ThrowingAlone DEF SettleCancel, ledger, chain
<1>3. CASE /\ status[r] = "reserved" /\ Record(r, "cancelled") /\ End(r)
    <2>1. Ended(r, "cancelled")
        BY <1>1, <1>3, Ending DEF SettleCancel, Statuses
    <2>2. Standing(r)'
        BY <1>1, <1>3, <2>1, AwaitsAre DEF Settled, Standing, Ended, Cancelling
    <2>3. Sent(r)'
        BY <1>1, <1>3, <2>1 DEF Settled, Standing, Sent, Ended, SettleCancel, Unsent, Outcomes, Cancelling
    <2>4. Published(r)'
        BY <1>1, <1>3, <2>1 DEF Settled, Standing, Published, Ended, SettleCancel, Outcomes
    <2>5. Paid(r)'
        BY <1>1, <1>3, <2>1 DEF Settled, Standing, Paid, Returned, Past, Ended, SettleCancel, Unsent, Sending
    <2> QED BY <2>1, <2>2, <2>3, <2>4, <2>5, WorkingStep DEF Ended, Settled
<1> QED
    BY <1>2, <1>3 DEF SettleCancel

LEMMA SettleKeeps ==
    ASSUME CoordinatorInv, NEW r \in Reservations, Settle(r)
    PROVE  CoordinatorInv'
<1> TypeOK /\ Settled(r)
    BY DEF CoordinatorInv
<1>1. /\ call[r] \in {"dispatch", "recover"} /\ outcome[r] \in Outcomes
      /\ faults' \in 0..MaxFaults[wiring]
    BY CallAt DEF Settle, Settled, Standing, TypeOK, Cancelling
<1>2. CASE Throw(r) /\ UNCHANGED ledger
    BY <1>1, <1>2, ThrowingAlone DEF Settle, ledger, chain
<1>3. CASE status[r] = "dispatched" /\ Record(r, outcome[r]) /\ End(r)
    <2>1. Ended(r, outcome[r])
        BY <1>1, <1>3, Ending DEF Settle, Statuses, Outcomes
    <2>2. Standing(r)'
        BY <1>1, <1>3, <2>1, AwaitsAre DEF Settled, Standing, Ended, Cancelling
    <2>3. Sent(r)'
        BY <1>1, <1>3, <2>1 DEF Settled, Standing, Sent, Ended, Settle, Unsent, Outcomes, Cancelling
    <2>4. Published(r)'
        BY <1>1, <1>3, <2>1 DEF Settled, Standing, Published, Ended, Settle, Outcomes
    <2>5. Paid(r)'
        BY <1>1, <1>3, <2>1 DEF Settled, Standing, Paid, Returned, Past, Ended, Settle, Unsent, Sending, Outcomes
    <2> QED BY <2>1, <2>2, <2>3, <2>4, <2>5, WorkingStep DEF Ended, Settled
<1>4. CASE /\ status[r] = "dispatched" /\ Record(r, outcome[r])
           /\ call[r] = "dispatch" /\ seen[r] # "none" /\ Goto(r, "publish-verdict")
    <2>1. \A k, q : Did(k, q)' <=> Did(k, q)
        BY BudgetAlone DEF Settle
    <2>2. marked' \in [Reservations -> BOOLEAN] /\ account' = account
        BY <1>4 DEF Record, TypeOK
    <2>3. Moved(r, "publish-verdict", outcome[r], {}, sends[r], applied[r], outcome[r], seen[r])
        BY <1>1, <1>4, <2>1, <2>2, GoingTo DEF Settle, Record, Awaits, Statuses, Outcomes
    <2>4. seen[r] \in Verdicts
        BY <1>4 DEF TypeOK
    <2>5. Standing(r)'
        BY <1>1, <1>4, <2>3, <2>4, AwaitsAre DEF Settled, Standing, Moved, Settle, Cancelling, Outcomes, Verdicts
    <2>6. Sent(r)'
        BY <1>1, <1>4, <2>3, <2>4 DEF Settled, Standing, Sent, Moved, Settle, Sending, Unsent, Outcomes
    <2>7. Published(r)'
        BY <1>1, <1>4, <2>3, <2>4 DEF Settled, Standing, Published, Moved, Settle, Outcomes
    <2>8. Paid(r)'
        BY <1>1, <1>4, <2>3, <2>4, <2>1 DEF Settled, Standing, Paid, Returned, Past, Moved, Settle, Sending, Unsent, Outcomes
    <2> QED BY <2>3, <2>5, <2>6, <2>7, <2>8, WorkingStep DEF Moved, Settled
<1> QED
    BY <1>2, <1>3, <1>4 DEF Settle

-----------------------------------------------------------------------------
(* Where calls start, and what happens to the whole process. *)

LEMMA ProceedKeeps ==
    ASSUME CoordinatorInv, NEW r \in Reservations, Proceed(r)
    PROVE  CoordinatorInv'
BY MarkKeeps, ChargeKeeps, CommitKeeps, CommitRefusedKeeps, CheckKeeps, PublishRootKeeps, SendKeeps,
   ReadbackKeeps, RefundKeeps, PublishKeeps, SettleKeeps, PublishVerdictKeeps, SettleVerdictKeeps,
   GiveBackKeeps, PublishCancelKeeps, SettleCancelKeeps DEF Proceed

LEMMA FailsKeeps ==
    ASSUME CoordinatorInv, NEW r \in Reservations, Fails(r)
    PROVE  CoordinatorInv'
<1>1. call[r] # "none" /\ faults' \in 0..MaxFaults[wiring]
    BY CoordinatorAssumption DEF Fails, CoordinatorInv, TypeOK
<1> QED
    BY <1>1, ThrowingAlone DEF Fails

(* Beside a reservation at rest. *)
LEMMA ReserveKeeps ==
    ASSUME CoordinatorInv, NEW r \in Reservations, Reserve(r)
    PROVE  CoordinatorInv'
<1> TypeOK /\ Alone /\ \A q \in Reservations : Settled(q)
    BY DEF CoordinatorInv
<1>1. \A k, q : Did(k, q)' <=> Did(k, q)
    BY BudgetAlone DEF Reserve
<1>2. call[r] = "none" /\ at[r] = "none" /\ sends[r] = 0 /\ ~applied[r] /\ ~Returned(r) /\ r \notin handles
    BY DEF Reserve, TypeOK, Settled, Standing, Sent, Unsent, Paid, Past
<1>3. /\ status' = [status EXCEPT ![r] = "reserved"] /\ handles' = handles \cup {r}
      /\ UNCHANGED <<receipts, sends, applied, call, at, outcome, seen, wiring, swept>>
      /\ \A q \in Reservations : q # r => account'[q] = account[q]
    BY DEF Reserve, chain, provider, locals, locking, TypeOK
<1>4. TypeOK'
    BY <1>2 DEF Reserve, TypeOK, chain, provider, locals, locking, Statuses
<1>5. Alone'
    BY <1>2 DEF Reserve, Alone, Recovering, Locked, locking, TypeOK
<1>6. Settled(r)'
    <2>1. status'[r] = "reserved"
        BY <1>3 DEF TypeOK
    <2>2. Standing(r)'
        BY <1>2, <1>3, <2>1 DEF Settled, Standing, Cancelling
    <2>3. Sent(r)'
        BY <1>2, <1>3, <2>1 DEF Settled, Sent
    <2>4. Published(r)'
        BY <1>2, <1>3, <2>1 DEF Settled, Published, Outcomes
    <2>5. Paid(r)'
        BY <1>1, <1>2, <1>3, <2>1 DEF Returned, Paid, Unsent
    <2> QED BY <2>2, <2>3, <2>4, <2>5 DEF Settled
<1>7. ASSUME NEW q \in Reservations, q # r
      PROVE  Settled(q)'
    <2>1. status'[q] = status[q] /\ (q \in handles' <=> q \in handles)
        BY <1>3, <1>7 DEF TypeOK
    <2>2. Standing(q)' /\ Sent(q)' /\ Published(q)'
        BY <1>3, <2>1 DEF Settled, Standing, Sent, Published
    <2>3. Paid(q)'
        BY <1>1, <1>3, <1>7, <2>1 DEF Settled, Paid, Returned, Past
    <2> QED BY <2>2, <2>3 DEF Settled
<1> QED
    BY <1>4, <1>5, <1>6, <1>7 DEF CoordinatorInv

(* A call that takes up a reservation. *)
LEMMA TakingUp ==
    ASSUME CoordinatorInv, NEW r \in Reservations, call[r] = "none", status[r] # "none",
           NEW c \in Calls \ {"none"}, NEW await \in Awaits \ {"none"}, Enter(r, c, await),
           ~Recovering /\ ~residue /\ todo' = {},
           handles' \subseteq handles, r \notin handles', \A q \in handles : q # r => q \in handles',
           UNCHANGED <<budget, wiring, ledger, chain, provider, outcome, locking, faults>>,
           NEW v \in Verdicts \cup {"none"}, seen' = [seen EXCEPT ![r] = v],
           c # "recover", Standing(r)', Sent(r)', Published(r)', Paid(r)'
    PROVE  CoordinatorInv'
<1> TypeOK /\ Alone /\ \A q \in Reservations : Settled(q)
    BY DEF CoordinatorInv
<1>1. \A k, q : Did(k, q)' <=> Did(k, q)
    BY BudgetAlone
<1>2. /\ UNCHANGED <<status, marked, account, receipts, verdict, sends, applied, outcome, wiring, swept,
                     residue, faults>>
    BY DEF ledger, chain, provider, locking
<1>3. TypeOK'
    BY <1>2 DEF TypeOK, Enter
<1>4. Alone'
    BY <1>2 DEF Alone, Recovering, Enter, TypeOK
<1>5. ASSUME NEW q \in Reservations, q # r
      PROVE  Settled(q)'
    <2>1. /\ call'[q] = call[q] /\ at'[q] = at[q] /\ seen'[q] = seen[q]
          /\ (q \in handles' <=> q \in handles)
        BY <1>5 DEF Enter, TypeOK
    <2>2. Standing(q)' /\ Sent(q)' /\ Published(q)'
        BY <1>2, <2>1 DEF Settled, Standing, Sent, Published
    <2>3. Paid(q)'
        BY <1>1, <1>2, <2>1 DEF Settled, Paid, Returned, Past
    <2> QED BY <2>2, <2>3 DEF Settled
<1> QED
    BY <1>3, <1>4, <1>5 DEF CoordinatorInv, Settled

LEMMA DispatchKeeps ==
    ASSUME CoordinatorInv, NEW r \in Reservations, Dispatch(r)
    PROVE  CoordinatorInv'
<1> TypeOK /\ Alone /\ Settled(r) /\ r \in handles
    BY DEF CoordinatorInv, Dispatch
<1>1. /\ call[r] = "none" /\ status[r] = "reserved" /\ sends[r] = 0 /\ ~applied[r] /\ ~Returned(r)
      /\ ~Recovering /\ ~residue /\ todo = {}
    BY DEF TypeOK, Settled, Sent, Unsent, Paid, Past, Alone, Recovering
<1> DEFINE await == IF wiring.prepares THEN "charge" ELSE "mark"
<1>2. await \in {"charge", "mark", "return"} /\ (await = "mark" => ~wiring.prepares)
      /\ (await = "charge" => wiring.prepares)
    OBVIOUS
<1>3. \A k, q : Did(k, q)' <=> Did(k, q)
    BY BudgetAlone DEF Dispatch
<1>4. /\ call'[r] = "dispatch" /\ at'[r] = await /\ r \notin handles'
      /\ UNCHANGED <<status, receipts, account, sends, applied, wiring, swept, outcome, seen>>
    BY DEF Dispatch, Enter, TypeOK, ledger, chain, provider, locals, locking
<1>5. await \in AwaitsOf("dispatch")
    BY AwaitsAre
<1> HIDE DEF await
<1>6. Standing(r)'
    BY <1>1, <1>2, <1>4, <1>5 DEF Settled, Standing, Cancelling
<1>7. Sent(r)'
    BY <1>1, <1>2, <1>4 DEF Settled, Sent
<1>8. Published(r)'
    BY <1>1, <1>2, <1>4 DEF Settled, Published
<1>9. Paid(r)'
    BY <1>1, <1>2, <1>3, <1>4 DEF Settled, Paid, Returned
<1>10. Enter(r, "dispatch", await) /\ seen' = [seen EXCEPT ![r] = seen[r]] /\ handles' = handles \ {r}
       /\ todo' = {} /\ UNCHANGED <<budget, wiring, ledger, chain, provider, outcome, locking, faults>>
    BY <1>1 DEF Dispatch, locals, TypeOK, await
<1>11. seen[r] \in Verdicts \cup {"none"} /\ await \in Awaits \ {"none"} /\ "dispatch" \in Calls \ {"none"}
    BY <1>2 DEF TypeOK, Awaits, Calls
<1> QED
    BY <1>1, <1>6, <1>7, <1>8, <1>9, <1>10, <1>11, TakingUp

LEMMA CancelKeeps ==
    ASSUME CoordinatorInv, NEW r \in Reservations, Cancel(r)
    PROVE  CoordinatorInv'
<1> TypeOK /\ Alone /\ Settled(r) /\ r \in handles
    BY DEF CoordinatorInv, Cancel
<1>1. /\ call[r] = "none" /\ status[r] = "reserved" /\ sends[r] = 0 /\ ~applied[r] /\ ~Returned(r)
      /\ ~Recovering /\ ~residue /\ todo = {}
    BY DEF TypeOK, Settled, Sent, Unsent, Paid, Past, Alone, Recovering
<1> DEFINE await == "return"
<1>2. await = "return"
    OBVIOUS
<1>3. \A k, q : Did(k, q)' <=> Did(k, q)
    BY BudgetAlone DEF Cancel
<1>4. /\ call'[r] = "cancel" /\ at'[r] = await /\ r \notin handles'
      /\ UNCHANGED <<status, receipts, account, sends, applied, wiring, swept, outcome, seen>>
    BY DEF Cancel, Enter, TypeOK, ledger, chain, provider, locals, locking
<1>5. await \in AwaitsOf("cancel")
    BY AwaitsAre
<1> HIDE DEF await
<1>6. Standing(r)'
    BY <1>1, <1>2, <1>4, <1>5 DEF Settled, Standing, Cancelling
<1>7. Sent(r)'
    BY <1>1, <1>2, <1>4 DEF Settled, Sent
<1>8. Published(r)'
    BY <1>1, <1>2, <1>4 DEF Settled, Published
<1>9. Paid(r)'
    BY <1>1, <1>2, <1>3, <1>4 DEF Settled, Paid, Returned
<1>10. Enter(r, "cancel", await) /\ seen' = [seen EXCEPT ![r] = seen[r]] /\ handles' = handles \ {r}
       /\ todo' = {} /\ UNCHANGED <<budget, wiring, ledger, chain, provider, outcome, locking, faults>>
    BY <1>1 DEF Cancel, locals, TypeOK, await
<1>11. seen[r] \in Verdicts \cup {"none"} /\ await \in Awaits \ {"none"} /\ "cancel" \in Calls \ {"none"}
    BY <1>2 DEF TypeOK, Awaits, Calls
<1> QED
    BY <1>1, <1>6, <1>7, <1>8, <1>9, <1>10, <1>11, TakingUp

LEMMA ReconcileKeeps ==
    ASSUME CoordinatorInv, NEW r \in Reservations, Reconcile(r)
    PROVE  CoordinatorInv'
<1> TypeOK /\ Alone /\ Settled(r)
    BY DEF CoordinatorInv
<1>1. /\ call[r] = "none" /\ status[r] = "ambiguous" /\ ~Recovering /\ ~residue /\ todo = {}
      /\ r \notin handles
    BY DEF Reconcile, Recovering, Locked, TypeOK
<1>2. PICK await \in {"readback", "settle-verdict"}, v \in Verdicts \cup {"none"} :
        /\ Enter(r, "reconcile", await) /\ seen' = [seen EXCEPT ![r] = v]
        /\ await = "settle-verdict" => "reconcile" \in receipts[r]
    <2>1. seen = [seen EXCEPT ![r] = seen[r]] /\ seen[r] \in Verdicts \cup {"none"}
        BY DEF TypeOK
    <2>2. CASE Enter(r, "reconcile", "readback") /\ UNCHANGED seen
        BY <2>1, <2>2
    <2>3. CASE /\ Head(r) = "reconcile" /\ Enter(r, "reconcile", "settle-verdict")
               /\ seen' = [seen EXCEPT ![r] = "matched"]
        BY <2>3, HeadIsPublished DEF Verdicts
    <2> QED BY <2>2, <2>3 DEF Reconcile
<1>3. \A k, q : Did(k, q)' <=> Did(k, q)
    BY BudgetAlone DEF Reconcile
<1>4. /\ call'[r] = "reconcile" /\ at'[r] = await
      /\ UNCHANGED <<status, receipts, account, sends, applied, wiring, swept, outcome, handles>>
    BY <1>2 DEF Reconcile, Enter, TypeOK, ledger, chain, provider, locking
<1>5. Standing(r)'
    BY <1>1, <1>4, AwaitsAre DEF Settled, Standing, Cancelling
<1>6. Sent(r)'
    BY <1>1, <1>4 DEF Settled, Sent
<1>7. Published(r)'
    BY <1>1, <1>2, <1>4 DEF Settled, Published
<1>8. Paid(r)'
    BY <1>1, <1>3, <1>4 DEF Settled, Paid, Returned, Past
<1>9. todo' = {} /\ handles' = handles
      /\ UNCHANGED <<budget, wiring, ledger, chain, provider, outcome, locking, faults>>
    BY <1>1 DEF Reconcile
<1>10. await \in Awaits \ {"none"} /\ "reconcile" \in Calls \ {"none"} /\ "reconcile" # "recover"
       /\ status[r] # "none"
    BY <1>1 DEF Awaits, Calls
<1> QED
    BY <1>1, <1>2, <1>5, <1>6, <1>7, <1>8, <1>9, <1>10, TakingUp

LEMMA RevokeTaskKeeps ==
    ASSUME CoordinatorInv, RevokeTask
    PROVE  CoordinatorInv'
<1>1. operations' = operations
    BY DEF RevokeTask, Budget!RevokeTask, Budget!Mutated, Budget!Record, Budget!Answer
<1>2. \A k, q : Did(k, q)' <=> Did(k, q)
    BY <1>1, DidKept
<1>3. UNCHANGED <<wiring, ledger, chain, provider, volatile, locals, locking, faults>>
    BY DEF RevokeTask
<1> HIDE DEF RevokeTask
<1>4. TypeOK' /\ Alone'
    BY <1>3 DEF CoordinatorInv, TypeOK, Alone, Recovering, ledger, chain, provider, volatile, locals, locking
<1>5. ASSUME NEW q \in Reservations
      PROVE  Settled(q)'
    <2>1. Standing(q)' /\ Sent(q)' /\ Published(q)'
        BY <1>3 DEF CoordinatorInv, Settled, Standing, Sent, Published, ledger, chain, provider, volatile,
                    locals, locking
    <2>2. Paid(q)'
        BY <1>2, <1>3 DEF CoordinatorInv, Settled, Paid, Returned, Past, ledger, provider, volatile
    <2> QED BY <2>1, <2>2 DEF Settled
<1> QED
    BY <1>4, <1>5 DEF CoordinatorInv

LEMMA RecoverKeeps ==
    ASSUME CoordinatorInv, Recover
    PROVE  CoordinatorInv'
<1>1. \A k, q : Did(k, q)' <=> Did(k, q)
    BY BudgetAlone DEF Recover
<1>2. /\ todo' = {<<r, status[r]>> : r \in Open} /\ AtRest
      /\ UNCHANGED <<wiring, status, marked, account, receipts, verdict, sends, applied, handles, call, at,
                     outcome, seen, residue, swept, faults>>
    BY DEF Recover, ledger, chain, provider, locals, locking
<1>3. TypeOK'
    BY <1>2 DEF CoordinatorInv, TypeOK, Open
<1>4. Alone'
    BY <1>2 DEF CoordinatorInv, Alone, Recovering, AtRest, Open
<1>5. ASSUME NEW q \in Reservations
      PROVE  Settled(q)'
    <2>1. Standing(q)' /\ Sent(q)' /\ Published(q)'
        BY <1>2 DEF CoordinatorInv, Settled, Standing, Sent, Published
    <2>2. Paid(q)'
        BY <1>1, <1>2 DEF CoordinatorInv, Settled, Paid, Returned, Past
    <2> QED BY <2>1, <2>2 DEF Settled
<1> QED
    BY <1>3, <1>4, <1>5 DEF CoordinatorInv

LEMMA CrashKeeps ==
    ASSUME CoordinatorInv, Crash
    PROVE  CoordinatorInv'
<1> TypeOK
    BY DEF CoordinatorInv
<1>1. \A k, q : Did(k, q)' <=> Did(k, q)
    BY BudgetAlone DEF Crash
<1>2. /\ handles' = {} /\ todo' = {}
      /\ \A q \in Reservations : call'[q] = "none" /\ at'[q] = "none" /\ outcome'[q] = "none" /\ seen'[q] = "none"
      /\ UNCHANGED <<wiring, status, marked, account, receipts, verdict, sends, applied, swept>>
    BY DEF Crash, ledger, chain, provider
<1>3. TypeOK'
    <2>1. faults' \in 0..MaxFaults[wiring]
        BY CoordinatorAssumption DEF TypeOK, Crash
    <2>2. residue' \in BOOLEAN
        BY DEF TypeOK, Crash
    <2>3. /\ call' \in [Reservations -> Calls] /\ at' \in [Reservations -> Awaits]
          /\ outcome' \in [Reservations -> Outcomes \cup {"none"}]
          /\ seen' \in [Reservations -> Verdicts \cup {"none"}]
        BY DEF Crash, Calls, Awaits
    <2> QED BY <1>2, <2>1, <2>2, <2>3 DEF TypeOK
<1>4. Alone'
    BY <1>2 DEF Alone, Recovering
<1>5. ASSUME NEW q \in Reservations
      PROVE  Settled(q)'
    <2>1. Standing(q)'
        BY <1>2, AwaitsAre DEF Standing, Cancelling
    <2>2. Sent(q)'
        BY <1>2 DEF CoordinatorInv, Settled, Sent
    <2>3. Published(q)'
        BY <1>2 DEF CoordinatorInv, Settled, Published
    <2>4. Paid(q)'
        BY <1>1, <1>2 DEF CoordinatorInv, Settled, Paid, Returned, Past
    <2> QED BY <2>1, <2>2, <2>3, <2>4 DEF Settled
<1> QED
    BY <1>3, <1>4, <1>5 DEF CoordinatorInv

LEMMA RetireKeeps ==
    ASSUME CoordinatorInv, Retire
    PROVE  CoordinatorInv'
<1> TypeOK /\ Alone
    BY DEF CoordinatorInv
<1>1. \A k, q : Did(k, q)' <=> Did(k, q)
    BY BudgetAlone DEF Retire
<1>2. /\ handles = {} /\ \A q \in Reservations : call[q] \in {"none", "recover"}
      /\ UNCHANGED <<wiring, marked, account, receipts, verdict, sends, applied, handles, call, at, todo,
                     outcome, seen, faults>>
    BY DEF Retire, Alone, ledger, chain, provider, volatile, locals
<1>3. \A q \in Reservations :
        /\ \/ status'[q] = status[q]
           \/ status[q] = "reserved" /\ status'[q] = "cancelled" /\ q \in swept'
           \/ status[q] = "dispatched" /\ status'[q] = "ambiguous" /\ q \in swept'
        /\ q \in swept => q \in swept'
    BY DEF Retire
<1>4. TypeOK'
    <2>1. status' \in [Reservations -> Statuses]
        BY DEF Retire, TypeOK, Statuses
    <2> QED BY <1>2, <2>1 DEF TypeOK, Retire
<1>5. Alone'
    <2>1. todo \subseteq Reservations \X {"reserved", "dispatched", "ambiguous"}
        BY DEF TypeOK
    <2>2. \A e \in todo : e[1] \in Reservations
        BY <2>1
    <2> QED BY <1>2, <1>3, <2>2 DEF Alone, Recovering, Retire
<1>6. ASSUME NEW q \in Reservations
      PROVE  Settled(q)'
    <2> Settled(q)
        BY DEF CoordinatorInv
    <2>1. Standing(q)'
        BY <1>2, <1>3 DEF Settled, Standing
    <2>2. Sent(q)'
        BY <1>2, <1>3 DEF Settled, Sent, Unsent
    <2>3. Published(q)'
        BY <1>2, <1>3 DEF Settled, Published
    <2>4. Paid(q)'
        BY <1>1, <1>2, <1>3 DEF Settled, Paid, Returned, Past, Unsent
    <2> QED BY <2>1, <2>2, <2>3, <2>4 DEF Settled
<1> QED
    BY <1>4, <1>5, <1>6 DEF CoordinatorInv

(* What recover() does with the next reservation of its list. *)
LEMMA Resuming ==
    ASSUME CoordinatorInv, NEW r \in Reservations, NEW listed, <<r, listed>> \in todo,
           NEW await \in AwaitsOf("recover"), Resume(r, await), todo' = todo \ {<<r, listed>>},
           NEW o \in Outcomes \cup {"none"}, outcome' = [outcome EXCEPT ![r] = o],
           UNCHANGED <<budget, wiring, ledger, chain, provider, handles, seen, locking, faults>>,
           await = "return" => listed = "reserved",
           await \in {"publish", "settle"} => o \in Outcomes,
           o = "acknowledged" => applied[r],
           await = "settle" => o \in receipts[r],
           await = "settle-verdict" => "reconcile" \in receipts[r],
           await \notin {"publish-cancel", "settle-cancel"}
    PROVE  CoordinatorInv'
<1> TypeOK /\ Alone /\ Settled(r)
    BY DEF CoordinatorInv
<1>1. /\ handles = {} /\ call[r] = "none" /\ status[r] # "none"
      /\ \A q \in Reservations : call[q] \in {"none", "recover"}
      /\ await = "return" => status[r] \in {"reserved", "cancelled"}
    BY DEF Alone, Recovering
<1>2. \A k, q : Did(k, q)' <=> Did(k, q)
    BY BudgetAlone
<1>3. /\ call'[r] = "recover" /\ at'[r] = await /\ outcome'[r] = o /\ handles' = {}
      /\ UNCHANGED <<status, receipts, account, sends, applied, wiring, swept, seen, marked, verdict, residue>>
      /\ \A q \in Reservations : q # r => call'[q] = call[q] /\ at'[q] = at[q] /\ outcome'[q] = outcome[q]
    BY <1>1 DEF Resume, Enter, TypeOK, ledger, chain, provider, locking
<1>4. await \in Awaits \ {"none"}
    BY AwaitsAre DEF Awaits
<1>5. TypeOK'
    BY <1>3, <1>4 DEF TypeOK, Resume, Enter, Calls
<1>6. Alone'
    <2>1. todo \subseteq Reservations \X {"reserved", "dispatched", "ambiguous"}
        BY DEF TypeOK
    <2>2. \A e \in todo' : e \in todo /\ e[1] \in Reservations /\ e[1] # r
        BY <2>1 DEF Alone
    <2>3. \A e \in todo' : call'[e[1]] = "none" /\ status'[e[1]] # "none"
        BY <1>3, <2>2 DEF Alone
    <2>4. \A q \in Reservations : call'[q] \in {"none", "recover"}
        BY <1>1, <1>3
    <2> QED BY <1>3, <2>2, <2>3, <2>4 DEF Alone, Recovering
<1>7. Standing(r)'
    BY <1>1, <1>3, <1>4, AwaitsAre DEF Settled, Standing, Cancelling
<1>8. Sent(r)'
    <2>1. await # "refund"
        BY AwaitsAre
    <2> QED BY <1>1, <1>3, <2>1 DEF Settled, Sent
<1>9. Published(r)'
    BY <1>3 DEF Settled, Published
<1>10. Paid(r)'
    BY <1>1, <1>2, <1>3 DEF Settled, Paid, Returned, Past
<1>11. ASSUME NEW q \in Reservations, q # r
       PROVE  Settled(q)'
    <2> Settled(q)
        BY DEF CoordinatorInv
    <2>1. Standing(q)' /\ Sent(q)' /\ Published(q)'
        BY <1>1, <1>3, <1>11 DEF Settled, Standing, Sent, Published
    <2>2. Paid(q)'
        BY <1>1, <1>2, <1>3, <1>11 DEF Settled, Paid, Returned, Past
    <2> QED BY <2>1, <2>2 DEF Settled
<1> QED
    BY <1>5, <1>6, <1>7, <1>8, <1>9, <1>10, <1>11 DEF CoordinatorInv, Settled

LEMMA PassingOver ==
    ASSUME CoordinatorInv, todo' \subseteq todo,
           UNCHANGED <<budget, wiring, ledger, chain, provider, handles, call, at, locals, locking, faults>>
    PROVE  CoordinatorInv'
<1> TypeOK /\ Alone
    BY DEF CoordinatorInv
<1>1. \A k, q : Did(k, q)' <=> Did(k, q)
    BY BudgetAlone
<1>2. UNCHANGED <<wiring, status, marked, account, receipts, verdict, sends, applied, handles, call, at,
                  outcome, seen, residue, swept, faults>>
    BY DEF ledger, chain, provider, locals, locking
<1>3. TypeOK'
    BY <1>2 DEF TypeOK
<1>4. Alone'
    BY <1>2 DEF Alone, Recovering
<1>5. ASSUME NEW q \in Reservations
      PROVE  Settled(q)'
    <2>1. Standing(q)' /\ Sent(q)' /\ Published(q)'
        BY <1>2 DEF CoordinatorInv, Settled, Standing, Sent, Published
    <2>2. Paid(q)'
        BY <1>1, <1>2 DEF CoordinatorInv, Settled, Paid, Returned, Past
    <2> QED BY <2>1, <2>2 DEF Settled
<1> QED
    BY <1>3, <1>4, <1>5 DEF CoordinatorInv

LEMMA RecoverNextKeeps ==
    ASSUME CoordinatorInv, RecoverNext
    PROVE  CoordinatorInv'
<1> TypeOK /\ Alone
    BY DEF CoordinatorInv
<1>1. PICK entry \in todo :
        \/ /\ RecoverReserved(entry[1], entry[2]) \/ RecoverDispatched(entry[1], entry[2])
                \/ RecoverAmbiguous(entry[1], entry[2])
           /\ todo' = todo \ {entry}
        \/ RecoverRefused(entry[1], entry[2]) /\ todo' = {}
    BY DEF RecoverNext
<1> DEFINE r == entry[1]
           listed == entry[2]
<1>2. entry = <<r, listed>> /\ r \in Reservations /\ listed \in {"reserved", "dispatched", "ambiguous"}
    BY DEF TypeOK
<1> HIDE DEF r, listed
<1>3. UNCHANGED <<budget, wiring, ledger, chain, provider, handles, seen, locking, faults>>
    BY DEF RecoverNext
<1>4. /\ outcome = [outcome EXCEPT ![r] = outcome[r]] /\ outcome[r] \in Outcomes \cup {"none"}
      /\ outcome[r] = "acknowledged" => applied[r]
    BY <1>2 DEF TypeOK, CoordinatorInv, Settled, Sent
<1>5. CASE RecoverReserved(r, listed) /\ todo' = todo \ {entry}
    <2>1. listed = "reserved" /\ Resume(r, "return") /\ outcome' = [outcome EXCEPT ![r] = outcome[r]]
        BY <1>4, <1>5 DEF RecoverReserved
    <2>2. "return" \in AwaitsOf("recover")
        BY AwaitsAre
    <2> QED BY <1>2, <1>3, <1>4, <1>5, <2>1, <2>2, Resuming
<1>6. CASE RecoverDispatched(r, listed) /\ todo' = todo \ {entry}
    <2> DEFINE adopts == wiring.durable /\ Head(r) \in Outcomes
               o == IF adopts THEN Head(r) ELSE "ambiguous"
               await == IF adopts THEN "settle" ELSE "publish"
    <2>1. listed = "dispatched" /\ Resume(r, await) /\ outcome' = [outcome EXCEPT ![r] = o]
        BY <1>6 DEF RecoverDispatched
    <2>2. /\ o \in Outcomes /\ (adopts => o \in receipts[r]) /\ (o = "acknowledged" => adopts)
        BY HeadIsPublished DEF Outcomes
    <2>3. "acknowledged" \in receipts[r] => applied[r]
        BY <1>2 DEF CoordinatorInv, Settled, Sent
    <2>4. await \in {"settle", "publish"} /\ (await = "settle" => adopts)
        OBVIOUS
    <2> HIDE DEF adopts, o, await
    <2>5. await \in AwaitsOf("recover") /\ await \notin {"return", "settle-verdict", "publish-cancel", "settle-cancel"}
        BY <2>4, AwaitsAre
    <2>6. (o = "acknowledged" => applied[r]) /\ (await = "settle" => o \in receipts[r])
        BY <2>2, <2>3, <2>4
    <2> QED BY <1>2, <1>3, <1>6, <2>1, <2>2, <2>5, <2>6, Resuming
<1>7. CASE RecoverAmbiguous(r, listed) /\ todo' = todo \ {entry}
    <2>1. CASE Head(r) = "reconcile" /\ Resume(r, "settle-verdict")
        <3>1. outcome' = [outcome EXCEPT ![r] = outcome[r]]
            BY <1>4, <1>7 DEF RecoverAmbiguous
        <3>2. "reconcile" \in receipts[r] /\ "settle-verdict" \in AwaitsOf("recover")
            BY <2>1, HeadIsPublished, AwaitsAre
        <3> QED BY <1>2, <1>3, <1>4, <1>7, <2>1, <3>1, <3>2, Resuming
    <2>2. CASE UNCHANGED <<call, at>>
        BY <1>3, <1>7, <2>2, PassingOver DEF RecoverAmbiguous, locals
    <2> QED BY <1>7, <2>1, <2>2 DEF RecoverAmbiguous
<1>8. CASE RecoverRefused(r, listed) /\ todo' = {}
    BY <1>3, <1>8, PassingOver DEF RecoverRefused, locals
<1> QED
    BY <1>1, <1>5, <1>6, <1>7, <1>8 DEF r, listed

-----------------------------------------------------------------------------
(* The invariant, and the properties it gives. *)

LEMMA InitSettles ==
    ASSUME Init
    PROVE  CoordinatorInv
<1>1. TypeOK
    <2>1. faults \in 0..MaxFaults[wiring]
        BY CoordinatorAssumption DEF Init
    <2>2. /\ call \in [Reservations -> Calls] /\ at \in [Reservations -> Awaits]
          /\ status \in [Reservations -> Statuses] /\ account \in [Reservations -> Accounts \cup {NoParent}]
        BY DEF Init, Calls, Awaits, Statuses
    <2> QED BY <2>1, <2>2 DEF Init, TypeOK
<1>2. Alone
    BY DEF Init, Alone, Recovering
<1>3. ASSUME NEW r \in Reservations
      PROVE  Settled(r)
    <2>1. ~Did("consume", r) /\ ~Did("return", r) /\ ~Did("release", r)
        BY DEF Init, Did
    <2>2. Standing(r)
        BY AwaitsAre DEF Init, Standing, Cancelling
    <2>3. Sent(r)
        BY DEF Init, Sent, Unsent
    <2>4. Published(r)
        BY DEF Init, Published, Outcomes
    <2>5. Paid(r)
        BY <2>1 DEF Init, Paid, Returned, Unsent
    <2> QED BY <2>2, <2>3, <2>4, <2>5 DEF Settled
<1> QED
    BY <1>1, <1>2, <1>3 DEF CoordinatorInv

LEMMA NextSettles ==
    ASSUME CoordinatorInv, [Next]_vars
    PROVE  CoordinatorInv'
<1>1. CASE UNCHANGED vars
    <2>1. todo' = todo /\ UNCHANGED <<budget, wiring, ledger, chain, provider, handles, call, at, locals,
                                      locking, faults>>
        BY <1>1 DEF vars, volatile
    <2> QED BY <2>1, PassingOver
<1>2. ASSUME NEW r \in Reservations,
             \/ Reserve(r) \/ Dispatch(r) \/ Cancel(r) \/ Proceed(r) \/ Reconcile(r)
             \/ CommitTorn(r) \/ Fails(r)
      PROVE  CoordinatorInv'
    BY <1>2, ReserveKeeps, DispatchKeeps, CancelKeeps, ProceedKeeps, ReconcileKeeps, CommitTornKeeps,
       FailsKeeps
<1>3. CASE RevokeTask \/ Recover \/ RecoverNext \/ Retire \/ Crash
    BY <1>3, RevokeTaskKeeps, RecoverKeeps, RecoverNextKeeps, RetireKeeps, CrashKeeps
<1> QED
    BY <1>1, <1>2, <1>3 DEF Next

(* Under every wiring, whatever fails and whenever the process dies, each reservation  *)
(* has the shape that its call, its status and its receipts give it.                   *)
LEMMA AlwaysSettled == Spec => []CoordinatorInv
<1>1. Init => CoordinatorInv
    BY InitSettles
<1>2. CoordinatorInv /\ [Next]_vars => CoordinatorInv'
    BY NextSettles
<1> QED
    BY <1>1, <1>2, PTL DEF Spec

(* The records of the coordinator keep their types, and at most one call has a          *)
(* reservation.                                                                        *)
THEOREM CoordinatorTyping == Spec => []TypeOK
<1>1. CoordinatorInv => TypeOK
    BY DEF CoordinatorInv
<1> QED
    BY <1>1, AlwaysSettled, PTL

(* "Restart never resends automatically": for any number of reservations, failing      *)
(* calls, crashes and recoveries, the provider gets at most one request for each, and  *)
(* none for one that ends cancelled.                                                   *)
THEOREM RestartNeverResends == Spec => []SentOnce
<1>1. CoordinatorInv => SentOnce
    BY DEF CoordinatorInv, TypeOK, Settled, Sent, Unsent, SentOnce
<1> QED
    BY <1>1, AlwaysSettled, PTL

(* The budget follows the effect: what an applied effect consumed is never given back, *)
(* a prepared dispatch is paid for before it is sent, and only what was consumed is     *)
(* released.                                                                          *)
THEOREM BudgetIsTrue == Spec => []BudgetFollowsEffect
<1>1. CoordinatorInv => BudgetFollowsEffect
    <2>1. CoordinatorInv => RefundOnlyIfUnapplied
        BY DEF CoordinatorInv, Settled, Paid, Returned, RefundOnlyIfUnapplied
    <2>2. CoordinatorInv => PaidWhenPrepared
        BY DEF CoordinatorInv, Settled, Sent, Paid, PaidWhenPrepared
    <2> QED BY <2>1, <2>2 DEF BudgetFollowsEffect
<1> QED
    BY <1>1, AlwaysSettled, PTL

(* The ledger's ends are proven: none that the coordinator gave is without its receipt, *)
(* an acknowledged effect happened, and a cancelled one did not.                       *)
THEOREM EndsAreProven == Spec => []EndsAreTrue
<1>1. CoordinatorInv => EndsAreTrue
    <2>1. CoordinatorInv => ReceiptFirst
        BY DEF CoordinatorInv, Settled, Published, ReceiptFirst
    <2>2. CoordinatorInv => StatusIsTrue
        BY DEF CoordinatorInv, TypeOK, Settled, Sent, Unsent, StatusIsTrue
    <2> QED BY <2>1, <2>2 DEF EndsAreTrue
<1> QED
    BY <1>1, AlwaysSettled, PTL

===============================================================================

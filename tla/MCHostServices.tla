----------------------------- MODULE MCHostServices -----------------------------
(* Services of the host that keep stores of their own: a behaviour is a behaviour   *)
(* of one of them, chosen in the initial state.  The release has two requests for   *)
(* its pull request, so that an allocation can be asked for twice.                  *)
EXTENDS ReleaseSaga, GateDecisions, DecisionSink, LedgerLock,
        DelegationService, SessionActivation, RuntimeCalls, TLC

CONSTANTS branch, draft, again, merge, tag, p1, p2, q1, q2

VARIABLE part

MCEffectOf == (branch :> "candidate-branch") @@ (draft :> "draft-pr") @@ (again :> "draft-pr")
                @@ (merge :> "exact-sha-merge") @@ (tag :> "non-force-tag")

MCSymmetry == Permutations({p1, p2}) \cup Permutations({q1, q2})
-----------------------------------------------------------------------------
HostInit ==
    /\ part \in {"release", "gate", "sink", "lock", "delegation", "sessions", "calls"}
    /\ SagaInit /\ GateInit /\ SinkInit /\ LockInit /\ DelegationInit
    /\ SessionInit /\ CallsInit
    /\ part = "gate" \/ permits = {}
    /\ part = "lock" \/ ~foreignPort
    /\ part = "calls" \/ signedJobs

Releasing ==
    /\ part = "release" /\ SagaNext
    /\ UNCHANGED <<part, gateVars, sinkVars, lockVars, delegationVars, sessionVars, callVars>>
Deciding ==
    /\ part = "gate" /\ GateNext
    /\ UNCHANGED <<part, sagaVars, sinkVars, lockVars, delegationVars, sessionVars, callVars>>
Storing ==
    /\ part = "sink" /\ SinkNext
    /\ UNCHANGED <<part, sagaVars, gateVars, lockVars, delegationVars, sessionVars, callVars>>
Locking ==
    /\ part = "lock" /\ LockNext
    /\ UNCHANGED <<part, sagaVars, gateVars, sinkVars, delegationVars, sessionVars, callVars>>
Delegating ==
    /\ part = "delegation" /\ DelegationNext
    /\ UNCHANGED <<part, sagaVars, gateVars, sinkVars, lockVars, sessionVars, callVars>>
OpeningSessions ==
    /\ part = "sessions" /\ SessionNext
    /\ UNCHANGED <<part, sagaVars, gateVars, sinkVars, lockVars, delegationVars, callVars>>
Serving ==
    /\ part = "calls" /\ CallsNext
    /\ UNCHANGED <<part, sagaVars, gateVars, sinkVars, lockVars, delegationVars, sessionVars>>

HostNext == Releasing \/ Deciding \/ Storing \/ Locking \/ Delegating \/ OpeningSessions \/
      Serving

HostSpec == HostInit /\ [][HostNext]_<<part, sagaVars, gateVars, sinkVars, lockVars,
      delegationVars, sessionVars, callVars>>

(* Each service keeps its state within its records. *)
HostTypeOK == /\ SagaTypeOK /\ GateTypeOK /\ SinkTypeOK /\ LockTypeOK /\ DelegationTypeOK
              /\ SessionTypeOK /\ CallsTypeOK
=============================================================================

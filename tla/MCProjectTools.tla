----------------------------- MODULE MCProjectTools -----------------------------
(* Tools that inspect and configure a project and its hosts, that prepare a           *)
(* certification and that sign a release: a behaviour is a behaviour of one of them,  *)
(* chosen in the initial state.                                                   *)
EXTENDS PolicyFile, ConnectionInventory, HostConfigs, MCSurveyDisks,
        LabelsCertification, ReleaseAuthorization, DispatchPermits

CONSTANTS p1, p2, q1, q2

VARIABLE part

LineKinds ==
    {PolicyLine("top", "deny", ""), PolicyLine("top", "dry_run", ""), PolicyLine("top", "version", "2"),
     PolicyLine("top", "state_gate", "refuse"), PolicyLine("top", "state_gate", "off"),
     PolicyLine("spaced", "state_gate", "refuse"), PolicyLine("top", "notes", "text"),
     PolicyLine("item", "tool", "t1"), PolicyLine("item", "endpoint", "e1"),
     PolicyLine("item", "tool", ""), PolicyLine("item", "state_gate", "refuse"),
     PolicyLine("more", "tool", "t2"), PolicyLine("more", "unless", "--allow-writes"),
     PolicyLine("more", "unless", "--force"), PolicyLine("flush", "tool", "t1"),
     PolicyLine("dash", "", "")}
TextFile(text) == [form |-> "text", lines |-> text]
NoFile == [form |-> "missing", lines |-> <<>>]
Unreadable == [form |-> "unreadable", lines |-> <<>>]
Gated == TextFile(<<PolicyLine("top", "state_gate", "refuse")>>)
LongFileKinds ==
    {PolicyLine("top", "deny", ""), PolicyLine("top", "dry_run", ""),
     PolicyLine("top", "state_gate", "refuse"), PolicyLine("spaced", "state_gate", "refuse"),
     PolicyLine("top", "notes", "text"), PolicyLine("item", "tool", "t1"),
     PolicyLine("more", "tool", "t2"), PolicyLine("more", "unless", "--allow-writes"),
     PolicyLine("flush", "tool", "t1"), PolicyLine("dash", "", "")}
MCPolicyFilePairs ==
    {<<TextFile(text), NoFile>> : text \in UNION {[1..k -> LineKinds] : k \in 0..2}}
    \cup {<<TextFile(text), NoFile>> : text \in [1..3 -> LongFileKinds]}
    \cup {<<TextFile(<<PolicyLine("top", "deny", ""), PolicyLine("item", "tool", "t1")>> \o rest), NoFile>> :
              rest \in LineKinds \X LineKinds}
    \cup {NoFile, Unreadable} \X {NoFile, Unreadable, Gated}

(* Connections over one tool server, whose version, tools, name and account may change. *)
Coverage(outcome, exclusive) == [outcome |-> outcome, exclusive |-> exclusive]
Coverages == {Coverage("supported", "declared-surface"), Coverage("supported", "not-declared"),
              Coverage("unknown", "unknown")}
Pins == {"read", "send", "whoami"} \X {1}
RouteStatuses == {"callable", "host-private", "unsupported"}
MCCandidates == [kind : ConnectionKinds, routeStatus : RouteStatuses,
                 expected : {"any", "alice"}, coverage : Coverages]
MCAdapters ==
    [present : {TRUE}, pins : {{}, Pins}, source : {{"read"}, {"read", "send"}},
     write : {{}, {"send"}, {"delete"}}, probe : {"reviewed", "absent"}]
    \cup [present : {FALSE}, pins : {{}}, source : {{}}, write : {{}}, probe : {"absent"}]
MCServers ==
    [up : {TRUE}, tools : {{"read", "send", "whoami"}, {"read", "send"}}, version : {1, 2},
     name : {"", "mail"}, answer : {"alice", "bob", "error"}]
    \cup [up : {FALSE}, tools : {{}}, version : {1}, name : {""}, answer : {"error"}]
MCConnectionFiles ==
    [kind : ConnectionKinds, routeStatus : RouteStatuses,
     status : {"usable", "schema-drifted", "shadow-only", "unsupported"},
     account : {"verified", "unverified"}, schema : {"verified", "unverified"},
     descriptor : {NoValue} \cup
         [kind : ConnectionKinds, route : {"mcp-stdio", "opaque-host"}, endpoints : {{"read"}},
          name : {"mail"}, account : {"alice"}, coverage : Coverages, schemas : {Pins}]]

File(commit, tree, tarball, quality, isoDates) ==
    [base |-> "b", commit |-> commit, files |-> commit, expectedTree |-> tree, tarball |-> tarball,
     workflow |-> "w", quality |-> quality, isoDates |-> isoDates]
MCParameterFiles ==
    {File("c1", "t1", "x1", "q", TRUE),
     File("c1", "t2", "x2", "q2", TRUE), File("c2", "t2", "x2", "q2", FALSE)}
Ring(authorization, evidence) ==
    [authorization |-> authorization, evidence |-> evidence, maker |-> "m"]
MCKeyRings == {Ring("k", "e"), Ring("k2", "e"), Ring("k", "k")}
MCHeads == {[tree |-> "t1", parent |-> "b"], [tree |-> "t2", parent |-> "b"]}

(* Histories of two signers' keys: in order, out of order, revoked, activated twice. *)
TrustEvent(action, key, time) == [action |-> action, key |-> key, time |-> time]
HumanFirst == TrustEvent("activate", "human", 1)
MCTrustHistories ==
    {<<HumanFirst, TrustEvent("activate", "cell", 1)>>, <<HumanFirst, TrustEvent("activate", "cell", 2)>>,
     <<HumanFirst, TrustEvent("activate", "cell", 1), TrustEvent("revoke", "cell", 2)>>,
     <<TrustEvent("activate", "human", 2), TrustEvent("activate", "cell", 1)>>,
     <<HumanFirst, TrustEvent("activate", "cell", 1), TrustEvent("activate", "cell", 2)>>}

(* One pair of model values stands for the initializers, commands and checkers of every part. *)
MCSymmetry == Permutations({p1, p2}) \cup Permutations({q1, q2})
-----------------------------------------------------------------------------
FirstFiles == CHOOSE pair \in PolicyFilePairs : TRUE
FirstDisk == CHOOSE d \in Surveyed : TRUE

If(name, inputs, first) == IF part = name THEN inputs ELSE {first}

ProjectInit ==
    /\ part \in {"policy", "inventory", "hosts", "survey", "labels", "authorization", "workspace", "permits"}
    /\ PolicyInitWith(If("policy", PolicyFilePairs, FirstFiles))
    /\ InventoryInit /\ HostConfigsInit
    /\ part = "hosts" \/ hostConfig = Missing
    /\ SurveyInitWith(If("survey", Surveyed, FirstDisk))
    /\ LabelsInit /\ AuthorizationInit
    /\ WorkspaceInit /\ (part = "workspace" \/ workspace = Unpublished)
    /\ PermitInit /\ (part = "permits" \/ (lifecycle = "made" /\ world.pin = Pin0))

Loading ==
    /\ part = "policy" /\ PolicyNext
    /\ UNCHANGED <<part, inventoryVars, hostConfigVars, surveyVars, labelsVars, releaseVars,
                  workspaceVars, permitVars>>
Connecting ==
    /\ part = "inventory" /\ InventoryNext
    /\ UNCHANGED <<part, policyVars, hostConfigVars, surveyVars, labelsVars, releaseVars,
                  workspaceVars, permitVars>>
Configuring ==
    /\ part = "hosts" /\ HostConfigsNext
    /\ UNCHANGED <<part, policyVars, inventoryVars, surveyVars, labelsVars, releaseVars,
                  workspaceVars, permitVars>>
Surveying ==
    /\ part = "survey" /\ SurveyNext
    /\ UNCHANGED <<part, policyVars, inventoryVars, hostConfigVars, labelsVars, releaseVars,
                  workspaceVars, permitVars>>
Certifying ==
    /\ part = "labels" /\ LabelsNext
    /\ UNCHANGED <<part, policyVars, inventoryVars, hostConfigVars, surveyVars, releaseVars,
                  workspaceVars, permitVars>>
Authorizing ==
    /\ part = "authorization" /\ AuthorizationNext
    /\ UNCHANGED <<part, policyVars, inventoryVars, hostConfigVars, surveyVars, labelsVars,
                  workspaceVars, permitVars>>
Signing ==
    /\ part = "workspace" /\ WorkspaceNext
    /\ UNCHANGED <<part, policyVars, inventoryVars, hostConfigVars, surveyVars, labelsVars,
                  releaseVars, permitVars>>
Permitting ==
    /\ part = "permits" /\ PermitNext
    /\ UNCHANGED <<part, policyVars, inventoryVars, hostConfigVars, surveyVars, labelsVars,
                  releaseVars, workspaceVars>>

ProjectNext == Loading \/ Connecting \/ Configuring \/ Surveying \/ Certifying \/
      Authorizing \/ Signing \/ Permitting

ProjectSpec == ProjectInit /\ [][ProjectNext]_<<part, policyVars, inventoryVars,
      hostConfigVars, surveyVars, labelsVars, releaseVars, workspaceVars, permitVars>>

(* Each program keeps its state within its records. *)
ProjectTypeOK == /\ PolicyTypeOK /\ LabelsTypeOK /\ AuthorizationTypeOK
                 /\ InventoryTypeOK /\ HostConfigsTypeOK /\ SurveyTypeOK
                 /\ WorkspaceTypeOK /\ PermitTypeOK
=============================================================================

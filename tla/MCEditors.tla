------------------------------ MODULE MCEditors ------------------------------
(***************************************************************************)
(* The human review of a report, the workflow editor, the settings of its  *)
(* nodes, the policy editor and the mailboxes, checked in one run.  They   *)
(* share no state: a behaviour plays in one of them, its scene, and the    *)
(* others stay in their initial state.                                     *)
(***************************************************************************)
EXTENDS Review, WorkflowDesk, PolicyDesk, NodePanel, Mailboxes

VARIABLE scene

\* One finding the AI failed, one it is not certain of.
MCAi == [r \in Rules |-> IF r = "signed" THEN "fail" ELSE "uncertain"]

\* Two start nodes, one that drops the data it gets, one that has two branches, and one
\* that has a text and passes on what it gets.
MCKinds == [start |-> "input", mail |-> "email_input", check |-> "validate_documents",
            test |-> "condition", ask |-> "ai"]

\* Two policies, so that a node may be set to another one than it ran with.
MCRules == [p1 |-> {"r1", "r2"}, p2 |-> {"r3"}]

EditorsInit ==
    /\ ReviewInit /\ WorkflowInit /\ PolicyInit /\ BoxInit /\ WiringInit /\ ConditionInit /\ GateInit
    /\ scene \in {"review", "workflow", "policy", "mailboxes", "wiring", "condition", "gate", "rules"}
    /\ RulesInit
    /\ scene # "review" => review = NoReview
    /\ scene # "rules" => picked = "p1" /\ ruleName = [r \in AllRules |-> "x"]
    /\ scene # "gate" => typeName = [d \in DocTypes |-> "invoice"]

EditorsNext ==
    \/ scene = "review" /\ ReviewNext /\ UNCHANGED <<workflowVars, policyVars, boxVars, nodePanelVars, scene>>
    \/ scene = "workflow" /\ WorkflowNext /\ UNCHANGED <<reviewVars, policyVars, boxVars, nodePanelVars, scene>>
    \/ scene = "policy" /\ PolicyNext /\ UNCHANGED <<reviewVars, workflowVars, boxVars, nodePanelVars, scene>>
    \/ scene = "mailboxes" /\ BoxNext /\ UNCHANGED <<reviewVars, workflowVars, policyVars, nodePanelVars, scene>>
    \/ /\ \/ scene = "wiring" /\ WiringNext
          \/ scene = "condition" /\ ConditionNext
          \/ scene = "gate" /\ GateNext
          \/ scene = "rules" /\ RulesNext
       /\ UNCHANGED <<reviewVars, workflowVars, policyVars, boxVars, scene>>

EditorsSpec ==
    EditorsInit
    /\ [][EditorsNext]_<<reviewVars, workflowVars, policyVars, boxVars, nodePanelVars, scene>>

\* Type correctness of the five modules: the values are in range, and the parts of
\* a state that go together do.
EditorsTypesOK == ReviewTypeOK /\ WorkflowTypeOK /\ PolicyTypeOK /\ BoxTypeOK /\ NodePanelTypeOK
=============================================================================

----------------------------- MODULE NodePanel -----------------------------
(***************************************************************************)
(* What a node of a workflow is set to, and what the engine makes of it:   *)
(* the settings panel (components/NodeConfigPanel.tsx), the cards on the   *)
(* canvas (components/nodes/), the palette, and the handlers that read the *)
(* settings (engine/handlers/).  Four parts, which share no state: the     *)
(* variables offered to a text, the condition, the gate, and the verdicts  *)
(* shown beside the rules of a policy.                                     *)
(***************************************************************************)
EXTENDS Naturals, FiniteSets

CONSTANTS
    Cards,      \* the nodes the palette may drop
    KindOf,     \* KindOf[n]: the type of a node
    Deselects,  \* the fields of a mail that are tried on and off
    MaxWires,   \* bound on the edges
    MaxInserts, \* bound on the variables in one text
    Values,     \* what may be typed as the value of a condition
    DocTypes,   \* the document types there are or may be created
    TypeNames,  \* the names they may get
    Panels,     \* the panels open on the gate, of one editor or of several
    Policies,   \* the policies a node may validate against
    RulesOf,    \* RulesOf[p]: the rules of a policy
    RuleNames   \* the names they may get

ASSUME NodePanelAssumption == IsFiniteSet(Panels)

VARIABLES
    placed,      \* the nodes on the canvas
    wires,       \* its edges: from, to, and the handle of a condition they start at
    deselected,  \* the fields of the mail that email_input is told to leave out
    texts,       \* texts[n]: the variables the prompt or the body of a node names
    cut,         \* an edge or a node was removed when there was a text
    cond,        \* the data of the condition node
    docTypes,    \* the document types there are
    unmade,      \* those not created yet
    typeName,    \* typeName[d]: the name of a type
    renamed,     \* the types that got another name since they were created
    listedTypes, \* listedTypes[p]: the types a panel has cached, with their names
    gate,        \* the data of the gate: ids required, names noted beside them
    setters,     \* the panels it was set in
    picked,      \* the policy the validating node is set to
    ruleName,    \* ruleName[r]: the name of a rule
    ran          \* the run the page follows: its step at that node

wiringVars == <<placed, wires, deselected, texts, cut>>
conditionVars == <<cond>>
gateVars == <<docTypes, unmade, typeName, renamed, listedTypes, gate, setters>>
rulesVars == <<picked, ruleName, ran>>
nodePanelVars == <<wiringVars, conditionVars, gateVars, rulesVars>>

AllRules == UNION {RulesOf[p] : p \in Policies}
Overalls == {"pass", "needs_review", "fail"}

-----------------------------------------------------------------------------
(* The variables.                                                          *)

\* NODE_OUTPUT_VARS, of which a kind that is not listed offers none.
Offers(kind) ==
    CASE kind = "input" -> {"document_id", "file_path", "mime_type"}
      [] kind = "email_input" -> {"subject", "from", "to", "body"}
      [] kind = "pdf_to_images" -> {"image_paths", "page_count", "document_id"}
      [] kind = "validate_documents" -> {"overall", "results", "policy_name"}
      [] kind = "ai" -> {"ai_response"}
      [] kind = "send_email" -> {"sent_to", "sent_subject"}
      [] OTHER -> {}

\* The nodes a walk up the edges of w from n finds that goes on from those in through
\* only: the least set that has the parents of n and of each of its own in through.
Givers(w) == {e[1] : e \in w}
ClosedAbove(w, n, found, through) ==
    \A e \in w : e[2] \in {n} \cup (found \cap through) => e[1] \in found
Walk(w, n, through) ==
    {p \in Givers(w) : \A found \in SUBSET Givers(w) : ClosedAbove(w, n, found, through) => p \in found}

\* getUpstreamVarGroups: a chip for every variable of every node upstream.
Upstream(n) == Walk(wires, n, placed)
Offered(n) == UNION {Offers(KindOf[p]) : p \in Upstream(n)}

\* The keys a handler puts into its output, and the handlers that start from the
\* data they are given: the other ones drop it.
Adds(kind) ==
    CASE kind = "input" -> {"documents"}
      [] kind = "email_input" -> {"documents"} \cup (Offers(kind) \ deselected)
      [] kind = "pdf_to_images" -> {"documents", "image_paths", "page_count", "document_id"}
      [] kind = "validate_documents" ->
            {"policy_id", "policy_name", "policy_version_num", "overall", "results",
             "image_paths", "document_id"}
      [] kind = "ai" -> {"ai_response"}
      [] kind = "send_email" -> {"sent_to", "sent_subject"}
      [] kind = "condition" -> {"condition_result"}
      [] kind = "completeness_gate" -> {"complete", "missing_doc_types"}
      [] kind = "output" -> {"manifest", "status"}
      [] OTHER -> {}
Passing == {"ai", "send_email", "condition", "completeness_gate", "show_results"}

AddsOnly(kind, data) == Adds(kind)
Output(kind, data) == Adds(kind) \cup (IF kind \in Passing THEN data ELSE {})

\* A run: each condition takes one of its handles and prunes the edges of the other; a
\* step runs that is a root or has a parent that ran above an edge that is left.
Handles(kind) == IF kind = "condition" THEN {"true", "false"} ELSE {""}
Branches == [{n \in placed : KindOf[n] = "condition"} -> {"true", "false"}]
Live(branch) == {e \in wires : KindOf[e[1]] = "condition" => e[3] = branch[e[1]]}
Roots == {n \in placed : \A e \in wires : e[2] # n}
Runs(n, branch) == ({n} \cup Walk(Live(branch), n, placed)) \cap Roots # {}

\* primary_input: the seed of the run, and the outputs of the parents that succeeded,
\* merged over the edges that are left.
Acyclic == \A n \in placed : n \notin Upstream(n)
Carried(branch) == {e \in Live(branch) : Runs(e[1], branch)}
MergedInputs(w, n) ==
    LET Data[m \in placed] ==
            {"documents"} \cup UNION {Output(KindOf[p], Data[p]) : p \in {e[1] : e \in {d \in w : d[2] = m}}}
    IN  Data[n]
Handed(n, branch) == MergedInputs(Carried(branch), n)

\* A start node takes no edge, an end node gives none.
Target(kind) == kind \notin {"input", "email_input"}
Source(kind) == kind \notin {"output", "show_results", "send_email"}

WiringInit == placed = {} /\ wires = {} /\ deselected = {} /\ cut = FALSE
              /\ texts = [n \in Cards |-> {}]

\* onDragStart and onDrop: a node of the dragged type.
DropNode(n) ==
    /\ n \notin placed
    /\ placed' = placed \cup {n}
    /\ deselected' = IF KindOf[n] = "email_input" THEN {} ELSE deselected
    /\ UNCHANGED <<wires, texts, cut, conditionVars, gateVars, rulesVars>>

\* A second edge from a handle to a node says nothing more, and one from a node to
\* itself makes a cycle, for which a run is refused.
Connect(p, n, h) ==
    /\ p # n /\ {p, n} \subseteq placed /\ <<p, n, h>> \notin wires /\ Cardinality(wires) < MaxWires
    /\ Source(KindOf[p]) /\ Target(KindOf[n]) /\ h \in Handles(KindOf[p])
    /\ wires' = wires \cup {<<p, n, h>>}
    /\ UNCHANGED <<placed, deselected, texts, cut, conditionVars, gateVars, rulesVars>>

TextElsewhere(n) == \E m \in Cards \ {n} : texts[m] # {}

Disconnect(e) ==
    /\ e \in wires
    /\ wires' = wires \ {e}
    /\ cut' = (cut \/ \E m \in Cards : texts[m] # {})
    /\ UNCHANGED <<placed, deselected, texts, conditionVars, gateVars, rulesVars>>

\* Its edges go with it.
DeleteNode(n) ==
    /\ n \in placed
    /\ placed' = placed \ {n}
    /\ wires' = {e \in wires : n \notin {e[1], e[2]}}
    /\ texts' = [texts EXCEPT ![n] = {}]
    /\ cut' = (cut \/ TextElsewhere(n))
    /\ UNCHANGED <<deselected, conditionVars, gateVars, rulesVars>>

\* EmailInputConfig: a field is left out, or taken back.
ToggleField(n, f) ==
    /\ n \in placed /\ KindOf[n] = "email_input"
    /\ deselected' = IF f \in deselected THEN deselected \ {f} ELSE deselected \cup {f}
    /\ UNCHANGED <<placed, wires, texts, cut, conditionVars, gateVars, rulesVars>>

\* PromptEditor, in the panel of an ai node and of a send_email node: a chip puts
\* its variable where the cursor is.
HasText(kind) == kind \in {"ai", "send_email"}
InsertVar(n, v) ==
    /\ n \in placed /\ HasText(KindOf[n])
    /\ v \in Offered(n) \ texts[n] /\ Cardinality(texts[n]) < MaxInserts
    /\ texts' = [texts EXCEPT ![n] = @ \cup {v}]
    /\ UNCHANGED <<placed, wires, deselected, cut, conditionVars, gateVars, rulesVars>>

WiringNext ==
    \/ \E n \in Cards : DropNode(n) \/ DeleteNode(n)
    \/ \E p, n \in Cards : \E h \in Handles(KindOf[p]) : Connect(p, n, h)
    \/ \E e \in wires : Disconnect(e)
    \/ \E n \in Cards, f \in Deselects : ToggleField(n, f)
    \/ \E n \in Cards : \E v \in Offered(n) : InsertVar(n, v)

-----------------------------------------------------------------------------
(* The condition.                                                          *)

\* onDrop gives a condition what makes its card say what the engine will do.
ConditionInit == cond = [mode |-> "verdict", field |-> "overall", op |-> "eq", value |-> "fail"]

IsCustom == cond.mode = "custom" \/ cond.field \notin {"overall", ""}

ChooseVerdict(v) ==
    /\ ~IsCustom
    /\ cond' = [mode |-> "verdict", field |-> "overall", op |-> "eq", value |-> v]
    /\ UNCHANGED <<wiringVars, gateVars, rulesVars>>

\* The three inputs of the advanced mode, one key at a time.
EditCustom ==
    /\ IsCustom
    /\ \/ \E f \in {"overall", "page_count", ""} : cond' = [cond EXCEPT !.field = f]
       \/ \E o \in {"eq", "ne", "exists"} : cond' = [cond EXCEPT !.op = o]
       \/ \E v \in Values : cond' = [cond EXCEPT !.value = v]
    /\ UNCHANGED <<wiringVars, gateVars, rulesVars>>

\* The box of the advanced mode.  Leaving it resets everything but the value.
Kept == [cond EXCEPT !.mode = "verdict", !.field = "overall"]
Simple == [mode |-> "verdict", field |-> "overall", op |-> "eq",
           value |-> IF cond.value = "" THEN "fail" ELSE cond.value]
ToggleAdvanced ==
    /\ cond' = IF IsCustom THEN Simple ELSE [cond EXCEPT !.mode = "custom"]
    /\ UNCHANGED <<wiringVars, gateVars, rulesVars>>

ConditionNext == (\E v \in Overalls : ChooseVerdict(v)) \/ EditCustom \/ ToggleAdvanced

\* ConditionNode: the verdict the card names.
CardVerdict == IF cond.value \in {"pass", "needs_review"} THEN cond.value ELSE "fail"

\* evaluate, on data whose overall verdict is o and whose page count is a number.
Evaluate(o) ==
    LET actual == IF cond.field = "overall" THEN o ELSE IF cond.field = "" THEN "None" ELSE "7" IN
    CASE cond.op = "eq" -> actual = cond.value
      [] cond.op = "ne" -> actual # cond.value
      [] cond.op = "exists" -> actual # "None"

-----------------------------------------------------------------------------
(* The gate.                                                               *)

\* The library as a panel reads it.  Before a type is created, its name is the one it
\* will get.
LibraryNow == [d \in docTypes |-> typeName[d]]
GateInit ==
    /\ docTypes = {} /\ unmade = DocTypes /\ renamed = {}
    /\ typeName \in [DocTypes -> TypeNames]
    /\ listedTypes = [p \in Panels |-> LibraryNow]
    /\ gate = [ids |-> {}, names |-> <<>>] /\ setters = {}

CreateType(d) ==
    /\ d \in unmade
    /\ docTypes' = docTypes \cup {d} /\ unmade' = unmade \ {d}
    /\ UNCHANGED <<typeName, renamed, listedTypes, gate, setters, wiringVars, conditionVars, rulesVars>>

\* A type is deleted in the library; a gate that requires it keeps its id.
DeleteType(d) ==
    /\ d \in docTypes
    /\ docTypes' = docTypes \ {d}
    /\ UNCHANGED <<unmade, typeName, renamed, listedTypes, gate, setters, wiringVars, conditionVars, rulesVars>>

\* It gets another name; the names the gates have noted stay.
RenameType(d, x) ==
    /\ d \in docTypes /\ x # typeName[d]
    /\ typeName' = [typeName EXCEPT ![d] = x] /\ renamed' = renamed \cup {d}
    /\ UNCHANGED <<docTypes, unmade, listedTypes, gate, setters, wiringVars, conditionVars, rulesVars>>

TypesRefetched(p) ==
    /\ listedTypes' = [listedTypes EXCEPT ![p] = LibraryNow]
    /\ UNCHANGED <<docTypes, unmade, typeName, renamed, gate, setters, wiringVars, conditionVars, rulesVars>>

\* toggle of CompletenessGateConfig: the names are those of the ids that are listed.  A
\* panel elsewhere does it to the same gate when the workflow is saved and fetched.
NamesOf(ids, listed) == [d \in ids \cap DOMAIN listed |-> listed[d]]
ToggleType(p, d) ==
    /\ d \in DOMAIN listedTypes[p]
    /\ LET ids == IF d \in gate.ids THEN gate.ids \ {d} ELSE gate.ids \cup {d}
       IN  gate' = [ids |-> ids, names |-> NamesOf(ids, listedTypes[p])]
    /\ setters' = setters \cup {p}
    /\ UNCHANGED <<docTypes, unmade, typeName, renamed, listedTypes, wiringVars, conditionVars, rulesVars>>

GateNext ==
    \/ \E d \in DocTypes : CreateType(d) \/ DeleteType(d)
    \/ \E d \in DocTypes, x \in TypeNames : RenameType(d, x)
    \/ \E p \in Panels : TypesRefetched(p)
    \/ \E p \in Panels, d \in DocTypes : ToggleType(p, d)

\* CompletenessGateNode: the names, or else how many there are.
CardCount == Cardinality(IF DOMAIN gate.names # {} THEN DOMAIN gate.names ELSE gate.ids)

-----------------------------------------------------------------------------
(* The verdicts beside the rules.                                          *)

NoRun == [state |-> "none", policy |-> "none", names |-> <<>>, verdict |-> <<>>, results |-> <<>>]

RulesInit ==
    /\ picked \in Policies /\ ruleName \in [AllRules -> RuleNames]
    /\ ran = NoRun

PickPolicy(p) ==
    /\ p # picked
    /\ picked' = p
    /\ UNCHANGED <<ruleName, ran, wiringVars, conditionVars, gateVars>>

\* A rule gets another name in the editor of its policy, and the page refetches.
RenameRule(r, x) ==
    /\ x # ruleName[r]
    /\ ruleName' = [ruleName EXCEPT ![r] = x]
    /\ UNCHANGED <<picked, ran, wiringVars, conditionVars, gateVars>>

\* The page follows a new run; the handler loads the rules of the policy.
StepStarts ==
    /\ ran' = [NoRun EXCEPT !.state = "running", !.policy = picked,
                            !.names = [r \in RulesOf[picked] |-> ruleName[r]]]
    /\ UNCHANGED <<picked, ruleName, wiringVars, conditionVars, gateVars>>

\* Every rule gets its verdict; the results are one for a name, the first one's.
OnePerName(verdict) ==
    [x \in {ran.names[r] : r \in RulesOf[ran.policy]} |->
        verdict[CHOOSE r \in RulesOf[ran.policy] : ran.names[r] = x]]
StepEnds ==
    /\ ran.state = "running"
    /\ \E verdict \in [RulesOf[ran.policy] -> {"pass", "fail"}] :
          ran' = [ran EXCEPT !.state = "done", !.verdict = verdict, !.results = OnePerName(verdict)]
    /\ UNCHANGED <<picked, ruleName, wiringVars, conditionVars, gateVars>>

\* It fails without an output (no key, an unknown policy).
StepFails ==
    /\ ran.state = "running"
    /\ ran' = [ran EXCEPT !.state = "done"]
    /\ UNCHANGED <<picked, ruleName, wiringVars, conditionVars, gateVars>>

RulesNext ==
    \/ \E p \in Policies : PickPolicy(p)
    \/ \E r \in AllRules, x \in RuleNames : RenameRule(r, x)
    \/ StepStarts \/ StepEnds \/ StepFails

\* resultsByName: the panel and the card look a verdict up under the rule's name.
FirstResult(r) ==
    IF DOMAIN ran.results = {} THEN "pending" ELSE ran.results[CHOOSE x \in DOMAIN ran.results : TRUE]
ResultOf(r) ==
    IF ruleName[r] \in DOMAIN ran.results THEN ran.results[ruleName[r]] ELSE "pending"
StatusOf(r) == IF ran.state = "running" THEN "running" ELSE ResultOf(r)

-----------------------------------------------------------------------------
NodePanelInit == WiringInit /\ ConditionInit /\ GateInit /\ RulesInit
NodePanelNext == WiringNext \/ ConditionNext \/ GateNext \/ RulesNext
NodePanelSpec == NodePanelInit /\ [][NodePanelNext]_nodePanelVars

NodePanelTypeOK ==
    /\ placed \subseteq Cards /\ wires \subseteq placed \X placed \X {"", "true", "false"}
    /\ deselected \subseteq Deselects /\ cut \in BOOLEAN
    /\ \A n \in Cards : texts[n] # {} => n \in placed /\ HasText(KindOf[n])
    /\ cond.mode \in {"verdict", "custom"} /\ cond.value \in Values \cup Overalls
    /\ docTypes \subseteq DocTypes /\ unmade \subseteq DocTypes \ docTypes
    /\ \A p \in Panels : DOMAIN listedTypes[p] \subseteq DocTypes \ unmade
    /\ gate.ids \subseteq DocTypes \ unmade /\ setters \subseteq Panels
    /\ picked \in Policies /\ ruleName \in [AllRules -> RuleNames]
    /\ ran.state \in {"none", "running", "done"}

-----------------------------------------------------------------------------
(* Properties.                                                             *)

\* A variable that a chip put into a text is in the data the engine renders the
\* text with, in a run that a mail started and in which no step fails, whichever
\* branches its conditions take, unless the canvas was cut since, or every node that
\* offers it is a start node without a mail, was told to leave it out, or is cut off
\* in this run: below it the data are dropped, or an edge is pruned, or it was skipped.
Lost(n, v, branch) ==
    LET reaching == Walk(Carried(branch), n, {p \in placed : KindOf[p] \in Passing})
        makers == {p \in Upstream(n) : v \in Offers(KindOf[p])}
    IN  makers # {} /\ \A p \in makers :
            KindOf[p] = "input" \/ v \in deselected \/ p \notin reaching
InsertedResolves ==
    Acyclic /\ ~cut => \A n \in placed : \A v \in texts[n] : \A branch \in Branches :
        Runs(n, branch) => v \in Handed(n, branch) \/ Lost(n, v, branch)

\* The card of a node says what the node will do.  Unless the advanced mode was left on
\* a value that is no verdict, a condition in the simple mode takes the Yes path for the
\* verdict its card names, and no other.  The card of a gate names no type it does not
\* wait for, and none by a name it never had: by the one it has, unless it was renamed.
\* If the gate was set in one panel, however the library changed under it, the card
\* names every type the gate waits for that there is, and counts them all unless one
\* is gone; a second panel, whose list is older, leaves out what the first has added.
CardsSayWhatRuns ==
    /\ ~IsCustom /\ cond.value \in Overalls =>
          \A o \in Overalls : Evaluate(o) <=> o = CardVerdict
    /\ DOMAIN gate.names \subseteq gate.ids
    /\ \A d \in DOMAIN gate.names \ renamed : gate.names[d] = typeName[d]
    /\ Cardinality(setters) = 1 =>
          /\ gate.ids \cap docTypes \subseteq DOMAIN gate.names
          /\ gate.ids \subseteq docTypes => CardCount = Cardinality(gate.ids)

\* A verdict shown beside a rule is the one that rule got in the run, unless another
\* rule had then the name the rule has now.
RuleShowsItsOwn ==
    \A r \in RulesOf[picked] :
        \/ StatusOf(r) \in {"pending", "running"}
        \/ \E s \in DOMAIN ran.names \ {r} : ran.names[s] = ruleName[r]
        \/ r \in DOMAIN ran.verdict /\ StatusOf(r) = ran.verdict[r]
=============================================================================

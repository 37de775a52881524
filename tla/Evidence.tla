------------------------------ MODULE Evidence ------------------------------
(***************************************************************************)
(* What the detail modal of a run shows (RunDetailModal of                 *)
(* pages/Validate.tsx): beside the rules of the policy, as they are now,   *)
(* the results of the run, which checked the rules as they were when the   *)
(* validate_documents handler read them.  The two meet by the names of the *)
(* rules, while colleagues edit the policy and the run goes on.            *)
(***************************************************************************)
EXTENDS Naturals, Sequences, SequencesExt

CONSTANTS
    RuleNames,      \* the names rules have
    Verdicts,       \* what a rule may come out with
    MaxPolicyRules, \* bound on the rules ever created, at most two of them at first
    MaxRuleEdits    \* bound on the edits of the policy

ASSUME EvidenceAssumption ==
    /\ MaxPolicyRules \in Nat /\ MaxPolicyRules >= 2 /\ MaxRuleEdits \in Nat
    /\ {"pending", "running"} \cap Verdicts = {}

VARIABLES
    rules,       \* the rules of the policy, in their order
    ruleEdits,   \* the number of edits so far
    check,       \* the validate_documents step: its status, what it read, its output
    cachedRules, \* what usePolicy has, <<>> before the first answer
    shownCheck,  \* the step as liveSteps has it
    modalOpen,   \* whether the modal is open
    picked,      \* selectedRuleIndex, counted from 1; 0 for null
    zoomed       \* whether the lightbox is open on the pages

evidenceVars == <<rules, ruleEdits, check, cachedRules, shownCheck, modalOpen, picked, zoomed>>

PolicyRuleRow == [id : 1 .. MaxPolicyRules, name : RuleNames]
Finding == [of : 1 .. MaxPolicyRules, name : RuleNames, verdict : Verdicts]
NoFinding == [of |-> 0]
CheckOver == {"succeeded", "failed"}
Unchecked == [status |-> "pending", read |-> <<>>, results |-> <<>>]

EvidenceTypeOK ==
    /\ rules \in Seq(PolicyRuleRow) /\ cachedRules \in Seq(PolicyRuleRow)
    /\ ruleEdits \in 0 .. MaxRuleEdits
    /\ \A c \in {check, shownCheck} :
          /\ c.status \in {"pending", "running"} \cup CheckOver
          /\ c.read \in Seq(PolicyRuleRow) /\ c.results \in Seq(Finding)
          /\ c.results # <<>> => c.status \in CheckOver
    /\ modalOpen \in BOOLEAN /\ zoomed \in BOOLEAN /\ picked \in 0 .. MaxPolicyRules
    /\ zoomed => modalOpen
    /\ ~modalOpen => shownCheck = Unchecked /\ picked = 0

EvidenceInit ==
    /\ \E names \in [1 .. 2 -> RuleNames] : rules = [i \in 1 .. 2 |-> [id |-> i, name |-> names[i]]]
    /\ ruleEdits = 0
    /\ check = Unchecked /\ shownCheck = Unchecked
    /\ cachedRules = <<>>
    /\ modalOpen = FALSE /\ picked = 0 /\ zoomed = FALSE

-----------------------------------------------------------------------------
(* The policy and the run.                                                 *)

EditRules(new) ==
    /\ ruleEdits < MaxRuleEdits /\ new # rules
    /\ rules' = new
    /\ ruleEdits' = ruleEdits + 1
    /\ UNCHANGED <<check, cachedRules, shownCheck, modalOpen, picked, zoomed>>

\* Names are not unique; a new rule has a number no other had.
RenameRule(i, n) == i \in DOMAIN rules /\ EditRules([rules EXCEPT ![i].name = n])
RemoveRule(i) == i \in DOMAIN rules /\ EditRules(RemoveAt(rules, i))
SwapRules(i) ==
    /\ i + 1 \in DOMAIN rules
    /\ EditRules([rules EXCEPT ![i] = rules[i + 1], ![i + 1] = rules[i]])
NewRule(n) ==
    LET id == 3 + ruleEdits IN
    id <= MaxPolicyRules /\ EditRules(Append(rules, [id |-> id, name |-> n]))

\* The handler reads the rules once, whatever version the policy is at.
CheckStarts ==
    /\ check.status = "pending"
    /\ check' = [check EXCEPT !.status = "running", !.read = rules]
    /\ UNCHANGED <<rules, ruleEdits, cachedRules, shownCheck, modalOpen, picked, zoomed>>

\* The results of the rules that were read, in the order of the rules.  The language
\* model may leave one out, and two rules with one name may be merged into one
\* result.  A check with fail_on_missing fails with its output, an error leaves none.
ResultsOf(read) ==
    UNION {{[k \in DOMAIN kept |-> [of |-> kept[k].id, name |-> kept[k].name, verdict |-> v[k]]] :
               v \in [DOMAIN kept -> Verdicts]} :
           kept \in {read} \cup {RemoveAt(read, i) : i \in DOMAIN read}}

CheckEnds ==
    /\ check.status = "running"
    /\ \/ \E out \in ResultsOf(check.read), s \in CheckOver :
             check' = [check EXCEPT !.status = s, !.results = out]
       \/ check' = [check EXCEPT !.status = "failed"]
    /\ UNCHANGED <<rules, ruleEdits, cachedRules, shownCheck, modalOpen, picked, zoomed>>

-----------------------------------------------------------------------------
(* The modal.                                                              *)

\* It starts from the run of the list, which may be behind, and from the policy if
\* that is cached.
OpenDetail ==
    /\ ~modalOpen
    /\ modalOpen' = TRUE
    /\ shownCheck' \in {check, Unchecked}
    /\ UNCHANGED <<rules, ruleEdits, check, cachedRules, picked, zoomed>>

UpdateArrives ==
    /\ modalOpen /\ shownCheck # check
    /\ shownCheck' = check
    /\ UNCHANGED <<rules, ruleEdits, check, cachedRules, modalOpen, picked, zoomed>>

\* usePolicy answers, or is asked again when the window comes to the front.
RulesLand ==
    /\ modalOpen /\ cachedRules # rules
    /\ cachedRules' = rules
    /\ UNCHANGED <<rules, ruleEdits, check, shownCheck, modalOpen, picked, zoomed>>

PickRule(i) ==
    /\ modalOpen /\ ~zoomed /\ i \in DOMAIN cachedRules /\ picked # i
    /\ picked' = i
    /\ UNCHANGED <<rules, ruleEdits, check, cachedRules, shownCheck, modalOpen, zoomed>>

\* The keys work on the index; the lightbox has the keys while it is open.
Below(i) == IF i >= Len(cachedRules) THEN Len(cachedRules) ELSE i + 1
Above(i) == IF i <= 1 THEN 1 ELSE i - 1

Arrow ==
    /\ modalOpen /\ ~zoomed /\ cachedRules # <<>>
    /\ picked' \in {Below(picked), Above(picked)} \ {picked}
    /\ UNCHANGED <<rules, ruleEdits, check, cachedRules, shownCheck, modalOpen, zoomed>>

CloseDetail ==
    /\ modalOpen /\ ~zoomed
    /\ modalOpen' = FALSE /\ shownCheck' = Unchecked /\ picked' = 0
    /\ UNCHANGED <<rules, ruleEdits, check, cachedRules, zoomed>>

-----------------------------------------------------------------------------
(* What it shows.                                                          *)

\* resultsByName: nothing before the step is over; of two results with one name,
\* the last.
ShownResults == IF shownCheck.status \in CheckOver THEN shownCheck.results ELSE <<>>
ByPlace(i) == IF i \in DOMAIN ShownResults THEN ShownResults[i] ELSE NoFinding
ResultFor(i) ==
    LET k == SelectLastInSeq(ShownResults, LAMBDA r : r.name = cachedRules[i].name) IN
    IF k = 0 THEN NoFinding ELSE ShownResults[k]

\* The mark beside the name of a rule in the list.
RowStatus(i) ==
    IF shownCheck.status = "running" THEN "running"
    ELSE IF ResultFor(i) = NoFinding THEN "pending" ELSE ResultFor(i).verdict

\* The panel on the right.
Panel ==
    IF picked \notin DOMAIN cachedRules THEN "select a rule"
    ELSE IF shownCheck.status = "running" THEN "checking"
    ELSE IF ResultFor(picked) = NoFinding THEN "no result" ELSE "evidence"

\* The pages are among the evidence.
OpenLightbox ==
    /\ modalOpen /\ ~zoomed /\ Panel = "evidence"
    /\ zoomed' = TRUE
    /\ UNCHANGED <<rules, ruleEdits, check, cachedRules, shownCheck, modalOpen, picked>>

CloseLightbox ==
    /\ zoomed
    /\ zoomed' = FALSE
    /\ UNCHANGED <<rules, ruleEdits, check, cachedRules, shownCheck, modalOpen, picked>>

EvidenceNext ==
    \/ \E i \in 1 .. MaxPolicyRules :
          \/ RemoveRule(i) \/ SwapRules(i) \/ PickRule(i)
          \/ \E n \in RuleNames : RenameRule(i, n)
    \/ \E n \in RuleNames : NewRule(n)
    \/ CheckStarts \/ CheckEnds
    \/ OpenDetail \/ UpdateArrives \/ RulesLand \/ Arrow \/ CloseDetail
    \/ OpenLightbox \/ CloseLightbox

EvidenceSpec == EvidenceInit /\ [][EvidenceNext]_evidenceVars

-----------------------------------------------------------------------------
CheckedAs(r) == \E k \in DOMAIN check.read : check.read[k] = r
OnlyOneNamed(n) == \A j, k \in DOMAIN check.read : check.read[j].name = n /\ check.read[k].name = n => j = k

(* A rule the run has checked under the name it is shown with, and as the  *)
(* only one of that name, is shown with its own result or with none,       *)
(* however the policy was edited and reordered since; no row has a verdict *)
(* the check has not come to; and where the list has a verdict, the panel  *)
(* has the evidence for it.                                                *)
EvidenceIsOfTheRule ==
    \A i \in DOMAIN cachedRules :
        LET r == cachedRules[i] IN
        /\ ResultFor(i) # NoFinding /\ CheckedAs(r) /\ OnlyOneNamed(r.name) => ResultFor(i).of = r.id
        /\ RowStatus(i) \in Verdicts =>
              /\ check.status \in CheckOver /\ Contains(check.results, ResultFor(i))
              /\ picked = i => Panel = "evidence"
=============================================================================

------------------------------- MODULE Review -------------------------------
(***************************************************************************)
(* The human review of a validation report: the report page               *)
(* (pages/ReportPage.tsx, components/ReportView.tsx), the drawer of the    *)
(* case page (components/CaseReviewDrawer.tsx) and the routes that keep    *)
(* the review as one JSON document in workflow_runs.review                 *)
(* (routers/review.py).  A route reads the whole document, changes it and  *)
(* writes the whole document back; nothing locks it in between.            *)
(***************************************************************************)
EXTENDS Naturals, FiniteSets

CONSTANTS
    Rules,      \* the findings of the run
    Ai,         \* Ai[r]: the verdict of the AI
    Optional,   \* the rules whose requirement is "optional"
    Reviewers,  \* the pages open on the report
    Drawers,    \* those of them that are drawers
    Picked,     \* bound on the verdicts picked on the page
    MaxActs     \* bound on what the reviewers do

Verdicts == {"pass", "fail", "uncertain", "not_applicable"}

ASSUME ReviewAssumption ==
    /\ IsFiniteSet(Rules) /\ "none" \notin Rules
    /\ Ai \in [Rules -> Verdicts] /\ Optional \subseteq Rules
    /\ Drawers \subseteq Reviewers /\ Picked \subseteq Verdicts /\ MaxActs \in Nat

VARIABLES
    review,     \* the document in the database
    cache,      \* cache[u]: what the page of u knows of it
    editor,     \* editor[u]: the decision being edited on the selected finding
    reviewRpc,        \* reviewRpc[u]: the request of the page under way
    decided,    \* decided[r]: what the last decision committed on r was
    final,      \* the document as it was finalized, while it has not been reopened
    raced,      \* a route wrote back a document another one had changed since
    acts        \* how much the reviewers have done

reviewVars == <<review, cache, editor, reviewRpc, decided, final, raced, acts>>

\* No override, no note.
Bare == [over |-> "ai", note |-> FALSE]
NoReview == [state |-> "none", found |-> [r \in Rules |-> Bare], overall |-> "none"]
Annotation == [over : Verdicts \cup {"ai"}, note : BOOLEAN]
ReviewDocuments == [state : {"none", "draft", "finalized"}, found : [Rules -> Annotation],
              overall : {"none", "pass", "fail", "needs_review"}]
NoEdit == [rule |-> "none", pending |-> "none"]

\* What the controls of a page depend on.
View == [final : BOOLEAN, overridden : SUBSET Rules]
ViewOf(doc) == [final |-> doc.state = "finalized",
                overridden |-> {r \in Rules : doc.found[r].over # "ai"}]
NoReviewRpc == [op |-> "none", pc |-> "sent", rule |-> "none", over |-> "none", note |-> "none",
          seen |-> NoReview]

ReviewTypeOK ==
    /\ review \in ReviewDocuments /\ cache \in [Reviewers -> View]
    /\ \A u \in Reviewers :
          /\ editor[u].rule \in Rules \cup {"none"}
          /\ editor[u].pending \in Verdicts \cup {"none"}
          /\ (editor[u].rule = "none") = (editor[u].pending = "none")
          /\ reviewRpc[u].op \in {"none", "annotate", "finalize", "reopen"}
          /\ reviewRpc[u].pc \in {"sent", "read", "done"} /\ reviewRpc[u].seen \in ReviewDocuments
          /\ (reviewRpc[u].op = "annotate") = (reviewRpc[u].rule \in Rules)
    /\ review.state = "none" => review = NoReview
    /\ decided \in [Rules -> Annotation]
    /\ final \in ReviewDocuments \cup {NoReview}
    /\ raced \in BOOLEAN /\ acts \in 0 .. MaxActs

\* effectiveStatus: the override, or else what the AI said.
Effective(found, r) == IF found[r].over = "ai" THEN Ai[r] ELSE found[r].over

\* _compute_overall: the required rules decide.
Overall(found) ==
    LET eff == {Effective(found, r) : r \in Rules \ Optional} IN
    IF "fail" \in eff THEN "fail" ELSE IF "uncertain" \in eff THEN "needs_review" ELSE "pass"

\* The drawer's count of the findings that are left.
Unresolved(found) == Cardinality({r \in Rules : Effective(found, r) \in {"fail", "uncertain"}})

\* A report nobody has reviewed yet, or one that was worked on before: no finding
\* overridden any more, or one the AI did not pass, and finalized or not.
Overridden ==
    {[r \in Rules |-> IF r = s THEN [Bare EXCEPT !.over = "pass"] ELSE Bare] :
         s \in {r \in Rules : Ai[r] # "pass"}} \cup {[r \in Rules |-> Bare]}
ReviewInit ==
    /\ review \in {NoReview} \cup
          {[state |-> s, found |-> f, overall |-> Overall(f)] : s \in {"draft", "finalized"}, f \in Overridden}
    /\ cache = [u \in Reviewers |-> ViewOf(review)]
    /\ editor = [u \in Reviewers |-> NoEdit]
    /\ reviewRpc = [u \in Reviewers |-> NoReviewRpc]
    /\ decided = review.found
    /\ final = (IF review.state = "finalized" THEN review ELSE NoReview) /\ raced = FALSE /\ acts = 0

-----------------------------------------------------------------------------
(* The page and the drawer.  The page hides its controls on a report it    *)
(* knows to be finalized, the drawer never does.                           *)

Busy(u) == reviewRpc[u].op # "none"
Controls(u) == ~Busy(u) /\ (u \in Drawers \/ ~cache[u].final)

Act == acts < MaxActs /\ acts' = acts + 1
Ask(u, request) == reviewRpc' = [reviewRpc EXCEPT ![u] = request]
Annotate(r, over, note) == [NoReviewRpc EXCEPT !.op = "annotate", !.rule = r, !.over = over, !.note = note]

\* Another finding is selected: the decision being edited is dropped.
SelectFinding(u) ==
    /\ editor[u] # NoEdit
    /\ editor' = [editor EXCEPT ![u] = NoEdit]
    /\ UNCHANGED <<review, cache, reviewRpc, decided, final, raced, acts>>

\* A verdict is picked for a finding: the AI's own clears the override the page
\* knows of, any other waits for its reason.  The drawer offers pass and fail.
OfferedVerdicts(u) == IF u \in Drawers THEN {"pass", "fail"} ELSE Picked
Agrees(r, v) == v = Ai[r]

PickVerdict(u, r, v) ==
    /\ Controls(u) /\ v \in OfferedVerdicts(u)
    /\ IF Agrees(r, v)
       THEN /\ editor' = [editor EXCEPT ![u] = NoEdit]
            /\ IF r \in cache[u].overridden
               THEN Act /\ Ask(u, Annotate(r, "ai", "none"))
               ELSE UNCHANGED <<reviewRpc, acts>>
       ELSE editor' = [editor EXCEPT ![u] = [rule |-> r, pending |-> v]] /\ UNCHANGED <<reviewRpc, acts>>
    /\ UNCHANGED <<review, cache, decided, final, raced>>

SaveDecision(u) ==
    /\ Act
    /\ ~Busy(u) /\ editor[u] # NoEdit
    /\ Ask(u, Annotate(editor[u].rule, editor[u].pending, "none"))
    /\ UNCHANGED <<review, cache, editor, decided, final, raced>>

ResetToAi(u, r) ==
    /\ Act
    /\ Controls(u) /\ r \in cache[u].overridden
    /\ Ask(u, Annotate(r, "ai", "none"))
    /\ UNCHANGED <<review, cache, editor, decided, final, raced>>

\* An empty note clears the one there is.
SaveNote(u, r) ==
    /\ Act
    /\ Controls(u)
    /\ \E note \in {"set", "clear"} : Ask(u, Annotate(r, "none", note))
    /\ UNCHANGED <<review, cache, editor, decided, final, raced>>

Finalize(u) ==
    /\ Act
    /\ ~Busy(u) /\ u \notin Drawers /\ ~cache[u].final
    /\ Ask(u, [NoReviewRpc EXCEPT !.op = "finalize"])
    /\ UNCHANGED <<review, cache, editor, decided, final, raced>>

Reopen(u) ==
    /\ Act
    /\ ~Busy(u) /\ u \notin Drawers /\ cache[u].final
    /\ Ask(u, [NoReviewRpc EXCEPT !.op = "reopen"])
    /\ UNCHANGED <<review, cache, editor, decided, final, raced>>

-----------------------------------------------------------------------------
(* The routes: what a request reads ...                                    *)

AlwaysAmendable(seen) == TRUE
Amendable(seen) == seen.state # "finalized"

\* ReviewAnswered from what was read: 409 for a finalized report, nothing to do for a
\* report that is finalized, or reopened, already.
NothingToWrite(request, seen) ==
    \/ request.op = "annotate" /\ ~Amendable(seen)
    \/ request.op = "finalize" /\ seen.state = "finalized"
    \/ request.op = "reopen" /\ seen.state # "finalized"

RouteReads(u) ==
    /\ Busy(u) /\ reviewRpc[u].pc = "sent"
    /\ reviewRpc' = [reviewRpc EXCEPT ![u] = IF NothingToWrite(@, review)
                                 THEN [@ EXCEPT !.pc = "done"]
                                 ELSE [@ EXCEPT !.pc = "read", !.seen = review]]
    /\ UNCHANGED <<review, cache, editor, decided, final, raced, acts>>

-----------------------------------------------------------------------------
(* ... and what it writes back.                                            *)

\* The annotation of the request's rule, the others as they were read.
Merged(request, old) ==
    [over |-> IF request.over = "none" THEN old.over ELSE request.over,
     note |-> CASE request.note = "set" -> TRUE [] request.note = "clear" -> FALSE [] OTHER -> old.note]
OthersDropped(request, found) ==
    [r \in Rules |-> IF r = request.rule THEN Merged(request, found[r]) ELSE Bare]
Annotated(request, found) ==
    [r \in Rules |-> IF r = request.rule THEN Merged(request, found[r]) ELSE found[r]]

OverallKept(seen, found) == seen.overall
OverallOf(seen, found) == Overall(found)

\* The first annotation, or the finalization, makes the document (_blank_review).
Undrafted(seen) == seen
Drafted(seen) == [seen EXCEPT !.state = IF @ = "none" THEN "draft" ELSE @]

Written(request) ==
    LET seen == request.seen
        base == Drafted(seen) IN
    CASE request.op = "annotate" ->
            LET found == Annotated(request, seen.found) IN
            [base EXCEPT !.found = found, !.overall = OverallOf(seen, found)]
      [] request.op = "finalize" -> [base EXCEPT !.state = "finalized", !.overall = Overall(seen.found)]
      [] request.op = "reopen" -> [base EXCEPT !.state = "draft"]

RouteCommits(u) ==
    /\ Busy(u) /\ reviewRpc[u].pc = "read"
    /\ review' = Written(reviewRpc[u])
    /\ raced' = (raced \/ review # reviewRpc[u].seen)
    /\ decided' = IF reviewRpc[u].op = "annotate"
                  THEN [decided EXCEPT ![reviewRpc[u].rule] = Merged(reviewRpc[u], @)] ELSE decided
    /\ final' = CASE reviewRpc[u].op = "finalize" -> review'
                  [] reviewRpc[u].op = "reopen" -> NoReview
                  [] OTHER -> final
    /\ reviewRpc' = [reviewRpc EXCEPT ![u].pc = "done", ![u].seen = NoReview]
    /\ UNCHANGED <<cache, editor, acts>>

\* The answer: the pages' query is invalidated and asks for the run again; the
\* decision that was saved leaves the editor.
ReviewAnswered(u) ==
    /\ Busy(u) /\ reviewRpc[u].pc = "done"
    /\ reviewRpc' = [reviewRpc EXCEPT ![u] = NoReviewRpc]
    /\ cache' = [cache EXCEPT ![u] = ViewOf(review)]
    /\ editor' = [editor EXCEPT ![u] = NoEdit]
    /\ UNCHANGED <<review, decided, final, raced, acts>>

\* The request fails, or its answer is lost: the decision stays in the editor.
ReviewFails(u) ==
    /\ Busy(u) /\ reviewRpc[u].pc # "read"
    /\ reviewRpc' = [reviewRpc EXCEPT ![u] = NoReviewRpc]
    /\ UNCHANGED <<review, cache, editor, decided, final, raced, acts>>

ReviewRefetched(u) ==
    /\ cache[u] # ViewOf(review)
    /\ cache' = [cache EXCEPT ![u] = ViewOf(review)]
    /\ UNCHANGED <<review, editor, reviewRpc, decided, final, raced, acts>>

-----------------------------------------------------------------------------
ReviewNext == \E u \in Reviewers :
    \/ \E r \in Rules : (\E v \in Verdicts : PickVerdict(u, r, v)) \/ ResetToAi(u, r) \/ SaveNote(u, r)
    \/ SelectFinding(u) \/ SaveDecision(u) \/ Finalize(u) \/ Reopen(u)
    \/ RouteReads(u) \/ RouteCommits(u) \/ ReviewAnswered(u) \/ ReviewFails(u) \/ ReviewRefetched(u)

ReviewSpec == ReviewInit /\ [][ReviewNext]_reviewVars

-----------------------------------------------------------------------------
(* Properties.                                                             *)

\* The verdict at the top of the report is the one its findings and overrides
\* give, whatever routes overlapped: no reader sees a stale overall, and a report
\* of which the drawer says "All reviewed" has passed.
OverallMatchesFindings ==
    review.state # "none" =>
        /\ review.overall = Overall(review.found)
        /\ Unresolved(review.found) = 0 => review.overall = "pass"

\* As long as no route overtook another, a decision that was committed stays until
\* another one on the same finding, and a finalized report stays what it was until
\* it is reopened, whatever controls the drawer still offers.
ReviewIsKept ==
    ~raced => review.found = decided /\ (final # NoReview => review = final)
=============================================================================

----------------------------- MODULE ReviewProof -----------------------------
(***************************************************************************)
(* Proofs about the review of a report, for any findings, verdicts of the  *)
(* AI, pages and drawers: the overall verdict is the one of the findings   *)
(* whatever routes overlap, and while none does, what was decided and what *)
(* was finalized is what the database holds.                               *)
(***************************************************************************)
EXTENDS Review, FiniteSetTheorems, TLAPS

-----------------------------------------------------------------------------
(* Type correctness.                                                       *)

ReviewRequests ==
    [op : {"none", "annotate", "finalize", "reopen"}, pc : {"sent", "read", "done"},
     rule : Rules \cup {"none"}, over : Verdicts \cup {"ai", "none"},
     note : {"none", "set", "clear"}, seen : ReviewDocuments]
Edits == [rule : Rules \cup {"none"}, pending : Verdicts \cup {"none"}]

\* The shapes ReviewTypeOK does not spell out, and what a request that was read has read:
\* a document the route found something to write to.
ReviewShapes ==
    /\ review \in ReviewDocuments /\ cache \in [Reviewers -> View]
    /\ editor \in [Reviewers -> Edits] /\ reviewRpc \in [Reviewers -> ReviewRequests]
    /\ decided \in [Rules -> Annotation] /\ final \in ReviewDocuments
    /\ raced \in BOOLEAN /\ acts \in 0 .. MaxActs
EditsAreWhole ==
    \A u \in Reviewers : (editor[u].rule = "none") = (editor[u].pending = "none")
RequestsAreWhole ==
    \A u \in Reviewers :
        /\ (reviewRpc[u].op = "annotate") = (reviewRpc[u].rule \in Rules)
        /\ reviewRpc[u].pc = "read" =>
              reviewRpc[u].op # "none" /\ ~NothingToWrite(reviewRpc[u], reviewRpc[u].seen)
NoneIsBlank(doc) == doc.state = "none" => doc = NoReview
BlankIsBlank == NoneIsBlank(review)
ReviewTypeInvariant == ReviewShapes /\ EditsAreWhole /\ RequestsAreWhole /\ BlankIsBlank

\* The overall a document holds, or held when a route read it, is the one of its findings.
SettledDoc(doc) == doc.state # "none" => doc.overall = Overall(doc.found)
OverallSettled == SettledDoc(review) /\ \A u \in Reviewers : SettledDoc(reviewRpc[u].seen)

\* A finalized document is known to be so while no route overtook another.
KeptSoFar ==
    ~raced => /\ review.found = decided
              /\ (final = NoReview) = (review.state # "finalized")
              /\ final # NoReview => review = final

ReviewInvariant == ReviewTypeInvariant /\ OverallSettled /\ KeptSoFar

-----------------------------------------------------------------------------
(* What the operators give.                                                *)

LEMMA NoReviewIsADocument == NoReview \in ReviewDocuments /\ NoReviewRpc \in ReviewRequests
BY DEF NoReview, ReviewDocuments, Annotation, Bare, NoReviewRpc, ReviewRequests

LEMMA OverallIsAVerdict ==
  ASSUME NEW found
  PROVE  Overall(found) \in {"pass", "fail", "needs_review"}
BY DEF Overall

LEMMA MergedIsAnAnnotation ==
  ASSUME NEW request \in ReviewRequests, NEW old \in Annotation
  PROVE  Merged(request, old) \in Annotation
<1>1. request.over \in Verdicts \cup {"ai", "none"} /\ request.note \in {"none", "set", "clear"}
  BY DEF ReviewRequests
<1>2. old.over \in Verdicts \cup {"ai"} /\ old.note \in BOOLEAN
  BY DEF Annotation
<1>3. (IF request.over = "none" THEN old.over ELSE request.over) \in Verdicts \cup {"ai"}
  BY <1>1, <1>2
<1>4. (CASE request.note = "set" -> TRUE [] request.note = "clear" -> FALSE [] OTHER -> old.note) \in BOOLEAN
  BY <1>1, <1>2
<1>5. QED
  BY <1>3, <1>4 DEF Merged, Annotation

\* What a route writes is a document, and settled if what it read was; it is finalized
\* exactly if the route finalizes.
LEMMA WrittenIsADocument ==
  ASSUME NEW request \in ReviewRequests, request.op # "none",
         ~NothingToWrite(request, request.seen), SettledDoc(request.seen)
  PROVE  /\ Written(request) \in ReviewDocuments
         /\ Written(request).state # "none"
         /\ (Written(request).state = "finalized") = (request.op = "finalize")
         /\ SettledDoc(Written(request))
         /\ Written(request).found = IF request.op = "annotate"
                                     THEN Annotated(request, request.seen.found)
                                     ELSE request.seen.found
<1> DEFINE seen == request.seen
           found == Annotated(request, seen.found)
<1>1. seen \in ReviewDocuments /\ request.op \in {"annotate", "finalize", "reopen"}
  BY DEF ReviewRequests
<1>2. Drafted(seen) \in ReviewDocuments /\ Drafted(seen).found = seen.found
      /\ Drafted(seen).overall = seen.overall
      /\ Drafted(seen).state = IF seen.state = "none" THEN "draft" ELSE seen.state
  BY <1>1 DEF Drafted, ReviewDocuments
<1>3. CASE request.op = "annotate"
  <2>1. found \in [Rules -> Annotation]
    BY <1>1, MergedIsAnAnnotation DEF Annotated, ReviewDocuments
  <2>2. Written(request) = [Drafted(seen) EXCEPT !.found = found, !.overall = Overall(found)]
    BY <1>3 DEF Written, OverallOf
  <2>3. seen.state # "finalized"
    BY <1>3 DEF NothingToWrite, Amendable
  <2> HIDE DEF found
  <2>4. QED
    BY <1>1, <1>2, <1>3, <2>1, <2>2, <2>3, OverallIsAVerdict
       DEF ReviewDocuments, SettledDoc, found
<1>4. CASE request.op = "finalize"
  <2>1. Written(request) = [Drafted(seen) EXCEPT !.state = "finalized", !.overall = Overall(seen.found)]
    BY <1>4 DEF Written
  <2>2. QED
    BY <1>1, <1>2, <1>4, <2>1, OverallIsAVerdict DEF ReviewDocuments, SettledDoc
<1>5. CASE request.op = "reopen"
  <2>1. Written(request) = [Drafted(seen) EXCEPT !.state = "draft"]
    BY <1>5 DEF Written
  <2>2. seen.state = "finalized"
    BY <1>5 DEF NothingToWrite
  <2>3. QED
    BY <1>1, <1>2, <1>5, <2>1, <2>2 DEF ReviewDocuments, SettledDoc
<1>6. QED
  BY <1>1, <1>3, <1>4, <1>5

\* A report of which no finding is left unresolved has passed.
LEMMA NothingLeftHasPassed ==
  ASSUME NEW found, Unresolved(found) = 0
  PROVE  Overall(found) = "pass"
<1> DEFINE Left == {r \in Rules : Effective(found, r) \in {"fail", "uncertain"}}
<1>1. IsFiniteSet(Left)
  BY ReviewAssumption, FS_Subset
<1>2. Left = {}
  BY <1>1, FS_EmptySet DEF Unresolved
<1>3. \A r \in Rules \ Optional : Effective(found, r) \notin {"fail", "uncertain"}
  BY <1>2
<1>4. QED
  BY <1>3 DEF Overall

-----------------------------------------------------------------------------
(* The invariant.                                                          *)

LEMMA ReviewInitially == ReviewInit => ReviewInvariant
<1> SUFFICES ASSUME ReviewInit PROVE ReviewInvariant
  OBVIOUS
<1>1. Overridden \subseteq [Rules -> Annotation]
  <2>1. Bare \in Annotation /\ [Bare EXCEPT !.over = "pass"] \in Annotation
    BY DEF Bare, Annotation, Verdicts
  <2>2. QED
    BY <2>1 DEF Overridden
<1>2. review \in ReviewDocuments /\ SettledDoc(review) /\ NoneIsBlank(review)
  <2>1. CASE review = NoReview
    BY <2>1, NoReviewIsADocument DEF SettledDoc, NoneIsBlank, NoReview
  <2>2. CASE review # NoReview
    <3>1. PICK s \in {"draft", "finalized"}, f \in Overridden :
            review = [state |-> s, found |-> f, overall |-> Overall(f)]
      BY <2>2 DEF ReviewInit
    <3>2. f \in [Rules -> Annotation] /\ Overall(f) \in {"pass", "fail", "needs_review"}
      BY <1>1, OverallIsAVerdict
    <3>3. QED
      BY <3>1, <3>2 DEF SettledDoc, NoneIsBlank, ReviewDocuments
  <2>3. QED
    BY <2>1, <2>2
<1>3. ViewOf(review) \in View
  BY DEF ViewOf, View
<1>4. ReviewShapes
  <2>1. cache \in [Reviewers -> View] /\ reviewRpc \in [Reviewers -> ReviewRequests]
    BY <1>3, NoReviewIsADocument DEF ReviewInit
  <2>2. editor \in [Reviewers -> Edits]
    BY DEF ReviewInit, NoEdit, Edits
  <2>3. decided \in [Rules -> Annotation]
    <3>1. \A doc \in ReviewDocuments : doc.found \in [Rules -> Annotation]
      BY DEF ReviewDocuments
    <3>2. QED
      BY <1>2, <3>1 DEF ReviewInit
  <2>4. final \in ReviewDocuments /\ raced \in BOOLEAN /\ acts \in 0 .. MaxActs
    <3>1. final = review \/ final = NoReview
      BY DEF ReviewInit
    <3>2. raced \in BOOLEAN
      BY DEF ReviewInit
    <3>3. acts = 0
      BY DEF ReviewInit
    <3>4. acts \in 0 .. MaxActs
      BY <3>3, ReviewAssumption
    <3>5. QED
      BY <1>2, <3>1, <3>2, <3>4, NoReviewIsADocument
  <2>5. QED
    BY <1>2, <2>1, <2>2, <2>3, <2>4 DEF ReviewShapes
<1>5. EditsAreWhole /\ RequestsAreWhole /\ BlankIsBlank
  BY <1>2, ReviewAssumption
     DEF ReviewInit, EditsAreWhole, RequestsAreWhole, BlankIsBlank, NoEdit, NoReviewRpc
<1>6. OverallSettled
  BY <1>2 DEF ReviewInit, OverallSettled, SettledDoc, NoReviewRpc, NoReview
<1>7. KeptSoFar
  BY DEF ReviewInit, KeptSoFar, NoReview
<1>8. QED
  BY <1>4, <1>5, <1>6, <1>7 DEF ReviewInvariant, ReviewTypeInvariant

\* The pages only ask and look: what the database holds, and what is known of it,
\* is the routes'.
Asked(u, request) ==
    /\ request.op # "none" /\ request.pc = "sent" /\ request.seen = NoReview
    /\ request \in ReviewRequests /\ (request.op = "annotate") = (request.rule \in Rules)
    /\ reviewRpc' = [reviewRpc EXCEPT ![u] = request]

LEMMA AskingKeeps ==
  ASSUME ReviewInvariant, NEW u \in Reviewers, NEW request, Asked(u, request) \/ UNCHANGED reviewRpc,
         UNCHANGED <<review, decided, final, raced, cache>>,
         editor' \in [Reviewers -> Edits], EditsAreWhole', acts' \in 0 .. MaxActs
  PROVE  ReviewInvariant'
<1>1. ReviewShapes'
  BY DEF ReviewInvariant, ReviewTypeInvariant, ReviewShapes, Asked
<1>2. RequestsAreWhole' /\ BlankIsBlank'
  BY DEF ReviewInvariant, ReviewTypeInvariant, ReviewShapes, RequestsAreWhole, BlankIsBlank,
     NoneIsBlank, Asked
<1>3. OverallSettled'
  BY DEF ReviewInvariant, ReviewTypeInvariant, ReviewShapes, OverallSettled, SettledDoc, Asked,
     NoReview
<1>4. KeptSoFar'
  BY DEF ReviewInvariant, KeptSoFar
<1>5. QED
  BY <1>1, <1>2, <1>3, <1>4 DEF ReviewInvariant, ReviewTypeInvariant

LEMMA AnnotateIsAsked ==
  ASSUME NEW u \in Reviewers, NEW r \in Rules, NEW over \in Verdicts \cup {"ai", "none"},
         NEW note \in {"none", "set", "clear"}, Ask(u, Annotate(r, over, note))
  PROVE  Asked(u, Annotate(r, over, note))
BY NoReviewIsADocument DEF Ask, Asked, Annotate, NoReviewRpc, ReviewRequests

LEMMA PageStep ==
  ASSUME ReviewInvariant, NEW u \in Reviewers,
         \/ \E r \in Rules : (\E v \in Verdicts : PickVerdict(u, r, v)) \/ ResetToAi(u, r) \/ SaveNote(u, r)
         \/ SelectFinding(u) \/ SaveDecision(u) \/ Finalize(u) \/ Reopen(u)
  PROVE  ReviewInvariant'
<1> USE DEF Act
<1>a. ReviewShapes /\ EditsAreWhole
  BY DEF ReviewInvariant, ReviewTypeInvariant
<1>b. NoEdit \in Edits
  BY DEF NoEdit, Edits
<1>c. UNCHANGED editor => editor' \in [Reviewers -> Edits] /\ EditsAreWhole'
  BY <1>a DEF ReviewShapes, EditsAreWhole
<1>d. editor' = [editor EXCEPT ![u] = NoEdit] => editor' \in [Reviewers -> Edits] /\ EditsAreWhole'
  BY <1>a, <1>b DEF ReviewShapes, EditsAreWhole, NoEdit
<1>e. acts \in 0 .. MaxActs /\ MaxActs \in Nat
  BY <1>a, ReviewAssumption DEF ReviewShapes
<1>1. ASSUME NEW r \in Rules, NEW v \in Verdicts, PickVerdict(u, r, v) PROVE ReviewInvariant'
  <2>1. CASE Agrees(r, v)
    <3>1. Asked(u, Annotate(r, "ai", "none")) \/ UNCHANGED reviewRpc
      BY <1>1, <2>1, AnnotateIsAsked DEF PickVerdict
    <3>2. editor' = [editor EXCEPT ![u] = NoEdit] /\ acts' \in 0 .. MaxActs
          /\ UNCHANGED <<review, decided, final, raced, cache>>
      BY <1>1, <2>1, <1>e DEF PickVerdict
    <3>3. QED
      BY <1>d, <3>1, <3>2, AskingKeeps
  <2>2. CASE ~Agrees(r, v)
    <3>1. /\ editor' = [editor EXCEPT ![u] = [rule |-> r, pending |-> v]] /\ UNCHANGED <<reviewRpc, acts>>
          /\ UNCHANGED <<review, decided, final, raced, cache>>
      BY <1>1, <2>2 DEF PickVerdict
    <3>2. editor' \in [Reviewers -> Edits] /\ EditsAreWhole'
      BY <1>a, <3>1, ReviewAssumption DEF ReviewShapes, EditsAreWhole, Edits, Verdicts
    <3>3. QED
      BY <1>e, <3>1, <3>2, AskingKeeps
  <2>3. QED
    BY <2>1, <2>2
<1>2. ASSUME NEW r \in Rules, ResetToAi(u, r) \/ SaveNote(u, r) PROVE ReviewInvariant'
  <2>1. CASE ResetToAi(u, r)
    BY <1>c, <1>e, <2>1, AnnotateIsAsked, AskingKeeps DEF ResetToAi
  <2>2. CASE SaveNote(u, r)
    <3>1. PICK note \in {"set", "clear"} : Ask(u, Annotate(r, "none", note))
      BY <2>2 DEF SaveNote
    <3>2. Asked(u, Annotate(r, "none", note))
      BY <3>1, AnnotateIsAsked
    <3>3. QED
      BY <1>c, <1>e, <2>2, <3>2, AskingKeeps DEF SaveNote
  <2>3. QED
    BY <1>2, <2>1, <2>2
<1>3. CASE SelectFinding(u)
  BY <1>d, <1>e, <1>3, AskingKeeps DEF SelectFinding
<1>4. CASE SaveDecision(u)
  <2>1. editor[u] \in Edits /\ editor[u] # NoEdit /\ (editor[u].rule = "none") = (editor[u].pending = "none")
    BY <1>4, <1>a DEF SaveDecision, ReviewShapes, EditsAreWhole
  <2>2. editor[u].rule \in Rules /\ editor[u].pending \in Verdicts
    BY <2>1 DEF Edits, NoEdit
  <2>3. Asked(u, Annotate(editor[u].rule, editor[u].pending, "none"))
    BY <1>4, <2>2, AnnotateIsAsked DEF SaveDecision
  <2>4. QED
    BY <1>c, <1>e, <1>4, <2>3, AskingKeeps DEF SaveDecision
<1>5. CASE Finalize(u)
  <2>1. Asked(u, [NoReviewRpc EXCEPT !.op = "finalize"])
    BY <1>5, NoReviewIsADocument, ReviewAssumption DEF Finalize, Ask, Asked, NoReviewRpc, ReviewRequests
  <2>2. QED
    BY <1>c, <1>e, <1>5, <2>1, AskingKeeps DEF Finalize
<1>6. CASE Reopen(u)
  <2>1. Asked(u, [NoReviewRpc EXCEPT !.op = "reopen"])
    BY <1>6, NoReviewIsADocument, ReviewAssumption DEF Reopen, Ask, Asked, NoReviewRpc, ReviewRequests
  <2>2. QED
    BY <1>c, <1>e, <1>6, <2>1, AskingKeeps DEF Reopen
<1>7. QED
  BY <1>1, <1>2, <1>3, <1>4, <1>5, <1>6

\* A route that reads keeps what it found; an answer, or its loss, lets the request go.
LEMMA ReadStep ==
  ASSUME ReviewInvariant, NEW u \in Reviewers,
         RouteReads(u) \/ ReviewAnswered(u) \/ ReviewFails(u) \/ ReviewRefetched(u)
  PROVE  ReviewInvariant'
<1>a. ReviewShapes /\ EditsAreWhole /\ RequestsAreWhole /\ BlankIsBlank /\ OverallSettled /\ KeptSoFar
  BY DEF ReviewInvariant, ReviewTypeInvariant
<1>b. ViewOf(review) \in View /\ NoEdit \in Edits /\ (NoEdit.rule = "none") = (NoEdit.pending = "none")
  BY DEF ViewOf, View, NoEdit, Edits
<1>c. BlankIsBlank' /\ KeptSoFar' /\ SettledDoc(review)'
  BY <1>a DEF BlankIsBlank, NoneIsBlank, KeptSoFar, OverallSettled, SettledDoc, RouteReads, ReviewAnswered,
     ReviewFails, ReviewRefetched
<1>d. review' \in ReviewDocuments /\ decided' \in [Rules -> Annotation] /\ final' \in ReviewDocuments
      /\ raced' \in BOOLEAN /\ acts' \in 0 .. MaxActs /\ cache' \in [Reviewers -> View]
      /\ editor' \in [Reviewers -> Edits] /\ EditsAreWhole'
  BY <1>a, <1>b DEF ReviewShapes, EditsAreWhole, RouteReads, ReviewAnswered, ReviewFails, ReviewRefetched
<1>e. NoReviewRpc \in ReviewRequests /\ SettledDoc(NoReviewRpc.seen)
      /\ NoReviewRpc.pc # "read" /\ (NoReviewRpc.op = "annotate") = (NoReviewRpc.rule \in Rules)
  BY NoReviewIsADocument, ReviewAssumption DEF NoReviewRpc, SettledDoc, NoReview
<1>f. ASSUME NEW request \in ReviewRequests, SettledDoc(request.seen),
             (request.op = "annotate") = (request.rule \in Rules),
             request.pc = "read" => request.op # "none" /\ ~NothingToWrite(request, request.seen),
             reviewRpc' = [reviewRpc EXCEPT ![u] = request] \/ UNCHANGED reviewRpc
      PROVE  ReviewInvariant'
  <2>1. reviewRpc' \in [Reviewers -> ReviewRequests]
    BY <1>a, <1>f DEF ReviewShapes
  <2>2. \A v \in Reviewers : reviewRpc'[v] = request \/ reviewRpc'[v] = reviewRpc[v]
    BY <1>a, <1>f DEF ReviewShapes
  <2>3. RequestsAreWhole'
    BY <1>a, <1>f, <2>2 DEF RequestsAreWhole
  <2>4. \A v \in Reviewers : SettledDoc(reviewRpc'[v].seen)
    BY <1>a, <1>f, <2>2 DEF OverallSettled
  <2>5. OverallSettled'
    BY <1>c, <2>4 DEF OverallSettled, SettledDoc
  <2>6. QED
    BY <1>c, <1>d, <2>1, <2>3, <2>5 DEF ReviewInvariant, ReviewTypeInvariant, ReviewShapes
<1>1. CASE RouteReads(u)
  <2> DEFINE request == IF NothingToWrite(reviewRpc[u], review) THEN [reviewRpc[u] EXCEPT !.pc = "done"]
                        ELSE [reviewRpc[u] EXCEPT !.pc = "read", !.seen = review]
  <2>1. reviewRpc' = [reviewRpc EXCEPT ![u] = request] /\ reviewRpc[u].op # "none"
    BY <1>1, <1>a DEF RouteReads, ReviewShapes, Busy
  <2>2. reviewRpc[u] \in ReviewRequests /\ SettledDoc(reviewRpc[u].seen) /\ SettledDoc(review)
        /\ (reviewRpc[u].op = "annotate") = (reviewRpc[u].rule \in Rules) /\ review \in ReviewDocuments
    BY <1>a DEF ReviewShapes, OverallSettled, RequestsAreWhole
  <2>3. CASE NothingToWrite(reviewRpc[u], review)
    <3>1. request = [reviewRpc[u] EXCEPT !.pc = "done"]
      BY <2>3
    <3>2. request \in ReviewRequests /\ request.seen = reviewRpc[u].seen /\ request.op = reviewRpc[u].op
          /\ request.rule = reviewRpc[u].rule /\ request.pc = "done"
      BY <2>2, <3>1 DEF ReviewRequests
    <3> HIDE DEF request
    <3>3. QED
      BY <1>f, <2>1, <2>2, <3>2
  <2>4. CASE ~NothingToWrite(reviewRpc[u], review)
    <3>1. request = [reviewRpc[u] EXCEPT !.pc = "read", !.seen = review]
      BY <2>4
    <3>2. request \in ReviewRequests /\ request.seen = review /\ request.op = reviewRpc[u].op
          /\ request.rule = reviewRpc[u].rule /\ request.pc = "read"
      BY <2>2, <3>1 DEF ReviewRequests
    <3>3. ~NothingToWrite(request, request.seen)
      BY <2>4, <3>2 DEF NothingToWrite
    <3> HIDE DEF request
    <3>4. QED
      BY <1>f, <2>1, <2>2, <3>2, <3>3
  <2>5. QED
    BY <2>3, <2>4
<1>2. CASE ReviewAnswered(u) \/ ReviewFails(u)
  <2>1. reviewRpc' = [reviewRpc EXCEPT ![u] = NoReviewRpc]
    BY <1>2 DEF ReviewAnswered, ReviewFails
  <2>2. QED
    BY <1>e, <1>f, <2>1
<1>3. CASE ReviewRefetched(u)
  <2>1. UNCHANGED reviewRpc
    BY <1>3 DEF ReviewRefetched
  <2>2. QED
    BY <1>e, <1>f, <2>1
<1>4. QED
  BY <1>1, <1>2, <1>3

\* A route that writes back: what it read was settled, so what it writes is; and if
\* nothing came in between, what it read is what the database holds.
LEMMA CommitStep ==
  ASSUME ReviewInvariant, NEW u \in Reviewers, RouteCommits(u)
  PROVE  ReviewInvariant'
<1> DEFINE request == reviewRpc[u]
           answered == [reviewRpc[u] EXCEPT !.pc = "done", !.seen = NoReview]
<1>a. ReviewShapes /\ EditsAreWhole /\ RequestsAreWhole /\ BlankIsBlank /\ OverallSettled /\ KeptSoFar
  BY DEF ReviewInvariant, ReviewTypeInvariant
<1>b. /\ request \in ReviewRequests /\ request.op # "none" /\ ~NothingToWrite(request, request.seen)
      /\ SettledDoc(request.seen) /\ (request.op = "annotate") = (request.rule \in Rules)
  BY <1>a DEF RouteCommits, Busy, ReviewShapes, RequestsAreWhole, OverallSettled
<1>c. /\ review' \in ReviewDocuments /\ review'.state # "none" /\ SettledDoc(review)'
      /\ (review'.state = "finalized") = (request.op = "finalize")
      /\ review'.found = IF request.op = "annotate" THEN Annotated(request, request.seen.found)
                         ELSE request.seen.found
  BY <1>b, WrittenIsADocument DEF RouteCommits, SettledDoc
<1>d. /\ answered \in ReviewRequests /\ answered.pc = "done" /\ answered.seen = NoReview
      /\ answered.op = request.op /\ answered.rule = request.rule
  BY <1>b, NoReviewIsADocument DEF ReviewRequests
<1>e. reviewRpc' = [reviewRpc EXCEPT ![u] = answered]
  BY <1>a DEF RouteCommits, ReviewShapes
<1>f. /\ raced' = (raced \/ review # request.seen)
      /\ decided' = IF request.op = "annotate"
                    THEN [decided EXCEPT ![request.rule] = Merged(request, decided[request.rule])] ELSE decided
      /\ final' = IF request.op = "finalize" THEN review'
                  ELSE IF request.op = "reopen" THEN NoReview ELSE final
      /\ UNCHANGED <<cache, editor, acts>>
  BY <1>a, <1>b DEF RouteCommits, ReviewShapes, ReviewRequests
<1> HIDE DEF request, answered
<1>1. ReviewShapes'
  <2>1. decided' \in [Rules -> Annotation]
    BY <1>a, <1>b, <1>f, MergedIsAnAnnotation DEF ReviewShapes
  <2>2. reviewRpc' \in [Reviewers -> ReviewRequests]
    BY <1>a, <1>d, <1>e DEF ReviewShapes
  <2>3. final' \in ReviewDocuments /\ raced' \in BOOLEAN
    BY <1>a, <1>c, <1>f, NoReviewIsADocument DEF ReviewShapes
  <2>4. QED
    BY <1>a, <1>c, <1>f, <2>1, <2>2, <2>3 DEF ReviewShapes
<1>2. \A v \in Reviewers : reviewRpc'[v] = answered \/ reviewRpc'[v] = reviewRpc[v]
  BY <1>a, <1>e DEF ReviewShapes
<1>3. EditsAreWhole' /\ BlankIsBlank'
  BY <1>a, <1>c, <1>f DEF EditsAreWhole, BlankIsBlank, NoneIsBlank
<1>4. RequestsAreWhole'
  BY <1>a, <1>b, <1>d, <1>2 DEF RequestsAreWhole
<1>5. OverallSettled'
  <2>1. SettledDoc(NoReview)
    BY DEF SettledDoc, NoReview
  <2>2. \A v \in Reviewers : SettledDoc(reviewRpc'[v].seen)
    BY <1>a, <1>d, <1>2, <2>1 DEF OverallSettled
  <2>3. QED
    BY <1>c, <2>2 DEF OverallSettled, SettledDoc
<1>6. KeptSoFar'
  <2> SUFFICES ASSUME ~raced' PROVE KeptSoFar'
    BY DEF KeptSoFar
  <2>1. ~raced /\ review = request.seen
    BY <1>f
  <2>2. /\ review.found = decided /\ (final = NoReview) = (review.state # "finalized")
        /\ final # NoReview => review = final
    BY <1>a, <2>1 DEF KeptSoFar
  <2>3. review'.found = decided'
    <3>1. CASE request.op = "annotate"
      <4>1. review'.found = [r \in Rules |-> IF r = request.rule THEN Merged(request, decided[r])
                                             ELSE decided[r]]
        BY <1>c, <2>1, <2>2, <3>1 DEF Annotated
      <4>2. decided' = [decided EXCEPT ![request.rule] = Merged(request, decided[request.rule])]
        BY <1>f, <3>1
      <4>3. decided \in [Rules -> Annotation] /\ request.rule \in Rules
        BY <1>a, <1>b, <3>1 DEF ReviewShapes
      <4>4. QED
        BY <4>1, <4>2, <4>3
    <3>2. CASE request.op # "annotate"
      BY <1>c, <1>f, <2>1, <2>2, <3>2
    <3>3. QED
      BY <3>1, <3>2
  <2>4. (final' = NoReview) = (review'.state # "finalized") /\ (final' # NoReview => review' = final')
    <3>1. NoReview.state = "none"
      BY DEF NoReview
    <3>2. CASE request.op = "finalize"
      BY <1>c, <1>f, <3>1, <3>2
    <3>3. CASE request.op = "reopen"
      BY <1>c, <1>f, <3>3
    <3>4. CASE request.op = "annotate"
      <4>1. review.state # "finalized"
        BY <1>b, <2>1, <3>4 DEF NothingToWrite, Amendable
      <4>2. QED
        BY <1>c, <1>f, <2>2, <3>4, <4>1
    <3>5. QED
      BY <1>b, <3>2, <3>3, <3>4 DEF ReviewRequests
  <2>5. QED
    BY <2>3, <2>4 DEF KeptSoFar
<1>7. QED
  BY <1>1, <1>3, <1>4, <1>5, <1>6 DEF ReviewInvariant, ReviewTypeInvariant

LEMMA ReviewStep ==
  ASSUME ReviewInvariant, [ReviewNext]_reviewVars
  PROVE  ReviewInvariant'
<1>1. CASE ReviewNext
  BY <1>1, PageStep, ReadStep, CommitStep DEF ReviewNext
<1>2. CASE UNCHANGED reviewVars
  <2>1. /\ ReviewShapes' = ReviewShapes /\ EditsAreWhole' = EditsAreWhole
        /\ RequestsAreWhole' = RequestsAreWhole /\ BlankIsBlank' = BlankIsBlank
    BY <1>2 DEF reviewVars, ReviewShapes, EditsAreWhole, RequestsAreWhole, BlankIsBlank, NoneIsBlank
  <2>2. OverallSettled' = OverallSettled /\ KeptSoFar' = KeptSoFar
    BY <1>2 DEF reviewVars, OverallSettled, SettledDoc, KeptSoFar
  <2>3. QED
    BY <2>1, <2>2 DEF ReviewInvariant, ReviewTypeInvariant
<1>3. QED
  BY <1>1, <1>2

LEMMA ReviewAlways == ReviewSpec => []ReviewInvariant
<1>1. ReviewInit => ReviewInvariant
  BY ReviewInitially
<1>2. ReviewInvariant /\ [ReviewNext]_reviewVars => ReviewInvariant'
  BY ReviewStep
<1>3. QED
  BY <1>1, <1>2, PTL DEF ReviewSpec

-----------------------------------------------------------------------------
(* The theorems.                                                           *)

\* Whatever the pages and the routes do, the document in the database, what each page
\* knows of it, and each request under way are values of the kind the code stores: a
\* report without a review has the blank one, an annotation names its finding.
THEOREM ReviewTypes == ReviewSpec => []ReviewTypeOK
<1>1. ReviewInvariant => ReviewTypeOK
  BY NoReviewIsADocument
     DEF ReviewInvariant, ReviewTypeInvariant, ReviewShapes, EditsAreWhole, RequestsAreWhole, BlankIsBlank,
     NoneIsBlank, ReviewTypeOK, Edits, ReviewRequests
<1>2. QED
  BY <1>1, ReviewAlways, PTL

\* However many routes read and write the document at once, the overall verdict is the
\* one its findings give, and a report with no finding left has passed.
THEOREM OverallIsOfTheFindings == ReviewSpec => []OverallMatchesFindings
<1>1. ReviewInvariant => OverallMatchesFindings
  BY NothingLeftHasPassed DEF ReviewInvariant, OverallSettled, SettledDoc, OverallMatchesFindings
<1>2. QED
  BY <1>1, ReviewAlways, PTL

\* While no route overtook another, each finding holds what was last decided on it, and
\* a finalized report stays as it is until it is reopened.
THEOREM DecisionsAreKept == ReviewSpec => []ReviewIsKept
<1>1. ReviewInvariant => ReviewIsKept
  BY DEF ReviewInvariant, KeptSoFar, ReviewIsKept
<1>2. QED
  BY <1>1, ReviewAlways, PTL
=============================================================================

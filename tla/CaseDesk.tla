------------------------------ MODULE CaseDesk ------------------------------
(***************************************************************************)
(* The page of a case (pages/CaseDetailPage.tsx, api/cases.ts): its        *)
(* timeline, polled from GET /cases/{id} while mail and the engine go on   *)
(* changing the case, the runs and the decisions it starts, and the        *)
(* composer of replies and notes, with the routes of routers/cases.py      *)
(* behind them.                                                            *)
(***************************************************************************)
EXTENDS Naturals, Sequences, FiniteSets, SequencesExt

CONSTANTS
    MaxRuns,     \* bound on the runs of the case
    MaxDocs,     \* bound on its documents
    MaxDecisions,\* bound on the decisions taken on the page
    MaxTexts,    \* bound on the texts typed in the composer
    MaxMessages  \* bound on the messages recorded

ASSUME CaseDeskAssumption ==
    MaxRuns \in Nat /\ MaxDocs \in Nat /\ MaxDecisions \in Nat /\ MaxTexts \in Nat /\ MaxMessages \in Nat

CaseStatuses == {"open", "under_review", "closed_accepted", "closed_rejected"}
ClosedStatuses == {"closed_accepted", "closed_rejected"}

\* A run of the case: pending, running or waiting, failed or cancelled, completed with
\* the verdict of a validation, completed without one.
RunStates == {"active", "failed", "verdict", "plain"}

VARIABLES
    kase,      \* the case: status, closed_at, the number of documents, the runs
    engineOn,  \* the runs a transaction of the engine that loaded them as active is on
    cancelOn,  \* the runs a request to cancel that loaded them as active is on
    rewritten, \* the runs an end of which was written over by such a transaction
    page,      \* what useCase has cached of it
    fetch,     \* what the GET under way has read (<<>>: no GET)
    running,   \* useRunCase: the POST under way and the run it created
    started,   \* the run handed to the run context
    deciding,  \* the statuses under way in PATCH /cases/{id}
    decisions, \* how many decisions were taken
    composer,  \* mode, text and sending of the composer
    posting,   \* the message under way
    messages,  \* the outbound mails and the notes of the timeline
    mailed,    \* the texts handed to the mail provider
    typed,     \* how many texts were typed
    unanswered \* the texts whose request failed or whose answer was lost

runVars == <<engineOn, cancelOn, rewritten>>
deskVars == <<kase, runVars, page, fetch, running, started, deciding, decisions, composer, posting,
              messages, mailed, typed, unanswered>>

timelineVars == <<kase, runVars, page, fetch, running, started, deciding, decisions>>
composerVars == <<composer, posting, messages, mailed, typed, unanswered>>

IsCase(c) ==
    /\ c.status \in CaseStatuses /\ c.closedAt \in BOOLEAN /\ c.docs \in 0 .. MaxDocs
    /\ c.runs \in Seq(RunStates) /\ Len(c.runs) <= MaxRuns
Texts == 1 .. MaxTexts
Message == [kind : {"reply", "note"}, text : Texts]
NotRunning == [pc |-> "idle", run |-> 0]
NoMessage == [kind |-> "none", text |-> 0, pc |-> "none"]
Blank == [mode |-> "none", text |-> 0, sending |-> FALSE]

CaseDeskTypeOK ==
    /\ engineOn \cup cancelOn \cup rewritten \subseteq 1 .. Len(kase.runs)
    /\ IsCase(kase) /\ IsCase(page) /\ (fetch = <<>> \/ IsCase(fetch[1]))
    /\ running.pc \in {"idle", "sent", "created", "refused"} /\ running.run \in 0 .. Len(kase.runs)
    /\ (running.pc = "created") = (running.run # 0)
    /\ started \in 0 .. Len(kase.runs)
    /\ deciding \subseteq CaseStatuses /\ decisions \in 0 .. MaxDecisions
    /\ composer.mode \in {"none", "reply", "note"} /\ composer.text \in 0 .. MaxTexts
    /\ composer.mode = "none" => composer.text = 0
    /\ posting.pc \in {"none", "sent", "recorded", "done"}
    /\ composer.sending = (posting # NoMessage)
    /\ messages \in Seq(Message) /\ mailed \in Seq(Texts)
    /\ typed \in 0 .. MaxTexts /\ unanswered \subseteq Texts

CaseDeskInit ==
    /\ kase = [status |-> "open", closedAt |-> FALSE, docs |-> 0, runs |-> <<>>]
    /\ engineOn = {} /\ cancelOn = {} /\ rewritten = {}
    /\ page = kase /\ fetch = <<>>
    /\ running = NotRunning /\ started = 0
    /\ deciding = {} /\ decisions = 0
    /\ composer = Blank /\ posting = NoMessage
    /\ messages = <<>> /\ mailed = <<>> /\ typed = 0 /\ unanswered = {}

-----------------------------------------------------------------------------
(* What the page shows of the runs.                                        *)

\* latestVerdictRun: the newest run that completed with a verdict (0: none).
\* Runs end in any order, the timeline has them in the order they were created.
Verdicts(runs) == {i \in DOMAIN runs : runs[i] = "verdict"}
FirstVerdict(runs) == IF Verdicts(runs) = {} THEN 0 ELSE Min(Verdicts(runs))
LatestVerdict(runs) == Max({0} \cup Verdicts(runs))

\* refetchInterval of useCase, in seconds: 0 would be no polling at all.
WhileActive(c) == IF Contains(c.runs, "active") THEN 2 ELSE 0
PollDelay(c) == IF Contains(c.runs, "active") THEN 2 ELSE 10

-----------------------------------------------------------------------------
(* Around the page: mail comes in, the engine and cancels end runs.        *)

\* A mail with documents starts a run on them, a mail without any only puts the
\* case under review, whatever its status was.
MailWithDocuments ==
    /\ kase.docs < MaxDocs /\ Len(kase.runs) < MaxRuns
    /\ kase' = [kase EXCEPT !.docs = @ + 1, !.runs = Append(@, "active")]
    /\ UNCHANGED <<page, fetch, running, started, deciding, decisions, runVars, composerVars>>

TextOnlyMail ==
    /\ kase.status # "under_review"
    /\ kase' = [kase EXCEPT !.status = "under_review"]
    /\ UNCHANGED <<page, fetch, running, started, deciding, decisions, runVars, composerVars>>

\* POST /cases/{id}/documents, from elsewhere.
DocumentAttached ==
    /\ kase.docs < MaxDocs
    /\ kase' = [kase EXCEPT !.docs = @ + 1]
    /\ UNCHANGED <<page, fetch, running, started, deciding, decisions, runVars, composerVars>>

\* A transaction that is to write the status of run i loads the run: the engine's, or
\* that of a request to cancel, which is refused once the run is over.
Loads(i, transactions) == i \in DOMAIN kase.runs /\ kase.runs[i] = "active" /\ i \notin transactions

EngineLoadsRun(i) ==
    /\ Loads(i, engineOn)
    /\ engineOn' = engineOn \cup {i}
    /\ UNCHANGED <<kase, cancelOn, rewritten, page, fetch, running, started, deciding, decisions, composerVars>>

CancelLoadsRun(i) ==
    /\ Loads(i, cancelOn)
    /\ cancelOn' = cancelOn \cup {i}
    /\ UNCHANGED <<kase, engineOn, rewritten, page, fetch, running, started, deciding, decisions, composerVars>>

\* Its status is written whatever it has become since.
Becomes(i, s) ==
    /\ kase' = [kase EXCEPT !.runs[i] = s]
    /\ rewritten' = IF kase.runs[i] = "active" THEN rewritten ELSE rewritten \cup {i}

\* The engine ends the run, or lets it go on.
EngineWrites(i) ==
    /\ i \in engineOn
    /\ \E s \in RunStates : Becomes(i, s)
    /\ engineOn' = engineOn \ {i}
    /\ UNCHANGED <<cancelOn, page, fetch, running, started, deciding, decisions, composerVars>>

CancelWrites(i) ==
    /\ i \in cancelOn
    /\ Becomes(i, "failed")
    /\ cancelOn' = cancelOn \ {i}
    /\ UNCHANGED <<engineOn, page, fetch, running, started, deciding, decisions, composerVars>>

-----------------------------------------------------------------------------
(* The query: one GET at a time; a mutation that succeeds cancels it and    *)
(* asks again.                                                             *)

Invalidate == fetch' = <<>>

FetchReads ==
    /\ fetch = <<>> /\ PollDelay(page) > 0
    /\ fetch' = <<kase>>
    /\ UNCHANGED <<kase, page, running, started, deciding, decisions, runVars, composerVars>>

FetchLands ==
    /\ fetch # <<>>
    /\ page' = fetch[1] /\ fetch' = <<>>
    /\ UNCHANGED <<kase, running, started, deciding, decisions, runVars, composerVars>>

FetchFails ==
    /\ fetch # <<>>
    /\ fetch' = <<>>
    /\ UNCHANGED <<kase, page, running, started, deciding, decisions, runVars, composerVars>>

-----------------------------------------------------------------------------
(* handleRun, from the hint banner or from the sidebar; run_case.          *)

ClickRun ==
    /\ running.pc = "idle" /\ Len(kase.runs) < MaxRuns
    /\ running' = [pc |-> "sent", run |-> 0]
    /\ UNCHANGED <<kase, page, fetch, started, deciding, decisions, runVars, composerVars>>

\* A run needs a current document; the row is committed before start_run.
RunRoute ==
    /\ running.pc = "sent"
    /\ IF kase.docs = 0
       THEN running' = [pc |-> "refused", run |-> 0] /\ UNCHANGED kase
       ELSE /\ Len(kase.runs) < MaxRuns
            /\ kase' = [kase EXCEPT !.runs = Append(@, "active")]
            /\ running' = [pc |-> "created", run |-> Len(kase'.runs)]
    /\ UNCHANGED <<page, fetch, started, deciding, decisions, runVars, composerVars>>

RunAnswered ==
    /\ running.pc = "created"
    /\ started' = running.run /\ running' = NotRunning
    /\ Invalidate
    /\ UNCHANGED <<kase, page, deciding, decisions, runVars, composerVars>>

\* Refused, or the answer of a run that was created is lost: nothing is shown.
RunFails ==
    /\ running.pc # "idle"
    /\ running' = NotRunning
    /\ UNCHANGED <<kase, page, fetch, started, deciding, decisions, runVars, composerVars>>

-----------------------------------------------------------------------------
(* The decision: accept or reject an open case, reopen a closed one.  The   *)
(* buttons stay enabled while a PATCH is under way.                        *)

Offered == IF page.status \in ClosedStatuses THEN {"open"} ELSE ClosedStatuses

Decide(s) ==
    /\ s \in Offered \ deciding /\ decisions < MaxDecisions
    /\ decisions' = decisions + 1
    /\ deciding' = deciding \cup {s}
    /\ UNCHANGED <<kase, page, fetch, running, started, runVars, composerVars>>

\* update_case sets closed_at and never clears it; the query is invalidated.
DecisionLands(s) ==
    /\ s \in deciding
    /\ deciding' = deciding \ {s}
    /\ kase' = [kase EXCEPT !.status = s, !.closedAt = @ \/ s \in ClosedStatuses]
    /\ Invalidate
    /\ UNCHANGED <<page, running, started, decisions, runVars, composerVars>>

DecisionFails(s) ==
    /\ s \in deciding
    /\ deciding' = deciding \ {s}
    /\ UNCHANGED <<kase, page, fetch, running, started, decisions, runVars, composerVars>>

-----------------------------------------------------------------------------
(* The composer.                                                           *)

SetMode(m) ==
    /\ m # composer.mode
    /\ composer' = [composer EXCEPT !.mode = m]
    /\ UNCHANGED <<timelineVars, posting, messages, mailed, typed, unanswered>>

Type ==
    /\ composer.mode # "none" /\ typed < MaxTexts
    /\ typed' = typed + 1
    /\ composer' = [composer EXCEPT !.text = typed']
    /\ UNCHANGED <<timelineVars, posting, messages, mailed, unanswered>>

\* The X puts the draft away with the composer.
DraftKept(c) == [c EXCEPT !.mode = "none"]
PutAway(c) == [c EXCEPT !.mode = "none", !.text = 0]

CloseComposer ==
    /\ composer.mode # "none"
    /\ composer' = PutAway(composer)
    /\ UNCHANGED <<timelineVars, posting, messages, mailed, typed, unanswered>>

\* send: one message at a time; Ctrl-Enter does not go through the button.
TextOnly == composer.text # 0
MaySend == composer.text # 0 /\ ~composer.sending

Send ==
    /\ MaySend /\ Len(messages) < MaxMessages
    /\ composer' = [composer EXCEPT !.sending = TRUE]
    /\ posting' = [kind |-> composer.mode, text |-> composer.text, pc |-> "sent"]
    /\ UNCHANGED <<timelineVars, messages, mailed, typed, unanswered>>

\* reply_on_case commits the message before it hands it to the provider, add_note
\* has only the message to write.

RouteRecords ==
    /\ posting.pc = "sent"
    /\ messages' = Append(messages, [kind |-> posting.kind, text |-> posting.text])
    /\ posting' = [posting EXCEPT !.pc = IF posting.kind = "note" THEN "done" ELSE "recorded"]
    /\ UNCHANGED <<timelineVars, composer, mailed, typed, unanswered>>

\* The provider may refuse the mail: the route answers all the same.
RouteMails ==
    /\ posting.pc = "recorded"
    /\ mailed' \in {mailed, Append(mailed, posting.text)}
    /\ posting' = [posting EXCEPT !.pc = "done"]
    /\ UNCHANGED <<timelineVars, composer, messages, typed, unanswered>>

\* The text and the mode are reset, whatever was typed meanwhile.
MessageAnswered ==
    /\ posting.pc = "done"
    /\ posting' = NoMessage /\ composer' = Blank
    /\ Invalidate
    /\ UNCHANGED <<kase, runVars, page, running, started, deciding, decisions, messages, mailed, typed, unanswered>>

\* An error, a restart of the server, an answer that is lost: the text stays.
MessageFails ==
    /\ posting # NoMessage
    /\ unanswered' = unanswered \cup {posting.text}
    /\ posting' = NoMessage /\ composer' = [composer EXCEPT !.sending = FALSE]
    /\ UNCHANGED <<timelineVars, messages, mailed, typed>>

-----------------------------------------------------------------------------
QueryNext == FetchReads \/ FetchLands \/ FetchFails

ClickNext == ClickRun \/ RunRoute \/ RunAnswered \/ RunFails
WritesNext ==
    \E i \in 1 .. MaxRuns : EngineLoadsRun(i) \/ CancelLoadsRun(i) \/ EngineWrites(i) \/ CancelWrites(i)

CaseRunsNext == MailWithDocuments \/ DocumentAttached \/ WritesNext \/ ClickNext \/ QueryNext

DecisionsNext ==
    \/ \E s \in CaseStatuses : Decide(s) \/ DecisionLands(s) \/ DecisionFails(s)
    \/ TextOnlyMail \/ QueryNext

ComposerNext ==
    \/ \E m \in {"reply", "note"} : SetMode(m)
    \/ Type \/ CloseComposer \/ Send \/ RouteRecords \/ RouteMails
    \/ MessageAnswered \/ MessageFails

\* The page is in the foreground: its timer goes on firing, and a server that
\* is asked again and again answers in the end.
CaseDeskFairness == WF_deskVars(FetchReads) /\ SF_deskVars(FetchLands)

CaseDeskSpec == CaseDeskInit /\ [][CaseRunsNext \/ DecisionsNext \/ ComposerNext]_deskVars /\ CaseDeskFairness

-----------------------------------------------------------------------------
(* Properties.                                                             *)

\* The banner, the report link and the review drawer never go back to the verdict of an
\* older run, in whatever order the runs end and answers come, unless the end of the
\* run they showed was written over.
BannerNeverGoesBack ==
    [][LatestVerdict(page'.runs) >= LatestVerdict(page.runs) \/ LatestVerdict(page.runs) \in rewritten]_deskVars

Ended(runs, i) == i \in DOMAIN runs /\ runs[i] # "active"

\* A run that ends, and whose end is not written over by its going on, is shown so in the
\* end, even one the page did not start and did not know of (a mail's): the page polls a
\* quiet case too.
CaseCatchesUp ==
    \A i \in 1 .. MaxRuns : Ended(kase.runs, i) ~> ~Ended(kase.runs, i) \/ Ended(page.runs, i)

\* The applicant never has a mail the timeline does not show as a reply (notes
\* stay inside), and the same text is recorded twice only when the answer to the
\* first request was lost.
Occurrences(t, seq) == Cardinality({i \in DOMAIN seq : seq[i].text = t})

CorrespondenceIsOnTheCase ==
    /\ \A i \in DOMAIN mailed : Contains(messages, [kind |-> "reply", text |-> mailed[i]])
    /\ \A t \in Texts : Occurrences(t, messages) > 1 => t \in unanswered
=============================================================================

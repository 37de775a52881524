# Verification of clerq: the execution engine and the pages that drive it

clerq runs *workflows* over documents: a FastAPI application (`api/app/routers`), Celery
workers (`api/app/tasks`, `api/app/engine`), Postgres as the source of truth, Redis as the
queue, and a React application (`frontend/src`) that starts runs, follows them, and edits what
they check. The heart of the server is *execution-engine-v2* (`api/app/engine`), a graph
scheduler whose state is four tables and whose processes are stateless. The hard part of the
frontend is that every page works on a cached copy of rows that others change, and sends
requests whose answers come late, out of order or not at all. This directory holds TLA+
models of both, TLC configurations that check them, and proofs checked by TLAPS.

Paths below are relative to the repository. Line numbers are those of `PROJECT.json`, where
`map` ties each definition to the code it stands for.

## 1. Inventory

| Component | State it keeps | Operations | Interacts with |
|---|---|---|---|
| Run scheduler (`engine/scheduler.py`) | `workflow_runs.status`, `run_steps` (status, attempt, deps_remaining, inputs, lease), `step_deps` (live, satisfied) | `start_run`, `claim_ready_step`, `process_step`, `commit_step_result`, `fail_step`, `advance_run`, `cancel_run` | called by tasks, routers; shared rows with the reconciler and events |
| Tasks and entry (`engine/tasks.py`, `entry.py`) | the queue | `execute_step`, `advance_run`, `sweep`, `signal_event` messages | send each other messages after commits |
| Reconciler (`engine/reconciler.py`, beat every 10 s) | none | reclaim expired leases, fire due timers, find ready steps | same rows |
| Events (`engine/events.py`) | `run_events` | `signal_event` | gates, `routers/cases.py` |
| Handlers (`engine/handlers`) | none, except sent mail | one per node type; return Output, Branch, Suspend, or raise | run outside any transaction |
| Following a run (`RunStatusPanel.tsx`, `context/run.tsx`, `routers/sse.py`) | active run, last update, the stream and its last status sent | activate, dismiss, stop, stream, poll | the rows of the run |
| Launch and detail (`pages/Validate.tsx`) | selected policy, files, the open run, the picked rule | select, add, run (uploads, then start), open a run | policies, documents, runs, stream |
| Review (`routers/review.py`, `ReportPage.tsx`, `CaseReviewDrawer.tsx`) | `workflow_runs.review`, one JSON document | annotate, finalize, reopen | the output of the validation |
| Policy editor (`PolicyEditor.tsx`, `routers/policies.py`) | policy, rules, versions; the form | add, edit, delete, move, save, restore | launch, node settings |
| Workflow editor (`WorkflowEditor.tsx`, `VersionsModal.tsx`, `routers/workflows.py`) | definition, versions; canvas, dirty flag | edit, save, restore | what runs: the newest version |
| Node settings (`NodeConfigPanel.tsx`, `components/nodes`) | `node.data` of the canvas | insert a variable, set a condition, a gate, a policy | the handlers that read them |
| Mailboxes (`mailboxes.py`, inbox routes, `WorkflowList.tsx`) | enabled, address, archived, in two tables | enable, set, disable, archive | look-up of an incoming mail |
| Case page (`CaseDetailPage.tsx`, `routers/cases.py`) | case, runs, messages; cached timeline, composer | run, decide, reply, note, poll | mail, engine |
| Session (`api/client.ts`, `context/auth.tsx`, `routers/auth.py`) | refresh tokens; localStorage, pending refresh | sign in, refresh, sign out, reset | every request of every page |
| Second factor (`AccountSection.tsx`, `routers/mfa.py`) | `mfa_credentials`, `mfa_required`; dialogs | enroll, confirm, remove, regenerate | sign-in |
| Users and invitations (`AdminPage.tsx`, `admin.py`, `tenant.py`, `invites.py`) | users, `user_invites` | edit, create, delete, invite, resend, revoke, accept | session |
| Library (`LibraryEditor.tsx`, `LibraryList.tsx`, `routers/library.py`) | document type, samples (row and file) | save, upload, remove, delete | gates, rules |
| Mail intake (`routers/mail.py`, `cases.py`) | `mail_messages`, cases, documents | webhook | cases, runs |
| Everything else | rows and files | create, read, update, delete | |

What is hard in it, and what has to hold (every item at its line in `PROJECT.json`,
`hazards`):

* **Scheduler.** Any number of workers commit steps while `advance_run` (serialized by an
  advisory lock that nobody else takes) reads steps and edges in separate statements and
  writes what it derived. Sessions run at READ COMMITTED, with `autoflush=False`, and write
  absolute values of the columns they changed. A join must start once, when every live edge
  is satisfied, with all outputs; skips must spread as far as they have to and no further;
  the run must end once with the right verdict.
* **Failure.** A worker may die before, after or between its commits; a message may be lost,
  late or repeated; a lease may expire on a worker that is alive. Nothing may start early,
  and every run must end.
* **Waking up.** A gate parks for days; documents, timers and cancellations race to wake it.
* **Cancellation** races with everything.
* **Routes** read rows, decide, and write later, with no lock and often no constraint: two
  reviewers, two editors, two tabs, a policy and a workflow after one address.
* **Pages** act on what they cached. An order, a form, a canvas, a selection or a modal may be
  about rows that have changed; a refetch may overwrite what is being typed.
* **Requests** may be refused (and then share one refresh), time out after the server has
  acted, or be answered after a later one. Streams break; polling must still catch up.
* **A file and a row**, two commits: a crash comes in between.

## 2. Modules

| Module | What it is |
|---|---|
| `DagRun` | the abstract specification: what one run promises, with no steps, leases, queues or counters |
| `Scheduler` | one run of the engine: the rows, the messages, the workers, `advance_run`, the reconciler, signals, cancellation, time and faults; its properties; the refinement mapping to `DagRun` |
| `SchedulerProof`, `DagRunProof` | theorems about `Scheduler`: its types and join counter, then its other invariants, the refinement of `DagRun`, and when a run can get stuck |
| `Session` | tabs, token pairs in localStorage, the interceptor with its shared refresh, sign-in and sign-out, the routes that issue and revoke |
| `Account` | the dialogs of the second factor in several tabs and the routes behind them |
| `Launch` | the click on Run: uploads, start, failure, while the page and the policies change |
| `Evidence` | the detail modal: results of a check beside the rules of today |
| `BackOffice` | users and invitations, with routes that hash between reading and writing |
| `LibraryDesk` | a document type, its text and its samples: row and file |
| `Review` | the review document, its routes and its two pages |
| `WorkflowDesk` | canvas, versions, save, restore and refetch |
| `PolicyDesk` | rules, form, versions, and requests built on old pages |
| `NodePanel` | what a node is set to against what the engine makes of it |
| `Mailboxes` | the inbox routes over two tables and the look-up of a mail |
| `RunWatch` | the panel and the modal that follow a run: stream, break, poll |
| `CaseDesk` | the page of a case: runs, decisions, composer, timeline |
| `AccountProof` | theorems about `Session`, `Account` and `BackOffice` |
| `BrowserProof` | theorems about `Launch`, `Evidence` and `LibraryDesk`, and the composition `MCBrowser` |
| `ReviewProof` | theorems about `Review` |
| `EditorsProof` | theorems about `PolicyDesk`, `WorkflowDesk`, `Mailboxes` and `NodePanel`, and the composition `MCEditors` |
| `FollowProof` | theorems about `RunWatch`, `CaseDesk` and the composition `MCFollow` |
| `DataLemmas` | what the operators of the community modules return: least and greatest numbers, a sequence less an element |
| `MCScheduler`, `MCBrowser`, `MCEditors`, `MCFollow` | the instances for TLC |

`MCBrowser`, `MCEditors` and `MCFollow` each put several components in one run. These components
share no variable, so interleaving them would only multiply their states; `scene`, chosen at
the start, says in which of them a behaviour plays, and the others stay in their initial state. `MCFollow` has more scenes than modules:
one run followed while transactions overlap on it in every way (`panel`, `modal`), or two between which the panel goes
while each transaction is done at once (`switch`); the same for the runs of a case that end (`ends`) or are started (`runs`);
and its `decisions` and `composer`.
What components do share is inside one module: `Session` has both ends of the refresh,
`RunWatch` the stream and its reader, and `Mailboxes` the tables of policies and of workflows.

### How `Scheduler` corresponds to the code

*State.* `run`, `status`, `attempt`, `deps_remaining`, `inputs` are columns; `live` and
`satisfied` are the sets of `step_deps` rows with that flag; `expired` says which leases have
run out, `armed` which steps have an armed `run_events` row, `late` which gates are past
their deadline. `execQ` and `advQ` are the queued messages. `pc`, `job` and `prune` are a
worker inside `execute_step`; `adv`, `sweep`, `signal` and `cancel` are the transactions of
those names with what they have read so far.

*Steps.* An action is one transaction, or one half of a transaction that reads rows without
locking them and writes values computed from what it read. The halves are apart where
something can happen in between that matters: `commit_step_result` of a Branch
(`CommitBranchRead`, `CommitBranchWrite`), `advance_run` (lock and run, steps, edges, write),
the sweep, `signal_event`, `cancel_run`, and the set-up after a claim (`SetUp`, `ResumeRun`).
Writes follow SQLAlchemy: a column is written only if it differs from what the transaction
loaded, and then as an absolute value; this is why `AdvanceCommit` compares with `adv` and not
with the current row. `fail_step` and the other commits touch only their own step's row, and
are one action.

*Advance.* The fixpoint loop is not replayed: its result is any set of skipped steps that
satisfies `IsFixpoint`. On an acyclic graph there is exactly one, the one the loop reaches.

*Messages* are sets, by step: a second copy of a message that is already queued is
merged with it. Redelivery is still there, because the sweep, a dying worker and a signal
enqueue a step again after the first copy was taken. A transaction of `advance_run` that dies
before its commit has written nothing, so it is the loss of its message (`LoseAdvance`).

*Environment.* `Env` selects what may happen besides the program: `crash` (a worker dies
before its commit), `crash_report` (after it, before the messages), `lose_exec`,
`lose_advance`, `slow` (a lease expires on a worker that is alive), `signal`, `cancel`.
The bound `MaxFaults` limits the faults; a run can be cancelled once; there is one sweep, one
signal and one `advance_run` of the run at a time (the last is the advisory lock).

*Left out.* Outputs are abstracted to which parent delivered one, conditions to a choice of
port, gates to a choice between finishing and parking until the deadline; logs, error texts,
timestamps, `_pick_result`, `run.result` and the unused columns are left out.

### How the modules of the pages correspond to the code

*A request* is a record with a stage. It is sent with what the page knew at the click; the
route acts on the rows as they are then; the answer lands later, and what the code does after the
`await` is done then, on the page as it has become. A request can fail, before the route or after it (a
timeout). Where a route reads and commits in separate steps that can be overtaken (`Review`, `WorkflowDesk`,
`PolicyDesk`, `Mailboxes`, `Account`, `BackOffice`, `Session` refresh, the cancel route of `RunWatch` and
`CaseDesk`), these are separate actions; where it does not matter to the properties, one. As in `Scheduler`,
a commit writes the columns that differ from what the route loaded, and no others, whatever they have become
since: hence `Demanded` and `StillRequired` of `Account`, `LeftOut` of `WorkflowDesk`, `Commit` of `PolicyDesk`.

*A query* (react-query) is a cached copy; an invalidation makes a GET read the rows in one action
and land in another, so that a later commit may be missing from it. Where the code says that
data which has not changed keeps its identity, an effect that depends on it does not run
(`Replaces` of `WorkflowDesk`, `FilledOnce` of `PolicyDesk`).

*Session.* A pair of tokens is a number; the request that started a refresh names the promise,
and `Waiters` are the requests that await it. An access token ends after 30 minutes (`AccessExpires`), a refresh
token 30 days after it was issued (`RefreshExpires`), which is after its access token. `calm` is a history variable:
nobody signed out, no request timed out, no two tabs exchanged the same token at once, and no token the browser
still held was left unused for its 30 days.

*Account.* A credential, its secret and the entry in the user's authenticator app are one
number. Enrollment and confirmation are a reading and a commit, a removal a load of the user, a reading and a commit;
what they decide on is in the request (`asked`, `stale`, `typed`). `overlap` says that a confirmation and a removal
came between each other's reading and commit, `crossed` that the last enrollment was overtaken by another.

*Launch, Evidence.* Documents are pairs of a click and a file, so that a run tells which click
its documents come from. A call of `handleRun` goes on when its page is left (`LeavePage`) and ends when the browser
loads the page again; `mine` is the click the page there is waits for. The error is a flag, which `ErrorShown` only shows
while files are listed. `Blank` is a page that shows nothing: its launch bar reads the name of a policy that is no longer
in the list (`Validate.tsx:721`), and nothing catches the exception. `stayed` is a history variable, the last click if
the user has not moved on from it. A result carries the id of the rule it is of, which the code does
not have: the page matches by name, and the property compares.

*LibraryDesk.* What is dropped on an editor is uploaded by a loop of its own (`handleFiles`): nothing keeps a user from
dropping more meanwhile, so the loops are numbered by drop and not by editor.

*Review.* `found` is the annotations, `Effective` the verdict after overrides, `Overall` what
`_compute_overall` makes of them. `decided` and `final` are what the commits said, for the
property; `raced` says that a route overtook another.

*WorkflowDesk, PolicyDesk.* A definition is a set of parts, a rule an id, a position and a
text. A version keeps what `_snapshot` saw beside what the route committed. A route loads its row (`RouteLoadsRow`,
`RouteLoads`), takes the number after the highest (`RouteTakesNumber`, `RouteNumbers`) and commits; a policy and
its rules are loaded in one step. `vraced` says that a number was taken twice or a changed definition left out;
in `PolicyDesk` no property needs such an exception. `refill` says that a form is still to be filled again after a
restore: at once if a versions modal is open and closes, else when the page is next drawn, with what it has by then.

*NodePanel* has four parts. Texts with variables: `Offered` is the walk of
`getUpstreamVarGroups` (`Walk`, the least set of nodes closed under the edges into it), `Handed` the data
the scheduler merges for the node over the edges that are left: a run is a choice of one handle for each condition
(`Branches`), which prunes the edges from the other (`Live`). The others:
the condition in its two modes, the gate and its names, the results on the card of a policy. The gate lives with a
library in which types are created, renamed and deleted, and with two panels, each with a list of its own age; the
names are noted when a box is ticked, and stay.

*Mailboxes.* All owners have the same name, so that they want the same address; an address is
a number, and a suffix the next one.

*RunWatch.* A stream holds the status the server's loop last sent, what is in flight, and whether
it is open, closed by its reader or broken. The row is written by the engine and by the cancel route, in transactions
that load it, decide, and write a status later whatever it has become (`EngineLoads`, `CancelLoads`, `Commits`): a run
that was cancelled can still be completed, and one that was completed be cancelled. `overtaken` holds the runs an end of which was
written over so. `asking` is a GET that no timer asked for: the first one, or one after a focus or an invalidation; it
can fail (`GetFails`), and the timer starts only with a first answer (`PollsAfter`). *CaseDesk*: a run is `active`,
`failed`, `verdict` or `plain`; `LatestVerdict` is the place of the newest verdict in the timeline, and `FirstVerdict` of
the oldest. Its runs are written by the same two kinds of transactions (`engineOn`, `cancelOn`, `rewritten`).

*Orders.* Where the code sorts by a column, `PolicyDesk` says what the result is (`Listed`: the one
sequence of the rules in which each comes after those before it in position and id), not how it is reached;
`Place` is a rule's index in it.

Bounds are constants: `MaxPairs`, `MaxMoves`, `MaxCreds`, `MaxClicks`, `MaxInvites`,
`MaxLinks`, `MaxEdits`, `MaxDrops`, `MaxSamples`, `MaxSaves`, `MaxCrashes`, `MaxPolicyRules`,
`MaxRuleEdits`, `MaxActs`, `MaxVersions`, `MaxIds`, `MaxCalls`, `MaxTries`, `MaxWires`,
`MaxInserts`, `MaxLocal`, `MaxBoxActs`, `MaxInFlight`, `MaxRuns`, `MaxDocs`, `MaxDecisions`,
`MaxTexts`, `MaxMessages`. Each limits how often something is started or how much there is of it;
what has started can always end. In `MCEditors`, `MaxEdits` is one edit of the canvas in all, or one report of React Flow that
it has changed. Two acts
(`MaxActs`) are enough on a review because a report also starts already worked on: with an
override or none, finalized or still a draft.

## 3. Properties and runs

| Run (cfg) | Graph, environment | Checked |
|---|---|---|
| `demo` (`SchedulerDemo`) | the demo workflow: two parents, a condition, a gate on one port, a last step reached by both; a retry; one crash, crash before reporting or lost message; signals | `InputsComplete`, `OneWorkerPerStep`, `ImplementsDagRun` |
| `live` (`SchedulerLive`) | the same graph, timed gate, no fail_run; one crash or lost execute_step; fair | `NeverStranded`, `EventuallyOver`, and no deadlock |
| `chaos` (`SchedulerChaos`) | a task and a condition joined in a gate; a lease that expires on a live worker | `TypeOK`, `CounterNeverLow`, `JoinClosed` |
| `cancel` (`SchedulerCancel`) | a task and a gate; a cancellation, one crash; fair | `EventuallyQuiet` |
| `cancel_no_op`, `cancel_lost`, `lost_advance`, `counter_race` | the smallest graphs that show it | one finding each, section 5 |
| `browser` (`Browser`) | two tabs with two token pairs; two enrollments; two policies, files and clicks; two superadmins, two invitations; two curators, two drops, two samples and a crash; three rules and two edits | `BrowserTypesOK`, `RefreshIsShared`, `TimeKeepsSession`, `LoadingIsAwaited`, `LoginStaysPossible`, `ConfirmedIsEnforced`, `OnePendingEnrollment`, `NoSilentOrphan`, `RunIsTheClick`, `EvidenceIsOfTheRule`, `SpentLinksStaySpent`, `PictureHasItsFile` |
| `editors` (`Editors`) | a page and a drawer on one review; two pages on a workflow, two on a policy; five nodes, a condition among them, and three edges; two document types under two panels; a policy and a workflow with one name, and two users | `EditorsTypesOK`, `OverallMatchesFindings`, `ReviewIsKept`, `MailReachesItsBox`, `NewestIsCurrent`, `CanvasIsWhatIsSaved`, `RulesOnlyLeaveByDecision`, `TypingIsKept`, `InsertedResolves`, `CardsSayWhatRuns`, `RuleShowsItsOwn` |
| `follow` (`Follow`) | two runs, two viewers, streams of two messages, the engine and cancellations; a case with two runs, two decisions, three messages; fair | `FollowTypesOK`, `PanelShowsItsRun`, `ShownOutcomeIsReal`, `CorrespondenceIsOnTheCase`, `PanelCatchesUp`, `ModalCatchesUp`, `BannerNeverGoesBack`, `CaseCatchesUp` |
| `policy_snapshot` (`PolicySnapshot`) | one page, one rule | `SnapshotIsTheSave`, a finding, section 5 |

* `InputsComplete`: a started step has all its live parents finished, at least one well, and
  exactly their outputs merged; nothing arrived over a pruned edge.
* `OneWorkerPerStep`: the claim, the lease and the reclaim keep two workers out of one handler.
* `ImplementsDagRun`: every step of the rows is a step of `DagRun` or changes nothing there:
  nodes open and are skipped only for its reasons, finish once, and the run ends once, with
  the right verdict, when every node is done. `Phase` maps `ready`, `running` and `waiting` to
  `open`, so claims, retries, parking and reclaims are stutters.
* `NeverStranded`: a run that is not over has a step, an armed gate, a message or a worker that
  will move it. `EventuallyOver`: it does end, and stays ended.
* `CounterNeverLow`, `JoinClosed`: the join counter may be too high but never too low, and so
  nothing starts early.
* `EventuallyQuiet`: after whatever races, nothing is left ready, running or parked.

In the browser:

* `RefreshIsShared`: a burst of refused requests makes one exchange per tab, and nobody waits on
  one that is over. `TimeKeepsSession`: a browser that is used stays signed in, whatever expires meanwhile; only a token
  it still holds 30 days after it was issued does not, which `calm` excludes.
  `LoadingIsAwaited`: a loading tab has a request under way that will end the loading.
* `LoginStaysPossible`, `OnePendingEnrollment`, `ConfirmedIsEnforced`: no order of dialogs in two
  tabs locks the user out, keeps an old QR code alive, or leaves a factor that is not
  asked for. The last two have an exception each, where routes overlap and the code leaves exactly that behind
  (section 5); every other overlap is in the model and harmless.
* `RunIsTheClick`: a run has the policy and all the files of its click, whatever the user does during the uploads.
  `NoSilentOrphan`: as long as the user stays with a click, a document of it without a run has its error on the screen,
  with the policy and all the files of the click, ready to be run again. Of one who moves on nothing is said: the code says nothing to him.
* `EvidenceIsOfTheRule`, `RuleShowsItsOwn`: a verdict stands beside the rule it is of, if that rule was checked under the
  name it is shown with and no other had it.
* `SpentLinksStaySpent`, `PictureHasItsFile`: a link that was used, revoked or replaced makes no
  account; a listed sample has its file except where a deletion is, or was cut short, half-way.

In the editors:

* `OverallMatchesFindings`: the overall is the one of the findings, under any overlap of routes.
  `ReviewIsKept`: decisions and a finalized report stay, unless a route overtook another.
* `NewestIsCurrent`, `CanvasIsWhatIsSaved`: the version the routes run is the definition the row
  has, and a canvas without a mark of changes is the one the server has. Routes may overlap, except in the two ways `vraced` names.
* `RulesOnlyLeaveByDecision`, `TypingIsKept`: an order or a form built on an old page drops no
  rule, however the routes overlap. What was typed since the last restore survives every refetch and the filling a restore
  still owes the form; the mark of unsaved changes goes only when a save has committed what was typed, or
  when it was typed during a save.
* `MailReachesItsBox`: the mail to an open mailbox goes to it, also after an archive and a return.
* `InsertedResolves`: what a chip inserted is in the data the engine renders with, whichever branches a run takes, unless
  the canvas was cut since or every node that offers it is cut off in that run (`Lost`): the chips walk up all edges, the engine
  merges over those that are left.
* `CardsSayWhatRuns`: a card says what the condition or the gate will do. It names nothing the gate does not wait for, nothing by a
  name that type never had, and leaves nothing out if one panel set it, however old its list. Not spoken of are a value the advanced
  mode left, a name a type has lost since, and what a second panel did not know of.

Following:

* `PanelShowsItsRun`, `ShownOutcomeIsReal`: no late update of another run, no outcome the rows do
  not have, except of a run an end of which was written over. `PanelCatchesUp`, `ModalCatchesUp`, `CaseCatchesUp`: whoever looks at a
  run that has ended, and stays so, comes to see it, unless a stream broke as described in section 5 (`Frozen`, `Blind`).
* `BannerNeverGoesBack`: the verdict of a case is never replaced by an older one on the page, unless the end it shows was
  written over.
* `CorrespondenceIsOnTheCase`: what the applicant was mailed is on the timeline, and a text is
  recorded twice only after a lost answer.

*Bounds.* Two workers, because the races are between two transactions; three to five nodes,
which is a join with a pruned and a satisfied edge and a path through each kind of node; one
fault, placed anywhere; one more attempt than one. `demo` and `chaos` identify the workers by
symmetry, which is sound since they check no liveness. Each graph has been chosen so that what
the run is about happens: every action fires in one of the passing runs.

In the runs of the pages, two actors (tabs, pages, users, viewers) again, because what goes
wrong goes wrong between two; one request per actor; enough edits, clicks and
versions that an actor can act on what it had before the other acted, and then once more. `Queries`
gives one tab a request beside `/auth/me`, so that two requests share a refresh, and the other
none, so that another tab can exchange the same token. The numbers of versions, links,
ids and suffixes are such that one is left when two actors have each taken one.

`MaxWires` is three because the smallest graph in which a pruned edge keeps a variable from a text has three (a node, a
condition, a text they both lead to). In `follow` the transactions of one run overlap in every way; where the panel changes between two
runs each is done at once, since what that scene asks is whose updates arrive.

*Deadlock* is checked in `live`, where only a finished run may stop (`Rest`). In `demo` and
`chaos` the run may rest with a parked gate that nobody signals, or stranded as section 5 says. In the
runs of the pages nothing has to happen, and a user may stop: deadlock is not checked there.

*Fairness* (`FairSpec`): workers keep taking messages and handlers return (Celery; the LLM
and mail calls have timeouts of 120 s and 15 s), queued messages are delivered (Redis), beat fires the sweep
every 10 s (`tasks/celery_app.py:48-53`), a started signal or cancellation commits, and time
passes, so that leases of dead workers and deadlines of timed gates run out. Weak fairness
is enough. Nobody has to send a signal or to cancel, and no fault has to happen. `live` needs
the timer on the gate: without one a parked gate may wait for ever, which is what it is for.

*Fairness of the pages* (`RunWatchFairness`, `CaseDeskFairness`): the stream's loop turns every
2 s and the connection delivers or breaks (`sse.py`), the query polls (`api/runs.ts`), the page of a case
refetches every 2 or 10 s (`api/cases.ts:83`), and a server that is asked again and again answers
in the end: strong fairness, since a request may fail and each refetch may cancel the last. No request is made for that
sake: the query polls only while its last answer is of a run that goes on, so one whose first request failed waits for a focus or
an invalidation, which nothing guarantees. Nobody has to click, and
the engine does not have to end a run. `MCFollow` asks the fairness of the case page only
in the scenes where it polls.

*Bugs the properties catch.* Next to a definition, the modules hold variants of it "with a
bug" (a dropped guard, a double count, a forgotten status). They model no code;
put in place of the definition, each makes the property `PROJECT.json` names with it fail.

## 4. What is proved

Every theorem is checked by TLAPS to its last leaf and holds for all values of the constants that
satisfy the assumptions of the module that declares them. Those say what the code or the schema guarantees
(finite sets of nodes, edges, findings and mailboxes; no dangling edge; at least one attempt; as many suffixes
as there are addresses to tell apart) or keep a special value apart from the ordinary ones (`None` is no run
and no status, `"none"` no finding, 0 no policy). TLC evaluates them in the runs.

| Component | Theorems | Condition | Carried by |
|---|---|---|---|
| Engine | `TypeCorrect`, `CounterIsSafe`, `JoinIsClosed` | none | `TypeOK`, `JoinInvariant` |
| | `InputsAreWhole`, `OneWorkerInStep`, `RowsImplementDagRun` | `Calm` | `CalmInvariant` |
| | `RunsAreNotStranded`; `UntangledRunsAreNotStranded` | `Calm`, `FollowUpsArrive`, `CountersKept`; `Untangled` | `ExactInvariant`; `KeptInvariant` |
| Session | `SessionTypes`, `OneExchangePerTab`, `LoadingEndsWithItsRequest`, `UseKeepsSession` | none | `TabShared`, `TokensKnown`, `CalmHolds` |
| Second factor | `AccountTypes`, `LoginNeverLockedOut`, `FactorIsAskedFor`, `OneEnrollmentIsPending` | none | `AccountInvariant` |
| Invitations | `BackOfficeTypes`, `SpentLinksMakeNoAccount` | none | `OfficeShapes`, `LinksFresh`, `CallGood` |
| Launch, evidence | `LaunchTypes`, `RunsAreTheirClicks`, `OrphansComeWithAnError`; `EvidenceTypes`, `EvidenceIsItsRules` | none | `JobIsTheClick`, `StayedWith`; `ResultsAreOfTheRead`, `ShownIsNoOther` |
| Review | `ReviewTypes`, `OverallIsOfTheFindings`, `DecisionsAreKept` | none | `OverallSettled`, `KeptSoFar` |
| Library | `LibraryTypes`, `EveryPictureHasItsFile` | none | `UploadsApart`, `RemovalsApart` |
| Policies | `PolicyTypes`, `RulesAreOnlyDeleted`, `TypingIsNeverLost` | none | `PolicyRows`, `PolicyPages`, `CallsWhole`, `PolicyForms` |
| Workflows | `WorkflowTypes`, `NewestVersionIsCurrent`, `CanvasIsSaved` | none | `VersionsInOrder`, `PutsInOrder`, `CanvasFollows` |
| Mailboxes | `BoxTypes`, `MailFindsItsBox` | none | `AddressesApart` |
| Node settings | `NodePanelTypes`, `ChipsResolve`, `CardsAreTrue`, `RulesShowTheirOwn` | none | `TextsWereOffered`, `GateNamesItsTypes`, `RanWithItsRules` |
| Following | `ThePanelShowsItsRun`, `NoOutcomeIsMadeUp` | none | `OnlyOnTheirRun`, `OutcomesUnderWay`, `OutcomesHeld` |
| Case page | `MailsAreOnTheTimeline`, `TheBannerNeverGoesBack` (an action property) | none | `AnsweredOnce`, `MailsAreRecorded`, `PageIsBehind` |
| Compositions | `BrowserTypes`, `EditorsTypes`, `FollowTypes` | none | `BrowserHasItsPages`, `EditorsHaveTheirPages` |

Each is proved the same way: the initial states satisfy the inductive invariant, every
action keeps it (one lemma or step for each), and it implies the property.

### The engine

*Types and the join* (`SchedulerProof`, any `Env`). `CounterNeverLow` and `JoinClosed` are not
inductive by themselves: the transaction that lowers a counter or starts a step relies on what it read
earlier. `JoinInvariant` adds that what was read is still good enough. For a Branch commit half-way
(`PruneSafe`), what it will write is at least the number of edges that will remain; for `advance_run`
(`AdvanceSafe`), the edges it saw live include those that are, and the counter it saw is at least the
number of unsatisfied ones among them; every busy worker (`BusyClosed`) and every pending wakeup
(`WakeClosed`) is for a step that waits for nothing. All of this is stable, because edges are only ever
pruned and satisfied (`WaitsForLess`). So a lost update can only leave the counter too
high: the run gets stuck (section 5), but nothing ever starts early.

*The inputs, the workers, the abstract run* (`DagRunProof`). These need `Calm`: no cancellation, no lease
that expires on a live worker, and no gate that has a deadline as well as signals. The condition is about the code: each of the three makes a
transaction write a status it has not looked at (a commit over `cancelled`, section 5; a reclaimed step
whose first worker still commits; a gate woken twice), and without it the theorems are false. What
remains under `Calm` is most of what can happen: any number of workers, crashes before and after a commit, lost
messages, retries, conditions, gates with either kind of wakeup. `CalmInvariant` is `JoinInvariant` with

* `AllOrNone`: the rows of a run come all at once, before anything can touch them;
* `OneWorkerPerStep` itself, with `LeaseIsDead` (a lease that expired is held by no worker) and `WakesSleepers` (who is about to be
  reclaimed or woken is still as the sweep or the signal read it);
* `PrunesItsOwn`, `SatisfiedByDone`: a Branch prunes its own edges; an edge is satisfied by a parent that is done;
* `ReadHolds`: what `advance_run` read of steps that are done, or not started, is still so, and also of the
  edges that leave a step that is done. Other steps may have moved on since, which is why it
  says nothing of them;
* `InputsAreDelivered`: a step has the outputs that came over its live, satisfied edges, no more and no less;
* `OverIsDone`: a run is over when all its steps are, and is not looked at any more.

`RowsImplementDagRun` follows action by action: `StartRun`, the commits that finish a step, and
`AdvanceCommit` are steps of `DagRun`, everything else a stutter. The hard one is `AdvanceCommit`, which
does three things at once (satisfies edges, skips or opens steps, ends the run) from what it read two statements ago;
`ReadHolds` makes those reads as good as the rows. TLC checked `CalmInvariant` with the constants of `demo`,
and again with a timed gate, before it was proved.

*No run is stuck* (`DagRunProof`). `NeverStranded` is false in general: the runs `lost_advance` and `counter_race` of section 5
show the two ways. What is proved is that, under `Calm`, there is no third. `FollowUpsArrive` excludes the first: no
worker dies between its commit and its message, and no `advance_run` message is lost. `CountersKept` excludes the second: no transaction overwrites a
join counter that has changed since it read it. The counters are then exact (`CounterExact`), and `ExactInvariant` adds

* `DeadByDone`, `PruneExact`, `ReadExact`: an edge is pruned by the commit that finishes its parent; a Branch
  lowers the counter of each step it prunes an edge to; what `advance_run` read of the counters counts the edges that were live at
  that moment, which it may itself see pruned one statement later;
* `ParkedIsArmed`: who is parked has an armed event, or its wakeup is under way;
* `Handled`: when no commit is still to be reported and no advance to be read, the advance under way has read
  every step that is done, or, if there is none, the edges of all those steps are satisfied and every pending step waits
  for one that is not.

`SomeoneMoves` concludes: if nobody moves, every step is done or pending; a pending step waits for a parent that is pending too, one of
lower rank in the acyclic graph, and so there is no first one. This is what makes the last phase of `advance_run` (skip to a
fixed point, ready, complete) right: one missed skip would leave such a chain.

`CountersKept` is about behaviours; `Untangled` is about the graph alone, and implies it (`KeptCounters`). Where an edge of a condition
meets the edge of another parent, the condition also leads to that parent, over its other port. Then that parent waits for the condition as
long as its commit is under way (`ChildrenWait`), and is not skipped by the advance that has read a counter before the commit and
the edges after it (`SkipsBehindDone`, `OnePort`). The demo workflow has such a graph; that of `counter_race` is the smallest that
is not: a task and a condition, both roots, that meet in one step. So is a condition whose one port
leads to a step and to a child of it: if that port is pruned between the two reads of an advance, the skip it then decides is counted off the
old counter, and the decrement of the Branch commit is lost.
Before the proof, TLC checked `ExactInvariant` on the graphs of `demo` and `counter_race`, with signals and with a timed gate, along the
behaviours `CountersKept` allows, and `KeptInvariant` on that of `demo` along all of them.

### The pages

What the proofs have in common is that the properties talk of rows and of pages, and what breaks them is in between:
a request, an answer, a reading. Each inductive invariant says what those may still carry.

* *Session.* `TabShared`: a tab has an exchange exactly when it keeps its promise, and everyone who waits does so on that.
  `TimeKeepsSession` also needs to know where tokens are: an exchange that is not over presents a live token or has
  brought one that nobody stored (`Sound`), two tabs never present or bring the same (`Apart`), and no
  number is used before it is issued (`TokensKnown`).
* *Second factor.* `TabWhole`: a request belongs to a dialog of its kind, and the code it carries is one the app shows or a
  wrong one. `ReadingsHold`: what a route has read is still so, or `overlap`, or an enrollment made since, says that it is not. A
  confirmation that found the flag set and leaves it alone is right because of this, and not because it writes.
* *Invitations.* `LinksFresh`: an invitation that opens has a link that was never spent, and no two share one. `CallGood`: a
  call that accepts looked its link up while it was good, and found the only invitation that can have it.
* *Launch.* `JobIsTheClick`: a call under way has the policy of its click, and what is uploaded and what is left to do are
  together the files of it. `StayedWith`: for the click the user stays with, the page has the call, or the error and all the files,
  or every document is in a run.
* *Evidence.* `ResultsAreOfTheRead`: there are no results before the check is over, and none of a rule it did not read.
  `ShownIsNoOther`: the modal has the check as it is, or as it was before it had results.
* *Review.* The first property needs that what is written, and what a route has read to write again, is settled
  (`OverallSettled`); the second that the document holds what was decided while nothing raced (`KeptSoFar`).
* *Library.* Each upload has a number of its own, whichever drop it is of, and no removal has the number of one (`UploadsApart`, `RemovalsApart`).
* *Policies.* `PolicyRows`: rules have numbers that were given out, no two the same, in the policy and in all its versions. This
  bounds the rules, makes `Listed` well-defined (`ListedIsASort`), and lets a restore bring back only rules there were.
  `PolicyPages` and `CallsWhole` say as much of the pages and of what the routes have loaded, and that a number taken is at most the
  next one. `PolicyForms`: while a form is still to be filled again, nothing typed counts as kept; a save of what was typed
  carries just that, unless it was typed while another was under way.
* *Workflows.* `VersionsInOrder`: version *i* has the number *i*, and the row is its version, unless `vraced`; `PutsInOrder`: a number that was
  taken is at most one ahead. `CanvasFollows`: a canvas that differs from
  what the page knows has the mark of changes, or an answer is bound to replace it.
* *Mailboxes.* `AddressesApart`: no address twice, as long as no route committed over rows that changed. That a free
  suffix is always found is a pigeonhole argument (`ThereIsAFreePart`).
* *Node settings.* That a chip resolves (`ChipsResolve`) relates a walk up the edges, done once when the chip is clicked, to data
  that flow down those that are left in a later run. More wires lose nothing (`WalkedGrows`), so a text still names what it is offered
  (`TextsWereOffered`). The data are a fixed point over the edges of the branches taken: it exists (`DataExist`, on the walk cut at the nodes that drop
  their data), and any fixed point has what such a walk finds (`HandedHasWhatReaches`); so the theorem needs no acyclic canvas,
  though a run is refused on any other. `GateNamesItsTypes`: a name is the type's own unless the type was renamed, in the gate as in
  the lists, and a panel that alone has set the gate has all its types listed. `RanWithItsRules`: the results of the run are those of the rules and names it loaded.
* *Following.* `OnlyOnTheirRun`: a viewer has a stream open on the run it shows only; `OutcomesUnderWay` and
  `OutcomesHeld`: an outcome in an open stream, in the cache or on the screen is the run's, unless an end of the run was written
  over. That a run has ended is no promise: a transaction that loaded it before may still be under way, and `overtaken` is where it shows.
* *Case page.* `PageIsBehind`: the page is an earlier state of what a GET has read, and that of the case (`Behind` is
  an order, and stays one as more ends are written over), so that a refetch can only go forward, those runs apart. `AnsweredOnce`: a text whose requests were all answered is
  recorded once at most, and the composer holds it after that only until the answer comes.

*The compositions.* A step of a scene is a step of its module that leaves the variables of the others alone
(`BrowserSteps`, `EditorsSteps`), so the composed specification implies the specification of each of its modules
(`BrowserHasItsPages`, `EditorsHaveTheirPages`). Every theorem about a module therefore holds in its composition
too; `BrowserTypes` and `EditorsTypes` draw the one conclusion the runs state.

`LeastNatural` of `DataLemmas` is the induction the proofs about numbers use: it takes the least element from the
well-foundedness of the natural numbers, without a theorem that has an operator for a parameter.

### Where proof changed the models

The models follow the code as before; some definitions are written so that they can be reasoned about. `Listed` says what the
sorted sequence is; `FirstVerdict` and `LatestVerdict` are the least and greatest of `Verdicts`;
`StreamTurn` and `ResendWrites` write whole records, `Inserted` adds a row to the table of users as a function. `Walk` of `NodePanel`
is the least closed set, where the code fills a queue: TLC finds the same states and properties as with the queue written as a
recursion, and the proofs need what the set is, not how it is filled. In `Account`, a dialog is cancelled before its route has begun to read or after it has
committed; one that falls in between is let come after the commit, which does not look at the dialog (`UnderWay`). Assumptions on the constants of `Review`, `Evidence`,
`RunWatch` and others were made explicit: no reviewer, rule or run is called as a special value is.

### Only model-checked

Liveness: `EventuallyOver`, `EventuallyQuiet`, `PanelCatchesUp`, `ModalCatchesUp`, `CaseCatchesUp`. Fairness and ENABLED are out
of the prover's reach. `EventuallyOver` rests on `NeverStranded`, which is proved, and on somebody who can move
doing so. The findings of section 5 are counterexamples, and stay with TLC too.

## 5. Where the code and its documents disagree

* `cancel_no_op`: `cancel_run`'s docstring says a running handler's commit "is a no-op once the
  run is cancelled"; it is not, the commit writes its status over `cancelled`.
* `cancel_lost`: `advance_run` (and the set-up of a claimed step) overwrites a run cancelled
  since it read it, with `completed`, `waiting` or `running`. After the first the run counts as a
  success; after `waiting` it waits for ever with every step cancelled.
* `lost_advance`: a worker that dies after its commit and before the `advance_run` message, or
  the loss of that message, strands the run. The redelivered `execute_step` returns early and the
  sweep never re-derives an advance.
* `counter_race`: a Branch commit and `advance_run` lose each other's decrement, and the join
  stays `pending` with all its edges satisfied. It takes a join with one parent that is a
  condition pruning the edge and another that finishes at the same time; the demo workflow has no
  such join, which is why `live` passes; section 4 gives a condition on the graph under which there is none.
* `policy_snapshot`: the version made by adding a rule lacks that rule, and the one made by a
  restore holds the rules that were replaced, although the history says that each save creates a
  snapshot: `_snapshot` reads a collection that was loaded before.

Seen while modelling the engine and not the subject of a run: a run cancelled before `start_run` is
started all the same (`scheduler.py:215`); a run with a parked gate and pending steps behind it
shows `running`, never `waiting` (`scheduler.py:505-510`; the plan's acceptance step 5 expects
`waiting`); a signal and a due timer may both ready a parked gate and run it twice;
`lease_owner` is stored and never compared; "fail steps past a hard deadline"
(plan, line 129) does not exist; documents that arrive by mail do not signal the gates
(`routers/mail.py:549`), although plan line 127 says so.

Seen in the pages and their routes, likewise without a run. Where a property has an
exception ("unless"), it is because of one of these:

* Review: the routes overwrite each other's document, a finalized report included
  (`review.py:196`). `_compute_overall` says it mirrors `validate_documents.py`, but a
  `not_applicable` on a required rule is a fail there and nothing here, so that a note can turn
  the overall to pass (`review.py:43`).
* Policies: `update_rule` makes no version. A blur sends the text even when it did not change and
  so undoes a colleague's edit. Two routes at once take one version number (`policies.py:45`). A restore refills the form from the old
  row; if its modal was closed meanwhile, it does so when the page is next drawn, possibly by the first letter that is typed
  (`PolicyEditor.tsx:58`, 416-423, 788). The answer to a save takes the mark of changes away, whatever was typed during it.
* Workflows: two saves at once take one number and the newest version is another than the row
  (`workflows.py:30`). A save of the definition its route had loaded leaves the column out of the update, although another save
  has changed it in between: the row then keeps the one definition and the newest version has the other, with no number taken twice
  (`workflows.py:90`, 102). What is drawn during a save is shown as saved (`WorkflowEditor.tsx:108`).
* Mailboxes: two routes at once can give one address to a policy and a workflow.
* Node settings: leaving the advanced mode of a condition keeps a value that is no verdict
  (`NodeConfigPanel.tsx:789`); a deleted type stays in a gate, and a renamed one under its old name; a panel whose list is behind drops
  the names of types it does not know when it stores its own (`NodeConfigPanel.tsx:807-811`). The chips walk up every edge, and the
  engine merges over those that are left (`scheduler.py:465`): a text can be offered the answer of a node whose only way to it is
  the other branch of a condition, and is rendered without. Two rules with one name share a result.
* Following: after a stream breaks the panel keeps its last update, and the poll is ignored
  (`RunStatusPanel.tsx:90-91`), where the rewrite plan (line 260) expects that the "UI keeps streaming". When the stream
  breaks before an update and the first GET failed too, nothing is polled (`api/runs.ts:18-22`) and the panel stays empty. A cancellation that
  loaded a run as running is written over `completed` (`runs.py:96`, `scheduler.py:566-580`), and the engine writes over `cancelled`
  (`cancel_lost`): a viewer whose stream has ended keeps an outcome the row no longer has.
* Cases: a reply whose answer was lost is sent again with the text that was kept; a decision can
  be sent twice; a text-only mail reopens a closed case (`mail.py:497`). A verdict is lost to a cancellation that was under way when the
  run completed, and the page then shows that of an older run.
* Launch: the error of a failed upload stands beside the files (`Validate.tsx:724-750`) and goes with them when another policy is picked
  (917-920) or the last file is removed; a page that is left or loaded again is told nothing. The documents uploaded so far stay
  behind. When the selected policy was deleted elsewhere and no file is listed, the page is blank until it is loaded again (721).
* Session and account: two tabs that exchange one token at once sign each other out; recovery codes whose answer is lost are gone. Two
  enrollments at once leave two pending ones, since nothing locks or constrains them (`mfa.py:170-189`). A confirmation that found
  `mfa_required` set does not write it (`mfa.py:205-219`), so that a removal which counted before it and commits in between, or
  one that commits after it, leaves the new factor unasked.
* Users: the modal of a user sends every field as it was when opened; resending revives a revoked
  invitation under a new link; nothing but a read keeps an email unique.
* Library: a text that is cleared is never stored (`LibraryEditor.tsx:42`); a crash between file and
  row leaves a sample without its picture.

## 6. Not modelled, and plan

`PROJECT.json` lists every component with what is left out and why. Not modelled at all: the LLM calls,
PDF and image handling, cryptography, migrations, metrics, the lists and charts that only
read, settings, reference lists, translations. `pages/Dashboard.tsx` has no route. Of components that
are partly modelled: the webhook's two commits and duplicate deliveries, the supersession of documents, the
gate's own reading of them, the marker of sent mail, reset tokens, the deletion of policies
with a mailbox, Kahn's algorithm, the operators of a custom condition other than
equality.

Every invariant, action property and refinement that a passing run checks is a theorem, on its own or under the conditions of
section 4; the liveness properties stay with TLC. If more were modelled, the gate with the documents of its case and the webhook
would be next.

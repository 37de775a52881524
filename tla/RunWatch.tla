------------------------------ MODULE RunWatch ------------------------------
(***************************************************************************)
(* How the browser follows a run: the status panel at the bottom of every  *)
(* page (components/RunStatusPanel.tsx, context/run.tsx), the detail modal *)
(* of the Validate page (RunDetailModal), the event stream both open       *)
(* (routers/sse.py) and the polling the panel falls back on (api/runs.ts). *)
(* A stream belongs to a viewer and a run; messages are under way between  *)
(* the server's loop and the viewer, and the connection can break.  What   *)
(* is followed is written by the engine and by the cancel route, each in   *)
(* transactions that decide on the row as they loaded it.                  *)
(***************************************************************************)
EXTENDS Naturals, Sequences, FiniteSets

CONSTANTS
    WatchedRuns,\* the runs the user starts
    None,       \* no run, no status
    Outcomes,   \* the ends the engine brings a run to
    MaxInFlight \* bound on the messages under way in a stream

ASSUME RunWatchAssumption ==
    /\ MaxInFlight \in Nat
    /\ Outcomes \subseteq {"completed", "failed"}
    /\ None \notin WatchedRuns \cup {"pending", "running", "waiting", "completed", "failed", "cancelled"}

Viewers  == {"panel", "modal"}
Active   == {"pending", "running", "waiting"}
Terminal == Outcomes \cup {"cancelled"}
Statuses == Active \cup Terminal

\* Who writes the status of a run, and a transaction that does: what it loaded and
\* what it is going to write.
Writers == {"engine", "cancel"}
NoWrite == [saw |-> None, writes |-> None]

VARIABLES
    status,    \* workflow_runs.status
    writing,   \* writing[w][r]: the transaction of writer w under way on run r
    overtaken, \* the runs an end of which was written over by such a transaction
    active,    \* the active run of RunContext, kept in localStorage
    sse,       \* sseState of the panel: the last update, its run and its status
    polled,    \* polled[r]: what useRun(r) has cached
    asking,    \* a GET of the active run is under way that no timer asked for
    modal,     \* the run of the detail modal
    live,      \* liveStatus of the modal
    stream,    \* stream[v][r]: the event stream a viewer opened on a run
    stopping   \* runs with a POST /cancel under way

serverVars == <<status, writing, overtaken>>
panelVars == <<active, sse, polled, asking>>
modalVars == <<modal, live>>
watchVars == <<serverVars, panelVars, modalVars, stream, stopping>>

NoUpdate == [run |-> None, status |-> None]
Closed == [open |-> FALSE, over |-> TRUE, sent |-> None, queue |-> <<>>]
Broken == [open |-> FALSE, over |-> FALSE, sent |-> None, queue |-> <<>>]
Opened == [open |-> TRUE, over |-> FALSE, sent |-> None, queue |-> <<>>]

\* useRun polls as long as the last answer was an active run; before the first
\* answer there is none.
RunningOnly(s) == s \in {"pending", "running"}
PollsAfter(s) == s \in Active

\* The panel prefers the stream to the polled run.
Shown == IF sse # NoUpdate THEN sse
         ELSE IF active # None THEN [run |-> active, status |-> polled[active]] ELSE NoUpdate

RunWatchTypeOK ==
    /\ status \in [WatchedRuns -> Statuses]
    /\ active \in WatchedRuns \cup {None} /\ modal \in WatchedRuns \cup {None}
    /\ sse \in [run : WatchedRuns, status : Statuses] \cup {NoUpdate}
    /\ polled \in [WatchedRuns -> Statuses \cup {None}] /\ asking \in BOOLEAN
    /\ overtaken \subseteq WatchedRuns
    /\ writing \in [Writers -> [WatchedRuns -> [saw : Statuses, writes : Statuses] \cup {NoWrite}]]
    /\ live \in Statuses \cup {None}
    /\ stopping \subseteq WatchedRuns
    /\ \A v \in Viewers, r \in WatchedRuns :
          LET st == stream[v][r] IN
          /\ st.open \in BOOLEAN /\ st.over \in BOOLEAN /\ st.sent \in Statuses \cup {None}
          /\ Len(st.queue) <= MaxInFlight
          /\ st.open /\ st.over => st.queue # <<>>
          /\ \A i \in DOMAIN st.queue : st.queue[i] \in Statuses \cup {"done"}

RunWatchInit ==
    /\ status = [r \in WatchedRuns |-> "pending"]
    /\ active = None /\ modal = None /\ live = None
    /\ sse = NoUpdate
    /\ polled = [r \in WatchedRuns |-> None] /\ asking = FALSE
    /\ writing = [w \in Writers |-> [r \in WatchedRuns |-> NoWrite]] /\ overtaken = {}
    /\ stream = [v \in Viewers |-> [r \in WatchedRuns |-> Closed]]
    /\ stopping = {}

-----------------------------------------------------------------------------
(* The server: the engine and the cancel route write the run, the stream's  *)
(* loop looks at it.                                                       *)

\* What start_run, process_step and advance_run make of a run they loaded; a run
\* that could not be started fails.
Moves == { <<"pending", "running">>, <<"running", "waiting">>, <<"waiting", "running">> }
             \cup ({"running", "waiting"} \X Outcomes) \cup ({"pending"} \X (Outcomes \cap {"failed"}))

EngineLoads(r) ==
    /\ writing["engine"][r] = NoWrite
    /\ \E m \in Moves :
          /\ status[r] = m[1]
          /\ writing' = [writing EXCEPT !["engine"][r] = [saw |-> m[1], writes |-> m[2]]]
    /\ UNCHANGED <<status, overtaken, panelVars, modalVars, stream, stopping>>

\* The cancel route loads the run and refuses one that is over; engine_cancel_run
\* gets the same loaded row.
NeverRefused(s) == FALSE
Refused(s) == s \in Terminal

CancelLoads(r) ==
    /\ r \in stopping /\ writing["cancel"][r] = NoWrite
    /\ stopping' = stopping \ {r}
    /\ writing' = IF Refused(status[r]) THEN writing
                  ELSE [writing EXCEPT !["cancel"][r] = [saw |-> status[r], writes |-> "cancelled"]]
    /\ UNCHANGED <<status, overtaken, panelVars, modalVars, stream>>

\* The status is written whatever it has become since.
Commits(w, r) ==
    LET tx == writing[w][r] IN
    /\ tx # NoWrite
    /\ writing' = [writing EXCEPT ![w][r] = NoWrite]
    /\ status' = [status EXCEPT ![r] = tx.writes]
    /\ overtaken' = IF status[r] \in Terminal /\ tx.saw \in Active THEN overtaken \cup {r} ELSE overtaken
    /\ UNCHANGED <<panelVars, modalVars, stream, stopping>>

\* Another browser follows the run too, and its user stops it.
StopElsewhere(r) ==
    /\ r \notin stopping
    /\ stopping' = stopping \cup {r}
    /\ UNCHANGED <<serverVars, panelVars, modalVars, stream>>

\* One turn of the loop: an update when the run has changed, then, when it is
\* over, the end of the stream.
OverFirst(st, s) == IF s \in Terminal THEN <<"done">> ELSE IF s # st.sent THEN <<s>> ELSE <<>>
SilentEnd(st, s) == IF s # st.sent /\ s \notin Terminal THEN <<s>> ELSE <<>>
Emitted(st, s) == (IF s # st.sent THEN <<s>> ELSE <<>>)
                  \o (IF s \in Terminal THEN <<"done">> ELSE <<>>)

StreamTurn(v, r) ==
    LET st == stream[v][r]
        out == Emitted(st, status[r]) IN
    /\ st.open /\ ~st.over /\ (out # <<>> \/ status[r] \in Terminal)
    /\ Len(st.queue) + Len(out) <= MaxInFlight
    /\ stream' = [stream EXCEPT ![v][r] = [open |-> TRUE, over |-> status[r] \in Terminal,
                                           sent |-> status[r], queue |-> st.queue \o out]]
    /\ UNCHANGED <<serverVars, panelVars, modalVars, stopping>>

-----------------------------------------------------------------------------
(* The viewers.                                                            *)

\* The messages of a stream reach the viewer that opened it, in their order.
Receive(v, r) ==
    LET st == stream[v][r] IN
    /\ st.open /\ st.queue # <<>>
    /\ IF Head(st.queue) = "done"
       THEN stream' = [stream EXCEPT ![v][r] = Closed] /\ UNCHANGED <<sse, live>>
       ELSE /\ stream' = [stream EXCEPT ![v][r].queue = Tail(@)]
            /\ IF v = "panel"
               THEN sse' = [run |-> r, status |-> Head(st.queue)] /\ UNCHANGED live
               ELSE live' = Head(st.queue) /\ UNCHANGED sse
    /\ UNCHANGED <<serverVars, active, polled, asking, modal, stopping>>

\* onerror closes the stream for good: the browser does not reconnect it.
StreamBreaks(v, r) ==
    /\ stream[v][r].open
    /\ stream' = [stream EXCEPT ![v][r] = Broken]
    /\ UNCHANGED <<serverVars, panelVars, modalVars, stopping>>

\* The streams of the panel after its effect has run for run r (None: the panel
\* is gone): the clean-up closes the stream of the run before.
LeftOpen(r) == [s \in WatchedRuns |-> IF s = r THEN Opened ELSE stream["panel"][s]]
OnlyFor(r) == [s \in WatchedRuns |-> IF s = r THEN Opened ELSE Closed]

\* setActiveRunId: a run was started from a case, or from the editor.  Its query is
\* asked unless an answer of the last 10 s is cached.
Activate(r) ==
    /\ active # r
    /\ active' = r
    /\ sse' = NoUpdate
    /\ asking' \in {TRUE, polled[r] = None}
    /\ stream' = [stream EXCEPT !["panel"] = OnlyFor(r)]
    /\ UNCHANGED <<serverVars, polled, modalVars, stopping>>

Dismiss ==
    /\ active # None
    /\ active' = None
    /\ sse' = NoUpdate /\ asking' = FALSE
    /\ stream' = [stream EXCEPT !["panel"] = OnlyFor(None)]
    /\ UNCHANGED <<serverVars, polled, modalVars, stopping>>

\* A reload: the active run comes back from localStorage, everything else is
\* asked for again.
ReloadPage ==
    /\ active # None
    /\ sse' = NoUpdate
    /\ polled' = [r \in WatchedRuns |-> None] /\ asking' = TRUE
    /\ modal' = None /\ live' = None
    /\ stream' = [stream EXCEPT !["panel"] = OnlyFor(active), !["modal"] = [r \in WatchedRuns |-> Closed]]
    /\ UNCHANGED <<serverVars, active, stopping>>

\* An answer to the query, to what was asked or to the timer.
Poll(r) ==
    /\ active = r
    /\ asking \/ (PollsAfter(polled[r]) /\ polled[r] # status[r])
    /\ polled' = [polled EXCEPT ![r] = status[r]] /\ asking' = FALSE
    /\ UNCHANGED <<serverVars, active, sse, modalVars, stream, stopping>>

\* The GET and its one retry fail: what was cached stays.
GetFails ==
    /\ asking
    /\ asking' = FALSE
    /\ UNCHANGED <<serverVars, active, sse, polled, modalVars, stream, stopping>>

\* The window gets the focus again, or a cancel of this page was answered, which
\* invalidates the query.
AskAgain ==
    /\ active # None /\ ~asking
    /\ asking' = TRUE
    /\ UNCHANGED <<serverVars, active, sse, polled, modalVars, stream, stopping>>

\* Stop is offered for a run shown as pending or running, not for one that waits.
Stop ==
    /\ Shown.status \in {"pending", "running"} /\ Shown.run \notin stopping
    /\ stopping' = stopping \cup {active}
    /\ UNCHANGED <<serverVars, panelVars, modalVars, stream>>

\* The modal starts from the run of the list, which may be behind the server,
\* and opens a stream only for a run the list shows as active.
OpenModal(r) ==
    /\ modal = None
    /\ \E s \in {status[r], "pending"} :
          /\ modal' = r /\ live' = s
          /\ stream' = [stream EXCEPT !["modal"][r] = IF s \in Active THEN Opened ELSE Closed]
    /\ UNCHANGED <<serverVars, panelVars, stopping>>

CloseModal ==
    /\ modal # None
    /\ modal' = None /\ live' = None
    /\ stream' = [stream EXCEPT !["modal"][modal] = Closed]
    /\ UNCHANGED <<serverVars, panelVars, stopping>>

-----------------------------------------------------------------------------
ServerStep(r) ==
    EngineLoads(r) \/ CancelLoads(r) \/ StopElsewhere(r) \/ \E w \in Writers : Commits(w, r)

ViewerStep(v, r) == StreamTurn(v, r) \/ Receive(v, r) \/ StreamBreaks(v, r)

PanelStep(r) == Activate(r) \/ Poll(r) \/ ViewerStep("panel", r)
PanelNext == Dismiss \/ ReloadPage \/ GetFails \/ AskAgain \/ Stop

ModalStep(r) == OpenModal(r) \/ ViewerStep("modal", r)

RunWatchNext ==
    \/ \E r \in WatchedRuns : ServerStep(r) \/ PanelStep(r) \/ ModalStep(r)
    \/ PanelNext \/ CloseModal

\* The loop of the stream turns every 2 s, the connection delivers what it was
\* given or breaks, the query polls every second, and a server that is asked again
\* and again answers in the end.  A viewer has one stream open,
\* and the panel polls one run.
RunWatchFairness ==
    /\ SF_watchVars(\E r \in WatchedRuns : Poll(r))
    /\ \A v \in Viewers :
          WF_watchVars(\E r \in WatchedRuns : StreamTurn(v, r) \/ Receive(v, r))

RunWatchSpec == RunWatchInit /\ [][RunWatchNext]_watchVars /\ RunWatchFairness

-----------------------------------------------------------------------------
(* Properties.                                                             *)

\* The panel shows the active run: no update of a run that was active before
\* reaches it, however late it comes.
PanelShowsItsRun == sse # NoUpdate => sse.run = active

\* What a viewer shows as over is over, with that outcome, unless a transaction that
\* had loaded the run as active wrote over its end.
ShownOutcomeIsReal ==
    /\ Shown.status \in Terminal /\ Shown.run \notin overtaken => status[Shown.run] = Shown.status
    /\ live \in Terminal /\ modal \notin overtaken => status[modal] = live

\* The panel lost its stream after a first update: it keeps that update, and
\* what it polls is no longer shown.
Frozen(r) == sse # NoUpdate /\ sse.status \notin Terminal /\ stream["panel"][r] = Broken

\* The first GET and the stream both failed: nothing is shown, and as long as no answer
\* is cached nothing is polled.
Blind(r) == sse = NoUpdate /\ polled[r] = None /\ ~asking /\ stream["panel"][r] = Broken

\* The panel on a run that has ended, and whose end is not written over, comes to show
\* an outcome, with or without the stream, unless the stream broke after a first
\* update, or before it when the first GET failed as well.
PanelCatchesUp ==
    \A r \in WatchedRuns :
        active = r /\ status[r] \in Terminal
            ~> \/ active # r \/ status[r] \notin Terminal
               \/ Shown.status \in Terminal \/ Frozen(r) \/ Blind(r)

\* The modal on a run that has ended, and whose end is not written over, shows an
\* outcome, unless its stream broke; it is closed before it opens on another run.
ModalCatchesUp ==
    modal # None /\ status[modal] \in Terminal
        ~> \/ modal = None \/ status[modal] \notin Terminal
           \/ live \in Terminal \/ stream["modal"][modal] = Broken
=============================================================================

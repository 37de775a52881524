---------------------------- MODULE WorkflowDesk ----------------------------
(***************************************************************************)
(* The workflow editor (pages/WorkflowEditor.tsx, components/              *)
(* VersionsModal.tsx, api/workflows.ts) and the routes that keep the       *)
(* versions (routers/workflows.py).  A route loads the row, takes the next *)
(* number and commits, and other routes commit in between.  The canvas is  *)
(* a copy of the definition that every refetch which brings a change       *)
(* overwrites.                                                             *)
(***************************************************************************)
EXTENDS Naturals, Sequences, FiniteSets, SequencesExt

CONSTANTS
    Editors,     \* the pages open on the workflow
    Parts,       \* the nodes, edges and settings a definition is made of
    MaxVersions, \* bound on the versions
    MaxEdits     \* bound on the edits of the canvas, and what it takes for one

ASSUME WorkflowDeskAssumption == MaxVersions \in Nat \ {0} /\ MaxEdits \in Nat

VARIABLES
    wf,        \* the row of the workflow: definition and current version number
    versions,  \* its versions in the order they were inserted
    known,     \* known[u]: the row the page has cached
    canvas,    \* canvas[u]: nodes and edges as they are on the page
    dirty,     \* dirty[u]: the mark of unsaved changes
    fetching,  \* fetching[u]: what the GET under way has read (<<>>: none)
    stale,     \* stale[u]: the query was invalidated
    put,       \* put[u]: the save or the restore under way
    edits,     \* how many of them there were
    overlapped,\* overlapped[u]: the canvas was edited while put[u] was under way
    vraced     \* a route took a number another had taken, or left the definition out
               \* though another had changed it

workflowVars == <<wf, versions, known, canvas, dirty, fetching, stale, put, edits,
                  overlapped, vraced>>

Row == [def : SUBSET Parts, num : 1 .. MaxVersions]
Unread == [def |-> {}, num |-> 1]
NoPut == [op |-> "none", pc |-> "sent", def |-> {}, row |-> Unread, num |-> 0]

\* The version POST /runs takes for a run of the workflow: the newest, whatever
\* version the page that asks for it has cached and names in its modal.
Oldest(rows) == CHOOSE row \in ToSet(rows) : \A other \in ToSet(rows) : other.num >= row.num
Newest(rows) == CHOOSE row \in ToSet(rows) : \A other \in ToSet(rows) : other.num <= row.num

WorkflowTypeOK ==
    /\ wf \in Row /\ versions \in Seq(Row) /\ known \in [Editors -> Row]
    /\ canvas \in [Editors -> SUBSET Parts]
    /\ dirty \in [Editors -> BOOLEAN] /\ stale \in [Editors -> BOOLEAN]
    /\ \A u \in Editors :
          /\ fetching[u] = <<>> \/ fetching[u][1] \in Row
          /\ put[u].op \in {"none", "save", "restore"} /\ put[u].pc \in {"sent", "loaded", "numbered", "done"}
          /\ put[u].row \in Row
          /\ put[u].op = "none" => put[u] = NoPut
    /\ \A u \in Editors : known[u].num <= Newest(versions).num
    /\ edits \in 0 .. MaxEdits
    /\ overlapped \in [Editors -> BOOLEAN] /\ vraced \in BOOLEAN

\* create_workflow makes version 1 of an empty definition.
WorkflowInit ==
    /\ wf = Unread /\ versions = <<wf>>
    /\ known = [u \in Editors |-> wf] /\ canvas = [u \in Editors |-> wf.def]
    /\ dirty = [u \in Editors |-> FALSE] /\ stale = [u \in Editors |-> FALSE]
    /\ fetching = [u \in Editors |-> <<>>] /\ put = [u \in Editors |-> NoPut]
    /\ edits = 0 /\ overlapped = [u \in Editors |-> FALSE] /\ vraced = FALSE

-----------------------------------------------------------------------------
(* The canvas.                                                             *)

\* A node is dropped or removed, an edge drawn or removed, a setting of a node
\* changed in its panel.
EditCanvas(u, x) ==
    /\ edits < MaxEdits
    /\ edits' = edits + 1
    /\ canvas' = [canvas EXCEPT ![u] = IF x \in @ THEN @ \ {x} ELSE @ \cup {x}]
    /\ dirty' = [dirty EXCEPT ![u] = TRUE]
    /\ overlapped' = [overlapped EXCEPT ![u] = @ \/ put[u] # NoPut]
    /\ UNCHANGED <<wf, versions, known, fetching, stale, put, vraced>>

\* The library reports what is no edit (a size, a selection) by the same callback.
CanvasReports(u) ==
    /\ ~dirty[u] /\ edits < MaxEdits
    /\ edits' = edits + 1
    /\ dirty' = [dirty EXCEPT ![u] = TRUE]
    /\ UNCHANGED <<wf, versions, known, canvas, fetching, stale, put, overlapped, vraced>>

-----------------------------------------------------------------------------
(* save, handleRestore: one request of the page at a time is enough here.  *)

SaveCanvas(u) ==
    /\ put[u] = NoPut
    /\ put' = [put EXCEPT ![u] = [NoPut EXCEPT !.op = "save", !.def = canvas[u]]]
    /\ UNCHANGED <<wf, versions, known, canvas, dirty, fetching, stale, edits, overlapped, vraced>>

\* The modal offers every version but the one the page takes for the current one.
RestoreVersion(u, i) ==
    /\ put[u] = NoPut
    /\ i \in DOMAIN versions /\ versions[i].num # known[u].num
    /\ put' = [put EXCEPT ![u] = [NoPut EXCEPT !.op = "restore", !.def = versions[i].def]]
    /\ UNCHANGED <<wf, versions, known, canvas, dirty, fetching, stale, edits, overlapped, vraced>>

\* The route loads the row of the workflow ...
RouteLoadsRow(u) ==
    /\ put[u].op # "none" /\ put[u].pc = "sent"
    /\ put' = [put EXCEPT ![u].pc = "loaded", ![u].row = wf]
    /\ UNCHANGED <<wf, versions, known, canvas, dirty, fetching, stale, edits, overlapped, vraced>>

\* ... takes the highest number so far, plus one (_make_version) ...
NextNumber == 1 + Max({versions[i].num : i \in DOMAIN versions})

RouteTakesNumber(u) ==
    /\ put[u].pc = "loaded"
    /\ Len(versions) + Cardinality({v \in Editors : put[v].pc = "numbered"}) < MaxVersions
    /\ put' = [put EXCEPT ![u].pc = "numbered", ![u].num = NextNumber]
    /\ UNCHANGED <<wf, versions, known, canvas, dirty, fetching, stale, edits, overlapped, vraced>>

\* ... and the new version becomes the definition: a restore is a version too.  What is
\* no change of the row that was loaded is not written, whatever the row is by now.
SavesOnly(request) == request.op = "save"
MakesVersion(request) == TRUE

LeftOut(request) == request.def = request.row.def
NumberTaken(request) == \E i \in DOMAIN versions : versions[i].num = request.num

PutCommits(u) ==
    /\ put[u].pc = "numbered"
    /\ wf' = [def |-> IF LeftOut(put[u]) THEN wf.def ELSE put[u].def, num |-> put[u].num]
    /\ versions' = IF MakesVersion(put[u]) THEN Append(versions, [def |-> put[u].def, num |-> put[u].num])
                   ELSE versions
    /\ vraced' = (vraced \/ NumberTaken(put[u]) \/ (LeftOut(put[u]) /\ put[u].def # wf.def))
    /\ put' = [put EXCEPT ![u].pc = "done"]
    /\ UNCHANGED <<known, canvas, dirty, fetching, stale, edits, overlapped>>

\* The mark is cleared, the query invalidated: a GET under way is dropped.
PutAnswered(u) ==
    /\ put[u].op # "none" /\ put[u].pc = "done"
    /\ put' = [put EXCEPT ![u] = NoPut]
    /\ dirty' = [dirty EXCEPT ![u] = FALSE]
    /\ stale' = [stale EXCEPT ![u] = TRUE] /\ fetching' = [fetching EXCEPT ![u] = <<>>]
    /\ UNCHANGED <<wf, versions, known, canvas, edits, overlapped, vraced>>

\* An error (an archived workflow), or an answer that is lost.
PutFails(u) ==
    /\ put[u].op # "none" /\ put[u].pc # "numbered"
    /\ put' = [put EXCEPT ![u] = NoPut]
    /\ UNCHANGED <<wf, versions, known, canvas, dirty, fetching, stale, edits, overlapped, vraced>>

-----------------------------------------------------------------------------
(* The query is fetched again when it was invalidated and when the window  *)
(* gets the focus.                                                         *)

WorkflowFetched(u) ==
    /\ fetching[u] = <<>> /\ (stale[u] \/ known[u] # wf)
    /\ fetching' = [fetching EXCEPT ![u] = <<wf>>]
    /\ UNCHANGED <<wf, versions, known, canvas, dirty, stale, put, edits, overlapped, vraced>>

\* The effect: an answer that differs replaces the canvas, edited or not.
FirstAnswerOnly(u, row) == FALSE
Replaces(u, row) == row # known[u]

WorkflowLands(u) ==
    /\ fetching[u] # <<>>
    /\ LET row == fetching[u][1] IN
       /\ known' = [known EXCEPT ![u] = row]
       /\ canvas' = IF Replaces(u, row) THEN [canvas EXCEPT ![u] = row.def] ELSE canvas
       /\ overlapped' = [overlapped EXCEPT ![u] = @ /\ row = known[u]]
    /\ fetching' = [fetching EXCEPT ![u] = <<>>] /\ stale' = [stale EXCEPT ![u] = FALSE]
    /\ UNCHANGED <<wf, versions, dirty, put, edits, vraced>>

WorkflowFetchFails(u) ==
    /\ fetching[u] # <<>>
    /\ fetching' = [fetching EXCEPT ![u] = <<>>]
    /\ UNCHANGED <<wf, versions, known, canvas, dirty, stale, put, edits, overlapped, vraced>>

-----------------------------------------------------------------------------
WorkflowNext == \E u \in Editors :
    \/ \E x \in Parts : EditCanvas(u, x)
    \/ \E i \in 1 .. MaxVersions : RestoreVersion(u, i)
    \/ CanvasReports(u) \/ SaveCanvas(u)
    \/ RouteLoadsRow(u) \/ RouteTakesNumber(u) \/ PutCommits(u) \/ PutAnswered(u) \/ PutFails(u)
    \/ WorkflowFetched(u) \/ WorkflowLands(u) \/ WorkflowFetchFails(u)

WorkflowSpec == WorkflowInit /\ [][WorkflowNext]_workflowVars

-----------------------------------------------------------------------------
(* Properties.                                                             *)

\* A page that shows no mark of unsaved changes, and waits for nothing, shows the
\* definition it has from the server, a restored one included, unless the canvas
\* was edited during its last request, or two routes overlapped as vraced has it.
CanvasIsWhatIsSaved ==
    \A u \in Editors :
        ~dirty[u] /\ ~stale[u] /\ put[u] = NoPut /\ ~overlapped[u] /\ ~vraced => canvas[u] = known[u].def

\* What runs is what the editors show: the newest version, which the routes run, is the
\* definition of the workflow.  Of the routes that overlap only two kinds break it: two
\* that take one number, and one that saves the definition it had loaded again after
\* another has committed a different one.
NewestIsCurrent == ~vraced => Newest(versions) = wf
=============================================================================

------------------------------- MODULE Launch -------------------------------
(***************************************************************************)
(* The Validate page: a policy is picked, files are added, and one click   *)
(* uploads the files one after the other and starts a run on them          *)
(* (pages/Validate.tsx).  Everything after the click is asynchronous: the  *)
(* user keeps picking, adding and deleting while the uploads are under     *)
(* way, and other users delete policies.                                   *)
(***************************************************************************)
EXTENDS Naturals, Sequences, FiniteSets

CONSTANTS
    Policies,   \* the policies there are at first
    Files,      \* the files of the user's disk
    MaxClicks   \* bound on the clicks on Run

ASSUME LaunchAssumption == MaxClicks \in Nat /\ 0 \notin Policies

VARIABLES
    stored,     \* the policies on the server
    cached,     \* the policies of the page's query
    selected,   \* selectedPolicyId, 0 for null
    files,      \* the files in the launch bar
    error,      \* whether runError is set
    mine,       \* the click whose call the page waits for (uploading), 0 for none
    job,        \* the call of handleRun of each click
    clicks,     \* what the user asked for: policy and files at each click
    stayed,     \* the click the user has done nothing since to lose sight of, 0 for none
    documents,  \* documents on the server: <<click, file>>
    started,    \* the runs: the policy and the documents of each
    opened      \* the run whose detail modal is open, a set of at most one

launchVars == <<stored, cached, selected, files, error, mine, job, clicks, stayed, documents, started, opened>>

NoJob == [pc |-> "none", policy |-> 0, todo |-> {}, docs |-> {}]
Clicks == 1 .. MaxClicks
Documents == Clicks \X Files
Runs == [policy : Policies, docs : SUBSET Documents]

LaunchTypeOK ==
    /\ stored \subseteq Policies /\ cached \subseteq Policies
    /\ selected \in Policies \cup {0} /\ files \subseteq Files
    /\ error \in BOOLEAN /\ mine \in 0 .. MaxClicks /\ stayed \in 0 .. MaxClicks
    /\ job \in [Clicks -> [pc : {"none", "uploading", "starting"}, policy : Policies \cup {0},
                            todo : SUBSET Files, docs : SUBSET Documents]]
    /\ \A c \in Clicks : (job[c].pc = "uploading") = (job[c].todo # {}) /\ job[c].docs \subseteq documents
    /\ DOMAIN clicks \subseteq Clicks
    /\ documents \subseteq Documents
    /\ started \subseteq Runs /\ opened \subseteq Runs

LaunchInit ==
    /\ stored = Policies /\ cached = Policies
    /\ selected = 0 /\ files = {} /\ error = FALSE /\ mine = 0
    /\ job = [c \in Clicks |-> NoJob] /\ stayed = 0
    /\ clicks = <<>> /\ documents = {} /\ started = {} /\ opened = {}

\* With no file listed the bar shows the name of the selected policy: when the list
\* no longer has that policy the page renders nothing at all until it is loaded again.
Blank == selected # 0 /\ selected \notin cached /\ files = {}

\* The line beside the Run button, which is there only while files are listed.
ErrorShown == selected # 0 /\ files # {} /\ error

-----------------------------------------------------------------------------
(* The policy picker.                                                      *)

\* A click on a policy selects it, a second one lets go of it; either clears
\* the launch bar and its error, a call under way or not.
Select(p) ==
    /\ p \in cached /\ ~Blank
    /\ selected' = IF selected = p THEN 0 ELSE p
    /\ files' = {} /\ error' = FALSE
    /\ stayed' = 0
    /\ UNCHANGED <<stored, cached, mine, job, clicks, documents, started, opened>>

\* The deletion is sent and the selection dropped at once; files and error stay.
DeletePolicy(p) ==
    /\ p \in cached /\ ~Blank
    /\ stored' = stored \ {p}
    /\ selected' = IF selected = p THEN 0 ELSE selected
    /\ stayed' = IF selected = p THEN 0 ELSE stayed
    /\ UNCHANGED <<cached, files, error, mine, job, clicks, documents, started, opened>>

DeletedElsewhere(p) ==
    /\ p \in stored
    /\ stored' = stored \ {p}
    /\ UNCHANGED <<cached, selected, files, error, mine, job, clicks, stayed, documents, started, opened>>

PoliciesRefetched ==
    /\ cached # stored
    /\ cached' = stored
    /\ UNCHANGED <<stored, selected, files, error, mine, job, clicks, stayed, documents, started, opened>>

-----------------------------------------------------------------------------
(* The page is left for another page or loaded again.  Its state is gone   *)
(* either way; a call under way goes on behind another page, with nobody   *)
(* to tell, and ends with the page when that is loaded again.              *)

Forgotten == selected' = 0 /\ files' = {} /\ error' = FALSE /\ mine' = 0 /\ stayed' = 0 /\ opened' = {}

LeavePage ==
    /\ ~Blank /\ Forgotten
    /\ UNCHANGED <<stored, cached, job, clicks, documents, started>>

ReloadPage ==
    /\ Forgotten
    /\ job' = [c \in Clicks |-> NoJob] /\ cached' = stored
    /\ UNCHANGED <<stored, clicks, documents, started>>

-----------------------------------------------------------------------------
(* The launch bar: files come and go while a call is under way as well.    *)

AddFile(f) ==
    /\ selected # 0 /\ ~Blank /\ f \notin files
    /\ files' = files \cup {f}
    /\ UNCHANGED <<stored, cached, selected, error, mine, job, clicks, stayed, documents, started, opened>>

RemoveFile(f) ==
    /\ selected # 0 /\ f \in files
    /\ files' = files \ {f} /\ stayed' = 0
    /\ UNCHANGED <<stored, cached, selected, error, mine, job, clicks, documents, started, opened>>

-----------------------------------------------------------------------------
(* handleRun.  The closure keeps the policy and the files of the click.    *)

ClickRun ==
    /\ selected # 0 /\ files # {} /\ mine = 0 /\ Len(clicks) < MaxClicks
    /\ clicks' = Append(clicks, [policy |-> selected, files |-> files])
    /\ mine' = Len(clicks) + 1 /\ stayed' = mine' /\ error' = FALSE
    /\ job' = [job EXCEPT ![mine'] = [pc |-> "uploading", policy |-> selected, todo |-> files, docs |-> {}]]
    /\ UNCHANGED <<stored, cached, selected, files, documents, started, opened>>

\* The documents uploaded for a call so far, and the files that are left.
LastOnly(c, f) == {<<c, f>>}
Collected(c, f) == job[c].docs \cup {<<c, f>>}
AllUploaded(rest) == rest = {}

Upload(c, f) ==
    /\ job[c].pc = "uploading" /\ f \in job[c].todo
    /\ documents' = documents \cup {<<c, f>>}
    /\ job' = [job EXCEPT ![c].todo = @ \ {f}, ![c].docs = Collected(c, f),
                  ![c].pc = IF AllUploaded(job[c].todo \ {f}) THEN "starting" ELSE "uploading"]
    /\ UNCHANGED <<stored, cached, selected, files, error, mine, clicks, stayed, started, opened>>

\* The policy and the documents POST /runs/validate is sent with.
SentNow(c) == [policy |-> selected, docs |-> job[c].docs]
Sent(c) == [policy |-> job[c].policy, docs |-> job[c].docs]

\* The run is created and its answer arrives: the page that waits for it empties its
\* launch bar and opens the modal of the run.
StartRun(c) ==
    /\ job[c].pc = "starting" /\ Sent(c).policy \in stored
    /\ started' = started \cup {Sent(c)}
    /\ job' = [job EXCEPT ![c] = NoJob]
    /\ IF c = mine THEN opened' = {Sent(c)} /\ files' = {} /\ mine' = 0
                   ELSE UNCHANGED <<opened, files, mine>>
    /\ UNCHANGED <<stored, cached, selected, error, clicks, stayed, documents>>

\* A call is over with an error: the page that waits for it keeps its files and is
\* told, a page come to since is not.
Told(c) ==
    /\ job' = [job EXCEPT ![c] = NoJob]
    /\ IF c = mine THEN error' = TRUE /\ mine' = 0 ELSE UNCHANGED <<error, mine>>

\* An upload or the start fails: the documents uploaded so far stay on the server.
LaunchFails(c) ==
    /\ job[c].pc # "none" /\ Told(c)
    /\ UNCHANGED <<stored, cached, selected, files, clicks, stayed, documents, started, opened>>

\* The run is created and the answer is lost.
AnswerLost(c) ==
    /\ job[c].pc = "starting" /\ Sent(c).policy \in stored
    /\ started' = started \cup {Sent(c)} /\ Told(c)
    /\ UNCHANGED <<stored, cached, selected, files, clicks, stayed, documents, opened>>

CloseRun ==
    /\ opened # {} /\ ~Blank
    /\ opened' = {}
    /\ UNCHANGED <<stored, cached, selected, files, error, mine, job, clicks, stayed, documents, started>>

OpenRun(r) ==
    /\ selected # 0 /\ ~Blank /\ opened = {} /\ r \in started /\ r.policy = selected
    /\ opened' = {r}
    /\ UNCHANGED <<stored, cached, selected, files, error, mine, job, clicks, stayed, documents, started>>

-----------------------------------------------------------------------------
LaunchNext ==
    \/ \E p \in Policies : Select(p) \/ DeletePolicy(p) \/ DeletedElsewhere(p)
    \/ PoliciesRefetched \/ LeavePage \/ ReloadPage
    \/ \E f \in Files : AddFile(f) \/ RemoveFile(f)
    \/ ClickRun
    \/ \E c \in Clicks, f \in Files : Upload(c, f)
    \/ \E c \in Clicks : StartRun(c) \/ LaunchFails(c) \/ AnswerLost(c)
    \/ CloseRun
    \/ \E r \in started : OpenRun(r)

LaunchSpec == LaunchInit /\ [][LaunchNext]_launchVars

-----------------------------------------------------------------------------
(* Properties.                                                             *)

\* A run checks what the click asked for: its documents are those of one click,
\* every file of it and no other, against the policy selected at that click,
\* whatever the user does to the page while the files are uploaded.
RunIsTheClick ==
    \A r \in started : \E c \in DOMAIN clicks :
        /\ r.policy = clicks[c].policy
        /\ r.docs = {c} \X clicks[c].files

\* While the user stays with a click (picks no other policy, takes no file out, does not
\* leave, load the page again or click once more), a document of it that is in no run and
\* in no call under way is not left behind in silence: the error is on the page, the
\* policy of the click is selected and all its files are listed, ready to be run again.
\* One who does move on may leave such documents behind and never be told.
NoSilentOrphan ==
    \A d \in documents : d[1] = stayed =>
        \/ \E r \in started : d \in r.docs
        \/ d \in job[stayed].docs
        \/ /\ ErrorShown
           /\ selected = clicks[stayed].policy /\ clicks[stayed].files \subseteq files
=============================================================================

----------------------------- MODULE BrowserProof -----------------------------
(***************************************************************************)
(* Proofs about the Validate page, where a run checks what its click asked *)
(* for and no document is left behind unnoticed (Launch), the detail modal *)
(* shows a rule with its own result (Evidence), and the library, where a   *)
(* listed sample has its file (LibraryDesk); and of the browser that has   *)
(* these and the pages of AccountProof: its types.                         *)
(***************************************************************************)
EXTENDS MCBrowser, AccountProof

-----------------------------------------------------------------------------
(* Launching a run: the types.                                             *)

LaunchJobs ==
    [pc : {"none", "uploading", "starting"}, policy : Policies \cup {0},
     todo : SUBSET Files, docs : SUBSET Documents]
ClickRecords == [policy : Policies, files : SUBSET Files]
LaunchShapes ==
    /\ stored \subseteq Policies /\ cached \subseteq Policies
    /\ selected \in Policies \cup {0} /\ files \subseteq Files
    /\ error \in BOOLEAN /\ mine \in 0 .. MaxClicks /\ stayed \in 0 .. MaxClicks
    /\ job \in [Clicks -> LaunchJobs]
    /\ clicks \in Seq(ClickRecords) /\ Len(clicks) <= MaxClicks
    /\ \A c \in DOMAIN clicks : clicks[c].files # {}
    /\ documents \subseteq Documents /\ \A d \in documents : d[1] \in DOMAIN clicks
    /\ started \subseteq Runs /\ opened \subseteq Runs

\* A call under way works on what its click asked for: what has been uploaded and
\* what is left are together the files of the click.
CallIsTheClick(c) ==
    IF job[c].pc = "none" THEN job[c] = NoJob
    ELSE /\ c \in DOMAIN clicks /\ job[c].policy = clicks[c].policy
         /\ job[c].todo \subseteq clicks[c].files
         /\ job[c].docs = {c} \X (clicks[c].files \ job[c].todo)
         /\ job[c].docs = {d \in documents : d[1] = c}
         /\ (job[c].pc = "uploading") = (job[c].todo # {})
JobIsTheClick == \A c \in Clicks : CallIsTheClick(c)

\* What the page has of a click the user stays with: its call, or the error of it, with
\* the files of the click in the bar; or all its documents are in a run.
StayedWith ==
    stayed # 0 =>
        /\ stayed \in DOMAIN clicks /\ selected = clicks[stayed].policy
        /\ mine \in {0, stayed} /\ (mine = stayed) = (job[stayed].pc # "none")
        /\ \/ clicks[stayed].files \subseteq files /\ (mine = stayed \/ error)
           \/ /\ mine = 0
              /\ \A d \in documents : d[1] = stayed => \E r \in started : d \in r.docs

LaunchInvariant == LaunchShapes /\ JobIsTheClick /\ RunIsTheClick /\ StayedWith

LEMMA LaunchInitially == LaunchInit => LaunchInvariant
<1> SUFFICES ASSUME LaunchInit PROVE LaunchInvariant
  OBVIOUS
<1>1. NoJob \in LaunchJobs
  BY LaunchAssumption DEF NoJob, LaunchJobs
<1>2. LaunchShapes
  <2>1. job \in [Clicks -> LaunchJobs]
    BY <1>1 DEF LaunchInit
  <2>2. clicks = <<>> /\ clicks \in Seq(ClickRecords) /\ Len(clicks) = 0 /\ DOMAIN clicks = {}
    BY DEF LaunchInit
  <2>3. /\ stored = Policies /\ cached = Policies /\ selected = 0 /\ files = {} /\ error = FALSE
        /\ documents = {} /\ started = {} /\ opened = {}
    BY DEF LaunchInit
  <2>4. mine \in 0 .. MaxClicks /\ stayed \in 0 .. MaxClicks
    BY LaunchAssumption DEF LaunchInit
  <2>5. \A c \in DOMAIN clicks : clicks[c].files # {}
    BY <2>2
  <2>6. Len(clicks) <= MaxClicks
    BY <2>2, LaunchAssumption
  <2>7. QED
    BY <2>1, <2>2, <2>3, <2>4, <2>5, <2>6 DEF LaunchShapes
<1>3. JobIsTheClick /\ RunIsTheClick /\ StayedWith
  <2>1. \A c \in Clicks : job[c] = NoJob
    BY DEF LaunchInit
  <2>2. JobIsTheClick
    BY <2>1 DEF JobIsTheClick, CallIsTheClick, NoJob
  <2>3. RunIsTheClick /\ StayedWith
    BY DEF LaunchInit, RunIsTheClick, StayedWith
  <2>4. QED
    BY <2>2, <2>3
<1>4. QED
  BY <1>2, <1>3 DEF LaunchInvariant

\* What the user and the others do beside a call leaves the call alone.
LEMMA BesideStep ==
  ASSUME LaunchInvariant,
         \/ \E p \in Policies : Select(p) \/ DeletePolicy(p) \/ DeletedElsewhere(p)
         \/ PoliciesRefetched \/ LeavePage
         \/ \E f \in Files : AddFile(f) \/ RemoveFile(f)
         \/ CloseRun \/ (\E r \in started : OpenRun(r)) \/ UNCHANGED launchVars
  PROVE  LaunchInvariant'
<1>a. LaunchShapes /\ JobIsTheClick /\ RunIsTheClick /\ StayedWith
  BY DEF LaunchInvariant
<1>1. UNCHANGED <<job, clicks, documents, started>>
  BY DEF Select, DeletePolicy, DeletedElsewhere, PoliciesRefetched, LeavePage, AddFile, RemoveFile, CloseRun, OpenRun,
     launchVars
<1>2. LaunchShapes'
  <2>1. error' \in BOOLEAN /\ mine' \in {mine, 0} /\ stayed' \in {stayed, 0} /\ opened' \subseteq Runs
    BY <1>a DEF LaunchShapes, Select, DeletePolicy, DeletedElsewhere, PoliciesRefetched, LeavePage, Forgotten,
       AddFile, RemoveFile, CloseRun, OpenRun, launchVars
  <2>2. stored' \subseteq Policies /\ cached' \subseteq Policies /\ selected' \in Policies \cup {0} /\ files' \subseteq Files
    BY <1>a DEF LaunchShapes, Select, DeletePolicy, DeletedElsewhere, PoliciesRefetched, LeavePage, Forgotten,
       AddFile, RemoveFile, CloseRun, OpenRun, launchVars
  <2>3. QED
    BY <1>a, <1>1, <2>1, <2>2, LaunchAssumption DEF LaunchShapes
<1>3. JobIsTheClick' /\ RunIsTheClick'
  BY <1>a, <1>1 DEF JobIsTheClick, CallIsTheClick, RunIsTheClick
<1>4. StayedWith'
  <2>1. CASE stayed' = 0
    BY <2>1 DEF StayedWith
  <2>2. CASE stayed' # 0
    <3>1. UNCHANGED <<selected, error, mine, stayed>> /\ files \subseteq files'
      BY <2>2 DEF Select, DeletePolicy, DeletedElsewhere, PoliciesRefetched, LeavePage, Forgotten,
         AddFile, RemoveFile, CloseRun, OpenRun, launchVars
    <3>2. QED
      BY <1>a, <1>1, <3>1 DEF StayedWith
  <2>3. QED
    BY <2>1, <2>2
<1>5. QED
  BY <1>2, <1>3, <1>4 DEF LaunchInvariant

\* With the page every call is gone.
LEMMA ReloadStep ==
  ASSUME LaunchInvariant, ReloadPage
  PROVE  LaunchInvariant'
<1>a. LaunchShapes /\ RunIsTheClick
  BY DEF LaunchInvariant
<1>b. /\ job' = [c \in Clicks |-> NoJob] /\ NoJob \in LaunchJobs
      /\ UNCHANGED <<clicks, documents, started>> /\ stayed' = 0
  BY LaunchAssumption DEF ReloadPage, Forgotten, NoJob, LaunchJobs
<1>1. LaunchShapes'
  <2>1. selected' = 0 /\ files' = {} /\ error' = FALSE /\ mine' = 0 /\ opened' = {} /\ cached' = stored /\ stored' = stored
    BY DEF ReloadPage, Forgotten
  <2>2. job' \in [Clicks -> LaunchJobs]
    BY <1>b
  <2>3. mine' \in 0 .. MaxClicks /\ stayed' \in 0 .. MaxClicks
    BY <1>b, <2>1, LaunchAssumption
  <2>4. QED
    BY <1>a, <1>b, <2>1, <2>2, <2>3 DEF LaunchShapes
<1>2. JobIsTheClick' /\ RunIsTheClick' /\ StayedWith'
  BY <1>a, <1>b DEF JobIsTheClick, CallIsTheClick, NoJob, RunIsTheClick, StayedWith
<1>3. QED
  BY <1>1, <1>2 DEF LaunchInvariant

LEMMA ClickStep ==
  ASSUME LaunchInvariant, ClickRun
  PROVE  LaunchInvariant'
<1> DEFINE click == [policy |-> selected, files |-> files]
           n == Len(clicks) + 1
           sent == [pc |-> "uploading", policy |-> selected, todo |-> files, docs |-> {}]
<1>a. LaunchShapes /\ JobIsTheClick /\ RunIsTheClick
  BY DEF LaunchInvariant
<1>b. click \in ClickRecords /\ selected \in Policies /\ files # {}
  BY <1>a DEF ClickRun, LaunchShapes, ClickRecords
<1>c. clicks \in Seq(ClickRecords) /\ Len(clicks) \in Nat /\ Len(clicks) < MaxClicks
  BY <1>a DEF ClickRun, LaunchShapes
<1>d. /\ clicks' = Append(clicks, click) /\ mine' = n /\ stayed' = n /\ error' = FALSE
      /\ UNCHANGED <<stored, cached, selected, files, documents, started, opened>>
  BY DEF ClickRun
<1>f. job' = [job EXCEPT ![n] = sent]
  BY <1>d DEF ClickRun
<1> HIDE DEF click
<1>e. /\ clicks' \in Seq(ClickRecords) /\ Len(clicks') = n /\ clicks'[n] = click
      /\ \A c \in DOMAIN clicks : c \in DOMAIN clicks' /\ clicks'[c] = clicks[c]
      /\ n \in DOMAIN clicks' /\ n \notin DOMAIN clicks
  BY <1>b, <1>c, <1>d
<1>g. n \in Clicks /\ n # 0
  BY <1>c, LaunchAssumption DEF Clicks
<1>h. job' \in [Clicks -> LaunchJobs] /\ job'[n] = sent /\ \A c \in Clicks : c # n => job'[c] = job[c]
  <2>1. sent \in LaunchJobs
    BY <1>a, <1>b DEF LaunchJobs, LaunchShapes
  <2>2. QED
    BY <1>a, <1>f, <1>g, <2>1 DEF LaunchShapes
<1>i. clicks'[n].policy = selected /\ clicks'[n].files = files
  BY <1>e DEF click
<1>1. LaunchShapes'
  <2>1. mine' \in 0 .. MaxClicks /\ stayed' \in 0 .. MaxClicks
    BY <1>c, <1>d, LaunchAssumption
  <2>2. Len(clicks') <= MaxClicks
    BY <1>c, <1>e, LaunchAssumption
  <2>3. \A c \in DOMAIN clicks' : clicks'[c].files # {}
    <3>1. \A c \in DOMAIN clicks' : c # n => c \in DOMAIN clicks
      BY <1>c, <1>e
    <3>2. QED
      BY <1>a, <1>b, <1>e, <1>i, <3>1 DEF LaunchShapes
  <2>4. \A d \in documents' : d[1] \in DOMAIN clicks'
    BY <1>a, <1>d, <1>e DEF LaunchShapes
  <2>5. QED
    BY <1>a, <1>d, <1>e, <1>h, <2>1, <2>2, <2>3, <2>4 DEF LaunchShapes
<1>2. JobIsTheClick'
  <2> SUFFICES ASSUME NEW c \in Clicks PROVE CallIsTheClick(c)'
    BY DEF JobIsTheClick
  <2>1. CASE c = n
    <3>1. {n} \X (files \ files) = {} /\ {d \in documents : d[1] = n} = {}
      BY <1>a, <1>e DEF LaunchShapes
    <3>2. QED
      BY <1>b, <1>d, <1>e, <1>h, <1>i, <2>1, <3>1 DEF CallIsTheClick
  <2>2. CASE c # n
    BY <1>a, <1>d, <1>e, <1>h, <2>2 DEF JobIsTheClick, CallIsTheClick
  <2>3. QED
    BY <2>1, <2>2
<1>3. RunIsTheClick'
  BY <1>a, <1>d, <1>e DEF RunIsTheClick
<1>4. StayedWith'
  BY <1>d, <1>e, <1>h, <1>i DEF StayedWith
<1>5. QED
  BY <1>1, <1>2, <1>3, <1>4 DEF LaunchInvariant

LEMMA UploadStep ==
  ASSUME LaunchInvariant, NEW c \in Clicks, NEW f \in Files, Upload(c, f)
  PROVE  LaunchInvariant'
<1> DEFINE rest == job[c].todo \ {f}
           sent == [pc |-> IF rest = {} THEN "starting" ELSE "uploading", policy |-> job[c].policy,
                    todo |-> rest, docs |-> job[c].docs \cup {<<c, f>>}]
<1>a. LaunchShapes /\ JobIsTheClick /\ RunIsTheClick /\ StayedWith
  BY DEF LaunchInvariant
<1>b. job[c] \in LaunchJobs /\ job[c].pc = "uploading" /\ f \in job[c].todo
  BY <1>a DEF Upload, LaunchShapes
<1>c. job' \in [Clicks -> LaunchJobs] /\ job'[c] = sent /\ \A b \in Clicks : b # c => job'[b] = job[b]
  <2>1. job' = [job EXCEPT ![c] = sent]
    <3>1. job' = [job EXCEPT ![c].todo = @ \ {f}, ![c].docs = job[c].docs \cup {<<c, f>>},
                    ![c].pc = IF rest = {} THEN "starting" ELSE "uploading"]
      BY DEF Upload, Collected, AllUploaded
    <3>2. job \in [Clicks -> LaunchJobs]
      BY <1>a DEF LaunchShapes
    <3>3. job'[c] = sent /\ \A b \in Clicks \ {c} : job'[b] = job[b]
      BY <3>1, <3>2 DEF LaunchJobs
    <3>4. DOMAIN job' = Clicks /\ job' = [b \in Clicks |-> job'[b]]
      BY <3>1, <3>2
    <3>5. QED
      BY <3>2, <3>3, <3>4
  <2>2. sent \in LaunchJobs
    BY <1>b DEF LaunchJobs, Documents
  <2>3. QED
    BY <1>a, <2>1, <2>2 DEF LaunchShapes
<1>d. /\ documents' = documents \cup {<<c, f>>}
      /\ UNCHANGED <<stored, cached, selected, files, error, mine, clicks, stayed, started, opened>>
  BY DEF Upload
<1>e. /\ c \in DOMAIN clicks /\ job[c].policy = clicks[c].policy
      /\ job[c].todo \subseteq clicks[c].files
      /\ job[c].docs = {c} \X (clicks[c].files \ job[c].todo)
      /\ job[c].docs = {d \in documents : d[1] = c}
  BY <1>a, <1>b DEF JobIsTheClick, CallIsTheClick
<1>1. LaunchShapes'
  BY <1>a, <1>c, <1>d, <1>e DEF LaunchShapes, Documents
<1>2. JobIsTheClick'
  <2> SUFFICES ASSUME NEW b \in Clicks PROVE CallIsTheClick(b)'
    BY DEF JobIsTheClick
  <2>1. CASE b = c
    <3>1. {c} \X (clicks[c].files \ job[c].todo) \cup {<<c, f>>} = {c} \X (clicks[c].files \ rest)
      BY <1>b, <1>e
    <3>2. {d \in documents : d[1] = c} \cup {<<c, f>>} = {d \in documents' : d[1] = c}
      BY <1>d
    <3>3. QED
      BY <1>c, <1>d, <1>e, <2>1, <3>1, <3>2 DEF CallIsTheClick
  <2>2. CASE b # c
    <3>1. {d \in documents' : d[1] = b} = {d \in documents : d[1] = b}
      BY <1>d, <2>2
    <3>2. QED
      BY <1>a, <1>c, <1>d, <2>2, <3>1 DEF JobIsTheClick, CallIsTheClick
  <2>3. QED
    BY <2>1, <2>2
<1>3. RunIsTheClick'
  BY <1>a, <1>d DEF RunIsTheClick
<1>4. StayedWith'
  <2>1. stayed # 0 => (job'[stayed].pc # "none") = (job[stayed].pc # "none")
    <3>1. stayed # 0 => stayed \in Clicks
      BY <1>a, LaunchAssumption DEF LaunchShapes, Clicks
    <3>2. QED
      BY <1>b, <1>c, <3>1
  <2>2. stayed = c /\ stayed # 0 => mine = stayed /\ mine # 0
    BY <1>a, <1>b DEF StayedWith
  <2>3. QED
    BY <1>a, <1>d, <2>1, <2>2 DEF StayedWith
<1>5. QED
  BY <1>1, <1>2, <1>3, <1>4 DEF LaunchInvariant

\* A call ends: with its run, with an error, or with both.
LEMMA EndStep ==
  ASSUME LaunchInvariant, NEW c \in Clicks, StartRun(c) \/ LaunchFails(c) \/ AnswerLost(c)
  PROVE  LaunchInvariant'
<1>a. LaunchShapes /\ JobIsTheClick /\ RunIsTheClick /\ StayedWith
  BY DEF LaunchInvariant
<1>b. job' = [job EXCEPT ![c] = NoJob] /\ UNCHANGED <<stored, cached, selected, clicks, stayed, documents>>
  BY DEF StartRun, LaunchFails, AnswerLost, Told
<1>c. /\ job[c] \in LaunchJobs /\ c \in DOMAIN clicks /\ job[c].policy = clicks[c].policy
      /\ job[c].docs = {c} \X (clicks[c].files \ job[c].todo)
      /\ job[c].docs = {d \in documents : d[1] = c}
      /\ (job[c].pc = "uploading") = (job[c].todo # {}) /\ job[c].pc # "none"
  BY <1>a DEF StartRun, LaunchFails, AnswerLost, LaunchShapes, JobIsTheClick, CallIsTheClick
<1>d. job' \in [Clicks -> LaunchJobs] /\ job'[c] = NoJob /\ \A b \in Clicks : b # c => job'[b] = job[b]
  <2>1. NoJob \in LaunchJobs
    BY LaunchAssumption DEF LaunchJobs, NoJob
  <2>2. QED
    BY <1>a, <1>b, <2>1 DEF LaunchShapes
<1>e. \/ started' = started
      \/ started' = started \cup {Sent(c)} /\ job[c].pc = "starting" /\ Sent(c).policy \in stored
  BY DEF StartRun, LaunchFails, AnswerLost
<1>f. job[c].pc = "starting" /\ Sent(c).policy \in stored => Sent(c) \in Runs
  BY <1>a, <1>c DEF Sent, Runs, LaunchShapes, LaunchJobs
<1>1. LaunchShapes'
  <2>1. opened' \in SUBSET Runs /\ files' \subseteq Files /\ error' \in BOOLEAN /\ mine' \in {0, mine}
    BY <1>a, <1>f DEF LaunchShapes, StartRun, LaunchFails, AnswerLost, Told
  <2>2. started' \subseteq Runs
    BY <1>a, <1>e, <1>f DEF LaunchShapes
  <2>3. QED
    BY <1>a, <1>b, <1>d, <2>1, <2>2, LaunchAssumption DEF LaunchShapes
<1>2. JobIsTheClick'
  <2>1. CallIsTheClick(c)'
    BY <1>d DEF CallIsTheClick, NoJob
  <2>2. \A b \in Clicks : b # c => CallIsTheClick(b)'
    BY <1>a, <1>b, <1>d DEF JobIsTheClick, CallIsTheClick
  <2>3. QED
    BY <2>1, <2>2 DEF JobIsTheClick
<1>3. RunIsTheClick'
  <2>1. job[c].pc = "starting" => Sent(c).policy = clicks[c].policy /\ Sent(c).docs = {c} \X clicks[c].files
    BY <1>c DEF Sent
  <2>2. QED
    BY <1>a, <1>b, <1>c, <1>e, <2>1 DEF RunIsTheClick
<1>4. StayedWith'
  <2>1. CASE stayed = 0
    BY <1>b, <2>1 DEF StayedWith
  <2>2. CASE stayed # 0 /\ stayed # c
    <3>1. mine # c /\ stayed \in Clicks
      <4>1. c # 0
        BY LaunchAssumption DEF Clicks
      <4>2. QED
        BY <1>a, <2>2, <4>1, LaunchAssumption DEF StayedWith, LaunchShapes, Clicks
    <3>2. UNCHANGED <<mine, error, files>> /\ job'[stayed] = job[stayed] /\ started \subseteq started'
      BY <1>d, <1>e, <2>2, <3>1 DEF StartRun, LaunchFails, AnswerLost, Told
    <3>3. QED
      BY <1>a, <1>b, <3>2 DEF StayedWith
  <2>3. CASE stayed # 0 /\ stayed = c
    <3>1. mine = c /\ clicks[c].files \subseteq files /\ selected = clicks[c].policy
      BY <1>a, <1>c, <2>3 DEF StayedWith
    <3>2. mine' = 0 /\ job'[c].pc = "none"
      BY <1>d, <3>1 DEF StartRun, LaunchFails, AnswerLost, Told, NoJob
    <3>3. CASE StartRun(c)
      <4>1. started' = started \cup {Sent(c)} /\ Sent(c).docs = {d \in documents : d[1] = c}
        BY <1>c, <3>3 DEF StartRun, Sent
      <4>2. QED
        BY <1>b, <1>c, <2>3, <3>1, <3>2, <4>1 DEF StayedWith
    <3>4. CASE LaunchFails(c) \/ AnswerLost(c)
      <4>1. error' = TRUE /\ files' = files
        BY <3>1, <3>4 DEF LaunchFails, AnswerLost, Told
      <4>2. QED
        BY <1>b, <1>c, <2>3, <3>1, <3>2, <4>1 DEF StayedWith
    <3>5. QED
      BY <3>3, <3>4
  <2>4. QED
    BY <2>1, <2>2, <2>3
<1>5. QED
  BY <1>1, <1>2, <1>3, <1>4 DEF LaunchInvariant

LEMMA LaunchAlways == LaunchSpec => []LaunchInvariant
<1>1. LaunchInit => LaunchInvariant
  BY LaunchInitially
<1>2. LaunchInvariant /\ [LaunchNext]_launchVars => LaunchInvariant'
  BY BesideStep, ReloadStep, ClickStep, UploadStep, EndStep DEF LaunchNext
<1>3. QED
  BY <1>1, <1>2, PTL DEF LaunchSpec

\* Whatever the user does to the page while the files are uploaded, the policy and the
\* documents of every run are those of one click on Run.
THEOREM RunsAreTheirClicks == LaunchSpec => []RunIsTheClick
<1>1. LaunchInvariant => RunIsTheClick
  BY DEF LaunchInvariant
<1>2. QED
  BY <1>1, LaunchAlways, PTL

\* As long as the user stays with a click, a document of it that belongs to no run is one
\* of the call under way, or comes with the error on the page, the policy of the click
\* selected and all its files listed.
THEOREM OrphansComeWithAnError == LaunchSpec => []NoSilentOrphan
<1>1. ASSUME LaunchInvariant PROVE NoSilentOrphan
  <2> SUFFICES ASSUME NEW d \in documents, d[1] = stayed,
                      \A r \in started : d \notin r.docs, d \notin job[stayed].docs
               PROVE  /\ ErrorShown
                      /\ selected = clicks[stayed].policy /\ clicks[stayed].files \subseteq files
    BY DEF NoSilentOrphan
  <2>1. LaunchShapes /\ JobIsTheClick /\ StayedWith
    BY <1>1 DEF LaunchInvariant
  <2>2. stayed \in Clicks /\ stayed # 0 /\ stayed \in DOMAIN clicks
    BY <2>1, LaunchAssumption DEF LaunchShapes, Documents, Clicks
  <2>3. job[stayed].pc = "none"
    BY <2>1, <2>2 DEF JobIsTheClick, CallIsTheClick
  <2>4. clicks[stayed].files \subseteq files /\ error /\ selected = clicks[stayed].policy
    BY <2>1, <2>2, <2>3 DEF StayedWith
  <2>5. clicks[stayed] \in ClickRecords /\ clicks[stayed].files # {}
    BY <2>1, <2>2 DEF LaunchShapes
  <2>6. clicks[stayed].policy \in Policies
    BY <2>5 DEF ClickRecords
  <2>7. QED
    BY <2>4, <2>5, <2>6, LaunchAssumption DEF ErrorShown
<1>2. QED
  BY <1>1, LaunchAlways, PTL

\* The page, the calls under way and the server hold values of the kind the code stores:
\* a call is at its uploads exactly while files are left, and what it has uploaded is
\* on the server.
THEOREM LaunchTypes == LaunchSpec => []LaunchTypeOK
<1>1. ASSUME LaunchInvariant PROVE LaunchTypeOK
  <2>1. LaunchShapes /\ JobIsTheClick
    BY <1>1 DEF LaunchInvariant
  <2>2. DOMAIN clicks \subseteq Clicks
    BY <2>1, LaunchAssumption DEF LaunchShapes, Clicks
  <2>3. \A c \in Clicks : (job[c].pc = "uploading") = (job[c].todo # {}) /\ job[c].docs \subseteq documents
    BY <2>1 DEF JobIsTheClick, CallIsTheClick, NoJob
  <2>4. QED
    BY <2>1, <2>2, <2>3 DEF LaunchTypeOK, LaunchShapes, LaunchJobs
<1>2. QED
  BY <1>1, LaunchAlways, PTL

-----------------------------------------------------------------------------
(* What the modal shows: the types.  No list of rules is longer than the   *)
(* number of rules ever created.                                           *)

RuleList(s) == s \in Seq(PolicyRuleRow) /\ Len(s) <= MaxPolicyRules
Checks ==
    [status : {"pending", "running"} \cup CheckOver, read : Seq(PolicyRuleRow), results : Seq(Finding)]
EvidenceShapes ==
    /\ RuleList(rules) /\ RuleList(cachedRules) /\ Len(rules) <= 2 + ruleEdits
    /\ ruleEdits \in 0 .. MaxRuleEdits
    /\ check \in Checks /\ shownCheck \in Checks
    /\ modalOpen \in BOOLEAN /\ zoomed \in BOOLEAN /\ picked \in 0 .. MaxPolicyRules
    /\ zoomed => modalOpen
    /\ ~modalOpen => shownCheck = Unchecked /\ picked = 0

\* A check has no results before it is over, and none of a rule it did not read.
ResultsAreOfTheRead ==
    /\ check.results # <<>> => check.status \in CheckOver
    /\ \A k \in DOMAIN check.results : \E j \in DOMAIN check.read :
          check.read[j].id = check.results[k].of /\ check.read[j].name = check.results[k].name

\* A check that is over changes no more, so the modal has it or an earlier state of it,
\* which has no results.
ShownIsNoOther ==
    IF shownCheck.status \in CheckOver THEN shownCheck = check ELSE shownCheck.results = <<>>

EvidenceInvariant == EvidenceShapes /\ ResultsAreOfTheRead /\ ShownIsNoOther

\* What ResultFor gives is one of the results shown, under the name of the rule.
LEMMA ResultIsOneShown ==
  ASSUME EvidenceInvariant, NEW i \in DOMAIN cachedRules, ResultFor(i) # NoFinding
  PROVE  /\ shownCheck.status \in CheckOver
         /\ \E k \in 1 .. Len(check.results) :
               ResultFor(i) = check.results[k] /\ check.results[k].name = cachedRules[i].name
<1> DEFINE I == {k \in 1 .. Len(ShownResults) : ShownResults[k].name = cachedRules[i].name}
           last == IF I # {} THEN Max(I) ELSE 0
<1>1. ResultFor(i) = IF last = 0 THEN NoFinding ELSE ShownResults[last]
  BY DEF ResultFor, SelectLastInSeq
<1>2. ShownResults \in Seq(Finding) /\ Len(ShownResults) \in Nat
  BY DEF EvidenceInvariant, EvidenceShapes, Checks, ShownResults
<1>3. I # {} /\ last = Max(I)
  BY <1>1
<1>4. I \in SUBSET (0 .. Len(ShownResults))
  BY <1>2
<1> HIDE DEF I
<1>5. last \in I
  BY <1>2, <1>3, <1>4, MaxIsGreatest
<1>6. last \in 1 .. Len(ShownResults) /\ ShownResults[last].name = cachedRules[i].name
  BY <1>5 DEF I
<1>7. shownCheck.status \in CheckOver /\ ShownResults = check.results
  BY <1>2, <1>6 DEF ShownResults, EvidenceInvariant, ShownIsNoOther
<1>8. last # 0
  BY <1>2, <1>6
<1>9. QED
  BY <1>1, <1>6, <1>7, <1>8

LEMMA EvidenceInitially == EvidenceInit => EvidenceInvariant
<1> SUFFICES ASSUME EvidenceInit PROVE EvidenceInvariant
  OBVIOUS
<1>1. PICK names \in [1 .. 2 -> RuleNames] : rules = [i \in 1 .. 2 |-> [id |-> i, name |-> names[i]]]
  BY DEF EvidenceInit
<1>2. \A i \in 1 .. 2 : [id |-> i, name |-> names[i]] \in PolicyRuleRow
  BY EvidenceAssumption DEF PolicyRuleRow
<1>3. rules \in Seq(PolicyRuleRow) /\ Len(rules) = 2
  BY <1>1, <1>2
<1>4. <<>> \in Seq(PolicyRuleRow) /\ <<>> \in Seq(Finding) /\ Len(<<>>) = 0
  OBVIOUS
<1>5. Unchecked \in Checks
  BY <1>4 DEF Unchecked, Checks
<1>6. EvidenceShapes
  <2>1. RuleList(rules) /\ RuleList(cachedRules) /\ Len(rules) <= 2 + ruleEdits
        /\ ruleEdits \in 0 .. MaxRuleEdits /\ picked \in 0 .. MaxPolicyRules
    BY <1>3, <1>4, EvidenceAssumption DEF EvidenceInit, RuleList
  <2>2. check \in Checks /\ shownCheck \in Checks /\ shownCheck = Unchecked /\ picked = 0
    BY <1>5 DEF EvidenceInit
  <2>3. modalOpen \in BOOLEAN /\ zoomed \in BOOLEAN /\ ~zoomed
    BY DEF EvidenceInit
  <2>4. QED
    BY <2>1, <2>2, <2>3 DEF EvidenceShapes
<1>7. ResultsAreOfTheRead /\ ShownIsNoOther
  BY DEF EvidenceInit, ResultsAreOfTheRead, ShownIsNoOther, Unchecked, CheckOver
<1>8. QED
  BY <1>6, <1>7 DEF EvidenceInvariant

\* The edits of the policy keep its list a list of rules.
LEMMA EditStep ==
  ASSUME EvidenceInvariant, NEW i \in 1 .. MaxPolicyRules, NEW n \in RuleNames,
         RemoveRule(i) \/ SwapRules(i) \/ RenameRule(i, n) \/ NewRule(n)
  PROVE  EvidenceInvariant'
<1>a. /\ rules \in Seq(PolicyRuleRow) /\ Len(rules) \in Nat /\ Len(rules) <= MaxPolicyRules
      /\ Len(rules) <= 2 + ruleEdits /\ ruleEdits \in Nat /\ ruleEdits <= MaxRuleEdits
      /\ MaxPolicyRules \in Nat /\ MaxRuleEdits \in Nat
  BY EvidenceAssumption DEF EvidenceInvariant, EvidenceShapes, RuleList
<1>b. \A k \in 1 .. Len(rules) : rules[k] \in PolicyRuleRow
  BY <1>a
<1>1. ASSUME NEW new, EditRules(new), new \in Seq(PolicyRuleRow), Len(new) <= MaxPolicyRules,
             Len(new) <= 2 + ruleEdits + 1
      PROVE  EvidenceInvariant'
  <2>1. EvidenceShapes'
    BY <1>a, <1>1 DEF EditRules, EvidenceInvariant, EvidenceShapes, RuleList
  <2>2. ResultsAreOfTheRead' /\ ShownIsNoOther'
    BY <1>1 DEF EditRules, EvidenceInvariant, ResultsAreOfTheRead, ShownIsNoOther
  <2>3. QED
    BY <2>1, <2>2 DEF EvidenceInvariant
<1>2. CASE RemoveRule(i)
  <2>1. RemoveAt(rules, i) \in Seq(PolicyRuleRow) /\ Len(RemoveAt(rules, i)) = Len(rules) - 1
    BY <1>2, <1>a, RemoveAtIsASeq DEF RemoveRule
  <2>2. QED
    BY <1>1, <1>2, <1>a, <2>1 DEF RemoveRule
<1>3. CASE SwapRules(i)
  <2> DEFINE new == [rules EXCEPT ![i] = rules[i + 1], ![i + 1] = rules[i]]
  <2>1. i \in 1 .. Len(rules) /\ i + 1 \in 1 .. Len(rules)
    BY <1>3, <1>a DEF SwapRules
  <2>2. new \in Seq(PolicyRuleRow) /\ Len(new) = Len(rules)
    BY <1>a, <1>b, <2>1
  <2>3. EditRules(new)
    BY <1>3 DEF SwapRules
  <2> HIDE DEF new
  <2>4. QED
    BY <1>1, <1>a, <2>2, <2>3
<1>4. CASE RenameRule(i, n)
  <2> DEFINE new == [rules EXCEPT ![i].name = n]
  <2>1. i \in 1 .. Len(rules) /\ EditRules(new)
    BY <1>4, <1>a DEF RenameRule
  <2>2. [rules[i] EXCEPT !.name = n] \in PolicyRuleRow
    BY <1>b, <2>1 DEF PolicyRuleRow
  <2>3. new = [rules EXCEPT ![i] = [rules[i] EXCEPT !.name = n]]
    BY <1>a, <2>1
  <2>4. new \in Seq(PolicyRuleRow) /\ Len(new) = Len(rules)
    BY <1>a, <2>1, <2>2, <2>3
  <2> HIDE DEF new
  <2>5. QED
    BY <1>1, <1>a, <2>1, <2>4
<1>5. CASE NewRule(n)
  <2> DEFINE row == [id |-> 3 + ruleEdits, name |-> n]
  <2>1. row \in PolicyRuleRow /\ 3 + ruleEdits <= MaxPolicyRules
    BY <1>5, <1>a DEF NewRule, PolicyRuleRow
  <2>2. Append(rules, row) \in Seq(PolicyRuleRow) /\ Len(Append(rules, row)) = Len(rules) + 1
    BY <1>a, <2>1
  <2>3. EditRules(Append(rules, row))
    BY <1>5 DEF NewRule
  <2>4. Len(rules) + 1 <= MaxPolicyRules /\ Len(rules) + 1 <= 2 + ruleEdits + 1
    BY <1>a, <2>1
  <2> HIDE DEF row
  <2>5. QED
    BY <1>1, <2>2, <2>3, <2>4
<1>6. QED
  BY <1>2, <1>3, <1>4, <1>5

\* The results that come out of a check are of the rules it read.
LEMMA ResultsKeepTheRules ==
  ASSUME NEW read \in Seq(PolicyRuleRow), NEW out \in ResultsOf(read)
  PROVE  /\ out \in Seq(Finding)
         /\ \A k \in DOMAIN out : \E j \in DOMAIN read :
               read[j].id = out[k].of /\ read[j].name = out[k].name
<1>1. PICK kept \in {read} \cup {RemoveAt(read, i) : i \in DOMAIN read} :
        \E v \in [DOMAIN kept -> Verdicts] :
          out = [k \in DOMAIN kept |-> [of |-> kept[k].id, name |-> kept[k].name, verdict |-> v[k]]]
  BY DEF ResultsOf
<1>2. PICK v \in [DOMAIN kept -> Verdicts] :
        out = [k \in DOMAIN kept |-> [of |-> kept[k].id, name |-> kept[k].name, verdict |-> v[k]]]
  BY <1>1
<1>3. /\ kept \in Seq(PolicyRuleRow)
      /\ \A k \in 1 .. Len(kept) : \E j \in DOMAIN read : kept[k] = read[j]
  <2>1. CASE kept = read
    BY <2>1
  <2>2. CASE \E i \in DOMAIN read : kept = RemoveAt(read, i)
    <3>1. PICK i \in 1 .. Len(read) : kept = RemoveAt(read, i)
      BY <2>2
    <3>2. /\ kept \in Seq(PolicyRuleRow) /\ Len(kept) = Len(read) - 1
          /\ \A k \in 1 .. Len(read) - 1 : kept[k] = IF k < i THEN read[k] ELSE read[k + 1]
      BY <3>1, RemoveAtIsASeq
    <3>3. \A k \in 1 .. Len(read) - 1 : k \in DOMAIN read /\ k + 1 \in DOMAIN read
      OBVIOUS
    <3>4. QED
      BY <3>2, <3>3
  <2>3. QED
    BY <1>1, <2>1, <2>2
<1>4. DOMAIN kept = 1 .. Len(kept) /\ Len(kept) \in Nat /\ \A k \in 1 .. Len(kept) : kept[k] \in PolicyRuleRow
  BY <1>3
<1>5. \A k \in 1 .. Len(kept) : [of |-> kept[k].id, name |-> kept[k].name, verdict |-> v[k]] \in Finding
  BY <1>4 DEF PolicyRuleRow, Finding
<1>6. out \in Seq(Finding) /\ DOMAIN out = 1 .. Len(kept)
  BY <1>2, <1>4, <1>5
<1>7. \A k \in 1 .. Len(kept) : out[k].of = kept[k].id /\ out[k].name = kept[k].name
  BY <1>2, <1>4
<1>8. QED
  BY <1>3, <1>6, <1>7

LEMMA CheckStep ==
  ASSUME EvidenceInvariant, CheckStarts \/ CheckEnds
  PROVE  EvidenceInvariant'
<1>a. EvidenceShapes /\ ResultsAreOfTheRead /\ ShownIsNoOther
  BY DEF EvidenceInvariant
<1>b. /\ check \in Checks /\ check.status \notin CheckOver /\ check.results = <<>>
      /\ UNCHANGED <<rules, ruleEdits, cachedRules, shownCheck, modalOpen, picked, zoomed>>
  BY <1>a DEF CheckStarts, CheckEnds, EvidenceShapes, ResultsAreOfTheRead, CheckOver
<1>c. ShownIsNoOther'
  BY <1>a, <1>b DEF ShownIsNoOther
<1>1. ASSUME check' \in Checks, ResultsAreOfTheRead' PROVE EvidenceInvariant'
  BY <1>a, <1>b, <1>c, <1>1 DEF EvidenceInvariant, EvidenceShapes, RuleList
<1>2. CASE CheckStarts
  <2>1. check' \in Checks /\ check'.results = <<>>
    BY <1>2, <1>a, <1>b DEF CheckStarts, Checks, EvidenceShapes, RuleList
  <2>2. QED
    BY <1>1, <2>1 DEF ResultsAreOfTheRead
<1>3. CASE CheckEnds
  <2>1. CASE check' = [check EXCEPT !.status = "failed"]
    <3>1. check' \in Checks /\ check'.results = <<>>
      BY <1>b, <2>1 DEF Checks, CheckOver
    <3>2. QED
      BY <1>1, <3>1 DEF ResultsAreOfTheRead
  <2>2. ASSUME NEW out \in ResultsOf(check.read), NEW s \in CheckOver,
               check' = [check EXCEPT !.status = s, !.results = out]
        PROVE  EvidenceInvariant'
    <3>1. check.read \in Seq(PolicyRuleRow)
      BY <1>b DEF Checks
    <3>2. /\ out \in Seq(Finding)
          /\ \A k \in DOMAIN out : \E j \in DOMAIN check.read :
                check.read[j].id = out[k].of /\ check.read[j].name = out[k].name
      BY <3>1, ResultsKeepTheRules
    <3>3. check' \in Checks /\ check'.status = s /\ check'.results = out /\ check'.read = check.read
      BY <1>b, <2>2, <3>2 DEF Checks
    <3>4. QED
      BY <1>1, <3>2, <3>3 DEF ResultsAreOfTheRead
  <2>3. QED
    BY <1>3, <2>1, <2>2 DEF CheckEnds
<1>4. QED
  BY <1>2, <1>3

LEMMA ModalStep ==
  ASSUME EvidenceInvariant,
         \/ \E i \in 1 .. MaxPolicyRules : PickRule(i)
         \/ OpenDetail \/ UpdateArrives \/ RulesLand \/ Arrow \/ CloseDetail
         \/ OpenLightbox \/ CloseLightbox \/ UNCHANGED evidenceVars
  PROVE  EvidenceInvariant'
<1>a. EvidenceShapes /\ ResultsAreOfTheRead /\ ShownIsNoOther
  BY DEF EvidenceInvariant
<1>b. UNCHANGED <<rules, ruleEdits, check>>
  BY DEF PickRule, OpenDetail, UpdateArrives, RulesLand, Arrow, CloseDetail, OpenLightbox, CloseLightbox,
     evidenceVars
<1>c. shownCheck' \in {shownCheck, check, Unchecked}
  BY DEF PickRule, OpenDetail, UpdateArrives, RulesLand, Arrow, CloseDetail, OpenLightbox, CloseLightbox,
     evidenceVars
<1>d. cachedRules' = cachedRules \/ cachedRules' = rules
  BY DEF PickRule, OpenDetail, UpdateArrives, RulesLand, Arrow, CloseDetail, OpenLightbox, CloseLightbox,
     evidenceVars
<1>e. ResultsAreOfTheRead'
  BY <1>a, <1>b DEF ResultsAreOfTheRead
<1>f. ShownIsNoOther'
  <2>1. Unchecked.status \notin CheckOver /\ Unchecked.results = <<>>
    BY DEF Unchecked, CheckOver
  <2>2. check.status \in CheckOver \/ check.results = <<>>
    BY <1>a DEF ResultsAreOfTheRead
  <2>3. QED
    BY <1>a, <1>b, <1>c, <2>1, <2>2 DEF ShownIsNoOther
<1>g. Unchecked \in Checks
  <2>1. <<>> \in Seq(PolicyRuleRow) /\ <<>> \in Seq(Finding)
    OBVIOUS
  <2>2. QED
    BY <2>1 DEF Unchecked, Checks
<1>h. /\ RuleList(rules') /\ RuleList(cachedRules') /\ Len(rules') <= 2 + ruleEdits'
      /\ ruleEdits' \in 0 .. MaxRuleEdits /\ check' \in Checks /\ shownCheck' \in Checks
  BY <1>a, <1>b, <1>c, <1>d, <1>g DEF EvidenceShapes
<1>i. picked' \in 0 .. MaxPolicyRules
  <2>1. Len(cachedRules) \in Nat /\ Len(cachedRules) <= MaxPolicyRules /\ picked \in 0 .. MaxPolicyRules
        /\ MaxPolicyRules \in Nat /\ MaxPolicyRules >= 2
    BY <1>a, EvidenceAssumption DEF EvidenceShapes, RuleList
  <2>2. Below(picked) \in 0 .. MaxPolicyRules /\ Above(picked) \in 0 .. MaxPolicyRules
    BY <2>1 DEF Below, Above
  <2>3. picked' \in {picked, 0, Below(picked), Above(picked)} \/ \E i \in 1 .. MaxPolicyRules : picked' = i
    BY DEF PickRule, OpenDetail, UpdateArrives, RulesLand, Arrow, CloseDetail, OpenLightbox, CloseLightbox,
       evidenceVars
  <2>4. QED
    BY <2>1, <2>2, <2>3
<1>j. /\ modalOpen' \in BOOLEAN /\ zoomed' \in BOOLEAN /\ (zoomed' => modalOpen')
      /\ ~modalOpen' => shownCheck' = Unchecked /\ picked' = 0
  <2>1. /\ modalOpen \in BOOLEAN /\ zoomed \in BOOLEAN /\ (zoomed => modalOpen)
        /\ ~modalOpen => shownCheck = Unchecked /\ picked = 0
    BY <1>a DEF EvidenceShapes
  <2>2. CASE UNCHANGED <<modalOpen, zoomed>> /\ (modalOpen \/ UNCHANGED <<shownCheck, picked>>)
    BY <2>1, <2>2
  <2>3. CASE OpenDetail
    BY <2>1, <2>3 DEF OpenDetail
  <2>4. CASE CloseDetail
    BY <2>1, <2>4 DEF CloseDetail
  <2>5. CASE OpenLightbox \/ CloseLightbox
    BY <2>1, <2>5 DEF OpenLightbox, CloseLightbox
  <2>6. CASE \/ \E i \in 1 .. MaxPolicyRules : PickRule(i)
             \/ UpdateArrives \/ RulesLand \/ Arrow \/ UNCHANGED evidenceVars
    BY <2>2, <2>6 DEF PickRule, UpdateArrives, RulesLand, Arrow, evidenceVars
  <2>7. QED
    BY <2>3, <2>4, <2>5, <2>6
<1>k. EvidenceShapes'
  BY <1>h, <1>i, <1>j DEF EvidenceShapes, RuleList
<1>l. QED
  BY <1>e, <1>f, <1>k DEF EvidenceInvariant

LEMMA EvidenceAlways == EvidenceSpec => []EvidenceInvariant
<1>1. EvidenceInit => EvidenceInvariant
  BY EvidenceInitially
<1>2. EvidenceInvariant /\ [EvidenceNext]_evidenceVars => EvidenceInvariant'
  <2> SUFFICES ASSUME EvidenceInvariant, [EvidenceNext]_evidenceVars PROVE EvidenceInvariant'
    OBVIOUS
  <2>1. ASSUME NEW i \in 1 .. MaxPolicyRules, RemoveRule(i) \/ SwapRules(i) PROVE EvidenceInvariant'
    <3>1. RuleNames # {}
      <4>1. rules # <<>>
        BY <2>1, EvidenceAssumption DEF EvidenceInvariant, EvidenceShapes, RuleList, RemoveRule, SwapRules
      <4>2. rules \in Seq(PolicyRuleRow) /\ Len(rules) \in Nat \ {0}
        BY <4>1 DEF EvidenceInvariant, EvidenceShapes, RuleList
      <4>3. rules[1] \in PolicyRuleRow
        BY <4>2
      <4>4. QED
        BY <4>3 DEF PolicyRuleRow
    <3>2. QED
      BY <2>1, <3>1, EditStep
  <2>2. ASSUME NEW n \in RuleNames, NewRule(n) PROVE EvidenceInvariant'
    BY <2>2, EditStep, EvidenceAssumption
  <2>3. QED
    BY <2>1, <2>2, EditStep, CheckStep, ModalStep DEF EvidenceNext
<1>3. QED
  BY <1>1, <1>2, PTL DEF EvidenceSpec

\* A rule that the check read under the name it is shown with, and as the only one of
\* that name, is shown with its own result or with none, however the policy was edited and
\* reordered and whenever its rules and the step reach the page; a row has a verdict only
\* of a check that is over, and the panel has the evidence for it.  Of a rule that was
\* renamed or added since the check this says nothing: it is shown with the result of
\* the rule whose name it took.
THEOREM EvidenceIsItsRules == EvidenceSpec => []EvidenceIsOfTheRule
<1>1. ASSUME EvidenceInvariant, NEW i \in DOMAIN cachedRules
      PROVE  LET r == cachedRules[i] IN
             /\ ResultFor(i) # NoFinding /\ CheckedAs(r) /\ OnlyOneNamed(r.name) => ResultFor(i).of = r.id
             /\ RowStatus(i) \in Verdicts =>
                   /\ check.status \in CheckOver /\ Contains(check.results, ResultFor(i))
                   /\ picked = i => Panel = "evidence"
  <2> DEFINE r == cachedRules[i]
  <2>1. ASSUME ResultFor(i) # NoFinding, CheckedAs(r), OnlyOneNamed(r.name)
        PROVE  ResultFor(i).of = r.id
    <3>1. PICK k \in 1 .. Len(check.results) :
            ResultFor(i) = check.results[k] /\ check.results[k].name = r.name
      BY <1>1, <2>1, ResultIsOneShown
    <3>2. DOMAIN check.results = 1 .. Len(check.results)
      BY <1>1 DEF EvidenceInvariant, EvidenceShapes, Checks
    <3>3. PICK j \in DOMAIN check.read :
            check.read[j].id = check.results[k].of /\ check.read[j].name = r.name
      BY <1>1, <3>1, <3>2 DEF EvidenceInvariant, ResultsAreOfTheRead
    <3>4. PICK l \in DOMAIN check.read : check.read[l] = r
      BY <2>1 DEF CheckedAs
    <3>5. j = l
      BY <2>1, <3>3, <3>4 DEF OnlyOneNamed
    <3>6. QED
      BY <3>1, <3>3, <3>4, <3>5
  <2>2. ASSUME RowStatus(i) \in Verdicts
        PROVE  /\ check.status \in CheckOver /\ Contains(check.results, ResultFor(i))
               /\ picked = i => Panel = "evidence"
    <3>1. shownCheck.status # "running" /\ ResultFor(i) # NoFinding
      BY <2>2, EvidenceAssumption DEF RowStatus
    <3>2. PICK k \in 1 .. Len(check.results) : ResultFor(i) = check.results[k]
      BY <1>1, <3>1, ResultIsOneShown
    <3>3. shownCheck = check /\ shownCheck.status \in CheckOver
      BY <1>1, <3>1, ResultIsOneShown DEF EvidenceInvariant, ShownIsNoOther
    <3>4. picked = i => Panel = "evidence"
      BY <1>1, <3>1 DEF Panel
    <3>5. QED
      BY <3>2, <3>3, <3>4 DEF Contains
  <2>3. QED
    BY <2>1, <2>2
<1>2. EvidenceInvariant => EvidenceIsOfTheRule
  BY <1>1 DEF EvidenceIsOfTheRule
<1>3. QED
  BY <1>2, EvidenceAlways, PTL

\* Every variable of the policy, its check and the modal has its type: a check has results
\* only when it is over, and a modal that is closed holds nothing.
THEOREM EvidenceTypes == EvidenceSpec => []EvidenceTypeOK
<1>1. ASSUME EvidenceInvariant PROVE EvidenceTypeOK
  <2>1. EvidenceShapes /\ ResultsAreOfTheRead /\ ShownIsNoOther
    BY <1>1 DEF EvidenceInvariant
  <2>2. \A c \in {check, shownCheck} :
           /\ c.status \in {"pending", "running"} \cup CheckOver
           /\ c.read \in Seq(PolicyRuleRow) /\ c.results \in Seq(Finding)
           /\ c.results # <<>> => c.status \in CheckOver
    BY <2>1 DEF EvidenceShapes, Checks, ResultsAreOfTheRead, ShownIsNoOther
  <2>3. QED
    BY <2>1, <2>2 DEF EvidenceTypeOK, EvidenceShapes, RuleList
<1>2. QED
  BY <1>1, EvidenceAlways, PTL

-----------------------------------------------------------------------------
(* The library.                                                            *)

IsUpload(c) == c.op = "upload"
IsRemove(c) == c.op = "remove"

\* Every value is of its kind.
LibraryShapes ==
  /\ docType \in [there : BOOLEAN, text : Field, ruled : BOOLEAN]
  /\ field \in [Curators -> [text : Field, dirty : BOOLEAN]]
  /\ saving \in [Curators -> BOOLEAN]
  /\ drops \in 0 .. MaxDrops /\ dropped \in [Drop -> 0 .. MaxSamples]
  /\ pending \subseteq LibraryCalls
  /\ uploads \in 0 .. MaxSamples /\ saves \in 0 .. MaxSaves /\ crashes \in 0 .. MaxCrashes

\* Only samples that were uploaded have rows or files, and a type that is gone has none.
SamplesWereUploaded ==
  /\ samples \subseteq 1 .. uploads /\ images \subseteq 1 .. uploads /\ halfGone \subseteq 1 .. uploads
  /\ docType.ruled => docType.there
  /\ ~docType.there => samples = {}

\* Each upload has a number of its own, that of no row, and each loop has one at most.
UploadsApart ==
  /\ \A c \in pending : IsUpload(c) =>
        /\ c.id \in 1 .. uploads /\ c.id \notin samples \cup halfGone /\ dropped[c.by] > 0
        /\ c.pc = "written" => c.id \in images
  /\ \A c, d \in pending : IsUpload(c) /\ IsUpload(d) /\ (c.id = d.id \/ c.by = d.by) => c = d

\* A deletion is of a sample that had its row, so of none that is being uploaded.
RemovalsApart ==
  \A c \in pending : IsRemove(c) =>
    /\ c.id \in 1 .. uploads
    /\ \A d \in pending : IsUpload(d) => d.id # c.id

LibraryInvariant == LibraryShapes /\ SamplesWereUploaded /\ UploadsApart /\ RemovalsApart /\ PictureHasItsFile

\* A call that moves on stays the call it is.
LEMMA MovedCall ==
  ASSUME NEW c \in LibraryCalls, NEW pc,
         \/ c.op = "upload" /\ pc = "written"
         \/ c.op = "remove" /\ pc \in {"read", "removed"}
         \/ c.op = "save" /\ pc = "done"
  PROVE  /\ [c EXCEPT !.pc = pc] \in LibraryCalls
         /\ [c EXCEPT !.pc = pc].op = c.op /\ [c EXCEPT !.pc = pc].by = c.by
         /\ [c EXCEPT !.pc = pc].id = c.id /\ [c EXCEPT !.pc = pc].pc = pc
BY DEF LibraryCalls

\* The bounds of the library.
LEMMA LibraryBounds == MaxDrops \in Nat /\ MaxSamples \in Nat /\ MaxSaves \in Nat /\ MaxCrashes \in Nat
BY LibraryAssumption

\* At the start nothing was uploaded.
LEMMA LibraryStarts == ASSUME LibraryInit PROVE LibraryInvariant
<1>1. \E t \in Field, r \in BOOLEAN : docType = [there |-> TRUE, text |-> t, ruled |-> r]
  BY DEF LibraryInit
<1>2. docType \in [there : BOOLEAN, text : Field, ruled : BOOLEAN] /\ docType.there /\ docType.text \in Field
  BY <1>1
<1>3. 0 \in 0 .. MaxDrops /\ 0 \in 0 .. MaxSamples /\ 0 \in 0 .. MaxSaves /\ 0 \in 0 .. MaxCrashes
  BY LibraryBounds
<1>4. LibraryShapes
  BY <1>2, <1>3 DEF LibraryInit, LibraryShapes
<1>5. QED
  BY <1>2, <1>4 DEF LibraryInit, LibraryInvariant, SamplesWereUploaded, UploadsApart, RemovalsApart, PictureHasItsFile

\* The text and the marks of the form leave the samples alone.
LEMMA TextSteps ==
  ASSUME LibraryInvariant, TextNext
  PROVE  LibraryInvariant'
<1> USE DEF LibraryInvariant
<1>1. ASSUME NEW u \in Curators, NEW t \in Field, TypeText(u, t) PROVE LibraryInvariant'
  BY <1>1 DEF TypeText, LibraryShapes, SamplesWereUploaded, UploadsApart, RemovalsApart, PictureHasItsFile
<1>2. ASSUME NEW u \in Curators, ClickSave(u) PROVE LibraryInvariant'
  <2> DEFINE new == [op |-> "save", by |-> u, id |-> saves + 1, text |-> field[u].text, pc |-> "sent"]
  <2>1. new \in LibraryCalls /\ new.op = "save"
    BY <1>2, LibraryBounds DEF ClickSave, LibraryShapes, LibraryCalls
  <2> HIDE DEF new
  <2>2. pending' = pending \cup {new}
    BY <1>2 DEF ClickSave, new
  <2>3. LibraryShapes'
    BY <1>2, <2>1, <2>2, LibraryBounds DEF ClickSave, LibraryShapes
  <2>4. SamplesWereUploaded' /\ PictureHasItsFile'
    BY <1>2 DEF ClickSave, SamplesWereUploaded, PictureHasItsFile
  <2>5. UploadsApart' /\ RemovalsApart'
    BY <1>2, <2>1, <2>2 DEF ClickSave, UploadsApart, RemovalsApart, IsUpload, IsRemove
  <2>6. QED
    BY <2>3, <2>4, <2>5
<1>3. ASSUME NEW c \in pending, UpdateType(c) PROVE LibraryInvariant'
  <2> DEFINE moved == [c EXCEPT !.pc = "done"]
  <2>0. c \in LibraryCalls /\ c.op = "save"
    BY <1>3 DEF UpdateType, LibraryShapes
  <2>1. moved \in LibraryCalls /\ moved.op = "save" /\ c \in LibraryCalls /\ c.op = "save"
    BY <2>0, MovedCall
  <2>2. c.text \in Field
    BY <2>1 DEF LibraryCalls
  <2>3. pending' = (pending \ {c}) \cup {moved}
    BY <1>3 DEF UpdateType, Becomes
  <2> HIDE DEF moved
  <2>4. LibraryShapes'
    BY <1>3, <2>1, <2>2, <2>3 DEF UpdateType, LibraryShapes
  <2>5. SamplesWereUploaded' /\ PictureHasItsFile'
    BY <1>3 DEF UpdateType, SamplesWereUploaded, PictureHasItsFile, LibraryShapes
  <2>6. UploadsApart' /\ RemovalsApart'
    BY <1>3, <2>1, <2>3 DEF UpdateType, UploadsApart, RemovalsApart, IsUpload, IsRemove
  <2>7. QED
    BY <2>4, <2>5, <2>6
<1>4. ASSUME NEW c \in pending, SaveAnswered(c) PROVE LibraryInvariant'
  <2>1. LibraryShapes'
    BY <1>4 DEF SaveAnswered, LibraryShapes
  <2>2. QED
    BY <1>4, <2>1 DEF SaveAnswered, SamplesWereUploaded, UploadsApart, RemovalsApart, PictureHasItsFile, IsUpload, IsRemove
<1>5. QED
  BY <1>1, <1>2, <1>3, <1>4 DEF TextNext

\* The samples: an upload adds its file before its row, a deletion takes the file of a
\* sample no upload is about to add.
LEMMA SampleSteps ==
  ASSUME LibraryInvariant, SampleNext
  PROVE  LibraryInvariant'
<1> USE DEF LibraryInvariant
<1>1. ASSUME NEW n \in 1 .. 2, DropFiles(n) PROVE LibraryInvariant'
  <2>1. /\ drops \in Nat /\ MaxDrops \in Nat /\ drops + 1 \in Drop /\ drops' = drops + 1 /\ drops' \in 0 .. MaxDrops
        /\ n \in 0 .. MaxSamples /\ n > 0 /\ dropped' = [dropped EXCEPT ![drops + 1] = n]
    BY <1>1, LibraryBounds DEF DropFiles, LibraryShapes, Drop
  <2>2. LibraryShapes'
    BY <1>1, <2>1 DEF DropFiles, LibraryShapes
  <2>3. \A c \in pending : IsUpload(c) => dropped'[c.by] > 0
    <3>1. \A c \in pending : IsUpload(c) => c.by \in Drop /\ dropped[c.by] > 0
      BY DEF LibraryShapes, UploadsApart, LibraryCalls, IsUpload
    <3>2. QED
      BY <2>1, <3>1 DEF LibraryShapes
  <2>4. UploadsApart'
    BY <1>1, <2>3 DEF DropFiles, UploadsApart, IsUpload
  <2>5. QED
    BY <1>1, <2>2, <2>4 DEF DropFiles, SamplesWereUploaded, RemovalsApart, PictureHasItsFile
<1>2. ASSUME NEW d \in Drop, UploadChecked(d) PROVE LibraryInvariant'
  <2> DEFINE new == [op |-> "upload", by |-> d, id |-> uploads + 1, pc |-> "checked"]
  <2>1. /\ uploads \in Nat /\ MaxSamples \in Nat /\ uploads + 1 \in 1 .. MaxSamples /\ uploads' = uploads + 1
        /\ uploads + 1 \notin 1 .. uploads /\ 1 .. uploads \subseteq 1 .. uploads' /\ uploads + 1 \in 1 .. uploads'
    BY <1>2, LibraryBounds DEF UploadChecked, LibraryShapes
  <2>2. new \in LibraryCalls /\ new.op = "upload" /\ new.by = d /\ new.id = uploads + 1 /\ new.pc = "checked"
    BY <2>1 DEF LibraryCalls, Sample
  <2> HIDE DEF new
  <2>3. pending' = pending \cup {new}
    BY <1>2 DEF UploadChecked, new
  <2>4. LibraryShapes'
    BY <1>2, <2>1, <2>2, <2>3 DEF UploadChecked, LibraryShapes
  <2>5. SamplesWereUploaded' /\ PictureHasItsFile'
    BY <1>2, <2>1 DEF UploadChecked, SamplesWereUploaded, PictureHasItsFile
  <2>6. \A c \in pending : IsUpload(c) => c.by # d /\ c.id \in 1 .. uploads
    BY <1>2 DEF UploadChecked, UploadsApart, IsUpload
  <2>7. UploadsApart'
    <3>1. uploads + 1 \notin samples \cup halfGone /\ dropped[d] > 0
      BY <1>2, <2>1 DEF UploadChecked, SamplesWereUploaded
    <3>2. QED
      BY <1>2, <2>1, <2>2, <2>3, <2>6, <3>1 DEF UploadChecked, UploadsApart, IsUpload
  <2>8. RemovalsApart'
    BY <1>2, <2>1, <2>2, <2>3 DEF UploadChecked, RemovalsApart, IsUpload, IsRemove
  <2>9. QED
    BY <2>4, <2>5, <2>7, <2>8
<1>3. ASSUME NEW c \in pending, UploadWritten(c) PROVE LibraryInvariant'
  <2> DEFINE moved == [c EXCEPT !.pc = "written"]
  <2>1. /\ c.op = "upload" /\ moved \in LibraryCalls /\ moved.op = "upload"
        /\ moved.by = c.by /\ moved.id = c.id /\ moved.pc = "written"
    BY <1>3, MovedCall DEF UploadWritten, LibraryShapes
  <2>2. pending' = (pending \ {c}) \cup {moved} /\ images' = images \cup {c.id}
    BY <1>3 DEF UploadWritten, Becomes, FileOf
  <2> HIDE DEF moved
  <2>3. LibraryShapes' /\ SamplesWereUploaded' /\ PictureHasItsFile'
    BY <1>3, <2>1, <2>2 DEF UploadWritten, LibraryShapes, SamplesWereUploaded, PictureHasItsFile, UploadsApart, IsUpload
  <2>4. UploadsApart'
    BY <1>3, <2>1, <2>2 DEF UploadWritten, UploadsApart, IsUpload
  <2>5. RemovalsApart'
    BY <1>3, <2>1, <2>2 DEF UploadWritten, RemovalsApart, IsUpload, IsRemove
  <2>6. QED
    BY <2>3, <2>4, <2>5
<1>4. ASSUME NEW c \in pending, UploadAdded(c) PROVE LibraryInvariant'
  <2>1. c.op = "upload" /\ c.by \in Drop /\ c.id \in images /\ c.id \in 1 .. uploads /\ dropped[c.by] > 0
    BY <1>4 DEF UploadAdded, LibraryShapes, UploadsApart, IsUpload, LibraryCalls
  <2>2. dropped[c.by] - 1 \in 0 .. MaxSamples
    BY <2>1, LibraryBounds DEF LibraryShapes
  <2>3. LibraryShapes'
    BY <1>4, <2>1, <2>2 DEF UploadAdded, LibraryShapes
  <2>4. SamplesWereUploaded' /\ PictureHasItsFile'
    BY <1>4, <2>1 DEF UploadAdded, SamplesWereUploaded, PictureHasItsFile
  <2>5. \A d \in pending' : IsUpload(d) => d \in pending /\ d.id # c.id /\ d.by # c.by
    BY <1>4, <2>1 DEF UploadAdded, UploadsApart, IsUpload
  <2>6. \A d \in pending' : IsUpload(d) => dropped'[d.by] = dropped[d.by]
    BY <1>4, <2>5 DEF UploadAdded, LibraryShapes, IsUpload, LibraryCalls
  <2>7. UploadsApart'
    BY <1>4, <2>5, <2>6 DEF UploadAdded, UploadsApart, IsUpload
  <2>8. RemovalsApart'
    BY <1>4 DEF UploadAdded, RemovalsApart, IsUpload, IsRemove
  <2>9. QED
    BY <2>3, <2>4, <2>7, <2>8
<1>5. ASSUME NEW d \in Drop, UploadRefused(d) PROVE LibraryInvariant'
  <2>1. 0 \in 0 .. MaxSamples /\ pending' \subseteq pending
    BY <1>5, LibraryBounds DEF UploadRefused
  <2>2. LibraryShapes'
    BY <1>5, <2>1 DEF UploadRefused, LibraryShapes
  <2>3. \A c \in pending' : IsUpload(c) => c \in pending /\ c.by # d
    BY <1>5 DEF UploadRefused, IsUpload
  <2>4. \A c \in pending' : IsUpload(c) => dropped'[c.by] = dropped[c.by]
    BY <1>5, <2>3 DEF UploadRefused, LibraryShapes, IsUpload, LibraryCalls
  <2>5. UploadsApart'
    BY <1>5, <2>3, <2>4 DEF UploadRefused, UploadsApart, IsUpload
  <2>6. QED
    BY <1>5, <2>1, <2>2, <2>5 DEF UploadRefused, SamplesWereUploaded, RemovalsApart, PictureHasItsFile
<1>6. ASSUME NEW u \in Curators, NEW s \in 1 .. uploads, ClickRemove(u, s) PROVE LibraryInvariant'
  <2> DEFINE new == [op |-> "remove", by |-> u, id |-> s, pc |-> "sent"]
  <2>1. s \in Sample
    BY LibraryBounds DEF LibraryShapes, Sample
  <2>2. new \in LibraryCalls /\ new.op = "remove" /\ new.id = s
    BY <2>1 DEF LibraryCalls
  <2> HIDE DEF new
  <2>3. pending' = pending \cup {new} /\ s \in samples
    BY <1>6 DEF ClickRemove, new
  <2>4. LibraryShapes' /\ SamplesWereUploaded' /\ PictureHasItsFile'
    BY <1>6, <2>2, <2>3 DEF ClickRemove, LibraryShapes, SamplesWereUploaded, PictureHasItsFile
  <2>5. UploadsApart'
    BY <1>6, <2>2, <2>3 DEF ClickRemove, UploadsApart, IsUpload
  <2>6. RemovalsApart'
    BY <1>6, <2>2, <2>3 DEF ClickRemove, UploadsApart, RemovalsApart, IsUpload, IsRemove
  <2>7. QED
    BY <2>4, <2>5, <2>6
<1>7. ASSUME NEW c \in pending, SampleRead(c) PROVE LibraryInvariant'
  <2> DEFINE moved == [c EXCEPT !.pc = "read"]
  <2>1. c.op = "remove" /\ moved \in LibraryCalls /\ moved.op = "remove" /\ moved.id = c.id
    BY <1>7, MovedCall DEF SampleRead, LibraryShapes
  <2>2. pending' = (pending \ {c}) \cup {moved}
    BY <1>7 DEF SampleRead, Becomes
  <2> HIDE DEF moved
  <2>3. LibraryShapes' /\ SamplesWereUploaded' /\ PictureHasItsFile'
    BY <1>7, <2>1, <2>2 DEF SampleRead, LibraryShapes, SamplesWereUploaded, PictureHasItsFile
  <2>4. UploadsApart' /\ RemovalsApart'
    BY <1>7, <2>1, <2>2 DEF SampleRead, UploadsApart, RemovalsApart, IsUpload, IsRemove
  <2>5. QED
    BY <2>3, <2>4
<1>8. ASSUME NEW c \in pending, FileRemoved(c) PROVE LibraryInvariant'
  <2> DEFINE moved == [c EXCEPT !.pc = "removed"]
  <2>1. c.op = "remove" /\ moved \in LibraryCalls /\ moved.op = "remove" /\ moved.id = c.id
    BY <1>8, MovedCall DEF FileRemoved, LibraryShapes
  <2>2. /\ pending' = (pending \ {c}) \cup {moved}
        /\ images' = images \ {c.id} /\ halfGone' = halfGone \cup {c.id}
    BY <1>8 DEF FileRemoved, Becomes
  <2> HIDE DEF moved
  <2>3. c.id \in 1 .. uploads /\ \A d \in pending : IsUpload(d) => d.id # c.id
    BY <2>1 DEF RemovalsApart, IsRemove
  <2>4. LibraryShapes' /\ SamplesWereUploaded' /\ PictureHasItsFile'
    BY <1>8, <2>1, <2>2, <2>3 DEF FileRemoved, LibraryShapes, SamplesWereUploaded, PictureHasItsFile
  <2>5. UploadsApart'
    BY <1>8, <2>1, <2>2, <2>3 DEF FileRemoved, UploadsApart, IsUpload
  <2>6. RemovalsApart'
    BY <1>8, <2>1, <2>2 DEF FileRemoved, RemovalsApart, IsUpload, IsRemove
  <2>7. QED
    BY <2>4, <2>5, <2>6
<1>9. ASSUME NEW c \in pending, RowRemoved(c) PROVE LibraryInvariant'
  <2>1. LibraryShapes' /\ SamplesWereUploaded' /\ PictureHasItsFile'
    BY <1>9 DEF RowRemoved, LibraryShapes, SamplesWereUploaded, PictureHasItsFile
  <2>2. UploadsApart' /\ RemovalsApart'
    BY <1>9 DEF RowRemoved, UploadsApart, RemovalsApart, IsUpload, IsRemove
  <2>3. QED
    BY <2>1, <2>2
<1>10. QED
  BY <1>1, <1>2, <1>3, <1>4, <1>5, <1>6, <1>7, <1>8, <1>9 DEF SampleNext

\* The type is deleted, the process goes down, a call is refused.
LEMMA LibraryEventSteps ==
  ASSUME LibraryInvariant, LibraryEvents
  PROVE  LibraryInvariant'
<1> USE DEF LibraryInvariant
<1>1. ASSUME DropType PROVE LibraryInvariant'
  BY <1>1 DEF DropType, LibraryShapes, SamplesWereUploaded, UploadsApart, RemovalsApart, PictureHasItsFile, IsUpload, IsRemove
<1>2. ASSUME Crash PROVE LibraryInvariant'
  <2>1. 0 \in 0 .. MaxSamples /\ crashes' \in 0 .. MaxCrashes
    BY <1>2, LibraryBounds DEF Crash, LibraryShapes
  <2>2. dropped' \in [Drop -> 0 .. MaxSamples]
    BY <1>2, <2>1 DEF Crash, LibraryShapes
  <2>3. LibraryShapes'
    BY <1>2, <2>1, <2>2 DEF Crash, LibraryShapes
  <2>4. QED
    BY <1>2, <2>3 DEF Crash, SamplesWereUploaded, UploadsApart, RemovalsApart, PictureHasItsFile
<1>3. ASSUME NEW c \in pending, CallRefused(c) PROVE LibraryInvariant'
  <2>1. pending' \subseteq pending
    BY <1>3 DEF CallRefused
  <2>2. QED
    BY <1>3, <2>1 DEF CallRefused, LibraryShapes, SamplesWereUploaded, UploadsApart, RemovalsApart, PictureHasItsFile
<1>4. QED
  BY <1>1, <1>2, <1>3 DEF LibraryEvents

\* The invariant of the library holds.
LEMMA LibraryInvariantHolds == LibrarySpec => []LibraryInvariant
<1>1. LibraryInit => LibraryInvariant
  BY LibraryStarts
<1>2. LibraryInvariant /\ [LibraryNext]_libraryVars => LibraryInvariant'
  <2>1. ASSUME LibraryInvariant, UNCHANGED libraryVars PROVE LibraryInvariant'
    BY <2>1 DEF libraryVars, LibraryInvariant, LibraryShapes, SamplesWereUploaded, UploadsApart, RemovalsApart, PictureHasItsFile
  <2>2. QED
    BY <2>1, TextSteps, SampleSteps, LibraryEventSteps DEF LibraryNext
<1>3. QED
  BY <1>1, <1>2, PTL DEF LibrarySpec

\* A sample that is listed has its image, whatever uploads, deletions and crashes come
\* together: only a deletion that was cut short after the file leaves a row without one
\* (upload_sample and delete_sample of routers/library.py).
THEOREM EveryPictureHasItsFile == LibrarySpec => []PictureHasItsFile
<1>1. LibraryInvariant => PictureHasItsFile
  BY DEF LibraryInvariant
<1>2. QED
  BY <1>1, LibraryInvariantHolds, PTL

\* However often files are dropped on an editor, each loop of handleFiles has one upload
\* under way at most, and that only while files are left; with it, every variable of the
\* library has its type.
THEOREM LibraryTypes == LibrarySpec => []LibraryTypeOK
<1>1. ASSUME LibraryInvariant PROVE LibraryTypeOK
  <2>1. ASSUME NEW d \in Drop
        PROVE  Cardinality({c \in pending : c.op = "upload" /\ c.by = d}) <= (IF dropped[d] > 0 THEN 1 ELSE 0)
    <3> DEFINE S == {c \in pending : c.op = "upload" /\ c.by = d}
    <3>1. CASE S = {}
      <4>1. Cardinality({}) = 0
        BY FS_EmptySet
      <4>2. QED
        BY <3>1, <4>1
    <3>2. CASE S # {}
      <4>1. PICK c \in S : TRUE
        BY <3>2
      <4>2. S = {c} /\ dropped[d] > 0
        BY <1>1, <4>1 DEF LibraryInvariant, UploadsApart, IsUpload
      <4>3. Cardinality({c}) = 1
        BY FS_Singleton
      <4> HIDE DEF S
      <4>4. Cardinality(S) <= (IF dropped[d] > 0 THEN 1 ELSE 0)
        BY <4>2, <4>3
      <4>5. QED
        BY <4>4 DEF S
    <3>3. QED
      BY <3>1, <3>2
  <2>2. QED
    BY <1>1, <2>1 DEF LibraryInvariant, LibraryShapes, SamplesWereUploaded, LibraryTypeOK
<1>2. QED
  BY <1>1, LibraryInvariantHolds, PTL

-----------------------------------------------------------------------------
(* The browser that has all these pages.                                   *)

allVars == <<sessionVars, accountVars, launchVars, backVars, libraryVars, evidenceVars, scene>>

\* A step of one scene is a step of its module, and one the others do not see.
LEMMA BrowserSteps ==
  ASSUME [BrowserNext]_allVars
  PROVE  /\ [SessionNext]_sessionVars /\ [AccountNext]_accountVars /\ [LaunchNext]_launchVars
         /\ [BackOfficeNext]_backVars /\ [LibraryNext]_libraryVars /\ [EvidenceNext]_evidenceVars
<1>1. CASE BrowserNext
  BY <1>1 DEF BrowserNext, LibraryNext
<1>2. CASE UNCHANGED allVars
  BY <1>2 DEF allVars
<1>3. QED
  BY <1>1, <1>2

\* Whatever is proved of a page by itself holds in the browser: each behaviour of the
\* browser is, to the variables of a module, a behaviour of that module.
LEMMA BrowserHasItsPages ==
  BrowserSpec => /\ SessionSpec /\ AccountSpec /\ LaunchSpec
                 /\ BackOfficeSpec /\ LibrarySpec /\ EvidenceSpec
<1>1. BrowserInit => /\ SessionInit /\ AccountInit /\ LaunchInit
                     /\ BackOfficeInit /\ LibraryInit /\ EvidenceInit
  BY DEF BrowserInit
<1>2. [BrowserNext]_allVars =>
         /\ [SessionNext]_sessionVars /\ [AccountNext]_accountVars /\ [LaunchNext]_launchVars
         /\ [BackOfficeNext]_backVars /\ [LibraryNext]_libraryVars /\ [EvidenceNext]_evidenceVars
  BY BrowserSteps
<1>3. QED
  BY <1>1, <1>2, PTL DEF BrowserSpec, allVars, SessionSpec, AccountSpec, LaunchSpec, BackOfficeSpec,
     LibrarySpec, EvidenceSpec

\* The types of the browser, in any of its scenes.
THEOREM BrowserTypes == BrowserSpec => []BrowserTypesOK
<1>1. (SessionTypeOK /\ AccountTypeOK /\ LaunchTypeOK /\ BackOfficeTypeOK /\ LibraryTypeOK /\ EvidenceTypeOK)
         => BrowserTypesOK
  BY DEF BrowserTypesOK
<1>2. QED
  BY <1>1, BrowserHasItsPages, SessionTypes, AccountTypes, LaunchTypes, BackOfficeTypes, LibraryTypes,
     EvidenceTypes, PTL
=============================================================================

------------------------------- MODULE MCFollow -------------------------------
(***************************************************************************)
(* How the browser follows what goes on behind it: a run (the panel, the   *)
(* detail modal) and a case (its runs, its decisions, its composer),       *)
(* checked in one run.  A behaviour plays in one scene, and the variables  *)
(* of the others stay in their initial state; the viewers of a run do not  *)
(* touch each other, nor do the parts of the page of a case.               *)
(***************************************************************************)
EXTENDS RunWatch, CaseDesk

VARIABLE scene

FollowInit ==
    /\ RunWatchInit /\ CaseDeskInit
    /\ scene \in {"panel", "switch", "modal", "ends", "runs", "decisions", "composer"}

\* One run, followed while the transactions on it overlap in every way; or several, the
\* panel going from one to the other, and each transaction done at once.
Alone == CHOOSE r \in WatchedRuns : TRUE
Busy == \E r \in WatchedRuns : writing["engine"][r] # NoWrite

FollowsOne(r) == r = Alone /\ (ServerStep(r) \/ PanelStep(r) \/ PanelNext)
FollowsMany(r) ==
    IF Busy THEN Commits("engine", r)
    ELSE EngineLoads(r) \/ PanelStep(r) \/ Dismiss \/ ReloadPage \/ GetFails
LooksInto(r) == (r = Alone /\ ServerStep(r)) \/ ModalStep(r) \/ CloseModal

\* So with the runs of a case: they end in every way, or they are started from the page
\* while the engine writes them at once.
RunsEnd == MailWithDocuments \/ WritesNext \/ QueryNext
RunsStart ==
    IF engineOn # {} THEN \E i \in 1 .. MaxRuns : EngineWrites(i)
    ELSE MailWithDocuments \/ DocumentAttached \/ (\E i \in 1 .. MaxRuns : EngineLoadsRun(i)) \/ ClickNext \/ QueryNext

FollowNext ==
    \/ /\ \E r \in WatchedRuns :
             \/ scene = "panel" /\ FollowsOne(r)
             \/ scene = "switch" /\ FollowsMany(r)
             \/ scene = "modal" /\ LooksInto(r)
       /\ UNCHANGED <<deskVars, scene>>
    \/ /\ \/ scene = "ends" /\ RunsEnd
          \/ scene = "runs" /\ RunsStart
          \/ scene = "decisions" /\ DecisionsNext
          \/ scene = "composer" /\ ComposerNext
       /\ UNCHANGED <<watchVars, scene>>

\* CaseDeskFairness in the scenes in which the page of the case polls: asked of
\* the others, it would leave them no behaviour at all.
Polling == scene \in {"ends", "runs", "decisions"}
CaseFairness == WF_deskVars(Polling /\ FetchReads) /\ SF_deskVars(Polling /\ FetchLands)

FollowSpec ==
    /\ FollowInit /\ [][FollowNext]_<<watchVars, deskVars, scene>>
    /\ RunWatchFairness /\ CaseFairness

\* Type correctness of both modules: the values are in range, and the parts of a
\* state that go together do.
FollowTypesOK == RunWatchTypeOK /\ CaseDeskTypeOK
=============================================================================

------------------------------ MODULE MCBrowser ------------------------------
(***************************************************************************)
(* The session of a user, the second factor of an account, the Validate    *)
(* page and its detail modal, the administration page and the library,     *)
(* checked in one run.  They share no state: a behaviour plays in one of   *)
(* them, its scene, and the others stay in their initial state.            *)
(***************************************************************************)
EXTENDS Session, Account, Launch, BackOffice, LibraryDesk, Evidence

VARIABLE scene

\* One tab asks for a list beside /auth/me, the other for nothing.
MCQueries == [t \in Tabs |-> IF t = "t1" THEN {"q1"} ELSE {}]

BrowserInit ==
    /\ SessionInit /\ AccountInit /\ LaunchInit /\ BackOfficeInit /\ LibraryInit /\ EvidenceInit
    /\ scene \in {"session", "account", "launch", "office", "text", "samples", "evidence"}
    /\ scene # "text" => docType.text = ""
    /\ scene \notin {"text", "samples"} => ~docType.ruled
    /\ scene # "evidence" => \A i \in DOMAIN rules : rules[i].name = "total"

BrowserNext ==
    \/ scene = "session" /\ SessionNext /\ UNCHANGED <<accountVars, launchVars, backVars, libraryVars, evidenceVars, scene>>
    \/ scene = "account" /\ AccountNext /\ UNCHANGED <<sessionVars, launchVars, backVars, libraryVars, evidenceVars, scene>>
    \/ scene = "launch" /\ LaunchNext /\ UNCHANGED <<sessionVars, accountVars, backVars, libraryVars, evidenceVars, scene>>
    \/ scene = "office" /\ BackOfficeNext /\ UNCHANGED <<sessionVars, accountVars, launchVars, libraryVars, evidenceVars, scene>>
    \/ /\ \/ scene = "text" /\ (TextNext \/ LibraryEvents)
          \/ scene = "samples" /\ (SampleNext \/ LibraryEvents)
       /\ UNCHANGED <<sessionVars, accountVars, launchVars, backVars, evidenceVars, scene>>
    \/ scene = "evidence" /\ EvidenceNext
       /\ UNCHANGED <<sessionVars, accountVars, launchVars, backVars, libraryVars, scene>>

BrowserSpec ==
    BrowserInit
    /\ [][BrowserNext]_<<sessionVars, accountVars, launchVars, backVars, libraryVars, evidenceVars, scene>>

\* Type correctness of the six modules: the values are in range, and the parts of
\* a state that go together (a token and its user, a flag and its pending request) do.
BrowserTypesOK == SessionTypeOK /\ AccountTypeOK /\ LaunchTypeOK /\ BackOfficeTypeOK
                 /\ LibraryTypeOK /\ EvidenceTypeOK
=============================================================================

------------------------------- MODULE Account -------------------------------
(***************************************************************************)
(* The second factor of one user: the dialogs of the account page in the   *)
(* tabs of a browser, the routes that enroll, confirm and remove an        *)
(* authenticator app and regenerate the recovery codes, and the app        *)
(* (settings/AccountSection.tsx, api/mfa.ts, routers/mfa.py).              *)
(*                                                                         *)
(* A credential is a number, and so is the secret it holds; 0 is none.     *)
(***************************************************************************)
EXTENDS Naturals, FiniteSets

CONSTANTS
    AccountTabs, \* the tabs that show the account page
    MaxCreds     \* bound on the enrollments

ASSUME AccountAssumption == MaxCreds \in Nat

Creds == 1 .. MaxCreds

VARIABLES
    cred,       \* cred[c]: the row of mfa_credentials
    made,       \* number of enrollments
    required,   \* users.mfa_required
    overlap,    \* a confirmation and a removal came between each other's reading and commit
    crossed,    \* the last enrollment was overtaken by another since it read
    app,        \* the secrets in the user's authenticator app
    dialog,     \* dialog[t]: the dialog open in a tab
    rpc,        \* rpc[t]: the request of the dialog
    methods     \* methods[t]: the confirmed method of the query's data, 0 before it has any

accountVars == <<cred, made, required, overlap, crossed, app, dialog, rpc, methods>>

NoDialog == [kind |-> "none", step |-> "form", cred |-> 0]
\* asked and stale are what its route has read: mfa_required, and the pending enrollments.
NoRpc    == [kind |-> "none", stage |-> "sent", cred |-> 0, typed |-> 0, asked |-> FALSE, stale |-> {}]

Confirmed == {c \in Creds : cred[c] = "confirmed"}
\* _confirmed_totp and the page take the first confirmed method of the list.
First(S) == IF S = {} THEN 0 ELSE CHOOSE c \in S : \A d \in S : c <= d

AccountTypeOK ==
    /\ cred \in [Creds -> {"none", "pending", "confirmed", "deleted"}]
    /\ made \in 0 .. MaxCreds /\ required \in BOOLEAN /\ overlap \in BOOLEAN /\ crossed \in BOOLEAN
    /\ app \subseteq Creds
    /\ dialog \in [AccountTabs -> [kind : {"none", "setup", "remove", "regen"},
                            step : {"form", "qr", "verify", "codes"}, cred : 0 .. MaxCreds]]
    /\ \A t \in AccountTabs : dialog[t].step \in {"verify", "codes"} => dialog[t].cred # 0
    /\ rpc \in [AccountTabs -> [kind : {"none", "enroll", "confirm", "remove", "regen", "me"},
                         stage : {"sent", "loaded", "read", "done", "refused"},
                         cred : 0 .. MaxCreds, typed : 0 .. MaxCreds,
                         asked : BOOLEAN, stale : SUBSET Creds]]
    /\ methods \in [AccountTabs -> 0 .. MaxCreds]

AccountInit ==
    /\ cred = [c \in Creds |-> "none"] /\ made = 0
    /\ required = FALSE /\ overlap = FALSE /\ crossed = FALSE
    /\ app = {}
    /\ dialog = [t \in AccountTabs |-> NoDialog]
    /\ rpc = [t \in AccountTabs |-> NoRpc]
    /\ methods = [t \in AccountTabs |-> 0]

serverRows == <<cred, made, required, overlap, crossed>>

\* A route that has begun goes on to its commit; what closes its dialog meanwhile is let
\* come after it, since the route has no part in the dialog.
UnderWay(t) == rpc[t].stage \in {"loaded", "read"}

-----------------------------------------------------------------------------
(* MfaCard: the query and the buttons.  While the query has no data the    *)
(* page offers the set-up, whatever the server holds.                      *)

MethodsLoaded(t) ==
    /\ methods' = [methods EXCEPT ![t] = First(Confirmed)]
    /\ methods[t] # methods'[t]
    /\ UNCHANGED <<serverRows, app, dialog, rpc>>

OpenSetup(t) ==
    /\ dialog[t].kind = "none" /\ methods[t] = 0
    /\ dialog' = [dialog EXCEPT ![t] = [NoDialog EXCEPT !.kind = "setup", !.step = "qr"]]
    /\ rpc' = [rpc EXCEPT ![t] = [NoRpc EXCEPT !.kind = "enroll"]]
    /\ UNCHANGED <<serverRows, app, methods>>

OpenRemoveOrRegen(t) ==
    /\ dialog[t].kind = "none" /\ methods[t] # 0
    /\ \E k \in {"remove", "regen"} :
          dialog' = [dialog EXCEPT ![t] = [NoDialog EXCEPT !.kind = k, !.cred = methods[t]]]
    /\ UNCHANGED <<serverRows, app, rpc, methods>>

\* The dialog closes whatever it waits for.
Cancel(t) ==
    /\ dialog[t].kind \in {"remove", "regen"} /\ dialog[t].step = "form"
    /\ ~UnderWay(t)
    /\ dialog' = [dialog EXCEPT ![t] = NoDialog]
    /\ rpc' = [rpc EXCEPT ![t] = NoRpc]
    /\ UNCHANGED <<serverRows, app, methods>>

-----------------------------------------------------------------------------
(* The set-up dialog: QR code, code, recovery codes.                       *)

UriAssumed(t) == TRUE
UriKnown(t) == dialog[t].cred # 0

\* The QR code can be scanned once the answer to the enrollment shows it.
Scan(t) ==
    /\ dialog[t].step = "qr" /\ UriKnown(t)
    /\ app' = app \cup {dialog[t].cred}
    /\ UNCHANGED <<serverRows, dialog, rpc, methods>>

NextStep(t) ==
    /\ dialog[t].step = "qr" /\ UriKnown(t)
    /\ dialog' = [dialog EXCEPT ![t].step = "verify"]
    /\ UNCHANGED <<serverRows, app, rpc, methods>>

BackToQr(t) ==
    /\ dialog[t].step = "verify"
    /\ dialog' = [dialog EXCEPT ![t].step = "qr"]
    /\ UNCHANGED <<serverRows, app, rpc, methods>>

\* The user types a code the app shows for some secret, or a wrong one (0).
OnVerify(t) ==
    /\ dialog[t].step = "verify" /\ rpc[t].kind = "none"
    /\ \E typed \in app \cup {0} :
          rpc' = [rpc EXCEPT ![t] = [NoRpc EXCEPT !.kind = "confirm", !.cred = dialog[t].cred,
                                                  !.typed = typed]]
    /\ UNCHANGED <<serverRows, app, dialog, methods>>

OnSubmitRemove(t) ==
    /\ dialog[t].kind = "remove" /\ rpc[t].kind = "none"
    /\ rpc' = [rpc EXCEPT ![t] = [NoRpc EXCEPT !.kind = "remove", !.cred = dialog[t].cred]]
    /\ UNCHANGED <<serverRows, app, dialog, methods>>

OnSubmitRegen(t) ==
    /\ dialog[t].kind = "regen" /\ dialog[t].step = "form" /\ rpc[t].kind = "none"
    /\ \E typed \in app \cup {0} :
          rpc' = [rpc EXCEPT ![t] = [NoRpc EXCEPT !.kind = "regen", !.typed = typed]]
    /\ UNCHANGED <<serverRows, app, dialog, methods>>

\* onDone of the list of recovery codes.
CodesNoted(t) ==
    /\ dialog[t].step = "codes"
    /\ dialog' = [dialog EXCEPT ![t] = NoDialog]
    /\ UNCHANGED <<serverRows, app, rpc, methods>>

-----------------------------------------------------------------------------
(* The routes.                                                             *)

Answer(t, ok) == rpc' = [rpc EXCEPT ![t].stage = IF ok THEN "done" ELSE "refused"]

\* enroll_totp lists the pending enrollments of the user ...
EnrollRead(t) ==
    /\ rpc[t].kind = "enroll" /\ rpc[t].stage = "sent"
    /\ rpc' = [rpc EXCEPT ![t] = [@ EXCEPT !.stage = "read", !.stale = {c \in Creds : cred[c] = "pending"},
                                          !.typed = made]]
    /\ UNCHANGED <<serverRows, app, dialog, methods>>

\* ... and deletes those rows, whatever they have become, and adds its own.  Nothing in
\* the table keeps the user from having two.
PendingKept(t) == cred
Cleaned(t) == [c \in Creds |-> IF c \in rpc[t].stale THEN "deleted" ELSE cred[c]]
EnrollCommit(t) ==
    /\ rpc[t].kind = "enroll" /\ rpc[t].stage = "read" /\ made < MaxCreds
    /\ made' = made + 1
    /\ cred' = [Cleaned(t) EXCEPT ![made + 1] = "pending"]
    /\ crossed' = (rpc[t].typed # made)
    /\ rpc' = [rpc EXCEPT ![t] = [@ EXCEPT !.stage = "done", !.cred = made + 1]]
    /\ UNCHANGED <<required, overlap, app, dialog, methods>>

PendingOnly(c, typed) == cred[c] = "pending"
Proved(c, typed) == cred[c] = "pending" /\ typed = c

\* confirm_totp loads the user and the credential and checks the code ...
ConfirmRead(t) ==
    /\ rpc[t].kind = "confirm" /\ rpc[t].stage = "sent"
    /\ rpc' = [rpc EXCEPT ![t] = IF Proved(rpc[t].cred, rpc[t].typed)
                                 THEN [@ EXCEPT !.stage = "read", !.asked = required]
                                 ELSE [@ EXCEPT !.stage = "refused"]]
    /\ UNCHANGED <<serverRows, app, dialog, methods>>

\* ... and commits: the sign-in asks for the factor from then on.  The flag is written
\* only if it was not set when it was loaded.
LeftAsItWas(t) == required
Demanded(t) == IF rpc[t].asked THEN required ELSE TRUE

Others(t, kind) == \E u \in AccountTabs \ {t} : rpc[u].kind = kind /\ rpc[u].stage = "read"

ConfirmCommit(t) ==
    /\ rpc[t].kind = "confirm" /\ rpc[t].stage = "read" /\ cred[rpc[t].cred] # "deleted"
    /\ cred' = [cred EXCEPT ![rpc[t].cred] = "confirmed"]
    /\ required' = Demanded(t)
    /\ overlap' = (overlap \/ Others(t, "remove"))
    /\ Answer(t, TRUE)
    /\ UNCHANGED <<made, crossed, app, dialog, methods>>

\* The row was deleted since: its update matches nothing, and nothing is committed.
ConfirmFails(t) ==
    /\ rpc[t].kind = "confirm" /\ rpc[t].stage = "read" /\ cred[rpc[t].cred] = "deleted"
    /\ Answer(t, FALSE)
    /\ UNCHANGED <<serverRows, app, dialog, methods>>

\* remove_mfa loads the user, ...
RemoveLoad(t) ==
    /\ rpc[t].kind = "remove" /\ rpc[t].stage = "sent"
    /\ rpc' = [rpc EXCEPT ![t] = [@ EXCEPT !.stage = "loaded", !.asked = required]]
    /\ UNCHANGED <<serverRows, app, dialog, methods>>

\* ... looks the row up, checks the proof and lists the credentials ...
RemoveRead(t) ==
    /\ rpc[t].kind = "remove" /\ rpc[t].stage = "loaded"
    /\ \E ok \in BOOLEAN :
          rpc' = [rpc EXCEPT ![t] =
                    [@ EXCEPT !.stage = IF ok /\ cred[rpc[t].cred] # "deleted" THEN "read" ELSE "refused",
                              !.typed = First(Confirmed \ {rpc[t].cred})]]
    /\ UNCHANGED <<serverRows, app, dialog, methods>>

\* ... and commits what follows from the list it read: the flag is cleared
\* when no other confirmed credential was on it, and it was set when it was loaded.
StillRequired(t) == IF rpc[t].typed = 0 /\ rpc[t].asked THEN FALSE ELSE required

RemoveCommit(t) ==
    /\ rpc[t].kind = "remove" /\ rpc[t].stage = "read"
    /\ cred' = [cred EXCEPT ![rpc[t].cred] = "deleted"]
    /\ required' = StillRequired(t)
    /\ overlap' = (overlap \/ Others(t, "confirm"))
    /\ Answer(t, TRUE)
    /\ UNCHANGED <<made, crossed, app, dialog, methods>>

HandleRegen(t) ==
    /\ rpc[t].kind = "regen" /\ rpc[t].stage = "sent"
    /\ Answer(t, rpc[t].typed # 0 /\ rpc[t].typed = First(Confirmed))
    /\ UNCHANGED <<serverRows, app, dialog, methods>>

-----------------------------------------------------------------------------
(* The answers.                                                            *)

EnrollShown(t) ==
    /\ rpc[t].kind = "enroll" /\ rpc[t].stage = "done"
    /\ dialog' = [dialog EXCEPT ![t].cred = rpc[t].cred]
    /\ rpc' = [rpc EXCEPT ![t] = NoRpc]
    /\ UNCHANGED <<serverRows, app, methods>>

\* A confirmed or removed method: the dialog asks for the user again first.
RefetchMe(t) ==
    /\ rpc[t].kind \in {"confirm", "remove"} /\ rpc[t].stage = "done"
    /\ rpc' = [rpc EXCEPT ![t] = [NoRpc EXCEPT !.kind = "me"]]
    /\ UNCHANGED <<serverRows, app, dialog, methods>>

\* loadMe never throws: after the set-up the recovery codes are shown, after a
\* removal the dialog closes.
MeAnswered(t) ==
    /\ rpc[t].kind = "me"
    /\ dialog' = [dialog EXCEPT ![t] = IF @.kind = "setup" THEN [@ EXCEPT !.step = "codes"]
                                                           ELSE NoDialog]
    /\ rpc' = [rpc EXCEPT ![t] = NoRpc]
    /\ UNCHANGED <<serverRows, app, methods>>

RegenShown(t) ==
    /\ rpc[t].kind = "regen" /\ rpc[t].stage = "done"
    /\ dialog' = [dialog EXCEPT ![t].step = "codes"]
    /\ rpc' = [rpc EXCEPT ![t] = NoRpc]
    /\ UNCHANGED <<serverRows, app, methods>>

\* An error, or an answer that is lost after the route has committed: the form
\* shows the error and can be sent again.
RequestFails(t) ==
    /\ rpc[t].kind \in {"enroll", "confirm", "remove", "regen"} /\ ~UnderWay(t)
    /\ rpc' = [rpc EXCEPT ![t] = NoRpc]
    /\ UNCHANGED <<serverRows, app, dialog, methods>>

\* A reload, and a refetch of the user that fails, unmount the page: recovery
\* codes that were about to be shown are gone.
Unmount(t) ==
    /\ ~UnderWay(t)
    /\ dialog' = [dialog EXCEPT ![t] = NoDialog]
    /\ rpc' = [rpc EXCEPT ![t] = NoRpc]
    /\ methods' = [methods EXCEPT ![t] = 0]
    /\ UNCHANGED <<serverRows, app>>

-----------------------------------------------------------------------------
AccountNext == \E t \in AccountTabs :
    \/ MethodsLoaded(t) \/ OpenSetup(t) \/ OpenRemoveOrRegen(t) \/ Cancel(t)
    \/ Scan(t) \/ NextStep(t) \/ BackToQr(t) \/ OnVerify(t)
    \/ OnSubmitRemove(t) \/ OnSubmitRegen(t) \/ CodesNoted(t)
    \/ EnrollRead(t) \/ EnrollCommit(t) \/ ConfirmRead(t) \/ ConfirmCommit(t) \/ ConfirmFails(t)
    \/ RemoveLoad(t) \/ RemoveRead(t) \/ RemoveCommit(t) \/ HandleRegen(t)
    \/ EnrollShown(t) \/ RefetchMe(t) \/ MeAnswered(t) \/ RegenShown(t)
    \/ RequestFails(t) \/ Unmount(t)

AccountSpec == AccountInit /\ [][AccountNext]_accountVars

-----------------------------------------------------------------------------
(* Properties.                                                             *)

\* Setting up a second factor never locks the user out: whatever the tabs do
\* and whichever confirmed credential the sign-in takes, the user's app shows
\* codes for it.
LoginStaysPossible == Confirmed \subseteq app

\* A confirmed second factor is asked for at the sign-in: no sequence of set-ups and
\* removals in several tabs leaves one that the server ignores, unless a confirmation and
\* a removal came between each other's reading and commit.  (An administrator may turn
\* the flag off; that is not of these dialogs.)
ConfirmedIsEnforced == ~overlap /\ Confirmed # {} => required

\* One enrollment at most is pending, the one whose QR code was shown last.  Two that
\* overlap leave two, and the next that runs by itself cleans both up.
OnePendingEnrollment == ~crossed => Cardinality({c \in Creds : cred[c] = "pending"}) <= 1
=============================================================================

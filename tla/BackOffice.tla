------------------------------ MODULE BackOffice ------------------------------
(***************************************************************************)
(* The administration page and the invitations: superadmins edit, add and  *)
(* delete users and send invitations in the modals of their own pages      *)
(* (pages/AdminPage.tsx), while the invited person follows one of the      *)
(* links that were mailed.  A modal is about what a list showed when it    *)
(* was opened, so any user and any invitation of the past may be acted on; *)
(* and a route reads before it writes: create_invite, resend_invite,       *)
(* create_user and accept hash a password or a token in between.           *)
(***************************************************************************)
EXTENDS Naturals, Sequences, FiniteSets, Functions

CONSTANTS
    Admins,      \* superadmins, owners of the tenant they invite into
    Guests,      \* calls of POST /invites/accept that may be under way
    MaxInvites,  \* bound on the invitations
    MaxLinks,    \* bound on the links, which are numbered as they are issued
    MaxEdits     \* bound on the calls that edit, add or delete users

ASSUME BackOfficeAssumption ==
    /\ MaxInvites \in Nat /\ MaxLinks \in Nat /\ MaxEdits \in Nat
    /\ Admins \cap {"invitee", "namesake"} = {}

VARIABLES
    rows,     \* the users table, by account
    signedIn, \* the accounts that hold a refresh token
    invites,  \* the user_invites table
    links,    \* the number of links issued
    spent,    \* history: the links that were of no use at some time
    joined,   \* history: the links accounts were made by, and whether they were spent
    edits,    \* the number of calls that edit, add or delete users
    request,  \* by admin, the call that has read and not yet written
    accepting \* by guest, the accept call that has read and not yet written

backVars == <<rows, signedIn, invites, links, spent, joined, edits, request, accepting>>

\* One address is invited.  It may get an account in the home tenant, "invitee", and
\* one in another tenant, "namesake": addresses are unique per tenant only.
Addressed == {"invitee", "namesake"}
Accounts == Admins \cup Addressed
Row == [active : BOOLEAN, super : BOOLEAN]
Link == 1 .. MaxLinks

Idle == [kind |-> "none"]

BackOfficeTypeOK ==
    /\ DOMAIN rows \subseteq Accounts /\ \A u \in DOMAIN rows : rows[u] \in Row
    /\ signedIn \subseteq {u \in DOMAIN rows : rows[u].active}
    /\ Len(invites) <= MaxInvites
    /\ \A i \in DOMAIN invites :
           /\ invites[i] \in [by : Admins, link : Link, accepted : BOOLEAN,
                              revoked : BOOLEAN, expired : BOOLEAN]
           /\ invites[i].by \in DOMAIN rows /\ invites[i].link <= links
           /\ \A j \in DOMAIN invites : invites[i].link = invites[j].link => i = j
    /\ links \in 0 .. MaxLinks /\ edits \in 0 .. MaxEdits /\ spent \subseteq 1 .. links
    /\ joined \subseteq [link : Link, late : BOOLEAN]
    /\ \A a \in Admins :
           \/ request[a] = Idle
           \/ request[a] \in [kind : {"invite"}, prior : SUBSET DOMAIN invites]
           \/ request[a] \in [kind : {"resend"}, invite : DOMAIN invites, revoked : BOOLEAN]
           \/ request[a] \in [kind : {"new"}, who : Addressed, super : BOOLEAN]
    /\ \A g \in Guests :
           \/ accepting[g] = Idle
           \/ accepting[g] \in [kind : {"accept"}, invite : DOMAIN invites,
                                link : Link, late : BOOLEAN]

BackOfficeInit ==
    /\ rows = [u \in Admins |-> [active |-> TRUE, super |-> TRUE]]
    /\ signedIn = Admins /\ invites = <<>> /\ links = 0
    /\ spent = {} /\ joined = {} /\ edits = 0
    /\ request = [a \in Admins |-> Idle]
    /\ accepting = [g \in Guests |-> Idle]

-----------------------------------------------------------------------------
(* The rights a route asks for, at the time of the call: the page itself   *)
(* goes by the user it was loaded with.                                    *)

MayInvite(a) == a \in DOMAIN rows /\ rows[a].active
MayAdminister(a) == MayInvite(a) /\ rows[a].super

Pending(inv) == ~inv.accepted /\ ~inv.revoked
Usable(inv) == Pending(inv) /\ ~inv.expired

\* The links that are of no use once the invitations are as in seq: this is what the
\* history records, whatever the look-up accepts.
Opens(inv) == ~inv.accepted /\ ~inv.revoked /\ ~inv.expired
Spent(seq) == spent \cup {l \in 1 .. links' : \A i \in DOMAIN seq : seq[i].link = l => ~Opens(seq[i])}

-----------------------------------------------------------------------------
(* The users.  A refusal leaves the form as it is, with an error.          *)

\* What the routes do: a user who is made inactive, gets a new password or is deleted
\* loses the refresh tokens.
Updated(u, row) ==
    /\ rows' = [rows EXCEPT ![u] = row]
    /\ signedIn' = IF row.active THEN signedIn ELSE signedIn \ {u}
PasswordSet(u) == signedIn' = signedIn \ {u} /\ UNCHANGED rows
Deleted(u) == rows' = Restrict(rows, DOMAIN rows \ {u}) /\ signedIn' = signedIn \ {u}

\* A form of the page sends one call at a time.
Submits(a) ==
    /\ request[a] = Idle /\ edits < MaxEdits
    /\ edits' = edits + 1

\* The user form sends every field: as the row was when the form was opened, or as it
\* was changed since, hence any row.
SaveUser(a, u, row) ==
    /\ Submits(a) /\ MayAdminister(a) /\ u \in DOMAIN rows
    /\ Updated(u, row)
    /\ UNCHANGED <<invites, links, spent, joined, request, accepting>>

SetPassword(a, u) ==
    /\ Submits(a) /\ MayAdminister(a) /\ u \in DOMAIN rows
    /\ PasswordSet(u)
    /\ UNCHANGED <<invites, links, spent, joined, request, accepting>>

\* A row that invitations name as their sender cannot be deleted: the foreign key
\* of user_invites refuses it.
InvitedNobody(u) == \A i \in DOMAIN invites : invites[i].by # u

DeleteUser(a, u) ==
    /\ Submits(a) /\ MayAdminister(a) /\ u \in DOMAIN rows \ {a}
    /\ InvitedNobody(u)
    /\ Deleted(u)
    /\ UNCHANGED <<invites, links, spent, joined, request, accepting>>

\* The row of a new user.
Active(super) == [active |-> TRUE, super |-> super]

Inserted(u, row) == rows' = [v \in DOMAIN rows \cup {u} |-> IF v = u THEN row ELSE rows[v]]

\* create_user looks the address up in every tenant; the insert is refused only by
\* an account of the address in the same tenant.
CreateUserReads(a, u, super) ==
    /\ Submits(a) /\ MayAdminister(a) /\ Addressed \cap DOMAIN rows = {}
    /\ request' = [request EXCEPT ![a] = [kind |-> "new", who |-> u, super |-> super]]
    /\ UNCHANGED <<rows, signedIn, invites, links, spent, joined, accepting>>

CreateUserWrites(a) ==
    /\ request[a].kind = "new"
    /\ request' = [request EXCEPT ![a] = Idle]
    /\ IF request[a].who \in DOMAIN rows THEN rows' = rows
       ELSE Inserted(request[a].who, Active(request[a].super))
    /\ UNCHANGED <<signedIn, invites, links, spent, joined, edits, accepting>>

-----------------------------------------------------------------------------
(* The invitations.                                                        *)

\* The invitation form, whose button is off while its call is under way.
InviteSubmitted(a) == request[a] = Idle /\ Len(invites) < MaxInvites /\ links < MaxLinks

\* create_invite revokes what is pending for the address; what another call inserts
\* after that UPDATE stays.
InviteReads(a) ==
    /\ InviteSubmitted(a) /\ MayInvite(a)
    /\ Addressed \cap DOMAIN rows = {}
    /\ request' = [request EXCEPT ![a] = [kind |-> "invite",
                       prior |-> {i \in DOMAIN invites : Pending(invites[i])}]]
    /\ UNCHANGED <<rows, signedIn, invites, links, spent, joined, edits, accepting>>

InviteWrites(a) ==
    /\ request[a].kind = "invite" /\ Len(invites) < MaxInvites /\ links < MaxLinks
    /\ a \in DOMAIN rows
    /\ links' = links + 1
    /\ invites' = Append([i \in DOMAIN invites |->
                             [invites[i] EXCEPT !.revoked = @ \/ i \in request[a].prior]],
                         [by |-> a, link |-> links + 1, accepted |-> FALSE,
                          revoked |-> FALSE, expired |-> FALSE])
    /\ spent' = Spent(invites')
    /\ request' = [request EXCEPT ![a] = Idle]
    /\ UNCHANGED <<rows, signedIn, joined, edits, accepting>>

\* The foreign key refuses an invitation of a sender who was deleted meanwhile.
InviteRefused(a) ==
    /\ request[a].kind = "invite" /\ a \notin DOMAIN rows
    /\ request' = [request EXCEPT ![a] = Idle]
    /\ UNCHANGED <<rows, signedIn, invites, links, spent, joined, edits, accepting>>

\* The buttons of the list of pending invitations, which may be out of date.
Revoke(a, i) ==
    /\ MayInvite(a) /\ Pending(invites[i])
    /\ invites' = [invites EXCEPT ![i].revoked = TRUE]
    /\ links' = links /\ spent' = Spent(invites')
    /\ UNCHANGED <<rows, signedIn, joined, edits, request, accepting>>

\* Sending again, and copying the link, which is not kept: both make a new one.
ResendReads(a, i) ==
    /\ MayInvite(a) /\ request[a] = Idle /\ links < MaxLinks
    /\ ~invites[i].accepted
    /\ request' = [request EXCEPT ![a] = [kind |-> "resend", invite |-> i, revoked |-> invites[i].revoked]]
    /\ UNCHANGED <<rows, signedIn, invites, links, spent, joined, edits, accepting>>

\* The link an invitation has once it is sent again.
Reissued(inv) == links'

\* The update names the columns that change: the mark of a revocation that the call
\* did not read stays.
ResendWrites(a) ==
    /\ request[a].kind = "resend" /\ links < MaxLinks
    /\ links' = links + 1
    /\ LET i == request[a].invite
       IN invites' = [invites EXCEPT ![i] = [@ EXCEPT
              !.link = Reissued(invites[i]), !.expired = FALSE,
              !.revoked = invites[i].revoked /\ ~request[a].revoked]]
    /\ spent' = Spent(invites')
    /\ request' = [request EXCEPT ![a] = Idle]
    /\ UNCHANGED <<rows, signedIn, joined, edits, accepting>>

\* Time passes; it makes a difference to a pending invitation alone.
Expire(i) ==
    /\ Pending(invites[i]) /\ ~invites[i].expired
    /\ invites' = [invites EXCEPT ![i].expired = TRUE]
    /\ links' = links /\ spent' = Spent(invites')
    /\ UNCHANGED <<rows, signedIn, joined, edits, request, accepting>>

-----------------------------------------------------------------------------
(* The invited person.                                                     *)

\* The invitation a link opens: _find_invite_by_raw_token.
Found(l) == {i \in DOMAIN invites : invites[i].link = l /\ Usable(invites[i])}

AcceptReads(g, l) ==
    /\ accepting[g] = Idle /\ links' = links
    /\ \E i \in Found(l) :
           IF Addressed \cap DOMAIN rows = {}
           THEN /\ accepting' = [accepting EXCEPT ![g] = [kind |-> "accept", invite |-> i,
                                                         link |-> l, late |-> l \in spent]]
                /\ UNCHANGED <<invites, spent>>
           ELSE /\ invites' = [invites EXCEPT ![i].revoked = TRUE]
                /\ spent' = Spent(invites') /\ UNCHANGED accepting
    /\ UNCHANGED <<rows, signedIn, joined, edits, request>>

\* The invitation once its account is made.
Unstamped(inv) == inv
Stamped(inv) == [inv EXCEPT !.accepted = TRUE]

AcceptWrites(g) ==
    /\ accepting[g].kind = "accept" /\ links' = links
    /\ accepting' = [accepting EXCEPT ![g] = Idle]
    /\ IF "invitee" \in DOMAIN rows THEN UNCHANGED <<rows, signedIn, invites, spent, joined>>
       ELSE /\ Inserted("invitee", Active(FALSE))
            /\ signedIn' = signedIn \cup {"invitee"}
            /\ invites' = [invites EXCEPT ![accepting[g].invite] = Stamped(@)]
            /\ joined' = joined \cup {[link |-> accepting[g].link, late |-> accepting[g].late]}
            /\ spent' = Spent(invites') \cup {accepting[g].link}
    /\ UNCHANGED <<edits, request>>

-----------------------------------------------------------------------------
(* The parts of the page, and the page.                                    *)

UserTable(a) ==
    \E u \in Accounts : \/ SetPassword(a, u) \/ DeleteUser(a, u)
                        \/ \E row \in Row : SaveUser(a, u, row)

\* The invite button is there in the admin's own tenant, the other in every tenant.
TenantHeader(a) ==
    \/ InviteReads(a)
    \/ \E u \in Addressed, super \in BOOLEAN : CreateUserReads(a, u, super)

PendingInvites(a) == \E i \in DOMAIN invites : Revoke(a, i) \/ ResendReads(a, i)

BackOfficeNext ==
    \/ \E a \in Admins :
          \/ UserTable(a) \/ TenantHeader(a) \/ PendingInvites(a)
          \/ CreateUserWrites(a) \/ InviteWrites(a) \/ InviteRefused(a) \/ ResendWrites(a)
    \/ \E i \in DOMAIN invites : Expire(i)
    \/ \E g \in Guests : AcceptWrites(g) \/ \E l \in 1 .. links : AcceptReads(g, l)

BackOfficeSpec == BackOfficeInit /\ [][BackOfficeNext]_backVars

-----------------------------------------------------------------------------
(* A link is of no use for good once it was accepted, revoked, replaced or *)
(* let expire: no call that looked it up later than that makes an account, *)
(* though an invitation itself may be revived under another link.          *)
SpentLinksStaySpent == \A j \in joined : ~j.late
=============================================================================

----------------------------- MODULE Mailboxes -----------------------------
(***************************************************************************)
(* The mailboxes of policies and workflows (mailboxes.py, the inbox routes *)
(* of routers/policies.py and routers/workflows.py, the look-up of         *)
(* routers/mail.py) and the pages that switch them (PolicyEditor.tsx,      *)
(* WorkflowList.tsx).  A policy's and a workflow's rows are in different   *)
(* tables, so that no constraint of the database keeps their addresses     *)
(* apart: a route looks for the address in both and commits afterwards.    *)
(***************************************************************************)
EXTENDS Naturals, FiniteSets, FiniteSetsExt

CONSTANTS
    PolicyOwners,   \* the policies, all with one name
    WorkflowOwners, \* the workflows, with the same name
    BoxUsers,       \* the browsers open on them, of one tenant
    MaxLocal,       \* the local parts: 1 is the name, n is the name with the suffix -n
    MaxBoxActs      \* bound on the requests sent

Owners == PolicyOwners \cup WorkflowOwners
Locals == 1 .. MaxLocal

\* There is always a local part no other mailbox has.
ASSUME MailboxAssumption ==
    /\ PolicyOwners \cap WorkflowOwners = {} /\ IsFiniteSet(Owners)
    /\ MaxLocal \in Nat /\ MaxLocal >= Cardinality(Owners) /\ MaxBoxActs \in Nat

VARIABLES
    boxes,    \* the columns of the rows: email_inbox_enabled, email_address (0: none), is_archived
    boxCache, \* boxCache[u]: the rows as the browser of u has them
    boxRpc,   \* boxRpc[u]: the request of u under way
    overtook, \* a route committed over rows that had changed since it read them
    boxActs   \* the requests sent

boxVars == <<boxes, boxCache, boxRpc, overtook, boxActs>>

BoxRow == [enabled : BOOLEAN, address : {0} \cup Locals, archived : BOOLEAN]
AllClosed == [o \in Owners |-> [enabled |-> FALSE, address |-> 0, archived |-> FALSE]]
BoxOps == {"enable", "set", "disable", "archive", "unarchive"}
NoBoxRpc == [op |-> "none"]

BoxTypeOK ==
    /\ boxes \in [Owners -> BoxRow] /\ boxCache \in [BoxUsers -> [Owners -> BoxRow]]
    /\ \A o \in PolicyOwners : ~boxes[o].archived
    /\ \A u \in BoxUsers : boxRpc[u] = NoBoxRpc \/
          /\ boxRpc[u].op \in BoxOps /\ boxRpc[u].owner \in Owners
          /\ boxRpc[u].pc \in {"sent", "read", "done"} /\ boxRpc[u].seen \in [Owners -> BoxRow]
          /\ (boxRpc[u].op = "set") = (boxRpc[u].local \in Locals)
    /\ overtook \in BOOLEAN /\ boxActs \in 0 .. MaxBoxActs

BoxInit ==
    /\ boxes = AllClosed /\ boxCache = [u \in BoxUsers |-> boxes]
    /\ boxRpc = [u \in BoxUsers |-> NoBoxRpc]
    /\ overtook = FALSE /\ boxActs = 0

-----------------------------------------------------------------------------
(* The pages: what they offer depends on the rows they know.               *)

AskFor(u, o, op, local) ==
    /\ boxRpc[u] = NoBoxRpc /\ boxActs < MaxBoxActs
    /\ boxRpc' = [boxRpc EXCEPT ![u] =
          [op |-> op, owner |-> o, local |-> local, pc |-> "sent", seen |-> AllClosed]]
    /\ boxActs' = boxActs + 1
    /\ UNCHANGED <<boxes, boxCache, overtook>>

ClickEnable(u, o) == ~boxCache[u][o].enabled /\ AskFor(u, o, "enable", 0)
ClickDisable(u, o) == boxCache[u][o].enabled /\ AskFor(u, o, "disable", 0)

\* The editor of a policy has its button only for another address than the row's.
SaveAddress(u, o, a) ==
    /\ boxCache[u][o].enabled
    /\ o \in PolicyOwners => boxCache[u][o].address \notin {0, a}
    /\ AskFor(u, o, "set", a)

ClickArchive(u, o) ==
    /\ o \in WorkflowOwners
    /\ AskFor(u, o, IF boxCache[u][o].archived THEN "unarchive" ELSE "archive", 0)

-----------------------------------------------------------------------------
(* The routes.                                                             *)

\* address_in_use: by any other row, closed to mail or not.
InUseByPolicy(rows, o, a) == \E q \in PolicyOwners \ {o} : rows[q].address = a
InUse(rows, o, a) == \E q \in Owners \ {o} : rows[q].address = a

\* unique_local_part
FirstFree(rows, o) == Min({a \in Locals : ~InUse(rows, o, a)})

\* Set is refused for a mailbox that is closed (400), or an address in use (409).
Refused(request, rows) ==
    /\ request.op = "set"
    /\ ~rows[request.owner].enabled \/ InUse(rows, request.owner, request.local)

InboxRouteReads(u) ==
    /\ boxRpc[u] # NoBoxRpc /\ boxRpc[u].pc = "sent"
    /\ boxRpc' = IF Refused(boxRpc[u], boxes)
                 THEN [boxRpc EXCEPT ![u].pc = "done"]
                 ELSE [boxRpc EXCEPT ![u].pc = "read", ![u].seen = boxes]
    /\ UNCHANGED <<boxes, boxCache, overtook, boxActs>>

\* The row as the route wants it ...
Wanted(request, rows) ==
    LET row == rows[request.owner] IN
    CASE request.op = "enable" -> [row EXCEPT !.enabled = TRUE, !.address = FirstFree(rows, request.owner)]
      [] request.op = "set" -> [row EXCEPT !.address = request.local]
      [] request.op = "disable" -> [row EXCEPT !.enabled = FALSE, !.address = 0]
      [] request.op = "archive" -> [row EXCEPT !.archived = TRUE]
      [] request.op = "unarchive" -> [row EXCEPT !.archived = FALSE]

\* ... of which the session writes the columns that differ from what it read.
InboxRouteCommits(u) ==
    LET r == boxRpc[u] IN
    /\ r # NoBoxRpc /\ r.pc = "read"
    /\ boxes' = [boxes EXCEPT ![r.owner] =
          [c \in DOMAIN @ |-> IF Wanted(r, r.seen)[c] # r.seen[r.owner][c] THEN Wanted(r, r.seen)[c] ELSE @[c]]]
    /\ overtook' = (overtook \/ boxes # r.seen)
    /\ boxRpc' = [boxRpc EXCEPT ![u].pc = "done", ![u].seen = AllClosed]
    /\ UNCHANGED <<boxCache, boxActs>>

\* The answer, or its loss; a request may also be lost on its way.
BoxRequestOver(u) ==
    /\ boxRpc[u] # NoBoxRpc /\ boxRpc[u].pc # "read"
    /\ boxRpc' = [boxRpc EXCEPT ![u] = NoBoxRpc]
    /\ UNCHANGED <<boxes, boxCache, overtook, boxActs>>

\* The queries are invalidated by an answer, and asked again at other times.
BoxesLand(u) ==
    /\ boxCache[u] # boxes
    /\ boxCache' = [boxCache EXCEPT ![u] = boxes]
    /\ UNCHANGED <<boxes, boxRpc, overtook, boxActs>>

BoxNext == \E u \in BoxUsers :
    \/ \E o \in Owners :
          \/ ClickEnable(u, o) \/ ClickDisable(u, o) \/ ClickArchive(u, o)
          \/ \E a \in Locals : SaveAddress(u, o, a)
    \/ InboxRouteReads(u) \/ InboxRouteCommits(u) \/ BoxRequestOver(u) \/ BoxesLand(u)

BoxSpec == BoxInit /\ [][BoxNext]_boxVars

-----------------------------------------------------------------------------
(* The mail.                                                               *)

\* _resolve_mailbox: a policy with the address, or else a workflow; of two, either.
Open(o) == boxes[o].enabled /\ ~boxes[o].archived
Takers(a) ==
    LET policies == {o \in PolicyOwners : Open(o) /\ boxes[o].address = a} IN
    IF policies # {} THEN policies ELSE {o \in WorkflowOwners : Open(o) /\ boxes[o].address = a}

\* As long as no route overtook another, the mail to the address of an open mailbox
\* goes to that mailbox and no other, one that was archived and came back included,
\* and a closed one keeps no address from others.
MailReachesItsBox ==
    ~overtook =>
        \A o \in Owners :
            /\ Open(o) => Takers(boxes[o].address) = {o}
            /\ boxes[o].enabled = (boxes[o].address # 0)
=============================================================================

----------------------------- MODULE PolicyDesk -----------------------------
(***************************************************************************)
(* The policy editor (pages/PolicyEditor.tsx, api/policies.ts) and the     *)
(* routes behind it (routers/policies.py).  Every field of a rule is sent  *)
(* on its own, as soon as it is left; name and brief are a form that is    *)
(* saved.  A route loads its rows, takes the next version number and       *)
(* commits, and other routes commit in between; it writes what it has      *)
(* changed of the rows it loaded and nothing else.  The read and the       *)
(* landing of a GET are one step: a page shows old rules as long as its    *)
(* GET has not landed.                                                     *)
(***************************************************************************)
EXTENDS Naturals, Sequences, FiniteSets, SequencesExt

CONSTANTS
    Desks,       \* the pages open on the policy
    Names,       \* the names it may get
    Criteria,    \* the texts a rule may get
    Seeded,      \* the rules a seed script gave the policy, without a version
    MaxIds,      \* bound on the rules ever created
    MaxCalls,    \* bound on the requests under way
    MaxTries     \* bound on the requests sent

ASSUME PolicyDeskAssumption ==
    /\ Names # {} /\ Criteria # {} /\ Seeded \in Nat /\ MaxIds \in Nat \ (0 .. Seeded - 1) 
    /\ MaxCalls \in Nat /\ MaxTries \in Nat

VARIABLES
    policy,    \* the row and its rules
    snapshots, \* the versions: number, what _snapshot saw, what the route committed
    nextId,    \* the id of the next rule
    gone,      \* the rules deleted, or replaced by a restore
    shown,     \* shown[u]: the policy the page has cached
    nameForm,  \* nameForm[u]: the name on the page
    formDirty, \* formDirty[u]: the mark of unsaved changes
    formSaving,\* formSaving[u]: whether saveState is "saving"
    refill,    \* refill[u]: the form is filled again when the page is next drawn
    typed,     \* history: what was typed last on each page
    calls,     \* the requests under way
    tries      \* how many were sent

policyVars == <<policy, snapshots, nextId, gone, shown, nameForm, formDirty, formSaving, refill, typed, calls, tries>>

InitialName == CHOOSE n \in Names : TRUE
InitialText == CHOOSE t \in Criteria : TRUE

Rule == [id : 1 .. MaxIds, pos : 0 .. MaxIds, text : Criteria]
Ids(rules) == {r.id : r \in rules}

\* The rules in their order; ties in the order of their creation.
Before(a, b) == a.pos < b.pos \/ (a.pos = b.pos /\ a.id < b.id)
Place(r, rules) == Cardinality({s \in rules : s = r \/ Before(s, r)})
Listed(rules) == [k \in 1 .. Cardinality(rules) |-> CHOOSE r \in rules : Place(r, rules) = k]
Order(rules) == [k \in DOMAIN Listed(rules) |-> Listed(rules)[k].id]

NoRow == [name |-> InitialName, num |-> 0, rules |-> {}]
Call(u, op) == [by |-> u, op |-> op, name |-> InitialName, id |-> 0, text |-> InitialText, order |-> <<>>,
                version |-> 0, row |-> NoRow, num |-> 0, saw |-> {}, pc |-> "sent"]

\* What was typed: whether no restore was asked for on the page since, whether a save was
\* under way when it was typed, and whether a save of the page has committed it.
Untyped == [name |-> InitialName, kept |-> FALSE, during |-> FALSE, saved |-> FALSE]

IsPolicy(p) == p.name \in Names /\ p.rules \subseteq Rule /\ p.num \in 0 .. Len(snapshots)

PolicyTypeOK ==
    /\ IsPolicy(policy) /\ \A r, s \in policy.rules : r.id = s.id => r = s
    /\ \A k \in DOMAIN snapshots :
          snapshots[k].num \in 1 .. k /\ snapshots[k].saw \subseteq Rule /\ snapshots[k].was \subseteq Rule
    /\ nextId \in 1 .. MaxIds + 1 /\ gone \subseteq 1 .. MaxIds
    /\ \A u \in Desks : IsPolicy(shown[u])
    /\ nameForm \in [Desks -> Names]
    /\ typed \in [Desks -> [name : Names, kept : BOOLEAN, during : BOOLEAN, saved : BOOLEAN]]
    /\ formDirty \in [Desks -> BOOLEAN] /\ formSaving \in [Desks -> BOOLEAN] /\ refill \in [Desks -> BOOLEAN]
    /\ \A u \in Desks : formSaving[u] => \E c \in calls : c.by = u /\ c.op = "save"
    /\ Cardinality(calls) <= MaxCalls /\ tries \in 0 .. MaxTries
    /\ \A c \in calls : c.by \in Desks /\ c.pc \in {"sent", "loaded", "numbered", "done"}

PolicyInit ==
    /\ policy = [name |-> InitialName, num |-> 0,
                 rules |-> {[id |-> i, pos |-> i - 1, text |-> InitialText] : i \in 1 .. Seeded}]
    /\ snapshots = <<>> /\ nextId = Seeded + 1 /\ gone = {}
    /\ shown = [u \in Desks |-> policy]
    /\ nameForm = [u \in Desks |-> InitialName] /\ typed = [u \in Desks |-> Untyped]
    /\ formDirty = [u \in Desks |-> FALSE] /\ formSaving = formDirty /\ refill = formDirty
    /\ calls = {} /\ tries = 0

-----------------------------------------------------------------------------
(* What the page sends.                                                    *)

Pending(u, op) == \E c \in calls : c.by = u /\ c.op = op

SendFrom(c, forms) ==
    /\ c \notin calls /\ Cardinality(calls) < MaxCalls /\ tries < MaxTries
    /\ calls' = calls \cup {c} /\ tries' = tries + 1
    /\ formSaving' = forms
    /\ typed' = IF c.op = "restore" THEN [typed EXCEPT ![c.by].kept = FALSE] ELSE typed
    /\ UNCHANGED <<policy, snapshots, nextId, gone, shown, nameForm, formDirty, refill>>
SendCall(c) == SendFrom(c, formSaving)

\* markDirty ends "saving": what is typed while a save is under way can be saved at once.
\* When the form is still to be filled again, drawing what was typed fills it.
TypeName(u, n) ==
    /\ n # nameForm[u]
    /\ nameForm' = [nameForm EXCEPT ![u] = IF refill[u] THEN shown[u].name ELSE n]
    /\ refill' = [refill EXCEPT ![u] = FALSE]
    /\ typed' = IF refill[u] THEN typed
                ELSE [typed EXCEPT ![u] = [name |-> n, kept |-> ~Pending(u, "restore"),
                                           during |-> Pending(u, "save"), saved |-> FALSE]]
    /\ formDirty' = [formDirty EXCEPT ![u] = TRUE] /\ formSaving' = [formSaving EXCEPT ![u] = FALSE]
    /\ UNCHANGED <<policy, snapshots, nextId, gone, shown, calls, tries>>

SavePolicy(u) ==
    /\ ~formSaving[u]
    /\ SendFrom([Call(u, "save") EXCEPT !.name = nameForm[u]], [formSaving EXCEPT ![u] = TRUE])

\* The button of an empty policy has no guard.
AddRule(u) == (Pending(u, "create") => shown[u].rules = {}) /\ SendCall(Call(u, "create"))

\* A criterion is sent whenever its field is left, typed in or not.
LeaveField(u, r, t) == SendCall([Call(u, "update") EXCEPT !.id = r.id, !.text = t])

\* The fields under "advanced" are selects and a slider: sent when they change.
PickField(u, r, t) == t # r.text /\ LeaveField(u, r, t)

DeleteRule(u, r) == SendCall([Call(u, "delete") EXCEPT !.id = r.id])

\* moveRule: the order of the page with two neighbours exchanged.
MoveDown(u, k) ==
    LET ids == Order(shown[u].rules) IN
    /\ k + 1 \in DOMAIN ids
    /\ SendCall([Call(u, "reorder") EXCEPT
                !.order = [ids EXCEPT ![k] = ids[k + 1], ![k + 1] = ids[k]]])

\* A version other than the current one; a versions modal that was closed and opened
\* again does not know of a restore under way.
RestoreSnapshot(u, k) ==
    /\ k \in DOMAIN snapshots /\ snapshots[k].num # shown[u].num
    /\ SendCall([Call(u, "restore") EXCEPT !.version = k])

-----------------------------------------------------------------------------
(* The routes.  A rule that is gone when the route loads it is a 404, and  *)
(* one that goes before the route has written it an error: such a route    *)
(* commits nothing, and its call fails.                                    *)

Turned(c, d) == calls' = (calls \ {c}) \cup {d}

RouteLoads(c) ==
    /\ c \in calls /\ c.pc = "sent"
    /\ c.op \in {"update", "delete"} => c.id \in Ids(policy.rules)
    /\ Turned(c, [c EXCEPT !.row = policy, !.pc = "loaded"])
    /\ UNCHANGED <<policy, snapshots, nextId, gone, shown, nameForm, formDirty, formSaving, refill, typed, tries>>

\* reorder_rules: the rules the request names and the policy had when it was loaded get
\* their place in the request, those that have it already are not written; the others
\* keep theirs.
PlaceIn(order, id) == Max({k \in DOMAIN order : order[k] = id})
Moved(c) == {r.id : r \in {s \in c.row.rules : Contains(c.order, s.id) /\ s.pos # PlaceIn(c.order, s.id) - 1}}
Placed(r, c) == IF r.id \in Moved(c) THEN [r EXCEPT !.pos = PlaceIn(c.order, r.id) - 1] ELSE r
NamedOnly(rules, c) == {Placed(r, c) : r \in {s \in rules : Contains(c.order, s.id)}}
Reordered(rules, c) == {Placed(r, c) : r \in rules}

\* _make_version: the number after the highest, and the rules in the collection of the
\* session.  A creation and a restore have loaded it before they change the rules; an
\* order is set on the rules it has; a save loads it now, and so does a deletion, which
\* no longer finds its rule.
Highest == Max({snapshots[k].num : k \in DOMAIN snapshots} \cup {0})
Saw(c) == CASE c.op \in {"create", "restore"} -> c.row.rules
            [] c.op = "reorder" -> Reordered(c.row.rules, c)
            [] c.op = "delete" -> {r \in policy.rules : r.id # c.id}
            [] OTHER -> policy.rules

RouteNumbers(c) ==
    /\ c \in calls /\ c.pc = "loaded" /\ c.op # "update"
    /\ Turned(c, [c EXCEPT !.num = Highest + 1, !.saw = Saw(c), !.pc = "numbered"])
    /\ UNCHANGED <<policy, snapshots, nextId, gone, shown, nameForm, formDirty, formSaving, refill, typed, tries>>

\* What is committed: the name if it is another than the loaded one, the rules, and the
\* version with its number, whatever numbers were taken since.
Commit(c, name, rules) ==
    /\ policy' = [name |-> IF name = c.row.name THEN policy.name ELSE name, num |-> c.num, rules |-> rules]
    /\ snapshots' = Append(snapshots, [num |-> c.num, name |-> name, saw |-> c.saw, was |-> rules])

\* create_rule: behind the last position it has loaded.
CreateRoute(c) ==
    LET rule == [id |-> nextId, pos |-> Max({r.pos + 1 : r \in c.row.rules} \cup {0}), text |-> c.text] IN
    /\ nextId <= MaxIds
    /\ nextId' = nextId + 1 /\ UNCHANGED gone
    /\ Commit(c, c.row.name, policy.rules \cup {rule})

\* update_rule makes no version, and writes a text other than the one it has loaded.
Edited(rules, id, t) == {IF r.id = id THEN [r EXCEPT !.text = t] ELSE r : r \in rules}
UpdateRoute(c) ==
    /\ c.id \in Ids(policy.rules)
    /\ policy' = IF \E r \in c.row.rules : r.id = c.id /\ r.text # c.text
                 THEN [policy EXCEPT !.rules = Edited(@, c.id, c.text)] ELSE policy
    /\ UNCHANGED <<snapshots, nextId, gone>>

DeleteRoute(c) ==
    /\ gone' = gone \cup {c.id} /\ UNCHANGED nextId
    /\ Commit(c, c.row.name, {r \in policy.rules : r.id # c.id})

ReorderRoute(c) ==
    /\ Moved(c) \subseteq Ids(policy.rules)
    /\ Commit(c, c.row.name, Reordered(policy.rules, c)) /\ UNCHANGED <<nextId, gone>>

SaveRoute(c) == Commit(c, c.name, policy.rules) /\ UNCHANGED <<nextId, gone>>

\* restore_policy_version: every rule it has loaded is replaced by a new one.
RestoreRoute(c) ==
    LET old == snapshots[c.version]
        seq == Listed(old.saw) IN
    /\ nextId + Len(seq) <= MaxIds + 1
    /\ nextId' = nextId + Len(seq) /\ gone' = gone \cup Ids(c.row.rules)
    /\ Commit(c, old.name, {r \in policy.rules : r.id \notin Ids(c.row.rules)}
                              \cup {[seq[k] EXCEPT !.id = nextId + k - 1] : k \in DOMAIN seq})

PolicyRouteCommits(c) ==
    /\ c \in calls /\ c.pc = IF c.op = "update" THEN "loaded" ELSE "numbered"
    /\ CASE c.op = "create" -> CreateRoute(c)
         [] c.op = "update" -> UpdateRoute(c)
         [] c.op = "delete" -> DeleteRoute(c)
         [] c.op = "reorder" -> ReorderRoute(c)
         [] c.op = "save" -> SaveRoute(c)
         [] c.op = "restore" -> RestoreRoute(c)
    /\ Turned(c, [c EXCEPT !.pc = "done"])
    /\ typed' = IF c.op = "save" /\ c.name = typed[c.by].name THEN [typed EXCEPT ![c.by].saved = TRUE] ELSE typed
    /\ UNCHANGED <<shown, nameForm, formDirty, formSaving, refill, tries>>

-----------------------------------------------------------------------------
(* The answers.                                                            *)

SaveOver(c) == IF c.op = "save" THEN [formSaving EXCEPT ![c.by] = FALSE] ELSE formSaving

\* handleSave clears the mark and "saving", whatever was typed since and a second save
\* under way or not.  After a restore the form is to be filled once more: at once if a
\* versions modal is open, which closes, and else when the page is next drawn.
CallAnswered(c, now) ==
    /\ c \in calls /\ c.pc = "done" /\ (now => c.op = "restore")
    /\ calls' = calls \ {c}
    /\ formDirty' = IF c.op = "save" THEN [formDirty EXCEPT ![c.by] = FALSE] ELSE formDirty
    /\ formSaving' = SaveOver(c)
    /\ nameForm' = IF now THEN [nameForm EXCEPT ![c.by] = shown[c.by].name] ELSE nameForm
    /\ refill' = IF c.op = "restore" THEN [refill EXCEPT ![c.by] = ~now] ELSE refill
    /\ UNCHANGED <<policy, snapshots, nextId, gone, shown, typed, tries>>

CallFails(c) ==
    /\ c \in calls
    /\ calls' = calls \ {c}
    /\ formSaving' = SaveOver(c)
    /\ UNCHANGED <<policy, snapshots, nextId, gone, shown, nameForm, formDirty, refill, typed, tries>>

\* The page is drawn for some other reason: from the policy it has, which is the old one
\* as long as the refetch has not landed.
Refilled(u) ==
    /\ refill[u]
    /\ nameForm' = [nameForm EXCEPT ![u] = shown[u].name] /\ refill' = [refill EXCEPT ![u] = FALSE]
    /\ UNCHANGED <<policy, snapshots, nextId, gone, shown, formDirty, formSaving, typed, calls, tries>>

\* A refetch brings the rules up to date, and fills the form only if that is still to be
\* done.
FilledAgain(u) == [nameForm EXCEPT ![u] = policy.name]
FilledOnce(u) == IF refill[u] THEN [nameForm EXCEPT ![u] = policy.name] ELSE nameForm

PolicyLands(u) ==
    /\ shown[u] # policy
    /\ shown' = [shown EXCEPT ![u] = policy]
    /\ nameForm' = FilledOnce(u) /\ refill' = [refill EXCEPT ![u] = FALSE]
    /\ UNCHANGED <<policy, snapshots, nextId, gone, formDirty, formSaving, typed, calls, tries>>

PolicyNext ==
    \/ \E u \in Desks :
          \/ \E n \in Names : TypeName(u, n)
          \/ \E r \in shown[u].rules : DeleteRule(u, r) \/ \E t \in Criteria : LeaveField(u, r, t) \/ PickField(u, r, t)
          \/ \E k \in 1 .. MaxIds : MoveDown(u, k)
          \/ \E k \in 1 .. MaxTries : RestoreSnapshot(u, k)
          \/ SavePolicy(u) \/ AddRule(u) \/ PolicyLands(u) \/ Refilled(u)
    \/ \E c \in calls :
          \/ RouteLoads(c) \/ RouteNumbers(c) \/ PolicyRouteCommits(c) \/ CallFails(c)
          \/ \E now \in BOOLEAN : CallAnswered(c, now)

PolicySpec == PolicyInit /\ [][PolicyNext]_policyVars

-----------------------------------------------------------------------------
(* Properties.                                                             *)

\* A rule leaves the policy only because it was deleted or a version restored:
\* no request built on the rules an old page knows drops those added since.
RulesOnlyLeaveByDecision == Ids(policy.rules) = (1 .. nextId - 1) \ gone

\* What was typed in the form stays in it, whatever the page fetches because of its own
\* rules or of other pages, until the user asks for a restore; and the mark of unsaved
\* changes goes only when a save of the page has committed what was typed, unless it was
\* typed while a save was under way.
TypingIsKept ==
    \A u \in Desks : typed[u].kept =>
        /\ nameForm[u] = typed[u].name
        /\ formDirty[u] \/ typed[u].saved \/ typed[u].during

\* The claim of the history ("each save creates a snapshot"): a version holds the
\* rules the policy had when it was made.
SnapshotIsTheSave == \A k \in DOMAIN snapshots : snapshots[k].saw = snapshots[k].was
=============================================================================
